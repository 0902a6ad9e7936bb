------------------------------- MODULE Mailbox -------------------------------
(***************************************************************************)
(* Basic/Mailbox.cpp: a ring of messages between one writer and one        *)
(* reader.  A post loads the read offset, writes the message, moves the    *)
(* write offset and then signals the reader; a reader that found the box   *)
(* empty waits for that signal.  The signal is SIGCONT, which the program  *)
(* blocks nowhere: one sent to a thread that is not in sigwait is lost.    *)
(*                                                                         *)
(* The ring is kept cell by cell, so that a message written over one that  *)
(* was not read is seen.  Sizes are counted in cells and include the       *)
(* header.  Only one of the two offsets is ever moved by another thread,   *)
(* so that a thread's load of its own offset is no step of its own.        *)
(***************************************************************************)
EXTENDS Integers, Sequences

CONSTANTS
    Capacity,   \* mailbox->capacity
    Mail,       \* what is posted
    SizeOf(_)   \* sizeof(Message) + message->size

ASSUME MailboxAssumption ==
    /\ Capacity \in Nat \ {0}
    /\ \A m \in Mail : SizeOf(m) \in Nat \ {0}

VARIABLES
    ring,         \* items: each cell the message it is of, and which part
    readOffset,   \* read_offset, moved by the reader
    writeOffset,  \* write_offset, moved by the writer
    tied,         \* reader_thread.is_tied
    posting,      \* the writer: what it posts and how far it is
    reading,      \* the reader: "away", "dozing" (tied), "asleep" or "awake"
    slept         \* history: write_offset when the reader fell asleep

boxVars    == <<ring, readOffset, writeOffset>>
readerVars == <<tied, reading, slept>>
mailVars   == <<boxVars, posting, readerVars>>

NotPosting == [step |-> "none"]

MailboxInit ==
    /\ ring = [i \in 0 .. Capacity - 1 |-> <<>>]
    /\ readOffset = 0
    /\ writeOffset = 0
    /\ tied = FALSE
    /\ posting = NotPosting
    /\ reading = "away"
    /\ slept = 0

FillCount(read) == writeOffset - read

BytesLeft(read) == Capacity - FillCount(read)

(* mailbox_post up to the load of the read offset in bytes_left.           *)
StartPost(m) == posting' = [step |-> "posting", mail |-> m]

(* Mutant: only a full ring refuses.                                       *)
Refused_FullOnly == BytesLeft(readOffset) = 0

(* Refused when not even one byte would be left.                           *)
Refused == SizeOf(posting.mail) >= BytesLeft(readOffset)

CheckRoom ==
    /\ posting.step = "posting"
    /\ ~Refused
    /\ posting' = [posting EXCEPT !.step = "room"]
    /\ UNCHANGED <<boxVars, readerVars>>

(* EWOULDBLOCK: nothing was posted.                                        *)
RefusePost ==
    /\ posting.step = "posting"
    /\ Refused
    /\ posting' = [posting EXCEPT !.step = "refused"]
    /\ UNCHANGED <<boxVars, readerVars>>

(* The message goes to where the write offset is, which then moves.        *)
WriteMail ==
    /\ posting.step = "room"
    /\ LET m == posting.mail
           at(i) == (writeOffset + i) % Capacity
       IN  /\ ring' = [c \in DOMAIN ring |->
                  IF \E i \in 0 .. SizeOf(m) - 1 : at(i) = c
                  THEN <<m, CHOOSE i \in 0 .. SizeOf(m) - 1 : at(i) = c>>
                  ELSE ring[c]]
           /\ writeOffset' = writeOffset + SizeOf(m)
    /\ posting' = [posting EXCEPT !.step = "written"]
    /\ UNCHANGED <<readOffset, readerVars>>

WakeUp == reading' = "awake" /\ slept' = 0

(* Mutant: a reader is signalled only for the first message in the box.    *)
SignalReader_IfEmpty ==
    /\ posting.step = "written"
    /\ posting' = [posting EXCEPT !.step = "posted"]
    /\ IF tied /\ reading = "asleep" /\ FillCount(readOffset) = SizeOf(posting.mail)
       THEN WakeUp ELSE UNCHANGED <<reading, slept>>
    /\ UNCHANGED <<boxVars, tied>>

(* pthread_kill(SIGCONT) wakes the reader only if it waits at this moment. *)
SignalReader ==
    /\ posting.step = "written"
    /\ posting' = [posting EXCEPT !.step = "posted"]
    /\ IF tied /\ reading = "asleep" THEN WakeUp ELSE UNCHANGED <<reading, slept>>
    /\ UNCHANGED <<boxVars, tied>>

(* mailbox_reader() ties the reading thread and mailbox_wait() waits.      *)
TieReader == tied' = TRUE /\ reading' = "dozing" /\ UNCHANGED slept

FallAsleep ==
    /\ reading = "dozing"
    /\ reading' = "asleep"
    /\ slept' = writeOffset
    /\ UNCHANGED <<boxVars, tied, posting>>

(* mailbox_peek.                                                           *)
Found == FillCount(readOffset) # 0

(* The message at an offset, if all of it is there.                        *)
MailAt(offset) == ring[offset % Capacity][1]

Intact(offset) ==
    /\ ring[offset % Capacity] # <<>>
    /\ \A i \in 0 .. SizeOf(MailAt(offset)) - 1 :
           ring[(offset + i) % Capacity] = <<MailAt(offset), i>>

(* mailbox_read.                                                           *)
TakeMail == readOffset' = readOffset + SizeOf(MailAt(readOffset))

-----------------------------------------------------------------------------

(* What the ring holds between the offsets.                                *)
InBox ==
    LET from[o \in Nat] ==
            IF o = writeOffset THEN <<>>
            ELSE IF Intact(o) /\ o < writeOffset
                 THEN <<MailAt(o)>> \o from[o + SizeOf(MailAt(o))]
                 ELSE <<[kind |-> "garbage"]>>
    IN  from[readOffset]

Posted == INSTANCE PostBox WITH box <- InBox

(* The ring is a box: nothing posted is overwritten before it was read,    *)
(* whatever the two threads do meanwhile (mailbox_post, mailbox_read).     *)
ImplementsPostBox == Posted!Spec

(* No VERIFY of fill_count fails, on either thread: the count lies between *)
(* zero and the capacity; and what mailbox_read finds in the box has the   *)
(* size it says (Mailbox.cpp:82-87, 199-211).                              *)
CountsFit ==
    /\ FillCount(readOffset) \in 0 .. Capacity
    /\ Found => Intact(readOffset)

(* A reader that sleeps with mail in its box sleeps on mail posted before  *)
(* it fell asleep, whose signal came too early; a post that finds it       *)
(* asleep wakes it (mailbox_post, mailbox_wait).                           *)
SleepsOnOldMail ==
    reading = "asleep" /\ posting.step # "written" => writeOffset = slept
=============================================================================
