------------------------- MODULE MessageQueueProofs -------------------------
(***************************************************************************)
(* QueueInv is an inductive invariant of the message queue, for every      *)
(* capacity, header size, set of message sizes and number of sends within  *)
(* the limits of MessageQueueInvariant.  From it follow the safety         *)
(* properties, and that the queue implements MessageChannel.               *)
(***************************************************************************)
EXTENDS MessageQueueInvariant, TLAPS

USE DEF Count

-----------------------------------------------------------------------------
(* Arithmetic of the ring                                                  *)

(* Two offsets less than a whole ring apart are at different cells.        *)
LEMMA ModApart ==
    ASSUME NEW c \in Nat \ {0}, NEW a \in Nat, NEW b \in Nat,
           a < b, b < a + c
    PROVE  a % c # b % c
<1>1. /\ a = c * (a \div c) + (a % c)
      /\ b = c * (b \div c) + (b % c)
      /\ a \div c \in Int /\ b \div c \in Int
      /\ a % c \in 0 .. c - 1 /\ b % c \in 0 .. c - 1
  OBVIOUS
<1>2. SUFFICES ASSUME a % c = b % c PROVE FALSE
  OBVIOUS
<1>. DEFINE d == (b \div c) - (a \div c)
<1>3. d \in Int /\ b - a = c * d
  BY <1>1, <1>2
<1>4. CASE d <= 0
  <2>1. c * d <= 0
    BY <1>3, <1>4
  <2> QED BY <2>1, <1>3
<1>5. CASE d >= 1
  <2>1. c * d >= c
    BY <1>3, <1>5
  <2> QED BY <2>1, <1>3
<1> QED BY <1>3, <1>4, <1>5

LEMMA ModSmall ==
    ASSUME NEW c \in Nat \ {0}, NEW a \in 0 .. c - 1
    PROVE  a % c = a
  OBVIOUS

LEMMA DivisionAtLeast ==
    ASSUME NEW n \in Nat, NEW c \in Nat, NEW h \in Nat \ {0}, n * h <= c
    PROVE  n <= c \div h
<1>. DEFINE q == c \div h
<1>1. q \in Int /\ c = h * q + (c % h) /\ c % h \in 0 .. h - 1
  OBVIOUS
<1>2. CASE n > q
  <2>1. h * n >= h * (q + 1)
    BY <1>1, <1>2
  <2>2. h * (q + 1) = h * q + h
    BY <1>1
  <2>3. h * n = n * h
    OBVIOUS
  <2>4. h * q \in Int /\ h * n \in Int
    BY <1>1
  <2>. HIDE DEF q
  <2> QED BY <1>1, <2>1, <2>2, <2>3, <2>4
<1> QED BY <1>1, <1>2

LEMMA RunInCells ==
    ASSUME NEW o \in Nat, NEW n \in Nat
    PROVE  Run(o, n) \subseteq Cells
  BY RingAssumption DEF Run, Cells

(* Runs that follow one another within a ring's length share no cell.      *)
LEMMA RunsApart ==
    ASSUME NEW a \in Nat, NEW n \in Nat, NEW b \in Nat, NEW m \in Nat,
           a + n <= b, b + m <= a + Capacity
    PROVE  \A c \in Run(a, n) : c \notin Run(b, m)
<1>1. SUFFICES ASSUME NEW i \in 0 .. n - 1, NEW j \in 0 .. m - 1
               PROVE  (a + i) % Capacity # (b + j) % Capacity
  BY DEF Run
<1>2. /\ a + i \in Nat /\ b + j \in Nat
      /\ a + i < b + j /\ b + j < (a + i) + Capacity
  BY RingAssumption
<1> QED BY <1>2, ModApart, RingAssumption

LEMMA RunParts ==
    ASSUME NEW o \in Nat, NEW n \in Nat, NEW m \in Nat
    PROVE  \A c \in Run(o, n + m) : c \in Run(o, n) \/ c \in Run(o + n, m)
<1>1. SUFFICES ASSUME NEW k \in 0 .. n + m - 1
               PROVE  \/ (o + k) % Capacity \in Run(o, n)
                      \/ (o + k) % Capacity \in Run(o + n, m)
  BY DEF Run
<1>2. CASE k < n
  BY <1>2 DEF Run
<1>3. CASE k >= n
  <2>1. k - n \in 0 .. m - 1 /\ o + k = (o + n) + (k - n)
    BY <1>3
  <2> QED BY <2>1 DEF Run
<1> QED BY <1>2, <1>3

LEMMA FirstCell ==
    ASSUME NEW o \in Nat, NEW n \in Nat \ {0}
    PROVE  CellAt(o) \in Run(o, n)
<1>1. 0 \in 0 .. n - 1 /\ o + 0 = o
  OBVIOUS
<1> QED BY <1>1 DEF CellAt, Run

-----------------------------------------------------------------------------
(* What the invariant says of a single message                             *)

LEMMA MessageFacts ==
    ASSUME NEW m \in Message
    PROVE  /\ m \in Datum
           /\ m.size \in Nat \ {0}
           /\ Bytes(m) \in Nat
           /\ Bytes(m) >= HeaderSize + 1
           /\ Bytes(m) < Capacity
<1>1. m.size \in Sizes /\ m.id \in 1 .. MaxSends
  BY DEF Message
<1>2. m \in Datum
  BY DEF Message, Datum
<1>3. m.size \in Nat \ {0} /\ HeaderSize + m.size < Capacity
  BY <1>1, QueueAssumption, FramesFit
<1> QED BY <1>2, <1>3, QueueAssumption, RingAssumption DEF Bytes

LEMMA SentFacts ==
    ASSUME QueueInv, NEW i \in 1 .. Len(sent)
    PROVE  /\ sent[i] \in Message
           /\ starts[i] \in Nat
           /\ starts[i] + Bytes(sent[i]) <= write_offset
           /\ i \in Unread => read_offset <= starts[i]
<1>0. sent \in Seq(Message) /\ starts \in Seq(Nat) /\ Len(starts) = Len(sent)
  BY DEF QueueInv, TypeOK, Layout
<1>1. sent[i] \in Message /\ starts[i] \in Nat
  BY <1>0
<1>2. Bytes(sent[i]) \in Nat
  BY <1>1, MessageFacts
<1>3. ASSUME i \in Unread PROVE read_offset <= starts[i]
  <2>. Len(taken) \in Nat /\ Len(sent) \in Nat
    BY DEF QueueInv, TypeOK
  <2>1. /\ Len(taken) + 1 \in 1 .. Len(sent)
        /\ read_offset = starts[Len(taken) + 1]
    BY <1>3 DEF QueueInv, Layout, StartOf, Unread
  <2>2. CASE i = Len(taken) + 1
    BY <2>1, <2>2, <1>1
  <2>3. CASE i > Len(taken) + 1
    <3>1. sent[Len(taken) + 1] \in Message /\ starts[Len(taken) + 1] \in Nat
      BY <1>0, <2>1
    <3>2. starts[Len(taken) + 1] + Bytes(sent[Len(taken) + 1]) <= starts[i]
      BY <2>1, <2>3 DEF QueueInv, Layout
    <3> QED BY <2>1, <3>1, <3>2, MessageFacts, <1>1
  <2> QED BY <2>2, <2>3, <1>3 DEF Unread, QueueInv, TypeOK
<1> QED BY <1>1, <1>3 DEF QueueInv, Layout

(* The reader stands at the first unread message.                          *)
LEMMA AtFirstUnread ==
    ASSUME QueueInv, Len(taken) < Len(sent)
    PROVE  /\ Len(taken) + 1 \in Unread
           /\ Len(taken) + 1 \in 1 .. Len(sent)
           /\ read_offset = starts[Len(taken) + 1]
           /\ items \in Mappings
           /\ \A c \in Run(read_offset, Bytes(sent[Len(taken) + 1])) :
                 memory[items][c] = sent[Len(taken) + 1]
<1>1. /\ Len(taken) + 1 \in Unread
      /\ Len(taken) + 1 \in 1 .. Len(sent)
      /\ read_offset = starts[Len(taken) + 1]
  BY DEF QueueInv, Layout, StartOf, Unread, TypeOK
<1>2. items \in Mappings
  BY DEF QueueInv, Mapped, TypeOK
<1> QED BY <1>1, <1>2 DEF QueueInv, UnreadIntact

(* A step that leaves the ring and the histories alone.                    *)
LEMMA RingUnchanged ==
    ASSUME QueueInv, UNCHANGED <<ringVars, history>>
    PROVE  Layout' /\ TakenInOrder' /\ UnreadIntact'
<1>. USE DEF QueueInv, ringVars, history
<1>1. Layout'
  BY DEF Layout, StartOf, Bytes
<1>2. TakenInOrder'
  BY DEF TakenInOrder
<1>3. UnreadIntact'
  BY DEF UnreadIntact, Unread, Run, Bytes
<1> QED BY <1>1, <1>2, <1>3

-----------------------------------------------------------------------------
(* A queue that th_message_queue_init set up is as QueueInv says.          *)
THEOREM InitQueueInv == Init => QueueInv
<1>. SUFFICES ASSUME Init PROVE QueueInv
  OBVIOUS
<1>. USE RingAssumption, QueueAssumption DEF Init, RingInit
<1>1. TypeOK
  BY DEF TypeOK, Mappings, Cells, WriterPCs, ReaderPCs, Zero, Datum
<1>2. Layout
  BY DEF Layout, StartOf
<1>3. Bounded /\ TakenInOrder /\ Mapped
  BY DEF Bounded, TakenInOrder, Mapped
<1>4. UnreadIntact /\ WriterKnows /\ ReaderKnows /\ TokensMatch
  BY DEF UnreadIntact, Unread, WriterKnows, ReaderKnows, TokensMatch
<1> QED BY <1>1, <1>2, <1>3, <1>4 DEF QueueInv

-----------------------------------------------------------------------------
(* The writer's steps                                                      *)

LEMMA SendCallStep ==
    ASSUME QueueInv, NEW size \in Sizes, Send(size)
    PROVE  QueueInv'
<1>. USE DEF QueueInv, Send, ringVars, readerVars, history
<1>1. TypeOK'
  BY QueueAssumption DEF TypeOK, Message, Datum, WriterPCs
<1>2. Layout' /\ TakenInOrder' /\ UnreadIntact'
  BY RingUnchanged
<1>3. Bounded' /\ Mapped'
  BY QueueAssumption DEF Bounded, Mapped, TypeOK
<1>4. WriterKnows' /\ ReaderKnows' /\ TokensMatch'
  BY QueueAssumption DEF WriterKnows, ReaderKnows, TokensMatch, TypeOK, Message
<1> QED BY <1>1, <1>2, <1>3, <1>4

LEMMA WriterEnsureStep ==
    ASSUME QueueInv, WriterEnsure
    PROVE  QueueInv'
<1>. USE DEF QueueInv, WriterEnsure, WriterGoto, EnvironmentFails, ringVars,
             readerVars, history
<1>1. TypeOK'
  BY QueueAssumption DEF TypeOK, WriterPCs
<1>2. Layout' /\ TakenInOrder' /\ UnreadIntact'
  BY RingUnchanged
<1>3. Bounded' /\ Mapped'
  BY DEF Bounded, Mapped
<1>4. WriterKnows' /\ ReaderKnows' /\ TokensMatch'
  BY DEF WriterKnows, ReaderKnows, TokensMatch
<1> QED BY <1>1, <1>2, <1>3, <1>4

LEMMA WriterInstallStep ==
    ASSUME QueueInv, WriterInstall
    PROVE  QueueInv'
<1>. USE DEF QueueInv, WriterInstall, WriterGoto, readerVars, history
<1>0. Len(sent) = 0 /\ Unread = {}
  BY DEF Mapped, TypeOK, Layout, Unread
<1>1. TypeOK'
  BY DEF TypeOK, WriterPCs, Mappings
<1>2. Layout' /\ TakenInOrder'
  BY DEF Layout, StartOf, Bytes, TakenInOrder
<1>3. UnreadIntact'
  BY <1>0 DEF UnreadIntact, Unread
<1>4. Bounded' /\ Mapped'
  BY SingleMapper DEF Bounded, Mapped
<1>5. WriterKnows' /\ ReaderKnows' /\ TokensMatch'
  BY DEF WriterKnows, ReaderKnows, TokensMatch
<1> QED BY <1>1, <1>2, <1>3, <1>4, <1>5

(* The room is computed from an offset the reader only ever moves on.      *)
LEMMA CheckRoomStep ==
    ASSUME QueueInv, CheckRoom
    PROVE  QueueInv'
<1>. USE DEF QueueInv, CheckRoom, WriterGoto, ringVars, readerVars, history
<1>1. TypeOK'
  BY DEF TypeOK, WriterPCs
<1>2. Layout' /\ TakenInOrder' /\ UnreadIntact'
  BY RingUnchanged
<1>3. Bounded' /\ Mapped'
  BY DEF Bounded, Mapped
<1>4. WriterKnows'
  <2>1. CASE wpc' = "idle"
    BY <2>1 DEF WriterKnows
  <2>2. CASE wpc' = "header"
    <3>1. wmsg \in Message /\ Bytes(wmsg) \in Nat
      BY MessageFacts DEF WriterKnows
    <3>2. RingSizeLeft >= Bytes(wmsg)
      <4>1. RingSizeLeft \in Int
        BY RingAssumption DEF RingSizeLeft, RingSize, TypeOK
      <4>2. ~(RingSizeLeft < Bytes(wmsg))
        BY <2>2
      <4> QED BY <3>1, <4>1, <4>2
    <3>3. write_offset + Bytes(wmsg) - read_offset <= Capacity
      <4>1. write_offset \in Nat /\ read_offset \in Nat
        BY RingAssumption DEF TypeOK
      <4>2. write_offset - read_offset <= Capacity
        BY DEF Layout
      <4> HIDE DEF QueueInv, CheckRoom
      <4> QED BY <3>1, <3>2, <4>1, <4>2, RingAssumption
              DEF RingSizeLeft, RingSize
    <3> QED BY <2>2, <3>1, <3>3 DEF WriterKnows, Bytes
  <2> QED BY <2>1, <2>2
<1>5. ReaderKnows' /\ TokensMatch'
  BY DEF ReaderKnows, TokensMatch
<1> QED BY <1>1, <1>2, <1>3, <1>4, <1>5

(* The cells the writer was granted hold no unread message.                *)
LEMMA GrantedIsFree ==
    ASSUME QueueInv, wpc \in {"header", "payload", "produce"},
           NEW i \in Unread
    PROVE  \A c \in Run(starts[i], Bytes(sent[i])) :
              c \notin Run(write_offset, Bytes(wmsg))
<1>1. /\ wmsg \in Message
      /\ write_offset + Bytes(wmsg) - read_offset <= Capacity
  BY DEF QueueInv, WriterKnows
<1>2. i \in 1 .. Len(sent)
  BY DEF Unread, QueueInv, TypeOK
<1>3. /\ starts[i] \in Nat
      /\ Bytes(sent[i]) \in Nat
      /\ starts[i] + Bytes(sent[i]) <= write_offset
      /\ read_offset <= starts[i]
  BY <1>2, SentFacts, MessageFacts
<1>4. /\ Bytes(wmsg) \in Nat
      /\ write_offset \in Nat /\ read_offset \in Nat
  BY <1>1, MessageFacts, RingAssumption DEF QueueInv, TypeOK
<1>5. write_offset + Bytes(wmsg) <= starts[i] + Capacity
  BY <1>1, <1>3, <1>4, RingAssumption
<1> QED BY <1>3, <1>4, <1>5, RunsApart

LEMMA UnreadInCells ==
    ASSUME QueueInv, NEW i \in Unread
    PROVE  Run(starts[i], Bytes(sent[i])) \subseteq Cells
<1>1. i \in 1 .. Len(sent)
  BY DEF Unread, QueueInv, TypeOK
<1>2. starts[i] \in Nat /\ Bytes(sent[i]) \in Nat
  BY <1>1, SentFacts, MessageFacts
<1> QED BY <1>2, RunInCells

LEMMA GrantedParts ==
    ASSUME NEW m \in Message, write_offset \in Nat
    PROVE  /\ \A c \in Run(write_offset, HeaderSize) :
                 c \in Run(write_offset, Bytes(m))
           /\ \A c \in Run(write_offset + HeaderSize, m.size) :
                 c \in Run(write_offset, Bytes(m))
           /\ \A c \in Run(write_offset, Bytes(m)) :
                 \/ c \in Run(write_offset, HeaderSize)
                 \/ c \in Run(write_offset + HeaderSize, m.size)
<1>. m.size \in Nat /\ HeaderSize \in Nat
  BY MessageFacts, QueueAssumption
<1>1. \A k \in 0 .. HeaderSize - 1 : k \in 0 .. HeaderSize + m.size - 1
  OBVIOUS
<1>2. \A k \in 0 .. m.size - 1 :
         /\ HeaderSize + k \in 0 .. HeaderSize + m.size - 1
         /\ write_offset + (HeaderSize + k) = (write_offset + HeaderSize) + k
  OBVIOUS
<1>3. \A c \in Run(write_offset, HeaderSize) : c \in Run(write_offset, Bytes(m))
  <2>1. SUFFICES ASSUME NEW k \in 0 .. HeaderSize - 1
                 PROVE  (write_offset + k) % Capacity
                          \in Run(write_offset, HeaderSize + m.size)
    BY DEF Run, Bytes
  <2> QED BY <1>1 DEF Run
<1>4. \A c \in Run(write_offset + HeaderSize, m.size) :
         c \in Run(write_offset, Bytes(m))
  BY <1>2 DEF Run, Bytes
<1> QED BY <1>3, <1>4, RunParts DEF Bytes

LEMMA WriteHeaderStep ==
    ASSUME QueueInv, WriteHeader
    PROVE  QueueInv'
<1>. USE DEF QueueInv, WriteHeader, readerVars, history
<1>0. /\ wmsg \in Message /\ items \in Mappings
      /\ write_offset \in Nat
  BY RingAssumption DEF WriterKnows, Mapped, TypeOK
<1>1. TypeOK'
  BY <1>0, MessageFacts DEF TypeOK, WriterPCs, WriteRun
<1>2. Layout' /\ TakenInOrder'
  BY DEF Layout, StartOf, Bytes, TakenInOrder
<1>3. UnreadIntact'
  <2>1. SUFFICES ASSUME NEW i \in Unread,
                        NEW c \in Run(starts[i], Bytes(sent[i]))
                 PROVE  memory'[items][c] = sent[i]
    BY DEF UnreadIntact, Unread, Run, Bytes
  <2>2. c \notin Run(write_offset, HeaderSize)
    BY <1>0, GrantedIsFree, GrantedParts
  <2>3. c \in Cells
    BY UnreadInCells
  <2> QED BY <1>0, <2>2, <2>3 DEF WriteRun, UnreadIntact, TypeOK
<1>4. Bounded' /\ Mapped'
  BY DEF Bounded, Mapped
<1>5. WriterKnows'
  <2>1. \A c \in Run(write_offset, HeaderSize) : memory'[items][c] = wmsg
    BY <1>0, RunInCells, QueueAssumption DEF WriteRun, TypeOK
  <2> QED BY <2>1 DEF WriterKnows, Run, Bytes
<1>6. ReaderKnows' /\ TokensMatch'
  BY DEF ReaderKnows, TokensMatch
<1> QED BY <1>1, <1>2, <1>3, <1>4, <1>5, <1>6

LEMMA WritePayloadStep ==
    ASSUME QueueInv, WritePayload
    PROVE  QueueInv'
<1>. USE DEF QueueInv, WritePayload, WriterGoto, readerVars, history
<1>0. /\ wmsg \in Message /\ items \in Mappings /\ wptr = items
      /\ write_offset \in Nat
      /\ wmsg.size \in Nat /\ HeaderSize \in Nat /\ Bytes(wmsg) \in Nat
  BY MessageFacts, RingAssumption, QueueAssumption
  DEF WriterKnows, Mapped, TypeOK
<1>1. TypeOK'
  BY <1>0, MessageFacts DEF TypeOK, WriterPCs, WriteRun
<1>2. Layout' /\ TakenInOrder'
  BY DEF Layout, StartOf, Bytes, TakenInOrder
<1>3. UnreadIntact'
  <2>1. SUFFICES ASSUME NEW i \in Unread,
                        NEW c \in Run(starts[i], Bytes(sent[i]))
                 PROVE  memory'[items][c] = sent[i]
    BY DEF UnreadIntact, Unread, Run, Bytes
  <2>2. c \notin Run(write_offset + HeaderSize, wmsg.size)
    BY <1>0, GrantedIsFree, GrantedParts
  <2>3. c \in Cells
    BY UnreadInCells
  <2> QED BY <1>0, <2>2, <2>3 DEF WriteRun, UnreadIntact, TypeOK
<1>4. Bounded' /\ Mapped'
  BY DEF Bounded, Mapped
<1>5. WriterKnows'
  <2>1. ASSUME NEW c \in Run(write_offset, Bytes(wmsg))
        PROVE  memory'[items][c] = wmsg
    <3>1. c \in Cells
      BY <1>0, RunInCells
    <3>2. CASE c \in Run(write_offset + HeaderSize, wmsg.size)
      BY <1>0, <3>1, <3>2 DEF WriteRun, TypeOK
    <3>3. CASE c \notin Run(write_offset + HeaderSize, wmsg.size)
      <4>1. c \in Run(write_offset, HeaderSize)
        BY <1>0, <3>3, GrantedParts
      <4> QED BY <1>0, <3>1, <3>3, <4>1 DEF WriteRun, TypeOK, WriterKnows
    <3> QED BY <3>2, <3>3
  <2>2. \A c \in Run(write_offset, HeaderSize) : memory'[items][c] = wmsg
    BY <1>0, <2>1, GrantedParts
  <2> QED BY <2>1, <2>2 DEF WriterKnows, Run, Bytes
<1>6. ReaderKnows' /\ TokensMatch'
  BY DEF ReaderKnows, TokensMatch
<1> QED BY <1>1, <1>2, <1>3, <1>4, <1>5, <1>6

LEMMA SumAtLeast ==
    ASSUME NEW x \in Int, NEW y \in Int, NEW b \in Int, NEW h \in Int,
           x >= y, b >= h
    PROVE  x + b >= y + h
  OBVIOUS

LEMMA ProduceStaysBelow ==
    ASSUME QueueInv, wpc = "produce"
    PROVE  /\ write_offset + Bytes(wmsg) <= (Len(sent) + 1) * Capacity
           /\ write_offset + Bytes(wmsg) < OffsetModulus
<1>1. /\ wmsg \in Message /\ Bytes(wmsg) \in Nat /\ Bytes(wmsg) < Capacity
      /\ write_offset \in Nat /\ write_offset <= Len(sent) * Capacity
      /\ Len(sent) \in Nat /\ attempts \in Nat
      /\ Len(sent) + 1 <= attempts /\ attempts <= MaxSends
  BY MessageFacts, RingAssumption, QueueAssumption
  DEF QueueInv, WriterKnows, Bounded, TypeOK
<1>2. (Len(sent) + 1) * Capacity = Len(sent) * Capacity + Capacity
  BY <1>1, RingAssumption
<1>3. (MaxSends - (Len(sent) + 1)) * Capacity >= 0
  BY <1>1, RingAssumption, QueueAssumption
<1>4. (Len(sent) + 1) * Capacity <= MaxSends * Capacity
  BY <1>1, <1>3, RingAssumption, QueueAssumption
<1> QED BY <1>1, <1>2, <1>4, NoWrap, RingAssumption, QueueAssumption

LEMMA ProduceMessageStep ==
    ASSUME QueueInv, ProduceMessage
    PROVE  QueueInv'
<1>. USE DEF QueueInv, ProduceMessage, WriterGoto, readerVars
<1>. DEFINE n == Len(sent)
<1>0. /\ wmsg \in Message /\ Bytes(wmsg) \in Nat
      /\ Bytes(wmsg) >= HeaderSize + 1 /\ Bytes(wmsg) < Capacity
      /\ items \in Mappings
      /\ write_offset \in Nat /\ read_offset \in Nat
      /\ n \in Nat /\ Len(taken) \in Nat /\ Len(starts) = n
      /\ sent \in Seq(Message) /\ starts \in Seq(Nat)
  BY MessageFacts, RingAssumption DEF WriterKnows, Mapped, TypeOK, Layout
<1>1. /\ write_offset' = write_offset + Bytes(wmsg)
      /\ write_offset' \in 0 .. OffsetModulus - 1
  <2>1. write_offset + Bytes(wmsg) \in 0 .. OffsetModulus - 1
    BY <1>0, ProduceStaysBelow, RingAssumption
  <2>2. (write_offset + Bytes(wmsg)) % OffsetModulus = write_offset + Bytes(wmsg)
    BY <2>1, ModSmall, RingAssumption
  <2> QED BY <1>0, <2>1, <2>2 DEF Produce
<1>2. /\ Len(sent') = n + 1 /\ Len(starts') = n + 1
      /\ sent'[n + 1] = wmsg /\ starts'[n + 1] = write_offset
      /\ \A i \in 1 .. n : sent'[i] = sent[i] /\ starts'[i] = starts[i]
      /\ sent' \in Seq(Message) /\ starts' \in Seq(Nat)
  BY <1>0
<1>3. TypeOK'
  BY <1>1, <1>2 DEF TypeOK, WriterPCs
<1>4. \A i \in 1 .. n : /\ sent[i] \in Message
                        /\ starts[i] \in Nat /\ Bytes(sent[i]) \in Nat
                        /\ starts[i] + Bytes(sent[i]) <= write_offset
  BY SentFacts, MessageFacts
<1>5. Layout'
  <2>1. Len(starts') = Len(sent') /\ Len(taken') <= Len(sent')
    BY <1>0, <1>2 DEF Layout
  <2>2. read_offset' = StartOf(Len(taken) + 1)'
    BY <1>0, <1>2 DEF Layout, StartOf
  <2>3. ASSUME NEW i \in 1 .. n + 1
        PROVE  /\ StartOf(i + 1)' = starts'[i] + Bytes(sent'[i])
               /\ starts'[i] + Bytes(sent'[i]) <= write_offset'
               /\ write_offset' - starts'[i]
                    >= (n + 1 - i + 1) * (HeaderSize + 1)
    <3>1. CASE i = n + 1
      BY <1>0, <1>1, <1>2, <3>1, QueueAssumption DEF StartOf
    <3>2. CASE i \in 1 .. n
      <4>1. StartOf(i + 1)' = starts[i] + Bytes(sent[i])
        <5>1. StartOf(i + 1) = starts[i] + Bytes(sent[i])
          BY <3>2 DEF Layout
        <5>2. StartOf(i + 1) = IF i + 1 = n + 1 THEN write_offset
                               ELSE starts[i + 1]
          BY DEF StartOf
        <5>3. StartOf(i + 1)' = starts'[i + 1]
          BY <1>0, <1>2, <3>2 DEF StartOf
        <5>4. starts'[i + 1] = IF i + 1 = n + 1 THEN write_offset
                               ELSE starts[i + 1]
          BY <1>0, <1>2, <3>2
        <5> QED BY <5>1, <5>2, <5>3, <5>4
      <4>2. write_offset - starts[i] >= (n - i + 1) * (HeaderSize + 1)
        BY <3>2 DEF Layout
      <4>3. (n + 1 - i + 1) * (HeaderSize + 1)
              = (n - i + 1) * (HeaderSize + 1) + (HeaderSize + 1)
        BY <1>0, <3>2, QueueAssumption
      <4>4. (n - i + 1) * (HeaderSize + 1) \in Int
        BY <1>0, <3>2, QueueAssumption
      <4>5. /\ sent'[i] = sent[i] /\ starts'[i] = starts[i]
            /\ starts[i] \in Nat /\ Bytes(sent[i]) \in Nat
            /\ starts[i] + Bytes(sent[i]) <= write_offset
        BY <1>2, <1>4, <3>2
      <4>6. starts'[i] + Bytes(sent'[i]) <= write_offset'
        BY <1>0, <1>1, <4>5
      <4>7. write_offset' - starts'[i] >= (n + 1 - i + 1) * (HeaderSize + 1)
        <5>. DEFINE x == write_offset - starts[i]
                    y == (n - i + 1) * (HeaderSize + 1)
        <5>. HIDE DEF QueueInv, ProduceMessage
        <5>1. write_offset' - starts'[i] = x + Bytes(wmsg)
          BY <1>0, <1>1, <4>5
        <5>2. /\ x \in Int /\ y \in Int /\ x >= y
              /\ (n + 1 - i + 1) * (HeaderSize + 1) = y + (HeaderSize + 1)
          BY <1>0, <4>2, <4>3, <4>4, <4>5
        <5>. HIDE DEF x, y
        <5> QED
          BY <1>0, <5>1, <5>2, SumAtLeast, QueueAssumption
      <4> QED BY <4>1, <4>5, <4>6, <4>7
    <3> QED BY <1>0, <3>1, <3>2
  <2>4. ASSUME NEW i \in 1 .. n + 1, NEW j \in 1 .. n + 1, i < j
        PROVE  starts'[i] + Bytes(sent'[i]) <= starts'[j]
    <3>1. i \in 1 .. n
      BY <1>0, <2>4
    <3>2. CASE j = n + 1
      BY <1>2, <1>4, <3>1, <3>2
    <3>3. CASE j \in 1 .. n
      BY <1>2, <2>4, <3>1, <3>3 DEF Layout
    <3> QED BY <1>0, <3>2, <3>3
  <2>5. write_offset' - read_offset' <= Capacity
    BY <1>0, <1>1 DEF WriterKnows
  <2>6. \A i \in 1 .. Len(sent') :
           /\ StartOf(i + 1)' = starts'[i] + Bytes(sent'[i])
           /\ starts'[i] + Bytes(sent'[i]) <= write_offset'
           /\ write_offset' - starts'[i]
                >= (Len(sent') - i + 1) * (HeaderSize + 1)
    BY <1>2, <2>3
  <2>7. \A i, j \in 1 .. Len(sent') :
           i < j => starts'[i] + Bytes(sent'[i]) <= starts'[j]
    BY <1>2, <2>4
  <2> QED
    BY <2>1, <2>2, <2>5, <2>6, <2>7 DEF Layout, Bytes
<1>6. Bounded'
  BY <1>0, <1>1, <1>2, ProduceStaysBelow, QueueAssumption DEF Bounded, TypeOK
<1>7. TakenInOrder'
  BY <1>0, <1>2 DEF TakenInOrder, Layout
<1>8. Mapped'
  BY DEF Mapped
<1>9. UnreadIntact'
  <2>1. SUFFICES ASSUME NEW i \in Len(taken) + 1 .. n + 1,
                        NEW c \in Run(starts'[i], Bytes(sent'[i]))
                 PROVE  memory[items][c] = sent'[i]
    BY <1>2 DEF UnreadIntact, Unread, Run, Bytes
  <2>2. CASE i = n + 1
    BY <1>2, <2>2 DEF WriterKnows
  <2>3. CASE i \in Unread
    <3>1. i \in 1 .. n
      BY <1>0, <2>3 DEF Unread
    <3> QED BY <1>2, <2>3, <3>1 DEF UnreadIntact
  <2> QED BY <1>0, <2>2, <2>3 DEF Unread
<1>10. WriterKnows'
  BY <1>0 DEF WriterKnows
<1>12. TokensMatch'
  <2>1. /\ TokensMatch /\ messages \in Nat
        /\ wpc = "produce" /\ wpc' = "signal" /\ taken' = taken
        /\ messages' = messages /\ rpc' = rpc /\ rop' = rop
    BY DEF TypeOK
  <2>2. Len(sent) \in Nat /\ Len(taken) \in Nat /\ Len(sent') = Len(sent) + 1
    BY <1>0, <1>2
  <2> HIDE DEF QueueInv, ProduceMessage
  <2> QED BY <2>1, <2>2 DEF TokensMatch
<1>11. ReaderKnows'
  <2>1. rpc \in {"header", "clone", "consume"} =>
          /\ Len(taken) + 1 \in 1 .. n
          /\ sent'[Len(taken) + 1] = sent[Len(taken) + 1]
    BY <1>0, <1>2 DEF ReaderKnows
  <2> QED BY <1>0, <1>2, <2>1 DEF ReaderKnows
<1> QED
  BY <1>3, <1>5, <1>6, <1>7, <1>8, <1>9, <1>10, <1>11, <1>12

LEMMA SignalMessageStep ==
    ASSUME QueueInv, SignalMessage
    PROVE  QueueInv'
<1>. USE DEF QueueInv, SignalMessage, WriterGoto, ringVars, readerVars, history
<1>1. TypeOK'
  BY DEF TypeOK, WriterPCs
<1>2. Layout' /\ TakenInOrder' /\ UnreadIntact'
  BY RingUnchanged
<1>3. Bounded' /\ Mapped'
  BY DEF Bounded, Mapped
<1>4. WriterKnows' /\ ReaderKnows'
  BY DEF WriterKnows, ReaderKnows
<1>5. TokensMatch'
  BY DEF TokensMatch, TypeOK
<1> QED BY <1>1, <1>2, <1>3, <1>4, <1>5

-----------------------------------------------------------------------------
(* The reader's steps                                                      *)

LEMMA BeginReadStep ==
    ASSUME QueueInv, BeginRead
    PROVE  QueueInv'
<1>. USE DEF QueueInv, BeginRead, ReaderGoto, ringVars, writerVars, history
<1>1. TypeOK'
  BY QueueAssumption DEF TypeOK, ReaderPCs, Zero, Datum
<1>2. Layout' /\ TakenInOrder' /\ UnreadIntact'
  BY RingUnchanged
<1>3. Bounded' /\ Mapped'
  BY QueueAssumption, SingleMapper DEF Bounded, Mapped
<1>4. WriterKnows'
  BY DEF WriterKnows, Run, Bytes
<1>5. ReaderKnows'
  BY QueueAssumption DEF ReaderKnows
<1>6. TokensMatch'
  BY DEF TokensMatch, ReaderKnows
<1> QED BY <1>1, <1>2, <1>3, <1>4, <1>5, <1>6

LEMMA ReaderEnsureStep ==
    ASSUME QueueInv, ReaderEnsure
    PROVE  QueueInv'
<1>. USE DEF QueueInv, ReaderEnsure, ReaderGoto, EnvironmentFails,
             ringVars, writerVars, history
<1>1. TypeOK'
  BY QueueAssumption DEF TypeOK, ReaderPCs
<1>2. Layout' /\ TakenInOrder' /\ UnreadIntact'
  BY RingUnchanged
<1>3. Bounded' /\ Mapped'
  BY DEF Bounded, Mapped
<1>4. WriterKnows'
  BY DEF WriterKnows, Run, Bytes
<1>5. ReaderKnows'
  BY DEF ReaderKnows
<1>6. TokensMatch'
  BY DEF TokensMatch, ReaderKnows
<1> QED BY <1>1, <1>2, <1>3, <1>4, <1>5, <1>6

LEMMA ReaderInstallStep ==
    ASSUME QueueInv, ReaderInstall
    PROVE  QueueInv'
<1>. USE DEF QueueInv, ReaderInstall, ReaderGoto, writerVars, history
<1>0. Len(sent) = 0 /\ Unread = {} /\ wpc = "idle"
  BY SingleMapper DEF Mapped, TypeOK, Layout, Unread
<1>1. TypeOK'
  BY DEF TypeOK, ReaderPCs, Mappings
<1>2. Layout' /\ TakenInOrder'
  BY DEF Layout, StartOf, Bytes, TakenInOrder
<1>3. UnreadIntact'
  BY <1>0 DEF UnreadIntact, Unread
<1>4. Bounded' /\ Mapped'
  BY <1>0, SingleMapper DEF Bounded, Mapped
<1>5. WriterKnows' /\ ReaderKnows' /\ TokensMatch'
  BY <1>0 DEF WriterKnows, ReaderKnows, TokensMatch
<1> QED BY <1>1, <1>2, <1>3, <1>4, <1>5

LEMMA SomethingUnread ==
    ASSUME QueueInv, RingSize > HeaderSize
    PROVE  Len(taken) < Len(sent)
<1>1. CASE Len(taken) = Len(sent)
  <2>1. read_offset = write_offset
    BY <1>1 DEF QueueInv, Layout, StartOf
  <2> QED
    BY <2>1, RingAssumption, QueueAssumption DEF RingSize, QueueInv, TypeOK
<1> QED BY <1>1 DEF QueueInv, Layout, TypeOK

(* What is unread is at least one whole frame.                             *)
LEMMA UnreadIsWhole ==
    ASSUME QueueInv, Len(taken) < Len(sent)
    PROVE  RingSize > HeaderSize
<1>1. /\ Len(taken) + 1 \in 1 .. Len(sent)
      /\ read_offset = starts[Len(taken) + 1]
  BY AtFirstUnread
<1>2. /\ Bytes(sent[Len(taken) + 1]) \in Nat
      /\ Bytes(sent[Len(taken) + 1]) >= HeaderSize + 1
      /\ read_offset + Bytes(sent[Len(taken) + 1]) <= write_offset
  BY <1>1, SentFacts, MessageFacts
<1>3. write_offset \in Nat /\ read_offset \in Nat /\ HeaderSize \in Nat
      /\ write_offset - read_offset <= Capacity
  BY RingAssumption, QueueAssumption DEF QueueInv, TypeOK, Layout
<1> QED BY <1>2, <1>3, RingAssumption DEF RingSize

LEMMA LookForMessageStep ==
    ASSUME QueueInv, LookForMessage
    PROVE  QueueInv'
<1>. USE DEF QueueInv, LookForMessage, ReaderGoto, ringVars, writerVars, history
<1>1. TypeOK'
  BY DEF TypeOK, ReaderPCs
<1>2. Layout' /\ TakenInOrder' /\ UnreadIntact'
  BY RingUnchanged
<1>3. Bounded' /\ Mapped'
  BY DEF Bounded, Mapped
<1>4. WriterKnows'
  BY DEF WriterKnows, Run, Bytes
<1>5. ReaderKnows'
  BY SomethingUnread DEF ReaderKnows
<1>6. TokensMatch'
  BY DEF TokensMatch, ReaderKnows
<1> QED BY <1>1, <1>2, <1>3, <1>4, <1>5, <1>6

LEMMA SemaphoreWaitStep ==
    ASSUME QueueInv, SemaphoreWait
    PROVE  QueueInv'
<1>. USE DEF QueueInv, SemaphoreWait, ReaderGoto, ringVars, writerVars, history
<1>1. TypeOK'
  BY DEF TypeOK, ReaderPCs
<1>2. Layout' /\ TakenInOrder' /\ UnreadIntact'
  BY RingUnchanged
<1>3. Bounded' /\ Mapped'
  BY DEF Bounded, Mapped
<1>4. WriterKnows'
  BY DEF WriterKnows, Run, Bytes
<1>5. ReaderKnows'
  BY DEF ReaderKnows
<1>6. TokensMatch'
  <2>1. /\ TokensMatch /\ messages \in Nat
        /\ Len(sent) \in Nat /\ Len(taken) \in Nat
    BY DEF TypeOK
  <2>2. rpc = "sem" => rop = "wait"
    BY DEF ReaderKnows
  <2> QED BY <2>1, <2>2 DEF TokensMatch
<1> QED BY <1>1, <1>2, <1>3, <1>4, <1>5, <1>6

LEMMA CheckSizeStep ==
    ASSUME QueueInv, CheckSize
    PROVE  QueueInv'
<1>. USE DEF QueueInv, CheckSize, ReaderGoto, ringVars, writerVars, history
<1>1. TypeOK'
  BY DEF TypeOK, ReaderPCs
<1>2. Layout' /\ TakenInOrder' /\ UnreadIntact'
  BY RingUnchanged
<1>3. Bounded' /\ Mapped'
  BY DEF Bounded, Mapped
<1>4. WriterKnows'
  BY DEF WriterKnows, Run, Bytes
<1>5. ReaderKnows'
  BY SomethingUnread DEF ReaderKnows
<1>6. TokensMatch'
  BY DEF TokensMatch, ReaderKnows
<1> QED BY <1>1, <1>2, <1>3, <1>4, <1>5, <1>6

LEMMA ReadHeaderStep ==
    ASSUME QueueInv, ReadHeader
    PROVE  QueueInv'
<1>. USE DEF QueueInv, ReadHeader, ReaderGoto, ringVars, writerVars, history
<1>0. /\ Len(taken) < Len(sent)
      /\ rmsg' = sent[Len(taken) + 1]
      /\ rmsg' \in Message
  <2>1. Len(taken) < Len(sent)
    BY DEF ReaderKnows
  <2>2. /\ sent[Len(taken) + 1] \in Message
        /\ Bytes(sent[Len(taken) + 1]) \in Nat \ {0}
    BY <2>1, AtFirstUnread, SentFacts, MessageFacts, QueueAssumption
  <2>3. CellAt(read_offset) \in Run(read_offset, Bytes(sent[Len(taken) + 1]))
    BY <2>2, FirstCell, RingAssumption DEF TypeOK
  <2> QED BY <2>1, <2>2, <2>3, AtFirstUnread
<1>1. TypeOK'
  BY <1>0, MessageFacts DEF TypeOK, ReaderPCs
<1>2. Layout' /\ TakenInOrder' /\ UnreadIntact'
  BY RingUnchanged
<1>3. Bounded' /\ Mapped'
  BY DEF Bounded, Mapped
<1>4. WriterKnows'
  BY DEF WriterKnows, Run, Bytes
<1>5. ReaderKnows'
  BY <1>0 DEF ReaderKnows
<1>6. TokensMatch'
  BY DEF TokensMatch, ReaderKnows
<1> QED BY <1>1, <1>2, <1>3, <1>4, <1>5, <1>6

LEMMA CloneDataStep ==
    ASSUME QueueInv, CloneData
    PROVE  QueueInv'
<1>. USE DEF QueueInv, CloneData, ReaderGoto, EnvironmentFails,
             ringVars, writerVars, history
<1>0. /\ Len(taken) < Len(sent)
      /\ rmsg' = rmsg
  <2>1. Len(taken) < Len(sent) /\ rmsg = sent[Len(taken) + 1]
    BY DEF ReaderKnows
  <2>2. \A c \in Run(read_offset, Bytes(rmsg)) : memory[items][c] = rmsg
    BY <2>1, AtFirstUnread
  <2> QED BY <2>1, <2>2
<1>1. TypeOK'
  BY <1>0, QueueAssumption DEF TypeOK, ReaderPCs
<1>2. Layout' /\ TakenInOrder' /\ UnreadIntact'
  BY RingUnchanged
<1>3. Bounded' /\ Mapped'
  BY DEF Bounded, Mapped
<1>4. WriterKnows'
  BY DEF WriterKnows, Run, Bytes
<1>5. ReaderKnows'
  BY <1>0 DEF ReaderKnows
<1>6. TokensMatch'
  BY DEF TokensMatch, ReaderKnows
<1> QED BY <1>1, <1>2, <1>3, <1>4, <1>5, <1>6

LEMMA ConsumeMessageStep ==
    ASSUME QueueInv, ConsumeMessage
    PROVE  QueueInv'
<1>. USE DEF ConsumeMessage, ReaderGoto, writerVars
<1>. DEFINE d == Len(taken)
            next == sent[d + 1]
<1>a. /\ d \in Nat /\ Len(sent) \in Nat /\ d < Len(sent)
      /\ rmsg = next /\ rpc = "consume"
      /\ read_offset \in Nat /\ write_offset \in 0 .. OffsetModulus - 1
  BY RingAssumption DEF QueueInv, ReaderKnows, TypeOK
<1>b. /\ d + 1 \in 1 .. Len(sent) /\ d + 1 \in Unread
      /\ read_offset = starts[d + 1]
  BY <1>a, AtFirstUnread
<1>c. next \in Message /\ Bytes(next) \in Nat /\ Bytes(next) < Capacity
  BY <1>b, SentFacts, MessageFacts
<1>0. read_offset + Bytes(next) <= write_offset
  BY <1>b, SentFacts
<1>1. /\ read_offset' = read_offset + Bytes(next)
      /\ read_offset' \in 0 .. OffsetModulus - 1
  <2>1. read_offset + Bytes(next) \in 0 .. OffsetModulus - 1
    BY <1>a, <1>c, <1>0, RingAssumption
  <2> QED BY <1>a, <1>c, <2>1, ModSmall, RingAssumption DEF Consume
<1>2. /\ Len(taken') = d + 1 /\ taken'[d + 1] = next
      /\ \A i \in 1 .. d : taken'[i] = taken[i]
      /\ taken' \in Seq(Datum)
  BY <1>a, <1>c, MessageFacts DEF QueueInv, TypeOK
<1>3. TypeOK'
  BY <1>1, <1>2 DEF QueueInv, TypeOK, ReaderPCs
<1>4. Layout'
  <2>1. StartOf(d + 2) = starts[d + 1] + Bytes(next)
    <3>1. (d + 1) + 1 = d + 2
      BY <1>a
    <3> QED BY <1>b, <3>1 DEF QueueInv, Layout
  <2>2. read_offset' = StartOf(Len(taken) + 1)'
    <3>1. Len(taken') + 1 = d + 2
      BY <1>a, <1>2
    <3>2. StartOf(Len(taken) + 1)' = StartOf(d + 2)
      BY <3>1 DEF StartOf
    <3> QED BY <1>b, <1>1, <2>1, <3>2
  <2>3. write_offset' - read_offset' <= Capacity
    <3>1. write_offset - read_offset <= Capacity
      BY DEF QueueInv, Layout
    <3>2. write_offset' = write_offset
      OBVIOUS
    <3> HIDE DEF next
    <3> QED BY <1>a, <1>c, <1>1, <3>1, <3>2, RingAssumption
  <2>4. Len(taken') <= Len(sent')
    BY <1>a, <1>2
  <2>5. /\ Len(starts') = Len(sent')
        /\ \A i \in 1 .. Len(sent') :
             /\ StartOf(i + 1)' = starts'[i] + Bytes(sent'[i])
             /\ starts'[i] + Bytes(sent'[i]) <= write_offset'
             /\ write_offset' - starts'[i]
                  >= (Len(sent') - i + 1) * (HeaderSize + 1)
        /\ \A i, j \in 1 .. Len(sent') :
             i < j => starts'[i] + Bytes(sent'[i]) <= starts'[j]
    BY DEF QueueInv, Layout, StartOf
  <2> QED BY <2>2, <2>3, <2>4, <2>5 DEF Layout, Bytes
<1>5. TakenInOrder'
  <2>1. \A i \in 1 .. d : taken'[i] = sent[i]
    BY <1>2 DEF QueueInv, TakenInOrder
  <2>2. \A i \in 1 .. Len(taken') : i \in 1 .. d \/ i = d + 1
    BY <1>a, <1>2
  <2>3. \A i \in 1 .. Len(taken') : taken'[i] = sent[i]
    BY <1>2, <2>1, <2>2
  <2> QED BY <2>3 DEF TakenInOrder
<1>6. Bounded' /\ Mapped'
  BY SingleMapper DEF QueueInv, Bounded, Mapped, ReaderKnows
<1>7. UnreadIntact'
  <2>1. \A i \in Len(taken') + 1 .. Len(sent) : i \in Unread
    BY <1>a, <1>2 DEF Unread
  <2> QED BY <2>1 DEF QueueInv, UnreadIntact, Unread, Run, Bytes
<1>8. WriterKnows'
  <2>1. ASSUME wpc \in {"header", "payload", "produce"}
        PROVE  write_offset + Bytes(wmsg) - read_offset' <= Capacity
    <3>1. write_offset + Bytes(wmsg) - read_offset <= Capacity
      BY <2>1 DEF QueueInv, WriterKnows
    <3>2. Bytes(wmsg) \in Nat
      BY <2>1, MessageFacts DEF QueueInv, WriterKnows
    <3> HIDE DEF next, ConsumeMessage
    <3>3. read_offset' >= read_offset /\ read_offset' \in Nat
      BY <1>a, <1>c, <1>1
    <3> QED BY <1>a, <3>1, <3>2, <3>3, RingAssumption
  <2> QED BY <2>1 DEF QueueInv, WriterKnows, Run, Bytes
<1>9. ReaderKnows'
  BY DEF QueueInv, ReaderKnows, TypeOK
<1>10. TokensMatch'
  <2>1. TokensMatch /\ messages \in Nat
    BY DEF QueueInv, TypeOK
  <2>2. sent' = sent /\ Len(taken') = d + 1
    BY <1>2
  <2> QED BY <1>a, <2>1, <2>2 DEF TokensMatch
<1> QED
  BY <1>3, <1>4, <1>5, <1>6, <1>7, <1>8, <1>9, <1>10 DEF QueueInv

LEMMA TakeTokenStep ==
    ASSUME QueueInv, TakeToken
    PROVE  QueueInv'
<1>. USE DEF QueueInv, TakeToken, ReaderGoto, ringVars, writerVars, history
<1>1. TypeOK'
  BY DEF TypeOK, ReaderPCs
<1>2. Layout' /\ TakenInOrder' /\ UnreadIntact'
  BY RingUnchanged
<1>3. Bounded' /\ Mapped'
  BY DEF Bounded, Mapped
<1>4. WriterKnows'
  BY DEF WriterKnows, Run, Bytes
<1>5. ReaderKnows'
  BY DEF ReaderKnows
<1>6. TokensMatch'
  <2>1. /\ TokensMatch /\ messages \in Nat
        /\ Len(sent) \in Nat /\ Len(taken) \in Nat
    BY DEF TypeOK
  <2>2. rpc = "take" => rop = "try_read"
    BY DEF ReaderKnows
  <2> QED BY <2>1, <2>2 DEF TokensMatch
<1> QED BY <1>1, <1>2, <1>3, <1>4, <1>5, <1>6

LEMMA GiveTokenBackStep ==
    ASSUME QueueInv, GiveTokenBack
    PROVE  QueueInv'
<1>. USE DEF QueueInv, GiveTokenBack, ReaderGoto, ringVars, writerVars, history
<1>1. TypeOK'
  BY DEF TypeOK, ReaderPCs
<1>2. Layout' /\ TakenInOrder' /\ UnreadIntact'
  BY RingUnchanged
<1>3. Bounded' /\ Mapped'
  BY DEF Bounded, Mapped
<1>4. WriterKnows'
  BY DEF WriterKnows, Run, Bytes
<1>5. ReaderKnows'
  BY DEF ReaderKnows
<1>6. TokensMatch'
  <2>1. /\ TokensMatch /\ messages \in Nat
        /\ Len(sent) \in Nat /\ Len(taken) \in Nat
    BY DEF TypeOK
  <2>2. rpc = "resignal" => rop = "wait"
    BY DEF ReaderKnows
  <2> QED BY <2>1, <2>2 DEF TokensMatch
<1> QED BY <1>1, <1>2, <1>3, <1>4, <1>5, <1>6

-----------------------------------------------------------------------------
(* The theorems                                                            *)

(* Every step of th_message_send, th_message_try_read and th_message_wait  *)
(* keeps QueueInv.                                                         *)
THEOREM QueueInvInductive == QueueInv /\ [Next]_vars => QueueInv'
<1>. SUFFICES ASSUME QueueInv, [Next]_vars
              PROVE  QueueInv'
  OBVIOUS
<1>1. ASSUME NEW size \in Sizes, Send(size) PROVE QueueInv'
  BY <1>1, SendCallStep
<1>2. CASE WriterStep
  BY <1>2, WriterEnsureStep, WriterInstallStep, CheckRoomStep,
     WriteHeaderStep, WritePayloadStep, ProduceMessageStep, SignalMessageStep
  DEF WriterStep
<1>3. CASE ReaderStep
  BY <1>3, BeginReadStep, ReaderEnsureStep, ReaderInstallStep,
     LookForMessageStep, SemaphoreWaitStep, CheckSizeStep, ReadHeaderStep,
     CloneDataStep, ConsumeMessageStep, TakeTokenStep, GiveTokenBackStep
  DEF ReaderStep
<1>4. CASE UNCHANGED vars
  <2>. USE <1>4 DEF QueueInv, vars
  <2>1. TypeOK'
    BY DEF TypeOK
  <2>2. Layout' /\ TakenInOrder' /\ UnreadIntact'
    BY RingUnchanged DEF ringVars, history
  <2>3. Bounded' /\ Mapped'
    BY DEF Bounded, Mapped
  <2>4. WriterKnows' /\ ReaderKnows' /\ TokensMatch'
    BY DEF WriterKnows, ReaderKnows, TokensMatch, Run, Bytes
  <2> QED BY <2>1, <2>2, <2>3, <2>4
<1> QED BY <1>1, <1>2, <1>3, <1>4 DEF Next

(* QueueInv holds in every reachable state.                                *)
THEOREM QueueInvariant == Spec => []QueueInv
  BY InitQueueInv, QueueInvInductive, PTL DEF Spec

(* Every variable of the queue keeps its type; in particular the u32       *)
(* offsets and the semaphore never go out of range.                        *)
THEOREM TypeCorrect == Spec => []TypeOK
<1>1. QueueInv => TypeOK
  BY DEF QueueInv
<1> QED BY <1>1, QueueInvariant, PTL

(* The writer never overwrites a message that has not been consumed.       *)
THEOREM NothingOverwritten == Spec => []UnreadIntact
<1>1. QueueInv => UnreadIntact
  BY DEF QueueInv
<1> QED BY <1>1, QueueInvariant, PTL

(* Semaphore and ring agree, up to the steps in between.                   *)
THEOREM SemaphoreCorrect == Spec => []TokensMatch
<1>1. QueueInv => TokensMatch
  BY DEF QueueInv
<1> QED BY <1>1, QueueInvariant, PTL

LEMMA TokenFindsMessage == QueueInv => TokenMeansMessage
<1>1. SUFFICES ASSUME QueueInv, rpc = "check"
               PROVE  RingSize > HeaderSize
  BY DEF TokenMeansMessage
<1>2. Len(taken) < Len(sent)
  BY <1>1 DEF QueueInv, TokensMatch, TypeOK, ReaderKnows
<1> QED BY <1>1, <1>2, UnreadIsWhole

(* A reader that waited finds a message: the C_ASSERT of th_message_wait   *)
(* never fails.                                                            *)
THEOREM WaitFindsMessage == Spec => []TokenMeansMessage
  BY TokenFindsMessage, QueueInvariant, PTL

(* A reader that polls sees no message or a whole one.                     *)
THEOREM PollSeesWholeMessage == Spec => []WholeOrNothing
<1>1. QueueInv => WholeOrNothing
  <2>1. SUFFICES ASSUME QueueInv
                 PROVE  RingSize = 0 \/ RingSize > HeaderSize
    BY DEF WholeOrNothing
  <2>2. CASE Len(taken) < Len(sent)
    BY <2>1, <2>2, UnreadIsWhole
  <2>3. CASE Len(taken) = Len(sent)
    BY <2>1, <2>3, RingAssumption
    DEF QueueInv, Layout, StartOf, TypeOK, RingSize
  <2> QED BY <2>1, <2>2, <2>3 DEF QueueInv, Layout, TypeOK
<1> QED BY <1>1, QueueInvariant, PTL

(* When both ends of a queue are on one thread, as layout_frame and        *)
(* render_frame are, the VERIFY of th_message_try_read holds.              *)
THEOREM OneThreadNeverTraps ==
    ASSUME SharedThread
    PROVE  Spec => []NeverTraps
<1>1. Init => NeverTraps
  BY DEF Init, NeverTraps
<1>2. QueueInv /\ NeverTraps /\ [Next]_vars => NeverTraps'
  <2>1. SUFFICES ASSUME QueueInv, NeverTraps, [Next]_vars,
                        rpc' = "trapped"
                 PROVE  FALSE
    BY DEF NeverTraps
  <2>2. rpc = "take" /\ ~(messages > 0)
    BY <2>1
    DEF NeverTraps, Next, vars, Send, WriterStep, ReaderStep, WriterEnsure,
        WriterInstall, CheckRoom, WriteHeader, WritePayload, ProduceMessage,
        SignalMessage, BeginRead, ReaderEnsure, ReaderInstall, LookForMessage,
        SemaphoreWait, CheckSize, ReadHeader, CloneData, ConsumeMessage,
        TakeToken, GiveTokenBack, ReaderGoto, readerVars
  <2>3. wpc = "idle" /\ messages \in Nat /\ Len(taken) <= Len(sent)
        /\ Len(taken) \in Nat /\ Len(sent) \in Nat
    BY <2>1, <2>2 DEF QueueInv, Mapped, TypeOK, Layout
  <2>4. messages = Len(sent) - Len(taken) + 1
    BY <2>1, <2>2, <2>3 DEF QueueInv, TokensMatch
  <2> QED BY <2>2, <2>3, <2>4
<1> QED BY <1>1, <1>2, QueueInvariant, PTL DEF Spec

-----------------------------------------------------------------------------
(* Refinement                                                              *)

LEMMA InTransitFits ==
    ASSUME QueueInv, wpc = "produce"
    PROVE  Len(sent) - Len(taken) < Capacity \div (HeaderSize + 1)
<1>. DEFINE p == Len(sent) - Len(taken)
            h == HeaderSize + 1
<1>1. /\ Len(sent) \in Nat /\ Len(taken) \in Nat /\ p \in Nat
      /\ h \in Nat \ {0} /\ Capacity \in Nat
      /\ write_offset \in Nat /\ read_offset \in Nat
  BY RingAssumption, QueueAssumption DEF QueueInv, TypeOK, Layout
<1>2. /\ Bytes(wmsg) \in Nat /\ Bytes(wmsg) >= h
      /\ write_offset + Bytes(wmsg) - read_offset <= Capacity
  BY MessageFacts DEF QueueInv, WriterKnows
<1>3. write_offset - read_offset >= p * h
  <2>1. CASE p = 0
    <3>1. read_offset = write_offset
      BY <1>1, <2>1 DEF QueueInv, Layout, StartOf
    <3> QED BY <1>1, <2>1, <3>1
  <2>2. CASE p > 0
    <3>1. /\ Len(taken) + 1 \in 1 .. Len(sent)
          /\ read_offset = starts[Len(taken) + 1]
      BY <1>1, <2>2, AtFirstUnread
    <3>2. write_offset - starts[Len(taken) + 1]
            >= (Len(sent) - (Len(taken) + 1) + 1) * h
      BY <3>1 DEF QueueInv, Layout
    <3>3. Len(sent) - (Len(taken) + 1) + 1 = p
      BY <1>1
    <3> QED BY <3>1, <3>2, <3>3
  <2> QED BY <1>1, <2>1, <2>2
<1>4. (p + 1) * h <= Capacity
  <2>. HIDE DEF p, h
  <2>1. (p + 1) * h = p * h + h /\ p * h \in Nat
    BY <1>1
  <2> QED BY <1>1, <1>2, <1>3, <2>1
<1>5. p + 1 <= Capacity \div h
  <2>. HIDE DEF p, h
  <2> QED BY <1>1, <1>4, DivisionAtLeast
<1> QED BY <1>1, <1>5

(* Every step of the queue is a Put, a Take, or invisible to the channel.  *)
LEMMA StepRefines ==
    ASSUME QueueInv, [Next]_vars
    PROVE  [Channel!Next]_(Channel!channelVars)
<1>1. CASE ProduceMessage
  <2>1. wmsg \in Message /\ wpc = "produce"
    BY <1>1 DEF QueueInv, WriterKnows, ProduceMessage
  <2>2. Channel!Put(wmsg)
    BY <1>1, <2>1, InTransitFits
    DEF ProduceMessage, Channel!Put, Channel!InTransit
  <2> QED BY <2>1, <2>2 DEF Channel!Next
<1>2. CASE ConsumeMessage
  <2>1. /\ Len(taken) < Len(sent)
        /\ rmsg = sent[Len(taken) + 1]
    BY <1>2 DEF QueueInv, ReaderKnows, ConsumeMessage
  <2> QED BY <1>2, <2>1 DEF ConsumeMessage, Channel!Next, Channel!Take
<1>3. CASE ~ProduceMessage /\ ~ConsumeMessage
  <2>1. UNCHANGED <<sent, taken>>
    BY <1>3
    DEF Next, vars, Send, WriterStep, ReaderStep, WriterEnsure,
        WriterInstall, CheckRoom, WriteHeader, WritePayload, SignalMessage,
        BeginRead, ReaderEnsure, ReaderInstall, LookForMessage,
        SemaphoreWait, CheckSize, ReadHeader, CloneData, TakeToken,
        GiveTokenBack, history
  <2> QED BY <2>1 DEF Channel!channelVars
<1> QED BY <1>1, <1>2, <1>3

(* The message queue implements the bounded FIFO channel.                  *)
THEOREM QueueRefinesChannel == Spec => ImplementsChannel
<1>1. Init => Channel!Init
  BY DEF Init, Channel!Init
<1>2. QueueInv /\ [Next]_vars => [Channel!Next]_(Channel!channelVars)
  BY StepRefines
<1> QED
  BY <1>1, <1>2, QueueInvariant, PTL DEF Spec, ImplementsChannel, Channel!Spec
=============================================================================
