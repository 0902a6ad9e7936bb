-------------------------- MODULE AudioManagerProofs --------------------------
(***************************************************************************)
(* The mailbox between the audio callback and the loader, and what the two *)
(* do by its means, for every capacity, set of messages, set of clips and  *)
(* choice of slots.                                                        *)
(*                                                                         *)
(* The first half is about the mailbox: MailInv says that the ring holds   *)
(* whole messages one after the other; that it is a box of messages then   *)
(* follows by induction over offsets.  The second half, from LoaderInv on, *)
(* is about the tables: every clip and block is traced from the letter     *)
(* that asks for it to what the loader makes of it.                        *)
(***************************************************************************)
EXTENDS AudioManager, SequenceTheorems, WellFoundedInduction, TLAPS

(* The ring r holds the message m from the offset s on.                    *)
WholeIn(r, m, s) ==
    \A i \in 0 .. SizeOf(m) - 1 : r[(s + i) % Capacity] = <<m, i>>

(* The cells of a ring are empty or of a message.                          *)
Cells(r) ==
    \A o \in Nat :
        r[o % Capacity] # <<>> =>
            SizeOf(r[o % Capacity][1]) \in Nat \ {0}

(* Messages lie in the ring r whole and one after the other from o to w.   *)
Lined(r, w, o) ==
    \A p \in o .. w - 1 : \E m \in Mail, s \in o .. p :
        /\ p < s + SizeOf(m)
        /\ s + SizeOf(m) <= w
        /\ WholeIn(r, m, s)

(* Every byte between the offsets is of a whole message between them.      *)
CellsOK == Lined(ring, writeOffset, readOffset)

BoxTypeOK ==
    /\ DOMAIN ring = 0 .. Capacity - 1
    /\ readOffset \in Nat /\ writeOffset \in Nat
    /\ readOffset <= writeOffset
    /\ writeOffset - readOffset < Capacity
    /\ Cells(ring)

(* What is being posted is mail, and fits once there was found to be room. *)
Posts ==
    [step : {"posting", "room", "refused", "written", "posted"}, mail : Mail]

PostOK ==
    /\ posting \in {NotPosting} \cup Posts
    /\ posting.step = "room" =>
          SizeOf(posting.mail) < Capacity - (writeOffset - readOffset)

(* The callback posts only inside of au_audio_id and au_audio_prefetch.    *)
Calls ==
    [step : {"open", "prefetch", "prefetch next", "check", "load"},
     clip : Clips, frame : Frames]

AskOK ==
    /\ clipSlot \in [Clips -> ClipSlots]
    /\ paths \in [ClipSlots -> Clips \cup {None}]
    /\ asking \in {NotAsked} \cup Calls
    /\ posting # NotPosting =>
          asking.step \in {"open", "prefetch", "prefetch next"}

SleepOK ==
    /\ reading \in {"dozing", "asleep"} => tied
    /\ SleepsOnOldMail

MailInv == BoxTypeOK /\ CellsOK /\ PostOK /\ AskOK /\ SleepOK

USE MailboxAssumption, AudioManagerAssumption

LEMMA Idle == NotAsked.step = "idle" /\ NotPosting.step = "none"
  BY DEF NotAsked, NotPosting

-----------------------------------------------------------------------------
(* The ring                                                                *)

(* A cell of the ring that is of a message is not an empty one.           *)
LEMMA PairNotEmpty == ASSUME NEW a, NEW b PROVE <<a, b>> # <<>>
  OBVIOUS

(* Two offsets less than a whole ring apart are at different cells.        *)
LEMMA CellsApart ==
    ASSUME NEW a \in Nat, NEW b \in Nat, a < b, b < a + Capacity
    PROVE  a % Capacity # b % Capacity
<1>. DEFINE qa == a \div Capacity
            qb == b \div Capacity
<1>1. /\ a = Capacity * qa + (a % Capacity) /\ qa \in Int
      /\ b = Capacity * qb + (b % Capacity) /\ qb \in Int
  OBVIOUS
<1>2. SUFFICES ASSUME a % Capacity = b % Capacity PROVE FALSE
  OBVIOUS
<1>. HIDE DEF qa, qb
<1>3. qb - qa \in Int /\ b - a = Capacity * (qb - qa)
  BY <1>1, <1>2
<1>4. CASE qb - qa <= 0
  <2>1. Capacity * (qb - qa) <= 0
    BY <1>3, <1>4
  <2> QED BY <2>1, <1>3
<1>5. CASE qb - qa >= 1
  <2>1. Capacity * (qb - qa) >= Capacity
    BY <1>3, <1>5
  <2> QED BY <2>1, <1>3
<1> QED BY <1>3, <1>4, <1>5

LEMMA CellExists ==
    ASSUME NEW a \in Nat
    PROVE  a % Capacity \in 0 .. Capacity - 1
  OBVIOUS

(* The first of what lies in line is a whole message.                      *)
LEMMA FirstOfLined ==
    ASSUME NEW r, NEW w \in Nat, NEW o \in Nat, o < w, Lined(r, w, o)
    PROVE  LET m == r[o % Capacity][1]
           IN  /\ m \in Mail /\ r[o % Capacity] # <<>>
               /\ WholeIn(r, m, o)
               /\ o + SizeOf(m) <= w
               /\ Lined(r, w, o + SizeOf(m))
<1>1. PICK m \in Mail, s \in o .. o :
          s + SizeOf(m) <= w /\ WholeIn(r, m, s)
  BY DEF Lined
<1>2. s = o /\ SizeOf(m) \in Nat \ {0}
  OBVIOUS
<1>3. r[(o + 0) % Capacity] = <<m, 0>>
  BY <1>1, <1>2 DEF WholeIn
<1>4. r[o % Capacity] = <<m, 0>>
  <2>1. o + 0 = o
    OBVIOUS
  <2> QED BY <1>3, <2>1
<1>5. ASSUME NEW p \in o + SizeOf(m) .. w - 1
      PROVE  \E n \in Mail, t \in o + SizeOf(m) .. p :
                 /\ p < t + SizeOf(n)
                 /\ t + SizeOf(n) <= w
                 /\ WholeIn(r, n, t)
  <2>1. PICK n \in Mail, t \in o .. p :
            p < t + SizeOf(n) /\ t + SizeOf(n) <= w /\ WholeIn(r, n, t)
    BY <1>2 DEF Lined
  <2>2. SizeOf(n) \in Nat \ {0} /\ t \in Nat
    OBVIOUS
  <2>3. o + SizeOf(m) <= t
    <3>1. SUFFICES ASSUME t < o + SizeOf(m) PROVE FALSE
      BY <1>2, <2>2
    <3>2. t - o \in 0 .. SizeOf(m) - 1
      BY <1>2, <2>2, <3>1
    <3>3. r[(o + (t - o)) % Capacity] = <<m, t - o>>
      BY <1>1, <1>2, <3>2 DEF WholeIn
    <3>4. o + (t - o) = t + 0
      BY <2>2
    <3>5. r[(t + 0) % Capacity] = <<n, 0>>
      BY <2>1, <2>2 DEF WholeIn
    <3>6. n = m /\ t - o = 0
      BY <3>3, <3>4, <3>5
    <3> QED BY <1>2, <2>1, <2>2, <3>6
  <2>4. t \in o + SizeOf(m) .. p
    BY <1>2, <2>2, <2>3
  <2> QED BY <2>1, <2>4
<1>6. Lined(r, w, o + SizeOf(m))
  BY <1>5 DEF Lined
<1>7. r[o % Capacity] # <<>>
  BY <1>4, PairNotEmpty
<1> QED BY <1>1, <1>2, <1>4, <1>6, <1>7

(* The reader finds a whole message where its offset is.                   *)
LEMMA FirstIsWhole ==
    ASSUME BoxTypeOK, CellsOK, readOffset < writeOffset
    PROVE  /\ MailAt(readOffset) \in Mail
           /\ WholeIn(ring, MailAt(readOffset), readOffset)
           /\ readOffset + SizeOf(MailAt(readOffset)) <= writeOffset
           /\ Lined(ring, writeOffset,
                    readOffset + SizeOf(MailAt(readOffset)))
  BY FirstOfLined DEF BoxTypeOK, CellsOK, MailAt

(* Neither the box nor what is in it changes.                              *)
LEMMA BoxUnchanged ==
    ASSUME BoxTypeOK, CellsOK, UNCHANGED boxVars
    PROVE  BoxTypeOK' /\ CellsOK'
<1>1. /\ ring' = ring /\ readOffset' = readOffset
      /\ writeOffset' = writeOffset
  BY DEF boxVars
<1>2. ASSUME NEW m, NEW s PROVE WholeIn(ring', m, s) <=> WholeIn(ring, m, s)
  BY <1>1 DEF WholeIn
<1> QED BY <1>1, <1>2 DEF BoxTypeOK, CellsOK, Lined

-----------------------------------------------------------------------------
(* Steps of the mailbox that change the box                                *)

LEMMA WriteKeepsCells ==
    ASSUME BoxTypeOK, CellsOK, PostOK, WriteMail
    PROVE  /\ BoxTypeOK' /\ CellsOK'
           /\ WholeIn(ring', posting.mail, writeOffset)
           /\ \A n \in Mail, s \in Nat :
                 /\ readOffset <= s /\ s + SizeOf(n) <= writeOffset
                 /\ WholeIn(ring, n, s)
                 => WholeIn(ring', n, s)
<1>1. /\ posting.mail \in Mail
      /\ SizeOf(posting.mail) < Capacity - (writeOffset - readOffset)
  BY DEF WriteMail, PostOK, Posts, NotPosting
<1>2. PICK m \in Mail, w \in Nat : m = posting.mail /\ w = writeOffset
  BY <1>1 DEF BoxTypeOK
<1>. DEFINE at(i) == (w + i) % Capacity
<1>3. /\ ring' = [c \in DOMAIN ring |->
             IF \E i \in 0 .. SizeOf(m) - 1 : at(i) = c
             THEN <<m, CHOOSE i \in 0 .. SizeOf(m) - 1 : at(i) = c>>
             ELSE ring[c]]
      /\ writeOffset' = w + SizeOf(m)
      /\ readOffset' = readOffset
  BY <1>2 DEF WriteMail
<1>4. /\ SizeOf(m) \in Nat \ {0}
      /\ w + SizeOf(m) < readOffset + Capacity
  BY <1>1, <1>2 DEF BoxTypeOK
<1>5. BoxTypeOK'
  <2>1. ASSUME NEW o \in Nat, ring'[o % Capacity] # <<>>
        PROVE  SizeOf(ring'[o % Capacity][1]) \in Nat \ {0}
    <3>1. PICK c \in DOMAIN ring : c = o % Capacity
      BY CellExists DEF BoxTypeOK
    <3>2. \/ ring'[c][1] = m
          \/ ring'[c] = ring[c]
      BY <1>3
    <3>3. ring[c] # <<>> => SizeOf(ring[c][1]) \in Nat \ {0}
      BY <3>1 DEF BoxTypeOK, Cells
    <3> QED BY <1>4, <2>1, <3>1, <3>2, <3>3
  <2>2. Cells(ring')
    BY <2>1 DEF Cells
  <2>3. DOMAIN ring' = 0 .. Capacity - 1
    BY <1>3 DEF BoxTypeOK
  <2> QED BY <1>2, <1>3, <1>4, <2>2, <2>3 DEF BoxTypeOK
<1>6. ASSUME NEW n \in Mail, NEW s \in Nat, readOffset <= s,
             s + SizeOf(n) <= w, WholeIn(ring, n, s)
      PROVE  WholeIn(ring', n, s)
  <2>1. SUFFICES ASSUME NEW j \in 0 .. SizeOf(n) - 1
                 PROVE  ring'[(s + j) % Capacity] = <<n, j>>
    BY DEF WholeIn
  <2>2. SizeOf(n) \in Nat /\ s + j \in Nat
    OBVIOUS
  <2>3. ASSUME NEW i \in 0 .. SizeOf(m) - 1
        PROVE  at(i) # (s + j) % Capacity
    <3>1. w + i \in Nat /\ s + j < w + i /\ w + i < s + j + Capacity
      BY <1>4, <1>6, <2>2 DEF BoxTypeOK
    <3> QED BY <2>2, <3>1, CellsApart
  <2>4. (s + j) % Capacity \in DOMAIN ring
    BY <2>2, CellExists DEF BoxTypeOK
  <2>. HIDE DEF at
  <2>5. ring'[(s + j) % Capacity] = ring[(s + j) % Capacity]
    BY <1>3, <2>3, <2>4
  <2> QED BY <2>5, <1>6 DEF WholeIn
<1>7. WholeIn(ring', m, w)
  <2>1. SUFFICES ASSUME NEW j \in 0 .. SizeOf(m) - 1
                 PROVE  ring'[at(j)] = <<m, j>>
    BY DEF WholeIn
  <2>2. at(j) \in DOMAIN ring
    <3>1. w + j \in Nat
      BY <1>4
    <3> QED BY <3>1, CellExists DEF BoxTypeOK
  <2>3. ASSUME NEW i \in 0 .. SizeOf(m) - 1, at(i) = at(j)
        PROVE  i = j
    <3>1. /\ w + i \in Nat /\ w + j \in Nat
          /\ w + i < w + j + Capacity /\ w + j < w + i + Capacity
      BY <1>2, <1>4 DEF BoxTypeOK
    <3>2. ~(w + i < w + j) /\ ~(w + j < w + i)
      BY <2>3, <3>1, CellsApart
    <3> QED BY <3>1, <3>2
  <2>. HIDE DEF at
  <2>4. (CHOOSE i \in 0 .. SizeOf(m) - 1 : at(i) = at(j)) = j
    BY <2>3
  <2> QED BY <1>3, <2>2, <2>4
<1>8. ASSUME NEW o \in readOffset .. w + SizeOf(m) - 1
      PROVE  \E n \in Mail, s \in readOffset .. o :
                 /\ o < s + SizeOf(n)
                 /\ s + SizeOf(n) <= w + SizeOf(m)
                 /\ WholeIn(ring', n, s)
  <2>1. CASE o < w
    <3>1. PICK n \in Mail, s \in readOffset .. o :
              o < s + SizeOf(n) /\ s + SizeOf(n) <= w /\ WholeIn(ring, n, s)
      BY <1>2, <2>1 DEF CellsOK, Lined, BoxTypeOK
    <3>2. s \in Nat /\ readOffset <= s /\ SizeOf(n) \in Nat
      BY DEF BoxTypeOK
    <3>3. WholeIn(ring', n, s)
      BY <3>1, <3>2, <1>6
    <3> QED BY <3>1, <3>2, <3>3, <1>4
  <2>2. CASE w <= o
    <3>1. w \in readOffset .. o
      BY <1>2, <2>2 DEF BoxTypeOK
    <3> QED BY <3>1, <1>4, <1>7
  <2> QED BY <2>1, <2>2 DEF BoxTypeOK
<1>9. CellsOK'
  <2>1. Lined(ring', w + SizeOf(m), readOffset)
    BY <1>8 DEF Lined
  <2> QED BY <1>3, <2>1 DEF CellsOK
<1> QED BY <1>2, <1>5, <1>6, <1>7, <1>9

LEMMA TakeKeepsCells ==
    ASSUME BoxTypeOK, CellsOK, readOffset < writeOffset, TakeMail,
           UNCHANGED <<ring, writeOffset>>
    PROVE  /\ BoxTypeOK' /\ CellsOK'
           /\ writeOffset' - readOffset' <= writeOffset - readOffset
<1>. DEFINE m == MailAt(readOffset)
<1>1. /\ m \in Mail /\ SizeOf(m) \in Nat \ {0}
      /\ readOffset + SizeOf(m) <= writeOffset
      /\ Lined(ring, writeOffset, readOffset + SizeOf(m))
  BY FirstIsWhole
<1>2. readOffset' = readOffset + SizeOf(m)
  BY DEF TakeMail
<1>. HIDE DEF m
<1>3. BoxTypeOK'
  BY <1>1, <1>2 DEF BoxTypeOK
<1>4. CellsOK'
  BY <1>1, <1>2 DEF CellsOK
<1> QED BY <1>1, <1>2, <1>3, <1>4 DEF BoxTypeOK

-----------------------------------------------------------------------------
(* What is in the box.  InBox is defined by recursion on offsets, from the *)
(* write offset down: what it is follows by induction, which here is an    *)
(* argument about the least natural number that is not in a set.           *)

LEMMA LeastNatural ==
    ASSUME NEW T, T \subseteq Nat, T # {}
    PROVE  \E n \in T : \A m \in T : n <= m
<1>1. IsWellFoundedOn(OpToRel(<, Nat), Nat)
  BY NatLessThanWellFounded
<1>2. PICK n \in T : \A m \in T : ~ (<<m, n>> \in OpToRel(<, Nat))
  BY <1>1, WFMin
<1>3. \A m \in T : ~(m < n)
  BY <1>2 DEF OpToRel
<1>4. ASSUME NEW m \in T PROVE n <= m
  <2>1. n \in Nat /\ m \in Nat /\ ~(m < n)
    BY <1>2, <1>3
  <2> QED BY <2>1
<1> QED BY <1>4

LEMMA InductionOverNat ==
    ASSUME NEW T, 0 \in T, \A n \in Nat : n \in T => n + 1 \in T
    PROVE  Nat \subseteq T
<1>1. SUFFICES ASSUME Nat \ T # {} PROVE FALSE
  OBVIOUS
<1>2. PICK n \in Nat \ T : \A m \in Nat \ T : n <= m
  BY <1>1, LeastNatural
<1>3. n # 0 /\ n - 1 \in Nat /\ n - 1 \in T
  BY <1>2
<1> QED BY <1>2, <1>3

(* What f says is in the ring r from the offset o to the offset w.         *)
ReadOut(r, w, f, o) ==
    IF o = w THEN <<>>
    ELSE IF /\ r[o % Capacity] # <<>>
            /\ WholeIn(r, r[o % Capacity][1], o)
            /\ o < w
         THEN <<r[o % Capacity][1]>> \o f[o + SizeOf(r[o % Capacity][1])]
         ELSE <<[kind |-> "garbage"]>>

ReadsOut(r, w, f) == f = [o \in Nat |-> ReadOut(r, w, f, o)]

LEMMA ReadOutExists ==
    ASSUME NEW r, NEW w \in Nat, Cells(r)
    PROVE  \E f : ReadsOut(r, w, f)
<1>. DEFINE Near(k) == {o \in Nat : w <= o + k}
            Known == {k \in Nat : \E f :
                         f = [o \in Near(k) |-> ReadOut(r, w, f, o)]}
<1>1. 0 \in Known
  <2>. DEFINE f == [o \in Near(0) |-> ReadOut(r, w, <<>>, o)]
  <2>1. ASSUME NEW o \in Near(0), NEW g, NEW h
        PROVE  ReadOut(r, w, g, o) = ReadOut(r, w, h, o)
    BY DEF ReadOut
  <2>2. f = [o \in Near(0) |-> ReadOut(r, w, f, o)]
    BY <2>1
  <2> QED BY <2>2
<1>2. ASSUME NEW k \in Nat, k \in Known PROVE k + 1 \in Known
  <2>1. PICK f : f = [o \in Near(k) |-> ReadOut(r, w, f, o)]
    BY <1>2
  <2>. DEFINE g == [o \in Near(k + 1) |-> ReadOut(r, w, f, o)]
  <2>2. Near(k) \subseteq Near(k + 1)
    OBVIOUS
  <2>3. \A o \in Near(k) : g[o] = f[o]
    BY <2>1, <2>2
  <2>4. ASSUME NEW o \in Near(k + 1)
        PROVE  ReadOut(r, w, g, o) = ReadOut(r, w, f, o)
    <3>1. CASE /\ r[o % Capacity] # <<>>
               /\ o < w
      <4>1. PICK size \in Nat \ {0} : size = SizeOf(r[o % Capacity][1])
        BY <3>1 DEF Cells
      <4>2. o + size \in Near(k)
        OBVIOUS
      <4>3. g[o + size] = f[o + size]
        BY <2>3, <4>2
      <4>. HIDE DEF g
      <4> QED BY <4>1, <4>3 DEF ReadOut
    <3>2. CASE ~(/\ r[o % Capacity] # <<>>
                 /\ o < w)
      BY <3>2 DEF ReadOut
    <3> QED BY <3>1, <3>2
  <2>5. g = [o \in Near(k + 1) |-> ReadOut(r, w, g, o)]
    BY <2>4
  <2>. HIDE DEF g
  <2>6. \E h : h = [o \in Near(k + 1) |-> ReadOut(r, w, h, o)]
    BY <2>5
  <2> QED BY <2>6
<1>3. w \in Known
  BY <1>1, <1>2, InductionOverNat
<1>4. Near(w) = Nat
  OBVIOUS
<1> QED BY <1>3, <1>4 DEF ReadsOut

LEMMA ReadOutEnd ==
    ASSUME NEW r, NEW w \in Nat, NEW f, ReadsOut(r, w, f)
    PROVE  f[w] = <<>>
  BY DEF ReadsOut, ReadOut

LEMMA ConsOfAppend ==
    ASSUME NEW S, NEW t \in Seq(S), NEW n \in S, NEW m \in S
    PROVE  <<n>> \o Append(t, m) = Append(<<n>> \o t, m)
<1>1. <<n>> \in Seq(S) /\ <<m>> \in Seq(S) /\ <<n>> \o t \in Seq(S)
  OBVIOUS
<1>2. /\ Append(t, m) = t \o <<m>>
      /\ Append(<<n>> \o t, m) = (<<n>> \o t) \o <<m>>
  BY <1>1, AppendIsConcat
<1> QED BY <1>1, <1>2, ConcatAssociative

(* What lies in line is read out as mail.                                  *)
LEMMA LinedIsMail ==
    ASSUME NEW r, NEW w \in Nat, NEW f, ReadsOut(r, w, f),
           NEW o \in Nat, o <= w, Lined(r, w, o)
    PROVE  f[o] \in Seq(Mail)
<1>. DEFINE Mails(k) ==
         \A p \in Nat : p <= w /\ w <= p + k /\ Lined(r, w, p)
                            => f[p] \in Seq(Mail)
            Known == {k \in Nat : Mails(k)}
<1>1. 0 \in Known
  <2>1. ASSUME NEW p \in Nat, p <= w /\ w <= p + 0 PROVE f[p] \in Seq(Mail)
    <3>1. p = w /\ f[w] = <<>>
      BY <2>1, ReadOutEnd
    <3> QED BY <3>1
  <2> QED BY <2>1
<1>2. ASSUME NEW k \in Nat, k \in Known PROVE k + 1 \in Known
  <2>1. SUFFICES ASSUME NEW p \in Nat, p <= w, w <= p + (k + 1),
                        Lined(r, w, p)
                 PROVE  f[p] \in Seq(Mail)
    OBVIOUS
  <2>2. CASE p = w
    <3>1. f[w] = <<>> /\ <<>> \in Seq(Mail)
      BY ReadOutEnd
    <3> QED BY <2>2, <3>1
  <2>3. CASE p < w
    <3>1. PICK m \in Mail : m = r[p % Capacity][1]
      BY <2>1, <2>3, FirstOfLined
    <3>2. p + SizeOf(m) <= w /\ Lined(r, w, p + SizeOf(m))
      BY <2>1, <2>3, <3>1, FirstOfLined
    <3>3. SizeOf(m) \in Nat \ {0}
      OBVIOUS
    <3>4. f[p + SizeOf(m)] \in Seq(Mail)
      BY <1>2, <2>1, <3>2, <3>3
    <3>5. f[p] = <<m>> \o f[p + SizeOf(m)]
      <4>1. f[p] = ReadOut(r, w, f, p) /\ p # w
        BY <2>1, <2>3 DEF ReadsOut
      <4>2. WholeIn(r, m, p) /\ r[p % Capacity] # <<>>
        BY <2>1, <2>3, <3>1, FirstOfLined
      <4> QED BY <2>3, <3>1, <4>1, <4>2 DEF ReadOut
    <3>6. <<m>> \in Seq(Mail)
      OBVIOUS
    <3> QED BY <3>4, <3>5, <3>6
  <2> QED BY <2>1, <2>2, <2>3
<1>. HIDE DEF Known
<1>3. w \in Known
  BY <1>1, <1>2, InductionOverNat
<1>4. Mails(w)
  BY <1>3 DEF Known
<1> QED BY <1>4

(* Where f and g read out, g reads the message m more.                     *)
IsLonger(f, g, o, m) == g[o] = Append(f[o], m)

(* With one message more, the same is read out and then that message.      *)
LEMMA ReadOutLonger ==
    ASSUME NEW r, NEW w \in Nat, NEW f, ReadsOut(r, w, f),
           NEW rr, NEW ww \in Nat, NEW g, ReadsOut(rr, ww, g),
           NEW m \in Mail, ww = w + SizeOf(m), WholeIn(rr, m, w),
           NEW o \in Nat, o <= w, Lined(r, w, o),
           \A n \in Mail, s \in Nat :
               o <= s /\ s + SizeOf(n) <= w /\ WholeIn(r, n, s)
                   => WholeIn(rr, n, s)
    PROVE  IsLonger(f, g, o, m)
<1>. DEFINE Longer(k) ==
         \A p \in Nat : o <= p /\ p <= w /\ w <= p + k /\ Lined(r, w, p)
                            => g[p] = Append(f[p], m)
            Known == {k \in Nat : Longer(k)}
<1>1. SizeOf(m) \in Nat \ {0}
  OBVIOUS
<1>2. ASSUME NEW p \in Nat, p < ww, NEW n \in Mail, WholeIn(rr, n, p)
      PROVE  g[p] = <<n>> \o g[p + SizeOf(n)]
  <2>1. rr[(p + 0) % Capacity] = <<n, 0>>
    <3>1. 0 \in 0 .. SizeOf(n) - 1
      OBVIOUS
    <3> QED BY <1>2, <3>1 DEF WholeIn
  <2>2. p + 0 = p
    OBVIOUS
  <2>3. rr[p % Capacity] = <<n, 0>>
    BY <2>1, <2>2
  <2>4. rr[p % Capacity][1] = n /\ rr[p % Capacity] # <<>>
    BY <2>3, PairNotEmpty
  <2>5. g[p] = ReadOut(rr, ww, g, p) /\ p # ww
    BY <1>2 DEF ReadsOut
  <2> QED BY <1>2, <2>4, <2>5 DEF ReadOut
<1>3. g[w] = Append(f[w], m)
  <2>1. g[w] = <<m>> \o g[ww]
    BY <1>1, <1>2
  <2>2. g[ww] = <<>> /\ f[w] = <<>>
    BY ReadOutEnd
  <2> QED BY <2>1, <2>2
<1>4. 0 \in Known
  <2>1. ASSUME NEW p \in Nat, p <= w /\ w <= p + 0 PROVE p = w
    BY <2>1
  <2> QED BY <1>3, <2>1
<1>5. ASSUME NEW k \in Nat, k \in Known PROVE k + 1 \in Known
  <2>1. SUFFICES ASSUME NEW p \in Nat, o <= p, p <= w, w <= p + (k + 1),
                        Lined(r, w, p)
                 PROVE  g[p] = Append(f[p], m)
    OBVIOUS
  <2>2. CASE p = w
    BY <2>2, <1>3
  <2>3. CASE p < w
    <3>1. PICK n \in Mail : n = r[p % Capacity][1]
      BY <2>1, <2>3, FirstOfLined
    <3>2. /\ p + SizeOf(n) <= w /\ Lined(r, w, p + SizeOf(n))
          /\ WholeIn(r, n, p)
      BY <2>1, <2>3, <3>1, FirstOfLined
    <3>3. SizeOf(n) \in Nat \ {0}
      OBVIOUS
    <3>4. g[p + SizeOf(n)] = Append(f[p + SizeOf(n)], m)
      <4>1. PICK q \in Nat : q = p + SizeOf(n)
        BY <3>3
      <4>2. o <= q /\ q <= w /\ w <= q + k /\ Lined(r, w, q)
        BY <2>1, <3>2, <3>3, <4>1
      <4>3. g[q] = Append(f[q], m)
        BY <1>5, <4>2
      <4> QED BY <4>1, <4>3
    <3>5. f[p] = <<n>> \o f[p + SizeOf(n)]
      <4>1. f[p] = ReadOut(r, w, f, p) /\ p # w
        BY <2>1, <2>3 DEF ReadsOut
      <4>2. WholeIn(r, n, p) /\ r[p % Capacity] # <<>>
        BY <2>1, <2>3, <3>1, FirstOfLined
      <4> QED BY <2>3, <3>1, <4>1, <4>2 DEF ReadOut
    <3>6. g[p] = <<n>> \o g[p + SizeOf(n)]
      <4>1. WholeIn(rr, n, p)
        BY <2>1, <3>2
      <4>2. p < ww
        BY <1>1, <2>3
      <4> QED BY <1>2, <4>1, <4>2
    <3>7. f[p + SizeOf(n)] \in Seq(Mail)
      BY <3>2, <3>3, LinedIsMail
    <3>8. PICK t \in Seq(Mail) : t = f[p + SizeOf(n)]
      BY <3>7
    <3>9. <<n>> \o Append(t, m) = Append(<<n>> \o t, m)
      BY ConsOfAppend
    <3> QED BY <3>4, <3>5, <3>6, <3>8, <3>9
  <2> QED BY <2>1, <2>2, <2>3
<1>. HIDE DEF Known
<1>6. w \in Known
  BY <1>4, <1>5, InductionOverNat
<1>7. Longer(w)
  BY <1>6 DEF Known
<1> QED BY <1>7 DEF IsLonger

LEMMA InBoxUnchanged ==
    ASSUME UNCHANGED boxVars
    PROVE  InBox' = InBox
  BY DEF boxVars, InBox, Intact, MailAt

LEMMA InBoxIsReadOut ==
    ASSUME BoxTypeOK
    PROVE  \E f : ReadsOut(ring, writeOffset, f) /\ InBox = f[readOffset]
<1>. DEFINE f == CHOOSE f : ReadsOut(ring, writeOffset, f)
<1>1. ReadsOut(ring, writeOffset, f)
  BY ReadOutExists DEF BoxTypeOK
<1>2. InBox = f[readOffset]
  BY DEF InBox, ReadsOut, ReadOut, Intact, MailAt, WholeIn
<1>. HIDE DEF f
<1> QED BY <1>1, <1>2

LEMMA InBoxIsReadOutNext ==
    ASSUME BoxTypeOK'
    PROVE  \E f : ReadsOut(ring', writeOffset', f) /\ InBox' = f[readOffset']
<1>. DEFINE f == CHOOSE f : ReadsOut(ring', writeOffset', f)
<1>1. ReadsOut(ring', writeOffset', f)
  BY ReadOutExists DEF BoxTypeOK
<1>2. InBox' = f[readOffset']
  BY DEF InBox, ReadsOut, ReadOut, Intact, MailAt, WholeIn
<1>. HIDE DEF f
<1> QED BY <1>1, <1>2

(* The box is of mail.                                                     *)
LEMMA InBoxIsMail ==
    ASSUME BoxTypeOK, CellsOK
    PROVE  InBox \in Seq(Mail)
<1>1. PICK f : ReadsOut(ring, writeOffset, f) /\ InBox = f[readOffset]
  BY InBoxIsReadOut
<1> QED BY <1>1, LinedIsMail DEF BoxTypeOK, CellsOK

(* A message that is written is the last in the box.                       *)
LEMMA WriteAppends ==
    ASSUME BoxTypeOK, CellsOK, PostOK, WriteMail
    PROVE  InBox' = Append(InBox, posting.mail)
<1>1. PICK f : ReadsOut(ring, writeOffset, f) /\ InBox = f[readOffset]
  BY InBoxIsReadOut
<1>2. /\ BoxTypeOK'
      /\ WholeIn(ring', posting.mail, writeOffset)
      /\ \A n \in Mail, s \in Nat :
            /\ readOffset <= s /\ s + SizeOf(n) <= writeOffset
            /\ WholeIn(ring, n, s)
            => WholeIn(ring', n, s)
  BY WriteKeepsCells
<1>3. PICK g : ReadsOut(ring', writeOffset', g) /\ InBox' = g[readOffset']
  BY <1>2, InBoxIsReadOutNext
<1>4. PICK m \in Mail : m = posting.mail
  BY Idle DEF WriteMail, PostOK, Posts
<1>5. /\ readOffset' = readOffset /\ writeOffset' = writeOffset + SizeOf(m)
      /\ writeOffset' \in Nat
  BY <1>2, <1>4 DEF WriteMail, BoxTypeOK
<1>6. /\ readOffset \in Nat /\ writeOffset \in Nat
      /\ readOffset <= writeOffset
      /\ Lined(ring, writeOffset, readOffset)
  BY DEF BoxTypeOK, CellsOK
<1>7. g[readOffset] = Append(f[readOffset], m)
  <2>1. PICK w \in Nat, ww \in Nat, o \in Nat :
            w = writeOffset /\ ww = writeOffset' /\ o = readOffset
    BY <1>5, <1>6
  <2>2. /\ ReadsOut(ring, w, f) /\ ReadsOut(ring', ww, g)
        /\ ww = w + SizeOf(m) /\ WholeIn(ring', m, w)
        /\ o <= w /\ Lined(ring, w, o)
    BY <1>1, <1>2, <1>3, <1>4, <1>5, <1>6, <2>1
  <2>3. \A n \in Mail, s \in Nat :
            o <= s /\ s + SizeOf(n) <= w /\ WholeIn(ring, n, s)
                => WholeIn(ring', n, s)
    BY <1>2, <2>1
  <2>4. IsLonger(f, g, o, m)
    BY <2>2, <2>3, ReadOutLonger
  <2> QED BY <2>1, <2>4 DEF IsLonger
<1> QED BY <1>1, <1>3, <1>4, <1>5, <1>7

(* A message that is taken was the first in the box.                       *)
LEMMA TakeIsTail ==
    ASSUME BoxTypeOK, CellsOK, readOffset < writeOffset, TakeMail,
           UNCHANGED <<ring, writeOffset>>
    PROVE  /\ InBox # <<>> /\ Head(InBox) = MailAt(readOffset)
           /\ InBox' = Tail(InBox)
<1>. DEFINE f == CHOOSE f : ReadsOut(ring, writeOffset, f)
<1>1. ReadsOut(ring, writeOffset, f)
  BY ReadOutExists DEF BoxTypeOK
<1>2. InBox = f[readOffset]
  BY DEF InBox, ReadsOut, ReadOut, Intact, MailAt, WholeIn
<1>3. InBox' = f[readOffset']
  BY DEF InBox, ReadsOut, ReadOut, Intact, MailAt, WholeIn
<1>. HIDE DEF f
<1>4. /\ MailAt(readOffset) = ring[readOffset % Capacity][1]
      /\ ring[readOffset % Capacity] # <<>>
      /\ WholeIn(ring, MailAt(readOffset), readOffset)
      /\ readOffset' = readOffset + SizeOf(MailAt(readOffset))
  BY FirstOfLined DEF BoxTypeOK, CellsOK, MailAt, TakeMail
<1>5. /\ f[readOffset] = ReadOut(ring, writeOffset, f, readOffset)
      /\ readOffset # writeOffset
  BY <1>1 DEF ReadsOut, BoxTypeOK
<1>6. InBox = <<MailAt(readOffset)>> \o InBox'
  BY <1>2, <1>3, <1>4, <1>5 DEF ReadOut
<1>7. InBox' \in Seq(Mail)
  <2>1. /\ readOffset' \in Nat /\ readOffset' <= writeOffset
        /\ Lined(ring, writeOffset, readOffset')
    BY TakeKeepsCells DEF BoxTypeOK, CellsOK
  <2>2. f[readOffset'] \in Seq(Mail)
    BY <1>1, <2>1, LinedIsMail DEF BoxTypeOK
  <2> QED BY <1>3, <2>2
<1>8. MailAt(readOffset) \in Mail
  BY FirstIsWhole
<1>9. PICK m \in Mail, rest \in Seq(Mail) :
          m = MailAt(readOffset) /\ rest = InBox'
  BY <1>7, <1>8
<1>10. /\ <<m>> \o rest # <<>> /\ Head(<<m>> \o rest) = m
       /\ Tail(<<m>> \o rest) = rest
  <2>1. <<m>> \in Seq(Mail) /\ Len(<<m>>) = 1 /\ <<m>>[1] = m
    OBVIOUS
  <2>2. <<m>> \o rest \in Seq(Mail)
    BY <2>1
  <2>3. Len(<<m>> \o rest) = Len(rest) + 1 /\ Len(rest) \in Nat
    BY <2>1
  <2>4. <<m>> \o rest # <<>>
    BY <2>2, <2>3
  <2>5. Head(<<m>> \o rest) = m
    BY <2>1, <2>2, <2>4
  <2>6. Tail(<<m>> \o rest) = rest
    <3>1. /\ Tail(<<m>> \o rest) \in Seq(Mail)
          /\ Len(Tail(<<m>> \o rest)) = Len(rest)
      BY <2>2, <2>3, <2>4, HeadTailProperties
    <3>2. ASSUME NEW i \in 1 .. Len(rest)
          PROVE  Tail(<<m>> \o rest)[i] = rest[i]
      <4>1. Tail(<<m>> \o rest)[i] = (<<m>> \o rest)[i + 1]
        BY <2>2, <2>3, <2>4, HeadTailProperties
      <4>2. (<<m>> \o rest)[i + 1] = rest[i]
        BY <2>1, <2>3
      <4> QED BY <4>1, <4>2
    <3> QED BY <3>1, <3>2, SeqEqual
  <2> QED BY <2>4, <2>5, <2>6
<1> QED BY <1>6, <1>9, <1>10

-----------------------------------------------------------------------------
(* The parts of the invariant that say who posts what, and who sleeps      *)

LEMMA SleepUnchanged ==
    ASSUME SleepOK, UNCHANGED writeOffset, UNCHANGED readerVars,
           posting'.step = "written" \/ posting.step # "written"
    PROVE  SleepOK'
<1>1. tied' = tied /\ reading' = reading /\ slept' = slept
  BY DEF readerVars
<1>2. reading' \in {"dozing", "asleep"} => tied'
  BY <1>1 DEF SleepOK
<1>3. SleepsOnOldMail'
  BY <1>1 DEF SleepOK, SleepsOnOldMail
<1> QED BY <1>2, <1>3 DEF SleepOK

LEMMA PostUnchanged ==
    ASSUME PostOK, UNCHANGED posting,
           writeOffset' - readOffset' <= writeOffset - readOffset,
           BoxTypeOK, BoxTypeOK'
    PROVE  PostOK'
<1>1. /\ posting \in {NotPosting} \cup Posts
      /\ writeOffset - readOffset \in Int
      /\ writeOffset' - readOffset' \in Int
  BY DEF PostOK, BoxTypeOK
<1>2. ASSUME posting.step = "room"
      PROVE  SizeOf(posting.mail) < Capacity - (writeOffset' - readOffset')
  <2>1. posting \in Posts
    BY <1>1, <1>2, Idle
  <2>2. PICK size \in Nat : size = SizeOf(posting.mail)
    BY <2>1 DEF Posts
  <2>3. size < Capacity - (writeOffset - readOffset)
    BY <1>2, <2>2 DEF PostOK
  <2>4. size < Capacity - (writeOffset' - readOffset')
    BY <1>1, <2>3
  <2> QED BY <2>2, <2>4
<1> QED BY <1>1, <1>2 DEF PostOK

LEMMA AskUnchanged ==
    ASSUME AskOK, UNCHANGED <<hashVars, paths, asking>>,
           posting' # NotPosting => posting # NotPosting
    PROVE  AskOK'
  BY DEF AskOK, hashVars

(* A step that leaves the mailbox, the hashes and the callback alone.      *)
LEMMA MailUnchanged ==
    ASSUME MailInv, UNCHANGED <<mailVars, hashVars, callVars>>
    PROVE  MailInv'
<1>1. /\ UNCHANGED boxVars /\ UNCHANGED readerVars /\ UNCHANGED posting
      /\ UNCHANGED <<hashVars, paths, asking>>
  BY DEF mailVars, callVars
<1>2. UNCHANGED <<writeOffset, readOffset>>
  BY <1>1 DEF boxVars
<1>3. BoxTypeOK' /\ CellsOK'
  BY <1>1, BoxUnchanged DEF MailInv
<1>4. PostOK'
  BY <1>1, <1>2 DEF MailInv, PostOK
<1>5. AskOK'
  BY <1>1, AskUnchanged DEF MailInv
<1>6. SleepOK'
  BY <1>1, <1>2 DEF MailInv, SleepOK, SleepsOnOldMail, readerVars
<1> QED BY <1>3, <1>4, <1>5, <1>6 DEF MailInv

-----------------------------------------------------------------------------
(* One lemma for each kind of step                                         *)

LEMMA InitHolds == Init => MailInv
<1>1. SUFFICES ASSUME Init PROVE MailInv
  OBVIOUS
<1>2. BoxTypeOK
  <2>1. ASSUME NEW o \in Nat PROVE ring[o % Capacity] = <<>>
    BY <1>1, CellExists DEF Init, MailboxInit
  <2> QED BY <1>1, <2>1 DEF Init, MailboxInit, BoxTypeOK, Cells
<1>3. CellsOK
  BY <1>1 DEF Init, MailboxInit, CellsOK, Lined
<1>4. PostOK
  BY <1>1 DEF Init, MailboxInit, PostOK, NotPosting
<1>5. AskOK
  BY <1>1 DEF Init, MailboxInit, AskOK
<1>6. SleepOK
  BY <1>1 DEF Init, MailboxInit, SleepOK, SleepsOnOldMail
<1> QED BY <1>2, <1>3, <1>4, <1>5, <1>6 DEF MailInv

(* While the callback is elsewhere it posts nothing.                       *)
LEMMA NotPostingElsewhere ==
    ASSUME MailInv, asking = NotAsked \/ asking.step \in {"check", "load"}
    PROVE  posting = NotPosting
  BY Idle DEF MailInv, AskOK

(* A step of the callback outside of mailbox_post: it may begin to post,   *)
(* or take note that a post has returned.                                  *)
LEMMA CallbackKeeps ==
    ASSUME MailInv,
           UNCHANGED <<boxVars, readerVars, hashVars>>,
           paths' \in [ClipSlots -> Clips \cup {None}],
           asking' \in {NotAsked} \cup Calls,
           \/ posting' = posting
           \/ posting' = NotPosting
           \/ \E m \in Mail : posting' = [step |-> "posting", mail |-> m],
           posting.step # "written",
           posting' # NotPosting =>
               asking'.step \in {"open", "prefetch", "prefetch next"}
    PROVE  MailInv'
<1>1. /\ UNCHANGED boxVars /\ UNCHANGED readerVars /\ UNCHANGED hashVars
      /\ UNCHANGED <<writeOffset, readOffset>>
  BY DEF boxVars
<1>2. BoxTypeOK' /\ CellsOK'
  BY <1>1, BoxUnchanged DEF MailInv
<1>3. PostOK'
  <2>1. CASE posting' = posting
    BY <1>1, <2>1 DEF MailInv, PostOK
  <2>2. CASE posting' = NotPosting
    BY <2>2, Idle DEF PostOK
  <2>3. CASE \E m \in Mail : posting' = [step |-> "posting", mail |-> m]
    <3>1. PICK m \in Mail : posting' = [step |-> "posting", mail |-> m]
      BY <2>3
    <3>2. posting' \in Posts /\ posting'.step = "posting"
      BY <3>1 DEF Posts
    <3> QED BY <3>2 DEF PostOK
  <2> QED BY <2>1, <2>2, <2>3
<1>4. AskOK'
  BY <1>1 DEF MailInv, AskOK, hashVars
<1>5. SleepOK'
  BY <1>1, SleepUnchanged DEF MailInv
<1> QED BY <1>2, <1>3, <1>4, <1>5 DEF MailInv

(* au_audio_id starts to post an Open, or posts nothing.                   *)
LEMMA AudioIdKeeps ==
    ASSUME MailInv, NEW clip \in Clips, NEW frame \in Frames,
           AudioId(clip, frame)
    PROVE  MailInv'
<1>1. asking = NotAsked /\ posting = NotPosting
  BY NotPostingElsewhere DEF AudioId
<1>2. UNCHANGED <<boxVars, readerVars, hashVars>>
  BY DEF AudioId
<1>3. clipSlot[clip] \in ClipSlots /\ paths \in [ClipSlots -> Clips \cup {None}]
  BY DEF MailInv, AskOK
<1>4. paths' \in [ClipSlots -> Clips \cup {None}]
  BY <1>3 DEF AudioId
<1>5. asking' \in {NotAsked} \cup Calls
  <2>1. \/ asking' = NotAsked
        \/ asking' = [step |-> "prefetch", clip |-> clip, frame |-> frame]
        \/ asking' = [step |-> "open", clip |-> clip, frame |-> frame]
    BY DEF AudioId, Return
  <2>2. /\ [step |-> "prefetch", clip |-> clip, frame |-> frame] \in Calls
        /\ [step |-> "open", clip |-> clip, frame |-> frame] \in Calls
    BY DEF Calls
  <2> QED BY <2>1, <2>2
<1>6. \/ posting' = NotPosting
      \/ /\ posting' = [step |-> "posting", mail |-> Open(clip)]
         /\ asking'.step = "open"
  BY <1>1 DEF AudioId, StartPost
<1>7. Open(clip) \in Mail
  BY MailAssumption
<1>8. posting.step # "written"
  BY <1>1, Idle
<1> QED BY <1>2, <1>4, <1>5, <1>6, <1>7, <1>8, CallbackKeeps

LEMMA OpenPostedKeeps ==
    ASSUME MailInv, OpenPosted
    PROVE  MailInv'
<1>1. /\ UNCHANGED <<boxVars, readerVars, hashVars>> /\ UNCHANGED paths
      /\ asking.step = "open" /\ posting' = NotPosting
      /\ posting.step \in {"posted", "refused"}
  BY DEF OpenPosted
<1>2. asking \in Calls
  BY <1>1, Idle DEF MailInv, AskOK
<1>3. asking' \in {NotAsked} \cup Calls
  BY <1>2 DEF OpenPosted, Return, Calls
<1> QED BY <1>1, <1>3, CallbackKeeps DEF MailInv, AskOK

(* What au_audio_sample does after a prefetch, whatever that did.          *)
LEMMA AfterPrefetchCalls ==
    ASSUME asking \in Calls, AfterPrefetch
    PROVE  asking' \in {NotAsked} \cup Calls
  BY DEF AfterPrefetch, Return, Calls

LEMMA PreparePostedKeeps ==
    ASSUME MailInv, PreparePosted
    PROVE  MailInv'
<1>1. /\ UNCHANGED <<boxVars, readerVars, hashVars>> /\ UNCHANGED paths
      /\ asking.step \in {"prefetch", "prefetch next"}
      /\ posting' = NotPosting
      /\ posting.step \in {"posted", "refused"}
      /\ AfterPrefetch
  BY DEF PreparePosted
<1>2. asking \in Calls
  BY <1>1, Idle DEF MailInv, AskOK
<1>3. asking' \in {NotAsked} \cup Calls
  BY <1>1, <1>2, AfterPrefetchCalls
<1> QED BY <1>1, <1>3, CallbackKeeps DEF MailInv, AskOK

(* au_audio_prefetch starts to post a Prepare, or posts nothing.           *)
LEMMA PrefetchKeeps ==
    ASSUME MailInv, Prefetch
    PROVE  MailInv'
<1>1. /\ UNCHANGED <<boxVars, readerVars, hashVars>> /\ UNCHANGED paths
      /\ asking.step \in {"prefetch", "prefetch next"}
      /\ posting = NotPosting
  BY DEF Prefetch
<1>2. asking \in Calls
  BY <1>1, Idle DEF MailInv, AskOK
<1>3. Prepare(PrefetchId) \in Mail
  <2>1. asking.clip \in Clips /\ asking.frame \in Frames
    BY <1>2 DEF Calls
  <2>2. PICK f \in {asking.frame, asking.frame + FramesPerBlock} :
            PrefetchId = BlockId(asking.clip, IF f < 0 THEN 0 ELSE f)
    <3>1. asking.frame \in Int
      BY <2>1, AudioManagerAssumption
    <3>2. CASE asking.step = "prefetch next"
      BY <3>2 DEF PrefetchId
    <3>3. CASE asking.step # "prefetch next"
      <4>1. asking.frame + 0 = asking.frame
        BY <3>1
      <4> QED BY <3>3, <4>1 DEF PrefetchId
    <3> QED BY <3>2, <3>3
  <2>3. PrefetchId.clip = asking.clip
    BY <2>2 DEF BlockId
  <2>4. paths[clipSlot[PrefetchId.clip]] \in Clips \cup {None}
    BY <2>1, <2>3 DEF MailInv, AskOK
  <2> QED BY <2>1, <2>2, <2>4, MailAssumption DEF Prepare
<1>4. \/ posting' = NotPosting /\ AfterPrefetch
      \/ /\ posting' = [step |-> "posting", mail |-> Prepare(PrefetchId)]
         /\ asking' = asking
  BY <1>1 DEF Prefetch, StartPost
<1>5. /\ asking' \in {NotAsked} \cup Calls
      /\ posting' # NotPosting => asking'.step \in {"prefetch", "prefetch next"}
  BY <1>1, <1>2, <1>4, AfterPrefetchCalls
<1>6. posting.step # "written"
  BY <1>1, Idle
<1>7. paths' \in [ClipSlots -> Clips \cup {None}]
  BY <1>1 DEF MailInv, AskOK
<1> QED BY <1>1, <1>3, <1>4, <1>5, <1>6, <1>7, CallbackKeeps

(* au_audio_sample posts nothing itself.                                   *)
LEMMA SampleKeeps ==
    ASSUME MailInv, CheckBlock \/ LoadSample
    PROVE  MailInv'
<1>1. /\ UNCHANGED <<boxVars, readerVars, hashVars>>
      /\ UNCHANGED <<paths, posting>>
      /\ asking.step \in {"check", "load"}
  BY DEF CheckBlock, LoadSample, mailVars
<1>2. posting = NotPosting
  BY <1>1, NotPostingElsewhere
<1>3. asking \in Calls
  BY <1>1, Idle DEF MailInv, AskOK
<1>4. asking' \in {NotAsked} \cup Calls
  BY <1>3 DEF CheckBlock, LoadSample, Return, Calls
<1>5. posting.step # "written"
  BY <1>2 DEF NotPosting
<1> QED BY <1>1, <1>2, <1>4, <1>5, CallbackKeeps DEF MailInv, AskOK

-----------------------------------------------------------------------------
(* mailbox_post and mailbox_wait                                           *)

(* A step of mailbox_post that leaves the box and the reader alone.        *)
LEMMA CheckKeeps ==
    ASSUME MailInv, CheckRoom \/ RefusePost,
           UNCHANGED <<hashVars, callVars, loaderVars>>
    PROVE  MailInv'
<1>1. /\ UNCHANGED boxVars /\ UNCHANGED readerVars
      /\ writeOffset' = writeOffset /\ readOffset' = readOffset
      /\ UNCHANGED <<hashVars, paths, asking>>
      /\ posting.step = "posting"
  BY DEF CheckRoom, RefusePost, boxVars, callVars
<1>2. posting \in Posts
  BY <1>1, Idle DEF MailInv, PostOK
<1>3. BoxTypeOK' /\ CellsOK'
  BY <1>1, BoxUnchanged DEF MailInv
<1>4. PostOK'
  <2>1. CASE CheckRoom
    <3>1. /\ posting' = [posting EXCEPT !.step = "room"]
          /\ ~(SizeOf(posting.mail) >= BytesLeft(readOffset))
      BY <2>1 DEF CheckRoom, Refused
    <3>2. posting' \in Posts /\ posting'.mail = posting.mail
      BY <1>2, <3>1 DEF Posts
    <3>3. PICK size \in Nat : size = SizeOf(posting.mail)
      BY <1>2 DEF Posts
    <3>4. ~(size >= Capacity - (writeOffset - readOffset))
      BY <3>1, <3>3 DEF BytesLeft, FillCount
    <3>5. size < Capacity - (writeOffset - readOffset)
      BY <3>4 DEF MailInv, BoxTypeOK
    <3> QED BY <1>1, <3>2, <3>3, <3>5 DEF PostOK
  <2>2. CASE RefusePost
    <3>1. posting' = [posting EXCEPT !.step = "refused"]
      BY <2>2 DEF RefusePost
    <3>2. posting' \in Posts /\ posting'.step = "refused"
      BY <1>2, <3>1 DEF Posts
    <3> QED BY <3>2 DEF PostOK
  <2> QED BY <2>1, <2>2
<1>5. posting # NotPosting
  BY <1>1, Idle
<1>6. AskOK'
  BY <1>1, <1>5, AskUnchanged DEF MailInv
<1>7. SleepOK'
  BY <1>1, SleepUnchanged DEF MailInv
<1> QED BY <1>3, <1>4, <1>6, <1>7 DEF MailInv

LEMMA WriteKeeps ==
    ASSUME MailInv, WriteMail, UNCHANGED <<hashVars, callVars, loaderVars>>
    PROVE  MailInv'
<1>1. /\ UNCHANGED readerVars /\ UNCHANGED <<hashVars, paths, asking>>
      /\ posting.step = "room"
      /\ posting' = [posting EXCEPT !.step = "written"]
  BY DEF WriteMail, callVars
<1>2. posting \in Posts
  BY <1>1, Idle DEF MailInv, PostOK
<1>3. BoxTypeOK' /\ CellsOK'
  BY WriteKeepsCells DEF MailInv
<1>4. posting' \in Posts /\ posting'.step = "written"
  BY <1>1, <1>2 DEF Posts
<1>5. PostOK'
  BY <1>4 DEF PostOK
<1>6. posting # NotPosting
  BY <1>1, Idle
<1>7. AskOK'
  BY <1>1, <1>6, AskUnchanged DEF MailInv
<1>8. SleepOK'
  <2>1. tied' = tied /\ reading' = reading
    BY <1>1 DEF readerVars
  <2>2. reading' \in {"dozing", "asleep"} => tied'
    BY <2>1 DEF MailInv, SleepOK
  <2>3. SleepsOnOldMail'
    BY <1>4 DEF SleepsOnOldMail
  <2> QED BY <2>2, <2>3 DEF SleepOK
<1> QED BY <1>3, <1>5, <1>7, <1>8 DEF MailInv

(* The signal: a reader that sleeps is woken.                              *)
LEMMA SignalKeeps ==
    ASSUME MailInv, SignalReader, UNCHANGED <<hashVars, callVars, loaderVars>>
    PROVE  MailInv'
<1>1. /\ UNCHANGED boxVars /\ tied' = tied
      /\ UNCHANGED <<hashVars, paths, asking>>
      /\ posting.step = "written"
      /\ posting' = [posting EXCEPT !.step = "posted"]
  BY DEF SignalReader, callVars
<1>2. posting \in Posts
  BY <1>1, Idle DEF MailInv, PostOK
<1>3. BoxTypeOK' /\ CellsOK'
  BY <1>1, BoxUnchanged DEF MailInv
<1>4. posting' \in Posts /\ posting'.step = "posted"
  BY <1>1, <1>2 DEF Posts
<1>5. PostOK'
  BY <1>4 DEF PostOK
<1>6. posting # NotPosting
  BY <1>1, Idle
<1>7. AskOK'
  BY <1>1, <1>6, AskUnchanged DEF MailInv
<1>8. SleepOK'
  <2>1. reading = "asleep" => tied
    BY DEF MailInv, SleepOK
  <2>2. reading' # "asleep" /\ (reading' = "dozing" => reading = "dozing")
    BY <2>1 DEF SignalReader, WakeUp
  <2>3. reading' \in {"dozing", "asleep"} => tied'
    BY <1>1, <2>2 DEF MailInv, SleepOK
  <2>4. SleepsOnOldMail'
    BY <2>2 DEF SleepsOnOldMail
  <2> QED BY <2>3, <2>4 DEF SleepOK
<1> QED BY <1>3, <1>5, <1>7, <1>8 DEF MailInv

(* A step of the reader that takes nothing out of the box.                 *)
LEMMA ReaderKeeps ==
    ASSUME MailInv, UNCHANGED <<boxVars, posting, hashVars, callVars>>,
           reading' \in {"dozing", "asleep"} => tied',
           reading' = "asleep" => slept' = writeOffset
    PROVE  MailInv'
<1>1. /\ UNCHANGED boxVars /\ posting' = posting
      /\ writeOffset' = writeOffset /\ readOffset' = readOffset
      /\ UNCHANGED <<hashVars, paths, asking>>
  BY DEF boxVars, callVars
<1>2. BoxTypeOK' /\ CellsOK'
  BY <1>1, BoxUnchanged DEF MailInv
<1>3. PostOK'
  BY <1>1 DEF MailInv, PostOK
<1>4. AskOK'
  BY <1>1, AskUnchanged DEF MailInv
<1>5. SleepsOnOldMail'
  BY <1>1 DEF SleepsOnOldMail
<1>6. SleepOK'
  BY <1>5 DEF SleepOK
<1> QED BY <1>2, <1>3, <1>4, <1>6 DEF MailInv

LEMMA ReadKeeps ==
    ASSUME MailInv, ReadMail
    PROVE  MailInv'
<1>1. /\ UNCHANGED readerVars /\ UNCHANGED <<ring, writeOffset>>
      /\ posting' = posting /\ UNCHANGED <<hashVars, paths, asking>>
      /\ readOffset # writeOffset /\ TakeMail
  <2>1. UNCHANGED readerVars /\ UNCHANGED <<ring, writeOffset>>
        /\ posting' = posting /\ UNCHANGED <<hashVars, paths, asking>>
        /\ FillCount(readOffset) # 0 /\ TakeMail
    BY DEF ReadMail, callVars, Found
  <2> QED BY <2>1 DEF FillCount, MailInv, BoxTypeOK
<1>2. readOffset < writeOffset
  BY <1>1 DEF MailInv, BoxTypeOK
<1>3. /\ BoxTypeOK' /\ CellsOK'
      /\ writeOffset' - readOffset' <= writeOffset - readOffset
  BY <1>1, <1>2, TakeKeepsCells DEF MailInv
<1>4. PostOK'
  BY <1>1, <1>3, PostUnchanged DEF MailInv
<1>5. AskOK'
  BY <1>1, AskUnchanged DEF MailInv
<1>6. SleepOK'
  BY <1>1, SleepUnchanged DEF MailInv
<1> QED BY <1>3, <1>4, <1>5, <1>6 DEF MailInv

-----------------------------------------------------------------------------
(* MailInv is an invariant                                                 *)

LEMMA LoaderKeeps ==
    ASSUME MailInv, Loader
    PROVE  MailInv'
<1>1. CASE StartRound
  <2>1. /\ UNCHANGED <<boxVars, posting, hashVars, callVars>>
        /\ tied' /\ reading' # "asleep"
    BY <1>1 DEF StartRound, TieReader
  <2> QED BY <2>1, ReaderKeeps
<1>2. CASE EndRound
  <2>1. /\ UNCHANGED <<boxVars, posting, hashVars, callVars>>
        /\ reading' = "away"
    BY <1>2 DEF EndRound
  <2> QED BY <2>1, ReaderKeeps
<1>3. CASE ReadMail
  BY <1>3, ReadKeeps
<1>4. CASE FindFile \/ Decode \/ Publish \/ FillSample \/ StoreId \/ KeepId
  <2>1. UNCHANGED <<mailVars, hashVars, callVars>>
    BY <1>4 DEF FindFile, Decode, Publish, FillSample, StoreId, KeepId
  <2> QED BY <2>1, MailUnchanged
<1>5. CASE FallAsleep /\ UNCHANGED <<hashVars, callVars, loaderVars>>
  <2>1. /\ UNCHANGED <<boxVars, posting, hashVars, callVars>>
        /\ reading = "dozing" /\ slept' = writeOffset /\ tied' = tied
    BY <1>5 DEF FallAsleep
  <2>2. tied
    BY <2>1 DEF MailInv, SleepOK
  <2> QED BY <2>1, <2>2, ReaderKeeps
<1> QED BY <1>1, <1>2, <1>3, <1>4, <1>5 DEF Loader

LEMMA NextKeeps ==
    ASSUME MailInv, [Next]_vars
    PROVE  MailInv'
<1>1. CASE Callback
  <2>1. ASSUME NEW clip \in Clips, NEW frame \in Frames, AudioId(clip, frame)
        PROVE  MailInv'
    BY <2>1, AudioIdKeeps
  <2>2. CASE OpenPosted
    BY <2>2, OpenPostedKeeps
  <2>3. CASE Prefetch
    BY <2>3, PrefetchKeeps
  <2>4. CASE PreparePosted
    BY <2>4, PreparePostedKeeps
  <2>5. CASE CheckBlock \/ LoadSample
    BY <2>5, SampleKeeps
  <2>6. CASE /\ CheckRoom \/ RefusePost \/ WriteMail \/ SignalReader
             /\ UNCHANGED <<hashVars, callVars, loaderVars>>
    BY <2>6, CheckKeeps, WriteKeeps, SignalKeeps
  <2> QED BY <1>1, <2>1, <2>2, <2>3, <2>4, <2>5, <2>6 DEF Callback
<1>2. CASE Loader
  BY <1>2, LoaderKeeps
<1>3. CASE UNCHANGED vars
  <2>1. UNCHANGED <<mailVars, hashVars, callVars>>
    BY <1>3 DEF vars
  <2> QED BY <2>1, MailUnchanged
<1> QED BY <1>1, <1>2, <1>3 DEF Next

(* The mailbox between the audio callback and the loader is as MailInv     *)
(* says at every step of a post, a read or a wait.                         *)
THEOREM MailInvariant == Spec => []MailInv
  BY InitHolds, NextKeeps, PTL DEF Spec

(* The count of bytes in the box lies within the ring on either thread,    *)
(* and what mailbox_read finds has the size it says, whatever the sizes of *)
(* the messages and however posts and reads interleave.                    *)
THEOREM BoxCountsFit == Spec => []CountsFit
<1>1. MailInv => CountsFit
  <2>1. SUFFICES ASSUME MailInv PROVE CountsFit
    OBVIOUS
  <2>2. FillCount(readOffset) \in 0 .. Capacity
    BY <2>1 DEF FillCount, MailInv, BoxTypeOK
  <2>3. ASSUME Found PROVE Intact(readOffset)
    <3>1. readOffset < writeOffset
      BY <2>1, <2>3 DEF Found, FillCount, MailInv, BoxTypeOK
    <3>2. /\ MailAt(readOffset) \in Mail
          /\ WholeIn(ring, MailAt(readOffset), readOffset)
      BY <2>1, <3>1, FirstIsWhole DEF MailInv
    <3>3. ring[readOffset % Capacity] = <<MailAt(readOffset), 0>>
      <4>1. 0 \in 0 .. SizeOf(MailAt(readOffset)) - 1
        BY <3>2
      <4>2. ring[(readOffset + 0) % Capacity] = <<MailAt(readOffset), 0>>
        BY <3>2, <4>1 DEF WholeIn
      <4>3. readOffset + 0 = readOffset
        BY <2>1 DEF MailInv, BoxTypeOK
      <4> QED BY <4>2, <4>3
    <3>4. ring[readOffset % Capacity] # <<>>
      BY <3>3, PairNotEmpty
    <3> QED BY <3>2, <3>4 DEF Intact, WholeIn
  <2> QED BY <2>2, <2>3 DEF CountsFit
<1> QED BY <1>1, MailInvariant, PTL

(* A loader that sleeps while there is mail sleeps on mail that was posted *)
(* before it fell asleep: no post that finds it asleep leaves it so.       *)
THEOREM SleepsOnlyOnOldMail == Spec => []SleepsOnOldMail
<1>1. MailInv => SleepsOnOldMail
  BY DEF MailInv, SleepOK
<1> QED BY <1>1, MailInvariant, PTL

-----------------------------------------------------------------------------
(* The ring implements a box                                               *)

LEMMA ReadMailIsTail ==
    ASSUME MailInv, ReadMail
    PROVE  /\ InBox # <<>> /\ Head(InBox) = MailAt(readOffset)
           /\ InBox' = Tail(InBox)
<1>1. /\ UNCHANGED <<ring, writeOffset>> /\ TakeMail
      /\ FillCount(readOffset) # 0
  BY DEF ReadMail, Found
<1>2. readOffset < writeOffset
  BY <1>1 DEF FillCount, MailInv, BoxTypeOK
<1> QED BY <1>1, <1>2, TakeIsTail DEF MailInv

LEMMA WriteMailAppends ==
    ASSUME MailInv, WriteMail
    PROVE  posting.mail \in Mail /\ InBox' = Append(InBox, posting.mail)
<1>1. posting.mail \in Mail
  BY Idle DEF MailInv, WriteMail, PostOK, Posts
<1> QED BY <1>1, WriteAppends DEF MailInv

(* Only a post that is written and a message that is read change the box.  *)
LEMMA BoxSteps ==
    ASSUME MailInv, [Next]_vars
    PROVE  WriteMail \/ ReadMail \/ InBox' = InBox
<1>1. CASE Callback
  <2>1. CASE WriteMail
    BY <2>1
  <2>2. CASE ~WriteMail
    <3>1. UNCHANGED boxVars
      BY <1>1, <2>2 DEF Callback, AudioId, OpenPosted, Prefetch,
            PreparePosted, CheckBlock, LoadSample, CheckRoom, RefusePost,
            SignalReader, mailVars
    <3> QED BY <3>1, InBoxUnchanged
  <2> QED BY <2>1, <2>2
<1>2. CASE Loader
  <2>1. CASE ReadMail
    BY <2>1
  <2>2. CASE ~ReadMail
    <3>1. UNCHANGED boxVars
      BY <1>2, <2>2 DEF Loader, StartRound, EndRound, FindFile, Decode,
            Publish, FillSample, StoreId, KeepId, FallAsleep, mailVars
    <3> QED BY <3>1, InBoxUnchanged
  <2> QED BY <2>1, <2>2
<1>3. CASE UNCHANGED vars
  <2>1. UNCHANGED boxVars
    BY <1>3 DEF vars, mailVars
  <2> QED BY <2>1, InBoxUnchanged
<1> QED BY <1>1, <1>2, <1>3 DEF Next

(* The box is empty at first.                                              *)
LEMMA BoxEmptyAtFirst ==
    ASSUME Init
    PROVE  InBox = <<>>
<1>1. readOffset = 0 /\ writeOffset = 0 /\ BoxTypeOK
  BY InitHolds DEF Init, MailboxInit, MailInv
<1>2. PICK f : ReadsOut(ring, writeOffset, f) /\ InBox = f[readOffset]
  BY <1>1, InBoxIsReadOut
<1> QED BY <1>1, <1>2, ReadOutEnd

(* The ring is a box: what is posted stays in it, whole and in order, till *)
(* it is read, however the two threads interleave (mailbox_post,           *)
(* mailbox_read).                                                          *)
THEOREM MailboxIsPostBox == Spec => ImplementsPostBox
<1>1. Init => Posted!Init
  BY BoxEmptyAtFirst DEF Posted!Init
<1>2. MailInv /\ [Next]_vars => [Posted!Next]_InBox
  <2>1. SUFFICES ASSUME MailInv, [Next]_vars
                 PROVE  Posted!Next \/ InBox' = InBox
    OBVIOUS
  <2>2. CASE WriteMail
    BY <2>1, <2>2, WriteMailAppends DEF Posted!Next, Posted!Put
  <2>3. CASE ReadMail
    BY <2>1, <2>3, ReadMailIsTail DEF Posted!Next, Posted!Take
  <2> QED BY <2>1, <2>2, <2>3, BoxSteps
<1> QED BY <1>1, <1>2, MailInvariant, PTL
      DEF Spec, ImplementsPostBox, Posted!Spec

-----------------------------------------------------------------------------
(* The loader.  LoaderInv says what becomes of a letter: who posts it, when *)
(* it lies in the box or with the loader, and what it leaves in the tables. *)

(* What the callback posts: letters about a clip, with a path it stored.   *)
BlockIds == {id \in [clip : Clips, num : Nat] : BlockSlot(id) \in BlockSlots}

Opens    == [kind : {"open"}, clip : Clips]
Prepares == [kind : {"prepare"}, id : BlockIds, path : Clips]
Letters  == Opens \cup Prepares

InTheBox(m)  == \E i \in DOMAIN InBox : InBox[i] = m
InLoader(m)  == loading # NotLoad /\ loading.mail = m
OnItsWay(m)  == InTheBox(m) \/ InLoader(m)
Unposted(m)  == posting # NotPosting /\ posting.mail = m
                /\ posting.step \in {"posting", "room", "refused"}
Delivered(m) == posting # NotPosting /\ posting.mail = m
                /\ posting.step \in {"written", "posted"}

(* Of what kind the state of the loader is.                                *)
Loads ==
    [step : {"find", "open", "publish", "prepare"}, mail : Letters,
     next : 0 .. FramesPerBlock]

LoaderTypes ==
    /\ opened \in [ClipSlots -> Clips \cup {None}]
    /\ decoded \in [ClipSlots -> Clips \cup {None}]
    /\ loading \in {NotLoad} \cup Loads
    /\ InBox \in Seq(Letters)

LoaderSteps ==
    loading # NotLoad =>
        /\ loading.step # "prepare" => loading.next = 0
        /\ loading.step \in {"open", "publish"} => loading.mail \in Opens
        /\ loading.step = "prepare" => loading.mail \in Prepares
        /\ loading.step = "publish" =>
              decoded[clipSlot[loading.mail.clip]] = loading.mail.clip

BlockTypes ==
    /\ DOMAIN blocks = BlockSlots
    /\ \A b \in BlockSlots :
          /\ DOMAIN blocks[b] = {"id", "samples"}
          /\ blocks[b].id \in [clip : Clips \cup {None}, num : Nat]
          /\ DOMAIN blocks[b].samples = 0 .. FramesPerBlock - 1

(* A slot holds a clip that hashes to it, and is decoded before it opens.  *)
SlotsOK ==
    \A s \in ClipSlots :
        /\ decoded[s] # None => clipSlot[decoded[s]] = s
        /\ paths[s] # None => clipSlot[paths[s]] = s
        /\ opened[s] # None => decoded[s] # None

(* The letter that is being posted is the one the callback asks for.       *)
PostsWhatIsAsked ==
    posting # NotPosting =>
        /\ posting.mail \in Letters
        /\ asking.step = "open" => posting.mail = Open(asking.clip)
        /\ asking.step \in {"prefetch", "prefetch next"} =>
              \E path \in Clips : posting.mail = PrepareAt(PrefetchId, path)

(* Whoever was asked about has a path in its slot.                         *)
PathsStored ==
    \A clip \in Clips :
        \/ OnItsWay(Open(clip))
        \/ Unposted(Open(clip))
        \/ opened[clipSlot[clip]] = clip
        \/ asking # NotAsked /\ asking.clip = clip
        => paths[clipSlot[clip]] # None

OnlyOnce ==
    \A clip \in Clips : Sharers(clip) = {clip} =>
        /\ \A i, j \in DOMAIN InBox :
              InBox[i] = Open(clip) /\ InBox[j] = Open(clip) => i = j
        /\ InLoader(Open(clip)) => ~InTheBox(Open(clip))
        /\ opened[clipSlot[clip]] = clip => ~OnItsWay(Open(clip))
        /\ Unposted(Open(clip)) =>
              ~OnItsWay(Open(clip)) /\ opened[clipSlot[clip]] # clip

WillBeReady ==
    \A clip \in Clips :
        paths[clipSlot[clip]] = clip /\ Sharers(clip) = {clip} =>
            \/ opened[clipSlot[clip]] = clip
            \/ OnItsWay(Open(clip)) \/ Unposted(Open(clip))
            \/ Open(clip) \in given_up

(* A block is on its way, given up, or its place is taken.                 *)
Comes(id) ==
    \/ blocks[BlockSlot(id)].id # NoId
    \/ \E path \in Clips : \/ OnItsWay(PrepareAt(id, path))
                          \/ PrepareAt(id, path) \in given_up

RememberedComes ==
    /\ history \in Seq(BlockIds \cup {NoId}) /\ Len(history) = HistorySize
    /\ \A i \in DOMAIN history : history[i] = NoId \/ Comes(history[i])
    /\ \A id \in BlockIds, path \in Clips :
          Delivered(PrepareAt(id, path)) => Comes(id)

(* Half an id is stored only while the loader stores the other half.       *)
HalfIds ==
    \A b \in BlockSlots :
        blocks[b].id.clip = None =>
            \/ blocks[b].id.num = 0
            \/ /\ Filling(b) /\ loading.next = FramesPerBlock
               /\ blocks[b].id.num = loading.mail.id.num

(* A clip is decoded, or was given up, before a block of it is filled: its *)
(* Open goes ahead of its Prepares.                                        *)
Settled(clip) == decoded[clipSlot[clip]] # None \/ Open(clip) \in given_up

OpensGoAhead ==
    /\ \A j \in DOMAIN InBox : InBox[j] \in Prepares =>
          LET clip == InBox[j].id.clip
          IN  \/ Settled(clip) \/ InLoader(Open(clip))
              \/ \E i \in 1 .. j - 1 : InBox[i] = Open(clip)
    /\ loading # NotLoad /\ loading.mail \in Prepares =>
          Settled(loading.mail.id.clip)
    /\ \A clip \in Clips :
          \/ Delivered(Open(clip))
          \/ asking.step \in {"prefetch", "prefetch next"} /\ asking.clip = clip
          => Settled(clip) \/ OnItsWay(Open(clip))

(* What the loader has filled of a block is of the clip in the slot now.   *)
FilledSoFar ==
    loading # NotLoad /\ loading.step = "prepare" =>
        LET id == loading.mail.id
        IN  \A i \in 0 .. loading.next - 1 :
                blocks[BlockSlot(id)].samples[i] =
                    SampleOf(decoded[clipSlot[id.clip]],
                             id.num * FramesPerBlock + i)

LoaderInv ==
    /\ LoaderTypes /\ LoaderSteps /\ BlockTypes /\ SlotsOK
    /\ PostsWhatIsAsked /\ PathsStored /\ OnlyOnce /\ WillBeReady
    /\ RememberedComes /\ HalfIds /\ OpensGoAhead /\ FilledSoFar
    /\ BlocksMatch

-----------------------------------------------------------------------------
(* What the steps leave alone                                              *)

LEMMA CallbackLeaves ==
    ASSUME Callback
    PROVE  UNCHANGED <<hashVars, opened, decoded, blocks, loading, finds>>
  BY DEF Callback, AudioId, OpenPosted, Prefetch, PreparePosted, CheckBlock,
         LoadSample, loaderVars

LEMMA LoaderLeaves ==
    ASSUME Loader
    PROVE  UNCHANGED <<hashVars, callVars, posting>>
  BY DEF Loader, StartRound, EndRound, ReadMail, FindFile, Decode, Publish,
         FillSample, StoreId, KeepId, FallAsleep, mailVars

(* A step of the loader, but for ReadMail, leaves the box alone.           *)
LEMMA LoaderLeavesBox ==
    ASSUME StartRound \/ EndRound \/ FindFile \/ Decode \/ Publish
           \/ FillSample \/ StoreId \/ KeepId \/ FallAsleep
    PROVE  InBox' = InBox
<1>1. UNCHANGED boxVars
  BY DEF StartRound, EndRound, FindFile, Decode, Publish, FillSample,
         StoreId, KeepId, FallAsleep, mailVars
<1> QED BY <1>1, InBoxUnchanged

(* A step of the callback, but for WriteMail, leaves the box alone.        *)
LEMMA CallbackLeavesBox ==
    ASSUME Callback, ~WriteMail
    PROVE  InBox' = InBox
<1>1. UNCHANGED boxVars
  BY DEF Callback, AudioId, OpenPosted, Prefetch, PreparePosted, CheckBlock,
         LoadSample, CheckRoom, RefusePost, SignalReader, mailVars
<1> QED BY <1>1, InBoxUnchanged

(* Steps of the loader that are of no letter.                              *)
Idles ==
    \/ StartRound \/ EndRound
    \/ FallAsleep /\ UNCHANGED loaderVars

LEMMA IdlesLeave ==
    ASSUME Idles
    PROVE  /\ UNCHANGED <<opened, decoded, blocks, loading, given_up>>
           /\ InBox' = InBox
<1>1. UNCHANGED <<opened, decoded, blocks, loading, given_up>>
  BY DEF Idles, StartRound, EndRound, loaderVars
<1> QED BY <1>1, LoaderLeavesBox DEF Idles

LEMMA LoaderCases ==
    ASSUME Loader
    PROVE  \/ Idles \/ ReadMail \/ FindFile \/ Decode \/ Publish
           \/ FillSample \/ StoreId \/ KeepId
<1>1. CASE FallAsleep /\ UNCHANGED <<hashVars, callVars, loaderVars>>
  <2>1. UNCHANGED loaderVars
    BY <1>1
  <2> QED BY <1>1, <2>1 DEF Idles
<1>2. CASE \/ StartRound \/ EndRound \/ ReadMail \/ FindFile \/ Decode
           \/ Publish \/ FillSample \/ StoreId \/ KeepId
  BY <1>2 DEF Idles
<1> QED BY <1>1, <1>2 DEF Loader

(* Letters of the one kind and of the other.                               *)
LEMMA Kinds ==
    /\ \A clip \in Clips : Open(clip) \in Opens /\ Open(clip).clip = clip
    /\ \A m \in Opens : m = Open(m.clip) /\ m.clip \in Clips
    /\ \A id \in BlockIds, path \in Clips :
          PrepareAt(id, path) \in Prepares /\ PrepareAt(id, path).id = id
    /\ \A m \in Prepares :
          /\ m = PrepareAt(m.id, m.path) /\ m.id \in BlockIds
          /\ m.path \in Clips
    /\ \A m \in Opens, n \in Prepares : m # n
    /\ \A m \in Opens : m.kind = "open"
    /\ \A m \in Prepares : m.kind = "prepare"
    /\ \A c, d \in Clips : Open(c) = Open(d) => c = d
<1>1. \A m \in Opens : m.kind = "open"
  BY DEF Opens
<1>2. \A m \in Prepares : m.kind = "prepare"
  BY DEF Prepares
<1>3. \A clip \in Clips : Open(clip) \in Opens /\ Open(clip).clip = clip
  BY DEF Opens, Open
<1>4. \A m \in Opens : m = Open(m.clip) /\ m.clip \in Clips
  BY DEF Opens, Open
<1>5. \A id \in BlockIds, path \in Clips :
          PrepareAt(id, path) \in Prepares /\ PrepareAt(id, path).id = id
  BY DEF Prepares, PrepareAt
<1>6. \A m \in Prepares : /\ m = PrepareAt(m.id, m.path) /\ m.id \in BlockIds
                          /\ m.path \in Clips
  BY DEF Prepares, PrepareAt
<1> QED BY <1>1, <1>2, <1>3, <1>4, <1>5, <1>6

(* The frame a block is prefetched for.                                    *)
LEMMA FrameOK ==
    ASSUME NEW frame \in Int, NEW f \in {frame + 0, frame + FramesPerBlock}
    PROVE  (IF f < 0 THEN 0 ELSE f) \div FramesPerBlock \in Nat
<1>1. f \in Int
  OBVIOUS
<1>2. PICK g \in Nat : g = IF f < 0 THEN 0 ELSE f
  BY <1>1
<1>3. g \div FramesPerBlock \in Nat
  OBVIOUS
<1> QED BY <1>2, <1>3

(* What the callback prefetches is a block of the clip it asks for.        *)
LEMMA PrefetchIdOK ==
    ASSUME AskOK, asking.step \in {"prefetch", "prefetch next"}
    PROVE  /\ PrefetchId \in BlockIds /\ PrefetchId.clip = asking.clip
           /\ asking \in Calls /\ asking.clip \in Clips
<1>1. asking \in Calls
  BY Idle DEF AskOK
<1>2. asking.clip \in Clips /\ asking.frame \in Frames
  BY <1>1 DEF Calls
<1>3. PICK clip \in Clips, frame \in Frames :
          clip = asking.clip /\ frame = asking.frame
  BY <1>2
<1>4. PICK f \in {frame + 0, frame + FramesPerBlock} :
          PrefetchId = BlockId(clip, IF f < 0 THEN 0 ELSE f)
  <2>1. CASE asking.step = "prefetch next"
    BY <2>1, <1>3 DEF PrefetchId
  <2>2. CASE asking.step # "prefetch next"
    BY <2>2, <1>3 DEF PrefetchId
  <2> QED BY <2>1, <2>2
<1>5. frame \in Int /\ frame + 0 = frame
  BY ONLY frame \in Frames, AudioManagerAssumption
<1>6. BlockSlot(PrefetchId) \in BlockSlots
  BY <1>4, <1>5, MailAssumption
<1>7. (IF f < 0 THEN 0 ELSE f) \div FramesPerBlock \in Nat
  BY <1>5, FrameOK
<1>8. PrefetchId \in [clip : Clips, num : Nat] /\ PrefetchId.clip = clip
  BY <1>4, <1>7 DEF BlockId
<1> QED BY <1>1, <1>2, <1>3, <1>6, <1>8 DEF BlockIds

LEMMA NotLoadIdle == NotLoad.step = "none" /\ NotLoad \notin Loads
<1>1. NotLoad.step = "none"
  BY DEF NotLoad
<1>2. \A l \in Loads : l.step # "none"
  BY DEF Loads
<1> QED BY <1>1, <1>2

LEMMA IsLoading ==
    ASSUME LoaderTypes, loading.step \in {"find", "open", "publish", "prepare"}
    PROVE  /\ loading # NotLoad /\ loading \in Loads
           /\ loading.mail \in Letters /\ loading.next \in 0 .. FramesPerBlock
<1>1. loading # NotLoad
  BY NotLoadIdle
<1>2. loading \in Loads
  BY <1>1 DEF LoaderTypes
<1> QED BY <1>1, <1>2 DEF Loads

-----------------------------------------------------------------------------
(* What the loader holds is of its kind                                    *)

(* What the first message in the box becomes.                              *)
LEMMA ReadIsFind ==
    ASSUME MailInv, LoaderInv, ReadMail
    PROVE  /\ loading = NotLoad /\ InBox # <<>> /\ InBox \in Seq(Letters)
           /\ loading' = [step |-> "find", mail |-> Head(InBox), next |-> 0]
           /\ Head(InBox) \in Letters /\ InBox' = Tail(InBox)
           /\ InBox' \in Seq(Letters)
           /\ UNCHANGED <<opened, decoded, blocks, given_up>>
<1>1. /\ InBox # <<>> /\ Head(InBox) = MailAt(readOffset)
      /\ InBox' = Tail(InBox)
  BY ReadMailIsTail
<1>2. InBox \in Seq(Letters)
  BY DEF LoaderInv, LoaderTypes
<1>3. Head(InBox) \in Letters /\ Tail(InBox) \in Seq(Letters)
  BY <1>1, <1>2, HeadTailProperties
<1>4. /\ loading = NotLoad
      /\ loading' = [step |-> "find", mail |-> MailAt(readOffset), next |-> 0]
      /\ UNCHANGED <<opened, decoded, blocks, given_up>>
  BY DEF ReadMail
<1> QED BY <1>1, <1>2, <1>3, <1>4

(* What is written into the box.                                           *)
LEMMA WriteIsLetter ==
    ASSUME MailInv, LoaderInv, WriteMail
    PROVE  /\ posting # NotPosting /\ posting.mail \in Letters
           /\ posting.step = "room"
           /\ posting' = [posting EXCEPT !.step = "written"]
           /\ posting' # NotPosting /\ posting'.mail = posting.mail
           /\ posting'.step = "written"
           /\ InBox \in Seq(Letters)
           /\ InBox' = Append(InBox, posting.mail)
           /\ InBox' \in Seq(Letters)
<1>1. /\ posting.step = "room"
      /\ posting' = [posting EXCEPT !.step = "written"]
  BY DEF WriteMail
<1>2. posting # NotPosting
  BY <1>1, Idle
<1>3. posting.mail \in Letters
  BY <1>2 DEF LoaderInv, PostsWhatIsAsked
<1>4. posting \in Posts
  BY <1>2 DEF MailInv, PostOK
<1>5. posting'.step = "written" /\ posting'.mail = posting.mail
  BY <1>1, <1>4 DEF Posts
<1>6. posting' # NotPosting
  BY <1>5, Idle
<1>7. InBox \in Seq(Letters) /\ InBox' = Append(InBox, posting.mail)
  BY WriteMailAppends DEF LoaderInv, LoaderTypes
<1>8. InBox' \in Seq(Letters)
  BY <1>3, <1>7, AppendProperties
<1> QED BY <1>1, <1>2, <1>3, <1>5, <1>6, <1>7, <1>8

(* What becomes of a letter the loader has.                                *)
LEMMA HandlingSteps ==
    ASSUME MailInv, LoaderInv,
           FindFile \/ Decode \/ Publish \/ FillSample \/ StoreId \/ KeepId
    PROVE  /\ loading # NotLoad /\ loading \in Loads
           /\ loading.mail \in Letters /\ InBox' = InBox
           /\ \/ loading' = NotLoad
              \/ loading' \in Loads /\ loading'.mail = loading.mail
           /\ \/ given_up' = given_up
              \/ /\ given_up' = given_up \cup {loading.mail}
                 /\ loading' = NotLoad
<1>1. InBox' = InBox
  BY LoaderLeavesBox
<1>2. /\ loading # NotLoad /\ loading \in Loads /\ loading.mail \in Letters
      /\ loading.next \in 0 .. FramesPerBlock
  <2>1. loading.step \in {"find", "open", "publish", "prepare"}
    BY DEF FindFile, Decode, Publish, FillSample, StoreId, KeepId
  <2> QED BY <2>1, IsLoading DEF LoaderInv
<1>3. CASE FindFile
  <2>1. loading.mail.kind \in {"open", "prepare"}
    BY <1>2, Kinds DEF Letters
  <2>2. \/ GiveUp
        \/ /\ loading' = [loading EXCEPT !.step = loading.mail.kind]
           /\ given_up' = given_up
    BY <1>3 DEF FindFile
  <2>3. [loading EXCEPT !.step = loading.mail.kind] \in Loads
    BY <1>2, <2>1 DEF Loads
  <2>4. [loading EXCEPT !.step = loading.mail.kind].mail = loading.mail
    BY <1>2 DEF Loads
  <2> QED BY <1>1, <1>2, <2>2, <2>3, <2>4 DEF GiveUp
<1>4. CASE Decode
  <2>1. \/ GiveUp
        \/ /\ loading' = [loading EXCEPT !.step = "publish"]
           /\ given_up' = given_up
    BY <1>4 DEF Decode
  <2>2. /\ [loading EXCEPT !.step = "publish"] \in Loads
        /\ [loading EXCEPT !.step = "publish"].mail = loading.mail
    BY <1>2 DEF Loads
  <2> QED BY <1>1, <1>2, <2>1, <2>2 DEF GiveUp
<1>5. CASE Publish \/ KeepId
  BY <1>1, <1>2, <1>5 DEF Publish, KeepId
<1>6. CASE FillSample
  <2>1. /\ loading' = [loading EXCEPT !.next = loading.next + 1]
        /\ loading.next < FramesPerBlock /\ given_up' = given_up
    BY <1>6 DEF FillSample
  <2>2. loading.next + 1 \in 0 .. FramesPerBlock
    BY <1>2, <2>1
  <2>3. loading' \in Loads /\ loading'.mail = loading.mail
    BY <1>2, <2>1, <2>2 DEF Loads
  <2> QED BY <1>1, <1>2, <2>1, <2>3
<1>7. CASE StoreId
  BY <1>1, <1>2, <1>7 DEF StoreId
<1> QED BY <1>3, <1>4, <1>5, <1>6, <1>7

LEMMA LoaderTypesKept ==
    ASSUME MailInv, LoaderInv, Callback \/ Loader
    PROVE  LoaderTypes'
<1>1. LoaderTypes /\ clipSlot \in [Clips -> ClipSlots]
  BY DEF LoaderInv, MailInv, AskOK
<1>2. CASE Callback
  <2>1. UNCHANGED <<opened, decoded, loading>>
    BY <1>2, CallbackLeaves
  <2>2. InBox' \in Seq(Letters)
    BY <1>1, <1>2, WriteIsLetter, CallbackLeavesBox DEF LoaderTypes
  <2> QED BY <1>1, <2>1, <2>2 DEF LoaderTypes
<1>3. CASE Loader
  <2>1. CASE Idles
    BY <1>1, <2>1, IdlesLeave DEF LoaderTypes
  <2>2. CASE ReadMail
    <3>1. loading' \in Loads
      BY <2>2, ReadIsFind DEF Loads
    <3>2. UNCHANGED <<opened, decoded>> /\ InBox' \in Seq(Letters)
      BY <2>2, ReadIsFind
    <3> QED BY <1>1, <3>1, <3>2 DEF LoaderTypes
  <2>3. CASE FindFile \/ FillSample \/ StoreId \/ KeepId
    <3>1. UNCHANGED <<opened, decoded>>
      BY <2>3 DEF FindFile, FillSample, StoreId, KeepId
    <3>2. loading' \in {NotLoad} \cup Loads /\ InBox' = InBox
      BY <2>3, HandlingSteps
    <3> QED BY <1>1, <3>1, <3>2 DEF LoaderTypes
  <2>4. CASE Decode \/ Publish
    <3>1. loading' \in {NotLoad} \cup Loads /\ InBox' = InBox
      BY <2>4, HandlingSteps
    <3>2. loading.mail.clip \in Clips
      <4>1. loading.step \in {"open", "publish"}
        BY <2>4 DEF Decode, Publish
      <4>2. loading # NotLoad
        BY <4>1, NotLoadIdle
      <4>3. loading.mail \in Opens
        BY <4>1, <4>2 DEF LoaderInv, LoaderSteps
      <4> QED BY <4>3, Kinds
    <3>3. /\ opened' \in [ClipSlots -> Clips \cup {None}]
          /\ decoded' \in [ClipSlots -> Clips \cup {None}]
      BY <1>1, <2>4, <3>2 DEF LoaderTypes, Decode, Publish
    <3> QED BY <1>1, <3>1, <3>3 DEF LoaderTypes
  <2> QED BY <1>3, <2>1, <2>2, <2>3, <2>4, LoaderCases
<1> QED BY <1>2, <1>3

(* An Open is being decoded or published, a Prepare is being filled in.    *)
LEMMA HandlesOpen ==
    ASSUME MailInv, LoaderInv, loading.step \in {"open", "publish"}
    PROVE  /\ loading # NotLoad /\ loading.mail \in Opens
           /\ loading.mail = Open(loading.mail.clip)
           /\ loading.mail.clip \in Clips
           /\ clipSlot[loading.mail.clip] \in ClipSlots
<1>1. loading # NotLoad
  BY NotLoadIdle
<1>2. loading.mail \in Opens
  BY <1>1 DEF LoaderInv, LoaderSteps
<1>3. loading.mail = Open(loading.mail.clip) /\ loading.mail.clip \in Clips
  BY <1>2, Kinds
<1> QED BY <1>1, <1>2, <1>3 DEF MailInv, AskOK

LEMMA HandlesPrepare ==
    ASSUME MailInv, LoaderInv, loading.step = "prepare"
    PROVE  /\ loading # NotLoad /\ loading.mail \in Prepares
           /\ loading \in Loads /\ loading.next \in 0 .. FramesPerBlock
           /\ loading.mail = PrepareAt(loading.mail.id, loading.mail.path)
           /\ loading.mail.path \in Clips
           /\ loading.mail.id \in BlockIds
           /\ loading.mail.id.clip \in Clips /\ loading.mail.id.num \in Nat
           /\ BlockSlot(loading.mail.id) \in BlockSlots
           /\ clipSlot[loading.mail.id.clip] \in ClipSlots
<1>1. loading # NotLoad /\ loading \in Loads
      /\ loading.next \in 0 .. FramesPerBlock
  BY IsLoading DEF LoaderInv
<1>2. loading.mail \in Prepares
  BY <1>1 DEF LoaderInv, LoaderSteps
<1>3. /\ loading.mail = PrepareAt(loading.mail.id, loading.mail.path)
      /\ loading.mail.path \in Clips
      /\ loading.mail.id \in BlockIds
  BY <1>2, Kinds
<1>4. /\ loading.mail.id.clip \in Clips /\ loading.mail.id.num \in Nat
      /\ BlockSlot(loading.mail.id) \in BlockSlots
  BY <1>3 DEF BlockIds
<1>5. clipSlot[loading.mail.id.clip] \in ClipSlots
  BY <1>4 DEF MailInv, AskOK
<1> QED BY <1>1, <1>2, <1>3, <1>4, <1>5

LEMMA LoaderStepsKept ==
    ASSUME MailInv, LoaderInv, Callback \/ Loader
    PROVE  LoaderSteps'
<1>1. clipSlot' = clipSlot
  BY CallbackLeaves, LoaderLeaves DEF hashVars
<1>2. CASE Callback
  BY <1>1, <1>2, CallbackLeaves DEF LoaderSteps, LoaderInv
<1>3. CASE Loader
  <2>1. CASE Idles
    BY <1>1, <2>1, IdlesLeave DEF LoaderSteps, LoaderInv
  <2>2. CASE ReadMail
    BY <2>2, ReadIsFind DEF LoaderSteps
  <2>3. CASE Publish \/ KeepId
    BY <2>3 DEF Publish, KeepId, LoaderSteps
  <2>4. CASE FindFile
    <3>1. CASE loading' = NotLoad
      BY <3>1 DEF LoaderSteps
    <3>2. CASE loading' = [loading EXCEPT !.step = loading.mail.kind]
      <4>1. /\ loading \in Loads /\ loading.mail \in Letters
            /\ loading.step = "find"
        BY <2>4, HandlingSteps DEF FindFile
      <4>2. loading.next = 0
        BY <4>1, NotLoadIdle DEF LoaderInv, LoaderSteps
      <4>3. \/ loading.mail \in Opens /\ loading.mail.kind = "open"
            \/ loading.mail \in Prepares /\ loading.mail.kind = "prepare"
        BY <4>1, Kinds DEF Letters
      <4>4. /\ loading'.mail = loading.mail /\ loading'.next = 0
            /\ loading'.step = loading.mail.kind
        BY <3>2, <4>1, <4>2 DEF Loads
      <4> QED BY <4>3, <4>4 DEF LoaderSteps
    <3> QED BY <2>4, <3>1, <3>2 DEF FindFile, GiveUp
  <2>5. CASE Decode
    <3>1. CASE loading' = NotLoad
      BY <3>1 DEF LoaderSteps
    <3>2. CASE /\ loading' = [loading EXCEPT !.step = "publish"]
               /\ decoded' = [decoded EXCEPT
                     ![clipSlot[loading.mail.clip]] = loading.mail.clip]
      <4>1. loading \in Loads /\ loading.step = "open"
        BY <2>5, HandlingSteps DEF Decode
      <4>2. /\ loading.next = 0 /\ loading.mail \in Opens
            /\ clipSlot[loading.mail.clip] \in ClipSlots
        <5>1. loading.next = 0
          BY <4>1, NotLoadIdle DEF LoaderInv, LoaderSteps
        <5> QED BY <4>1, <5>1, HandlesOpen
      <4>3. /\ loading'.mail = loading.mail /\ loading'.next = 0
            /\ loading'.step = "publish"
        BY <3>2, <4>1, <4>2 DEF Loads
      <4>4. decoded'[clipSlot[loading.mail.clip]] = loading.mail.clip
        BY <3>2, <4>2 DEF LoaderInv, LoaderTypes
      <4> QED BY <1>1, <4>2, <4>3, <4>4 DEF LoaderSteps
    <3> QED BY <2>5, <3>1, <3>2 DEF Decode, GiveUp
  <2>6. CASE FillSample \/ StoreId
    <3>1. loading.step = "prepare"
      BY <2>6 DEF FillSample, StoreId
    <3>2. CASE loading' = NotLoad
      BY <3>2 DEF LoaderSteps
    <3>3. CASE loading' # NotLoad
      <4>1. loading \in Loads /\ loading.mail \in Prepares
        BY <3>1, HandlesPrepare
      <4>2. loading'.step = "prepare" /\ loading'.mail = loading.mail
        BY <2>6, <3>1, <3>3, <4>1 DEF FillSample, StoreId, Loads
      <4> QED BY <4>1, <4>2 DEF LoaderSteps
    <3> QED BY <3>2, <3>3
  <2> QED BY <1>3, <2>1, <2>2, <2>3, <2>4, <2>5, <2>6, LoaderCases
<1> QED BY <1>2, <1>3

(* What filling in a sample does to the blocks.                            *)
LEMMA FillSteps ==
    ASSUME MailInv, LoaderInv, FillSample
    PROVE  LET id == loading.mail.id
               at == BlockSlot(id)
               i  == loading.next
           IN  /\ i \in 0 .. FramesPerBlock - 1
               /\ loading'.next = i + 1 /\ loading'.step = "prepare"
               /\ loading'.mail = loading.mail /\ loading' # NotLoad
               /\ DOMAIN blocks' = BlockSlots
               /\ \A b \in BlockSlots : b # at => blocks'[b] = blocks[b]
               /\ blocks'[at].id = blocks[at].id
               /\ DOMAIN blocks'[at] = DOMAIN blocks[at]
               /\ DOMAIN blocks'[at].samples = 0 .. FramesPerBlock - 1
               /\ \A j \in 0 .. FramesPerBlock - 1 :
                     blocks'[at].samples[j] =
                        IF j = i
                        THEN SampleOf(decoded[clipSlot[id.clip]],
                                      id.num * FramesPerBlock + i)
                        ELSE blocks[at].samples[j]
               /\ UNCHANGED <<decoded, opened, given_up>>
<1>. DEFINE id == loading.mail.id
            at == BlockSlot(id)
            i  == loading.next
            new == SampleOf(decoded[clipSlot[id.clip]],
                            id.num * FramesPerBlock + i)
<1>1. /\ loading.step = "prepare" /\ i < FramesPerBlock
      /\ blocks' = [blocks EXCEPT ![at].samples[i] = new]
      /\ loading' = [loading EXCEPT !.next = i + 1]
      /\ UNCHANGED <<decoded, opened, given_up>>
  BY DEF FillSample
<1>2. at \in BlockSlots /\ i \in 0 .. FramesPerBlock /\ loading \in Loads
  BY <1>1, HandlesPrepare
<1>3. i \in 0 .. FramesPerBlock - 1
  BY <1>1, <1>2
<1>4. /\ DOMAIN blocks = BlockSlots
      /\ DOMAIN blocks[at] = {"id", "samples"}
      /\ DOMAIN blocks[at].samples = 0 .. FramesPerBlock - 1
  BY <1>2 DEF LoaderInv, BlockTypes
<1>5. /\ loading'.next = i + 1 /\ loading'.step = "prepare"
      /\ loading'.mail = loading.mail
  BY <1>1, <1>2 DEF Loads
<1>6. loading' # NotLoad
  BY <1>5, NotLoadIdle
<1>. HIDE DEF new, i, at
<1>7. /\ DOMAIN blocks' = BlockSlots
      /\ \A b \in BlockSlots : b # at => blocks'[b] = blocks[b]
      /\ blocks'[at] = [blocks[at] EXCEPT !.samples[i] = new]
  BY <1>1, <1>2, <1>4
<1>8. /\ blocks'[at].id = blocks[at].id
      /\ DOMAIN blocks'[at] = DOMAIN blocks[at]
      /\ blocks'[at].samples = [blocks[at].samples EXCEPT ![i] = new]
  BY <1>4, <1>7
<1>9. /\ DOMAIN blocks'[at].samples = 0 .. FramesPerBlock - 1
      /\ \A j \in 0 .. FramesPerBlock - 1 :
            blocks'[at].samples[j] =
                IF j = i THEN new ELSE blocks[at].samples[j]
  BY <1>3, <1>4, <1>8
<1> QED BY <1>1, <1>3, <1>5, <1>6, <1>7, <1>8, <1>9 DEF new, i, at

(* What storing a word of an id does to the blocks.                        *)
LEMMA StoreSteps ==
    ASSUME MailInv, LoaderInv, StoreId
    PROVE  LET id == loading.mail.id
               at == BlockSlot(id)
           IN  /\ loading.next = FramesPerBlock /\ loading.step = "prepare"
               /\ DOMAIN blocks' = BlockSlots
               /\ \A b \in BlockSlots : b # at => blocks'[b] = blocks[b]
               /\ DOMAIN blocks'[at] = DOMAIN blocks[at]
               /\ blocks'[at].samples = blocks[at].samples
               /\ blocks'[at].id \in [clip : Clips \cup {None}, num : Nat]
               /\ \/ /\ blocks'[at].id.clip = id.clip
                     /\ blocks[at].id.clip # id.clip
                     /\ blocks'[at].id.num = blocks[at].id.num
                  \/ /\ blocks'[at].id.num = id.num
                     /\ blocks[at].id.num # id.num
                     /\ blocks'[at].id.clip = blocks[at].id.clip
               /\ loading' = IF blocks'[at].id = id THEN NotLoad ELSE loading
               /\ UNCHANGED <<decoded, opened, given_up>>
<1>. DEFINE id == loading.mail.id
            at == BlockSlot(id)
<1>1. /\ loading.step = "prepare" /\ loading.next = FramesPerBlock
      /\ \/ /\ blocks[at].id.clip # id.clip
            /\ blocks' = [blocks EXCEPT ![at].id.clip = id.clip]
         \/ /\ blocks[at].id.num # id.num
            /\ blocks' = [blocks EXCEPT ![at].id.num = id.num]
      /\ loading' = IF blocks'[at].id = id THEN NotLoad ELSE loading
      /\ UNCHANGED <<decoded, opened, given_up>>
  BY DEF StoreId
<1>2. at \in BlockSlots /\ id.clip \in Clips /\ id.num \in Nat
  BY <1>1, HandlesPrepare
<1>3. /\ DOMAIN blocks = BlockSlots
      /\ DOMAIN blocks[at] = {"id", "samples"}
      /\ blocks[at].id \in [clip : Clips \cup {None}, num : Nat]
  BY <1>2 DEF LoaderInv, BlockTypes
<1>. HIDE DEF at, id
<1>4. CASE /\ blocks[at].id.clip # id.clip
           /\ blocks' = [blocks EXCEPT ![at].id.clip = id.clip]
  <2>1. /\ DOMAIN blocks' = BlockSlots
        /\ \A b \in BlockSlots : b # at => blocks'[b] = blocks[b]
        /\ blocks'[at] = [blocks[at] EXCEPT !.id.clip = id.clip]
    BY <1>2, <1>3, <1>4
  <2>2. /\ DOMAIN blocks'[at] = DOMAIN blocks[at]
        /\ blocks'[at].samples = blocks[at].samples
        /\ blocks'[at].id = [blocks[at].id EXCEPT !.clip = id.clip]
    BY <1>3, <2>1
  <2>3. /\ blocks'[at].id \in [clip : Clips \cup {None}, num : Nat]
        /\ blocks'[at].id.clip = id.clip
        /\ blocks'[at].id.num = blocks[at].id.num
    BY <1>2, <1>3, <2>2
  <2> QED BY <1>1, <1>4, <2>1, <2>2, <2>3 DEF at, id
<1>5. CASE /\ blocks[at].id.num # id.num
           /\ blocks' = [blocks EXCEPT ![at].id.num = id.num]
  <2>1. /\ DOMAIN blocks' = BlockSlots
        /\ \A b \in BlockSlots : b # at => blocks'[b] = blocks[b]
        /\ blocks'[at] = [blocks[at] EXCEPT !.id.num = id.num]
    BY <1>2, <1>3, <1>5
  <2>2. /\ DOMAIN blocks'[at] = DOMAIN blocks[at]
        /\ blocks'[at].samples = blocks[at].samples
        /\ blocks'[at].id = [blocks[at].id EXCEPT !.num = id.num]
    BY <1>3, <2>1
  <2>3. /\ blocks'[at].id \in [clip : Clips \cup {None}, num : Nat]
        /\ blocks'[at].id.num = id.num
        /\ blocks'[at].id.clip = blocks[at].id.clip
    BY <1>2, <1>3, <2>2
  <2> QED BY <1>1, <1>5, <2>1, <2>2, <2>3 DEF at, id
<1> QED BY <1>1, <1>4, <1>5 DEF at, id

LEMMA BlocksLeft ==
    ASSUME Callback \/ Idles \/ ReadMail \/ FindFile \/ Decode \/ Publish
           \/ KeepId
    PROVE  blocks' = blocks
  BY CallbackLeaves, IdlesLeave DEF ReadMail, FindFile, Decode, Publish, KeepId

LEMMA BlockTypesKept ==
    ASSUME MailInv, LoaderInv, Callback \/ Loader
    PROVE  BlockTypes'
<1>1. BlockTypes
  BY DEF LoaderInv
<1>2. CASE FillSample
  <2>1. BlockSlot(loading.mail.id) \in BlockSlots
    BY <1>2, HandlesPrepare DEF FillSample
  <2>2. SUFFICES ASSUME NEW b \in BlockSlots
                 PROVE  /\ DOMAIN blocks'[b] = {"id", "samples"}
                        /\ blocks'[b].id \in
                              [clip : Clips \cup {None}, num : Nat]
                        /\ DOMAIN blocks'[b].samples = 0 .. FramesPerBlock - 1
    BY <1>2, FillSteps DEF BlockTypes
  <2>3. CASE b = BlockSlot(loading.mail.id)
    BY <1>1, <1>2, <2>3, FillSteps DEF BlockTypes
  <2>4. CASE b # BlockSlot(loading.mail.id)
    BY <1>1, <1>2, <2>4, FillSteps DEF BlockTypes
  <2> QED BY <2>3, <2>4
<1>3. CASE StoreId
  <2>1. BlockSlot(loading.mail.id) \in BlockSlots
    BY <1>3, HandlesPrepare DEF StoreId
  <2>2. SUFFICES ASSUME NEW b \in BlockSlots
                 PROVE  /\ DOMAIN blocks'[b] = {"id", "samples"}
                        /\ blocks'[b].id \in
                              [clip : Clips \cup {None}, num : Nat]
                        /\ DOMAIN blocks'[b].samples = 0 .. FramesPerBlock - 1
    BY <1>3, StoreSteps DEF BlockTypes
  <2>3. CASE b = BlockSlot(loading.mail.id)
    BY <1>1, <1>3, <2>3, StoreSteps DEF BlockTypes
  <2>4. CASE b # BlockSlot(loading.mail.id)
    BY <1>1, <1>3, <2>4, StoreSteps DEF BlockTypes
  <2> QED BY <2>3, <2>4
<1>4. CASE ~(FillSample \/ StoreId)
  <2>1. blocks' = blocks
    BY <1>4, LoaderCases, BlocksLeft
  <2> QED BY <1>1, <2>1 DEF BlockTypes
<1> QED BY <1>2, <1>3, <1>4

-----------------------------------------------------------------------------
(* Slots, and what is posted                                               *)

LEMMA SlotsKept ==
    ASSUME MailInv, LoaderInv, Callback \/ Loader
    PROVE  SlotsOK'
<1>1. /\ SlotsOK /\ clipSlot \in [Clips -> ClipSlots]
      /\ paths \in [ClipSlots -> Clips \cup {None}]
      /\ opened \in [ClipSlots -> Clips \cup {None}]
      /\ decoded \in [ClipSlots -> Clips \cup {None}]
  BY DEF LoaderInv, LoaderTypes, MailInv, AskOK
<1>2. clipSlot' = clipSlot
  BY CallbackLeaves, LoaderLeaves DEF hashVars
<1>3. CASE UNCHANGED <<opened, decoded, paths>>
  BY <1>1, <1>2, <1>3 DEF SlotsOK
<1>4. ASSUME NEW clip \in Clips, NEW frame \in Frames, AudioId(clip, frame)
      PROVE  SlotsOK'
  <2>1. UNCHANGED <<opened, decoded>>
    BY <1>4 DEF AudioId, loaderVars
  <2>2. paths' = paths \/ paths' = [paths EXCEPT ![clipSlot[clip]] = clip]
    BY <1>4 DEF AudioId
  <2> QED BY <1>1, <1>2, <2>1, <2>2 DEF SlotsOK
<1>5. CASE Decode
  <2>1. UNCHANGED <<opened, paths>>
    BY <1>5 DEF Decode, callVars
  <2>2. loading.mail.clip \in Clips
    BY <1>5, HandlesOpen DEF Decode
  <2>3. \/ decoded' = decoded
        \/ decoded' = [decoded EXCEPT ![clipSlot[loading.mail.clip]]
                           = loading.mail.clip]
    BY <1>5 DEF Decode
  <2> QED BY <1>1, <1>2, <2>1, <2>2, <2>3, AudioManagerAssumption DEF SlotsOK
<1>6. CASE Publish
  <2>1. UNCHANGED <<decoded, paths>> /\ loading.step = "publish"
        /\ opened' = [opened EXCEPT ![clipSlot[loading.mail.clip]]
                          = loading.mail.clip]
    BY <1>6 DEF Publish, callVars
  <2>2. loading.mail.clip \in Clips /\ loading # NotLoad
    BY <2>1, HandlesOpen
  <2>3. decoded[clipSlot[loading.mail.clip]] = loading.mail.clip
    BY <2>1, <2>2 DEF LoaderInv, LoaderSteps
  <2> QED BY <1>1, <1>2, <2>1, <2>2, <2>3, AudioManagerAssumption DEF SlotsOK
<1>7. CASE Callback
  <2>1. CASE \E clip \in Clips, frame \in Frames : AudioId(clip, frame)
    BY <2>1, <1>4
  <2>2. CASE ~\E clip \in Clips, frame \in Frames : AudioId(clip, frame)
    <3>1. paths' = paths
      BY <1>7, <2>2 DEF Callback, OpenPosted, Prefetch, PreparePosted,
            CheckBlock, LoadSample, callVars
    <3> QED BY <1>3, <1>7, <3>1, CallbackLeaves
  <2> QED BY <2>1, <2>2
<1>8. CASE Loader
  <2>1. paths' = paths
    BY <1>8, LoaderLeaves DEF callVars
  <2>2. CASE Idles \/ ReadMail \/ FindFile \/ FillSample \/ StoreId \/ KeepId
    <3>1. UNCHANGED <<opened, decoded>>
      BY <2>2, IdlesLeave DEF ReadMail, FindFile, FillSample, StoreId, KeepId
    <3> QED BY <1>3, <2>1, <3>1
  <2> QED BY <1>5, <1>6, <1>8, <2>2, LoaderCases
<1> QED BY <1>7, <1>8

(* What the callback does about a letter, one of these at a time.          *)
LEMMA CallbackPosts ==
    ASSUME MailInv, LoaderInv, Callback
    PROVE  \/ /\ \E clip \in Clips, frame \in Frames : AudioId(clip, frame)
              /\ posting = NotPosting
           \/ OpenPosted \/ PreparePosted
           \/ Prefetch
           \/ CheckBlock \/ LoadSample
           \/ /\ CheckRoom \/ RefusePost \/ WriteMail \/ SignalReader
              /\ UNCHANGED <<hashVars, callVars, loaderVars>>
<1>1. ASSUME NEW clip \in Clips, NEW frame \in Frames, AudioId(clip, frame)
      PROVE  posting = NotPosting
  BY <1>1, NotPostingElsewhere DEF AudioId
<1> QED BY <1>1 DEF Callback

(* A post goes on: the letter stays what it is.                            *)
LEMMA PostGoesOn ==
    ASSUME MailInv, LoaderInv,
           CheckRoom \/ RefusePost \/ WriteMail \/ SignalReader
    PROVE  /\ posting # NotPosting /\ posting' # NotPosting
           /\ posting'.mail = posting.mail /\ posting.mail \in Letters
           /\ posting'.step =
                 IF CheckRoom THEN "room" ELSE IF RefusePost THEN "refused"
                 ELSE IF WriteMail THEN "written" ELSE "posted"
           /\ posting.step =
                 IF CheckRoom \/ RefusePost THEN "posting"
                 ELSE IF WriteMail THEN "room" ELSE "written"
<1>1. posting # NotPosting
  BY Idle DEF CheckRoom, RefusePost, WriteMail, SignalReader
<1>2. posting \in Posts /\ posting.mail \in Letters
  BY <1>1 DEF MailInv, PostOK, LoaderInv, PostsWhatIsAsked
<1>3. CASE CheckRoom
  <2>1. /\ posting' = [posting EXCEPT !.step = "room"]
        /\ posting.step = "posting"
    BY <1>3 DEF CheckRoom
  <2>2. posting'.mail = posting.mail /\ posting'.step = "room"
    BY <1>2, <2>1 DEF Posts
  <2> QED BY <1>1, <1>2, <1>3, <2>1, <2>2, Idle
<1>4. CASE RefusePost /\ ~CheckRoom
  <2>1. /\ posting' = [posting EXCEPT !.step = "refused"]
        /\ posting.step = "posting"
    BY <1>4 DEF RefusePost
  <2>2. posting'.mail = posting.mail /\ posting'.step = "refused"
    BY <1>2, <2>1 DEF Posts
  <2> QED BY <1>1, <1>2, <1>4, <2>1, <2>2, Idle
<1>5. CASE WriteMail /\ ~CheckRoom /\ ~RefusePost
  BY <1>1, <1>2, <1>5, WriteIsLetter
<1>6. CASE SignalReader /\ ~CheckRoom /\ ~RefusePost /\ ~WriteMail
  <2>1. /\ posting' = [posting EXCEPT !.step = "posted"]
        /\ posting.step = "written"
    BY <1>6 DEF SignalReader
  <2>2. posting'.mail = posting.mail /\ posting'.step = "posted"
    BY <1>2, <2>1 DEF Posts
  <2> QED BY <1>1, <1>2, <1>6, <2>1, <2>2, Idle
<1> QED BY <1>3, <1>4, <1>5, <1>6

(* Whoever asks for a block, or posts an Open, has a path in its slot.     *)
LEMMA PrefetchPosts ==
    ASSUME MailInv, LoaderInv, Prefetch, posting' # NotPosting
    PROVE  /\ asking' = asking /\ PrefetchId \in BlockIds
           /\ asking.step \in {"prefetch", "prefetch next"}
           /\ \E path \in Clips :
                 posting' = [step |-> "posting",
                             mail |-> PrepareAt(PrefetchId, path)]
<1>1. /\ asking' = asking /\ asking.step \in {"prefetch", "prefetch next"}
      /\ posting' = [step |-> "posting", mail |-> Prepare(PrefetchId)]
  BY DEF Prefetch, StartPost
<1>2. /\ PrefetchId \in BlockIds /\ PrefetchId.clip = asking.clip
      /\ asking.clip \in Clips
  BY <1>1, PrefetchIdOK DEF MailInv
<1>3. asking # NotAsked
  BY <1>1, Idle
<1>4. paths[clipSlot[asking.clip]] \in Clips
  <2>1. paths[clipSlot[asking.clip]] # None
    BY <1>2, <1>3 DEF LoaderInv, PathsStored
  <2> QED BY <1>2, <2>1 DEF MailInv, AskOK
<1> QED BY <1>1, <1>2, <1>4 DEF Prepare

LEMMA PostsKept ==
    ASSUME MailInv, LoaderInv, Callback \/ Loader
    PROVE  PostsWhatIsAsked'
<1>1. PostsWhatIsAsked
  BY DEF LoaderInv
<1>2. ASSUME NEW clip \in Clips, NEW frame \in Frames, AudioId(clip, frame),
             posting = NotPosting
      PROVE  PostsWhatIsAsked'
  <2>1. \/ posting' = NotPosting
        \/ /\ posting' = [step |-> "posting", mail |-> Open(clip)]
           /\ asking' = [step |-> "open", clip |-> clip, frame |-> frame]
    BY <1>2 DEF AudioId, StartPost
  <2>2. Open(clip) \in Letters
    BY Kinds DEF Letters
  <2>3. CASE /\ posting' = [step |-> "posting", mail |-> Open(clip)]
             /\ asking' = [step |-> "open", clip |-> clip, frame |-> frame]
    <3>1. /\ posting'.mail = Open(clip) /\ asking'.clip = clip
          /\ asking'.step = "open"
      BY <2>3
    <3> QED BY <2>2, <3>1 DEF PostsWhatIsAsked
  <2> QED BY <2>1, <2>3 DEF PostsWhatIsAsked
<1>3. CASE OpenPosted \/ PreparePosted
  <2>1. posting' = NotPosting
    BY <1>3 DEF OpenPosted, PreparePosted
  <2> QED BY <2>1 DEF PostsWhatIsAsked
<1>4. CASE Prefetch
  <2>1. SUFFICES ASSUME posting' # NotPosting PROVE PostsWhatIsAsked'
    BY DEF PostsWhatIsAsked
  <2>2. PICK path \in Clips :
            posting' = [step |-> "posting",
                        mail |-> PrepareAt(PrefetchId, path)]
    BY <1>4, <2>1, PrefetchPosts
  <2>3. /\ asking' = asking /\ PrefetchId \in BlockIds
        /\ asking.step \in {"prefetch", "prefetch next"}
    BY <1>4, <2>1, PrefetchPosts
  <2>4. PrefetchId' = PrefetchId
    BY <2>3 DEF PrefetchId
  <2>5. posting'.mail = PrepareAt(PrefetchId, path)
        /\ PrepareAt(PrefetchId, path) \in Letters
    BY <2>2, <2>3, Kinds DEF Letters
  <2>6. asking'.step # "open" /\ posting'.mail \in Letters
    BY <2>3, <2>5
  <2> QED BY <2>4, <2>5, <2>6 DEF PostsWhatIsAsked
<1>5. CASE CheckBlock \/ LoadSample
  <2>1. posting = NotPosting
    BY <1>5, NotPostingElsewhere DEF CheckBlock, LoadSample
  <2>2. posting' = NotPosting
    BY <1>5, <2>1 DEF CheckBlock, LoadSample, mailVars
  <2> QED BY <2>2 DEF PostsWhatIsAsked
<1>6. CASE /\ CheckRoom \/ RefusePost \/ WriteMail \/ SignalReader
           /\ UNCHANGED <<hashVars, callVars, loaderVars>>
  <2>1. /\ posting # NotPosting /\ posting'.mail = posting.mail
        /\ asking' = asking
    BY <1>6, PostGoesOn DEF callVars
  <2>2. PrefetchId' = PrefetchId
    BY <2>1 DEF PrefetchId
  <2> QED BY <1>1, <2>1, <2>2 DEF PostsWhatIsAsked
<1>7. CASE Loader
  <2>1. posting' = posting /\ asking' = asking
    BY <1>7, LoaderLeaves DEF callVars
  <2>2. PrefetchId' = PrefetchId
    BY <2>1 DEF PrefetchId
  <2> QED BY <1>1, <2>1, <2>2 DEF PostsWhatIsAsked
<1> QED BY <1>2, <1>3, <1>4, <1>5, <1>6, <1>7, CallbackPosts

-----------------------------------------------------------------------------
(* The way of a letter                                                     *)

LEMMA InAppended ==
    ASSUME NEW S, NEW s \in Seq(S), NEW e \in S, NEW m
    PROVE  (\E i \in DOMAIN Append(s, e) : Append(s, e)[i] = m)
               <=> (\E i \in DOMAIN s : s[i] = m) \/ e = m
<1>1. /\ Len(Append(s, e)) = Len(s) + 1 /\ Len(s) \in Nat
      /\ \A i \in 1 .. Len(s) : Append(s, e)[i] = s[i]
      /\ Append(s, e)[Len(s) + 1] = e
      /\ DOMAIN s = 1 .. Len(s)
      /\ DOMAIN Append(s, e) = 1 .. Len(s) + 1
  BY AppendProperties
<1> QED BY <1>1

LEMMA InTailed ==
    ASSUME NEW S, NEW s \in Seq(S), s # <<>>, NEW m
    PROVE  (\E i \in DOMAIN s : s[i] = m)
               <=> Head(s) = m \/ \E i \in DOMAIN Tail(s) : Tail(s)[i] = m
<1>1. /\ Tail(s) \in Seq(S) /\ Len(Tail(s)) = Len(s) - 1
      /\ Len(s) \in Nat \ {0} /\ Head(s) = s[1]
      /\ \A i \in 1 .. Len(s) - 1 : Tail(s)[i] = s[i + 1]
      /\ DOMAIN s = 1 .. Len(s) /\ DOMAIN Tail(s) = 1 .. Len(s) - 1
  BY HeadTailProperties, EmptySeq
<1>2. ASSUME NEW i \in 1 .. Len(s), s[i] = m
      PROVE  s[1] = m \/ \E j \in 1 .. Len(s) - 1 : Tail(s)[j] = m
  <2>1. CASE i = 1
    BY <1>2, <2>1
  <2>2. CASE i # 1
    <3>1. i - 1 \in 1 .. Len(s) - 1 /\ (i - 1) + 1 = i
      BY <1>1, <2>2
    <3>2. Tail(s)[i - 1] = s[i]
      BY <1>1, <3>1
    <3> QED BY <1>2, <3>1, <3>2
  <2> QED BY <2>1, <2>2
<1>3. ASSUME NEW j \in 1 .. Len(s) - 1, Tail(s)[j] = m
      PROVE  \E i \in 1 .. Len(s) : s[i] = m
  <2>1. j + 1 \in 1 .. Len(s) /\ s[j + 1] = m
    BY <1>1, <1>3
  <2> QED BY <2>1
<1>4. s[1] = m => \E i \in 1 .. Len(s) : s[i] = m
  BY <1>1
<1> QED BY <1>1, <1>2, <1>3, <1>4

(* The callback puts a letter into the box when it writes it.              *)
LEMMA WayOfCallback ==
    ASSUME MailInv, LoaderInv, Callback, NEW m
    PROVE  /\ InLoader(m)' <=> InLoader(m)
           /\ ~WriteMail => (InTheBox(m)' <=> InTheBox(m))
           /\ WriteMail => (InTheBox(m)' <=> InTheBox(m) \/ posting.mail = m)
           /\ OnItsWay(m) => OnItsWay(m)'
           /\ OnItsWay(m)' => OnItsWay(m) \/ (WriteMail /\ posting.mail = m)
<1>1. InLoader(m)' <=> InLoader(m)
  BY CallbackLeaves DEF InLoader
<1>2. ASSUME ~WriteMail PROVE InTheBox(m)' <=> InTheBox(m)
  BY <1>2, CallbackLeavesBox DEF InTheBox
<1>3. ASSUME WriteMail PROVE InTheBox(m)' <=> InTheBox(m) \/ posting.mail = m
  <2>1. /\ InBox \in Seq(Letters) /\ posting.mail \in Letters
        /\ InBox' = Append(InBox, posting.mail)
    BY <1>3, WriteIsLetter
  <2> QED BY <2>1, InAppended DEF InTheBox
<1> QED BY <1>1, <1>2, <1>3 DEF OnItsWay, InTheBox, InLoader

(* The loader takes a letter out of the box and handles it to its end.     *)
LEMMA WayOfLoader ==
    ASSUME MailInv, LoaderInv, Loader, NEW m
    PROVE  /\ OnItsWay(m)' => OnItsWay(m)
           /\ InTheBox(m)' => InTheBox(m)
           /\ InLoader(m)' => InLoader(m) \/ (ReadMail /\ Head(InBox) = m)
           /\ OnItsWay(m) =>
                 OnItsWay(m)' \/ (InLoader(m) /\ loading' = NotLoad)
           /\ ~ReadMail => (InTheBox(m)' <=> InTheBox(m))
<1>1. CASE Idles
  <2>1. /\ loading' = loading /\ InBox' = InBox /\ ~ReadMail
    BY <1>1, IdlesLeave DEF Idles, StartRound, EndRound, FallAsleep, ReadMail
  <2> QED BY <2>1 DEF OnItsWay, InTheBox, InLoader
<1>2. CASE ReadMail
  <2>1. /\ loading = NotLoad /\ InBox # <<>> /\ InBox \in Seq(Letters)
        /\ loading' = [step |-> "find", mail |-> Head(InBox), next |-> 0]
        /\ InBox' = Tail(InBox)
    BY <1>2, ReadIsFind
  <2>2. InTheBox(m) <=> Head(InBox) = m \/ InTheBox(m)'
    BY <2>1, InTailed DEF InTheBox
  <2>3. loading' # NotLoad
    BY <2>1, NotLoadIdle
  <2>4. InLoader(m)' <=> Head(InBox) = m
    BY <2>1, <2>3 DEF InLoader
  <2>5. ~InLoader(m)
    BY <2>1 DEF InLoader
  <2> QED BY <1>2, <2>2, <2>4, <2>5 DEF OnItsWay, InTheBox, InLoader
<1>3. CASE FindFile \/ Decode \/ Publish \/ FillSample \/ StoreId \/ KeepId
  <2>1. /\ loading # NotLoad /\ InBox' = InBox
        /\ \/ loading' = NotLoad
           \/ loading' \in Loads /\ loading'.mail = loading.mail
    BY <1>3, HandlingSteps
  <2>2. loading' # NotLoad => loading'.mail = loading.mail
    BY <2>1
  <2>3. InTheBox(m)' <=> InTheBox(m)
    BY <2>1 DEF InTheBox
  <2>4. InLoader(m)' => InLoader(m)
    BY <2>1, <2>2 DEF InLoader
  <2>5. InLoader(m) => InLoader(m)' \/ loading' = NotLoad
    BY <2>1, <2>2 DEF InLoader
  <2> QED BY <2>3, <2>4, <2>5 DEF OnItsWay, InTheBox, InLoader
<1> QED BY <1>1, <1>2, <1>3, LoaderCases

(* au_audio_id apart, the callback goes on with the clip it has, and the   *)
(* stored paths stay.                                                      *)
LEMMA SameClip ==
    ASSUME MailInv, LoaderInv,
           \/ OpenPosted \/ PreparePosted \/ Prefetch \/ CheckBlock
           \/ LoadSample
           \/ /\ CheckRoom \/ RefusePost \/ WriteMail \/ SignalReader
              /\ UNCHANGED <<hashVars, callVars, loaderVars>>
    PROVE  /\ paths' = paths
           /\ \/ asking' = NotAsked
              \/ /\ asking # NotAsked /\ asking'.clip = asking.clip
                 /\ asking' \in Calls /\ asking'.frame = asking.frame
              \/ asking' = asking
<1>1. CASE OpenPosted
  <2>1. asking \in Calls /\ asking # NotAsked
    BY <1>1, Idle DEF OpenPosted, MailInv, AskOK
  <2>2. \/ asking' = NotAsked
        \/ asking' = [asking EXCEPT !.step = "prefetch"]
    BY <1>1 DEF OpenPosted, Return
  <2>3. /\ [asking EXCEPT !.step = "prefetch"].clip = asking.clip
        /\ [asking EXCEPT !.step = "prefetch"].frame = asking.frame
        /\ [asking EXCEPT !.step = "prefetch"] \in Calls
    BY <2>1 DEF Calls
  <2> QED BY <1>1, <2>1, <2>2, <2>3 DEF OpenPosted
<1>2. ASSUME asking.step \in {"prefetch", "prefetch next"}, AfterPrefetch
      PROVE  \/ asking' = NotAsked
             \/ /\ asking # NotAsked /\ asking'.clip = asking.clip
                /\ asking' \in Calls /\ asking'.frame = asking.frame
  <2>1. asking \in Calls /\ asking # NotAsked
    BY <1>2, Idle DEF MailInv, AskOK
  <2>2. \/ asking' = NotAsked
        \/ asking' = [asking EXCEPT !.step = "prefetch next"]
        \/ asking' = [asking EXCEPT !.step = "check"]
    BY <1>2 DEF AfterPrefetch, Return
  <2>3. /\ [asking EXCEPT !.step = "prefetch next"].clip = asking.clip
        /\ [asking EXCEPT !.step = "prefetch next"].frame = asking.frame
        /\ [asking EXCEPT !.step = "prefetch next"] \in Calls
        /\ [asking EXCEPT !.step = "check"].clip = asking.clip
        /\ [asking EXCEPT !.step = "check"].frame = asking.frame
        /\ [asking EXCEPT !.step = "check"] \in Calls
    BY <2>1 DEF Calls
  <2> QED BY <2>1, <2>2, <2>3
<1>3. CASE PreparePosted
  BY <1>2, <1>3 DEF PreparePosted
<1>4. CASE Prefetch
  <2>1. /\ paths' = paths /\ asking.step \in {"prefetch", "prefetch next"}
        /\ AfterPrefetch \/ asking' = asking
    BY <1>4 DEF Prefetch
  <2> QED BY <1>2, <2>1
<1>5. CASE CheckBlock
  <2>1. asking \in Calls /\ asking # NotAsked
    BY <1>5, Idle DEF CheckBlock, MailInv, AskOK
  <2>2. \/ asking' = NotAsked
        \/ asking' = [asking EXCEPT !.step = "load"]
    BY <1>5 DEF CheckBlock, Return
  <2>3. /\ [asking EXCEPT !.step = "load"].clip = asking.clip
        /\ [asking EXCEPT !.step = "load"].frame = asking.frame
        /\ [asking EXCEPT !.step = "load"] \in Calls
    BY <2>1 DEF Calls
  <2> QED BY <1>5, <2>1, <2>2, <2>3 DEF CheckBlock
<1>6. CASE LoadSample
  BY <1>6 DEF LoadSample, Return
<1>7. CASE /\ CheckRoom \/ RefusePost \/ WriteMail \/ SignalReader
           /\ UNCHANGED <<hashVars, callVars, loaderVars>>
  BY <1>7 DEF callVars
<1> QED BY <1>1, <1>3, <1>4, <1>5, <1>6, <1>7

LEMMA UnpostedNot ==
    ASSUME posting = NotPosting
    PROVE  \A m : ~Unposted(m) /\ ~Delivered(m)
  BY DEF Unposted, Delivered

(* A post goes on until its letter is in the box.                          *)
LEMMA PostSteps ==
    ASSUME MailInv, LoaderInv,
           CheckRoom \/ RefusePost \/ WriteMail \/ SignalReader, NEW m
    PROVE  /\ Unposted(m)' => Unposted(m)
           /\ Unposted(m) =>
                 Unposted(m)' \/ (WriteMail /\ posting.mail = m)
           /\ WriteMail /\ posting.mail = m => Unposted(m)
           /\ WriteMail => ~Unposted(m)'
           /\ Delivered(m)' =>
                 Delivered(m) \/ (WriteMail /\ posting.mail = m)
<1>1. /\ posting # NotPosting /\ posting' # NotPosting
      /\ posting'.mail = posting.mail
  BY PostGoesOn
<1>2. CASE CheckRoom \/ RefusePost
  <2>1. /\ posting.step = "posting"
        /\ posting'.step \in {"room", "refused"}
    BY <1>2, PostGoesOn
  <2>2. ~WriteMail
    BY <2>1 DEF WriteMail
  <2> QED BY <1>1, <2>1, <2>2 DEF Unposted, Delivered
<1>3. CASE WriteMail /\ ~CheckRoom /\ ~RefusePost
  <2>1. posting.step = "room" /\ posting'.step = "written"
    BY <1>3, WriteIsLetter
  <2> QED BY <1>1, <1>3, <2>1 DEF Unposted, Delivered
<1>4. CASE SignalReader /\ ~WriteMail /\ ~CheckRoom /\ ~RefusePost
  <2>1. posting.step = "written" /\ posting'.step = "posted"
    BY <1>4, PostGoesOn
  <2> QED BY <1>1, <1>4, <2>1 DEF Unposted, Delivered
<1> QED BY <1>2, <1>3, <1>4

(* Elsewhere in the callback nothing is written, and only au_audio_id      *)
(* begins to post an Open.                                                 *)
LEMMA NothingWritten ==
    ASSUME MailInv,
           \/ posting = NotPosting
           \/ OpenPosted \/ PreparePosted \/ Prefetch \/ CheckBlock
           \/ LoadSample
    PROVE  ~WriteMail
<1>1. posting = NotPosting \/ posting.step \in {"posted", "refused"}
  BY NotPostingElsewhere
     DEF OpenPosted, PreparePosted, Prefetch, CheckBlock, LoadSample
<1>2. posting.step # "room"
  BY <1>1, Idle
<1> QED BY <1>2 DEF WriteMail

LEMMA NoOpenPosted ==
    ASSUME MailInv, LoaderInv, NEW clip \in Clips,
           \/ OpenPosted \/ PreparePosted \/ Prefetch \/ CheckBlock
           \/ LoadSample
    PROVE  ~Unposted(Open(clip))' /\ ~Delivered(Open(clip))'
<1>1. CASE posting' = NotPosting
  BY <1>1 DEF Unposted, Delivered
<1>2. CASE posting' # NotPosting
  <2>1. Prefetch
    <3>1. ASSUME CheckBlock \/ LoadSample PROVE posting' = NotPosting
      <4>1. posting = NotPosting
        BY <3>1, NotPostingElsewhere DEF CheckBlock, LoadSample
      <4> QED BY <3>1, <4>1 DEF CheckBlock, LoadSample, mailVars
    <3> QED BY <1>2, <3>1 DEF OpenPosted, PreparePosted
  <2>2. PICK path \in Clips :
            posting' = [step |-> "posting",
                        mail |-> PrepareAt(PrefetchId, path)]
    BY <1>2, <2>1, PrefetchPosts
  <2>3. posting'.mail \in Prepares
    BY <1>2, <2>1, <2>2, PrefetchPosts, Kinds
  <2>4. posting'.mail # Open(clip)
    BY <2>3, Kinds
  <2> QED BY <2>4 DEF Unposted, Delivered
<1> QED BY <1>1, <1>2

(* au_audio_id begins to post an Open only of the clip whose path it puts  *)
(* in the slot.                                                            *)
LEMMA AudioIdOpens ==
    ASSUME MailInv, LoaderInv, NEW c \in Clips, NEW frame \in Frames,
           AudioId(c, frame), posting = NotPosting, NEW clip \in Clips
    PROVE  /\ Unposted(Open(clip))' =>
                 /\ clip = c /\ paths'[clipSlot[c]] = c
                 /\ paths[clipSlot[c]] # c /\ opened[clipSlot[c]] # c
           /\ ~Delivered(Open(clip))'
           /\ asking' # NotAsked =>
                 /\ asking'.clip = c
                 /\ \/ opened[clipSlot[c]] = c
                    \/ paths'[clipSlot[c]] = c
           /\ \/ paths' = paths
              \/ /\ paths' = [paths EXCEPT ![clipSlot[c]] = c]
                 /\ posting' # NotPosting /\ posting'.mail = Open(c)
                 /\ posting'.step = "posting"
<1>1. /\ c \in Clips /\ clipSlot[c] \in ClipSlots
      /\ paths \in [ClipSlots -> Clips \cup {None}]
  BY DEF MailInv, AskOK
<1>2. CASE posting' = NotPosting
  <2>1. ~Unposted(Open(clip))' /\ ~Delivered(Open(clip))'
    BY <1>2 DEF Unposted, Delivered
  <2>2. [step |-> "posting", mail |-> Open(c)] # NotPosting
    BY Idle
  <2>3. /\ paths' = paths
        /\ \/ /\ asking' = [step |-> "prefetch", clip |-> c, frame |-> frame]
              /\ opened[clipSlot[c]] = c
           \/ asking' = NotAsked
    BY <1>2, <2>2 DEF AudioId, Return, StartPost
  <2> QED BY <2>1, <2>3
<1>3. CASE posting' # NotPosting
  <2>1. /\ posting' = [step |-> "posting", mail |-> Open(c)]
        /\ opened[clipSlot[c]] # c /\ paths[clipSlot[c]] # c
        /\ paths' = [paths EXCEPT ![clipSlot[c]] = c]
        /\ asking' = [step |-> "open", clip |-> c, frame |-> frame]
    BY <1>3 DEF AudioId, StartPost
  <2>2. paths'[clipSlot[c]] = c
    BY <1>1, <2>1
  <2>3. posting'.mail = Open(c) /\ posting'.step = "posting"
    BY <2>1
  <2>4. Unposted(Open(clip))' => clip = c
    BY <2>3, Kinds DEF Unposted
  <2>5. ~Delivered(Open(clip))'
    BY <2>3 DEF Delivered
  <2> QED BY <1>3, <2>1, <2>2, <2>3, <2>4, <2>5
<1> QED BY <1>2, <1>3

-----------------------------------------------------------------------------
(* Who was asked about has a path                                          *)

LEMMA PathsKept ==
    ASSUME MailInv, LoaderInv, Callback \/ Loader
    PROVE  PathsStored'
<1>1. /\ PathsStored /\ clipSlot \in [Clips -> ClipSlots]
      /\ paths \in [ClipSlots -> Clips \cup {None}]
      /\ opened \in [ClipSlots -> Clips \cup {None}]
  BY DEF LoaderInv, LoaderTypes, MailInv, AskOK
<1>2. clipSlot' = clipSlot
  BY CallbackLeaves, LoaderLeaves DEF hashVars
<1>3. SUFFICES ASSUME NEW clip \in Clips,
                      \/ OnItsWay(Open(clip))'
                      \/ Unposted(Open(clip))'
                      \/ opened'[clipSlot[clip]] = clip
                      \/ asking' # NotAsked /\ asking'.clip = clip
               PROVE  paths'[clipSlot[clip]] # None
  BY <1>2 DEF PathsStored
<1>4. \/ OnItsWay(Open(clip)) \/ Unposted(Open(clip))
      \/ opened[clipSlot[clip]] = clip
      \/ asking # NotAsked /\ asking.clip = clip
      => paths[clipSlot[clip]] # None
  BY <1>1 DEF PathsStored
<1>5. ASSUME NEW c \in Clips, NEW frame \in Frames, AudioId(c, frame),
             posting = NotPosting, Callback
      PROVE  paths'[clipSlot[clip]] # None
  <2>1. paths[clipSlot[clip]] # None => paths'[clipSlot[clip]] # None
    BY <1>1, <1>5, AudioIdOpens, AudioManagerAssumption
  <2>2. opened' = opened
    BY <1>5, CallbackLeaves
  <2>3. OnItsWay(Open(clip))' => OnItsWay(Open(clip))
    BY <1>5, WayOfCallback, NothingWritten
  <2>4. Unposted(Open(clip))' => paths'[clipSlot[clip]] # None
    BY <1>5, AudioIdOpens, AudioManagerAssumption
  <2>5. asking' # NotAsked /\ asking'.clip = clip =>
            opened[clipSlot[clip]] = clip \/ paths'[clipSlot[clip]] # None
    BY <1>5, AudioIdOpens, AudioManagerAssumption
  <2> QED BY <1>3, <1>4, <2>1, <2>2, <2>3, <2>4, <2>5
<1>6. CASE /\ Callback
           /\ \/ OpenPosted \/ PreparePosted \/ Prefetch \/ CheckBlock
              \/ LoadSample
  <2>1. /\ paths' = paths
        /\ asking' = NotAsked \/ asking' = asking
              \/ (asking # NotAsked /\ asking'.clip = asking.clip)
    BY <1>6, SameClip
  <2>2. opened' = opened
    BY <1>6, CallbackLeaves
  <2>3. OnItsWay(Open(clip))' => OnItsWay(Open(clip))
    BY <1>6, WayOfCallback, NothingWritten
  <2>4. ~Unposted(Open(clip))'
    BY <1>6, NoOpenPosted
  <2> QED BY <1>3, <1>4, <2>1, <2>2, <2>3, <2>4
<1>7. CASE /\ Callback
           /\ CheckRoom \/ RefusePost \/ WriteMail \/ SignalReader
           /\ UNCHANGED <<hashVars, callVars, loaderVars>>
  <2>1. paths' = paths /\ asking' = asking
    BY <1>7 DEF callVars
  <2>2. opened' = opened
    BY <1>7, CallbackLeaves
  <2>3. OnItsWay(Open(clip))' => OnItsWay(Open(clip)) \/ Unposted(Open(clip))
    BY <1>7, WayOfCallback, PostSteps
  <2>4. Unposted(Open(clip))' => Unposted(Open(clip))
    BY <1>7, PostSteps
  <2> QED BY <1>3, <1>4, <2>1, <2>2, <2>3, <2>4
<1>8. CASE Loader
  <2>1. paths' = paths /\ asking' = asking /\ posting' = posting
    BY <1>8, LoaderLeaves DEF callVars
  <2>2. OnItsWay(Open(clip))' => OnItsWay(Open(clip))
    BY <1>8, WayOfLoader
  <2>3. Unposted(Open(clip))' => Unposted(Open(clip))
    BY <2>1 DEF Unposted
  <2>4. opened'[clipSlot[clip]] = clip =>
            opened[clipSlot[clip]] = clip \/ OnItsWay(Open(clip))
    <3>1. CASE Publish
      <4>1. /\ loading # NotLoad /\ loading.mail = Open(loading.mail.clip)
            /\ loading.mail.clip \in Clips
        BY <3>1, HandlesOpen DEF Publish
      <4>2. opened' = [opened EXCEPT ![clipSlot[loading.mail.clip]]
                           = loading.mail.clip]
        BY <3>1 DEF Publish
      <4> QED BY <1>1, <4>1, <4>2 DEF OnItsWay, InLoader
    <3>2. CASE ~Publish
      BY <1>8, <3>2, IdlesLeave, LoaderCases
         DEF ReadMail, FindFile, Decode, FillSample, StoreId, KeepId
    <3> QED BY <3>1, <3>2
  <2> QED BY <1>3, <1>4, <2>1, <2>2, <2>3, <2>4
<1> QED BY <1>5, <1>6, <1>7, <1>8, CallbackPosts

-----------------------------------------------------------------------------
(* An Open is posted once, and comes to an end                             *)

LEMMA AppendedOnce ==
    ASSUME NEW S, NEW s \in Seq(S), NEW e \in S, NEW m,
           \A i, j \in DOMAIN s : s[i] = m /\ s[j] = m => i = j,
           e = m => ~\E i \in DOMAIN s : s[i] = m
    PROVE  \A i, j \in DOMAIN Append(s, e) :
               Append(s, e)[i] = m /\ Append(s, e)[j] = m => i = j
<1>1. /\ Len(Append(s, e)) = Len(s) + 1 /\ Len(s) \in Nat
      /\ \A i \in 1 .. Len(s) : Append(s, e)[i] = s[i]
      /\ Append(s, e)[Len(s) + 1] = e
      /\ DOMAIN s = 1 .. Len(s)
      /\ DOMAIN Append(s, e) = 1 .. Len(s) + 1
  BY AppendProperties
<1>2. \A i \in 1 .. Len(s) + 1 : i \in 1 .. Len(s) \/ i = Len(s) + 1
  BY <1>1
<1> QED BY <1>1, <1>2

LEMMA TailedOnce ==
    ASSUME NEW S, NEW s \in Seq(S), s # <<>>, NEW m,
           \A i, j \in DOMAIN s : s[i] = m /\ s[j] = m => i = j
    PROVE  /\ \A i, j \in DOMAIN Tail(s) :
                  Tail(s)[i] = m /\ Tail(s)[j] = m => i = j
           /\ Head(s) = m => ~\E i \in DOMAIN Tail(s) : Tail(s)[i] = m
<1>1. /\ Len(s) \in Nat \ {0} /\ Head(s) = s[1]
      /\ \A i \in 1 .. Len(s) - 1 : Tail(s)[i] = s[i + 1]
      /\ DOMAIN s = 1 .. Len(s) /\ DOMAIN Tail(s) = 1 .. Len(s) - 1
  BY HeadTailProperties, EmptySeq
<1>2. \A i \in 1 .. Len(s) - 1 : i + 1 \in 1 .. Len(s) /\ i + 1 # 1
  BY <1>1
<1>3. 1 \in 1 .. Len(s)
  BY <1>1
<1>4. ASSUME NEW i \in 1 .. Len(s) - 1, NEW j \in 1 .. Len(s) - 1,
             Tail(s)[i] = m, Tail(s)[j] = m
      PROVE  i = j
  <2>1. i + 1 = j + 1
    BY <1>1, <1>2, <1>4
  <2> QED BY <2>1
<1> QED BY <1>1, <1>2, <1>3, <1>4

(* The loader is done with an Open: the clip is open, or was given up.     *)
LEMMA OpenEnds ==
    ASSUME MailInv, LoaderInv, Loader, NEW clip \in Clips,
           InLoader(Open(clip)), loading' = NotLoad
    PROVE  \/ Open(clip) \in given_up'
           \/ /\ Publish /\ opened'[clipSlot[clip]] = clip
              /\ decoded'[clipSlot[clip]] = clip
<1>1. /\ loading # NotLoad /\ loading.mail = Open(clip)
      /\ opened \in [ClipSlots -> Clips \cup {None}]
      /\ clipSlot[clip] \in ClipSlots
  BY DEF InLoader, LoaderInv, LoaderTypes, MailInv, AskOK
<1>2. CASE FindFile \/ Decode
  <2>1. \/ GiveUp
        \/ loading' = [loading EXCEPT !.step = loading.mail.kind]
        \/ loading' = [loading EXCEPT !.step = "publish"]
    BY <1>2 DEF FindFile, Decode
  <2>2. loading \in Loads
    BY <1>1 DEF LoaderInv, LoaderTypes
  <2>3. loading.mail.kind = "open"
    BY <1>1 DEF Open
  <2>4. [loading EXCEPT !.step = "publish"] \in Loads
    BY <2>2 DEF Loads
  <2>5. [loading EXCEPT !.step = "open"] \in Loads
    BY <2>2 DEF Loads
  <2>6. GiveUp
    BY <2>1, <2>3, <2>4, <2>5, NotLoadIdle
  <2> QED BY <1>1, <2>6 DEF GiveUp
<1>3. CASE Publish
  <2>1. loading.mail.clip = clip
    BY <1>1, Kinds
  <2>2. opened' = [opened EXCEPT ![clipSlot[clip]] = clip]
    BY <1>3, <2>1 DEF Publish
  <2>3. decoded' = decoded /\ decoded[clipSlot[clip]] = clip
    BY <1>1, <1>3, <2>1 DEF Publish, LoaderInv, LoaderSteps
  <2> QED BY <1>1, <1>3, <2>2, <2>3
<1>4. CASE FillSample \/ StoreId \/ KeepId
  <2>1. loading.mail \in Prepares
    BY <1>4, HandlesPrepare DEF FillSample, StoreId, KeepId
  <2> QED BY <1>1, <2>1, Kinds
<1>5. CASE Idles \/ ReadMail
  <2>1. loading' = loading \/ loading = NotLoad
    BY <1>5, IdlesLeave DEF ReadMail
  <2> QED BY <1>1, <2>1
<1> QED BY <1>2, <1>3, <1>4, <1>5, LoaderCases

(* What the loader opens.                                                  *)
LEMMA OpenedBy ==
    ASSUME MailInv, LoaderInv, Loader, NEW clip \in Clips,
           opened'[clipSlot[clip]] # opened[clipSlot[clip]]
    PROVE  \E c \in Clips : /\ clipSlot[c] = clipSlot[clip]
                            /\ opened'[clipSlot[clip]] = c
                            /\ InLoader(Open(c)) /\ loading' = NotLoad
                            /\ InBox' = InBox
<1>1. Publish
  BY IdlesLeave, LoaderCases
     DEF ReadMail, FindFile, Decode, FillSample, StoreId, KeepId
<1>2. /\ loading # NotLoad /\ loading.mail = Open(loading.mail.clip)
      /\ loading.mail.clip \in Clips
  BY <1>1, HandlesOpen DEF Publish
<1>3. /\ opened' = [opened EXCEPT ![clipSlot[loading.mail.clip]]
                        = loading.mail.clip]
      /\ loading' = NotLoad
  BY <1>1 DEF Publish
<1>4. /\ opened \in [ClipSlots -> Clips \cup {None}]
      /\ clipSlot[clip] \in ClipSlots
  BY DEF LoaderInv, LoaderTypes, MailInv, AskOK
<1>5. /\ clipSlot[loading.mail.clip] = clipSlot[clip]
      /\ opened'[clipSlot[clip]] = loading.mail.clip
  BY <1>3, <1>4
<1>6. InBox' = InBox
  BY <1>1, LoaderLeavesBox
<1> QED BY <1>2, <1>3, <1>5, <1>6 DEF InLoader

LEMMA OnlyOnceKept ==
    ASSUME MailInv, LoaderInv, Callback \/ Loader
    PROVE  OnlyOnce'
<1>1. /\ OnlyOnce /\ clipSlot \in [Clips -> ClipSlots]
      /\ paths \in [ClipSlots -> Clips \cup {None}]
  BY DEF LoaderInv, MailInv, AskOK
<1>2. clipSlot' = clipSlot
  BY CallbackLeaves, LoaderLeaves DEF hashVars
<1>. DEFINE Once(s, m) == \A i, j \in DOMAIN s : s[i] = m /\ s[j] = m => i = j
<1>3. SUFFICES ASSUME NEW clip \in Clips,
                      Sharers(clip) = {clip}
               PROVE  /\ Once(InBox', Open(clip))
                      /\ InLoader(Open(clip))' => ~InTheBox(Open(clip))'
                      /\ opened'[clipSlot[clip]] = clip =>
                            ~OnItsWay(Open(clip))'
                      /\ Unposted(Open(clip))' =>
                            /\ ~OnItsWay(Open(clip))'
                            /\ opened'[clipSlot[clip]] # clip
  <2>1. ASSUME NEW c \in Clips PROVE Sharers(c)' = Sharers(c)
    BY <1>2 DEF Sharers
  <2> QED BY <1>2, <2>1 DEF OnlyOnce
<1>4. PICK m \in Letters : m = Open(clip)
  BY Kinds DEF Letters
<1>5. /\ Once(InBox, m)
      /\ InLoader(m) => ~InTheBox(m)
      /\ opened[clipSlot[clip]] = clip => ~OnItsWay(m)
      /\ Unposted(m) => ~OnItsWay(m) /\ opened[clipSlot[clip]] # clip
  BY <1>1, <1>3, <1>4 DEF OnlyOnce
<1>6. \A c \in Clips : clipSlot[c] = clipSlot[clip] => c = clip
  BY <1>3 DEF Sharers
<1>. HIDE DEF Once
<1>7. ASSUME Callback, ~WriteMail, Unposted(m)' => Unposted(m)
      PROVE  /\ Once(InBox', m)
             /\ InLoader(m)' => ~InTheBox(m)'
             /\ opened'[clipSlot[clip]] = clip => ~OnItsWay(m)'
             /\ Unposted(m)' =>
                   ~OnItsWay(m)' /\ opened'[clipSlot[clip]] # clip
  <2>1. InBox' = InBox /\ opened' = opened
    BY <1>7, CallbackLeavesBox, CallbackLeaves
  <2> QED BY <1>5, <1>7, <2>1, WayOfCallback
<1>8. ASSUME NEW c \in Clips, NEW frame \in Frames, AudioId(c, frame),
             posting = NotPosting, Callback
      PROVE  /\ Once(InBox', m)
             /\ InLoader(m)' => ~InTheBox(m)'
             /\ opened'[clipSlot[clip]] = clip => ~OnItsWay(m)'
             /\ Unposted(m)' =>
                   ~OnItsWay(m)' /\ opened'[clipSlot[clip]] # clip
  <2>1. ~WriteMail
    BY <1>8, NothingWritten
  <2>2. InBox' = InBox /\ opened' = opened
    BY <1>8, <2>1, CallbackLeavesBox, CallbackLeaves
  <2>3. ASSUME Unposted(m)'
        PROVE  ~OnItsWay(m) /\ opened[clipSlot[clip]] # clip
    <3>1. /\ clip = c /\ paths[clipSlot[clip]] # clip
          /\ opened[clipSlot[clip]] # clip
      BY <1>4, <1>8, <2>3, AudioIdOpens
    <3>2. paths[clipSlot[clip]] = None
      <4>1. SUFFICES ASSUME paths[clipSlot[clip]] # None
                     PROVE  paths[clipSlot[clip]] = clip
        BY <3>1
      <4>2. /\ paths[clipSlot[clip]] \in Clips
            /\ clipSlot[paths[clipSlot[clip]]] = clipSlot[clip]
        BY <1>1, <4>1 DEF LoaderInv, SlotsOK
      <4> QED BY <1>6, <4>2
    <3>3. ~OnItsWay(m)
      BY <1>4, <3>2 DEF LoaderInv, PathsStored
    <3> QED BY <3>1, <3>3
  <2> QED BY <1>5, <1>8, <2>1, <2>2, <2>3, WayOfCallback
<1>9. CASE /\ Callback
           /\ \/ OpenPosted \/ PreparePosted \/ Prefetch \/ CheckBlock
              \/ LoadSample
  <2>1. ~WriteMail /\ ~Unposted(m)'
    BY <1>4, <1>9, NothingWritten, NoOpenPosted
  <2> QED BY <1>4, <1>7, <1>9, <2>1
<1>10. CASE /\ Callback
            /\ CheckRoom \/ RefusePost \/ WriteMail \/ SignalReader
            /\ UNCHANGED <<hashVars, callVars, loaderVars>>
  <2>1. CASE ~WriteMail
    BY <1>4, <1>7, <1>10, <2>1, PostSteps
  <2>2. CASE WriteMail
    <3>1. opened' = opened /\ ~Unposted(m)'
      BY <1>10, <2>2, CallbackLeaves, PostSteps
    <3>2. posting.mail = m => Unposted(m)
      BY <1>10, <2>2, PostSteps
    <3>3. /\ InBox \in Seq(Letters) /\ posting.mail \in Letters
          /\ InBox' = Append(InBox, posting.mail)
      BY <2>2, WriteIsLetter
    <3>4. posting.mail = m => ~InTheBox(m)
      BY <1>5, <3>2 DEF OnItsWay
    <3>5. Once(InBox', m)
      BY <1>5, <3>3, <3>4, AppendedOnce DEF Once, InTheBox
    <3>6. /\ InLoader(m)' => InLoader(m)
          /\ InTheBox(m)' => InTheBox(m) \/ posting.mail = m
      BY <1>10, <2>2, WayOfCallback
    <3>7. InLoader(m)' => ~InTheBox(m)'
      BY <1>5, <3>2, <3>6 DEF OnItsWay
    <3>8. opened'[clipSlot[clip]] = clip => ~OnItsWay(m)'
      <4>1. OnItsWay(m)' => OnItsWay(m) \/ posting.mail = m
        BY <1>10, <2>2, WayOfCallback
      <4> QED BY <1>5, <3>1, <3>2, <4>1
    <3> QED BY <1>4, <3>1, <3>5, <3>7, <3>8
  <2> QED BY <2>1, <2>2
<1>11. CASE Loader
  <2>1. Unposted(m)' => Unposted(m)
    BY <1>11, LoaderLeaves DEF Unposted
  <2>2. OnItsWay(m)' => OnItsWay(m)
    BY <1>11, WayOfLoader
  <2>3. ASSUME opened'[clipSlot[clip]] = clip,
               opened[clipSlot[clip]] # clip
        PROVE  InLoader(m) /\ loading' = NotLoad /\ InBox' = InBox
    BY <1>4, <1>11, <2>3, OpenedBy
  <2>4. /\ Once(InBox', m)
        /\ InLoader(m)' => ~InTheBox(m)'
    <3>1. CASE ReadMail
      <4>1. /\ InBox # <<>> /\ InBox \in Seq(Letters)
            /\ InBox' = Tail(InBox) /\ loading = NotLoad
        BY <3>1, ReadIsFind
      <4>2. /\ Once(InBox', m)
            /\ Head(InBox) = m => ~InTheBox(m)'
        BY <1>5, <4>1, TailedOnce DEF Once, InTheBox
      <4>3. InLoader(m)' => Head(InBox) = m
        BY <1>11, <4>1, WayOfLoader DEF InLoader
      <4> QED BY <4>2, <4>3
    <3>2. CASE ~ReadMail
      <4>1. InBox' = InBox
        BY <1>11, <3>2, IdlesLeave, HandlingSteps, LoaderCases
      <4>2. InLoader(m)' => InLoader(m)
        BY <1>11, <3>2, WayOfLoader
      <4>3. InTheBox(m)' => InTheBox(m)
        BY <1>11, WayOfLoader
      <4> QED BY <1>5, <4>1, <4>2, <4>3
    <3> QED BY <3>1, <3>2
  <2>5. opened'[clipSlot[clip]] = clip => ~OnItsWay(m)'
    <3>1. CASE opened[clipSlot[clip]] = clip
      BY <1>5, <2>2, <3>1
    <3>2. CASE opened[clipSlot[clip]] # clip
      <4>1. SUFFICES ASSUME opened'[clipSlot[clip]] = clip
                     PROVE  ~OnItsWay(m)'
        OBVIOUS
      <4>2. InLoader(m) /\ loading' = NotLoad /\ InBox' = InBox
        BY <2>3, <3>2, <4>1
      <4>3. ~InTheBox(m)
        BY <1>5, <4>2
      <4> QED BY <4>2, <4>3 DEF OnItsWay, InTheBox, InLoader
    <3> QED BY <3>1, <3>2
  <2>6. Unposted(m)' => ~OnItsWay(m)' /\ opened'[clipSlot[clip]] # clip
    BY <1>5, <2>1, <2>2, <2>3 DEF OnItsWay
  <2> QED BY <1>4, <2>4, <2>5, <2>6
<1> QED BY <1>4, <1>8, <1>9, <1>10, <1>11, CallbackPosts

-----------------------------------------------------------------------------
(* A path that is stored is of a clip that is open, about to be, or was    *)
(* given up                                                                *)

LEMMA GivenUpStays ==
    ASSUME Callback \/ Loader, NEW m \in given_up
    PROVE  m \in given_up'
<1>1. CASE Callback
  BY <1>1 DEF Callback, AudioId, OpenPosted, Prefetch, PreparePosted,
              CheckBlock, LoadSample, loaderVars
<1>2. CASE Loader
  BY <1>2, IdlesLeave, LoaderCases
     DEF ReadMail, FindFile, Decode, Publish, FillSample, StoreId, KeepId,
         GiveUp
<1> QED BY <1>1, <1>2

(* While a block is asked for no Open is being posted.                     *)
LEMMA NoOpenThen ==
    ASSUME MailInv, LoaderInv, NEW clip \in Clips,
           PreparePosted \/ Prefetch \/ CheckBlock \/ LoadSample
    PROVE  ~Unposted(Open(clip)) /\ ~Delivered(Open(clip))
<1>1. CASE posting = NotPosting
  BY <1>1, UnpostedNot
<1>2. CASE posting # NotPosting
  <2>1. PreparePosted
    BY <1>2, NotPostingElsewhere DEF Prefetch, CheckBlock, LoadSample
  <2>2. asking.step \in {"prefetch", "prefetch next"}
    BY <2>1 DEF PreparePosted
  <2>3. PrefetchId \in BlockIds
    BY <2>2, PrefetchIdOK DEF MailInv
  <2>4. \E path \in Clips : posting.mail = PrepareAt(PrefetchId, path)
    BY <1>2, <2>2 DEF LoaderInv, PostsWhatIsAsked
  <2>5. posting.mail \in Prepares
    BY <2>3, <2>4, Kinds
  <2>6. posting.mail # Open(clip)
    BY <2>5, Kinds
  <2> QED BY <2>6 DEF Unposted, Delivered
<1> QED BY <1>1, <1>2

(* A refused Open is given up.                                             *)
LEMMA RefusedIsGivenUp ==
    ASSUME MailInv, LoaderInv, NEW clip \in Clips, OpenPosted,
           Unposted(Open(clip))
    PROVE  Open(clip) \in given_up'
<1>1. /\ posting # NotPosting /\ posting.mail = Open(clip)
      /\ posting.step \in {"posting", "room", "refused"}
  BY DEF Unposted
<1>2. asking.step = "open" /\ posting.step = "refused"
  BY <1>1 DEF OpenPosted
<1>3. posting.mail = Open(asking.clip)
  BY <1>1, <1>2 DEF LoaderInv, PostsWhatIsAsked
<1>4. given_up' = given_up \cup {Open(asking.clip)}
  BY <1>2 DEF OpenPosted
<1> QED BY <1>1, <1>3, <1>4

LEMMA WillBeReadyKept ==
    ASSUME MailInv, LoaderInv, Callback \/ Loader
    PROVE  WillBeReady'
<1>1. /\ clipSlot \in [Clips -> ClipSlots]
      /\ paths \in [ClipSlots -> Clips \cup {None}]
      /\ opened \in [ClipSlots -> Clips \cup {None}]
  BY DEF LoaderInv, LoaderTypes, MailInv, AskOK
<1>2. clipSlot' = clipSlot
  BY CallbackLeaves, LoaderLeaves DEF hashVars
<1>3. SUFFICES ASSUME NEW clip \in Clips, Sharers(clip) = {clip},
                      paths'[clipSlot[clip]] = clip
               PROVE  \/ opened'[clipSlot[clip]] = clip
                      \/ OnItsWay(Open(clip))' \/ Unposted(Open(clip))'
                      \/ Open(clip) \in given_up'
  <2>1. ASSUME NEW c \in Clips PROVE Sharers(c)' = Sharers(c)
    BY <1>2 DEF Sharers
  <2> QED BY <1>2, <2>1 DEF WillBeReady
<1>4. PICK m \in Letters : m = Open(clip)
  BY Kinds DEF Letters
<1>5. paths[clipSlot[clip]] = clip =>
          \/ opened[clipSlot[clip]] = clip
          \/ OnItsWay(m) \/ Unposted(m) \/ m \in given_up
  BY <1>3, <1>4 DEF LoaderInv, WillBeReady
<1>6. \A c \in Clips : clipSlot[c] = clipSlot[clip] => c = clip
  BY <1>3 DEF Sharers
<1>7. ASSUME Callback, paths'[clipSlot[clip]] = paths[clipSlot[clip]],
             Unposted(m) => \/ OnItsWay(m)' \/ Unposted(m)'
                            \/ m \in given_up'
      PROVE  \/ opened'[clipSlot[clip]] = clip
             \/ OnItsWay(m)' \/ Unposted(m)' \/ m \in given_up'
  <2>1. opened' = opened
    BY <1>7, CallbackLeaves
  <2>2. OnItsWay(m) => OnItsWay(m)'
    BY <1>7, WayOfCallback
  <2>3. m \in given_up => m \in given_up'
    BY <1>7, GivenUpStays
  <2> QED BY <1>3, <1>5, <1>7, <2>1, <2>2, <2>3
<1>8. ASSUME NEW c \in Clips, NEW frame \in Frames, AudioId(c, frame),
             posting = NotPosting, Callback
      PROVE  \/ opened'[clipSlot[clip]] = clip
             \/ OnItsWay(m)' \/ Unposted(m)' \/ m \in given_up'
  <2>1. \/ paths' = paths
        \/ /\ paths' = [paths EXCEPT ![clipSlot[c]] = c]
           /\ posting' # NotPosting /\ posting'.mail = Open(c)
           /\ posting'.step = "posting"
    BY <1>8, AudioIdOpens
  <2>2. ~Unposted(m)
    BY <1>8, UnpostedNot
  <2>3. CASE paths'[clipSlot[clip]] = paths[clipSlot[clip]]
    BY <1>7, <1>8, <2>2, <2>3
  <2>4. CASE paths'[clipSlot[clip]] # paths[clipSlot[clip]]
    <3>1. clipSlot[c] = clipSlot[clip]
      BY <1>1, <2>1, <2>4
    <3>2. c = clip
      BY <1>6, <3>1
    <3>3. Unposted(Open(clip))'
      BY <2>1, <2>4, <3>2 DEF Unposted
    <3> QED BY <1>4, <3>3
  <2> QED BY <2>3, <2>4
<1>9. CASE /\ Callback
           /\ \/ OpenPosted \/ PreparePosted \/ Prefetch \/ CheckBlock
              \/ LoadSample
  <2>1. paths' = paths
    BY <1>9, SameClip
  <2>2. Unposted(m) => m \in given_up'
    BY <1>4, <1>9, NoOpenThen, RefusedIsGivenUp
  <2> QED BY <1>4, <1>7, <1>9, <2>1, <2>2
<1>10. CASE /\ Callback
            /\ CheckRoom \/ RefusePost \/ WriteMail \/ SignalReader
            /\ UNCHANGED <<hashVars, callVars, loaderVars>>
  <2>1. paths' = paths
    BY <1>10 DEF callVars
  <2>2. Unposted(m) => Unposted(m)' \/ (WriteMail /\ posting.mail = m)
    BY <1>10, PostSteps
  <2>3. WriteMail /\ posting.mail = m => OnItsWay(m)'
    BY <1>10, WayOfCallback DEF OnItsWay
  <2> QED BY <1>4, <1>7, <1>10, <2>1, <2>2, <2>3
<1>11. CASE Loader
  <2>1. /\ paths' = paths /\ (Unposted(m) => Unposted(m)')
    BY <1>11, LoaderLeaves DEF Unposted, callVars
  <2>2. OnItsWay(m) => OnItsWay(m)' \/ (InLoader(m) /\ loading' = NotLoad)
    BY <1>11, WayOfLoader
  <2>3. InLoader(m) /\ loading' = NotLoad =>
            m \in given_up' \/ opened'[clipSlot[clip]] = clip
    BY <1>4, <1>11, OpenEnds
  <2>4. m \in given_up => m \in given_up'
    BY <1>11, GivenUpStays
  <2>5. opened[clipSlot[clip]] = clip => opened'[clipSlot[clip]] = clip
    BY <1>6, <1>11, OpenedBy
  <2> QED BY <1>3, <1>4, <1>5, <2>1, <2>2, <2>3, <2>4, <2>5
<1> QED BY <1>4, <1>8, <1>9, <1>10, <1>11, CallbackPosts

-----------------------------------------------------------------------------
(* A block that was asked for comes                                        *)

(* A block that the loader is at has its place taken, or is given up, when *)
(* the loader is done with it.                                             *)
LEMMA PrepareEnds ==
    ASSUME MailInv, LoaderInv, Loader, NEW id \in BlockIds,
           NEW path \in Clips, InLoader(PrepareAt(id, path)),
           loading' = NotLoad
    PROVE  \/ PrepareAt(id, path) \in given_up'
           \/ blocks'[BlockSlot(id)].id # NoId
<1>1. /\ loading # NotLoad /\ loading.mail = PrepareAt(id, path)
      /\ loading.mail \in Prepares /\ loading.mail.id = id
      /\ id.clip \in Clips /\ BlockSlot(id) \in BlockSlots
  BY Kinds DEF InLoader, BlockIds
<1>2. id # NoId
  BY <1>1, AudioManagerAssumption DEF NoId
<1>3. CASE FindFile
  <2>1. \/ GiveUp
        \/ loading' = [loading EXCEPT !.step = loading.mail.kind]
    BY <1>3 DEF FindFile
  <2>2. loading \in Loads /\ loading.mail.kind = "prepare"
    BY <1>1, Kinds DEF LoaderInv, LoaderTypes
  <2>3. [loading EXCEPT !.step = "prepare"] \in Loads
    BY <2>2 DEF Loads
  <2>4. GiveUp
    BY <2>1, <2>2, <2>3, NotLoadIdle
  <2> QED BY <1>1, <2>4 DEF GiveUp
<1>4. CASE Decode \/ Publish
  <2>1. loading.mail \in Opens
    BY <1>4, HandlesOpen DEF Decode, Publish
  <2> QED BY <1>1, <2>1, Kinds
<1>5. CASE FillSample
  BY <1>5, FillSteps
<1>6. CASE StoreId
  <2>1. loading' = IF blocks'[BlockSlot(id)].id = id THEN NotLoad ELSE loading
    BY <1>1, <1>6, StoreSteps
  <2> QED BY <1>1, <1>2, <2>1
<1>7. CASE KeepId
  <2>1. blocks'[BlockSlot(id)].id = id
    BY <1>1, <1>7 DEF KeepId
  <2> QED BY <1>2, <2>1
<1>8. CASE Idles \/ ReadMail
  <2>1. loading' = loading \/ loading = NotLoad
    BY <1>8, IdlesLeave DEF ReadMail
  <2> QED BY <1>1, <2>1
<1> QED BY <1>3, <1>4, <1>5, <1>6, <1>7, <1>8, LoaderCases

(* A place that is taken stays taken.                                      *)
LEMMA TakenStays ==
    ASSUME MailInv, LoaderInv, Callback \/ Loader, NEW b \in BlockSlots,
           blocks[b].id # NoId
    PROVE  blocks'[b].id # NoId
<1>1. CASE FillSample
  <2>1. blocks'[b].id = blocks[b].id
    BY <1>1, FillSteps
  <2> QED BY <2>1
<1>2. CASE StoreId
  <2>1. CASE b # BlockSlot(loading.mail.id)
    BY <1>2, <2>1, StoreSteps
  <2>2. CASE b = BlockSlot(loading.mail.id)
    <3>1. /\ loading.mail.id.clip \in Clips /\ loading.step = "prepare"
          /\ loading.mail.id.num \in Nat
      BY <1>2, HandlesPrepare DEF StoreId
    <3>2. loading.mail.id.clip # None
      BY <3>1, AudioManagerAssumption
    <3>3. \/ blocks'[b].id.clip = loading.mail.id.clip
          \/ /\ blocks'[b].id.clip = blocks[b].id.clip
             /\ blocks'[b].id.num = loading.mail.id.num
             /\ blocks[b].id.num # loading.mail.id.num
      BY <1>2, <2>2, StoreSteps
    <3>4. CASE blocks'[b].id.clip = loading.mail.id.clip
      BY <3>2, <3>4 DEF NoId
    <3>5. CASE blocks[b].id.clip # None
               /\ blocks'[b].id.clip = blocks[b].id.clip
      BY <3>5 DEF NoId
    <3>6. CASE /\ blocks[b].id.clip = None
               /\ blocks'[b].id.num = loading.mail.id.num
               /\ blocks[b].id.num # loading.mail.id.num
      <4>1. blocks[b].id.num # 0
        <5>1. blocks[b].id \in [clip : Clips \cup {None}, num : Nat]
          BY DEF LoaderInv, BlockTypes
        <5> QED BY <3>6, <5>1 DEF NoId
      <4>2. /\ Filling(b)
            /\ blocks[b].id.num = loading.mail.id.num
        BY <3>6, <4>1 DEF LoaderInv, HalfIds
      <4> QED BY <3>6, <4>2
    <3> QED BY <3>3, <3>4, <3>5, <3>6
  <2> QED BY <2>1, <2>2
<1>3. CASE ~(FillSample \/ StoreId)
  <2>1. blocks' = blocks
    BY <1>3, LoaderCases, BlocksLeft
  <2> QED BY <2>1
<1> QED BY <1>1, <1>2, <1>3

LEMMA ComesStill ==
    ASSUME MailInv, LoaderInv, Callback \/ Loader, NEW id \in BlockIds,
           Comes(id)
    PROVE  Comes(id)'
<1>1. BlockSlot(id) \in BlockSlots
  BY DEF BlockIds
<1>2. CASE blocks[BlockSlot(id)].id # NoId
  BY <1>1, <1>2, TakenStays DEF Comes
<1>3. ASSUME NEW path \in Clips,
             \/ OnItsWay(PrepareAt(id, path))
             \/ PrepareAt(id, path) \in given_up
      PROVE  Comes(id)'
  <2>1. PICK m \in Letters : m = PrepareAt(id, path)
    BY Kinds DEF Letters
  <2>2. CASE m \in given_up
    <3>1. m \in given_up'
      BY <2>2, GivenUpStays
    <3> QED BY <2>1, <3>1 DEF Comes
  <2>3. CASE OnItsWay(m)
    <3>1. CASE OnItsWay(m)'
      BY <2>1, <3>1 DEF Comes
    <3>2. CASE Loader /\ InLoader(m) /\ loading' = NotLoad
      <4>1. \/ m \in given_up' \/ blocks'[BlockSlot(id)].id # NoId
        BY <2>1, <3>2, PrepareEnds
      <4> QED BY <2>1, <4>1 DEF Comes
    <3> QED BY <2>3, <3>1, <3>2, WayOfCallback, WayOfLoader
  <2> QED BY <1>3, <2>1, <2>2, <2>3
<1> QED BY <1>2, <1>3 DEF Comes

(* A letter gets into the box when it is written.                          *)
LEMMA DeliveredBy ==
    ASSUME MailInv, LoaderInv, Callback \/ Loader, NEW m, Delivered(m)'
    PROVE  Delivered(m) \/ (Callback /\ WriteMail /\ posting.mail = m)
<1>1. CASE Loader
  BY <1>1, LoaderLeaves DEF Delivered
<1>2. CASE Callback
  <2>1. ASSUME NEW c \in Clips, NEW frame \in Frames, AudioId(c, frame),
               posting = NotPosting
        PROVE  FALSE
    <3>1. \/ posting' = NotPosting
          \/ posting' = [step |-> "posting", mail |-> Open(c)]
      BY <2>1 DEF AudioId, StartPost
    <3> QED BY <3>1 DEF Delivered
  <2>2. CASE OpenPosted \/ PreparePosted
    BY <2>2 DEF OpenPosted, PreparePosted, Delivered
  <2>3. CASE Prefetch
    <3>1. posting' # NotPosting
      BY DEF Delivered
    <3>2. PICK path \in Clips :
              posting' = [step |-> "posting",
                          mail |-> PrepareAt(PrefetchId, path)]
      BY <2>3, <3>1, PrefetchPosts
    <3>3. posting'.step = "posting"
      BY <3>2
    <3> QED BY <3>3 DEF Delivered
  <2>4. CASE CheckBlock \/ LoadSample
    BY <2>4 DEF CheckBlock, LoadSample, mailVars, Delivered
  <2>5. CASE /\ CheckRoom \/ RefusePost \/ WriteMail \/ SignalReader
             /\ UNCHANGED <<hashVars, callVars, loaderVars>>
    BY <1>2, <2>5, PostSteps
  <2> QED BY <1>2, <2>1, <2>2, <2>3, <2>4, <2>5, CallbackPosts
<1> QED BY <1>1, <1>2

(* The oldest goes when one is remembered.                                 *)
LEMMA Remembered ==
    ASSUME NEW S, NEW s \in Seq(S), s # <<>>, NEW e \in S
    PROVE  /\ Append(Tail(s), e) \in Seq(S)
           /\ Len(Append(Tail(s), e)) = Len(s)
           /\ \A i \in DOMAIN Append(Tail(s), e) :
                 \/ Append(Tail(s), e)[i] = e
                 \/ \E j \in DOMAIN s : Append(Tail(s), e)[i] = s[j]
<1>1. /\ Tail(s) \in Seq(S) /\ Len(Tail(s)) = Len(s) - 1
      /\ Len(s) \in Nat \ {0} /\ DOMAIN s = 1 .. Len(s)
      /\ \A i \in 1 .. Len(s) - 1 : Tail(s)[i] = s[i + 1]
  BY HeadTailProperties, EmptySeq
<1>2. PICK n \in Nat, t \in Seq(S) :
          /\ n + 1 = Len(s) /\ t = Tail(s) /\ Len(t) = n
          /\ DOMAIN s = 1 .. n + 1 /\ \A i \in 1 .. n : t[i] = s[i + 1]
  <2>1. PICK k \in Nat \ {0} : k = Len(s)
    BY <1>1
  <2>2. k - 1 \in Nat /\ (k - 1) + 1 = k
    BY ONLY k \in Nat \ {0}
  <2>3. PICK n \in Nat : n = k - 1
    BY <2>2
  <2> QED BY <1>1, <2>1, <2>2, <2>3
<1>3. /\ Append(t, e) \in Seq(S) /\ Len(Append(t, e)) = n + 1
      /\ DOMAIN Append(t, e) = 1 .. n + 1
      /\ \A i \in 1 .. n : Append(t, e)[i] = t[i]
      /\ Append(t, e)[n + 1] = e
  BY <1>2, AppendProperties
<1>4. \A i \in 1 .. n + 1 : i = n + 1 \/ (i \in 1 .. n /\ i + 1 \in 1 .. n + 1)
  BY <1>2
<1> QED BY <1>2, <1>3, <1>4

LEMMA RememberedKept ==
    ASSUME MailInv, LoaderInv, Callback \/ Loader
    PROVE  RememberedComes'
<1>1. /\ history \in Seq(BlockIds \cup {NoId}) /\ Len(history) = HistorySize
      /\ \A i \in DOMAIN history : history[i] = NoId \/ Comes(history[i])
      /\ \A id \in BlockIds, path \in Clips :
            Delivered(PrepareAt(id, path)) => Comes(id)
  BY DEF LoaderInv, RememberedComes
<1>2. ASSUME NEW id \in BlockIds, NEW path \in Clips,
             Delivered(PrepareAt(id, path))'
      PROVE  Comes(id)'
  <2>1. PICK m \in Letters : m = PrepareAt(id, path)
    BY Kinds DEF Letters
  <2>2. CASE Delivered(m)
    <3>1. Comes(id)
      BY <1>1, <2>1, <2>2
    <3> QED BY <3>1, ComesStill
  <2>3. CASE Callback /\ WriteMail /\ posting.mail = m
    <3>1. OnItsWay(m)'
      BY <2>3, WayOfCallback DEF OnItsWay
    <3> QED BY <2>1, <3>1 DEF Comes
  <2> QED BY <1>2, <2>1, <2>2, <2>3, DeliveredBy
<1>3. ASSUME NEW e \in BlockIds, Comes(e)
      PROVE  Comes(e)'
  BY <1>3, ComesStill
<1>4. ASSUME NEW i \in DOMAIN history
      PROVE  \A e : e = history[i] =>
                /\ e \in BlockIds \cup {NoId}
                /\ e = NoId \/ Comes(e)
  <2>1. history[i] \in BlockIds \cup {NoId}
    BY <1>1, ElementOfSeq
  <2> QED BY <1>1, <2>1
<1>5. SUFFICES
        /\ history' \in Seq(BlockIds \cup {NoId}) /\ Len(history') = HistorySize
        /\ \A i \in DOMAIN history' : \A e :
              e = history'[i] => e = NoId \/ Comes(e)'
  BY <1>2 DEF RememberedComes
<1>6. CASE history' = history
  <2>1. ASSUME NEW i \in DOMAIN history', NEW e, e = history'[i]
        PROVE  e = NoId \/ Comes(e)'
    <3>1. /\ e \in BlockIds \cup {NoId}
          /\ e = NoId \/ Comes(e)
      BY <1>4, <1>6, <2>1
    <3> QED BY <1>3, <3>1
  <2> QED BY <1>1, <1>6, <2>1
<1>7. CASE PreparePosted /\ posting.step = "posted"
  <2>1. history' = Append(Tail(history), PrefetchId)
    BY <1>7 DEF PreparePosted
  <2>2. asking.step \in {"prefetch", "prefetch next"}
    BY <1>7 DEF PreparePosted
  <2>3. PICK id \in BlockIds : id = PrefetchId
    BY <2>2, PrefetchIdOK DEF MailInv
  <2>4. posting # NotPosting
    BY <1>7, Idle
  <2>5. PICK path \in Clips : posting.mail = PrepareAt(id, path)
    BY <2>2, <2>3, <2>4 DEF LoaderInv, PostsWhatIsAsked
  <2>6. Comes(id)
    BY <1>1, <1>7, <2>4, <2>5 DEF Delivered
  <2>7. Comes(id)'
    BY <1>3, <2>6
  <2>8. history # <<>> /\ id \in BlockIds \cup {NoId}
    BY <1>1, AudioManagerAssumption
  <2>9. /\ history' \in Seq(BlockIds \cup {NoId})
        /\ Len(history') = HistorySize
        /\ \A i \in DOMAIN history' :
              \/ history'[i] = id
              \/ \E j \in DOMAIN history : history'[i] = history[j]
    BY <1>1, <2>1, <2>3, <2>8, Remembered
  <2>10. ASSUME NEW i \in DOMAIN history', NEW e, e = history'[i]
         PROVE  e = NoId \/ Comes(e)'
    <3>1. CASE e = id
      BY <2>7, <3>1
    <3>2. ASSUME NEW j \in DOMAIN history, e = history[j]
          PROVE  e = NoId \/ Comes(e)'
      <4>1. /\ e \in BlockIds \cup {NoId}
            /\ e = NoId \/ Comes(e)
        BY <1>4, <3>2
      <4> QED BY <1>3, <4>1
    <3> QED BY <2>9, <2>10, <3>1, <3>2
  <2> QED BY <2>9, <2>10
<1>8. history' = history \/ (PreparePosted /\ posting.step = "posted")
  <2>1. CASE Loader
    BY <2>1, LoaderLeaves DEF callVars
  <2>2. CASE Callback
    BY <2>2 DEF Callback, AudioId, OpenPosted, Prefetch, PreparePosted,
                CheckBlock, LoadSample, callVars
  <2> QED BY <2>1, <2>2
<1> QED BY <1>6, <1>7, <1>8

-----------------------------------------------------------------------------
(* Halves of an id                                                         *)

LEMMA HalfIdsKept ==
    ASSUME MailInv, LoaderInv, Callback \/ Loader
    PROVE  HalfIds'
<1>1. SUFFICES ASSUME NEW b \in BlockSlots, blocks'[b].id.clip = None
               PROVE  \/ blocks'[b].id.num = 0
                      \/ /\ Filling(b)' /\ loading'.next = FramesPerBlock
                         /\ blocks'[b].id.num = loading'.mail.id.num
  BY DEF HalfIds
<1>2. blocks[b].id.clip = None =>
          \/ blocks[b].id.num = 0
          \/ /\ Filling(b) /\ loading.next = FramesPerBlock
             /\ blocks[b].id.num = loading.mail.id.num
  BY DEF LoaderInv, HalfIds
<1>3. CASE blocks' = blocks /\ loading' = loading
  BY <1>1, <1>2, <1>3 DEF Filling
<1>4. CASE Callback \/ Idles
  BY <1>3, <1>4, CallbackLeaves, IdlesLeave
<1>5. CASE ReadMail \/ FindFile \/ Decode \/ Publish
  <2>1. blocks' = blocks
    BY <1>5, BlocksLeft
  <2>2. ~Filling(b)
    BY <1>5 DEF ReadMail, FindFile, Decode, Publish, Filling
  <2> QED BY <1>1, <1>2, <2>1, <2>2
<1>6. CASE FillSample
  <2>1. loading.next \in 0 .. FramesPerBlock - 1
    BY <1>6, FillSteps
  <2>2. loading.next # FramesPerBlock
    BY ONLY <2>1, AudioManagerAssumption
  <2>3. blocks'[b].id = blocks[b].id
    BY <1>6, FillSteps
  <2> QED BY <1>1, <1>2, <2>2, <2>3
<1>7. CASE StoreId \/ KeepId
  <2>1. /\ loading # NotLoad /\ loading.step = "prepare"
        /\ loading.next = FramesPerBlock
        /\ loading.mail.id.clip \in Clips
    BY <1>7, HandlesPrepare DEF StoreId, KeepId
  <2>2. loading.mail.id.clip # None
    BY <2>1, AudioManagerAssumption
  <2>3. CASE b # BlockSlot(loading.mail.id)
    <3>1. blocks'[b] = blocks[b]
      BY <1>7, <2>3, StoreSteps, BlocksLeft
    <3> QED BY <1>1, <1>2, <2>3, <3>1 DEF Filling
  <2>4. CASE b = BlockSlot(loading.mail.id) /\ KeepId
    <3>1. blocks' = blocks /\ blocks[b].id = loading.mail.id
      BY <2>4 DEF KeepId
    <3> QED BY <1>1, <2>2, <3>1
  <2>5. CASE b = BlockSlot(loading.mail.id) /\ StoreId
    <3>1. /\ \/ blocks'[b].id.clip = loading.mail.id.clip
             \/ blocks'[b].id.num = loading.mail.id.num
          /\ loading' = IF blocks'[b].id = loading.mail.id
                        THEN NotLoad ELSE loading
      BY <2>5, StoreSteps
    <3>2. loading' = loading /\ blocks'[b].id.num = loading.mail.id.num
      BY <1>1, <2>2, <3>1
    <3> QED BY <2>1, <2>5, <3>2 DEF Filling
  <2> QED BY <1>7, <2>3, <2>4, <2>5
<1> QED BY <1>4, <1>5, <1>6, <1>7, LoaderCases

-----------------------------------------------------------------------------
(* The order of letters                                                    *)

LEMMA SettledStays ==
    ASSUME MailInv, LoaderInv, Callback \/ Loader, NEW clip \in Clips,
           Settled(clip)
    PROVE  Settled(clip)'
<1>1. /\ clipSlot[clip] \in ClipSlots /\ clipSlot' = clipSlot
      /\ decoded \in [ClipSlots -> Clips \cup {None}]
  BY CallbackLeaves, LoaderLeaves
     DEF LoaderInv, LoaderTypes, MailInv, AskOK, hashVars
<1>2. CASE Open(clip) \in given_up
  BY <1>2, GivenUpStays DEF Settled
<1>3. CASE decoded[clipSlot[clip]] # None
  <2>1. CASE Decode
    <3>1. loading.mail.clip \in Clips
      BY <2>1, HandlesOpen DEF Decode
    <3>2. \/ decoded' = decoded
          \/ decoded' = [decoded EXCEPT
                ![clipSlot[loading.mail.clip]] = loading.mail.clip]
      BY <2>1 DEF Decode
    <3>3. decoded'[clipSlot[clip]] # None
      BY <1>1, <1>3, <3>1, <3>2, AudioManagerAssumption
    <3> QED BY <1>1, <3>3 DEF Settled
  <2>2. CASE ~Decode
    <3>1. decoded' = decoded
      BY <2>2, CallbackLeaves, IdlesLeave, LoaderCases
         DEF ReadMail, FindFile, Publish, FillSample, StoreId, KeepId
    <3> QED BY <1>1, <1>3, <3>1 DEF Settled
  <2> QED BY <2>1, <2>2
<1> QED BY <1>2, <1>3 DEF Settled

(* The loader is done with an Open: the clip is settled.                   *)
LEMMA OpenSettles ==
    ASSUME MailInv, LoaderInv, Loader, NEW clip \in Clips,
           InLoader(Open(clip)), loading' = NotLoad
    PROVE  Settled(clip)'
<1>1. clipSlot' = clipSlot
  BY LoaderLeaves DEF hashVars
<1>2. clip # None
  BY AudioManagerAssumption
<1> QED BY <1>1, <1>2, OpenEnds DEF Settled

(* Whoever is settled, or is about to be, still is.                        *)
LEMMA AboutToSettle ==
    ASSUME MailInv, LoaderInv, Callback \/ Loader, NEW clip \in Clips,
           Settled(clip) \/ OnItsWay(Open(clip))
    PROVE  Settled(clip)' \/ OnItsWay(Open(clip))'
<1>1. CASE Settled(clip)
  BY <1>1, SettledStays
<1>2. CASE OnItsWay(Open(clip))
  <2>1. PICK m \in Letters : m = Open(clip)
    BY Kinds DEF Letters
  <2>2. OnItsWay(m)' \/ (Loader /\ InLoader(m) /\ loading' = NotLoad)
    BY <1>2, <2>1, WayOfCallback, WayOfLoader
  <2> QED BY <2>1, <2>2, OpenSettles
<1> QED BY <1>1, <1>2

(* The callback prefetches blocks of clips that are open or being opened.  *)
LEMMA CallbackSettles ==
    ASSUME MailInv, LoaderInv, Callback \/ Loader, NEW clip \in Clips,
           \/ Delivered(Open(clip))'
           \/ asking'.step \in {"prefetch", "prefetch next"}
              /\ asking'.clip = clip
    PROVE  Settled(clip)' \/ OnItsWay(Open(clip))'
<1>1. /\ OpensGoAhead /\ SlotsOK /\ clipSlot[clip] \in ClipSlots
  BY DEF LoaderInv, MailInv, AskOK
<1>2. PICK m \in Letters : m = Open(clip)
  BY Kinds DEF Letters
<1>3. SUFFICES \/ Settled(clip) \/ OnItsWay(Open(clip))
               \/ OnItsWay(Open(clip))'
  BY AboutToSettle
<1>4. CASE Delivered(Open(clip))'
  <2>1. Delivered(m)'
    BY <1>2, <1>4
  <2>2. Delivered(m) \/ (Callback /\ WriteMail /\ posting.mail = m)
    BY <2>1, DeliveredBy
  <2>3. CASE Delivered(m)
    BY <1>1, <1>2, <2>3 DEF OpensGoAhead
  <2>4. CASE Callback /\ WriteMail /\ posting.mail = m
    <3>1. OnItsWay(m)'
      BY <2>4, WayOfCallback DEF OnItsWay
    <3> QED BY <1>2, <3>1
  <2> QED BY <2>2, <2>3, <2>4
<1>5. CASE /\ asking.step \in {"prefetch", "prefetch next"}
           /\ asking.clip = clip
  BY <1>1, <1>5 DEF OpensGoAhead
<1>6. CASE asking' = asking
  BY <1>3, <1>4, <1>5, <1>6
<1>7. ASSUME NEW c \in Clips, NEW frame \in Frames, AudioId(c, frame),
             asking'.step \in {"prefetch", "prefetch next"},
             asking'.clip = clip
      PROVE  Settled(clip)
  <2>1. asking' # NotAsked /\ asking'.step # "open"
    BY <1>7, Idle
  <2>2. /\ asking' = [step |-> "prefetch", clip |-> c, frame |-> frame]
        /\ opened[clipSlot[c]] = c
    <3>1. \/ /\ asking' = [step |-> "prefetch", clip |-> c, frame |-> frame]
             /\ opened[clipSlot[c]] = c
          \/ asking' = NotAsked
          \/ asking' = [step |-> "open", clip |-> c, frame |-> frame]
      BY <1>7 DEF AudioId, Return
    <3>2. CASE asking' = [step |-> "open", clip |-> c, frame |-> frame]
      <4>1. asking'.step = "open"
        BY <3>2
      <4> QED BY <2>1, <4>1
    <3> QED BY <2>1, <3>1, <3>2
  <2>3. c = clip
    BY <1>7, <2>2
  <2>4. opened[clipSlot[clip]] # None
    BY <2>2, <2>3, AudioManagerAssumption
  <2> QED BY <1>1, <2>4 DEF SlotsOK, Settled
<1>8. ASSUME OpenPosted, asking'.step \in {"prefetch", "prefetch next"},
             asking'.clip = clip
      PROVE  Settled(clip) \/ OnItsWay(Open(clip))
  <2>1. asking \in Calls /\ asking.step = "open"
    BY <1>8, Idle DEF OpenPosted, MailInv, AskOK
  <2>2. /\ posting.step = "posted"
        /\ asking' = [asking EXCEPT !.step = "prefetch"]
    BY <1>8, Idle DEF OpenPosted, Return
  <2>3. asking.clip = clip
    BY <1>8, <2>1, <2>2 DEF Calls
  <2>4. posting # NotPosting /\ posting.mail = Open(clip)
    BY <2>1, <2>2, <2>3, Idle DEF LoaderInv, PostsWhatIsAsked
  <2>5. Delivered(Open(clip))
    BY <2>2, <2>4 DEF Delivered
  <2> QED BY <1>1, <2>5 DEF OpensGoAhead
<1>9. ASSUME PreparePosted \/ Prefetch,
             asking'.step \in {"prefetch", "prefetch next"},
             asking'.clip = clip
      PROVE  Settled(clip) \/ OnItsWay(Open(clip))
  <2>1. asking' # NotAsked
    BY <1>9, Idle
  <2>2. asking'.clip = asking.clip
    BY <1>9, <2>1, SameClip
  <2>3. asking.step \in {"prefetch", "prefetch next"}
    BY <1>9 DEF PreparePosted, Prefetch
  <2> QED BY <1>1, <1>9, <2>2, <2>3 DEF OpensGoAhead
<1>10. ASSUME CheckBlock \/ LoadSample,
              asking'.step \in {"prefetch", "prefetch next"}
       PROVE  FALSE
  <2>1. asking' # NotAsked
    BY <1>10, Idle
  <2>2. CheckBlock /\ asking' = [asking EXCEPT !.step = "load"]
    BY <1>10, <2>1 DEF CheckBlock, LoadSample, Return
  <2>3. asking \in Calls
    BY <2>2, Idle DEF CheckBlock, MailInv, AskOK
  <2>4. asking'.step = "load"
    BY <2>2, <2>3 DEF Calls
  <2> QED BY <1>10, <2>4
<1>11. CASE Loader
  BY <1>6, <1>11, LoaderLeaves DEF callVars
<1>12. CASE /\ CheckRoom \/ RefusePost \/ WriteMail \/ SignalReader
            /\ UNCHANGED <<hashVars, callVars, loaderVars>>
  BY <1>6, <1>12 DEF callVars
<1> QED BY <1>3, <1>4, <1>7, <1>8, <1>9, <1>10, <1>11, <1>12, CallbackPosts

(* The order in the box: a letter that is written comes last, and the one  *)
(* that is read was first.                                                 *)
LEMMA BehindAppended ==
    ASSUME NEW S, NEW s \in Seq(S), NEW e \in S
    PROVE  /\ DOMAIN Append(s, e) = 1 .. Len(s) + 1
           /\ DOMAIN s = 1 .. Len(s) /\ Len(s) \in Nat
           /\ \A i \in 1 .. Len(s) : Append(s, e)[i] = s[i]
           /\ Append(s, e)[Len(s) + 1] = e
           /\ \A i \in 1 .. Len(s) + 1 : i \in DOMAIN s \/ i = Len(s) + 1
           /\ \A i \in 1 .. Len(s) + 1 : \A k \in 1 .. i - 1 : k \in DOMAIN s
           /\ \A k \in DOMAIN s : k \in 1 .. (Len(s) + 1) - 1
<1>1. /\ Len(Append(s, e)) = Len(s) + 1 /\ Len(s) \in Nat
      /\ \A i \in 1 .. Len(s) : Append(s, e)[i] = s[i]
      /\ Append(s, e)[Len(s) + 1] = e
      /\ DOMAIN s = 1 .. Len(s)
      /\ DOMAIN Append(s, e) = 1 .. Len(s) + 1
  BY AppendProperties
<1>2. ASSUME NEW n \in Nat
      PROVE  /\ \A i \in 1 .. n + 1 : i \in 1 .. n \/ i = n + 1
             /\ \A i \in 1 .. n + 1 : \A k \in 1 .. i - 1 : k \in 1 .. n
             /\ \A k \in 1 .. n : k \in 1 .. (n + 1) - 1
  BY ONLY n \in Nat
<1> QED BY <1>1, <1>2

LEMMA BehindTailed ==
    ASSUME NEW S, NEW s \in Seq(S), s # <<>>
    PROVE  \A j \in DOMAIN Tail(s) :
              /\ j + 1 \in DOMAIN s /\ Tail(s)[j] = s[j + 1]
              /\ \A k \in 1 .. (j + 1) - 1 :
                    \/ s[k] = Head(s)
                    \/ k - 1 \in 1 .. j - 1 /\ Tail(s)[k - 1] = s[k]
<1>1. /\ Len(s) \in Nat \ {0} /\ Head(s) = s[1]
      /\ \A i \in 1 .. Len(s) - 1 : Tail(s)[i] = s[i + 1]
      /\ DOMAIN s = 1 .. Len(s) /\ DOMAIN Tail(s) = 1 .. Len(s) - 1
  BY HeadTailProperties, EmptySeq
<1>2. PICK n \in Nat \ {0} : n = Len(s)
  BY <1>1
<1>3. ASSUME NEW j \in 1 .. n - 1
      PROVE  /\ j + 1 \in 1 .. n
             /\ \A k \in 1 .. (j + 1) - 1 :
                   \/ k = 1
                   \/ /\ k - 1 \in 1 .. j - 1 /\ k - 1 \in 1 .. n - 1
                      /\ (k - 1) + 1 = k
  BY ONLY n \in Nat \ {0}, j \in 1 .. n - 1
<1>4. ASSUME NEW j \in 1 .. n - 1, NEW k \in 1 .. (j + 1) - 1
      PROVE  \/ s[k] = Head(s)
             \/ k - 1 \in 1 .. j - 1 /\ Tail(s)[k - 1] = s[k]
  BY <1>1, <1>2, <1>3
<1> QED BY <1>1, <1>2, <1>3, <1>4

(* The Open of a clip lies before the j-th letter.                         *)
OpenBefore(s, j, clip) == \E i \in 1 .. j - 1 : s[i] = Open(clip)

(* The callback writes no Prepare before the Open of the clip.             *)
LEMMA WritesSettled ==
    ASSUME MailInv, LoaderInv, WriteMail, posting.mail \in Prepares
    PROVE  LET clip == posting.mail.id.clip
           IN  clip \in Clips /\ (Settled(clip) \/ OnItsWay(Open(clip)))
<1>1. posting # NotPosting /\ posting.mail \in Letters
  BY WriteIsLetter
<1>2. asking.step \in {"prefetch", "prefetch next"}
  <2>1. asking.step \in {"open", "prefetch", "prefetch next"}
    BY <1>1 DEF MailInv, AskOK
  <2>2. ASSUME asking.step = "open" PROVE FALSE
    <3>1. posting.mail = Open(asking.clip)
      BY <1>1, <2>2 DEF LoaderInv, PostsWhatIsAsked
    <3>2. posting.mail.kind = "open"
      BY <3>1 DEF Open
    <3> QED BY <3>2, Kinds
  <2> QED BY <2>1, <2>2
<1>3. /\ PrefetchId \in BlockIds /\ PrefetchId.clip = asking.clip
      /\ asking.clip \in Clips
  BY <1>2, PrefetchIdOK DEF MailInv
<1>4. PICK path \in Clips : posting.mail = PrepareAt(PrefetchId, path)
  BY <1>1, <1>2 DEF LoaderInv, PostsWhatIsAsked
<1>5. posting.mail.id.clip = asking.clip
  BY <1>3, <1>4, Kinds
<1> QED BY <1>2, <1>3, <1>5 DEF LoaderInv, OpensGoAhead

LEMMA OpensGoAheadKept ==
    ASSUME MailInv, LoaderInv, Callback \/ Loader
    PROVE  OpensGoAhead'
<1>1. /\ OpensGoAhead /\ InBox \in Seq(Letters)
      /\ LoaderTypes'
  BY LoaderTypesKept DEF LoaderInv, LoaderTypes
<1>2. ASSUME NEW j \in DOMAIN InBox, InBox[j] \in Prepares
      PROVE  \/ Settled(InBox[j].id.clip)
             \/ InLoader(Open(InBox[j].id.clip))
             \/ OpenBefore(InBox, j, InBox[j].id.clip)
  BY <1>1, <1>2 DEF OpensGoAhead, OpenBefore
<1>3. SUFFICES
        /\ \A j \in DOMAIN InBox', clip \in Clips :
              InBox'[j] \in Prepares /\ clip = InBox'[j].id.clip =>
                  \/ Settled(clip)' \/ InLoader(Open(clip))'
                  \/ OpenBefore(InBox', j, clip)
        /\ \A clip \in Clips :
              /\ loading' # NotLoad /\ loading'.mail \in Prepares
              /\ clip = loading'.mail.id.clip
              => Settled(clip)'
  <2>1. \A id \in BlockIds : id.clip \in Clips
    BY DEF BlockIds
  <2>2. \A m \in Prepares : m.id.clip \in Clips
    BY <2>1, Kinds
  <2>3. \A clip \in Clips :
          \/ Delivered(Open(clip))'
          \/ asking'.step \in {"prefetch", "prefetch next"}
             /\ asking'.clip = clip
          => Settled(clip)' \/ OnItsWay(Open(clip))'
    BY CallbackSettles
  <2>4. ASSUME NEW j \in DOMAIN InBox', InBox'[j] \in Prepares
        PROVE  \/ Settled(InBox[j].id.clip)'
               \/ InLoader(Open(InBox[j].id.clip))'
               \/ \E i \in 1 .. j - 1 : InBox'[i] = Open(InBox'[j].id.clip)
    <3>1. PICK clip \in Clips : clip = InBox'[j].id.clip
      BY <2>2, <2>4
    <3>2. \/ Settled(clip)' \/ InLoader(Open(clip))'
          \/ OpenBefore(InBox', j, clip)
      BY <1>3, <2>4, <3>1
    <3> QED BY <3>1, <3>2 DEF OpenBefore, Settled, InLoader
  <2>5. ASSUME loading' # NotLoad, loading'.mail \in Prepares
        PROVE  Settled(loading.mail.id.clip)'
    <3>1. PICK clip \in Clips : clip = loading'.mail.id.clip
      BY <2>2, <2>5
    <3>2. Settled(clip)'
      BY <1>3, <2>5, <3>1
    <3> QED BY <3>1, <3>2 DEF Settled
  <2> QED BY <2>3, <2>4, <2>5 DEF OpensGoAhead
<1>4. ASSUME NEW clip \in Clips,
             Settled(clip) \/ InLoader(Open(clip))
      PROVE  Settled(clip)' \/ InLoader(Open(clip))'
  <2>1. CASE Settled(clip)
    BY <2>1, SettledStays
  <2>2. CASE InLoader(Open(clip))
    <3>1. PICK n \in Letters : n = Open(clip)
      BY Kinds DEF Letters
    <3>2. CASE Callback
      BY <2>2, <3>1, <3>2, WayOfCallback
    <3>3. CASE Loader
      <4>1. loading # NotLoad /\ ~ReadMail
        BY <2>2 DEF InLoader, ReadMail
      <4>2. CASE loading' = NotLoad
        BY <2>2, <3>3, <4>2, OpenSettles
      <4>3. CASE loading' # NotLoad
        <5>1. loading'.mail = loading.mail
          BY <3>3, <4>1, <4>3, IdlesLeave, HandlingSteps, LoaderCases
        <5> QED BY <2>2, <4>3, <5>1 DEF InLoader
      <4> QED BY <4>2, <4>3
    <3> QED BY <3>2, <3>3
  <2> QED BY <1>4, <2>1, <2>2
<1>5. ASSUME NEW j \in DOMAIN InBox', NEW clip \in Clips,
             InBox'[j] \in Prepares, clip = InBox'[j].id.clip
      PROVE  \/ Settled(clip)' \/ InLoader(Open(clip))'
             \/ OpenBefore(InBox', j, clip)
  <2>1. CASE InBox' = InBox
    <3>1. \/ Settled(clip) \/ InLoader(Open(clip))
          \/ OpenBefore(InBox, j, clip)
      BY <1>2, <1>5, <2>1
    <3> QED BY <1>4, <2>1, <3>1
  <2>2. CASE WriteMail
    <3>1. posting.mail \in Letters /\ InBox' = Append(InBox, posting.mail)
      BY <2>2, WriteIsLetter
    <3>2. CASE j \in DOMAIN InBox
      <4>1. InBox'[j] = InBox[j]
        BY <1>1, <3>1, <3>2, BehindAppended
      <4>2. \/ Settled(clip) \/ InLoader(Open(clip))
            \/ OpenBefore(InBox, j, clip)
        BY <1>2, <1>5, <3>2, <4>1
      <4>3. OpenBefore(InBox, j, clip) => OpenBefore(InBox', j, clip)
        BY <1>1, <1>5, <3>1, BehindAppended DEF OpenBefore
      <4> QED BY <1>4, <4>2, <4>3
    <3>3. CASE j \notin DOMAIN InBox
      <4>1. j = Len(InBox) + 1 /\ InBox'[j] = posting.mail
        BY <1>1, <1>5, <3>1, <3>3, BehindAppended
      <4>2. Settled(clip) \/ OnItsWay(Open(clip))
        BY <1>5, <2>2, <4>1, WritesSettled
      <4>3. InTheBox(Open(clip)) => OpenBefore(InBox', j, clip)
        BY <1>1, <3>1, <4>1, BehindAppended DEF InTheBox, OpenBefore
      <4> QED BY <1>4, <4>2, <4>3 DEF OnItsWay
    <3> QED BY <3>2, <3>3
  <2>3. CASE ReadMail
    <3>1. /\ InBox # <<>> /\ InBox' = Tail(InBox)
          /\ loading' = [step |-> "find", mail |-> Head(InBox), next |-> 0]
      BY <2>3, ReadIsFind
    <3>2. /\ j + 1 \in DOMAIN InBox /\ InBox'[j] = InBox[j + 1]
          /\ \A k \in 1 .. (j + 1) - 1 :
                \/ InBox[k] = Head(InBox)
                \/ k - 1 \in 1 .. j - 1 /\ InBox'[k - 1] = InBox[k]
      BY <1>1, <1>5, <3>1, BehindTailed
    <3>3. \/ Settled(clip) \/ InLoader(Open(clip))
          \/ OpenBefore(InBox, j + 1, clip)
      BY <1>2, <1>5, <3>2
    <3>4. ASSUME NEW k \in 1 .. (j + 1) - 1, InBox[k] = Open(clip)
          PROVE  InLoader(Open(clip))' \/ OpenBefore(InBox', j, clip)
      <4>1. CASE InBox[k] = Head(InBox)
        <5>1. loading' # NotLoad /\ loading'.mail = Open(clip)
          BY <3>1, <3>4, <4>1, NotLoadIdle
        <5> QED BY <5>1 DEF InLoader
      <4>2. CASE k - 1 \in 1 .. j - 1 /\ InBox'[k - 1] = InBox[k]
        BY <3>4, <4>2 DEF OpenBefore
      <4> QED BY <3>2, <4>1, <4>2
    <3>5. OpenBefore(InBox, j + 1, clip) =>
              InLoader(Open(clip))' \/ OpenBefore(InBox', j, clip)
      BY <3>4 DEF OpenBefore
    <3> QED BY <1>4, <3>3, <3>5
  <2> QED BY <2>1, <2>2, <2>3, CallbackLeavesBox, IdlesLeave, HandlingSteps,
             LoaderCases
<1>6. ASSUME NEW clip \in Clips, loading' # NotLoad,
             loading'.mail \in Prepares, clip = loading'.mail.id.clip
      PROVE  Settled(clip)'
  <2>1. CASE ReadMail
    <3>1. /\ loading = NotLoad /\ InBox # <<>>
          /\ loading' = [step |-> "find", mail |-> Head(InBox), next |-> 0]
      BY <2>1, ReadIsFind
    <3>2. 1 \in DOMAIN InBox /\ InBox[1] = loading'.mail
      BY <1>1, <3>1, HeadTailProperties, EmptySeq
    <3>3. ~OpenBefore(InBox, 1, clip) /\ ~InLoader(Open(clip))
      BY <3>1 DEF OpenBefore, InLoader
    <3>4. Settled(clip)
      BY <1>2, <1>6, <3>2, <3>3
    <3> QED BY <3>4, SettledStays
  <2>2. CASE ~ReadMail
    <3>1. loading # NotLoad /\ loading'.mail = loading.mail
      <4>1. loading' = loading \/ loading'.mail = loading.mail
        BY <1>6, <2>2, CallbackLeaves, IdlesLeave, HandlingSteps, LoaderCases
      <4>2. loading = NotLoad => loading' = loading
        BY <2>2, CallbackLeaves, IdlesLeave, HandlingSteps, LoaderCases
      <4> QED BY <1>6, <4>1, <4>2
    <3>2. Settled(clip)
      BY <1>1, <1>6, <3>1 DEF OpensGoAhead
    <3> QED BY <3>2, SettledStays
  <2> QED BY <2>1, <2>2
<1> QED BY <1>5, <1>6

-----------------------------------------------------------------------------
(* What is in the blocks                                                   *)

(* While a block is filled nothing is decoded.                             *)
LEMMA FilledKept ==
    ASSUME MailInv, LoaderInv, Callback \/ Loader
    PROVE  FilledSoFar'
<1>1. FilledSoFar /\ clipSlot' = clipSlot
  BY CallbackLeaves, LoaderLeaves DEF LoaderInv, hashVars
<1>2. CASE Callback \/ Idles
  BY <1>1, <1>2, CallbackLeaves, IdlesLeave DEF FilledSoFar
<1>3. CASE ReadMail \/ FindFile \/ Decode \/ Publish \/ KeepId
  <2>1. SUFFICES ASSUME loading' # NotLoad, loading'.step = "prepare"
                 PROVE  \A i : i \notin 0 .. loading'.next - 1
    BY DEF FilledSoFar
  <2>2. FindFile /\ loading' = [loading EXCEPT !.step = loading.mail.kind]
    <3>1. ~ReadMail
      BY <2>1, ReadIsFind
    <3>2. ~Decode
      <4>1. ASSUME Decode PROVE FALSE
        <5>1. loading' = [loading EXCEPT !.step = "publish"]
          BY <2>1, <4>1 DEF Decode, GiveUp
        <5>2. loading \in Loads
          BY <4>1, HandlingSteps
        <5>3. loading'.step = "publish"
          BY <5>1, <5>2 DEF Loads
        <5> QED BY <2>1, <5>3
      <4> QED BY <4>1
    <3>3. FindFile
      BY <1>3, <2>1, <3>1, <3>2 DEF Publish, KeepId
    <3> QED BY <2>1, <3>3 DEF FindFile, GiveUp
  <2>3. loading \in Loads /\ loading.step = "find"
    BY <2>2, HandlingSteps DEF FindFile
  <2>4. loading # NotLoad
    BY <2>3, NotLoadIdle
  <2>5. loading'.next = 0
    BY <2>2, <2>3, <2>4 DEF LoaderInv, LoaderSteps, Loads
  <2> QED BY <2>5
<1>4. CASE StoreId
  <2>1. /\ loading.step = "prepare" /\ decoded' = decoded
        /\ loading' = NotLoad \/ loading' = loading
    BY <1>4, StoreSteps
  <2>2. /\ loading # NotLoad /\ BlockSlot(loading.mail.id) \in BlockSlots
    BY <2>1, HandlesPrepare
  <2>3. blocks'[BlockSlot(loading.mail.id)].samples
            = blocks[BlockSlot(loading.mail.id)].samples
    BY <1>4, StoreSteps
  <2> QED BY <1>1, <2>1, <2>2, <2>3 DEF FilledSoFar
<1>5. CASE FillSample
  <2>. DEFINE id == loading.mail.id
              at == BlockSlot(id)
              n  == loading.next
              new(i) == SampleOf(decoded[clipSlot[id.clip]],
                                 id.num * FramesPerBlock + i)
  <2>1. /\ n \in 0 .. FramesPerBlock - 1
        /\ loading'.next = n + 1 /\ loading'.mail = loading.mail
        /\ \A j \in 0 .. FramesPerBlock - 1 :
              blocks'[at].samples[j] =
                 IF j = n THEN new(n) ELSE blocks[at].samples[j]
        /\ decoded' = decoded
    BY <1>5, FillSteps
  <2>2. loading # NotLoad /\ loading.step = "prepare"
    BY <1>5, HandlesPrepare DEF FillSample
  <2>3. \A i \in 0 .. n - 1 : blocks[at].samples[i] = new(i)
    BY <1>1, <2>2 DEF FilledSoFar
  <2>4. ASSUME NEW i \in 0 .. (n + 1) - 1
        PROVE  /\ i \in 0 .. FramesPerBlock - 1
               /\ i = n \/ i \in 0 .. n - 1
    <3>1. n \in 0 .. FramesPerBlock - 1
      BY <2>1
    <3> HIDE DEF n
    <3> QED BY ONLY <3>1, i \in 0 .. (n + 1) - 1, AudioManagerAssumption
  <2> HIDE DEF new, n, at
  <2>5. \A i \in 0 .. (n + 1) - 1 : blocks'[at].samples[i] = new(i)
    BY <2>1, <2>3, <2>4
  <2> QED BY <1>1, <2>1, <2>5 DEF FilledSoFar, new, at
<1> QED BY <1>2, <1>3, <1>4, <1>5, LoaderCases

(* BlocksMatch, of the samples and the id of one block.                    *)
Decodings(clip) == Sharers(clip) \cup {None}

OfClip(samples, id, c, i, gone) ==
    /\ samples[i] = SampleOf(c, id.num * FramesPerBlock + i)
    /\ c = None => Open(id.clip) \in gone

Mixed(samples, id, gone) ==
    \A i \in 0 .. FramesPerBlock - 1 :
        \E c \in Decodings(id.clip) : OfClip(samples, id, c, i, gone)

Whole(samples, id, gone) ==
    \E c \in Decodings(id.clip) :
        \A i \in 0 .. FramesPerBlock - 1 : OfClip(samples, id, c, i, gone)

LEMMA BlocksMatchIs ==
    BlocksMatch <=>
        \A b \in BlockSlots :
            /\ blocks[b].id.clip # None
            /\ Filling(b) => loading.mail.id = blocks[b].id
            => /\ Mixed(blocks[b].samples, blocks[b].id, given_up)
               /\ Filling(b) \/ Whole(blocks[b].samples, blocks[b].id, given_up)
  BY DEF BlocksMatch, Mixed, Whole, OfClip, Decodings

LEMMA BlocksMatchIsNext ==
    ASSUME clipSlot' = clipSlot
    PROVE  BlocksMatch' <=>
        \A b \in BlockSlots :
            /\ blocks'[b].id.clip # None
            /\ Filling(b)' => loading'.mail.id = blocks'[b].id
            => /\ Mixed(blocks'[b].samples, blocks'[b].id, given_up')
               /\ \/ Filling(b)'
                  \/ Whole(blocks'[b].samples, blocks'[b].id, given_up')
  BY DEF BlocksMatch, Mixed, Whole, OfClip, Decodings, Sharers

LEMMA WholeIsMixed ==
    ASSUME NEW samples, NEW id, NEW gone, NEW more, gone \subseteq more
    PROVE  /\ Whole(samples, id, gone) => Mixed(samples, id, more)
           /\ Mixed(samples, id, gone) => Mixed(samples, id, more)
           /\ Whole(samples, id, gone) => Whole(samples, id, more)
  BY DEF Mixed, Whole, OfClip

(* What the loader fills a block from.                                     *)
LEMMA FilledFrom ==
    ASSUME MailInv, LoaderInv, loading.step = "prepare"
    PROVE  LET clip == loading.mail.id.clip
               c    == decoded[clipSlot[clip]]
           IN  c \in Decodings(clip) /\ (c = None => Open(clip) \in given_up)
<1>. DEFINE clip == loading.mail.id.clip
            c    == decoded[clipSlot[clip]]
<1>1. /\ clip \in Clips /\ clipSlot[clip] \in ClipSlots
      /\ loading # NotLoad /\ loading.mail \in Prepares
  BY HandlesPrepare
<1>2. c \in Clips \cup {None}
  BY <1>1 DEF LoaderInv, LoaderTypes
<1>3. c # None => clipSlot[c] = clipSlot[clip]
  BY <1>1 DEF LoaderInv, SlotsOK
<1>4. c # None \/ Open(clip) \in given_up
  BY <1>1 DEF LoaderInv, OpensGoAhead, Settled
<1> QED BY <1>2, <1>3, <1>4 DEF Decodings, Sharers

(* A block that is filled is of the clip in the slot.                      *)
LEMMA FilledWhole ==
    ASSUME MailInv, LoaderInv, loading.step = "prepare",
           loading.next = FramesPerBlock
    PROVE  LET id == loading.mail.id
           IN  Whole(blocks[BlockSlot(id)].samples, id, given_up)
<1>. DEFINE id == loading.mail.id
            c  == decoded[clipSlot[id.clip]]
<1>1. c \in Decodings(id.clip) /\ (c = None => Open(id.clip) \in given_up)
  BY FilledFrom
<1>2. \A i \in 0 .. FramesPerBlock - 1 :
          blocks[BlockSlot(id)].samples[i]
              = SampleOf(c, id.num * FramesPerBlock + i)
  BY HandlesPrepare DEF LoaderInv, FilledSoFar
<1>. HIDE DEF c, id
<1> QED BY <1>1, <1>2 DEF Whole, OfClip, id

LEMMA BlocksMatchKept ==
    ASSUME MailInv, LoaderInv, Callback \/ Loader
    PROVE  BlocksMatch'
<1>1. clipSlot' = clipSlot /\ given_up \subseteq given_up'
  BY CallbackLeaves, LoaderLeaves, GivenUpStays DEF hashVars
<1>2. SUFFICES
        ASSUME NEW b \in BlockSlots, blocks'[b].id.clip # None,
               Filling(b)' => loading'.mail.id = blocks'[b].id
        PROVE  /\ Mixed(blocks'[b].samples, blocks'[b].id, given_up')
               /\ \/ Filling(b)'
                  \/ Whole(blocks'[b].samples, blocks'[b].id, given_up')
  BY <1>1, BlocksMatchIsNext
<1>3. /\ blocks[b].id.clip # None
      /\ Filling(b) => loading.mail.id = blocks[b].id
      => /\ Mixed(blocks[b].samples, blocks[b].id, given_up)
         /\ Filling(b) \/ Whole(blocks[b].samples, blocks[b].id, given_up)
  BY BlocksMatchIs DEF LoaderInv
<1>4. CASE /\ blocks'[b] = blocks[b]
           /\ Filling(b) => Filling(b)' /\ loading'.mail = loading.mail
  <2>1. /\ Mixed(blocks[b].samples, blocks[b].id, given_up)
        /\ Filling(b) \/ Whole(blocks[b].samples, blocks[b].id, given_up)
    BY <1>2, <1>3, <1>4
  <2> QED BY <1>1, <1>4, <2>1, WholeIsMixed
<1>5. CASE Callback \/ Idles
  <2>1. blocks' = blocks /\ loading' = loading
    BY <1>5, CallbackLeaves, IdlesLeave
  <2> QED BY <1>4, <2>1 DEF Filling
<1>6. CASE ReadMail \/ FindFile \/ Decode \/ Publish
  <2>1. blocks' = blocks
    BY <1>6, BlocksLeft
  <2>2. ~Filling(b)
    BY <1>6 DEF ReadMail, FindFile, Decode, Publish, Filling
  <2> QED BY <1>4, <2>1, <2>2
<1>7. CASE /\ FillSample \/ StoreId \/ KeepId
           /\ b # BlockSlot(loading.mail.id)
  <2>1. blocks'[b] = blocks[b]
    BY <1>7, FillSteps, StoreSteps, BlocksLeft
  <2>2. ~Filling(b)
    BY <1>7 DEF Filling
  <2> QED BY <1>4, <2>1, <2>2
<1>8. CASE FillSample /\ b = BlockSlot(loading.mail.id)
  <2>. DEFINE c == decoded[clipSlot[loading.mail.id.clip]]
              n == loading.next
  <2>1. /\ loading' # NotLoad /\ loading'.step = "prepare"
        /\ loading'.mail = loading.mail /\ blocks'[b].id = blocks[b].id
        /\ given_up' = given_up
        /\ \A j \in 0 .. FramesPerBlock - 1 :
              blocks'[b].samples[j] =
                 IF j = n
                 THEN SampleOf(c, loading.mail.id.num * FramesPerBlock + n)
                 ELSE blocks[b].samples[j]
    BY <1>8, FillSteps
  <2>2. Filling(b)' /\ Filling(b)
    BY <1>8, <2>1, HandlesPrepare DEF Filling, FillSample
  <2>3. loading.mail.id = blocks[b].id
    BY <1>2, <2>1, <2>2
  <2>4. Mixed(blocks[b].samples, blocks[b].id, given_up)
    BY <1>2, <1>3, <2>1, <2>3
  <2>5. /\ c \in Decodings(blocks[b].id.clip)
        /\ c = None => Open(blocks[b].id.clip) \in given_up
    BY <1>8, <2>3, FilledFrom DEF FillSample
  <2>. HIDE DEF c, n
  <2>6. ASSUME NEW i \in 0 .. FramesPerBlock - 1
        PROVE  \E d \in Decodings(blocks[b].id.clip) :
                  OfClip(blocks'[b].samples, blocks[b].id, d, i, given_up)
    <3>1. CASE i = n
      BY <2>1, <2>3, <2>5, <3>1 DEF OfClip
    <3>2. CASE i # n
      <4>1. blocks'[b].samples[i] = blocks[b].samples[i]
        BY <2>1, <3>2
      <4> QED BY <2>4, <4>1 DEF Mixed, OfClip
    <3> QED BY <3>1, <3>2
  <2>7. Mixed(blocks'[b].samples, blocks[b].id, given_up)
    BY <2>6 DEF Mixed
  <2> QED BY <2>1, <2>2, <2>7
<1>9. CASE StoreId /\ b = BlockSlot(loading.mail.id)
  <2>1. /\ blocks'[b].samples = blocks[b].samples
        /\ loading' = IF blocks'[b].id = loading.mail.id
                      THEN NotLoad ELSE loading
        /\ loading.next = FramesPerBlock /\ loading.step = "prepare"
    BY <1>9, StoreSteps
  <2>2. Filling(b)
    BY <1>9, <2>1, HandlesPrepare DEF Filling
  <2>3. blocks'[b].id = loading.mail.id
    BY <1>2, <1>9, <2>1, <2>2 DEF Filling
  <2>4. Whole(blocks'[b].samples, blocks'[b].id, given_up)
    BY <1>9, <2>1, <2>3, FilledWhole
  <2> QED BY <1>1, <2>4, WholeIsMixed
<1>10. CASE KeepId /\ b = BlockSlot(loading.mail.id)
  <2>1. /\ blocks' = blocks /\ blocks[b].id = loading.mail.id
        /\ loading.next = FramesPerBlock /\ loading.step = "prepare"
    BY <1>10 DEF KeepId
  <2>2. Whole(blocks'[b].samples, blocks'[b].id, given_up)
    BY <1>10, <2>1, FilledWhole
  <2> QED BY <1>1, <2>2, WholeIsMixed
<1> QED BY <1>5, <1>6, <1>7, <1>8, <1>9, <1>10, LoaderCases

-----------------------------------------------------------------------------
(* The invariant                                                           *)

LEMMA LoaderInvAtFirst == Init => LoaderInv
<1>1. SUFFICES ASSUME Init PROVE LoaderInv
  OBVIOUS
<1>2. /\ MailInv /\ InBox = <<>>
      /\ paths = [s \in ClipSlots |-> None]
      /\ opened = [s \in ClipSlots |-> None]
      /\ decoded = [s \in ClipSlots |-> None]
      /\ blocks = [b \in BlockSlots |-> Zeroed]
      /\ history = [i \in 1 .. HistorySize |-> NoId]
      /\ asking = NotAsked /\ loading = NotLoad /\ posting = NotPosting
      /\ clipSlot \in [Clips -> ClipSlots]
  BY <1>1, InitHolds, BoxEmptyAtFirst DEF Init, MailboxInit
<1>3. \A clip \in Clips : clip # None
  BY AudioManagerAssumption
<1>4. \A m : ~InTheBox(m) /\ ~InLoader(m) /\ ~Unposted(m) /\ ~Delivered(m)
  BY <1>2 DEF InTheBox, InLoader, Unposted, Delivered
<1>5. LoaderTypes /\ LoaderSteps /\ SlotsOK /\ PostsWhatIsAsked
  BY <1>2 DEF LoaderTypes, LoaderSteps, SlotsOK, PostsWhatIsAsked
<1>6. ASSUME NEW b \in BlockSlots
      PROVE  /\ blocks[b].id = NoId /\ DOMAIN blocks[b] = {"id", "samples"}
             /\ DOMAIN blocks[b].samples = 0 .. FramesPerBlock - 1
  BY <1>2 DEF Zeroed
<1>7. /\ NoId \in [clip : Clips \cup {None}, num : Nat]
      /\ NoId.clip = None /\ NoId.num = 0
  BY DEF NoId
<1>8. BlockTypes
  BY <1>2, <1>6, <1>7 DEF BlockTypes
<1>9. HalfIds /\ BlocksMatch
  BY <1>6, <1>7 DEF HalfIds, BlocksMatch
<1>10. PathsStored /\ OnlyOnce /\ WillBeReady
  BY <1>2, <1>3, <1>4 DEF PathsStored, OnlyOnce, WillBeReady, OnItsWay
<1>11. RememberedComes
  <2>1. /\ history \in Seq(BlockIds \cup {NoId})
        /\ Len(history) = HistorySize
        /\ \A i \in DOMAIN history : history[i] = NoId
    BY <1>2, AudioManagerAssumption
  <2> QED BY <1>4, <2>1 DEF RememberedComes
<1>12. OpensGoAhead
  BY <1>2, <1>4, Idle DEF OpensGoAhead
<1>13. FilledSoFar
  BY <1>2 DEF FilledSoFar
<1> QED BY <1>5, <1>8, <1>9, <1>10, <1>11, <1>12, <1>13 DEF LoaderInv

LEMMA LoaderInvUnchanged ==
    ASSUME LoaderInv, UNCHANGED vars
    PROVE  LoaderInv'
<1>1. /\ InBox' = InBox
      /\ UNCHANGED <<posting, clipSlot, paths, opened, decoded, blocks,
                     history, asking, loading, given_up>>
  BY InBoxUnchanged DEF vars, mailVars, hashVars, callVars, loaderVars
<1>2. LoaderTypes' /\ LoaderSteps' /\ BlockTypes' /\ SlotsOK'
  BY <1>1 DEF LoaderInv, LoaderTypes, LoaderSteps, BlockTypes, SlotsOK
<1>3. PostsWhatIsAsked' /\ FilledSoFar'
  BY <1>1 DEF LoaderInv, PostsWhatIsAsked, PrefetchId, FilledSoFar
<1>4. PathsStored' /\ WillBeReady' /\ OnlyOnce'
  BY <1>1 DEF LoaderInv, PathsStored, WillBeReady, OnlyOnce, Sharers,
              InTheBox, InLoader, OnItsWay, Unposted
<1>5. RememberedComes'
  BY <1>1 DEF LoaderInv, RememberedComes, Comes, InTheBox, InLoader, OnItsWay,
              Delivered
<1>6. HalfIds' /\ BlocksMatch'
  BY <1>1 DEF LoaderInv, HalfIds, Filling, BlocksMatch, Sharers
<1>7. OpensGoAhead'
  BY <1>1 DEF LoaderInv, OpensGoAhead, Settled, InTheBox, InLoader, OnItsWay,
              Delivered
<1> QED BY <1>2, <1>3, <1>4, <1>5, <1>6, <1>7 DEF LoaderInv

LEMMA LoaderInvKept ==
    ASSUME MailInv, LoaderInv, [Next]_vars
    PROVE  LoaderInv'
<1>1. CASE Callback \/ Loader
  BY <1>1, LoaderTypesKept, LoaderStepsKept, BlockTypesKept, SlotsKept,
     PostsKept, PathsKept, OnlyOnceKept, WillBeReadyKept, RememberedKept,
     HalfIdsKept, OpensGoAheadKept, FilledKept, BlocksMatchKept
     DEF LoaderInv
<1> QED BY <1>1, LoaderInvUnchanged DEF Next

(* What becomes of a letter the callback posts, and of the clip and the    *)
(* block it is about (au_audio_id, au_audio_prefetch, audio_manager_loop). *)
THEOREM LoaderInvariant == Spec => []LoaderInv
  BY MailInvariant, LoaderInvAtFirst, LoaderInvKept, PTL DEF Spec

(* A block that carries an id holds samples of that id and of a clip that  *)
(* was decoded into the clip's slot; all of one clip, unless the loader    *)
(* fills the block once more (audio_manager_loop, au_audio_sample).        *)
THEOREM BlocksAreOfTheirId == Spec => []BlocksMatch
<1>1. LoaderInv => BlocksMatch
  BY DEF LoaderInv
<1> QED BY <1>1, LoaderInvariant, PTL

(* A block that is remembered, and so is not asked for again, is on its    *)
(* way, was given up, or its place is taken (did_just_prefetch).           *)
THEOREM RememberedIsOnItsWay == Spec => []PrefetchedComes
<1>1. LoaderInv => PrefetchedComes
  <2>1. SUFFICES ASSUME LoaderInv, NEW i \in DOMAIN history
                 PROVE  LET id == history[i]
                        IN  \/ id = NoId
                            \/ blocks[BlockSlot(id)].id # NoId
                            \/ \E path \in Clips :
                                  \/ Handling(PrepareAt(id, path))
                                  \/ PrepareAt(id, path) \in given_up
    BY DEF PrefetchedComes
  <2>2. history[i] = NoId \/ Comes(history[i])
    BY <2>1 DEF LoaderInv, RememberedComes
  <2>3. \A m : OnItsWay(m) => Handling(m)
    BY DEF OnItsWay, InTheBox, InLoader, Handling
  <2> QED BY <2>2, <2>3 DEF Comes
<1> QED BY <1>1, LoaderInvariant, PTL

(* A clip that has its slot for itself is opened once (au_audio_id).       *)
THEOREM ClipOpenedOnce == Spec => []OpenedOnce
<1>1. LoaderInv => OpenedOnce
  BY DEF LoaderInv, OnlyOnce, OpenedOnce, OnItsWay, InTheBox, InLoader
<1> QED BY <1>1, LoaderInvariant, PTL

(* A clip that has its slot for itself and whose path is stored is open,   *)
(* about to be, or never will be ("not ready", au_audio_id).               *)
THEOREM NotReadyForAReason == Spec => []NotReadyYet
<1>1. LoaderInv => NotReadyYet
  BY DEF LoaderInv, WillBeReady, NotReadyYet, OnItsWay, InTheBox, InLoader,
         Unposted, Handling
<1> QED BY <1>1, LoaderInvariant, PTL
=============================================================================
