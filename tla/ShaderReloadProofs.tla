------------------------- MODULE ShaderReloadProofs -------------------------
(***************************************************************************)
(* The frame loop reloads only files that are stale, whatever is edited    *)
(* and whatever fails, if there is one file, or if no file is removed: the *)
(* event of a file that was created again names file 0, and can do harm    *)
(* only when that is another one.                                          *)
(***************************************************************************)
EXTENDS ShaderReload, TLAPS, FiniteSetTheorems

USE VolumeAssumption

Event == [file : Files, kind : {"create", "delete", "modify"}]

Types ==
    /\ disk \in [Files -> Nat] /\ fd \in [Files -> Nat] /\ edits \in Nat
    /\ knote \in [Files -> [inode : Nat, flags : SUBSET Flags]]
    /\ stale \in [Files -> BOOLEAN] /\ deleted \in [Files -> BOOLEAN]
    /\ out \in [Files -> SUBSET Flags]
    /\ events \in Seq(Event)
    /\ target \in Files
    /\ pc \in {"poll", "kevent", "reopen", "note", "reopen again", "polled",
               "verify", "open", "map"}

(* An edit that makes an inode makes one that was not there before; what   *)
(* is watched is what is open.                                             *)
NewInodes ==
    \A f \in Files :
        /\ disk[f] <= FileCount + edits /\ fd[f] <= FileCount + edits
        /\ knote[f] = Unarmed \/ knote[f].inode = fd[f]

(* What is known to be deleted stays open, is not what is on disk, and is  *)
(* not reported a second time.                                             *)
Deletions ==
    \A f \in Files :
        /\ deleted[f] \/ "delete" \in knote[f].flags \union out[f]
             => fd[f] # None /\ fd[f] # disk[f]
        /\ deleted[f] => knote[f].flags = {} /\ out[f] = {}
        /\ out[f] # {} => knote[f] = Unarmed

(* Reports and events are gone when the next poll begins.                  *)
PollBegins ==
    /\ pc \notin {"reopen", "note"} => \A f \in Files : out[f] = {}
    /\ pc \in {"poll", "kevent", "reopen"} => events = <<>>

(* Each file has one event, and is stale if the event is one to reload it  *)
(* for.                                                                    *)
EventsFit ==
    /\ \A i, j \in DOMAIN events : events[i].file = events[j].file => i = j
    /\ \A i \in DOMAIN events :
          LET e == events[i]
          IN  /\ e.kind # "delete" => stale[e.file] /\ ~deleted[e.file]
              /\ pc = "note" => e.kind = "create" /\ out[e.file] = {}
              /\ pc = "reopen again" /\ e.kind = "delete" => deleted[e.file]
              /\ pc \in {"verify", "open", "map"} => e.file # target

(* A file that is being reloaded stays stale until it is mapped.           *)
Reloading ==
    pc \in {"verify", "open", "map"} => stale[target] /\ ~deleted[target]

(* Without removals a deleted file is opened again at once.                *)
ReplacedAtOnce ==
    "remove" \notin EditOps =>
        /\ \A f \in Files : disk[f] # None
        /\ pc # "reopen again" => \A f \in Files : ~deleted[f]

ReloadInv ==
    /\ Types /\ NewInodes /\ Deletions /\ PollBegins /\ EventsFit /\ Reloading
    /\ ReplacedAtOnce

(* One file, or none removed.                                              *)
Harmless == FileCount = 1 \/ "remove" \notin EditOps

LEMMA InitReloadInv == Init => ReloadInv
<1>. SUFFICES ASSUME Init PROVE ReloadInv
  OBVIOUS
<1>. USE DEF Init, VolumeInit
<1>1. \A f \in Files : /\ disk[f] = f + 1 /\ fd[f] = f + 1
                       /\ f + 1 \in Nat /\ f + 1 <= FileCount /\ f + 1 # None
  BY DEF Files, None
<1>2. Types
  <2>1. knote \in [Files -> [inode : Nat, flags : SUBSET Flags]]
    <3>1. Unarmed \in [inode : Nat, flags : SUBSET Flags]
      BY DEF Unarmed, None
    <3> QED BY <3>1
  <2>2. 0 \in Files /\ 0 \in Nat
    BY DEF Files
  <2>3. disk \in [Files -> Nat] /\ fd \in [Files -> Nat]
    BY <1>1
  <2> QED BY <2>1, <2>2, <2>3 DEF Types
<1>3. NewInodes
  BY <1>1 DEF NewInodes
<1>4. Deletions
  BY DEF Deletions, Unarmed
<1>5. PollBegins /\ EventsFit /\ Reloading
  BY DEF PollBegins, EventsFit, Reloading
<1>6. ReplacedAtOnce
  BY <1>1 DEF ReplacedAtOnce
<1> QED BY <1>2, <1>3, <1>4, <1>5, <1>6 DEF ReloadInv

LEMMA ReloadFacts ==
    ASSUME ReloadInv, NEW f \in Files
    PROVE  /\ disk[f] \in Nat /\ fd[f] \in Nat /\ edits \in Nat
           /\ disk[f] <= FileCount + edits /\ fd[f] <= FileCount + edits
           /\ knote[f] \in [inode : Nat, flags : SUBSET Flags]
           /\ knote[f] = Unarmed \/ knote[f].inode = fd[f]
           /\ stale[f] \in BOOLEAN /\ deleted[f] \in BOOLEAN
           /\ out[f] \in SUBSET Flags
           /\ events \in Seq(Event) /\ target \in Files
  BY DEF ReloadInv, Types, NewInodes

(* The files, and so every set of them, can be counted.                    *)
LEMMA FilesFinite ==
    ASSUME NEW S \in SUBSET Files, NEW s \in SetToSeqs(S)
    PROVE  \E n \in Nat : /\ n = Cardinality(S) /\ s \in [1 .. n -> S]
                          /\ \A i, j \in 1 .. n : s[i] = s[j] => i = j
<1>1. IsFiniteSet(Files)
  BY FS_Interval DEF Files
<1>2. IsFiniteSet(S)
  BY <1>1, FS_Subset
<1>3. Cardinality(S) \in Nat
  BY <1>2, FS_CardinalityType
<1> QED BY <1>3 DEF SetToSeqs

(* The steps that leave the files and their events alone.                  *)
LEMMA ReloadKept ==
    ASSUME ReloadInv,
           UNCHANGED <<disk, edits, fd, knote, stale, deleted, out>>,
           events' \in Seq(Event),
           \/ UNCHANGED <<pc, events, target>>
           \/ pc = "polled" /\ events = <<>> /\ pc' = "poll"
              /\ UNCHANGED <<events, target>>
           \/ pc \in {"verify", "open", "map"} /\ UNCHANGED <<events, target>>
              /\ pc' \in {"open", "map", "polled"}
    PROVE  ReloadInv'
<1>1. Types'
  BY DEF ReloadInv, Types
<1>2. NewInodes' /\ Deletions'
  BY DEF ReloadInv, NewInodes, Deletions
<1>3. PollBegins' /\ Reloading' /\ ReplacedAtOnce'
  BY DEF ReloadInv, PollBegins, Reloading, ReplacedAtOnce
<1>4. EventsFit'
  BY DEF ReloadInv, EventsFit
<1> QED BY <1>1, <1>2, <1>3, <1>4 DEF ReloadInv

LEMMA ArmStep ==
    ASSUME ReloadInv, Arm
    PROVE  ReloadInv'
<1>1. /\ pc = "poll" /\ pc' = "kevent"
      /\ UNCHANGED <<disk, edits, fd, stale, deleted, out, events, target>>
      /\ knote' = [f \in Files |-> IF knote[f].inode = fd[f] THEN knote[f]
                                   ELSE [inode |-> fd[f], flags |-> {}]]
  BY DEF Arm, diskVars, mountVars, pollVars
<1>2. ASSUME NEW f \in Files
      PROVE  /\ knote'[f].flags = knote[f].flags
             /\ knote'[f] = Unarmed \/ knote'[f].inode = fd[f]
             /\ knote'[f] \in [inode : Nat, flags : SUBSET Flags]
             /\ out[f] = {}
  <2>1. out[f] = {}
    BY <1>1 DEF ReloadInv, PollBegins
  <2>2. CASE knote[f].inode = fd[f]
    BY <1>1, <2>1, <2>2, ReloadFacts
  <2>3. CASE knote[f].inode # fd[f]
    <3>1. knote[f].flags = {}
      BY <2>3, ReloadFacts DEF Unarmed
    <3>2. knote'[f] = [inode |-> fd[f], flags |-> {}]
      BY <1>1, <2>3
    <3> QED BY <2>1, <3>1, <3>2, ReloadFacts
  <2> QED BY <2>2, <2>3
<1>3. Types'
  <2>1. knote' \in [Files -> [inode : Nat, flags : SUBSET Flags]]
    BY <1>1, <1>2
  <2> QED BY <1>1, <2>1 DEF ReloadInv, Types
<1>4. NewInodes' /\ Deletions'
  BY <1>1, <1>2 DEF ReloadInv, NewInodes, Deletions
<1>5. PollBegins' /\ Reloading' /\ ReplacedAtOnce' /\ EventsFit'
  BY <1>1 DEF ReloadInv, PollBegins, Reloading, ReplacedAtOnce, EventsFit
<1> QED BY <1>3, <1>4, <1>5 DEF ReloadInv

LEMMA CollectStep ==
    ASSUME ReloadInv, Collect
    PROVE  ReloadInv'
<1>1. /\ pc = "kevent" /\ pc' = "reopen" /\ events' = <<>>
      /\ UNCHANGED <<disk, edits, fd, stale, deleted, target>>
  BY DEF Collect, diskVars, mountVars
<1>2. PICK got \in SUBSET {f \in Files : knote[f].flags # {}} :
          /\ out' = [f \in Files |-> IF f \in got THEN knote[f].flags ELSE {}]
          /\ knote' = [f \in Files |-> IF f \in got THEN Unarmed
                                       ELSE knote[f]]
  BY DEF Collect
<1>3. Types'
  <2>1. Unarmed \in [inode : Nat, flags : SUBSET Flags]
    BY DEF Unarmed, None
  <2>2. \A f \in Files : knote[f] \in [inode : Nat, flags : SUBSET Flags]
    BY ReloadFacts
  <2>3. \A f \in Files : knote[f].flags \in SUBSET Flags
    BY <2>2
  <2>4. /\ knote' \in [Files -> [inode : Nat, flags : SUBSET Flags]]
        /\ out' \in [Files -> SUBSET Flags]
    BY <1>2, <2>1, <2>2, <2>3
  <2> QED BY <1>1, <2>4 DEF ReloadInv, Types
<1>4. \A f \in Files :
        /\ out[f] = {}
        /\ IF f \in got
           THEN out'[f] = knote[f].flags /\ out'[f] # {} /\ knote'[f] = Unarmed
                /\ knote'[f].flags = {}
           ELSE out'[f] = {} /\ knote'[f] = knote[f]
  BY <1>1, <1>2 DEF ReloadInv, PollBegins, Unarmed
<1>5. NewInodes'
  BY <1>1, <1>4 DEF ReloadInv, NewInodes
<1>6. Deletions'
  BY <1>1, <1>4 DEF ReloadInv, Deletions
<1>7. PollBegins' /\ Reloading' /\ ReplacedAtOnce' /\ EventsFit'
  BY <1>1 DEF ReloadInv, PollBegins, Reloading, ReplacedAtOnce, EventsFit
<1> QED BY <1>3, <1>5, <1>6, <1>7 DEF ReloadInv

(* If the volume has one file, what it reports as opened again is that     *)
(* file, and nothing if nothing was opened.                                *)
LEMMA ReopenedOnly ==
    /\ Reopenable = {} => Reopened = <<>>
    /\ Reopenable = {0} => Reopened = <<0>>
<1>1. ASSUME Reopenable = {} PROVE Reopened = <<>>
  <2>1. Cardinality({}) = 0
    BY FS_EmptySet
  <2>2. \A s \in SetToSeqs({}) : s = <<>>
    BY <2>1 DEF SetToSeqs
  <2>3. <<>> \in SetToSeqs({})
    BY <2>1 DEF SetToSeqs
  <2>4. InOrder({}) \in SetToSeqs({})
    <3>1. \A i, j \in DOMAIN <<>> : i < j => <<>>[i] < <<>>[j]
      OBVIOUS
    <3> QED BY <2>3, <3>1 DEF InOrder
  <2>5. InOrder({}) = <<>>
    BY <2>2, <2>4
  <2> QED BY <1>1, <2>5 DEF Reopened
<1>2. ASSUME Reopenable = {0} PROVE Reopened = <<0>>
  <2>1. Cardinality({0}) = 1
    BY FS_Singleton
  <2>2. ASSUME NEW s \in SetToSeqs({0}) PROVE s = <<0>>
    <3>1. s \in [1 .. 1 -> {0}]
      BY <2>1, <2>2 DEF SetToSeqs
    <3> QED BY <3>1
  <2>3. <<0>> \in SetToSeqs({0})
    <3>1. <<0>> \in [1 .. 1 -> {0}] /\ \A i, j \in 1 .. 1 : ~(i # j)
      OBVIOUS
    <3> QED BY <2>1, <3>1 DEF SetToSeqs
  <2>4. InOrder({0}) \in SetToSeqs({0})
    <3>1. \A i, j \in DOMAIN <<0>> : i < j => <<0>>[i] < <<0>>[j]
      OBVIOUS
    <3> QED BY <2>3, <3>1 DEF InOrder
  <2>5. InOrder({0}) = <<0>>
    BY <2>2, <2>4
  <2>6. Front(<<0>>) = <<>> /\ <<0>> # <<>> /\ <<0>> \o <<>> = <<0>>
    BY DEF Front
  <2> QED BY <1>2, <2>5, <2>6 DEF Reopened
<1> QED BY <1>1, <1>2

LEMMA OneReopened ==
    ASSUME FileCount = 1
    PROVE  /\ Files = {0}
           /\ Reopenable = {} \/ Reopenable = {0}
  BY DEF Files, Reopenable

(* What opening the files again does, one by one.                          *)
LEMMA ReopenFacts ==
    ASSUME ReloadInv, Reopen, UNCHANGED <<disk, edits, out, target>>,
           events' \in Seq(Event),
           \/ pc = "reopen" /\ pc' = "note"
           \/ pc = "reopen again" /\ pc' = "polled"
    PROVE  /\ \A f \in Files :
                IF f \in Reopenable
                THEN /\ fd'[f] = disk[f] /\ stale'[f] /\ ~deleted'[f]
                     /\ knote'[f] = Unarmed /\ deleted[f] /\ disk[f] # None
                ELSE /\ fd'[f] = fd[f] /\ stale'[f] = stale[f]
                     /\ deleted'[f] = deleted[f] /\ knote'[f] = knote[f]
           /\ Types' /\ NewInodes' /\ Deletions'
<1>1. \A f \in Files :
        IF f \in Reopenable
        THEN /\ fd'[f] = disk[f] /\ stale'[f] /\ ~deleted'[f]
             /\ knote'[f] = Unarmed /\ deleted[f] /\ disk[f] # None
        ELSE /\ fd'[f] = fd[f] /\ stale'[f] = stale[f]
             /\ deleted'[f] = deleted[f] /\ knote'[f] = knote[f]
  BY DEF Reopen, Reopenable, ReloadInv, Types
<1>2. Types'
  <2>1. Unarmed \in [inode : Nat, flags : SUBSET Flags]
    BY DEF Unarmed, None
  <2>2. knote' \in [Files -> [inode : Nat, flags : SUBSET Flags]]
    BY <2>1 DEF Reopen, ReloadInv, Types
  <2>3. /\ fd' \in [Files -> Nat]
        /\ stale' \in [Files -> BOOLEAN] /\ deleted' \in [Files -> BOOLEAN]
    BY DEF Reopen, ReloadInv, Types
  <2> QED BY <2>2, <2>3 DEF ReloadInv, Types
<1>3. NewInodes'
  BY <1>1 DEF ReloadInv, NewInodes
<1>4. Deletions'
  <2>1. Unarmed.flags = {}
    BY DEF Unarmed
  <2> QED BY <1>1, <2>1 DEF ReloadInv, Deletions
<1> QED BY <1>1, <1>2, <1>3, <1>4

LEMMA ReopenEarlierStep ==
    ASSUME Harmless, ReloadInv, ReopenEarlier
    PROVE  ReloadInv'
<1>1. /\ pc = "reopen" /\ pc' = "note" /\ Reopen
      /\ UNCHANGED <<disk, edits, out, target>>
      /\ events' = [i \in DOMAIN Reopened |-> [file |-> Reopened[i],
                                               kind |-> "create"]]
  BY DEF ReopenEarlier, diskVars
<1>2. \/ Reopenable = {} /\ events' = <<>>
      \/ /\ Reopenable = {0} /\ Files = {0} /\ FileCount = 1
         /\ events' = <<[file |-> 0, kind |-> "create"]>>
  <2>1. CASE Reopenable = {}
    BY <1>1, <2>1, ReopenedOnly
  <2>2. CASE Reopenable # {}
    <3>1. \A f \in Files : deleted[f] => "remove" \in EditOps
      BY <1>1 DEF ReloadInv, ReplacedAtOnce
    <3>2. FileCount = 1
      BY <2>2, <3>1 DEF Harmless, Reopenable
    <3>3. Reopenable = {0} /\ Files = {0} /\ Reopened = <<0>>
      BY <2>2, <3>2, OneReopened, ReopenedOnly
    <3> QED BY <1>1, <3>2, <3>3
  <2> QED BY <2>1, <2>2
<1>3. events' \in Seq(Event)
  <2>1. CASE events' = <<>>
    BY <2>1
  <2>2. CASE events' # <<>>
    <3>1. [file |-> 0, kind |-> "create"] \in Event
      BY <1>2, <2>2 DEF Event
    <3>2. \A e \in Event : <<e>> \in Seq(Event)
      OBVIOUS
    <3> QED BY <1>2, <2>2, <3>1, <3>2
  <2> QED BY <2>1, <2>2
<1>4. /\ \A f \in Files :
           IF f \in Reopenable
           THEN stale'[f] /\ ~deleted'[f] /\ deleted[f]
           ELSE deleted'[f] = deleted[f]
      /\ Types' /\ NewInodes' /\ Deletions'
  BY <1>1, <1>3, ReopenFacts
<1>5. PollBegins' /\ Reloading'
  BY <1>1 DEF ReloadInv, PollBegins, Reloading
<1>6. EventsFit'
  <2>1. CASE events' = <<>>
    BY <2>1 DEF EventsFit
  <2>2. CASE events' # <<>>
    <3>1. /\ DOMAIN events' = {1}
          /\ events'[1].file = 0 /\ events'[1].kind = "create"
      BY <1>2, <2>2
    <3>2. 0 \in Files /\ 0 \in Reopenable
      BY <1>2, <2>2
    <3>3. stale'[0] /\ ~deleted'[0] /\ out'[0] = {}
      BY <1>1, <1>4, <3>2 DEF ReloadInv, Deletions
    <3> QED BY <1>1, <3>1, <3>3 DEF EventsFit
  <2> QED BY <2>1, <2>2
<1>7. ReplacedAtOnce'
  BY <1>1, <1>4 DEF ReloadInv, ReplacedAtOnce
<1> QED BY <1>4, <1>5, <1>6, <1>7 DEF ReloadInv

(* What the concatenation of two sequences is made of.                     *)
LEMMA Concatenated ==
    ASSUME NEW T, NEW a \in Seq(T), NEW b \in Seq(T),
           NEW m \in Nat, m = Len(a), NEW n \in Nat, n = Len(b),
           NEW c, c = a \o b
    PROVE  /\ c \in Seq(T) /\ DOMAIN c = 1 .. m + n
           /\ \A i \in 1 .. m : c[i] = a[i]
           /\ \A i \in 1 .. n : c[m + i] = b[i]
           /\ \A i \in 1 .. m + n : i \in 1 .. m \/ \E k \in 1 .. n : i = m + k
<1>1. c \in Seq(T) /\ Len(c) = m + n
  OBVIOUS
<1>2. \A i \in 1 .. m : c[i] = a[i]
  OBVIOUS
<1>3. ASSUME NEW i \in 1 .. n PROVE c[m + i] = b[i]
  <2>1. m + i \in 1 .. m + n /\ ~(m + i <= m) /\ (m + i) - m = i
    OBVIOUS
  <2> QED BY <2>1
<1>4. ASSUME NEW i \in 1 .. m + n, i \notin 1 .. m
      PROVE  \E k \in 1 .. n : i = m + k
  <2>1. i - m \in 1 .. n /\ i = m + (i - m)
    BY <1>4
  <2> QED BY <2>1
<1> QED BY <1>1, <1>2, <1>3, <1>4

LEMMA NoteEventsStep ==
    ASSUME Harmless, ReloadInv, NoteEvents
    PROVE  ReloadInv'
<1>. DEFINE S == {f \in Files : out[f] # {}}
<1>1. /\ pc = "note" /\ pc' = "reopen again"
      /\ UNCHANGED <<disk, edits, knote, fd, target>>
      /\ deleted' = [f \in Files |-> deleted[f] \/ "delete" \in out[f]]
      /\ stale' = [f \in Files |-> stale[f] \/ out[f] = {"write"}]
      /\ out' = [f \in Files |-> {}]
  BY DEF NoteEvents, diskVars
<1>2. PICK s \in SetToSeqs(S) :
         events' = events \o [i \in DOMAIN s |-> [file |-> s[i],
                                                  kind |-> Kind(s[i])]]
  BY DEF NoteEvents
<1>3. PICK n \in Nat : s \in [1 .. n -> S]
                       /\ \A i, j \in 1 .. n : s[i] = s[j] => i = j
  BY FilesFinite
<1>. DEFINE q == [i \in 1 .. n |-> [file |-> s[i], kind |-> Kind(s[i])]]
<1>4. \A f : Kind(f) \in {"delete", "modify"}
  BY DEF Kind
<1>5. /\ \A i \in 1 .. n : /\ s[i] \in Files /\ out[s[i]] # {}
                           /\ q[i] = [file |-> s[i], kind |-> Kind(s[i])]
                           /\ q[i] \in Event
      /\ q \in Seq(Event) /\ Len(q) = n
  <2>1. \A i \in 1 .. n : s[i] \in Files /\ out[s[i]] # {}
    BY <1>3
  <2>2. \A i \in 1 .. n : [file |-> s[i], kind |-> Kind(s[i])] \in Event
    BY <1>4, <2>1 DEF Event
  <2>3. q \in Seq(Event) /\ Len(q) = n
    BY <2>2
  <2> QED BY <2>1, <2>2, <2>3
<1>6. events' = events \o q
  BY <1>2, <1>3
<1>7. PICK m \in Nat : m = Len(events) /\ DOMAIN events = 1 .. m
                       /\ events \in Seq(Event)
  <2>1. events \in Seq(Event)
    BY DEF ReloadInv, Types
  <2> QED BY <2>1
<1>. HIDE DEF S, q
<1>8. /\ events' \in Seq(Event) /\ DOMAIN events' = 1 .. m + n
      /\ \A i \in 1 .. m : events'[i] = events[i]
      /\ \A i \in 1 .. n : events'[m + i] = q[i]
      /\ \A i \in 1 .. m + n : i \in 1 .. m \/ \E k \in 1 .. n : i = m + k
  <2>1. PICK a : a = events
    OBVIOUS
  <2>2. PICK b : b = q
    OBVIOUS
  <2>3. /\ a \in Seq(Event) /\ b \in Seq(Event)
        /\ m = Len(a) /\ n = Len(b)
    BY <1>5, <1>7, <2>1, <2>2
  <2>4. PICK c : c = a \o b
    OBVIOUS
  <2>5. c \in Seq(Event) /\ DOMAIN c = 1 .. m + n
    BY <2>3, <2>4, Concatenated, SMTT(30)
  <2>6. \A i \in 1 .. m : c[i] = a[i]
    BY <2>3, <2>4, Concatenated, SMTT(30)
  <2>7. \A i \in 1 .. n : c[m + i] = b[i]
    BY <2>3, <2>4, Concatenated, SMTT(30)
  <2>8. \A i \in 1 .. m + n : i \in 1 .. m \/ \E k \in 1 .. n : i = m + k
    <3>1. m \in Nat /\ n \in Nat
      OBVIOUS
    <3>2. ASSUME NEW i \in 1 .. m + n, i \notin 1 .. m
          PROVE  \E k \in 1 .. n : i = m + k
      <4>1. i - m \in 1 .. n /\ i = m + (i - m)
        BY <3>1, <3>2
      <4> QED BY <4>1
    <3> QED BY <3>2
  <2> QED BY <1>6, <2>1, <2>2, <2>4, <2>5, <2>6, <2>7, <2>8
<1>9. \A i \in 1 .. m + n : i \in 1 .. m \/ \E k \in 1 .. n : i = m + k
  BY <1>8
<1>10. \A i \in 1 .. m : LET e == events[i]
                         IN  /\ e.file \in Files /\ out[e.file] = {}
                             /\ e.kind = "create" /\ stale[e.file]
                             /\ ~deleted[e.file]
  <2>1. \A i \in 1 .. m : events[i] \in Event
    BY <1>7
  <2>2. \A i \in 1 .. m : events[i].file \in Files
    BY <2>1 DEF Event
  <2> QED BY <1>1, <1>7, <2>2 DEF ReloadInv, EventsFit
<1>11. Types'
  BY <1>1, <1>8 DEF ReloadInv, Types
<1>12. NewInodes' /\ PollBegins' /\ Reloading'
  BY <1>1 DEF ReloadInv, NewInodes, PollBegins, Reloading
<1>13. Deletions'
  <2>1. \A f \in Files : knote[f] = Unarmed => knote[f].flags = {}
    BY DEF Unarmed
  <2> QED BY <1>1, <2>1 DEF ReloadInv, Deletions
<1>14. ReplacedAtOnce'
  BY <1>1 DEF ReloadInv, ReplacedAtOnce
<1>15. EventsFit'
  <2>1. ASSUME NEW i \in 1 .. m
        PROVE  LET e == events'[i]
               IN  /\ e.kind = "create"
                   /\ stale'[e.file] /\ ~deleted'[e.file]
    BY <1>1, <1>8, <1>10
  <2>2. ASSUME NEW i \in 1 .. n
        PROVE  LET e == events'[m + i]
               IN  /\ e.file = s[i]
                   /\ e.kind # "delete" => stale'[e.file] /\ ~deleted'[e.file]
                   /\ e.kind = "delete" => deleted'[e.file]
    <3>1. /\ events'[m + i].file = s[i] /\ events'[m + i].kind = Kind(s[i])
          /\ s[i] \in Files /\ out[s[i]] # {}
      <4>1. events'[m + i] = q[i]
        BY <1>8
      <4>2. /\ q[i] = [file |-> s[i], kind |-> Kind(s[i])]
            /\ s[i] \in Files /\ out[s[i]] # {}
        BY <1>5
      <4> QED BY <4>1, <4>2
    <3>2. out[s[i]] \subseteq {"write", "delete"}
      BY <3>1, ReloadFacts DEF Flags
    <3>3. ~deleted[s[i]]
      BY <3>1 DEF ReloadInv, Deletions
    <3>4. CASE "delete" \in out[s[i]]
      BY <1>1, <3>1, <3>4 DEF Kind
    <3>5. CASE "delete" \notin out[s[i]]
      <4>1. out[s[i]] = {"write"}
        BY <3>1, <3>2, <3>5
      <4> QED BY <1>1, <3>1, <3>3, <3>5, <4>1 DEF Kind
    <3> QED BY <3>4, <3>5
  <2>3. ASSUME NEW i \in DOMAIN events', NEW j \in DOMAIN events',
               events'[i].file = events'[j].file
        PROVE  i = j
    <3>1. CASE i \in 1 .. m /\ j \in 1 .. m
      <4>1. events[i].file = events[j].file
        BY <1>8, <2>3, <3>1
      <4> QED BY <1>7, <3>1, <4>1 DEF ReloadInv, EventsFit
    <3>2. CASE i \in 1 .. m /\ \E k \in 1 .. n : j = m + k
      <4>1. PICK k \in 1 .. n : j = m + k
        BY <3>2
      <4>2. out[events[i].file] = {} /\ events'[i] = events[i]
        BY <1>8, <1>10, <3>2
      <4>3. out[s[k]] # {} /\ events'[j].file = s[k]
        BY <1>5, <2>2, <4>1
      <4> QED BY <2>3, <4>2, <4>3
    <3>3. CASE j \in 1 .. m /\ \E k \in 1 .. n : i = m + k
      <4>1. PICK k \in 1 .. n : i = m + k
        BY <3>3
      <4>2. out[events[j].file] = {} /\ events'[j] = events[j]
        BY <1>8, <1>10, <3>3
      <4>3. out[s[k]] # {} /\ events'[i].file = s[k]
        BY <1>5, <2>2, <4>1
      <4> QED BY <2>3, <4>2, <4>3
    <3>4. CASE /\ \E k \in 1 .. n : i = m + k
               /\ \E k \in 1 .. n : j = m + k
      <4>1. PICK k \in 1 .. n : i = m + k
        BY <3>4
      <4>2. PICK l \in 1 .. n : j = m + l
        BY <3>4
      <4>3. s[k] = s[l]
        BY <2>2, <2>3, <4>1, <4>2
      <4> QED BY <1>3, <4>1, <4>2, <4>3
    <3> QED BY <1>8, <1>9, <2>3, <3>1, <3>2, <3>3, <3>4
  <2>4. ASSUME NEW i \in DOMAIN events'
        PROVE  LET e == events'[i]
               IN  /\ e.kind # "delete" => stale'[e.file] /\ ~deleted'[e.file]
                   /\ e.kind = "delete" => deleted'[e.file]
    <3>1. CASE i \in 1 .. m
      BY <2>1, <3>1
    <3>2. CASE \E k \in 1 .. n : i = m + k
      <4>1. PICK k \in 1 .. n : i = m + k
        BY <3>2
      <4> QED BY <2>2, <4>1
    <3>3. i \in 1 .. m \/ \E k \in 1 .. n : i = m + k
      BY <1>8, <1>9
    <3> QED BY <3>1, <3>2, <3>3
  <2> QED BY <1>1, <2>3, <2>4 DEF EventsFit
<1> QED BY <1>11, <1>12, <1>13, <1>14, <1>15 DEF ReloadInv

LEMMA EventsTyped ==
    ASSUME ReloadInv
    PROVE  \A i \in DOMAIN events : events[i] \in Event
<1>1. events \in Seq(Event)
  BY DEF ReloadInv, Types
<1>2. PICK m \in Nat : m = Len(events) /\ DOMAIN events = 1 .. m
                       /\ \A i \in 1 .. m : events[i] \in Event
  BY <1>1
<1> QED BY <1>2

LEMMA EmptyToSet == ToSet(<<>>) = {}
<1>1. ASSUME NEW s \in Seq(Nat), Len(s) = 0
      PROVE  ToSet(s) = {}
  <2>1. DOMAIN s = 1 .. 0
    BY <1>1
  <2> QED BY <2>1 DEF ToSet
<1>2. <<>> \in Seq(Nat) /\ Len(<<>>) = 0
  OBVIOUS
<1> QED BY <1>1, <1>2, Zenon

(* A deletion that is turned into a modification is of a file that was     *)
(* opened again.                                                           *)
LEMMA ConvertedWasReopened ==
    ASSUME Harmless, ReloadInv, pc = "reopen again",
           NEW i, i \in DOMAIN events, events[i].kind = "delete",
           events[i].file \in ToSet(Reopened)
    PROVE  events[i].file \in Reopenable
<1>1. PICK f : f = events[i].file
  OBVIOUS
<1>2. f \in Files
  <2>1. events[i] \in Event
    BY EventsTyped
  <2> QED BY <1>1, <2>1 DEF Event
<1>3. deleted[f]
  BY <1>1 DEF ReloadInv, EventsFit
<1>4. CASE "remove" \notin EditOps
  BY <1>1, <1>2, <1>3, <1>4 DEF ReloadInv, ReplacedAtOnce, Reopenable
<1>5. CASE FileCount = 1
  <2>1. Files = {0} /\ (Reopenable = {} \/ Reopenable = {0})
    BY <1>5, OneReopened
  <2>2. ToSet(<<>>) = {}
    BY EmptyToSet
  <2> QED BY <1>1, <1>2, <2>1, <2>2, ReopenedOnly
<1> QED BY <1>4, <1>5 DEF Harmless

LEMMA ReopenDeletedStep ==
    ASSUME Harmless, ReloadInv, ReopenDeleted
    PROVE  ReloadInv'
<1>1. /\ pc = "reopen again" /\ pc' = "polled" /\ Reopen
      /\ UNCHANGED <<disk, edits, out, target>>
      /\ events' = [i \in DOMAIN events |->
                      IF /\ events[i].kind = "delete"
                         /\ events[i].file \in ToSet(Reopened)
                      THEN [events[i] EXCEPT !.kind = "modify"]
                      ELSE events[i]]
  BY DEF ReopenDeleted, diskVars
<1>2. PICK m \in Nat : m = Len(events) /\ DOMAIN events = 1 .. m
                       /\ \A i \in 1 .. m : events[i] \in Event
  <2>1. events \in Seq(Event)
    BY DEF ReloadInv, Types
  <2> QED BY <2>1
<1>3. ASSUME NEW e \in Event
      PROVE  /\ [e EXCEPT !.kind = "modify"] \in Event
             /\ [e EXCEPT !.kind = "modify"].file = e.file
             /\ [e EXCEPT !.kind = "modify"].kind = "modify"
             /\ e.file \in Files
  BY DEF Event
<1>4. \A i \in 1 .. m : events'[i] =
         IF /\ events[i].kind = "delete"
            /\ events[i].file \in ToSet(Reopened)
         THEN [events[i] EXCEPT !.kind = "modify"]
         ELSE events[i]
  BY <1>1, <1>2
<1>5. DOMAIN events' = 1 .. m
  BY <1>1, <1>2
<1>6. \A i \in 1 .. m :
         /\ events[i].file \in Files
         /\ events'[i] \in Event /\ events'[i].file = events[i].file
         /\ \/ events'[i].kind = events[i].kind
            \/ events'[i].kind = "modify" /\ events[i].file \in Reopenable
  <2>1. SUFFICES ASSUME NEW i \in 1 .. m
                 PROVE  /\ events[i].file \in Files
                        /\ events'[i] \in Event
                        /\ events'[i].file = events[i].file
                        /\ \/ events'[i].kind = events[i].kind
                           \/ /\ events'[i].kind = "modify"
                              /\ events[i].file \in Reopenable
    OBVIOUS
  <2>2. CASE /\ events[i].kind = "delete"
             /\ events[i].file \in ToSet(Reopened)
    <3>1. events'[i] = [events[i] EXCEPT !.kind = "modify"]
      BY <1>4, <2>2
    <3>2. events[i].file \in Reopenable
      BY <1>1, <1>2, <2>2, ConvertedWasReopened
    <3>3. events[i] \in Event
      BY <1>2
    <3> QED BY <1>3, <3>1, <3>2, <3>3
  <2>3. CASE ~(/\ events[i].kind = "delete"
               /\ events[i].file \in ToSet(Reopened))
    BY <1>2, <1>3, <1>4, <2>3
  <2> QED BY <2>2, <2>3
<1>7. events' \in Seq(Event)
  <2>1. PICK e : e = events'
    OBVIOUS
  <2>2. e = [i \in 1 .. m |-> e[i]]
    BY <1>1, <1>2, <2>1
  <2>3. \A i \in 1 .. m : e[i] \in Event
    BY <1>6, <2>1
  <2>4. e \in Seq(Event)
    BY <2>2, <2>3
  <2> QED BY <2>1, <2>4
<1>8. /\ \A f \in Files :
           IF f \in Reopenable
           THEN /\ fd'[f] = disk[f] /\ stale'[f] /\ ~deleted'[f]
                /\ knote'[f] = Unarmed /\ deleted[f] /\ disk[f] # None
           ELSE /\ fd'[f] = fd[f] /\ stale'[f] = stale[f]
                /\ deleted'[f] = deleted[f] /\ knote'[f] = knote[f]
      /\ Types' /\ NewInodes' /\ Deletions'
  BY <1>1, <1>7, ReopenFacts
<1>9. PollBegins' /\ Reloading'
  BY <1>1 DEF ReloadInv, PollBegins, Reloading
<1>10. ReplacedAtOnce'
  <2>1. ASSUME "remove" \notin EditOps, NEW f \in Files
        PROVE  disk'[f] # None /\ ~deleted'[f]
    <3>1. disk[f] # None
      BY <2>1 DEF ReloadInv, ReplacedAtOnce
    <3>2. deleted[f] => f \in Reopenable
      BY <3>1 DEF Reopenable
    <3> QED BY <1>1, <1>8, <3>1, <3>2
  <2> QED BY <2>1 DEF ReplacedAtOnce
<1>11. EventsFit'
  <2>1. \A i, j \in 1 .. m : events'[i].file = events'[j].file => i = j
    <3> SUFFICES ASSUME NEW i \in 1 .. m, NEW j \in 1 .. m,
                        events'[i].file = events'[j].file
                 PROVE  i = j
      OBVIOUS
    <3>1. events[i].file = events[j].file
      BY <1>6
    <3>2. i \in DOMAIN events /\ j \in DOMAIN events
      BY <1>2
    <3> QED BY <3>1, <3>2 DEF ReloadInv, EventsFit
  <2>2. ASSUME NEW i \in 1 .. m, events'[i].kind # "delete"
        PROVE  stale'[events'[i].file] /\ ~deleted'[events'[i].file]
    <3>1. PICK f \in Files : f = events[i].file /\ f = events'[i].file
      BY <1>6
    <3>2. CASE f \in Reopenable
      BY <1>8, <3>1, <3>2
    <3>3. CASE f \notin Reopenable
      <4>1. events[i].kind # "delete"
        BY <1>6, <2>2, <3>1, <3>3
      <4>2. stale[f] /\ ~deleted[f]
        BY <1>2, <3>1, <4>1 DEF ReloadInv, EventsFit
      <4> QED BY <1>8, <3>1, <3>3, <4>2
    <3> QED BY <3>2, <3>3
  <2> QED BY <1>1, <1>5, <2>1, <2>2 DEF EventsFit
<1> QED BY <1>8, <1>9, <1>10, <1>11 DEF ReloadInv

(* A file is taken to be reloaded if its event says so.                    *)
LEMMA HandleEventStep ==
    ASSUME ReloadInv, HandleEvent
    PROVE  ReloadInv'
<1>1. /\ pc = "polled" /\ events # <<>> /\ events' = Tail(events)
      /\ UNCHANGED <<disk, edits, fd, knote, stale, deleted, out>>
      /\ IF events[1].kind = "delete"
         THEN UNCHANGED <<pc, target>>
         ELSE pc' = "verify" /\ target' = events[1].file
  BY DEF HandleEvent, diskVars, mountVars
<1>2. PICK m \in Nat : m = Len(events) /\ DOMAIN events = 1 .. m
                       /\ events \in Seq(Event)
  <2>1. events \in Seq(Event)
    BY DEF ReloadInv, Types
  <2> QED BY <2>1
<1>3. m # 0
  BY <1>1, <1>2
<1>4. /\ events' \in Seq(Event) /\ DOMAIN events' = 1 .. m - 1
      /\ \A i \in 1 .. m - 1 : events'[i] = events[i + 1]
  BY <1>1, <1>2, <1>3
<1>5. 1 \in 1 .. m /\ \A i \in 1 .. m - 1 : i + 1 \in 1 .. m /\ i + 1 # 1
  BY <1>2, <1>3
<1>6. events[1] \in Event /\ events[1].file \in Files
  <2>1. events[1] \in Event
    BY <1>2, <1>5
  <2> QED BY <2>1 DEF Event
<1>7. Types'
  BY <1>1, <1>4, <1>6 DEF ReloadInv, Types
<1>8. NewInodes' /\ Deletions'
  BY <1>1 DEF ReloadInv, NewInodes, Deletions
<1>9. PollBegins' /\ ReplacedAtOnce'
  BY <1>1 DEF ReloadInv, PollBegins, ReplacedAtOnce
<1>10. Reloading'
  BY <1>1, <1>2, <1>5 DEF ReloadInv, EventsFit, Reloading
<1>11. EventsFit'
  <2>1. \A i, j \in 1 .. m : events[i].file = events[j].file => i = j
    BY <1>2 DEF ReloadInv, EventsFit
  <2>2. ASSUME NEW i \in 1 .. m - 1, NEW j \in 1 .. m - 1,
               events'[i].file = events'[j].file
        PROVE  i = j
    <3>1. i + 1 = j + 1
      BY <1>4, <1>5, <2>1, <2>2
    <3> QED BY <1>2, <3>1
  <2>3. ASSUME NEW i \in 1 .. m - 1
        PROVE  /\ events'[i].kind # "delete"
                    => stale[events'[i].file] /\ ~deleted[events'[i].file]
               /\ events'[i].file # events[1].file
    <3>1. events'[i] = events[i + 1] /\ i + 1 \in 1 .. m /\ i + 1 # 1
      BY <1>4, <1>5
    <3> QED BY <1>2, <1>5, <2>1, <3>1 DEF ReloadInv, EventsFit
  <2> QED BY <1>1, <1>4, <2>2, <2>3 DEF EventsFit
<1> QED BY <1>7, <1>8, <1>9, <1>10, <1>11 DEF ReloadInv

(* The VERIFY of fs_file_reload.                                           *)
LEMMA VerifyStaleStep ==
    ASSUME ReloadInv, VerifyStale
    PROVE  ReloadInv'
<1>1. /\ pc = "verify" /\ stale[target]
      /\ UNCHANGED <<disk, edits, fd, knote, stale, deleted, out, events,
                     target>>
  BY DEF VerifyStale, diskVars, mountVars, pollVars, ReloadInv, Reloading
<1>2. pc' = "open"
  BY <1>1 DEF VerifyStale
<1>3. events' \in Seq(Event)
  BY <1>1 DEF ReloadInv, Types
<1> QED BY <1>1, <1>2, <1>3, ReloadKept

LEMMA OpenFileStep ==
    ASSUME ReloadInv, OpenFile("polled")
    PROVE  ReloadInv'
<1>1. /\ pc = "open" /\ pc' \in {"map", "polled"}
      /\ UNCHANGED <<disk, edits, stale, deleted, out, events, target>>
      /\ fd' = [fd EXCEPT ![target] = disk[target]]
      /\ knote' = [knote EXCEPT ![target] = Unarmed]
  BY DEF OpenFile, diskVars, pollVars
<1>2. target \in Files /\ ~deleted[target] /\ out[target] = {}
  BY <1>1 DEF ReloadInv, Types, Reloading, PollBegins
<1>3. Types'
  <2>1. Unarmed \in [inode : Nat, flags : SUBSET Flags]
    BY DEF Unarmed, None
  <2> QED BY <1>1, <1>2, <2>1 DEF ReloadInv, Types
<1>4. \A f \in Files :
         IF f = target THEN fd'[f] = disk[f] /\ knote'[f] = Unarmed
                            /\ knote'[f].flags = {}
         ELSE fd'[f] = fd[f] /\ knote'[f] = knote[f]
  BY <1>1, <1>2 DEF ReloadInv, Types, Unarmed
<1>5. NewInodes'
  BY <1>1, <1>4 DEF ReloadInv, NewInodes
<1>6. Deletions'
  BY <1>1, <1>2, <1>4 DEF ReloadInv, Deletions
<1>7. PollBegins' /\ Reloading' /\ ReplacedAtOnce' /\ EventsFit'
  BY <1>1 DEF ReloadInv, PollBegins, Reloading, ReplacedAtOnce, EventsFit
<1> QED BY <1>3, <1>5, <1>6, <1>7 DEF ReloadInv

(* The file is no longer stale, but no other event of it is left.          *)
LEMMA MapFileStep ==
    ASSUME ReloadInv, MapFile("polled", "polled")
    PROVE  ReloadInv'
<1>1. /\ pc = "map" /\ pc' = "polled"
      /\ UNCHANGED <<disk, edits, fd, knote, out, events, target>>
  BY DEF MapFile, diskVars, pollVars
<1>2. CASE UNCHANGED <<stale, deleted>>
  <2>1. events' \in Seq(Event)
    BY <1>1 DEF ReloadInv, Types
  <2> QED BY <1>1, <1>2, <2>1, ReloadKept
<1>3. CASE /\ stale' = [stale EXCEPT ![target] = FALSE]
           /\ deleted' = [deleted EXCEPT ![target] = FALSE]
  <2>1. target \in Files
    BY DEF ReloadInv, Types
  <2>2. Types'
    BY <1>1, <1>3, <2>1 DEF ReloadInv, Types
  <2>3. \A f \in Files :
           /\ deleted'[f] => deleted[f]
           /\ f # target => stale'[f] = stale[f] /\ deleted'[f] = deleted[f]
    BY <1>3, <2>1 DEF ReloadInv, Types
  <2>4. NewInodes' /\ Deletions'
    BY <1>1, <2>3 DEF ReloadInv, NewInodes, Deletions
  <2>5. PollBegins' /\ Reloading'
    BY <1>1 DEF ReloadInv, PollBegins, Reloading
  <2>6. ReplacedAtOnce'
    BY <1>1, <2>3 DEF ReloadInv, ReplacedAtOnce
  <2>7. EventsFit'
    <3>1. \A i \in DOMAIN events : events[i].file \in Files
      <4>1. events \in Seq(Event)
        BY DEF ReloadInv, Types
      <4>2. \A i \in DOMAIN events : events[i] \in Event
        BY <4>1
      <4> QED BY <4>2 DEF Event
    <3> QED BY <1>1, <2>3, <3>1 DEF ReloadInv, EventsFit
  <2> QED BY <2>2, <2>4, <2>5, <2>6, <2>7 DEF ReloadInv
<1> QED BY <1>2, <1>3 DEF MapFile

(* An edit makes a new inode at most, and adds to what is reported of a    *)
(* file only if the file that is open is the one on disk.                  *)
LEMMA EditFile ==
    ASSUME ReloadInv, NEW f \in Files, Edit(f)
    PROVE  ReloadInv'
<1>1. /\ edits' = edits + 1
      /\ UNCHANGED <<fd, stale, deleted, pc, out, events, target>>
  BY DEF Edit, mountVars, pollVars
<1>2. /\ disk[f] \in Nat /\ fd[f] \in Nat /\ edits \in Nat
      /\ fd[f] <= FileCount + edits
      /\ disk \in [Files -> Nat]
      /\ knote \in [Files -> [inode : Nat, flags : SUBSET Flags]]
  BY ReloadFacts DEF ReloadInv, Types
<1>3. /\ NewInode \in Nat /\ NewInode = FileCount + edits'
      /\ NewInode # fd[f] /\ NewInode # None
  BY <1>1, <1>2 DEF NewInode, None
<1>4. PICK d \in {disk[f], None, NewInode} :
         /\ disk' = [disk EXCEPT ![f] = d]
         /\ d = None => disk[f] = None \/ "remove" \in EditOps
         /\ d # disk[f] \/ disk[f] # None
         /\ d = disk[f] => knote' = knote \/ Post(f, "write")
         /\ d # disk[f] => \/ knote' = knote /\ disk[f] = None
                           \/ Post(f, "delete") /\ disk[f] # None
  <2>1. disk' = disk => disk' = [disk EXCEPT ![f] = disk[f]]
    BY <1>2
  <2>2. NewInode # disk[f]
    BY <1>2, <1>3, ReloadFacts DEF NewInode
  <2> QED BY <1>3, <2>1, <2>2 DEF Edit, None
<1>5. \A flag \in {"write", "delete"} : Post(f, flag) =>
         \/ knote' = knote
         \/ /\ knote[f].inode = disk[f]
            /\ knote' = [knote EXCEPT ![f].flags = @ \union {flag}]
  BY DEF Post
<1>6. PICK k \in [inode : Nat, flags : SUBSET Flags] :
         /\ knote' = [knote EXCEPT ![f] = k]
         /\ k.inode = knote[f].inode
         /\ \/ k = knote[f]
            \/ /\ knote[f].inode = disk[f] /\ disk[f] # None
               /\ k.flags = knote[f].flags \union {"write"} /\ d = disk[f]
            \/ /\ knote[f].inode = disk[f] /\ disk[f] # None
               /\ k.flags = knote[f].flags \union {"delete"} /\ d # disk[f]
  <2>1. CASE knote' = knote
    <3>1. knote' = [knote EXCEPT ![f] = knote[f]]
      BY <1>2, <2>1
    <3> QED BY <1>2, <3>1
  <2>2. ASSUME NEW flag \in {"write", "delete"},
               knote' = [knote EXCEPT ![f].flags = @ \union {flag}]
        PROVE  \E k \in [inode : Nat, flags : SUBSET Flags] :
                  /\ knote' = [knote EXCEPT ![f] = k]
                  /\ k.inode = knote[f].inode
                  /\ k.flags = knote[f].flags \union {flag}
    <3>1. PICK n : n = knote[f]
      OBVIOUS
    <3>2. n \in [inode : Nat, flags : SUBSET Flags] /\ flag \in Flags
      BY <1>2, <3>1 DEF Flags
    <3>3. PICK k : k = [n EXCEPT !.flags = n.flags \union {flag}]
      OBVIOUS
    <3>4. /\ k \in [inode : Nat, flags : SUBSET Flags]
          /\ k.inode = n.inode /\ k.flags = n.flags \union {flag}
      BY <3>2, <3>3
    <3>5. knote' = [knote EXCEPT ![f] = k]
      BY <1>2, <2>2, <3>1, <3>3
    <3> QED BY <3>1, <3>4, <3>5
  <2>3. CASE d = disk[f] /\ knote' # knote
    <3>1. /\ knote[f].inode = disk[f]
          /\ knote' = [knote EXCEPT ![f].flags = @ \union {"write"}]
          /\ disk[f] # None
      BY <1>4, <1>5, <2>3
    <3> QED BY <2>2, <2>3, <3>1
  <2>4. CASE d # disk[f] /\ knote' # knote
    <3>1. /\ knote[f].inode = disk[f]
          /\ knote' = [knote EXCEPT ![f].flags = @ \union {"delete"}]
          /\ disk[f] # None
      BY <1>4, <1>5, <2>4
    <3> QED BY <2>2, <2>4, <3>1
  <2> QED BY <2>1, <2>3, <2>4
<1>7. \A g \in Files : /\ disk'[g] = IF g = f THEN d ELSE disk[g]
                       /\ knote'[g] = IF g = f THEN k ELSE knote[g]
  BY <1>2, <1>4, <1>6
<1>8. Types'
  <2>1. d \in Nat
    BY <1>2, <1>3, <1>4 DEF None
  <2>2. disk' \in [Files -> Nat] /\ edits' \in Nat
    BY <1>1, <1>2, <1>4, <2>1
  <2>3. knote' \in [Files -> [inode : Nat, flags : SUBSET Flags]]
    BY <1>2, <1>6
  <2> QED BY <1>1, <2>2, <2>3 DEF ReloadInv, Types
<1>9. NewInodes'
  <2>1. SUFFICES ASSUME NEW g \in Files
                 PROVE  /\ disk'[g] <= FileCount + edits'
                        /\ fd[g] <= FileCount + edits'
                        /\ knote'[g] = Unarmed \/ knote'[g].inode = fd[g]
    BY <1>1 DEF NewInodes
  <2>2. /\ disk[g] \in Nat /\ fd[g] \in Nat
        /\ disk[g] <= FileCount + edits /\ fd[g] <= FileCount + edits
        /\ knote[g] = Unarmed \/ knote[g].inode = fd[g]
    BY ReloadFacts
  <2>3. disk'[g] <= FileCount + edits'
    <3>1. FileCount \in Nat /\ d <= FileCount + edits'
      BY <1>1, <1>2, <1>3, <1>4, ReloadFacts DEF None
    <3> QED BY <1>1, <1>2, <1>7, <2>2, <3>1
  <2>4. knote'[g] = Unarmed \/ knote'[g].inode = fd[g]
    <3>1. CASE g = f /\ k # knote[f]
      <4>1. knote[f].inode = disk[f] /\ disk[f] # None
        BY <1>6, <3>1
      <4>2. knote[f] # Unarmed
        BY <4>1 DEF Unarmed
      <4> QED BY <1>6, <1>7, <2>2, <3>1, <4>2
    <3>2. CASE ~(g = f /\ k # knote[f])
      BY <1>7, <2>2, <3>2
    <3> QED BY <3>1, <3>2
  <2>5. fd[g] <= FileCount + edits'
    BY <1>1, <1>2, <2>2
  <2> QED BY <2>3, <2>4, <2>5
<1>10. Deletions'
  <2>1. \A g \in Files \ {f} :
           disk'[g] = disk[g] /\ knote'[g] = knote[g]
    BY <1>7
  <2>2. disk'[f] = d /\ knote'[f] = k
    BY <1>7
  <2>3. CASE k = knote[f]
    <3>1. fd[f] # None /\ fd[f] # disk[f] => fd[f] # d
      BY <1>3, <1>4
    <3> QED BY <1>1, <2>1, <2>2, <2>3, <3>1 DEF ReloadInv, Deletions
  <2>4. CASE k # knote[f]
    <3>1. knote[f].inode = disk[f] /\ disk[f] # None
      BY <1>6, <2>4
    <3>2. knote[f] # Unarmed /\ fd[f] = disk[f]
      BY <3>1, ReloadFacts DEF Unarmed
    <3>3. ~deleted[f] /\ out[f] = {} /\ "delete" \notin knote[f].flags
      BY <3>2 DEF ReloadInv, Deletions
    <3>4. "delete" \in k.flags => d # disk[f]
      BY <1>6, <2>4, <3>3
    <3> QED BY <1>1, <2>1, <2>2, <3>1, <3>2, <3>3, <3>4
            DEF ReloadInv, Deletions
  <2> QED BY <2>3, <2>4
<1>11. PollBegins' /\ EventsFit' /\ Reloading'
  BY <1>1 DEF ReloadInv, PollBegins, EventsFit, Reloading
<1>12. ReplacedAtOnce'
  <2>1. "remove" \notin EditOps => d # None
    BY <1>4 DEF ReloadInv, ReplacedAtOnce
  <2> QED BY <1>1, <1>7, <2>1 DEF ReloadInv, ReplacedAtOnce
<1> QED BY <1>8, <1>9, <1>10, <1>11, <1>12 DEF ReloadInv

LEMMA ReloadInvInductive ==
    ASSUME Harmless, ReloadInv, [Next]_volumeVars
    PROVE  ReloadInv'
<1>1. CASE Poll
  BY <1>1, ArmStep, CollectStep, ReopenEarlierStep, NoteEventsStep,
     ReopenDeletedStep DEF Poll
<1>2. CASE NextFrame
  <2>1. /\ pc = "polled" /\ events = <<>> /\ pc' = "poll"
        /\ UNCHANGED <<disk, edits, fd, knote, stale, deleted, out, events,
                       target>>
    BY <1>2 DEF NextFrame, diskVars, mountVars, pollVars
  <2>2. events' \in Seq(Event)
    BY <2>1 DEF ReloadInv, Types
  <2> QED BY <2>1, <2>2, ReloadKept
<1>3. CASE HandleEvent \/ VerifyStale \/ OpenFile("polled")
           \/ MapFile("polled", "polled")
  BY <1>3, HandleEventStep, VerifyStaleStep, OpenFileStep, MapFileStep
<1>4. ASSUME NEW f \in Files, Edit(f) PROVE ReloadInv'
  BY <1>4, EditFile
<1>5. CASE UNCHANGED volumeVars
  <2>1. UNCHANGED <<disk, edits, fd, knote, stale, deleted, out, pc, events,
                    target>>
    BY <1>5 DEF volumeVars
  <2>2. events' \in Seq(Event)
    BY <2>1 DEF ReloadInv, Types
  <2> QED BY <2>1, <2>2, ReloadKept
<1> QED BY <1>1, <1>2, <1>3, <1>4, <1>5 DEF Next, Frame

(* ReloadInv holds throughout, whatever is edited and whichever open, map  *)
(* or kevent fails.                                                        *)
THEOREM ReloadInvariant ==
    ASSUME Harmless
    PROVE  Spec => []ReloadInv
<1>1. ReloadInv /\ [Next]_volumeVars => ReloadInv'
  BY ReloadInvInductive
<1> QED BY <1>1, InitReloadInv, PTL DEF Spec

(* The VERIFY of fs_file_reload holds in the frame loop, if one file is    *)
(* mounted or none is ever removed.  In sr_trap neither is so.             *)
THEOREM OnlyStaleReloaded ==
    ASSUME Harmless
    PROVE  Spec => []NeverTraps
<1>1. ReloadInv => NeverTraps
  BY DEF ReloadInv, Types, NeverTraps
<1> QED BY <1>1, ReloadInvariant, PTL
=============================================================================
