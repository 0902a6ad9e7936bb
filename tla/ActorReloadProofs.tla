------------------------- MODULE ActorReloadProofs -------------------------
(***************************************************************************)
(* The ring of library handles keeps running code open, and a reloader     *)
(* that waits has the code on disk installed, for any number of actors and *)
(* handles, any edits and any failures.  The proof of the ring needs       *)
(* nothing of the volume but that it leaves the actors alone, so it carries*)
(* the actors' half of the type invariant only; the second half of the     *)
(* module is about the volume and what the reloader makes of it.           *)
(***************************************************************************)
EXTENDS ActorReload, TLAPS

USE VolumeAssumption, ActorAssumption

ReloadInv == DiskTypeOK /\ ActorTypeOK /\ RingInv

(* The slot after current, and how far behind a slot is.                   *)
LEMMA NextSlotValue ==
    ASSUME ActorTypeOK, NEW a \in Actors
    PROVE  /\ NextSlot(a) = IF current[a] = HandleCount - 1 THEN 0
                            ELSE current[a] + 1
           /\ NextSlot(a) \in Slots
           /\ NextSlot(a) # current[a]
<1>1. current[a] \in 0 .. HandleCount - 1
  BY DEF ActorTypeOK, Slots
<1>2. ASSUME NEW n \in Nat, n < HandleCount PROVE n % HandleCount = n
  BY <1>2
<1>3. HandleCount % HandleCount = 0
  OBVIOUS
<1> QED
  <2>1. CASE current[a] = HandleCount - 1
    <3>1. current[a] + 1 = HandleCount
      BY <1>1, <2>1
    <3>2. NextSlot(a) = 0
      BY <1>3, <3>1 DEF NextSlot
    <3> QED BY <1>1, <2>1, <3>2 DEF Slots
  <2>2. CASE current[a] # HandleCount - 1
    <3>1. current[a] + 1 \in Nat /\ current[a] + 1 < HandleCount
      BY <1>1, <2>2
    <3>2. NextSlot(a) = current[a] + 1
      BY <1>2, <3>1 DEF NextSlot
    <3> QED BY <1>1, <2>2, <3>1, <3>2 DEF Slots
  <2> QED BY <2>1, <2>2

LEMMA BehindSlot ==
    ASSUME NEW i \in Slots, NEW k \in 0 .. HandleCount - 1
    PROVE  Behind(i, k) \in Slots
  BY DEF Behind, Slots

LEMMA DistinctUnchanged ==
    ASSUME HandlesDistinct, handles' = handles
    PROVE  HandlesDistinct'
  BY DEF HandlesDistinct

LEMMA DispatchUnchanged ==
    ASSUME DispatchIsCurrent, UNCHANGED <<handles, current, dispatch>>,
           \A a \in Actors : Installed(a) = 0 /\ Installed(a)' = 0
    PROVE  DispatchIsCurrent'
  BY DEF DispatchIsCurrent

(* Steps of the volume, and of the reloader where it touches no actor.     *)
LEMMA Untouched ==
    ASSUME ReloadInv, UNCHANGED <<diskVars, actorVars>>, target' \in Actors,
           pc' \in {"poll", "kevent", "reopen", "note", "reopen again",
                    "polled", "actor", "open", "map", "dlopen", "next"},
           pc \notin {"install", "dispatch"}
    PROVE  ReloadInv'
<1>. USE DEF actorVars, diskVars
<1>1. DiskTypeOK'
  BY DEF ReloadInv, DiskTypeOK
<1>2. ActorTypeOK'
  BY DEF ReloadInv, ActorTypeOK, Libraries
<1>3. \A a \in Actors : Installed(a) = 0 /\ Installed(a)' = 0
  BY DEF Installed
<1>4. HandlesOpen' /\ HandlesDistinct' /\ NewIsFresh'
  <2>1. HandlesOpen'
    <3>1. \A a \in Actors, s \in Slots : handles[a][s] \in open \union {None}
      BY DEF ReloadInv, RingInv, HandlesOpen
    <3> QED BY <3>1 DEF HandlesOpen
  <2>2. HandlesDistinct'
    <3>1. HandlesDistinct /\ handles' = handles
      BY DEF ReloadInv, RingInv
    <3> QED BY <3>1, DistinctUnchanged
  <2>3. NewIsFresh'
    BY DEF NewIsFresh
  <2> QED BY <2>1, <2>2, <2>3
<1>5. DispatchIsCurrent'
  <2>1. DispatchIsCurrent
    BY DEF ReloadInv, RingInv
  <2>2. UNCHANGED <<handles, current, dispatch>>
    OBVIOUS
  <2> QED BY <1>3, <2>1, <2>2, DispatchUnchanged
<1>6. CallsAreBehind'
  <2>. SUFFICES ASSUME NEW a \in Actors, call[a].library # None,
                       call[a].stores < HandleCount - 1
                PROVE  call[a].library =
                         handles[a][Behind(current[a], call[a].stores + 0)]
    BY <1>3 DEF CallsAreBehind, Behind
  <2> QED BY <1>3 DEF ReloadInv, RingInv, CallsAreBehind
<1> QED BY <1>1, <1>2, <1>4, <1>5, <1>6 DEF ReloadInv, RingInv

(* Before the first reload the ring, the calls and dispatch are as         *)
(* ReloadInv says.                                                         *)
THEOREM InitReloadInv == Init => ReloadInv
<1>. SUFFICES ASSUME Init PROVE ReloadInv
  OBVIOUS
<1>1. Len(loaded) = FileCount /\ loaded \in Seq(0 .. MaxEdits)
  BY DEF Init
<1>2. 0 \in Slots /\ 0 \in Actors
  BY DEF Slots, Actors, Files
<1>3. ActorTypeOK
  BY <1>1, <1>2 DEF Init, VolumeInit, ActorTypeOK, Libraries, Actors, Files,
                    None, Idle
<1>4. \A a \in Actors, s \in Slots :
        handles[a][s] = IF s = 0 THEN a + 1 ELSE None
  BY DEF Init
<1>5. HandlesOpen /\ HandlesDistinct
  <2>1. \A a \in Actors : a + 1 \in 1 .. FileCount
    BY DEF Actors, Files
  <2>2. HandlesOpen
    <3>1. open = 1 .. FileCount
      BY DEF Init
    <3> QED BY <1>4, <2>1, <3>1 DEF HandlesOpen
  <2>3. HandlesDistinct
    BY <1>4 DEF HandlesDistinct, Actors, Files, None
  <2> QED BY <2>2, <2>3
<1>6. NewIsFresh
  <2>1. pc = "poll"
    BY DEF Init, VolumeInit
  <2> QED BY <2>1 DEF NewIsFresh
<1>7. DispatchIsCurrent
  <2>. SUFFICES ASSUME NEW a \in Actors
                PROVE  /\ handles[a][current[a]] # None
                       /\ dispatch[a] = handles[a][Behind(current[a], Installed(a))]
    BY DEF DispatchIsCurrent
  <2>1. Installed(a) = 0
    BY DEF Init, VolumeInit, Installed
  <2>2. current[a] = 0 /\ dispatch[a] = a + 1
    BY DEF Init
  <2>3. a + 1 # None
    BY DEF Actors, Files, None
  <2> QED BY <1>2, <1>4, <2>1, <2>2, <2>3 DEF Behind
<1>8. CallsAreBehind
  BY DEF Init, CallsAreBehind, Idle
<1>9. DiskTypeOK
  BY DEF Init, VolumeInit, DiskTypeOK, Files, Inodes
<1> QED
  BY <1>3, <1>5, <1>6, <1>7, <1>8, <1>9 DEF ReloadInv, RingInv

-----------------------------------------------------------------------------
LEMMA VolumeStep ==
    ASSUME ReloadInv, Volume
    PROVE  ReloadInv'
<1>1. target' = target
  BY DEF Volume, Poll, Arm, Collect, ReopenEarlier, NoteEvents, ReopenDeleted,
         OpenFile, MapFile
<1>2. pc' \in {"kevent", "reopen", "note", "reopen again", "polled", "map",
               "dlopen", "next"}
  BY DEF Volume, Poll, Arm, Collect, ReopenEarlier, NoteEvents, ReopenDeleted,
         OpenFile, MapFile
<1>3. pc \notin {"install", "dispatch"}
  BY DEF Volume, Poll, Arm, Collect, ReopenEarlier, NoteEvents, ReopenDeleted,
         OpenFile, MapFile
<1>4. UNCHANGED <<diskVars, actorVars>>
  BY DEF Volume, Poll, Arm, Collect, ReopenEarlier, NoteEvents, ReopenDeleted,
         OpenFile, MapFile
<1>5. target \in Actors
  BY DEF ReloadInv, ActorTypeOK
<1> QED
  BY <1>1, <1>2, <1>3, <1>4, <1>5, Untouched

LEMMA UpdateStep ==
    ASSUME ReloadInv, Update
    PROVE  ReloadInv'
<1>1. 0 \in Actors
  BY DEF Actors, Files
<1>2. needs' \in [Actors -> BOOLEAN]
  <2>1. \A a \in Actors : (needs[a] \/ stale[a]) \in BOOLEAN
    OBVIOUS
  <2> QED BY <2>1 DEF Update
<1>3. DiskTypeOK' /\ ActorTypeOK'
  BY <1>1, <1>2 DEF Update, diskVars, ReloadInv, DiskTypeOK, ActorTypeOK,
                    Libraries
<1>4. HandlesOpen' /\ HandlesDistinct' /\ NewIsFresh'
  BY DEF Update, ReloadInv, RingInv, HandlesOpen, HandlesDistinct, NewIsFresh
<1>5. \A a \in Actors : Installed(a)' = Installed(a)
  BY DEF Update, Installed
<1>6. DispatchIsCurrent' /\ CallsAreBehind'
  BY <1>5 DEF Update, ReloadInv, RingInv, DispatchIsCurrent, CallsAreBehind,
              Behind
<1> QED BY <1>3, <1>4, <1>6 DEF ReloadInv, RingInv

LEMMA NextActorStep ==
    ASSUME ReloadInv, NextActor
    PROVE  ReloadInv'
<1>1. target' \in Actors
  BY DEF ReloadInv, ActorTypeOK, NextActor, Actors, Files
<1>2. pc = "next" /\ pc' \in {"actor", "poll"} /\ UNCHANGED <<diskVars, actorVars>>
  BY DEF NextActor
<1> QED
  BY <1>1, <1>2, Untouched

LEMMA ConsiderStep ==
    ASSUME ReloadInv, Consider
    PROVE  ReloadInv'
<1>1. pc' \in {"next", "open", "dlopen"}
  BY DEF Consider
<1>2. /\ pc = "actor" /\ target' \in Actors
      /\ UNCHANGED <<diskVars, actorVars>>
  BY DEF Consider, ReloadInv, ActorTypeOK
<1> QED
  BY <1>1, <1>2, Untouched

(* A new library has a number that is in no slot.                          *)
LEMMA DlopenStep ==
    ASSUME ReloadInv, Dlopen
    PROVE  ReloadInv'
<1>. USE DEF ReloadInv
<1>0. DiskTypeOK'
  BY DEF Dlopen, diskVars, DiskTypeOK
<1>1. CASE disk[target] # None /\ loaded' = Append(loaded, version[disk[target]])
           /\ open' = open \union {Len(loaded) + 1} /\ pc' = "dlsym"
  <2>0. version[disk[target]] \in 0 .. MaxEdits
    BY <1>1 DEF DiskTypeOK, ActorTypeOK, Actors
  <2>. DEFINE S == 0 .. MaxEdits
  <2>1. /\ loaded' \in Seq(S)
        /\ Len(loaded') = Len(loaded) + 1
        /\ Len(loaded) \in Nat
    <3>1. loaded \in Seq(S) /\ version[disk[target]] \in S
      BY <2>0 DEF ActorTypeOK
    <3> HIDE DEF S
    <3> QED BY <1>1, <3>1
  <2>2. ActorTypeOK'
    <3>1. Libraries \subseteq Libraries' /\ Len(loaded) + 1 \in Libraries'
      BY <2>1 DEF Libraries
    <3>2. open' \subseteq Libraries'
      BY <1>1, <3>1 DEF ActorTypeOK
    <3>3. handles' \in [Actors -> [Slots -> Libraries' \union {None}]]
      BY <3>1 DEF ActorTypeOK, Dlopen
    <3>4. dispatch' \in [Actors -> Libraries']
      BY <3>1 DEF ActorTypeOK, Dlopen
    <3>5. call' \in [Actors -> [library : Libraries' \union {None}, stores : Nat]]
      BY <3>1 DEF ActorTypeOK, Dlopen
    <3> QED
      BY <1>1, <2>1, <3>2, <3>3, <3>4, <3>5 DEF ActorTypeOK, Dlopen, mountVars
  <2>3. \A a \in Actors, s \in Slots : handles[a][s] # Len(loaded')
    <3>. TAKE a \in Actors, s \in Slots
    <3>0. handles \in [Actors -> [Slots -> Libraries \union {None}]]
      BY DEF ActorTypeOK
    <3>1. handles[a][s] \in Libraries \union {None}
      BY <3>0
    <3> QED BY <2>1, <3>1 DEF Libraries, None
  <2>4. RingInv'
    <3>1. \A a \in Actors : Installed(a)' = Installed(a)
      BY <1>1 DEF Dlopen, Installed
    <3>2. HandlesOpen' /\ HandlesDistinct'
      BY <1>1 DEF RingInv, HandlesOpen, HandlesDistinct, Dlopen
    <3>3. NewIsFresh'
      BY <1>1, <2>1, <2>3 DEF NewIsFresh, Dlopen
    <3>4. DispatchIsCurrent' /\ CallsAreBehind'
      BY <3>1 DEF RingInv, DispatchIsCurrent, CallsAreBehind, Dlopen, Behind
    <3> QED BY <3>2, <3>3, <3>4 DEF RingInv
  <2> QED BY <1>0, <2>2, <2>4
<1>2. CASE pc' = "next" /\ UNCHANGED <<loaded, open>>
  <2>1. /\ pc = "dlopen" /\ target' \in Actors
        /\ UNCHANGED <<diskVars, actorVars>>
    BY <1>2 DEF Dlopen, actorVars, ActorTypeOK
  <2> QED BY <1>2, <2>1, Untouched
<1> QED
  BY <1>1, <1>2 DEF Dlopen

LEMMA DlsymStep ==
    ASSUME ReloadInv, Dlsym
    PROVE  ReloadInv'
<1>. USE DEF ReloadInv, actorVars, diskVars
<1>1. DiskTypeOK'
  BY DEF Dlsym, DiskTypeOK
<1>2. ActorTypeOK'
  BY DEF Dlsym, ActorTypeOK, Libraries
<1>3. \A a \in Actors : Installed(a)' = Installed(a)
  BY DEF Dlsym, Installed
<1>4. HandlesOpen' /\ HandlesDistinct' /\ NewIsFresh'
  BY DEF Dlsym, RingInv, HandlesOpen, HandlesDistinct, NewIsFresh
<1>5. DispatchIsCurrent' /\ CallsAreBehind'
  BY <1>3 DEF Dlsym, RingInv, DispatchIsCurrent, CallsAreBehind, Behind
<1> QED BY <1>1, <1>2, <1>4, <1>5 DEF RingInv

(* Only the slot after current loses its library.                          *)
LEMMA DlcloseStep ==
    ASSUME ReloadInv, Dlclose
    PROVE  ReloadInv'
<1>. USE DEF ReloadInv, diskVars
<1>0. target \in Actors /\ NextSlot(target) \in Slots
  BY NextSlotValue DEF ActorTypeOK
<1>1. DiskTypeOK'
  BY DEF Dlclose, DiskTypeOK
<1>2. ActorTypeOK'
  BY DEF Dlclose, ActorTypeOK, Libraries
<1>3. \A a \in Actors : Installed(a)' = Installed(a) /\ NextSlot(a)' = NextSlot(a)
  BY DEF Dlclose, Installed, NextSlot
<1>4. HandlesOpen'
  <2>1. ASSUME NEW a \in Actors, NEW s \in Slots,
               handles[a][s] # None, ~(a = target /\ s = NextSlot(target))
        PROVE  handles[a][s] \in open'
    <3>1. handles[a][s] \in open
      BY <2>1 DEF RingInv, HandlesOpen, Dlclose
    <3>2. handles[a][s] # handles[target][NextSlot(target)]
      BY <1>0, <2>1 DEF RingInv, HandlesDistinct
    <3> QED BY <3>1, <3>2 DEF Dlclose
  <2> QED BY <1>3, <2>1 DEF HandlesOpen, Dlclose
<1>5. NewIsFresh'
  BY <1>0 DEF RingInv, NewIsFresh, Dlclose
<1>6. HandlesDistinct'
  BY DEF RingInv, HandlesDistinct, Dlclose
<1>7. DispatchIsCurrent' /\ CallsAreBehind'
  BY <1>3 DEF Dlclose, RingInv, DispatchIsCurrent, CallsAreBehind, Behind
<1> QED BY <1>1, <1>2, <1>4, <1>5, <1>6, <1>7 DEF RingInv

LEMMA CallsPrimed ==
    ASSUME call' = call,
           \A a \in Actors :
              call[a].library # None /\ call[a].stores < HandleCount - 1 =>
                 call[a].library =
                   handles'[a][Behind(current'[a], call[a].stores + Installed(a)')]
    PROVE  CallsAreBehind'
  BY DEF CallsAreBehind

(* The new library is current now; what was k slots behind is k + 1 behind *)
(* now, and dispatch is 1 behind.                                          *)
LEMMA InstallStep ==
    ASSUME ReloadInv, Install
    PROVE  ReloadInv'
<1>. USE DEF ReloadInv, diskVars
<1>. DEFINE next == NextSlot(target)
<1>0. /\ target \in Actors /\ next \in Slots /\ current[target] \in Slots
      /\ next = IF current[target] = HandleCount - 1 THEN 0
                ELSE current[target] + 1
      /\ next # current[target]
  BY NextSlotValue DEF ActorTypeOK
<1>1. /\ Len(loaded) \in open
      /\ \A a \in Actors, s \in Slots : handles[a][s] # Len(loaded)
      /\ Len(loaded) \in Libraries /\ Len(loaded) # None
  BY DEF Install, RingInv, NewIsFresh, ActorTypeOK, Libraries, None
<1>2. \A a \in Actors, s \in Slots :
        handles'[a][s] = IF a = target /\ s = next THEN Len(loaded)
                         ELSE handles[a][s]
  BY <1>0 DEF Install, ActorTypeOK
<1>3. DiskTypeOK'
  BY DEF Install, DiskTypeOK
<1>4. ActorTypeOK'
  <2>1. handles' \in [Actors -> [Slots -> Libraries \union {None}]]
    BY <1>0, <1>1 DEF Install, ActorTypeOK
  <2>2. current' \in [Actors -> Slots] /\ needs' \in [Actors -> BOOLEAN]
    BY <1>0 DEF Install, ActorTypeOK
  <2> QED BY <2>1, <2>2 DEF Install, ActorTypeOK, Libraries
<1>5. HandlesOpen'
  BY <1>1, <1>2 DEF Install, RingInv, HandlesOpen
<1>6. HandlesDistinct'
  <2>. SUFFICES ASSUME NEW a \in Actors, NEW b \in Actors,
                       NEW s \in Slots, NEW t \in Slots,
                       handles'[a][s] # None, handles'[a][s] = handles'[b][t]
                PROVE  a = b /\ s = t
    BY DEF HandlesDistinct
  <2> HIDE DEF next
  <2>1. CASE a = target /\ s = next
    BY <1>1, <1>2, <2>1
  <2>2. CASE b = target /\ t = next
    BY <1>1, <1>2, <2>2
  <2>3. CASE ~(a = target /\ s = next) /\ ~(b = target /\ t = next)
    BY <1>2, <2>3 DEF RingInv, HandlesDistinct
  <2> QED BY <2>1, <2>2, <2>3
<1>7. NewIsFresh'
  BY DEF Install, NewIsFresh
<1>8. \A a \in Actors : /\ Installed(a) = 0
                        /\ Installed(a)' = IF a = target THEN 1 ELSE 0
  BY DEF Install, Installed
<1>9. /\ current'[target] = next
      /\ \A a \in Actors : a # target => current'[a] = current[a]
  BY <1>0 DEF Install, ActorTypeOK
<1>10. ASSUME NEW k \in 0 .. HandleCount - 2
       PROVE  /\ Behind(next, k + 1) = Behind(current[target], k)
              /\ Behind(current[target], k) # next
              /\ Behind(current[target], k) \in Slots
  <2>1. current[target] \in 0 .. HandleCount - 1
    BY <1>0 DEF Slots
  <2> HIDE DEF next
  <2> QED BY <1>0, <2>1 DEF Behind, Slots
<1>11. ASSUME NEW a \in Actors, a # target, NEW k \in 0 .. HandleCount - 1
       PROVE  handles'[a][Behind(current'[a], k)] = handles[a][Behind(current[a], k)]
  <2>1. Behind(current[a], k) \in Slots
    BY BehindSlot DEF ActorTypeOK
  <2> QED BY <1>2, <1>9, <1>11, <2>1
<1>12. DispatchIsCurrent'
  <2>. SUFFICES ASSUME NEW a \in Actors
                PROVE  /\ handles'[a][current'[a]] # None
                       /\ dispatch[a] =
                            handles'[a][Behind(current'[a], Installed(a)')]
    <3>1. dispatch' = dispatch
      BY DEF Install
    <3> QED BY <3>1 DEF DispatchIsCurrent, Behind
  <2>0. handles'[a][current'[a]] # None
    <3>1. CASE a = target
      BY <1>0, <1>1, <1>2, <1>9, <3>1
    <3>2. CASE a # target
      <4>1. current[a] \in Slots /\ handles[a][current[a]] # None
        BY DEF ActorTypeOK, RingInv, DispatchIsCurrent
      <4> QED BY <1>2, <1>9, <3>2, <4>1
    <3> QED BY <3>1, <3>2
  <2>1. dispatch[a] = handles[a][Behind(current[a], 0)]
    BY <1>8 DEF RingInv, DispatchIsCurrent
  <2>2. CASE a # target
    <3>1. 0 \in 0 .. HandleCount - 1 /\ Installed(a)' = 0
      BY <1>8, <2>2
    <3>2. handles'[a][Behind(current'[a], 0)] = handles[a][Behind(current[a], 0)]
      BY <1>11, <2>2, <3>1
    <3> QED BY <2>0, <2>1, <3>1, <3>2
  <2>3. CASE a = target
    <3> HIDE DEF next
    <3>1. 0 \in 0 .. HandleCount - 2
      OBVIOUS
    <3>2. handles'[a][Behind(next, 0 + 1)] = handles[a][Behind(current[a], 0)]
      BY <1>2, <1>10, <2>3, <3>1
    <3>3. Installed(a)' = 0 + 1 /\ current'[a] = next
      BY <1>8, <1>9, <2>3
    <3> QED BY <2>0, <2>1, <3>2, <3>3
  <2> QED BY <2>0, <2>2, <2>3
<1>13. CallsAreBehind'
  <2>. SUFFICES ASSUME NEW a \in Actors, call[a].library # None,
                       call[a].stores < HandleCount - 1
                PROVE  call[a].library =
                         handles'[a][Behind(current'[a],
                                            call[a].stores + Installed(a)')]
    BY CallsPrimed DEF Install
  <2>0. call[a].stores \in 0 .. HandleCount - 2
    <3>1. call[a].stores \in Nat
      BY DEF ActorTypeOK
    <3> QED BY <3>1
  <2>1. call[a].library = handles[a][Behind(current[a], call[a].stores)]
    BY <1>8, <2>0 DEF RingInv, CallsAreBehind
  <2>2. CASE a # target
    BY <1>8, <1>11, <2>0, <2>1, <2>2
  <2>3. CASE a = target
    <3> HIDE DEF next
    <3>1. handles'[a][Behind(next, call[a].stores + 1)]
            = handles[a][Behind(current[a], call[a].stores)]
      BY <1>2, <1>10, <2>0, <2>3
    <3> QED BY <1>8, <1>9, <2>1, <2>3, <3>1
  <2> QED BY <2>2, <2>3
<1> QED
  BY <1>3, <1>4, <1>5, <1>6, <1>7, <1>12, <1>13 DEF RingInv

(* dispatch catches up with current; every call has one more store behind  *)
(* it.                                                                     *)
LEMMA StoreDispatchStep ==
    ASSUME ReloadInv, StoreDispatch
    PROVE  ReloadInv'
<1>. USE DEF ReloadInv, diskVars
<1>0. target \in Actors /\ current[target] \in Slots
  BY DEF ActorTypeOK
<1>1. DiskTypeOK'
  BY DEF StoreDispatch, DiskTypeOK
<1>2. \A a \in Actors : /\ Installed(a) = IF a = target THEN 1 ELSE 0
                        /\ Installed(a)' = 0
  BY DEF StoreDispatch, Installed
<1>3. \A a \in Actors :
        /\ call'[a].library = call[a].library
        /\ a # target => call'[a] = call[a]
        /\ call[a].library # None =>
             call'[a].stores = IF a = target THEN call[a].stores + 1
                               ELSE call[a].stores
        /\ call'[a] \in [library : Libraries \union {None}, stores : Nat]
  <2>1. \A a \in Actors : call[a] \in [library : Libraries \union {None}, stores : Nat]
    BY DEF ActorTypeOK
  <2>2. \A a \in Actors : call[a].library # None => call[a] # Idle
    BY DEF Idle
  <2> QED BY <1>0, <2>1, <2>2 DEF StoreDispatch, ActorTypeOK
<1>4. dispatch' \in [Actors -> Libraries]
  <2>1. handles[target][current[target]] # None
    BY <1>0 DEF RingInv, DispatchIsCurrent
  <2> QED BY <1>0, <2>1 DEF StoreDispatch, ActorTypeOK
<1>5. ActorTypeOK'
  BY <1>3, <1>4 DEF StoreDispatch, ActorTypeOK, Libraries
<1>6. HandlesOpen' /\ HandlesDistinct' /\ NewIsFresh'
  BY DEF StoreDispatch, RingInv, HandlesOpen, HandlesDistinct, NewIsFresh
<1>7. DispatchIsCurrent'
  BY <1>0, <1>2 DEF StoreDispatch, RingInv, DispatchIsCurrent, Behind, ActorTypeOK, Slots
<1>8. CallsAreBehind'
  BY <1>2, <1>3 DEF StoreDispatch, RingInv, CallsAreBehind, Behind, ActorTypeOK
<1> QED BY <1>1, <1>5, <1>6, <1>7, <1>8 DEF RingInv

-----------------------------------------------------------------------------
LEMMA CallerStep ==
    ASSUME ReloadInv, NEW a \in Actors, Caller(a)
    PROVE  ReloadInv'
<1>. USE DEF ReloadInv, diskVars
<1>1. UNCHANGED <<volumeVars, loaded, open, handles, current, needs, dispatch>>
  BY DEF Caller, Call, Return
<1>2. DiskTypeOK' /\ HandlesOpen' /\ HandlesDistinct' /\ NewIsFresh'
  BY <1>1 DEF volumeVars, DiskTypeOK, RingInv, HandlesOpen, HandlesDistinct,
              NewIsFresh, NextSlot
<1>3. \A b \in Actors : Installed(b)' = Installed(b) /\ Installed(b) \in {0, 1}
  BY <1>1 DEF volumeVars, Installed
<1>4. DispatchIsCurrent'
  BY <1>1, <1>3 DEF RingInv, DispatchIsCurrent, Behind
<1>5. /\ call' \in [Actors -> [library : Libraries \union {None}, stores : Nat]]
      /\ \A b \in Actors : b # a => call'[b] = call[b]
      /\ call'[a] \in {Idle, [library |-> dispatch[a], stores |-> 0]}
  <2>1. Idle \in [library : Libraries \union {None}, stores : Nat]
    BY DEF Idle
  <2>2. [library |-> dispatch[a], stores |-> 0]
          \in [library : Libraries \union {None}, stores : Nat]
    <3>1. dispatch[a] \in Libraries
      BY DEF ActorTypeOK
    <3> QED BY <3>1
  <2>3. call \in [Actors -> [library : Libraries \union {None}, stores : Nat]]
    BY DEF ActorTypeOK
  <2>4. PICK c \in {Idle, [library |-> dispatch[a], stores |-> 0]} :
           call' = [call EXCEPT ![a] = c]
    BY DEF Caller, Call, Return
  <2>5. c \in [library : Libraries \union {None}, stores : Nat]
    BY <2>1, <2>2
  <2> QED BY <2>3, <2>4, <2>5
<1>6. ActorTypeOK'
  BY <1>1, <1>5 DEF volumeVars, ActorTypeOK, Libraries
<1>7. CallsAreBehind'
  <2>. SUFFICES ASSUME NEW b \in Actors, call'[b].library # None,
                       call'[b].stores < HandleCount - 1
                PROVE  call'[b].library =
                         handles[b][Behind(current[b],
                                           call'[b].stores + Installed(b))]
    BY <1>1, <1>3 DEF CallsAreBehind
  <2>1. CASE b # a
    BY <1>5, <2>1 DEF RingInv, CallsAreBehind
  <2>2. CASE b = a
    <3>1. call'[b].library = dispatch[b] /\ call'[b].stores = 0
      BY <1>5, <2>2 DEF Idle
    <3>2. dispatch[b] = handles[b][Behind(current[b], Installed(b))]
      BY DEF RingInv, DispatchIsCurrent
    <3>3. 0 + Installed(b) = Installed(b)
      BY <1>3
    <3> QED BY <3>1, <3>2, <3>3
  <2> QED BY <2>1, <2>2
<1> QED BY <1>2, <1>4, <1>6, <1>7 DEF RingInv

LEMMA EditStep ==
    ASSUME ReloadInv, NEW f \in Files, Edit(f), UNCHANGED actorVars
    PROVE  ReloadInv'
<1>. USE DEF ReloadInv, actorVars
<1>1. pc' = pc /\ target' = target
  BY DEF Edit
<1>2. DiskTypeOK'
  <2>1. edits + 1 \in 0 .. MaxEdits /\ edits' = edits + 1
    BY DEF Edit, DiskTypeOK
  <2>2. NewInode \in Inodes
    BY <2>1 DEF NewInode, Inodes, DiskTypeOK
  <2>3. disk' \in [Files -> Inodes \union {None}]
    BY <2>2 DEF Edit, DiskTypeOK
  <2>4. version' \in [Inodes -> 0 .. MaxEdits]
    BY <2>1, <2>2 DEF Edit, DiskTypeOK
  <2> QED BY <2>1, <2>3, <2>4 DEF DiskTypeOK
<1>3. ActorTypeOK'
  BY <1>1 DEF ActorTypeOK, Libraries
<1>4. \A a \in Actors : Installed(a)' = Installed(a)
  BY <1>1 DEF Installed
<1>5. HandlesOpen' /\ HandlesDistinct' /\ NewIsFresh'
  BY <1>1 DEF RingInv, HandlesOpen, HandlesDistinct, NewIsFresh, NextSlot
<1>6. DispatchIsCurrent' /\ CallsAreBehind'
  BY <1>4 DEF RingInv, DispatchIsCurrent, CallsAreBehind, Behind
<1> QED BY <1>2, <1>3, <1>5, <1>6 DEF RingInv

-----------------------------------------------------------------------------
(* ReloadInv is inductive.                                                 *)
THEOREM ReloadInvInductive == ReloadInv /\ [Next]_vars => ReloadInv'
<1>. SUFFICES ASSUME ReloadInv, [Next]_vars PROVE ReloadInv'
  OBVIOUS
<1>1. CASE Volume
  BY <1>1, VolumeStep
<1>2. CASE Update
  BY <1>2, UpdateStep
<1>3. CASE NextActor
  BY <1>3, NextActorStep
<1>4. CASE Consider
  BY <1>4, ConsiderStep
<1>5. CASE Dlopen
  BY <1>5, DlopenStep
<1>6. CASE Dlsym
  BY <1>6, DlsymStep
<1>7. CASE Dlclose
  BY <1>7, DlcloseStep
<1>8. CASE Install
  BY <1>8, InstallStep
<1>9. CASE StoreDispatch
  BY <1>9, StoreDispatchStep
<1>10. ASSUME NEW a \in Actors, Caller(a) PROVE ReloadInv'
  BY <1>10, CallerStep
<1>11. ASSUME NEW f \in Files, Edit(f), UNCHANGED actorVars PROVE ReloadInv'
  BY <1>11, EditStep
<1>12. CASE UNCHANGED vars
  <2>. USE <1>12 DEF vars, volumeVars, actorVars, ReloadInv
  <2>1. DiskTypeOK' /\ ActorTypeOK'
    BY DEF DiskTypeOK, ActorTypeOK, Libraries
  <2>2. HandlesOpen' /\ HandlesDistinct' /\ NewIsFresh'
    BY DEF RingInv, HandlesOpen, HandlesDistinct, NewIsFresh, NextSlot
  <2>3. DispatchIsCurrent' /\ CallsAreBehind'
    BY DEF RingInv, DispatchIsCurrent, CallsAreBehind, Installed, Behind
  <2> QED BY <2>1, <2>2, <2>3 DEF RingInv
<1> QED
  BY <1>1, <1>2, <1>3, <1>4, <1>5, <1>6, <1>7, <1>8, <1>9, <1>10, <1>11, <1>12
  DEF Next, Reloader

(* ReloadInv holds throughout, whatever actor_reload meets on the disk.    *)
THEOREM ReloadInvariant == Spec => []ReloadInv
<1> QED BY InitReloadInv, ReloadInvInductive, PTL DEF Spec

(* The ring invariant the runs check.                                      *)
THEOREM RingInvariant == Spec => []RingInv
<1>1. ReloadInv => RingInv
  BY DEF ReloadInv
<1> QED BY <1>1, ReloadInvariant, PTL

(* A call's library stays open for HandleCount - 2 further stores.         *)
THEOREM CallsSurviveReloads == Spec => []CallsSurvive
<1>1. ReloadInv => CallsSurvive
  <2>. SUFFICES ASSUME ReloadInv, NEW a \in Actors, call[a].library # None,
                       call[a].stores < HandleCount - 1
                PROVE  call[a].library \in open
    BY DEF CallsSurvive
  <2>. DEFINE k == call[a].stores + Installed(a)
              s == Behind(current[a], k)
  <2>1. call[a].library = handles[a][s]
    BY DEF ReloadInv, RingInv, CallsAreBehind
  <2>2. k \in 0 .. HandleCount - 1 /\ (pc = "install" => k < HandleCount - 1)
    <3>1. call[a].stores \in Nat
      BY DEF ReloadInv, ActorTypeOK
    <3>2. Installed(a) \in {0, 1} /\ (pc = "install" => Installed(a) = 0)
      BY DEF Installed
    <3> QED BY <3>1, <3>2
  <2>3. s \in Slots
    BY <2>2, BehindSlot DEF ReloadInv, ActorTypeOK
  <2>4. pc = "install" => s # NextSlot(a)
    <3>1. current[a] \in 0 .. HandleCount - 1
      BY DEF ReloadInv, ActorTypeOK, Slots
    <3> HIDE DEF k
    <3> QED BY <2>2, <3>1, NextSlotValue DEF ReloadInv, Behind
  <2> HIDE DEF s
  <2> QED BY <2>1, <2>3, <2>4 DEF ReloadInv, RingInv, HandlesOpen
<1> QED BY <1>1, ReloadInvariant, PTL

(* dispatch never leads into a library that was closed.                    *)
THEOREM DispatchStaysOpen == Spec => []DispatchOpen
<1>1. ReloadInv => DispatchOpen
  <2>. SUFFICES ASSUME ReloadInv, NEW a \in Actors
                PROVE  dispatch[a] \in open
    BY DEF DispatchOpen
  <2>. DEFINE s == Behind(current[a], Installed(a))
  <2>1. dispatch[a] = handles[a][s] /\ dispatch[a] # None
    <3>1. dispatch[a] \in Libraries
      BY DEF ReloadInv, ActorTypeOK
    <3>2. dispatch[a] # None
      BY <3>1 DEF Libraries, None
    <3> QED BY <3>2 DEF ReloadInv, RingInv, DispatchIsCurrent
  <2>2. s \in Slots
    <3>1. Installed(a) \in 0 .. HandleCount - 1
      BY DEF Installed
    <3> QED BY <3>1, BehindSlot DEF ReloadInv, ActorTypeOK
  <2>3. pc = "install" => s # NextSlot(a)
    <3>1. current[a] \in 0 .. HandleCount - 1
      BY DEF ReloadInv, ActorTypeOK, Slots
    <3>2. pc = "install" => Installed(a) = 0
      BY DEF Installed
    <3> QED BY <3>1, <3>2, NextSlotValue DEF ReloadInv, Behind
  <2> HIDE DEF s
  <2> QED BY <2>1, <2>2, <2>3 DEF ReloadInv, RingInv, HandlesOpen
<1> QED BY <1>1, ReloadInvariant, PTL
-----------------------------------------------------------------------------
(* What the volume knows of its files                                      *)

VolumeTypes ==
    /\ fd \in [Files -> Inodes \union {None}]
    /\ knote \in [Files -> [inode : Inodes \union {None},
                            flags : SUBSET Flags]]
    /\ stale \in [Files -> BOOLEAN] /\ deleted \in [Files -> BOOLEAN]
    /\ content \in [Files -> 0 .. MaxEdits]
    /\ out \in [Files -> SUBSET Flags]
    /\ gap \subseteq Files

(* No two paths lead to one inode, and an edit makes a new one.            *)
InodesApart ==
    /\ \A f \in Files : disk[f] <= FileCount + edits
    /\ \A f, g \in Files : disk[f] # None /\ disk[f] = disk[g] => f = g

(* What is watched is what is open, and closing it ends the watch.         *)
WatchesOpen ==
    \A f \in Files : knote[f] = Unarmed \/ knote[f].inode = fd[f]

(* What kevent returned is noted before the next kevent.                   *)
OutNoted == pc \notin {"reopen", "note"} => \A f \in Files : out[f] = {}

(* A file that is being reloaded stays stale until it is mapped, and       *)
(* nothing tells of an edit between its open and the next poll.            *)
Reloading ==
    /\ pc \in {"open", "map"} => stale[target]
    /\ pc = "map" =>
         /\ fd[target] # None /\ knote[target] = Unarmed
         /\ target \notin gap => fd[target] = disk[target]

VolumeInv ==
    /\ VolumeTypes /\ InodesApart /\ WatchesOpen /\ OutNoted /\ Reloading
    /\ NothingOverlooked

(* An actor whose file is settled has its last content loaded, unless its  *)
(* reload is still to be done; a reload installs what it has opened, and   *)
(* stores it last.                                                         *)
LoadInv ==
    /\ pc \in {"open", "map", "dlopen", "dlsym", "dlclose", "install"}
         => needs[target]
    /\ \A a \in Actors \ gap :
          Settled(a) =>
            /\ ~needs[a] /\ Installed(a) = 0
                 => loaded[dispatch[a]] = version[disk[a]]
            /\ ~needs[a] /\ Installed(a) = 1
                 => loaded[handles[a][current[a]]] = version[disk[a]]
            /\ pc \in {"dlsym", "dlclose", "install"} /\ target = a
                 => loaded[Len(loaded)] = version[disk[a]]

LEMMA VolumeFacts ==
    ASSUME ReloadInv, VolumeInv
    PROVE  /\ disk \in [Files -> Inodes \union {None}]
           /\ version \in [Inodes -> 0 .. MaxEdits]
           /\ edits \in 0 .. MaxEdits /\ target \in Files
           /\ VolumeTypes /\ InodesApart /\ WatchesOpen /\ OutNoted
           /\ Reloading /\ NothingOverlooked
           /\ Actors = Files
  BY DEF ReloadInv, DiskTypeOK, ActorTypeOK, VolumeInv, Actors

(* Steps that leave the volume's files alone.                              *)
LEMMA VolumeKept ==
    ASSUME ReloadInv, VolumeInv,
           UNCHANGED <<diskVars, knote, mountVars, out, gap>>,
           pc \notin {"reopen", "note"},
           pc' = "open" => stale[target'], pc' # "map"
    PROVE  VolumeInv'
<1>. USE DEF diskVars, mountVars
<1>1. VolumeTypes' /\ InodesApart' /\ WatchesOpen'
  BY VolumeFacts DEF VolumeTypes, InodesApart, WatchesOpen
<1>2. OutNoted' /\ Reloading'
  BY VolumeFacts DEF OutNoted, Reloading
<1>3. NothingOverlooked'
  BY VolumeFacts DEF NothingOverlooked, Settled
<1> QED BY <1>1, <1>2, <1>3 DEF VolumeInv

(* Steps between which no library is opened or installed.                  *)
LEMMA LoadKept ==
    ASSUME LoadInv,
           UNCHANGED <<disk, version, loaded, handles, current, dispatch>>,
           pc \notin {"dlsym", "dlclose", "install", "dispatch"},
           pc' \notin {"dlsym", "dlclose", "install", "dispatch"},
           pc' \in {"open", "map", "dlopen"} => needs'[target'],
           \A a \in Actors \ gap' :
              Settled(a)' /\ ~needs'[a]
                => a \notin gap /\ Settled(a) /\ ~needs[a]
    PROVE  LoadInv'
<1>1. \A a \in Actors : Installed(a) = 0 /\ Installed(a)' = 0
  BY DEF Installed
<1>2. ASSUME NEW a \in Actors \ gap', Settled(a)', ~needs'[a]
      PROVE  loaded'[dispatch'[a]] = version'[disk'[a]]
  BY <1>1, <1>2 DEF LoadInv
<1> QED BY <1>1, <1>2 DEF LoadInv

-----------------------------------------------------------------------------
(* fs_volume_poll_events                                                   *)

LEMMA ArmKeeps ==
    ASSUME ReloadInv, VolumeInv, Arm
    PROVE  VolumeInv' /\ \A f \in Files : Settled(f)' => Settled(f)
<1>1. /\ UNCHANGED <<disk, version, edits, fd, stale, deleted, content, out,
                     gap, target>>
      /\ pc = "poll" /\ pc' = "kevent"
      /\ knote' = [f \in Files |-> IF knote[f].inode = fd[f] THEN knote[f]
                                   ELSE [inode |-> fd[f], flags |-> {}]]
  BY DEF Arm, diskVars, mountVars, pollVars
<1>2. ASSUME NEW f \in Files
      PROVE  /\ knote'[f].flags = knote[f].flags
             /\ knote'[f] = Unarmed \/ knote'[f].inode = fd[f]
             /\ knote'[f] \in [inode : Inodes \union {None},
                               flags : SUBSET Flags]
  <2>1. knote[f] = Unarmed \/ knote[f].inode = fd[f]
    BY VolumeFacts DEF WatchesOpen
  <2>2. /\ knote[f] \in [inode : Inodes \union {None}, flags : SUBSET Flags]
        /\ fd[f] \in Inodes \union {None}
    BY VolumeFacts DEF VolumeTypes
  <2>3. CASE knote[f].inode = fd[f]
    BY <1>1, <2>1, <2>2, <2>3
  <2>4. CASE knote[f].inode # fd[f]
    <3>1. knote[f].flags = {}
      BY <2>1, <2>4 DEF Unarmed
    <3>2. knote'[f] = [inode |-> fd[f], flags |-> {}]
      BY <1>1, <2>4
    <3> QED BY <2>2, <3>1, <3>2
  <2> QED BY <2>3, <2>4
<1>3. \A f \in Files : Settled(f)' => Settled(f)
  BY <1>1, <1>2 DEF Settled
<1>4. VolumeTypes'
  <2>1. knote' \in [Files -> [inode : Inodes \union {None},
                              flags : SUBSET Flags]]
    BY <1>1, <1>2
  <2> QED BY <1>1, <2>1, VolumeFacts DEF VolumeTypes
<1>5. InodesApart' /\ WatchesOpen'
  BY <1>1, <1>2, VolumeFacts DEF InodesApart, WatchesOpen
<1>6. OutNoted' /\ Reloading' /\ NothingOverlooked'
  BY <1>1, <1>3, VolumeFacts DEF OutNoted, Reloading, NothingOverlooked
<1> QED BY <1>3, <1>4, <1>5, <1>6 DEF VolumeInv

LEMMA CollectKeeps ==
    ASSUME ReloadInv, VolumeInv, Collect
    PROVE  VolumeInv' /\ \A f \in Files : Settled(f)' => Settled(f)
<1>1. /\ UNCHANGED <<disk, version, edits, fd, stale, deleted, content,
                     gap, target>>
      /\ pc = "kevent" /\ pc' = "reopen"
  BY DEF Collect, diskVars, mountVars
<1>2. PICK got \in SUBSET {f \in Files : knote[f].flags # {}} :
          /\ out' = [f \in Files |-> IF f \in got THEN knote[f].flags ELSE {}]
          /\ knote' = [f \in Files |-> IF f \in got THEN Unarmed
                                       ELSE knote[f]]
  BY DEF Collect
<1>3. \A f \in Files : /\ knote'[f] = IF f \in got THEN Unarmed ELSE knote[f]
                       /\ out'[f] = IF f \in got THEN knote[f].flags ELSE {}
                       /\ out[f] = {}
                       /\ f \in got => knote[f].flags # {}
  BY <1>1, <1>2, VolumeFacts DEF OutNoted
<1>4. \A f \in Files : Settled(f)' => Settled(f)
  BY <1>1, <1>3 DEF Settled
<1>5. VolumeTypes'
  <2>1. Unarmed \in [inode : Inodes \union {None}, flags : SUBSET Flags]
    BY DEF Unarmed
  <2>2. \A f \in Files :
           knote[f] \in [inode : Inodes \union {None}, flags : SUBSET Flags]
    BY VolumeFacts DEF VolumeTypes
  <2>3. \A f \in Files : knote[f].flags \in SUBSET Flags
    BY <2>2
  <2>4. /\ knote' \in [Files -> [inode : Inodes \union {None},
                                 flags : SUBSET Flags]]
        /\ out' \in [Files -> SUBSET Flags]
    BY <1>2, <2>1, <2>2, <2>3
  <2> QED BY <1>1, <2>4, VolumeFacts DEF VolumeTypes
<1>6. InodesApart' /\ WatchesOpen'
  BY <1>1, <1>3, VolumeFacts DEF InodesApart, WatchesOpen
<1>7. OutNoted' /\ Reloading' /\ NothingOverlooked'
  BY <1>1, <1>4, VolumeFacts DEF OutNoted, Reloading, NothingOverlooked
<1> QED BY <1>4, <1>5, <1>6, <1>7 DEF VolumeInv

(* A file that is opened again is stale, so that it is not settled.        *)
LEMMA ReopenKeeps ==
    ASSUME ReloadInv, VolumeInv, Reopen,
           UNCHANGED <<diskVars, out, target, gap>>,
           \/ pc = "reopen" /\ pc' = "note"
           \/ pc = "reopen again" /\ pc' = "polled"
    PROVE  VolumeInv' /\ \A f \in Files : Settled(f)' => Settled(f)
<1>. USE DEF diskVars
<1>1. UNCHANGED content
  BY DEF Reopen
<1>2. \A f \in Files :
         IF f \in Reopenable
         THEN fd'[f] = disk[f] /\ stale'[f] /\ ~deleted'[f]
              /\ knote'[f] = Unarmed
         ELSE fd'[f] = fd[f] /\ stale'[f] = stale[f]
              /\ deleted'[f] = deleted[f] /\ knote'[f] = knote[f]
  BY VolumeFacts DEF Reopen, VolumeTypes
<1>3. \A f \in Files : Settled(f)' => Settled(f) /\ fd'[f] = fd[f]
  BY <1>2 DEF Settled
<1>4. VolumeTypes'
  <2>1. Unarmed \in [inode : Inodes \union {None}, flags : SUBSET Flags]
    BY DEF Unarmed
  <2>2. knote' \in [Files -> [inode : Inodes \union {None},
                              flags : SUBSET Flags]]
    BY <2>1, VolumeFacts DEF Reopen, VolumeTypes
  <2>3. fd' \in [Files -> Inodes \union {None}]
    BY VolumeFacts DEF Reopen, VolumeTypes
  <2>4. stale' \in [Files -> BOOLEAN] /\ deleted' \in [Files -> BOOLEAN]
    BY VolumeFacts DEF Reopen, VolumeTypes
  <2> QED BY <1>1, <2>2, <2>3, <2>4, VolumeFacts DEF VolumeTypes
<1>5. InodesApart' /\ WatchesOpen'
  BY <1>2, VolumeFacts DEF InodesApart, WatchesOpen
<1>6. OutNoted' /\ Reloading'
  BY VolumeFacts DEF OutNoted, Reloading
<1>7. NothingOverlooked'
  BY <1>1, <1>3, VolumeFacts DEF NothingOverlooked
<1> QED BY <1>3, <1>4, <1>5, <1>6, <1>7 DEF VolumeInv

(* What was returned makes the file deleted or stale.                      *)
LEMMA NoteEventsKeeps ==
    ASSUME ReloadInv, VolumeInv, NoteEvents
    PROVE  VolumeInv' /\ \A f \in Files : Settled(f)' => Settled(f)
<1>1. /\ UNCHANGED <<disk, version, edits, knote, fd, content, gap, target>>
      /\ pc = "note" /\ pc' = "reopen again"
      /\ deleted' = [f \in Files |-> deleted[f] \/ "delete" \in out[f]]
      /\ stale' = [f \in Files |-> stale[f] \/ out[f] = {"write"}]
      /\ out' = [f \in Files |-> {}]
  BY DEF NoteEvents, diskVars
<1>2. \A f \in Files : out[f] \subseteq {"write", "delete"}
  BY VolumeFacts DEF VolumeTypes, Flags
<1>3. ASSUME NEW f \in Files, Settled(f)' PROVE Settled(f)
  <2>1. /\ fd[f] # None /\ ~stale[f] /\ ~deleted[f] /\ knote[f].flags = {}
        /\ "delete" \notin out[f] /\ out[f] # {"write"}
    BY <1>1, <1>3 DEF Settled
  <2>2. out[f] = {}
    BY <1>2, <2>1
  <2> QED BY <2>1, <2>2 DEF Settled
<1>4. VolumeTypes'
  BY <1>1, VolumeFacts DEF VolumeTypes
<1>5. InodesApart' /\ WatchesOpen' /\ OutNoted' /\ Reloading'
  BY <1>1, VolumeFacts DEF InodesApart, WatchesOpen, OutNoted, Reloading
<1>6. NothingOverlooked'
  BY <1>1, <1>3, VolumeFacts DEF NothingOverlooked
<1> QED BY <1>3, <1>4, <1>5, <1>6 DEF VolumeInv

LEMMA PollKeeps ==
    ASSUME ReloadInv, VolumeInv, LoadInv, Poll, UNCHANGED actorVars
    PROVE  VolumeInv' /\ LoadInv'
<1>1. VolumeInv' /\ \A f \in Files : Settled(f)' => Settled(f)
  BY ArmKeeps, CollectKeeps, ReopenKeeps, NoteEventsKeeps
  DEF Poll, ReopenEarlier, ReopenDeleted
<1>2. /\ UNCHANGED <<disk, version, gap>>
      /\ pc \in {"poll", "kevent", "reopen", "note", "reopen again"}
      /\ pc' \in {"kevent", "reopen", "note", "reopen again", "polled"}
  BY DEF Poll, Arm, Collect, ReopenEarlier, NoteEvents, ReopenDeleted, diskVars
<1>3. UNCHANGED <<loaded, handles, current, needs, dispatch>>
  BY DEF actorVars
<1>4. LoadInv'
  BY <1>1, <1>2, <1>3, LoadKept DEF Actors
<1> QED BY <1>1, <1>4

-----------------------------------------------------------------------------
(* fs_file_reload                                                          *)

LEMMA OpenFileKeeps ==
    ASSUME ReloadInv, VolumeInv, LoadInv, OpenFile("next"),
           UNCHANGED actorVars
    PROVE  VolumeInv' /\ LoadInv'
<1>1. /\ UNCHANGED <<disk, version, edits, stale, deleted, content, out,
                     target, gap>>
      /\ pc = "open" /\ pc' = IF disk[target] = None THEN "next" ELSE "map"
      /\ fd' = [fd EXCEPT ![target] = disk[target]]
      /\ knote' = [knote EXCEPT ![target] = Unarmed]
  BY DEF OpenFile, diskVars, pollVars
<1>2. /\ target \in Files /\ stale[target]
      /\ fd'[target] = disk[target] /\ knote'[target] = Unarmed
      /\ \A f \in Files : f # target => fd'[f] = fd[f] /\ knote'[f] = knote[f]
  BY <1>1, VolumeFacts DEF VolumeTypes, Reloading
<1>3. \A f \in Files : Settled(f)' => Settled(f) /\ fd'[f] = fd[f]
  BY <1>1, <1>2 DEF Settled
<1>4. VolumeTypes'
  <2>1. Unarmed \in [inode : Inodes \union {None}, flags : SUBSET Flags]
    BY DEF Unarmed
  <2>2. knote' \in [Files -> [inode : Inodes \union {None},
                              flags : SUBSET Flags]]
    BY <1>1, <2>1, VolumeFacts DEF VolumeTypes
  <2>3. fd' \in [Files -> Inodes \union {None}]
    BY <1>1, VolumeFacts DEF VolumeTypes
  <2> QED BY <1>1, <2>2, <2>3, VolumeFacts DEF VolumeTypes
<1>5. InodesApart' /\ WatchesOpen' /\ OutNoted'
  BY <1>1, <1>2, VolumeFacts DEF InodesApart, WatchesOpen, OutNoted
<1>6. Reloading'
  BY <1>1, <1>2 DEF Reloading
<1>7. NothingOverlooked'
  BY <1>1, <1>3, VolumeFacts DEF NothingOverlooked
<1>8. LoadInv'
  <2>1. needs[target]
    BY <1>1 DEF LoadInv
  <2> QED BY <1>1, <1>3, <2>1, LoadKept DEF actorVars, Actors
<1> QED BY <1>4, <1>5, <1>6, <1>7, <1>8 DEF VolumeInv

LEMMA MapFileKeeps ==
    ASSUME ReloadInv, VolumeInv, LoadInv, MapFile("dlopen", "next"),
           UNCHANGED actorVars
    PROVE  VolumeInv' /\ LoadInv'
<1>1. /\ UNCHANGED <<disk, version, edits, knote, fd, out, target>>
      /\ pc = "map" /\ target \in Files
      /\ UNCHANGED <<loaded, handles, current, needs, dispatch>>
  BY VolumeFacts DEF MapFile, diskVars, pollVars, actorVars
<1>2. /\ fd[target] # None /\ knote[target] = Unarmed
      /\ target \notin gap => fd[target] = disk[target]
      /\ needs[target]
  BY <1>1, VolumeFacts DEF Reloading, LoadInv
<1>3. CASE /\ content' = [content EXCEPT ![target] = version[fd[target]]]
           /\ stale' = [stale EXCEPT ![target] = FALSE]
           /\ deleted' = [deleted EXCEPT ![target] = FALSE]
           /\ gap' = IF fd[target] = disk[target] THEN gap \ {target} ELSE gap
           /\ pc' = "dlopen"
  <2>1. /\ content'[target] = version[fd[target]]
        /\ \A f \in Files : f # target =>
              /\ content'[f] = content[f] /\ stale'[f] = stale[f]
              /\ deleted'[f] = deleted[f]
    BY <1>1, <1>3, VolumeFacts DEF VolumeTypes
  <2>2. /\ target \notin gap' => fd[target] = disk[target]
        /\ \A f \in Files : f # target => (f \in gap' <=> f \in gap)
    BY <1>2, <1>3
  <2>3. \A f \in Files : f # target => (Settled(f)' <=> Settled(f))
    BY <1>1, <2>1 DEF Settled
  <2>4. NothingOverlooked'
    <3>1. SUFFICES ASSUME NEW f \in Files \ gap', Settled(f)'
                   PROVE  fd[f] = disk[f] /\ content'[f] = version[disk[f]]
      BY <1>1 DEF NothingOverlooked
    <3>2. CASE f = target
      BY <2>1, <2>2, <3>2
    <3>3. CASE f # target
      BY <2>1, <2>2, <2>3, <3>1, <3>3, VolumeFacts DEF NothingOverlooked
    <3> QED BY <3>2, <3>3
  <2>5. VolumeTypes'
    <3>1. fd[target] \in Inodes
      BY <1>1, <1>2, VolumeFacts DEF VolumeTypes
    <3>2. version[fd[target]] \in 0 .. MaxEdits
      BY <3>1, VolumeFacts
    <3> QED BY <1>1, <1>3, <3>2, VolumeFacts DEF VolumeTypes
  <2>6. InodesApart' /\ WatchesOpen' /\ OutNoted' /\ Reloading'
    BY <1>1, <1>3, VolumeFacts
    DEF InodesApart, WatchesOpen, OutNoted, Reloading
  <2>7. LoadInv'
    BY <1>1, <1>2, <1>3, <2>2, <2>3, LoadKept DEF Actors
  <2> QED BY <2>4, <2>5, <2>6, <2>7 DEF VolumeInv
<1>4. CASE pc' = "next" /\ UNCHANGED <<content, stale, deleted, gap>>
  <2>1. VolumeInv'
    BY <1>1, <1>4, VolumeKept DEF diskVars, mountVars
  <2>2. \A f \in Files : Settled(f)' => Settled(f)
    BY <1>1, <1>4 DEF Settled
  <2>3. LoadInv'
    BY <1>1, <1>4, <2>2, LoadKept DEF Actors
  <2> QED BY <2>1, <2>3
<1> QED BY <1>3, <1>4 DEF MapFile

-----------------------------------------------------------------------------
(* The disk                                                                *)

(* An edit of a file is reported, or joins the gap: a file that is settled *)
(* after an edit was not edited.                                           *)
LEMMA EditFacts ==
    ASSUME ReloadInv, VolumeInv, NEW f \in Files, Edit(f)
    PROVE  /\ \A g \in Files : g # f =>
                 /\ disk'[g] = disk[g] /\ knote'[g] = knote[g]
                 /\ g \in gap' <=> g \in gap
                 /\ disk[g] # None => version'[disk[g]] = version[disk[g]]
           /\ f \in gap => f \in gap'
           /\ f \notin gap' => ~Settled(f)'
           /\ knote[f] = Unarmed =>
                 knote'[f] = Unarmed /\ (disk[f] # None => f \in gap')
           /\ knote'[f].inode = knote[f].inode
           /\ UNCHANGED <<fd, stale, deleted, content, out, pc, target>>
           /\ edits' = edits + 1
           /\ disk'[f] \in {disk[f], None, NewInode}
           /\ gap' \subseteq Files
           /\ knote' \in [Files -> [inode : Inodes \union {None},
                                    flags : SUBSET Flags]]
<1>1. /\ disk \in [Files -> Inodes \union {None}]
      /\ version \in [Inodes -> 0 .. MaxEdits] /\ edits \in 0 .. MaxEdits
      /\ edits < MaxEdits
      /\ knote \in [Files -> [inode : Inodes \union {None},
                              flags : SUBSET Flags]]
      /\ gap \subseteq Files
  BY VolumeFacts DEF Edit, VolumeTypes
<1>2. /\ UNCHANGED <<fd, stale, deleted, content, out, pc, target>>
      /\ edits' = edits + 1
  BY DEF Edit, mountVars, pollVars
<1>3. NewInode \in Inodes /\ \A g \in Files : disk[g] # NewInode
  <2>1. \A g \in Files : disk[g] <= FileCount + edits /\ disk[g] \in Nat
    BY <1>1, VolumeFacts DEF InodesApart, Inodes, None
  <2> QED BY <1>1, <2>1 DEF NewInode, Inodes
<1>4. ASSUME NEW flag \in Flags, Post(f, flag), disk[f] # None
      PROVE  /\ \A g \in Files : g # f => knote'[g] = knote[g]
             /\ \A g \in Files : g # f => (g \in gap' <=> g \in gap)
             /\ f \in gap => f \in gap'
             /\ f \notin gap' => knote'[f].flags # {}
             /\ knote[f] = Unarmed => knote'[f] = Unarmed /\ f \in gap'
             /\ knote'[f].inode = knote[f].inode
             /\ gap' \subseteq Files
             /\ knote' \in [Files -> [inode : Inodes \union {None},
                                      flags : SUBSET Flags]]
  <2>1. knote[f] \in [inode : Inodes \union {None}, flags : SUBSET Flags]
    BY <1>1
  <2>2. CASE knote[f].inode = disk[f]
    <3>1. /\ knote' = [knote EXCEPT ![f].flags = @ \union {flag}]
          /\ gap' = gap
      BY <1>4, <2>2 DEF Post
    <3>2. knote'[f] = [knote[f] EXCEPT !.flags = @ \union {flag}]
      BY <1>1, <3>1
    <3>3. /\ knote'[f].flags = knote[f].flags \union {flag}
          /\ knote'[f].inode = knote[f].inode
          /\ knote'[f] \in [inode : Inodes \union {None}, flags : SUBSET Flags]
      BY <2>1, <3>2
    <3>4. knote' \in [Files -> [inode : Inodes \union {None},
                                flags : SUBSET Flags]]
      BY <1>1, <3>1, <3>3
    <3>5. \A g \in Files : g # f => knote'[g] = knote[g]
      BY <1>1, <3>1
    <3>6. knote[f] # Unarmed
      BY <1>4, <2>2 DEF Unarmed
    <3> QED BY <1>1, <3>1, <3>3, <3>4, <3>5, <3>6
  <2>3. CASE knote[f].inode # disk[f]
    <3>1. /\ knote' = knote
          /\ gap' = IF "delete" \in knote[f].flags THEN gap ELSE gap \union {f}
      BY <1>4, <2>3 DEF Post
    <3>2. knote[f] = Unarmed => f \in gap'
      BY <3>1 DEF Unarmed
    <3> QED BY <1>1, <3>1, <3>2
  <2> QED BY <2>2, <2>3
<1>5. Settled(f)' => knote'[f].flags = {}
  BY DEF Settled
<1>6. CASE /\ disk[f] # None /\ UNCHANGED disk /\ Post(f, "write")
           /\ version' = [version EXCEPT ![disk[f]] = edits + 1]
  <2>1. \A g \in Files : g # f /\ disk[g] # None =>
           version'[disk[g]] = version[disk[g]]
    <3>1. \A g \in Files : g # f /\ disk[g] # None => disk[g] # disk[f]
      BY VolumeFacts DEF InodesApart
    <3> QED BY <1>1, <1>6, <3>1
  <2> QED BY <1>2, <1>4, <1>5, <1>6, <2>1 DEF Flags
<1>7. CASE /\ disk[f] # None /\ disk' = [disk EXCEPT ![f] = None]
           /\ Post(f, "delete") /\ UNCHANGED version
  BY <1>1, <1>2, <1>4, <1>5, <1>7 DEF Flags
<1>8. CASE /\ disk[f] = None /\ disk' = [disk EXCEPT ![f] = NewInode]
           /\ version' = [version EXCEPT ![NewInode] = edits + 1]
           /\ UNCHANGED <<knote, gap>>
  <2>1. \A g \in Files : g # f /\ disk[g] # None =>
           version'[disk[g]] = version[disk[g]]
    BY <1>1, <1>3, <1>8
  <2>2. f \notin gap' => ~Settled(f)'
    <3>1. ASSUME f \notin gap, Settled(f)' PROVE FALSE
      <4>1. Settled(f)
        BY <1>2, <1>8, <3>1 DEF Settled
      <4>2. fd[f] = disk[f] /\ fd[f] # None
        BY <3>1, <4>1, VolumeFacts DEF NothingOverlooked, Settled
      <4> QED BY <1>8, <4>2
    <3> QED BY <1>8, <3>1
  <2> QED BY <1>1, <1>2, <1>8, <2>1, <2>2
<1>9. CASE /\ disk[f] # None /\ disk' = [disk EXCEPT ![f] = NewInode]
           /\ version' = [version EXCEPT ![NewInode] = edits + 1]
           /\ Post(f, "delete")
  <2>1. \A g \in Files : g # f /\ disk[g] # None =>
           version'[disk[g]] = version[disk[g]]
    BY <1>1, <1>3, <1>9
  <2> QED BY <1>1, <1>2, <1>4, <1>5, <1>9, <2>1 DEF Flags
<1> QED BY <1>6, <1>7, <1>8, <1>9 DEF Edit

LEMMA EditKeeps ==
    ASSUME ReloadInv, VolumeInv, LoadInv, NEW f \in Files, Edit(f),
           UNCHANGED actorVars
    PROVE  VolumeInv' /\ LoadInv'
<1>1. \A g \in Files : g \notin gap' /\ Settled(g)' =>
         /\ g # f /\ g \notin gap /\ Settled(g)
         /\ disk'[g] = disk[g] /\ version'[disk[g]] = version[disk[g]]
  <2>1. SUFFICES ASSUME NEW g \in Files, g \notin gap', Settled(g)'
                 PROVE  /\ g # f /\ g \notin gap /\ Settled(g)
                        /\ disk'[g] = disk[g]
                        /\ version'[disk[g]] = version[disk[g]]
    OBVIOUS
  <2>2. /\ g # f /\ g \notin gap
        /\ UNCHANGED <<fd, stale, deleted, out>> /\ knote'[g] = knote[g]
        /\ disk'[g] = disk[g]
        /\ disk[g] # None => version'[disk[g]] = version[disk[g]]
    BY <2>1, EditFacts
  <2>3. Settled(g)
    BY <2>1, <2>2 DEF Settled
  <2>4. disk[g] # None
    BY <2>2, <2>3, VolumeFacts DEF NothingOverlooked, Settled
  <2> QED BY <2>2, <2>3, <2>4
<1>2. VolumeTypes'
  BY EditFacts, VolumeFacts DEF VolumeTypes
<1>3. InodesApart'
  <2>1. /\ disk \in [Files -> Inodes \union {None}] /\ edits \in Nat
        /\ edits' = edits + 1
        /\ \A g \in Files : g # f => disk'[g] = disk[g]
        /\ disk'[f] \in {disk[f], None, NewInode}
        /\ \A g \in Files : disk[g] <= FileCount + edits
        /\ \A g, h \in Files : disk[g] # None /\ disk[g] = disk[h] => g = h
    BY EditFacts, VolumeFacts DEF InodesApart
  <2>2. \A g \in Files : disk[g] \in Nat
    BY <2>1 DEF Inodes, None
  <2>3. /\ \A g \in Files : /\ disk[g] <= FileCount + (edits + 1)
                            /\ disk[g] # NewInode
        /\ NewInode <= FileCount + (edits + 1) /\ None <= FileCount + (edits + 1)
    BY <2>1, <2>2 DEF NewInode, None
  <2>4. \A g \in Files : disk'[g] <= FileCount + (edits + 1)
    BY <2>1, <2>3
  <2>5. \A g, h \in Files : disk'[g] # None /\ disk'[g] = disk'[h] => g = h
    BY <2>1, <2>3
  <2> QED BY <2>1, <2>4, <2>5 DEF InodesApart
<1>4. WatchesOpen'
  <2>1. \A g \in Files : knote[g] = Unarmed \/ knote[g].inode = fd[g]
    BY VolumeFacts DEF WatchesOpen
  <2>2. \A g \in Files : knote'[g] = Unarmed \/ knote'[g].inode = fd[g]
    BY <2>1, EditFacts
  <2> QED BY <2>2, EditFacts DEF WatchesOpen
<1>5. OutNoted'
  BY EditFacts, VolumeFacts DEF OutNoted
<1>6. Reloading'
  <2>1. /\ UNCHANGED <<fd, stale, pc, target>> /\ target \in Files
        /\ pc \in {"open", "map"} => stale[target]
    BY EditFacts, VolumeFacts DEF Reloading
  <2>2. ASSUME pc = "map"
        PROVE  /\ fd[target] # None /\ knote'[target] = Unarmed
               /\ target \notin gap' => fd[target] = disk'[target]
    <3>1. /\ fd[target] # None /\ knote[target] = Unarmed
          /\ target \notin gap => fd[target] = disk[target]
      BY <2>2, VolumeFacts DEF Reloading
    <3>2. CASE target = f
      BY <3>1, <3>2, EditFacts
    <3>3. CASE target # f
      BY <2>1, <3>1, <3>3, EditFacts
    <3> QED BY <3>2, <3>3
  <2> QED BY <2>1, <2>2 DEF Reloading
<1>7. NothingOverlooked'
  <2>1. UNCHANGED <<fd, content>>
    BY EditFacts
  <2>2. \A g \in Files \ gap :
           Settled(g) => fd[g] = disk[g] /\ content[g] = version[disk[g]]
    BY VolumeFacts DEF NothingOverlooked
  <2>3. \A g \in Files \ gap' :
           Settled(g)' => fd'[g] = disk'[g] /\ content'[g] = version'[disk'[g]]
    BY <1>1, <2>1, <2>2
  <2> QED BY <2>3 DEF NothingOverlooked
<1>8. LoadInv'
  <2>1. UNCHANGED <<loaded, handles, current, needs, dispatch, pc, target>>
    BY EditFacts DEF actorVars
  <2>2. \A a \in Actors : Installed(a)' = Installed(a)
    BY <2>1 DEF Installed
  <2>3. \A a \in Actors \ gap' : Settled(a)' =>
           /\ a \in Actors \ gap /\ Settled(a)
           /\ version'[disk'[a]] = version[disk[a]]
    BY <1>1 DEF Actors
  <2> QED BY <2>1, <2>2, <2>3 DEF LoadInv
<1> QED BY <1>2, <1>3, <1>4, <1>5, <1>6, <1>7, <1>8 DEF VolumeInv

-----------------------------------------------------------------------------
(* The reloader and the callers                                            *)

LEMMA UpdateKeeps ==
    ASSUME ReloadInv, VolumeInv, LoadInv, Update
    PROVE  VolumeInv' /\ LoadInv'
<1>1. /\ UNCHANGED <<diskVars, knote, mountVars, out, gap>>
      /\ UNCHANGED <<loaded, handles, current, dispatch>>
      /\ pc = "polled" /\ pc' = "actor"
      /\ \A a \in Actors : needs'[a] = (needs[a] \/ stale[a])
  BY DEF Update, pollVars
<1>2. VolumeInv'
  BY <1>1, VolumeKept
<1>3. \A f \in Files : Settled(f)' => Settled(f)
  BY <1>1 DEF Settled, mountVars
<1>4. LoadInv'
  BY <1>1, <1>3, LoadKept DEF diskVars, Actors
<1> QED BY <1>2, <1>4

(* The reloader goes on to another actor, or finds out what to do with it. *)
LEMMA ConsiderKeeps ==
    ASSUME ReloadInv, VolumeInv, LoadInv, NextActor \/ Consider
    PROVE  VolumeInv' /\ LoadInv'
<1>1. /\ UNCHANGED <<diskVars, knote, mountVars, out, gap>>
      /\ UNCHANGED <<loaded, handles, current, needs, dispatch>>
      /\ pc \in {"next", "actor"}
      /\ pc' \in {"actor", "poll", "next", "open", "dlopen"}
      /\ pc' \in {"open", "dlopen"} => needs'[target']
      /\ pc' = "open" => stale[target']
  BY DEF NextActor, Consider, pollVars, actorVars
<1>2. VolumeInv'
  BY <1>1, VolumeKept
<1>3. \A f \in Files : Settled(f)' => Settled(f)
  BY <1>1 DEF Settled, mountVars
<1>4. LoadInv'
  BY <1>1, <1>3, LoadKept DEF diskVars, Actors
<1> QED BY <1>2, <1>4

(* A library that is opened has the content that is on disk.               *)
LEMMA DlopenKeeps ==
    ASSUME ReloadInv, VolumeInv, LoadInv, Dlopen
    PROVE  VolumeInv' /\ LoadInv'
<1>1. /\ UNCHANGED <<diskVars, knote, mountVars, out, gap, target>>
      /\ UNCHANGED <<handles, current, needs, dispatch>>
      /\ pc = "dlopen" /\ pc' \in {"dlsym", "next"}
  BY DEF Dlopen, pollVars
<1>2. VolumeInv'
  BY <1>1, VolumeKept
<1>3. \A f \in Files : Settled(f)' <=> Settled(f)
  BY <1>1 DEF Settled, mountVars
<1>4. CASE /\ disk[target] # None /\ pc' = "dlsym"
           /\ loaded' = Append(loaded, version[disk[target]])
  <2>1. needs[target] /\ \A a \in Actors : Installed(a) = 0 /\ Installed(a)' = 0
    BY <1>1, <1>4 DEF LoadInv, Installed
  <2>. DEFINE S == 0 .. MaxEdits
  <2>2. loaded \in Seq(S) /\ version[disk[target]] \in S
    BY <1>4, VolumeFacts DEF ReloadInv, ActorTypeOK
  <2>. HIDE DEF S
  <2>3. /\ Len(loaded') = Len(loaded) + 1
        /\ loaded'[Len(loaded')] = version[disk[target]]
        /\ \A l \in 1 .. Len(loaded) : loaded'[l] = loaded[l]
    BY <1>4, <2>2
  <2>4. \A a \in Actors : dispatch[a] \in 1 .. Len(loaded)
    BY DEF ReloadInv, ActorTypeOK, Libraries
  <2>5. ASSUME NEW a \in Actors \ gap, Settled(a), ~needs[a]
        PROVE  loaded'[dispatch[a]] = version[disk[a]]
    <3>1. loaded[dispatch[a]] = version[disk[a]]
      BY <2>1, <2>5 DEF LoadInv
    <3> QED BY <2>3, <2>4, <3>1
  <2>6. LoadInv'
    <3>1. UNCHANGED <<disk, version, gap, target, handles, current, needs,
                      dispatch>>
      BY <1>1 DEF diskVars
    <3>2. \A a \in Actors \ gap' : Settled(a)' => a \in Actors \ gap /\ Settled(a)
      BY <1>3, <3>1 DEF Actors
    <3>3. ASSUME NEW a \in Actors \ gap', Settled(a)'
          PROVE  /\ ~needs'[a] => loaded'[dispatch'[a]] = version'[disk'[a]]
                 /\ target' = a => loaded'[Len(loaded')] = version'[disk'[a]]
      BY <2>3, <2>5, <3>1, <3>2, <3>3
    <3>4. /\ needs'[target']
          /\ \A a \in Actors : Installed(a)' = 0
      BY <2>1, <3>1
    <3> QED BY <3>3, <3>4 DEF LoadInv
  <2> QED BY <1>2, <2>6
<1>5. CASE pc' = "next" /\ UNCHANGED loaded
  BY <1>1, <1>2, <1>3, <1>5, LoadKept DEF diskVars, Actors
<1> QED BY <1>4, <1>5 DEF Dlopen

LEMMA InstallKeeps ==
    ASSUME ReloadInv, VolumeInv, LoadInv, Install
    PROVE  VolumeInv' /\ LoadInv'
<1>1. /\ UNCHANGED <<diskVars, knote, mountVars, out, gap, target>>
      /\ UNCHANGED <<loaded, dispatch>>
      /\ pc = "install" /\ pc' = "dispatch" /\ target \in Actors
      /\ handles' = [handles EXCEPT ![target][NextSlot(target)] = Len(loaded)]
      /\ current' = [current EXCEPT ![target] = NextSlot(target)]
      /\ needs' = [needs EXCEPT ![target] = FALSE]
  BY DEF Install, pollVars, ReloadInv, ActorTypeOK
<1>2. VolumeInv'
  BY <1>1, VolumeKept
<1>3. \A f \in Files : Settled(f)' <=> Settled(f)
  BY <1>1 DEF Settled, mountVars
<1>4. NextSlot(target) \in Slots
  BY <1>1, NextSlotValue DEF ReloadInv
<1>5. /\ handles'[target][current'[target]] = Len(loaded)
      /\ ~needs'[target]
      /\ \A a \in Actors : a # target => needs'[a] = needs[a]
  BY <1>1, <1>4 DEF ReloadInv, ActorTypeOK
<1>6. \A a \in Actors : /\ Installed(a) = 0
                        /\ Installed(a)' = IF a = target THEN 1 ELSE 0
  BY <1>1 DEF Installed
<1>7. ASSUME NEW a \in Actors \ gap, Settled(a)
      PROVE  /\ a # target /\ ~needs'[a]
                   => loaded[dispatch[a]] = version[disk[a]]
             /\ a = target => loaded[Len(loaded)] = version[disk[a]]
  <2>1. /\ ~needs[a] /\ Installed(a) = 0
                 => loaded[dispatch[a]] = version[disk[a]]
        /\ target = a => loaded[Len(loaded)] = version[disk[a]]
    BY <1>1, <1>7 DEF LoadInv
  <2> QED BY <1>5, <1>6, <2>1
<1>8. LoadInv'
  BY <1>1, <1>3, <1>5, <1>6, <1>7 DEF LoadInv, diskVars, Actors
<1> QED BY <1>2, <1>8

LEMMA StoreDispatchKeeps ==
    ASSUME ReloadInv, VolumeInv, LoadInv, StoreDispatch
    PROVE  VolumeInv' /\ LoadInv'
<1>1. /\ UNCHANGED <<diskVars, knote, mountVars, out, gap, target>>
      /\ UNCHANGED <<loaded, handles, current, needs>>
      /\ pc = "dispatch" /\ pc' = "next" /\ target \in Actors
      /\ dispatch' =
            [dispatch EXCEPT ![target] = handles[target][current[target]]]
  BY DEF StoreDispatch, pollVars, ReloadInv, ActorTypeOK
<1>2. VolumeInv'
  BY <1>1, VolumeKept
<1>3. \A f \in Files : Settled(f)' <=> Settled(f)
  BY <1>1 DEF Settled, mountVars
<1>4. /\ dispatch'[target] = handles[target][current[target]]
      /\ \A a \in Actors : a # target => dispatch'[a] = dispatch[a]
  BY <1>1 DEF ReloadInv, ActorTypeOK
<1>5. \A a \in Actors : /\ Installed(a) = IF a = target THEN 1 ELSE 0
                        /\ Installed(a)' = 0
  BY <1>1 DEF Installed
<1>6. ASSUME NEW a \in Actors \ gap, Settled(a), ~needs[a]
      PROVE  loaded[dispatch'[a]] = version[disk[a]]
  BY <1>4, <1>5, <1>6 DEF LoadInv
<1>7. LoadInv'
  BY <1>1, <1>3, <1>5, <1>6 DEF LoadInv, diskVars, Actors
<1> QED BY <1>2, <1>7

(* Steps in which a reload goes on, or a caller comes or goes.             *)
LEMMA SymbolKeeps ==
    ASSUME ReloadInv, VolumeInv, LoadInv,
           UNCHANGED <<diskVars, knote, mountVars, out, gap, target>>,
           UNCHANGED <<loaded, handles, current, needs, dispatch>>,
           \/ pc = "dlsym" /\ pc' \in {"dlclose", "next"}
           \/ pc = "dlclose" /\ pc' = "install"
    PROVE  VolumeInv' /\ LoadInv'
<1>1. VolumeInv'
  BY VolumeKept
<1>2. \A f \in Files : Settled(f)' <=> Settled(f)
  BY DEF Settled, mountVars
<1>3. \A a \in Actors : Installed(a) = 0 /\ Installed(a)' = 0
  BY DEF Installed
<1>4. LoadInv'
  BY <1>2, <1>3 DEF LoadInv, diskVars, Actors
<1> QED BY <1>1, <1>4

LEMMA StutterKeeps ==
    ASSUME ReloadInv, VolumeInv, LoadInv, UNCHANGED volumeVars,
           UNCHANGED <<loaded, handles, current, needs, dispatch>>
    PROVE  VolumeInv' /\ LoadInv'
<1>. USE DEF volumeVars
<1>1. VolumeTypes' /\ InodesApart' /\ WatchesOpen'
  BY VolumeFacts DEF VolumeTypes, InodesApart, WatchesOpen
<1>2. OutNoted' /\ Reloading'
  BY VolumeFacts DEF OutNoted, Reloading
<1>3. \A f \in Files : Settled(f)' <=> Settled(f)
  BY DEF Settled
<1>4. NothingOverlooked'
  BY <1>3, VolumeFacts DEF NothingOverlooked
<1>5. LoadInv'
  BY <1>3 DEF LoadInv, Installed, Actors
<1> QED BY <1>1, <1>2, <1>4, <1>5 DEF VolumeInv

LEMMA InitVolumeInv == Init => VolumeInv /\ LoadInv
<1>. SUFFICES ASSUME Init PROVE VolumeInv /\ LoadInv
  OBVIOUS
<1>. USE DEF Init, VolumeInit
<1>1. VolumeTypes
  <2>1. Unarmed \in [inode : Inodes \union {None}, flags : SUBSET Flags]
    BY DEF Unarmed
  <2>2. \A f \in Files : f + 1 \in Inodes
    BY DEF Files, Inodes
  <2> QED BY <2>1, <2>2 DEF VolumeTypes
<1>2. InodesApart /\ WatchesOpen /\ OutNoted /\ Reloading
  BY DEF InodesApart, WatchesOpen, OutNoted, Reloading, Files
<1>3. \A f \in Files : /\ fd[f] = disk[f] /\ content[f] = 0
                       /\ version[disk[f]] = 0 /\ loaded[dispatch[f]] = 0
  <2>1. \A f \in Files : f + 1 \in Inodes /\ f + 1 \in 1 .. FileCount
    BY DEF Files, Inodes
  <2> QED BY <2>1 DEF Actors
<1>4. NothingOverlooked
  BY <1>3 DEF NothingOverlooked
<1>5. LoadInv
  BY <1>3 DEF LoadInv, Installed, Actors
<1> QED BY <1>1, <1>2, <1>4, <1>5 DEF VolumeInv

LEMMA VolumeInvInductive ==
    ASSUME ReloadInv, VolumeInv, LoadInv, [Next]_vars
    PROVE  VolumeInv' /\ LoadInv'
<1>1. CASE Volume
  BY <1>1, PollKeeps, OpenFileKeeps, MapFileKeeps DEF Volume
<1>2. CASE Update
  BY <1>2, UpdateKeeps
<1>3. CASE NextActor \/ Consider
  BY <1>3, ConsiderKeeps
<1>4. CASE Dlopen
  BY <1>4, DlopenKeeps
<1>5. CASE Dlsym \/ Dlclose
  <2>1. /\ UNCHANGED <<diskVars, knote, mountVars, out, gap, target>>
        /\ UNCHANGED <<loaded, handles, current, needs, dispatch>>
        /\ \/ pc = "dlsym" /\ pc' \in {"dlclose", "next"}
           \/ pc = "dlclose" /\ pc' = "install"
    BY <1>5 DEF Dlsym, Dlclose, pollVars, actorVars
  <2> QED BY <2>1, SymbolKeeps
<1>6. CASE Install
  BY <1>6, InstallKeeps
<1>7. CASE StoreDispatch
  BY <1>7, StoreDispatchKeeps
<1>8. ASSUME NEW a \in Actors, Caller(a) PROVE VolumeInv' /\ LoadInv'
  <2>1. UNCHANGED <<volumeVars, loaded, handles, current, needs, dispatch>>
    BY <1>8 DEF Caller, Call, Return
  <2> QED BY <2>1, StutterKeeps
<1>9. ASSUME NEW f \in Files, Edit(f), UNCHANGED actorVars
      PROVE  VolumeInv' /\ LoadInv'
  BY <1>9, EditKeeps
<1>10. CASE UNCHANGED vars
  BY <1>10, StutterKeeps DEF vars, actorVars
<1> QED BY <1>1, <1>2, <1>3, <1>4, <1>5, <1>6, <1>7, <1>8, <1>9, <1>10
        DEF Next, Reloader

(* What the volume knows of its files, and what the actors know of their   *)
(* libraries, is as VolumeInv and LoadInv say, throughout.                 *)
THEOREM VolumeInvariant == Spec => [](VolumeInv /\ LoadInv)
<1>1. ReloadInv /\ (VolumeInv /\ LoadInv) /\ [Next]_vars
        => (VolumeInv /\ LoadInv)'
  BY VolumeInvInductive
<1> QED BY <1>1, ReloadInvariant, InitVolumeInv, PTL DEF Spec

(* What the volume has no reason to look at is what is on disk, unless the *)
(* file was edited while it was not watched.                               *)
THEOREM VolumeOverlooksNothing == Spec => []NothingOverlooked
<1>1. VolumeInv => NothingOverlooked
  BY DEF VolumeInv
<1> QED BY <1>1, VolumeInvariant, PTL

(* A reloader that waits has the code on disk installed and dispatched to, *)
(* unless a reload failed or the file was edited while it was not watched. *)
THEOREM ReloaderSleepsUpToDate == Spec => []SleepsUpToDate
<1>1. LoadInv => SleepsUpToDate
  BY DEF LoadInv, SleepsUpToDate, Installed
<1> QED BY <1>1, VolumeInvariant, PTL
=============================================================================
