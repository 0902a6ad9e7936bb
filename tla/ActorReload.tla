---------------------------- MODULE ActorReload ----------------------------
(***************************************************************************)
(* Hot reloading of code: the actor-reloader thread                        *)
(* (MusicStudio/State.cpp, actor_reloader_loop) waits for changes of the   *)
(* actors' libraries and loads them again (LibCore/Actor.c), while the     *)
(* audio and main threads keep calling the actors' dispatch functions.     *)
(* Actor a's library is file a of the volume.  An open library is a number *)
(* in the order of the dlopen calls; 0 is a null handle.  A linker makes a *)
(* new file; a library that is written in place would be the same library  *)
(* to dlopen, so "write" is not among the edits of this module's runs.     *)
(***************************************************************************)
EXTENDS FSVolume

CONSTANT HandleCount    \* ARRAY_SIZE(Actor.handles), 8 in the code

ASSUME ActorAssumption == HandleCount \in Nat /\ HandleCount >= 2

VARIABLES
    (* dlopen and dlclose: external *)
    loaded,     \* the content of every library opened so far
    open,       \* the libraries that are open
    (* Actor *)
    handles, current, needs, dispatch,
    (* the audio and the main thread *)
    call        \* per actor: the library its caller is in, and the number of
                \* stores to dispatch since the caller read it

actorVars == <<loaded, open, handles, current, needs, dispatch, call>>
vars == <<volumeVars, actorVars>>

Actors == Files
Slots  == 0 .. HandleCount - 1
Idle   == [library |-> None, stores |-> 0]

Libraries == 1 .. Len(loaded)

ActorTypeOK ==
    /\ pc \in {"poll", "kevent", "reopen", "note", "reopen again", "polled",
               "actor", "open", "map", "dlopen", "dlsym", "dlclose",
               "install", "dispatch", "next"}
    /\ target \in Actors
    /\ loaded \in Seq(0 .. MaxEdits)
    /\ open \subseteq Libraries
    /\ handles \in [Actors -> [Slots -> Libraries \union {None}]]
    /\ current \in [Actors -> Slots]
    /\ needs \in [Actors -> BOOLEAN]
    /\ dispatch \in [Actors -> Libraries]
    /\ call \in [Actors -> [library : Libraries \union {None}, stores : Nat]]

(* actor_init_reloadable has opened each library once.                     *)
Init ==
    /\ VolumeInit
    /\ loaded = [a \in 1 .. FileCount |-> 0]
    /\ open = 1 .. FileCount
    /\ handles = [a \in Actors |-> [s \in Slots |-> IF s = 0 THEN a + 1
                                                    ELSE None]]
    /\ current = [a \in Actors |-> 0]
    /\ needs = [a \in Actors |-> FALSE]
    /\ dispatch = [a \in Actors |-> a + 1]
    /\ call = [a \in Actors |-> Idle]

-----------------------------------------------------------------------------
(* The reloader                                                            *)

(* Mutant: the flag follows the file, and forgets a reload that failed.    *)
Update_FollowsFile ==
    /\ pc = "polled"
    /\ needs' = [a \in Actors |-> stale[a]]
    /\ target' = 0
    /\ pc' = "actor"
    /\ UNCHANGED <<diskVars, knote, mountVars, pollVars, failures, gap,
                   loaded, open, handles, current, dispatch, call>>

(* The events are dropped; actor_update looks at the files.                *)
Update ==
    /\ pc = "polled"
    /\ needs' = [a \in Actors |-> needs[a] \/ stale[a]]
    /\ target' = 0
    /\ pc' = "actor"
    /\ UNCHANGED <<diskVars, knote, mountVars, pollVars, failures, gap,
                   loaded, open, handles, current, dispatch, call>>

(* audio first, then layout.                                               *)
NextActor ==
    /\ pc = "next"
    /\ \/ /\ target < FileCount - 1
          /\ target' = target + 1
          /\ pc' = "actor"
       \/ /\ target = FileCount - 1
          /\ pc' = "poll"
          /\ UNCHANGED target
    /\ UNCHANGED <<diskVars, knote, mountVars, pollVars, failures, gap, actorVars>>

(* actor_reload: what there is to do.                                      *)
Consider ==
    /\ pc = "actor"
    /\ pc' = CASE ~needs[target] -> "next"
               [] needs[target] /\ stale[target] -> "open"
               [] OTHER -> "dlopen"
    /\ UNCHANGED <<diskVars, knote, mountVars, pollVars, target, failures,
                   gap, actorVars>>

(* A failed reload leaves needs_reload set; it is tried again when the     *)
(* next poll returns.                                                      *)
Dlopen ==
    /\ pc = "dlopen"
    /\ \/ /\ disk[target] # None
          /\ loaded' = Append(loaded, version[disk[target]])
          /\ open' = open \union {Len(loaded) + 1}
          /\ pc' = "dlsym"
          /\ UNCHANGED failures
       \/ /\ disk[target] = None
          /\ pc' = "next"
          /\ UNCHANGED <<loaded, open, failures>>
       \/ /\ EnvironmentFails
          /\ pc' = "next"
          /\ UNCHANGED <<loaded, open>>
    /\ UNCHANGED <<diskVars, knote, mountVars, pollVars, target, gap,
                   handles, current, needs, dispatch, call>>

(* A library without the symbol is never closed.                           *)
Dlsym ==
    /\ pc = "dlsym"
    /\ \/ pc' = "dlclose" /\ UNCHANGED failures
       \/ pc' = "next" /\ EnvironmentFails
    /\ UNCHANGED <<diskVars, knote, mountVars, pollVars, target, gap, actorVars>>

NextSlot(a) == (current[a] + 1) % HandleCount

(* Mutant: closes the library that is in use.                              *)
Dlclose_Current ==
    /\ pc = "dlclose"
    /\ open' = open \ {handles[target][current[target]]}
    /\ pc' = "install"
    /\ UNCHANGED <<diskVars, knote, mountVars, pollVars, target, failures, gap,
                   loaded, handles, current, needs, dispatch, call>>

(* The oldest library makes room.                                          *)
Dlclose ==
    /\ pc = "dlclose"
    /\ open' = open \ {handles[target][NextSlot(target)]}
    /\ pc' = "install"
    /\ UNCHANGED <<diskVars, knote, mountVars, pollVars, target, failures, gap,
                   loaded, handles, current, needs, dispatch, call>>

(* Mutant: current_handle is not advanced.                                 *)
Install_KeepsCurrent ==
    /\ pc = "install"
    /\ handles' = [handles EXCEPT ![target][NextSlot(target)] = Len(loaded)]
    /\ needs' = [needs EXCEPT ![target] = FALSE]
    /\ pc' = "dispatch"
    /\ UNCHANGED <<diskVars, knote, mountVars, pollVars, target, failures, gap,
                   loaded, open, current, dispatch, call>>

Install ==
    /\ pc = "install"
    /\ handles' = [handles EXCEPT ![target][NextSlot(target)] = Len(loaded)]
    /\ current' = [current EXCEPT ![target] = NextSlot(target)]
    /\ needs' = [needs EXCEPT ![target] = FALSE]
    /\ pc' = "dispatch"
    /\ UNCHANGED <<diskVars, knote, mountVars, pollVars, target, failures, gap,
                   loaded, open, dispatch, call>>

StoreDispatch ==
    /\ pc = "dispatch"
    /\ dispatch' = [dispatch EXCEPT ![target] = handles[target][current[target]]]
    /\ call' = [call EXCEPT ![target].stores =
                  IF call[target] = Idle THEN 0 ELSE @ + 1]
    /\ pc' = "next"
    /\ UNCHANGED <<diskVars, knote, mountVars, pollVars, target, failures, gap,
                   loaded, open, handles, current, needs>>

Volume ==
    /\ Poll \/ OpenFile("next") \/ MapFile("dlopen", "next")
    /\ UNCHANGED actorVars

Reloader ==
    \/ Volume \/ Update \/ NextActor \/ Consider
    \/ Dlopen \/ Dlsym \/ Dlclose \/ Install \/ StoreDispatch

-----------------------------------------------------------------------------
(* The callers: audio_frame and layout_frame                               *)

Call(a) ==
    /\ call[a] = Idle
    /\ call' = [call EXCEPT ![a] = [library |-> dispatch[a], stores |-> 0]]
    /\ UNCHANGED <<volumeVars, loaded, open, handles, current, needs, dispatch>>

Return(a) ==
    /\ call[a] # Idle
    /\ call' = [call EXCEPT ![a] = Idle]
    /\ UNCHANGED <<volumeVars, loaded, open, handles, current, needs, dispatch>>

Caller(a) == Call(a) \/ Return(a)

Next ==
    \/ Reloader
    \/ \E a \in Actors : Caller(a)
    \/ \E f \in Files : Edit(f) /\ UNCHANGED actorVars

Spec == Init /\ [][Next]_vars

(* The reloader does not stop; callers and editors do as they like.        *)
FairSpec == Spec /\ WF_vars(Reloader)

-----------------------------------------------------------------------------
(* Properties                                                              *)

(* No code is taken away under a caller: the library a call is in stays    *)
(* open while fewer than HandleCount - 1 reloads complete during the call, *)
(* however its read of dispatch falls between the steps of a reload.       *)
CallsSurvive ==
    \A a \in Actors :
        call[a].library # None /\ call[a].stores < HandleCount - 1
            => call[a].library \in open

(* Why: the library a call is in is as many slots behind current as        *)
(* reloads completed since it began, and the slot that is closed next is   *)
(* HandleCount - 1 behind.                                                 *)
Behind(i, k) == IF i >= k THEN i - k ELSE i - k + HandleCount

Installed(a) == IF pc = "dispatch" /\ target = a THEN 1 ELSE 0

HandlesOpen ==
    \A a \in Actors, s \in Slots :
        \/ handles[a][s] \in open \union {None}
        \/ pc = "install" /\ a = target /\ s = NextSlot(a)

HandlesDistinct ==
    \A a, b \in Actors : \A s, t \in Slots :
        handles[a][s] # None /\ handles[a][s] = handles[b][t]
            => a = b /\ s = t

NewIsFresh ==
    pc \in {"dlsym", "dlclose", "install"} =>
        /\ Len(loaded) \in open
        /\ \A a \in Actors, s \in Slots : handles[a][s] # Len(loaded)

DispatchIsCurrent ==
    \A a \in Actors :
        /\ handles[a][current[a]] # None
        /\ dispatch[a] = handles[a][Behind(current[a], Installed(a))]

CallsAreBehind ==
    \A a \in Actors :
        call[a].library # None /\ call[a].stores < HandleCount - 1 =>
            call[a].library =
              handles[a][Behind(current[a], call[a].stores + Installed(a))]

RingInv ==
    HandlesOpen /\ HandlesDistinct /\ NewIsFresh /\ DispatchIsCurrent
    /\ CallsAreBehind

(* What the next call will enter is open.                                  *)
DispatchOpen == \A a \in Actors : dispatch[a] \in open

(* When the reloader waits with nothing left to look at, the code that     *)
(* will be called is the code on disk, but for files edited while nothing  *)
(* watched them.                                                           *)
SleepsUpToDate ==
    \A a \in Actors \ gap :
        pc \in {"poll", "kevent"} /\ Settled(a) /\ ~needs[a]
            => loaded[dispatch[a]] = version[disk[a]]

(* In the end the last edit of a library is loaded, unless its reload      *)
(* failed, which needs_reload keeps, or nothing watched the file.          *)
EventuallyLoaded ==
    \A a \in Actors :
        <>[](\/ disk[a] # None /\ loaded[dispatch[a]] = version[disk[a]]
             \/ needs[a] \/ a \in gap)

(* The last edit of a library is loaded in the end.                        *)
LatestLoaded ==
    \A a \in Actors :
        <>[](disk[a] # None => loaded[dispatch[a]] = version[disk[a]])
=============================================================================
