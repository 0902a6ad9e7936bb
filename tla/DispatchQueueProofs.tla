------------------------ MODULE DispatchQueueProofs ------------------------
(***************************************************************************)
(* DispatchInv is inductive for any number of workers, any ring size and   *)
(* any jobs; so no worker traps, no ring overflows, and after a sync       *)
(* every worker is idle.                                                   *)
(*                                                                         *)
(* ItemsInv adds where the items of the jobs are: every submitted item is  *)
(* not dealt yet, or in one batch of one ring, or has run, and has run     *)
(* once.  With it the queue is a refinement of ForkJoin.                   *)
(***************************************************************************)
EXTENDS DispatchQueue, TLAPS

USE DispatchAssumption DEF Count

(* The batch the caller is at is one that a ring can hold.                 *)
LEMMA BatchType ==
    ASSUME TypeOK, calls > 0
    PROVE  Batch \in Work
  BY DEF TypeOK, Batch, Work, Calls

LEMMA InRing ==
    ASSUME NEW n \in Nat
    PROVE  n % Slots \in 0 .. Slots - 1
  OBVIOUS

LEMMA CallbackType ==
    ASSUME TypeOK, NEW b \in Work \union {NoWork}, Callback(b)
    PROVE  ran' \in [Item -> Nat]
  BY DEF TypeOK, Callback

(* The suspended threads, with nothing queued, are as DispatchInv says.    *)
THEOREM InitDispatchInv == Init => DispatchInv
<1>. SUFFICES ASSUME Init PROVE DispatchInv
  OBVIOUS
<1>1. TypeOK
  BY DEF Init, TypeOK, Workers, CallerPCs, WorkerPCs
<1> QED
  BY <1>1
  DEF Init, DispatchInv, RingBounded, TokensMatch, NeverTraps, Trapped,
        CallerKnows

-----------------------------------------------------------------------------
(* The caller's steps                                                      *)

LEMMA DispatchStep ==
    ASSUME DispatchInv, NEW s \in Sizes, NEW b \in BatchSizes, Dispatch(s, b)
    PROVE  DispatchInv'
<1>. USE DEF DispatchInv, Dispatch, shared, worker
<1>1. TypeOK'
  <2>0. calls + 1 \in Calls
    BY DEF TypeOK, Calls
  <2>1. ASSUME NEW k \in 0 .. s - 1
        PROVE  <<calls + 1, k>> \in Item
    <3>1. k \in UNION {0 .. z - 1 : z \in Sizes}
      OBVIOUS
    <3> QED BY <2>0, <3>1 DEF Item
  <2>2. submitted' \in SUBSET Item
    BY <2>1 DEF TypeOK
  <2>3. /\ calls' \in 0 .. MaxCalls /\ size' \in Nat /\ batch' \in Nat
        /\ i' \in Nat /\ cpc' \in CallerPCs
    BY DEF TypeOK, CallerPCs
  <2> QED BY <2>2, <2>3 DEF TypeOK
<1>2. calls' > 0
  BY DEF TypeOK
<1> QED
  BY <1>1, <1>2 DEF RingBounded, TokensMatch, NeverTraps, Trapped,
        CallerKnows

LEMMA LoopSteps ==
    ASSUME DispatchInv, NextBatch \/ CheckRoom
    PROVE  DispatchInv'
<1>. USE DEF DispatchInv, CallerGoto, shared, worker, history
<1>1. CASE NextBatch
  <2>0. (robin % WorkerCount) + 1 \in Workers
    BY DEF TypeOK, Workers
  <2>2. /\ target' \in Workers /\ robin' \in Nat /\ cpc' \in CallerPCs
        /\ UNCHANGED <<calls, size, batch, i, slot, shared, worker, history>>
    <3>1. target \in Workers /\ robin + 1 \in Nat /\ robin \in Nat
      BY DEF TypeOK
    <3> HIDE DEF DispatchInv, Workers
    <3> QED BY <1>1, <2>0, <3>1 DEF NextBatch, CallerPCs
  <2>1. TypeOK'
    BY <2>2 DEF TypeOK
  <2> QED
    BY <1>1, <2>1
    DEF NextBatch, RingBounded, TokensMatch, NeverTraps, Trapped,
        CallerKnows
<1>2. CASE CheckRoom
  <2>1. TypeOK'
    BY <1>2 DEF CheckRoom, TypeOK, CallerPCs
  <2>2. work_count[target] \in Nat /\ done_count[target] \in Nat
    BY DEF TypeOK
  <2> QED
    BY <1>2, <2>1, <2>2
    DEF CheckRoom, RingBounded, TokensMatch, NeverTraps, Trapped,
        CallerKnows
<1> QED BY <1>1, <1>2

LEMMA RunInlineStep ==
    ASSUME DispatchInv, RunInline
    PROVE  DispatchInv'
<1>. USE DEF DispatchInv, RunInline, Advance, shared, worker
<1>1. TypeOK'
  <2>1. ran' \in [Item -> Nat]
    BY CallbackType, BatchType DEF CallerKnows
  <2>2. i' \in Nat /\ cpc' \in CallerPCs
    BY DEF TypeOK, CallerPCs
  <2> QED BY <2>1, <2>2 DEF TypeOK
<1> QED
  BY <1>1 DEF RingBounded, TokensMatch, NeverTraps, Trapped,
        CallerKnows

LEMMA StartThreadStep ==
    ASSUME DispatchInv, StartThread
    PROVE  DispatchInv'
<1>. USE DEF DispatchInv, StartThread, CallerGoto, worker, history
<1>1. TypeOK'
  BY DEF TypeOK, CallerPCs
<1> QED
  BY <1>1 DEF RingBounded, TokensMatch, NeverTraps, Trapped,
        CallerKnows

LEMMA ClaimSlotStep ==
    ASSUME DispatchInv, ClaimSlot
    PROVE  DispatchInv'
<1>. USE DEF DispatchInv, ClaimSlot, worker, history
<1>0. work_count[target] \in Nat /\ done_count[target] \in Nat
  BY DEF TypeOK
<1>1. TypeOK'
  <2>1. slot' \in 0 .. Slots - 1
    BY <1>0, InRing
  <2>2. work_count' \in [Workers -> Nat]
    BY <1>0 DEF TypeOK
  <2>3. /\ cpc' \in CallerPCs
        /\ UNCHANGED <<calls, size, batch, i, robin, target, suspended,
                        there_is_work, completed_work, done_count, queue,
                        wpc, work, submitted, ran>>
    BY DEF CallerPCs
  <2> HIDE DEF ClaimSlot
  <2> QED BY <2>1, <2>2, <2>3 DEF TypeOK
<1>2. RingBounded'
  <2>1. work_count[target] - done_count[target] \in 0 .. Slots - 1
    BY <1>0 DEF RingBounded, TypeOK, CallerKnows
  <2> QED BY <1>0, <2>1 DEF RingBounded, TypeOK
<1>3. TokensMatch'
  <2>1. SUFFICES ASSUME NEW w \in Workers
                 PROVE  there_is_work[w]
                          + Count(wpc[w] \in {"check", "fetch", "run", "count",
                                              "trapped"})
                          + Count(target = w)
                        = work_count'[w] - done_count[w]
    BY DEF TokensMatch
  <2>2. /\ there_is_work[w] \in Nat /\ work_count[w] \in Nat
        /\ done_count[w] \in Nat
        /\ there_is_work[w]
             + Count(wpc[w] \in {"check", "fetch", "run", "count", "trapped"})
           = work_count[w] - done_count[w]
    <3>1. /\ there_is_work[w] \in Nat /\ work_count[w] \in Nat
          /\ done_count[w] \in Nat
      BY DEF TypeOK
    <3>2. TokensMatch /\ cpc = "claim"
      OBVIOUS
    <3> HIDE DEF DispatchInv, ClaimSlot
    <3> QED BY <3>1, <3>2 DEF TokensMatch
  <2>3. work_count'[w] = work_count[w] + Count(target = w)
    <3>1. /\ work_count \in [Workers -> Nat]
          /\ work_count' = [work_count EXCEPT ![target] = @ + 1]
      BY DEF TypeOK
    <3> HIDE DEF DispatchInv, ClaimSlot
    <3> QED BY <3>1
  <2> QED BY <2>2, <2>3
<1> QED
  BY <1>1, <1>2, <1>3 DEF NeverTraps, Trapped, CallerKnows

LEMMA StoreWorkStep ==
    ASSUME DispatchInv, StoreWork
    PROVE  DispatchInv'
<1>. USE DEF DispatchInv, StoreWork, CallerGoto, worker, history
<1>1. TypeOK'
  BY BatchType DEF TypeOK, CallerPCs, CallerKnows
<1> QED
  BY <1>1 DEF RingBounded, TokensMatch, NeverTraps, Trapped,
        CallerKnows

LEMMA SignalWorkStep ==
    ASSUME DispatchInv, SignalWork
    PROVE  DispatchInv'
<1>. USE DEF DispatchInv, SignalWork, Advance, worker, history
<1>1. TypeOK'
  BY DEF TypeOK, CallerPCs
<1>2. TokensMatch'
  <2>1. SUFFICES ASSUME NEW w \in Workers
                 PROVE  there_is_work'[w]
                          + Count(wpc[w] \in {"check", "fetch", "run", "count",
                                              "trapped"})
                        = work_count[w] - done_count[w]
    BY DEF TokensMatch, TypeOK
  <2>2. /\ there_is_work[w] \in Nat
        /\ there_is_work[w]
             + Count(wpc[w] \in {"check", "fetch", "run", "count", "trapped"})
             + Count(target = w)
           = work_count[w] - done_count[w]
    BY DEF TypeOK, TokensMatch
  <2>3. there_is_work'[w] = there_is_work[w] + Count(target = w)
    BY DEF TypeOK
  <2> QED BY <2>2, <2>3
<1> QED
  BY <1>1, <1>2 DEF RingBounded, NeverTraps, Trapped,
        CallerKnows

LEMMA SyncSteps ==
    ASSUME DispatchInv, BeginSync \/ SyncCheck \/ SyncWait \/ ReturnFromSync
    PROVE  DispatchInv'
<1>. USE DEF DispatchInv, CallerGoto, shared, worker, history
<1>1. CASE BeginSync
  <2>0. 1 \in Workers
    BY DEF Workers
  <2>1. TypeOK'
    BY <1>1, <2>0 DEF BeginSync, TypeOK, CallerPCs
  <2>2. \A w \in Workers : ~(w < 1)
    BY DEF Workers
  <2> QED
    BY <1>1, <2>1, <2>2
    DEF BeginSync, RingBounded, TokensMatch, NeverTraps, Trapped,
        CallerKnows
<1>2. CASE SyncCheck
  <2>0. target < WorkerCount => target + 1 \in Workers
    BY DEF TypeOK, Workers
  <2>1. TypeOK'
    BY <1>2, <2>0 DEF SyncCheck, TypeOK, CallerPCs
  <2>2. \A w \in Workers : w < target + 1 => w < target \/ w = target
    BY DEF TypeOK, Workers
  <2>3. target = WorkerCount \/ target < WorkerCount
    BY DEF TypeOK, Workers
  <2>4. \A w \in Workers : w < WorkerCount \/ w = WorkerCount
    BY DEF Workers
  <2> QED
    BY <1>2, <2>1, <2>2, <2>3, <2>4
    DEF SyncCheck, RingBounded, TokensMatch, NeverTraps, Trapped,
        CallerKnows
<1>3. CASE SyncWait
  <2>1. TypeOK'
    BY <1>3 DEF SyncWait, TypeOK, CallerPCs
  <2> QED
    BY <1>3, <2>1 DEF SyncWait, RingBounded, TokensMatch, NeverTraps, Trapped,
        CallerKnows
<1>4. CASE ReturnFromSync
  <2>1. TypeOK'
    BY <1>4 DEF ReturnFromSync, TypeOK, CallerPCs
  <2> QED
    BY <1>4, <2>1
    DEF ReturnFromSync, RingBounded, TokensMatch, NeverTraps, Trapped,
        CallerKnows
<1> QED BY <1>1, <1>2, <1>3, <1>4

-----------------------------------------------------------------------------
(* The workers' steps                                                      *)

(* A worker with a token has a batch.                                      *)
LEMMA BusyWorker ==
    ASSUME DispatchInv, NEW w \in Workers,
           wpc[w] \in {"check", "fetch", "run", "count"}
    PROVE  done_count[w] < work_count[w]
<1>1. /\ there_is_work[w] \in Nat /\ work_count[w] \in Nat
      /\ done_count[w] \in Nat
      /\ there_is_work[w] + 1 + Count(target = w /\ cpc \in {"store", "signal"})
           = work_count[w] - done_count[w]
  BY DEF DispatchInv, TypeOK, TokensMatch
<1> QED BY <1>1

LEMMA GotoType ==
    ASSUME TypeOK, NEW w \in Workers, NEW pc \in WorkerPCs, WorkerGoto(w, pc)
    PROVE  /\ wpc' \in [Workers -> WorkerPCs]
           /\ \A v \in Workers : wpc'[v] = IF v = w THEN pc ELSE wpc[v]
  BY DEF TypeOK, WorkerGoto

(* One semaphore or counter moves by one.                                  *)
LEMMA CountUp ==
    ASSUME NEW f \in [Workers -> Nat], NEW w \in Workers,
           NEW g, g = [f EXCEPT ![w] = @ + 1]
    PROVE  /\ g \in [Workers -> Nat]
           /\ \A v \in Workers : /\ f[v] \in Nat
                                  /\ g[v] = f[v] + Count(v = w)
  OBVIOUS

LEMMA CountDown ==
    ASSUME NEW f \in [Workers -> Nat], NEW w \in Workers, f[w] > 0,
           NEW g, g = [f EXCEPT ![w] = @ - 1]
    PROVE  /\ g \in [Workers -> Nat]
           /\ \A v \in Workers : /\ f[v] \in Nat
                                  /\ g[v] = f[v] - Count(v = w)
  OBVIOUS

LEMMA WorkerSteps ==
    ASSUME DispatchInv, NEW w \in Workers, WorkerStep(w)
    PROVE  DispatchInv'
<1>. USE DEF DispatchInv, caller, shared, history
<1>0. \A pc \in {"suspended", "wait", "check", "fetch", "run", "count",
                 "signal", "trapped"} : pc \in WorkerPCs
  BY DEF WorkerPCs
<1>1. CASE Start(w)
  <2>1. TypeOK'
    <3>1. suspended' \in [Workers -> Nat]
      BY <1>1, CountDown DEF Start, TypeOK
    <3>2. wpc' \in [Workers -> WorkerPCs]
      BY <1>0, <1>1, GotoType DEF Start
    <3> QED BY <1>1, <3>1, <3>2 DEF Start, TypeOK
  <2> QED
    BY <1>1, <2>1
    DEF Start, WorkerGoto, RingBounded, TokensMatch, NeverTraps, Trapped,
        CallerKnows, TypeOK
<1>2. CASE WaitForWork(w)
  <2>3. /\ there_is_work' \in [Workers -> Nat]
        /\ \A v \in Workers : /\ there_is_work[v] \in Nat
                               /\ there_is_work'[v]
                                    = there_is_work[v] - Count(v = w)
    <3>1. /\ there_is_work \in [Workers -> Nat]
          /\ there_is_work[w] > 0
          /\ there_is_work' = [there_is_work EXCEPT ![w] = @ - 1]
      BY <1>2 DEF WaitForWork, TypeOK
    <3> QED BY <3>1, CountDown
  <2>4. /\ wpc' \in [Workers -> WorkerPCs]
        /\ \A v \in Workers : wpc'[v] = IF v = w THEN "check" ELSE wpc[v]
    BY <1>0, <1>2, GotoType DEF WaitForWork
  <2>1. TypeOK'
    BY <1>2, <2>3, <2>4 DEF WaitForWork, TypeOK
  <2>2. TokensMatch'
    <3>2. /\ wpc[w] = "wait"
          /\ UNCHANGED <<target, cpc, work_count, done_count>>
      BY <1>2 DEF WaitForWork
    <3>3. ASSUME NEW v \in Workers
          PROVE  work_count[v] \in Nat /\ done_count[v] \in Nat
      BY DEF TypeOK
    <3>4. TokensMatch
      OBVIOUS
    <3> HIDE DEF DispatchInv
    <3> QED BY <2>3, <2>4, <3>2, <3>3, <3>4 DEF TokensMatch
  <2> QED
    BY <1>2, <2>1, <2>2, <2>4
    DEF WaitForWork, RingBounded, NeverTraps, Trapped,
        CallerKnows, TypeOK
<1>3. CASE CheckCounts(w)
  <2>1. TypeOK'
    BY <1>0, <1>3, GotoType DEF CheckCounts, TypeOK
  <2>2. done_count[w] < work_count[w]
    BY <1>3, BusyWorker DEF CheckCounts
  <2> QED
    BY <1>3, <2>1, <2>2
    DEF CheckCounts, WorkerGoto, RingBounded, TokensMatch, NeverTraps, Trapped,
        CallerKnows, TypeOK
<1>4. CASE FetchWork(w)
  <2>1. TypeOK'
    <3>1. done_count[w] % Slots \in 0 .. Slots - 1
      BY InRing DEF TypeOK
    <3>2. queue[w][done_count[w] % Slots] \in Work \union {NoWork}
      BY <3>1 DEF TypeOK
    <3>3. work' \in [Workers -> Work \union {NoWork}]
      BY <1>4, <3>2 DEF FetchWork, TypeOK
    <3>4. wpc' \in [Workers -> WorkerPCs]
      BY <1>0, <1>4, GotoType DEF FetchWork
    <3>5. UNCHANGED <<caller, shared, history>>
      BY <1>4 DEF FetchWork
    <3> QED BY <3>3, <3>4, <3>5 DEF TypeOK
  <2> QED
    BY <1>4, <2>1
    DEF FetchWork, WorkerGoto, RingBounded, TokensMatch, NeverTraps, Trapped,
        CallerKnows, TypeOK
<1>5. CASE RunWork(w)
  <2>1. TypeOK'
    <3>1. ran' \in [Item -> Nat]
      BY <1>5, CallbackType DEF RunWork, TypeOK
    <3>2. wpc' \in [Workers -> WorkerPCs]
      BY <1>0, <1>5, GotoType DEF RunWork
    <3> QED BY <1>5, <3>1, <3>2 DEF RunWork, TypeOK
  <2> QED
    BY <1>5, <2>1
    DEF RunWork, WorkerGoto, RingBounded, TokensMatch, NeverTraps, Trapped,
        CallerKnows, TypeOK
<1>6. CASE CountDone(w)
  <2>10. done_count \in [Workers -> Nat]
    BY DEF TypeOK
  <2>11. done_count' = [done_count EXCEPT ![w] = @ + 1]
    BY <1>6 DEF CountDone
  <2>12. /\ done_count' \in [Workers -> Nat]
         /\ \A v \in Workers : /\ done_count[v] \in Nat
                                /\ done_count'[v]
                                     = done_count[v] + Count(v = w)
    BY <2>10, <2>11, CountUp
  <2>13. /\ wpc' \in [Workers -> WorkerPCs]
         /\ \A v \in Workers : wpc'[v] = IF v = w THEN "signal" ELSE wpc[v]
    BY <1>0, <1>6, GotoType DEF CountDone
  <2>1. TypeOK'
    BY <1>6, <2>12, <2>13 DEF CountDone, TypeOK
  <2>2. done_count[w] < work_count[w]
    BY <1>6, BusyWorker DEF CountDone
  <2>0. ASSUME NEW v \in Workers
        PROVE  /\ done_count[v] \in Nat /\ work_count[v] \in Nat
               /\ there_is_work[v] \in Nat
               /\ done_count'[v] = done_count[v] + Count(v = w)
               /\ wpc'[v] = IF v = w THEN "signal" ELSE wpc[v]
    BY <2>12, <2>13 DEF TypeOK
  <2>5. /\ wpc[w] = "count"
        /\ UNCHANGED <<caller, work_count, there_is_work>>
    BY <1>6 DEF CountDone
  <2>6. RingBounded /\ TokensMatch /\ NeverTraps /\ CallerKnows
    OBVIOUS
  <2> HIDE DEF DispatchInv
  <2>3. RingBounded'
    <3>1. ASSUME NEW v \in Workers
          PROVE  work_count'[v] - done_count'[v] \in 0 .. Slots
      BY <2>0, <2>2, <2>5, <2>6 DEF RingBounded
    <3> QED BY <3>1 DEF RingBounded
  <2>4. TokensMatch'
    BY <2>0, <2>5, <2>6 DEF TokensMatch
  <2>7. NeverTraps'
    BY <2>0, <2>6 DEF NeverTraps, Trapped
  <2>8. target \in Workers
    BY DEF DispatchInv, TypeOK
  <2>9. CallerKnows'
    BY <2>0, <2>2, <2>5, <2>6, <2>8 DEF CallerKnows
  <2> QED
    BY <2>1, <2>3, <2>4, <2>7, <2>9 DEF DispatchInv
<1>7. CASE SignalDone(w)
  <2>1. TypeOK'
    <3>1. completed_work' \in [Workers -> Nat]
      BY <1>7, CountUp DEF SignalDone, TypeOK
    <3>2. wpc' \in [Workers -> WorkerPCs]
      BY <1>0, <1>7, GotoType DEF SignalDone
    <3>3. UNCHANGED <<caller, suspended, there_is_work, work_count, done_count,
                      queue, work, history>>
      BY <1>7 DEF SignalDone
    <3> QED BY <3>1, <3>2, <3>3 DEF TypeOK
  <2> QED
    BY <1>7, <2>1
    DEF SignalDone, WorkerGoto, RingBounded, TokensMatch, NeverTraps, Trapped,
        CallerKnows, TypeOK
<1> QED
  BY <1>1, <1>2, <1>3, <1>4, <1>5, <1>6, <1>7 DEF WorkerStep

-----------------------------------------------------------------------------
(* The theorems                                                            *)

(* Every step of th_dispatch_queue, th_dispatch_sync and dispatch_thread   *)
(* keeps DispatchInv.                                                      *)
THEOREM DispatchInvInductive == DispatchInv /\ [Next]_vars => DispatchInv'
<1>. SUFFICES ASSUME DispatchInv, [Next]_vars
              PROVE  DispatchInv'
  OBVIOUS
<1>1. ASSUME NEW s \in Sizes, NEW b \in BatchSizes, Dispatch(s, b)
      PROVE  DispatchInv'
  BY <1>1, DispatchStep
<1>2. CASE BeginSync \/ CallerStep
  BY <1>2, LoopSteps, RunInlineStep, StartThreadStep, ClaimSlotStep,
     StoreWorkStep, SignalWorkStep, SyncSteps DEF CallerStep
<1>3. ASSUME NEW w \in Workers, WorkerStep(w)
      PROVE  DispatchInv'
  BY <1>3, WorkerSteps
<1>4. CASE UNCHANGED vars
  BY <1>4
  DEF vars, DispatchInv, TypeOK, RingBounded, TokensMatch, NeverTraps, Trapped,
        CallerKnows
<1> QED BY <1>1, <1>2, <1>3, <1>4 DEF Next

(* DispatchInv holds throughout.                                           *)
THEOREM DispatchInvariant == Spec => []DispatchInv
  BY InitDispatchInv, DispatchInvInductive, PTL DEF Spec

(* No ring ever holds more than its slots.                                 *)
THEOREM RingNeverOverflows == Spec => []RingBounded
<1>1. DispatchInv => RingBounded
  BY DEF DispatchInv
<1> QED BY <1>1, DispatchInvariant, PTL

(* The VERIFY of dispatch_thread never fails.                              *)
THEOREM VerifyHolds == Spec => []NeverTraps
<1>1. DispatchInv => NeverTraps
  BY DEF DispatchInv
<1> QED BY <1>1, DispatchInvariant, PTL

(* When th_dispatch_sync returns, no worker is inside a callback.          *)
THEOREM SyncIsABarrier == Spec => []QuietAfterSync
<1>1. DispatchInv => QuietAfterSync
  <2>1. SUFFICES ASSUME DispatchInv, cpc = "synced", NEW w \in Workers
                 PROVE  /\ there_is_work[w] = 0
                        /\ wpc[w] \in {"suspended", "wait", "signal"}
    BY DEF QuietAfterSync
  <2>2. /\ there_is_work[w] \in Nat /\ work_count[w] \in Nat
        /\ wpc[w] \in WorkerPCs
        /\ done_count[w] = work_count[w]
        /\ there_is_work[w]
             + Count(wpc[w] \in {"check", "fetch", "run", "count", "trapped"})
           = work_count[w] - done_count[w]
    BY <2>1 DEF DispatchInv, TypeOK, TokensMatch, CallerKnows
  <2> QED BY <2>2 DEF WorkerPCs
<1> QED BY <1>1, DispatchInvariant, PTL
-----------------------------------------------------------------------------
(* Where the items are                                                     *)

(* The batch b holds the item x.                                           *)
Covers(b, x) == x[1] = b.call /\ x[2] \in b.start .. b.end - 1

(* The batches dealt to worker w and not run are at First(w) .. Last(w) - 1 *)
(* of its ring: the one at work is run before it is counted, and the       *)
(* counter moves before the slot is written.                               *)
First(w) == done_count[w] + Count(wpc[w] = "count")
Last(w)  == work_count[w] - Count(target = w /\ cpc = "store")
Due(w)   == First(w) .. Last(w) - 1
At(w, p) == queue[w][p % Slots]
Holds(w, p, x) == Covers(At(w, p), x)

(* Of the job at hand, the items from Reached on are in no ring yet.       *)
Reached    == IF cpc = "signal" THEN i + batch ELSE i
Undealt(x) == x[1] = calls /\ Reached <= x[2]

(* What the arguments of the call and the loop variable are.               *)
LoopKnows ==
    /\ cpc \in {"idle", "sync", "syncwait", "synced"} => size <= i
    /\ cpc \in {"room", "inline", "start", "claim", "store", "signal"}
         => i < size
    /\ cpc = "store" => slot = (work_count[target] - 1) % Slots
    /\ calls > 0 => batch > 0

(* What was submitted are the items of the calls so far, all those of the  *)
(* last one included.                                                      *)
Submissions ==
    /\ \A x \in submitted : x[1] <= calls /\ (x[1] = calls => x[2] < size)
    /\ calls > 0 => \A k \in 0 .. size - 1 : <<calls, k>> \in submitted

(* An item runs at most once, and only after it was dealt.                 *)
RanOnce ==
    \A x \in Item :
        /\ ran[x] \in {0, 1}
        /\ ran[x] = 1 => x \in submitted /\ ~Undealt(x)

(* What a ring holds was dealt and is still to run ...                     *)
DueToRun ==
    \A w \in Workers : \A p \in Due(w) : \A x \in Item :
        Holds(w, p, x) => x \in submitted /\ ran[x] = 0 /\ ~Undealt(x)

(* ... and is held once.                                                   *)
HeldOnce ==
    \A w, v \in Workers : \A p \in Due(w), q \in Due(v) : \A x \in Item :
        Holds(w, p, x) /\ Holds(v, q, x) => w = v /\ p = q

(* Nothing gets lost.                                                      *)
NoneLost ==
    \A x \in submitted :
        \/ ran[x] = 1
        \/ Undealt(x)
        \/ \E w \in Workers : \E p \in Due(w) : Holds(w, p, x)

(* A worker runs the oldest batch of its ring.                             *)
RunsOldest ==
    \A w \in Workers : wpc[w] = "run" => work[w] = At(w, done_count[w])

ItemsInv ==
    /\ DispatchInv /\ LoopKnows /\ Submissions /\ RanOnce /\ DueToRun
    /\ HeldOnce /\ NoneLost /\ RunsOldest

(* Two positions less than a whole ring apart are in different slots.      *)
LEMMA SlotsApart ==
    ASSUME NEW a \in Nat, NEW b \in Nat, a < b, b < a + Slots
    PROVE  a % Slots # b % Slots
<1>. DEFINE qa == a \div Slots
            qb == b \div Slots
<1>1. /\ a = Slots * qa + (a % Slots) /\ qa \in Int
      /\ b = Slots * qb + (b % Slots) /\ qb \in Int
  OBVIOUS
<1>2. SUFFICES ASSUME a % Slots = b % Slots PROVE FALSE
  OBVIOUS
<1>. HIDE DEF qa, qb
<1>3. qb - qa \in Int /\ b - a = Slots * (qb - qa)
  BY <1>1, <1>2
<1>4. CASE qb - qa <= 0
  <2>1. Slots * (qb - qa) <= 0
    BY <1>3, <1>4
  <2> QED BY <2>1, <1>3
<1>5. CASE qb - qa >= 1
  <2>1. Slots * (qb - qa) >= Slots
    BY <1>3, <1>5
  <2> QED BY <2>1, <1>3
<1> QED BY <1>3, <1>4, <1>5

(* The first part of an item is a call, the second an index.               *)
LEMMA ItemParts ==
    ASSUME NEW x \in Item
    PROVE  x[1] \in Calls /\ x[2] \in Nat /\ x = <<x[1], x[2]>>
<1>1. PICK c \in Calls, k \in UNION {0 .. s - 1 : s \in Sizes} : x = <<c, k>>
  BY DEF Item
<1>2. k \in Nat
  OBVIOUS
<1> QED BY <1>1, <1>2

(* The types of what the positions are made of.                            *)
LEMMA Positions ==
    ASSUME DispatchInv, NEW w \in Workers
    PROVE  /\ done_count[w] \in Nat /\ work_count[w] \in Nat
           /\ First(w) \in Nat /\ Last(w) \in Int
           /\ work_count[w] - done_count[w] \in 0 .. Slots
           /\ wpc[w] \in WorkerPCs
<1>1. /\ done_count[w] \in Nat /\ work_count[w] \in Nat
      /\ wpc[w] \in WorkerPCs
      /\ work_count[w] - done_count[w] \in 0 .. Slots
  BY DEF DispatchInv, TypeOK, RingBounded
<1> QED BY <1>1 DEF First, Last

(* The oldest batch of a worker that is at run is due.                     *)
LEMMA OldestIsDue ==
    ASSUME DispatchInv, NEW w \in Workers, wpc[w] = "run"
    PROVE  /\ First(w) = done_count[w] /\ done_count[w] < Last(w)
           /\ done_count[w] \in Due(w)
<1>1. /\ there_is_work[w] \in Nat /\ work_count[w] \in Nat
      /\ done_count[w] \in Nat
      /\ there_is_work[w] + 1 + Count(target = w /\ cpc \in {"store", "signal"})
           = work_count[w] - done_count[w]
  BY DEF DispatchInv, TypeOK, TokensMatch
<1>2. First(w) = done_count[w]
  BY <1>1 DEF First
<1>3. done_count[w] < Last(w) /\ Last(w) \in Int
  BY <1>1 DEF Last
<1> QED BY <1>1, <1>2, <1>3 DEF Due

(* What a step that deals nothing and runs nothing leaves as it is.        *)
ItemsPart == Submissions /\ RanOnce /\ DueToRun /\ HeldOnce /\ NoneLost

LEMMA ItemsStay ==
    ASSUME ItemsInv, UNCHANGED <<submitted, ran, calls, size, queue>>,
           Reached' = Reached,
           \A w \in Workers : First(w)' = First(w) /\ Last(w)' = Last(w)
    PROVE  ItemsPart'
<1>1. \A w \in Workers : Due(w)' = Due(w)
  BY DEF Due
<1>2. \A w, p, x : Holds(w, p, x)' <=> Holds(w, p, x)
  BY DEF Holds, At, Covers
<1>3. \A x : Undealt(x)' <=> Undealt(x)
  BY DEF Undealt
<1>4. Submissions'
  BY DEF ItemsInv, Submissions
<1>5. RanOnce'
  BY <1>3 DEF ItemsInv, RanOnce
<1>6. DueToRun'
  BY <1>1, <1>2, <1>3 DEF ItemsInv, DueToRun
<1>7. HeldOnce'
  BY <1>1, <1>2 DEF ItemsInv, HeldOnce
<1>8. NoneLost'
  BY <1>1, <1>2, <1>3 DEF ItemsInv, NoneLost
<1> QED BY <1>4, <1>5, <1>6, <1>7, <1>8 DEF ItemsPart

LEMMA InitItems == Init => ItemsInv
<1>. SUFFICES ASSUME Init PROVE ItemsInv
  OBVIOUS
<1>1. DispatchInv
  BY InitDispatchInv
<1>2. \A w \in Workers : Due(w) = {}
  BY DEF Init, Due, First, Last
<1>3. LoopKnows /\ Submissions
  BY DEF Init, LoopKnows, Submissions
<1>4. RanOnce
  BY DEF Init, RanOnce
<1>5. DueToRun /\ HeldOnce /\ NoneLost
  BY <1>2 DEF Init, DueToRun, HeldOnce, NoneLost
<1>6. RunsOldest
  BY DEF Init, RunsOldest
<1> QED BY <1>1, <1>3, <1>4, <1>5, <1>6 DEF ItemsInv

-----------------------------------------------------------------------------
(* The caller's steps and the items                                        *)

LEMMA DispatchItems ==
    ASSUME ItemsInv, NEW s \in Sizes, NEW b \in BatchSizes, Dispatch(s, b)
    PROVE  ItemsInv'
<1>1. DispatchInv'
  BY DispatchStep DEF ItemsInv
<1>2. /\ cpc = "idle" /\ cpc' = "next" /\ calls' = calls + 1
      /\ size' = s /\ batch' = b /\ i' = 0
      /\ submitted' = submitted \union {<<calls + 1, k>> : k \in 0 .. s - 1}
      /\ UNCHANGED <<target, done_count, work_count, queue, wpc, work, ran>>
  BY DEF Dispatch, shared, worker
<1>3. /\ calls \in Nat /\ calls + 1 # calls /\ s \in Nat /\ b \in Nat
      /\ b > 0 /\ size \in Nat /\ i \in Nat /\ size <= i
      /\ submitted \subseteq Item /\ ran \in [Item -> Nat]
  BY <1>2 DEF ItemsInv, DispatchInv, TypeOK, LoopKnows
<1>4. \A w \in Workers : Due(w)' = Due(w)
  BY <1>2 DEF Due, First, Last
<1>5. \A w, p, x : Holds(w, p, x)' <=> Holds(w, p, x)
  BY <1>2 DEF Holds, At, Covers
<1>6. \A x \in submitted : x \in Item /\ ~Undealt(x) /\ ~Undealt(x)'
  <2>1. SUFFICES ASSUME NEW x \in submitted
                 PROVE  x \in Item /\ ~Undealt(x) /\ ~Undealt(x)'
    OBVIOUS
  <2>2. /\ x \in Item /\ x[1] \in Nat /\ x[2] \in Nat
        /\ x[1] <= calls /\ (x[1] = calls => x[2] < size)
    BY <1>3, ItemParts DEF ItemsInv, Submissions, Calls
  <2>3. Reached = i
    BY <1>2 DEF Reached
  <2> QED BY <1>2, <1>3, <2>2, <2>3 DEF Undealt
<1>7. LoopKnows'
  BY <1>2, <1>3 DEF LoopKnows
<1>8. Submissions'
  <2>1. ASSUME NEW x \in submitted'
        PROVE  x[1] <= calls + 1 /\ (x[1] = calls + 1 => x[2] < s)
    <3>1. CASE x \in submitted
      <4>1. x[1] \in Nat /\ x[1] <= calls
        BY <1>3, <3>1, ItemParts DEF ItemsInv, Submissions, Calls
      <4> QED BY <1>3, <4>1
    <3>2. CASE x \notin submitted
      <4>1. PICK k \in 0 .. s - 1 : x = <<calls + 1, k>>
        BY <1>2, <3>2
      <4> QED BY <1>3, <4>1
    <3> QED BY <3>1, <3>2
  <2> QED BY <1>2, <2>1 DEF Submissions
<1>9. RanOnce'
  BY <1>2, <1>6 DEF ItemsInv, RanOnce
<1>10. DueToRun'
  BY <1>2, <1>4, <1>5, <1>6 DEF ItemsInv, DueToRun
<1>11. HeldOnce'
  BY <1>4, <1>5 DEF ItemsInv, HeldOnce
<1>12. NoneLost'
  <2>1. SUFFICES ASSUME NEW x \in submitted'
                 PROVE  \/ ran'[x] = 1
                        \/ Undealt(x)'
                        \/ \E w \in Workers : \E p \in Due(w)' : Holds(w, p, x)'
    BY DEF NoneLost
  <2>2. CASE x \in submitted
    BY <1>2, <1>4, <1>5, <1>6, <2>2 DEF ItemsInv, NoneLost
  <2>3. CASE x \notin submitted
    <3>1. PICK k \in 0 .. s - 1 : x = <<calls + 1, k>>
      BY <1>2, <2>3
    <3>2. Reached' = 0
      BY <1>2 DEF Reached
    <3>3. x[1] = calls' /\ 0 <= x[2]
      BY <1>2, <3>1
    <3> QED BY <3>2, <3>3 DEF Undealt
  <2> QED BY <2>2, <2>3
<1>13. RunsOldest'
  BY <1>2 DEF ItemsInv, RunsOldest, At
<1> QED
  BY <1>1, <1>7, <1>8, <1>9, <1>10, <1>11, <1>12, <1>13 DEF ItemsInv

(* The steps that deal no batch: those of the loop, of the start of a      *)
(* thread, of the sync, and the claim of a slot, which is not due before   *)
(* it is written.                                                          *)
LEMMA QuietCallerItems ==
    ASSUME ItemsInv,
           \/ NextBatch \/ CheckRoom \/ StartThread \/ ClaimSlot
           \/ SignalWork
           \/ BeginSync \/ SyncCheck \/ SyncWait \/ ReturnFromSync
    PROVE  ItemsInv'
<1>1. DispatchInv'
  BY LoopSteps, StartThreadStep, ClaimSlotStep, SignalWorkStep, SyncSteps
  DEF ItemsInv
<1>2. /\ calls \in Nat /\ size \in Nat /\ batch \in Nat /\ i \in Nat
      /\ target \in Workers
      /\ work_count \in [Workers -> Nat] /\ done_count \in [Workers -> Nat]
  BY DEF ItemsInv, DispatchInv, TypeOK
<1>3. UNCHANGED <<submitted, ran, calls, size, batch, queue, done_count,
                  wpc, work>>
  BY DEF NextBatch, CheckRoom, StartThread, ClaimSlot, SignalWork, BeginSync,
         SyncCheck, SyncWait, ReturnFromSync, CallerGoto, Advance, shared,
         worker, history
<1>4. Reached' = Reached
  BY DEF NextBatch, CheckRoom, StartThread, ClaimSlot, SignalWork, BeginSync,
         SyncCheck, SyncWait, ReturnFromSync, CallerGoto, Advance, Reached
<1>5. ASSUME NEW w \in Workers
      PROVE  First(w)' = First(w) /\ Last(w)' = Last(w)
  <2>1. First(w)' = First(w)
    BY <1>3 DEF First
  <2>2. CASE ClaimSlot
    <3>1. /\ cpc = "claim" /\ cpc' = "store" /\ target' = target
          /\ work_count' = [work_count EXCEPT ![target] = @ + 1]
      BY <2>2 DEF ClaimSlot
    <3>2. work_count'[w] = work_count[w] + Count(w = target)
      BY <1>2, <3>1
    <3>3. work_count[w] \in Nat
      BY <1>2
    <3> QED BY <2>1, <3>1, <3>2, <3>3 DEF Last
  <2>3. CASE ~ClaimSlot
    <3>1. cpc # "store" /\ cpc' # "store" /\ work_count' = work_count
      BY <2>3
      DEF NextBatch, CheckRoom, StartThread, SignalWork, BeginSync,
          SyncCheck, SyncWait, ReturnFromSync, CallerGoto, Advance, shared
    <3> QED BY <2>1, <3>1 DEF Last
  <2> QED BY <2>2, <2>3
<1>6. ItemsPart'
  BY <1>3, <1>4, <1>5, ItemsStay
<1>7. LoopKnows'
  <2>1. CASE NextBatch
    BY <1>2, <1>3, <2>1 DEF NextBatch, CallerGoto, ItemsInv, LoopKnows
  <2>2. CASE ClaimSlot
    <3>1. /\ cpc' = "store" /\ cpc = "claim" /\ i' = i /\ target' = target
          /\ slot' = work_count[target] % Slots
          /\ work_count' = [work_count EXCEPT ![target] = @ + 1]
      BY <2>2 DEF ClaimSlot
    <3>2. work_count'[target] - 1 = work_count[target]
      BY <1>2, <3>1
    <3> QED BY <1>3, <3>1, <3>2 DEF ItemsInv, LoopKnows
  <2>3. CASE ~(NextBatch \/ ClaimSlot)
    BY <1>3, <2>3
    DEF CheckRoom, StartThread, SignalWork, BeginSync, SyncCheck, SyncWait,
        ReturnFromSync, CallerGoto, Advance, ItemsInv, LoopKnows
  <2> QED BY <2>1, <2>2, <2>3
<1>8. RunsOldest'
  BY <1>3 DEF ItemsInv, RunsOldest, At
<1> QED BY <1>1, <1>6, <1>7, <1>8 DEF ItemsInv, ItemsPart

(* The items of the batch at hand.                                         *)
LEMMA BatchHolds ==
    ASSUME ItemsInv, cpc \in {"inline", "store"}, NEW x \in Item
    PROVE  /\ Reached = i /\ calls > 0 /\ batch > 0 /\ i < size
           /\ Covers(Batch, x) <=>
                x[1] = calls /\ i <= x[2] /\ x[2] < i + batch /\ x[2] < size
           /\ Covers(Batch, x) =>
                Undealt(x) /\ x \in submitted /\ ran[x] = 0
<1>1. /\ calls \in Nat /\ size \in Nat /\ batch \in Nat /\ i \in Nat
      /\ calls > 0 /\ batch > 0 /\ i < size /\ Reached = i
  BY DEF ItemsInv, DispatchInv, TypeOK, CallerKnows, LoopKnows, Reached
<1>2. x[1] \in Nat /\ x[2] \in Nat /\ x = <<x[1], x[2]>>
  BY ItemParts DEF Calls
<1>3. Covers(Batch, x) <=>
        x[1] = calls /\ i <= x[2] /\ x[2] < i + batch /\ x[2] < size
  BY <1>1, <1>2 DEF Covers, Batch
<1>4. ASSUME Covers(Batch, x)
      PROVE  Undealt(x) /\ x \in submitted /\ ran[x] = 0
  <2>1. Undealt(x)
    BY <1>1, <1>3, <1>4 DEF Undealt
  <2>2. x[1] = calls /\ x[2] \in 0 .. size - 1
    BY <1>1, <1>2, <1>3, <1>4
  <2>3. \A k \in 0 .. size - 1 : <<calls, k>> \in submitted
    BY <1>1 DEF ItemsInv, Submissions
  <2>4. x \in submitted
    BY <1>2, <2>2, <2>3
  <2>5. ran[x] = 0
    BY <2>1 DEF ItemsInv, RanOnce
  <2> QED BY <2>1, <2>4, <2>5
<1> QED BY <1>1, <1>3, <1>4

(* After the batch at hand the next one begins.                            *)
LEMMA BatchDealt ==
    ASSUME ItemsInv, cpc \in {"inline", "store"}, calls' = calls,
           Reached' = i + batch
    PROVE  \A x \in submitted : /\ Undealt(x)' => Undealt(x)
                                /\ Covers(Batch, x) => ~Undealt(x)'
                                /\ Undealt(x) => Undealt(x)' \/ Covers(Batch, x)
<1>1. SUFFICES ASSUME NEW x \in submitted
               PROVE  /\ Undealt(x)' => Undealt(x)
                      /\ Covers(Batch, x) => ~Undealt(x)'
                      /\ Undealt(x) => Undealt(x)' \/ Covers(Batch, x)
  OBVIOUS
<1>2. x \in Item /\ calls \in Nat /\ batch \in Nat /\ i \in Nat /\ size \in Nat
  BY DEF ItemsInv, DispatchInv, TypeOK
<1>3. x[1] \in Nat /\ x[2] \in Nat
  BY <1>2, ItemParts DEF Calls
<1>4. x[1] = calls => x[2] < size
  BY DEF ItemsInv, Submissions
<1>5. /\ Reached = i
      /\ Covers(Batch, x) <=>
           x[1] = calls /\ i <= x[2] /\ x[2] < i + batch /\ x[2] < size
  BY <1>2, BatchHolds
<1> QED BY <1>2, <1>3, <1>4, <1>5 DEF Undealt

(* An item of the batch at hand is in no ring.                             *)
LEMMA BatchNotHeld ==
    ASSUME ItemsInv, cpc \in {"inline", "store"}, NEW x \in Item,
           Covers(Batch, x), NEW w \in Workers, NEW p \in Due(w)
    PROVE  ~Holds(w, p, x)
  BY BatchHolds DEF ItemsInv, DueToRun

(* How a callback counts.                                                  *)
LEMMA CallbackCounts ==
    ASSUME NEW b, Callback(b)
    PROVE  \A x \in Item : ran'[x] = IF Covers(b, x) THEN ran[x] + 1 ELSE ran[x]
  BY DEF Callback, Covers

LEMMA RunInlineItems ==
    ASSUME ItemsInv, RunInline
    PROVE  ItemsInv'
<1>1. DispatchInv'
  BY RunInlineStep DEF ItemsInv
<1>2. /\ cpc = "inline" /\ cpc' = "next" /\ i' = i + batch
      /\ UNCHANGED <<calls, size, batch, target, slot, done_count, work_count,
                     queue, wpc, work, submitted>>
  BY DEF RunInline, Advance, shared, worker
<1>3. \A x \in Item : ran'[x] = IF Covers(Batch, x) THEN ran[x] + 1 ELSE ran[x]
  BY CallbackCounts DEF RunInline
<1>4. submitted \subseteq Item
  BY DEF ItemsInv, DispatchInv, TypeOK
<1>5. Reached' = i + batch
  BY <1>2 DEF Reached
<1>6. \A x \in submitted : /\ Undealt(x)' => Undealt(x)
                           /\ Covers(Batch, x) => ~Undealt(x)'
                           /\ Undealt(x) => Undealt(x)' \/ Covers(Batch, x)
  BY <1>2, <1>5, BatchDealt
<1>7. \A x \in Item : Covers(Batch, x) => x \in submitted /\ ran[x] = 0
  BY <1>2, BatchHolds
<1>8. \A w \in Workers : Due(w)' = Due(w)
  BY <1>2 DEF Due, First, Last
<1>9. \A w, p, x : Holds(w, p, x)' <=> Holds(w, p, x)
  BY <1>2 DEF Holds, At, Covers
<1>10. LoopKnows'
  BY <1>2 DEF ItemsInv, LoopKnows
<1>11. Submissions'
  BY <1>2 DEF ItemsInv, Submissions
<1>12. RanOnce'
  <2>1. SUFFICES ASSUME NEW x \in Item
                 PROVE  /\ ran'[x] \in {0, 1}
                        /\ ran'[x] = 1 => x \in submitted' /\ ~Undealt(x)'
    BY DEF RanOnce
  <2>2. CASE Covers(Batch, x)
    BY <1>2, <1>3, <1>6, <1>7, <2>2
  <2>3. CASE ~Covers(Batch, x)
    BY <1>2, <1>3, <1>6, <2>3 DEF ItemsInv, RanOnce
  <2> QED BY <2>2, <2>3
<1>13. DueToRun'
  <2>1. SUFFICES ASSUME NEW w \in Workers, NEW p \in Due(w), NEW x \in Item,
                        Holds(w, p, x)
                 PROVE  x \in submitted' /\ ran'[x] = 0 /\ ~Undealt(x)'
    BY <1>8, <1>9 DEF DueToRun
  <2>2. ~Covers(Batch, x)
    BY <1>2, <2>1, BatchNotHeld
  <2> QED BY <1>2, <1>3, <1>6, <2>1, <2>2 DEF ItemsInv, DueToRun
<1>14. HeldOnce'
  BY <1>8, <1>9 DEF ItemsInv, HeldOnce
<1>15. NoneLost'
  <2>1. SUFFICES ASSUME NEW x \in submitted
                 PROVE  \/ ran'[x] = 1
                        \/ Undealt(x)'
                        \/ \E w \in Workers : \E p \in Due(w) : Holds(w, p, x)
    BY <1>2, <1>8, <1>9 DEF NoneLost
  <2>2. CASE Covers(Batch, x)
    BY <1>3, <1>4, <1>7, <2>2
  <2>3. CASE ~Covers(Batch, x)
    BY <1>3, <1>4, <1>6, <2>3 DEF ItemsInv, NoneLost
  <2> QED BY <2>2, <2>3
<1>16. RunsOldest'
  BY <1>2 DEF ItemsInv, RunsOldest, At
<1> QED
  BY <1>1, <1>10, <1>11, <1>12, <1>13, <1>14, <1>15, <1>16 DEF ItemsInv

LEMMA StoreWorkItems ==
    ASSUME ItemsInv, StoreWork
    PROVE  ItemsInv'
<1>1. DispatchInv'
  BY StoreWorkStep DEF ItemsInv
<1>2. /\ cpc = "store" /\ cpc' = "signal"
      /\ queue' = [queue EXCEPT ![target][slot] = Batch]
      /\ UNCHANGED <<calls, size, batch, i, target, slot, done_count,
                     work_count, wpc, work, submitted, ran>>
  BY DEF StoreWork, CallerGoto, worker, history
<1>3. /\ submitted \subseteq Item /\ target \in Workers
      /\ queue \in [Workers -> [0 .. Slots - 1 -> Work \union {NoWork}]]
  BY DEF ItemsInv, DispatchInv, TypeOK
<1>0. PICK t \in Workers : t = target
  BY <1>3
<1>4. PICK e \in Int : e = Last(t)
  BY Positions DEF ItemsInv
<1>5. e = work_count[t] - 1 /\ slot = e % Slots /\ slot \in 0 .. Slots - 1
      /\ e \in Nat /\ e + 1 = Last(t)' /\ e < done_count[t] + Slots
  <2>1. /\ work_count[t] \in Nat /\ done_count[t] \in Nat
        /\ there_is_work[t] \in Nat
        /\ work_count[t] - done_count[t] \in 0 .. Slots
    BY DEF ItemsInv, DispatchInv, TypeOK, RingBounded
  <2>2. there_is_work[t]
          + Count(wpc[t] \in {"check", "fetch", "run", "count", "trapped"})
          + 1 = work_count[t] - done_count[t]
    BY <1>0, <1>2 DEF ItemsInv, DispatchInv, TokensMatch
  <2>3. work_count[t] > done_count[t]
    BY <2>1, <2>2
  <2>4. e = work_count[t] - 1 /\ Last(t)' = work_count[t]
    BY <1>0, <1>2, <1>4, <2>1 DEF Last
  <2>5. slot = (work_count[t] - 1) % Slots /\ slot \in 0 .. Slots - 1
    BY <1>0, <1>2 DEF ItemsInv, LoopKnows, DispatchInv, TypeOK
  <2> QED BY <2>1, <2>3, <2>4, <2>5
<1>6. \A w \in Workers : First(w)' = First(w) /\ (w # t => Last(w)' = Last(w))
  BY <1>0, <1>2 DEF First, Last
<1>7. ASSUME NEW w \in Workers, NEW p
      PROVE  /\ p \in Due(w)' <=> p \in Due(w) \/ (w = t /\ p = e)
             /\ ~(w = t /\ p = e /\ p \in Due(w))
  <2>1. First(w) \in Nat /\ Last(w) \in Int
    BY Positions DEF ItemsInv
  <2>2. First(t) <= e
    <3>1. /\ work_count[t] \in Nat /\ done_count[t] \in Nat
          /\ there_is_work[t] \in Nat
          /\ there_is_work[t]
               + Count(wpc[t] \in {"check", "fetch", "run", "count",
                                        "trapped"})
               + 1 = work_count[t] - done_count[t]
      BY <1>0, <1>2 DEF ItemsInv, DispatchInv, TypeOK, TokensMatch
    <3> QED BY <1>5, <3>1 DEF First
  <2>3. CASE w = t
    <3>1. First(w)' = First(w) /\ Last(w) = e /\ Last(w)' = e + 1
      BY <1>4, <1>5, <1>6, <2>3
    <3>2. Due(w) = First(w) .. e - 1 /\ Due(w)' = First(w) .. e
      BY <1>4, <3>1 DEF Due
    <3> QED BY <2>1, <2>2, <2>3, <3>2
  <2>4. CASE w # t
    BY <1>6, <2>4 DEF Due
  <2> QED BY <2>3, <2>4
<1>8. ASSUME NEW w \in Workers, NEW p \in Due(w), NEW x
      PROVE  Holds(w, p, x)' <=> Holds(w, p, x)
  <2>1. p \in Nat /\ done_count[w] <= p /\ p < Last(w)
    BY Positions DEF ItemsInv, Due, First
  <2>2. w = t => p % Slots # slot
    <3>1. ASSUME w = t PROVE p % Slots # e % Slots
      <4>1. p < e /\ e < p + Slots
        <5>1. done_count[w] \in Nat /\ Last(w) = e
          BY <1>4, <3>1, Positions DEF ItemsInv
        <5> QED BY <1>5, <2>1, <3>1, <5>1
      <4> QED BY <1>5, <2>1, <4>1, SlotsApart
    <3> QED BY <1>5, <3>1
  <2>3. p % Slots \in 0 .. Slots - 1
    BY <2>1, InRing
  <2>4. queue'[w][p % Slots] = queue[w][p % Slots]
    BY <1>0, <1>2, <1>3, <1>5, <2>2, <2>3
  <2> QED BY <2>4 DEF Holds, At, Covers
<1>9. \A x : Holds(t, e, x)' <=> Covers(Batch, x)
  <2>1. queue'[t][e % Slots] = Batch
    BY <1>0, <1>2, <1>3, <1>5
  <2> QED BY <2>1 DEF Holds, At, Covers
<1>10. Reached' = i + batch
  BY <1>2 DEF Reached
<1>11. \A x \in submitted : /\ Undealt(x)' => Undealt(x)
                            /\ Covers(Batch, x) => ~Undealt(x)'
                            /\ Undealt(x) => Undealt(x)' \/ Covers(Batch, x)
  BY <1>2, <1>10, BatchDealt
<1>12. \A x \in Item : Covers(Batch, x) => x \in submitted /\ ran[x] = 0
  BY <1>2, BatchHolds
<1>13. ASSUME NEW w \in Workers, NEW p \in Due(w), NEW x \in Item,
              Covers(Batch, x)
       PROVE  ~Holds(w, p, x)
  BY <1>2, <1>13, BatchNotHeld
<1>14. LoopKnows'
  BY <1>2 DEF ItemsInv, LoopKnows
<1>15. Submissions'
  BY <1>2 DEF ItemsInv, Submissions
<1>16. RanOnce'
  BY <1>2, <1>11 DEF ItemsInv, RanOnce
<1>17. DueToRun'
  <2>1. SUFFICES ASSUME NEW w \in Workers, NEW p \in Due(w)', NEW x \in Item,
                        Holds(w, p, x)'
                 PROVE  x \in submitted /\ ran[x] = 0 /\ ~Undealt(x)'
    BY <1>2 DEF DueToRun
  <2>2. CASE p \in Due(w)
    <3>1. Holds(w, p, x)
      BY <1>8, <2>1, <2>2
    <3> QED BY <1>11, <2>2, <3>1 DEF ItemsInv, DueToRun
  <2>3. CASE w = t /\ p = e
    BY <1>9, <1>11, <1>12, <2>1, <2>3
  <2> QED BY <1>7, <2>2, <2>3
<1>18. HeldOnce'
  <2>1. SUFFICES ASSUME NEW w \in Workers, NEW v \in Workers,
                        NEW p \in Due(w)', NEW q \in Due(v)', NEW x \in Item,
                        Holds(w, p, x)', Holds(v, q, x)'
                 PROVE  w = v /\ p = q
    BY DEF HeldOnce
  <2>2. CASE p \in Due(w) /\ q \in Due(v)
    BY <1>8, <2>1, <2>2 DEF ItemsInv, HeldOnce
  <2>3. CASE p \in Due(w) /\ v = t /\ q = e
    BY <1>8, <1>9, <1>13, <2>1, <2>3
  <2>4. CASE w = t /\ p = e /\ q \in Due(v)
    BY <1>8, <1>9, <1>13, <2>1, <2>4
  <2> QED BY <1>7, <2>1, <2>2, <2>3, <2>4
<1>19. NoneLost'
  <2>1. SUFFICES ASSUME NEW x \in submitted
                 PROVE  \/ ran[x] = 1
                        \/ Undealt(x)'
                        \/ \E w \in Workers : \E p \in Due(w)' : Holds(w, p, x)'
    BY <1>2 DEF NoneLost
  <2>2. CASE Covers(Batch, x)
    BY <1>3, <1>7, <1>9, <2>2
  <2>3. CASE \E w \in Workers : \E p \in Due(w) : Holds(w, p, x)
    BY <1>7, <1>8, <2>3
  <2> QED BY <1>11, <2>2, <2>3 DEF ItemsInv, NoneLost
<1>20. RunsOldest'
  <2>1. SUFFICES ASSUME NEW w \in Workers, wpc[w] = "run"
                 PROVE  work[w] = At(w, done_count[w])'
    BY <1>2 DEF RunsOldest
  <2>2. PICK p : p = done_count[w]
    OBVIOUS
  <2>3. p \in Due(w) /\ work[w] = At(w, p)
    BY <2>1, <2>2, OldestIsDue DEF ItemsInv, RunsOldest
  <2>4. p \in Nat /\ p < Last(w)
    BY <2>1, <2>2, OldestIsDue, Positions DEF ItemsInv
  <2>5. w = t => p % Slots # slot
    <3>1. ASSUME w = t PROVE p % Slots # e % Slots
      BY <1>4, <1>5, <2>2, <2>4, <3>1, SlotsApart
    <3> QED BY <1>5, <3>1
  <2>6. p % Slots \in 0 .. Slots - 1
    BY <2>4, InRing
  <2>7. queue'[w][p % Slots] = queue[w][p % Slots]
    BY <1>0, <1>2, <1>3, <1>5, <2>5, <2>6
  <2> QED BY <1>2, <2>2, <2>3, <2>7 DEF At
<1> QED
  BY <1>1, <1>14, <1>15, <1>16, <1>17, <1>18, <1>19, <1>20 DEF ItemsInv

-----------------------------------------------------------------------------
(* The workers' steps and the items                                        *)

LEMMA RunWorkItems ==
    ASSUME ItemsInv, NEW w \in Workers, RunWork(w)
    PROVE  ItemsInv'
<1>1. DispatchInv'
  BY WorkerSteps DEF ItemsInv, WorkerStep
<1>2. /\ wpc[w] = "run" /\ wpc' = [wpc EXCEPT ![w] = "count"]
      /\ UNCHANGED <<cpc, calls, size, batch, i, target, slot, done_count,
                     work_count, queue, work, submitted>>
  BY DEF RunWork, WorkerGoto, caller, shared
<1>3. /\ submitted \subseteq Item /\ wpc \in [Workers -> WorkerPCs]
      /\ ran \in [Item -> Nat]
  BY DEF ItemsInv, DispatchInv, TypeOK
<1>4. PICK d \in Nat : d = done_count[w]
  BY Positions DEF ItemsInv
<1>5. d \in Due(w) /\ First(w) = d /\ d < Last(w) /\ work[w] = At(w, d)
  BY <1>2, <1>4, OldestIsDue DEF ItemsInv, RunsOldest
<1>6. \A x \in Item : ran'[x] = IF Holds(w, d, x) THEN ran[x] + 1 ELSE ran[x]
  BY <1>5, CallbackCounts DEF RunWork, Holds
<1>7. \A x \in Item : Holds(w, d, x) =>
                        x \in submitted /\ ran[x] = 0 /\ ~Undealt(x)
  BY <1>5 DEF ItemsInv, DueToRun
<1>8. \A v, p, x : Holds(v, p, x)' <=> Holds(v, p, x)
  BY <1>2 DEF Holds, At, Covers
<1>9. \A x : Undealt(x)' <=> Undealt(x)
  BY <1>2 DEF Undealt, Reached
<1>10. ASSUME NEW v \in Workers, NEW p
       PROVE  p \in Due(v)' <=> p \in Due(v) /\ ~(v = w /\ p = d)
  <2>1. Last(v)' = Last(v) /\ Last(v) \in Int
    BY <1>2, Positions DEF Last, ItemsInv
  <2>2. CASE v = w
    <3>1. First(v)' = d + 1
      BY <1>2, <1>3, <1>4, <2>2 DEF First
    <3>2. Due(v)' = d + 1 .. Last(v) - 1 /\ Due(v) = d .. Last(v) - 1
      BY <1>5, <2>1, <2>2, <3>1 DEF Due
    <3> QED BY <2>1, <2>2, <3>2
  <2>3. CASE v # w
    BY <1>2, <1>3, <2>1, <2>3 DEF Due, First
  <2> QED BY <2>2, <2>3
<1>11. LoopKnows'
  BY <1>2 DEF ItemsInv, LoopKnows
<1>12. Submissions'
  BY <1>2 DEF ItemsInv, Submissions
<1>13. RanOnce'
  <2>1. SUFFICES ASSUME NEW x \in Item
                 PROVE  /\ ran'[x] \in {0, 1}
                        /\ ran'[x] = 1 => x \in submitted /\ ~Undealt(x)
    BY <1>2, <1>9 DEF RanOnce
  <2>2. CASE Holds(w, d, x)
    BY <1>6, <1>7, <2>2
  <2>3. CASE ~Holds(w, d, x)
    BY <1>6, <2>3 DEF ItemsInv, RanOnce
  <2> QED BY <2>2, <2>3
<1>14. DueToRun'
  <2>1. SUFFICES ASSUME NEW v \in Workers, NEW p \in Due(v)', NEW x \in Item,
                        Holds(v, p, x)
                 PROVE  x \in submitted /\ ran'[x] = 0 /\ ~Undealt(x)
    BY <1>2, <1>8, <1>9 DEF DueToRun
  <2>2. p \in Due(v) /\ ~(v = w /\ p = d)
    BY <1>10
  <2>3. ~Holds(w, d, x)
    BY <1>5, <2>1, <2>2 DEF ItemsInv, HeldOnce
  <2> QED BY <1>6, <2>1, <2>2, <2>3 DEF ItemsInv, DueToRun
<1>15. HeldOnce'
  BY <1>8, <1>10 DEF ItemsInv, HeldOnce
<1>16. NoneLost'
  <2>1. SUFFICES ASSUME NEW x \in submitted
                 PROVE  \/ ran'[x] = 1
                        \/ Undealt(x)
                        \/ \E v \in Workers : \E p \in Due(v)' : Holds(v, p, x)
    BY <1>2, <1>8, <1>9 DEF NoneLost
  <2>2. CASE Holds(w, d, x)
    BY <1>3, <1>6, <1>7, <2>2
  <2>3. CASE ~Holds(w, d, x)
    <3>1. CASE \E v \in Workers : \E p \in Due(v) : Holds(v, p, x)
      <4>1. PICK v \in Workers : \E p \in Due(v) : Holds(v, p, x)
        BY <3>1
      <4>2. PICK p \in Due(v) : Holds(v, p, x)
        BY <4>1
      <4>3. p \in Due(v)'
        BY <1>10, <2>3, <4>2
      <4> QED BY <4>2, <4>3
    <3>2. CASE ~(\E v \in Workers : \E p \in Due(v) : Holds(v, p, x))
      BY <1>3, <1>6, <2>3, <3>2 DEF ItemsInv, NoneLost
    <3> QED BY <3>1, <3>2
  <2> QED BY <2>2, <2>3
<1>17. RunsOldest'
  <2>1. \A v \in Workers : wpc'[v] = "run" => wpc[v] = "run"
    BY <1>2, <1>3
  <2> QED BY <1>2, <2>1 DEF ItemsInv, RunsOldest, At
<1> QED
  BY <1>1, <1>11, <1>12, <1>13, <1>14, <1>15, <1>16, <1>17 DEF ItemsInv

(* The steps in which a worker runs nothing.                               *)
LEMMA QuietWorkerItems ==
    ASSUME ItemsInv, NEW w \in Workers,
           \/ Start(w) \/ WaitForWork(w) \/ CheckCounts(w) \/ FetchWork(w)
           \/ CountDone(w) \/ SignalDone(w)
    PROVE  ItemsInv'
<1>1. DispatchInv'
  BY WorkerSteps DEF ItemsInv, WorkerStep
<1>2. UNCHANGED <<cpc, calls, size, batch, i, target, slot, work_count, queue,
                  submitted, ran>>
  BY DEF Start, WaitForWork, CheckCounts, FetchWork, CountDone, SignalDone,
         caller, shared, history
<1>3. /\ wpc \in [Workers -> WorkerPCs] /\ done_count \in [Workers -> Nat]
      /\ work \in [Workers -> Work \union {NoWork}]
  BY DEF ItemsInv, DispatchInv, TypeOK
<1>4. Reached' = Reached
  BY <1>2 DEF Reached
<1>5. ASSUME NEW v \in Workers
      PROVE  First(v)' = First(v) /\ Last(v)' = Last(v)
  <2>1. Last(v)' = Last(v)
    BY <1>2 DEF Last
  <2>2. CASE CountDone(w)
    <3>1. /\ wpc[w] = "count" /\ wpc' = [wpc EXCEPT ![w] = "signal"]
          /\ done_count' = [done_count EXCEPT ![w] = @ + 1]
      BY <2>2 DEF CountDone, WorkerGoto
    <3>2. CASE v = w
      <4>1. /\ wpc'[v] = "signal" /\ done_count'[v] = done_count[v] + 1
            /\ done_count[v] \in Nat
        BY <1>3, <3>1, <3>2
      <4> QED BY <2>1, <3>1, <3>2, <4>1 DEF First
    <3>3. CASE v # w
      BY <1>3, <2>1, <3>1, <3>3 DEF First
    <3> QED BY <3>2, <3>3
  <2>3. CASE ~CountDone(w)
    <3>1. /\ done_count' = done_count
          /\ wpc'[v] = "count" <=> wpc[v] = "count"
      BY <1>3, <2>3
      DEF Start, WaitForWork, CheckCounts, FetchWork, SignalDone, WorkerGoto,
          shared
    <3> QED BY <2>1, <3>1 DEF First
  <2> QED BY <2>2, <2>3
<1>6. ItemsPart'
  BY <1>2, <1>4, <1>5, ItemsStay
<1>7. LoopKnows'
  BY <1>2 DEF ItemsInv, LoopKnows
<1>8. RunsOldest'
  <2>1. SUFFICES ASSUME NEW v \in Workers, wpc'[v] = "run"
                 PROVE  work'[v] = queue[v][done_count'[v] % Slots]
    BY <1>2 DEF RunsOldest, At
  <2>2. CASE FetchWork(w) /\ v = w
    BY <1>3, <2>2 DEF FetchWork, WorkerGoto, shared
  <2>3. CASE ~(FetchWork(w) /\ v = w)
    <3>1. wpc[v] = "run" /\ work'[v] = work[v]
          /\ done_count'[v] = done_count[v]
      BY <1>3, <2>1, <2>3
      DEF Start, WaitForWork, CheckCounts, FetchWork, CountDone, SignalDone,
          WorkerGoto, shared
    <3> QED BY <3>1 DEF ItemsInv, RunsOldest, At
  <2> QED BY <2>2, <2>3
<1> QED BY <1>1, <1>6, <1>7, <1>8 DEF ItemsInv, ItemsPart

(* The items are kept track of by every step.                              *)
THEOREM ItemsInvInductive == ItemsInv /\ [Next]_vars => ItemsInv'
<1>. SUFFICES ASSUME ItemsInv, [Next]_vars
              PROVE  ItemsInv'
  OBVIOUS
<1>1. ASSUME NEW s \in Sizes, NEW b \in BatchSizes, Dispatch(s, b)
      PROVE  ItemsInv'
  BY <1>1, DispatchItems
<1>2. CASE BeginSync \/ CallerStep
  BY <1>2, QuietCallerItems, RunInlineItems, StoreWorkItems DEF CallerStep
<1>3. ASSUME NEW w \in Workers, WorkerStep(w)
      PROVE  ItemsInv'
  BY <1>3, RunWorkItems, QuietWorkerItems DEF WorkerStep
<1>4. CASE UNCHANGED vars
  <2>1. DispatchInv'
    BY <1>4, DispatchInvInductive DEF ItemsInv
  <2>2. \A w \in Workers : First(w)' = First(w) /\ Last(w)' = Last(w)
    BY <1>4 DEF vars, First, Last
  <2>3. ItemsPart'
    BY <1>4, <2>2, ItemsStay DEF vars, Reached
  <2>4. LoopKnows' /\ RunsOldest'
    BY <1>4 DEF vars, ItemsInv, LoopKnows, RunsOldest, At
  <2> QED BY <2>1, <2>3, <2>4 DEF ItemsInv, ItemsPart
<1> QED BY <1>1, <1>2, <1>3, <1>4 DEF Next

(* Throughout, every submitted item is not dealt yet, in one batch of one  *)
(* ring, or has run once.                                                  *)
THEOREM ItemsInvariant == Spec => []ItemsInv
  BY InitItems, ItemsInvInductive, PTL DEF Spec

-----------------------------------------------------------------------------
(* The refinement                                                          *)

(* A callback of a batch none of whose items ran is a step of Process.     *)
LEMMA CallbackProcesses ==
    ASSUME ItemsInv, NEW b, Callback(b), submitted' = submitted,
           cpc # "synced", cpc' # "synced",
           \A x \in Item : Covers(b, x) => x \in submitted /\ ran[x] = 0
    PROVE  Join!Process
<1>. DEFINE items == {x \in Item : Covers(b, x)}
<1>1. items \in SUBSET submitted /\ \A x \in items : ran[x] = 0
  OBVIOUS
<1>2. ran' = [x \in Item |-> IF x \in items THEN 1 ELSE ran[x]]
  <2>1. \A x \in Item :
           (IF x[1] = b.call /\ x[2] \in b.start .. b.end - 1
            THEN ran[x] + 1 ELSE ran[x])
           = (IF x \in items THEN 1 ELSE ran[x])
    <3>1. \A x \in Item : x[1] = b.call /\ x[2] \in b.start .. b.end - 1
                          <=> x \in items
      BY DEF Covers
    <3>2. \A x \in items : ran[x] + 1 = 1
      BY <1>1
    <3> QED BY <3>1, <3>2
  <2> QED BY <2>1 DEF Callback
<1>3. UNCHANGED <<submitted, cpc = "synced">>
  OBVIOUS
<1> HIDE DEF items
<1> QED BY <1>1, <1>2, <1>3 DEF Join!Process

LEMMA StepsAreJoinSteps ==
    ASSUME ItemsInv, [Next]_vars
    PROVE  [Join!Next]_(Join!joinVars)
<1>1. ASSUME NEW s \in Sizes, NEW b \in BatchSizes, Dispatch(s, b)
      PROVE  Join!Submit
  <2>1. DispatchInv'
    BY <1>1, DispatchStep DEF ItemsInv
  <2>. DEFINE items == {<<calls + 1, k>> : k \in 0 .. s - 1}
  <2>2. /\ cpc = "idle" /\ cpc' = "next" /\ ran' = ran
        /\ submitted' = submitted \union items
    BY <1>1 DEF Dispatch
  <2>3. calls \in Nat /\ submitted \subseteq Item /\ submitted' \subseteq Item
    <3>1. submitted' \in SUBSET Item
      <4>1. TypeOK'
        BY <2>1 DEF DispatchInv
      <4> QED BY <4>1 DEF TypeOK
    <3> QED BY <3>1 DEF ItemsInv, DispatchInv, TypeOK
  <2>4. ASSUME NEW x \in items PROVE x \in Item \ submitted
    <3>1. x \in Item
      BY <2>2, <2>3
    <3>2. PICK k \in 0 .. s - 1 : x = <<calls + 1, k>>
      OBVIOUS
    <3>3. x[1] = calls + 1
      BY <3>2
    <3>4. ~(calls + 1 <= calls)
      BY <2>3
    <3>5. \A y \in submitted : y[1] <= calls
      BY DEF ItemsInv, Submissions
    <3> QED BY <3>1, <3>3, <3>4, <3>5
  <2>5. items \in SUBSET (Item \ submitted)
    BY <2>4
  <2>6. (cpc = "synced") = (cpc' = "synced") /\ cpc # "synced"
    BY <2>2
  <2> HIDE DEF items
  <2> QED BY <2>2, <2>5, <2>6 DEF Join!Submit
<1>2. CASE RunInline
  <2>1. /\ cpc = "inline" /\ cpc' = "next" /\ submitted' = submitted
        /\ Callback(Batch)
    BY <1>2 DEF RunInline, Advance
  <2>2. \A x \in Item : Covers(Batch, x) => x \in submitted /\ ran[x] = 0
    BY <2>1, BatchHolds
  <2> QED BY <2>1, <2>2, CallbackProcesses DEF Join!Next
<1>3. ASSUME NEW w \in Workers, RunWork(w)
      PROVE  Join!Process \/ UNCHANGED Join!joinVars
  <2>1. /\ wpc[w] = "run" /\ cpc' = cpc /\ submitted' = submitted
        /\ Callback(work[w])
    BY <1>3 DEF RunWork, caller
  <2>2. PICK d \in Due(w) : work[w] = At(w, d)
    BY <2>1, OldestIsDue DEF ItemsInv, RunsOldest
  <2>3. \A x \in Item : Covers(work[w], x) => x \in submitted /\ ran[x] = 0
    BY <2>2 DEF ItemsInv, DueToRun, Holds
  <2>4. cpc # "synced"
    <3>1. done_count[w] < work_count[w]
      BY <2>1, BusyWorker DEF ItemsInv
    <3>2. done_count[w] \in Nat /\ work_count[w] \in Nat
      BY Positions DEF ItemsInv
    <3> QED BY <3>1, <3>2 DEF ItemsInv, DispatchInv, CallerKnows
  <2> QED BY <2>1, <2>3, <2>4, CallbackProcesses
<1>4. CASE SyncCheck
  <2>1. cpc = "sync" /\ UNCHANGED <<submitted, ran>>
    BY <1>4 DEF SyncCheck, history
  <2>2. CASE cpc' # "synced"
    BY <2>1, <2>2 DEF Join!joinVars
  <2>3. CASE cpc' = "synced"
    <3>1. done_count[target] = work_count[target] /\ ~(target < WorkerCount)
      BY <1>4, <2>1, <2>3 DEF SyncCheck, CallerGoto
    <3>2. target \in Workers
      BY DEF ItemsInv, DispatchInv, TypeOK
    <3>3. \A w \in Workers : w < target \/ w = target
      BY <3>1, <3>2 DEF Workers
    <3>4. \A w \in Workers : done_count[w] = work_count[w]
      BY <2>1, <3>1, <3>3 DEF ItemsInv, DispatchInv, CallerKnows
    <3>5. ASSUME NEW w \in Workers PROVE Due(w) = {}
      <4>1. /\ done_count[w] \in Nat /\ done_count[w] = work_count[w]
            /\ First(w) \in Nat /\ Last(w) \in Int
        BY <3>4, Positions DEF ItemsInv
      <4>2. done_count[w] <= First(w)
        BY <4>1 DEF First
      <4>3. Last(w) <= work_count[w]
        BY <4>1 DEF Last
      <4> QED BY <4>1, <4>2, <4>3 DEF Due
    <3>6. ASSUME NEW x \in submitted PROVE ~Undealt(x)
      <4>1. /\ x \in Item /\ size \in Nat /\ i \in Nat /\ size <= i
            /\ Reached = i
        BY <2>1 DEF ItemsInv, DispatchInv, TypeOK, LoopKnows, Reached
      <4>2. x[2] \in Nat /\ (x[1] = calls => x[2] < size)
        BY <4>1, ItemParts DEF ItemsInv, Submissions
      <4> QED BY <4>1, <4>2 DEF Undealt
    <3>7. \A x \in submitted : ran[x] = 1
      BY <3>5, <3>6 DEF ItemsInv, NoneLost
    <3>8. cpc # "synced"
      BY <2>1
    <3>9. Join!Join
      BY <2>1, <2>3, <3>7, <3>8 DEF Join!Join
    <3> QED BY <3>9 DEF Join!Next
  <2> QED BY <2>2, <2>3
<1>5. CASE ReturnFromSync
  <2>1. cpc = "synced" /\ cpc' = "idle" /\ UNCHANGED <<submitted, ran>>
    BY <1>5 DEF ReturnFromSync, CallerGoto, history
  <2>2. Join!Resume
    BY <2>1 DEF Join!Resume
  <2> QED BY <2>2 DEF Join!Next
<1>6. CASE \/ NextBatch \/ CheckRoom \/ StartThread \/ ClaimSlot \/ StoreWork
           \/ SignalWork \/ BeginSync \/ SyncWait
  <2>1. cpc # "synced" /\ cpc' # "synced" /\ UNCHANGED <<submitted, ran>>
    BY <1>6
    DEF NextBatch, CheckRoom, StartThread, ClaimSlot, StoreWork, SignalWork,
        BeginSync, SyncWait, CallerGoto, Advance, history
  <2> QED BY <2>1 DEF Join!joinVars
<1>7. ASSUME NEW w \in Workers, WorkerStep(w), ~RunWork(w)
      PROVE  UNCHANGED Join!joinVars
  BY <1>7
  DEF WorkerStep, Start, WaitForWork, CheckCounts, FetchWork, CountDone,
      SignalDone, caller, history, Join!joinVars
<1>8. CASE UNCHANGED vars
  BY <1>8 DEF vars, Join!joinVars
<1> QED
  BY <1>1, <1>2, <1>3, <1>4, <1>5, <1>6, <1>7, <1>8
  DEF Next, CallerStep, WorkerStep, Join!Next

(* th_dispatch_queue and th_dispatch_sync are a fork-join, whatever the    *)
(* number of workers, the size of the rings and the jobs: every item of a  *)
(* job runs once, and a sync returns when all have run.                    *)
THEOREM QueueIsForkJoin == Spec => ImplementsForkJoin
<1>1. Init => Join!Init
  BY DEF Init, Join!Init
<1>2. ItemsInv /\ [Next]_vars => [Join!Next]_(Join!joinVars)
  BY StepsAreJoinSteps
<1> QED
  BY <1>1, <1>2, ItemsInvariant, PTL DEF Spec, ImplementsForkJoin, Join!Spec
=============================================================================
