--------------------------- MODULE DispatchQueue ---------------------------
(***************************************************************************)
(* THDispatchQueue (Libraries/LibThread/DispatchQueue.c): one caller deals *)
(* the batches of a job to the ring buffers of its workers in turn, and    *)
(* runs a batch itself when the ring of the worker whose turn it is is     *)
(* full.  Caller and workers share, per worker, two atomic counters, the   *)
(* ring and two semaphores.  A worker thread is created suspended and      *)
(* started by the first batch that it gets.                                *)
(***************************************************************************)
EXTENDS Integers

CONSTANTS
    WorkerCount,    \* q->worker_count: processors online
    Slots,          \* ARRAY_SIZE(worker->queue): 256 in the code
    Sizes,          \* sizes of the jobs dispatched
    BatchSizes,     \* their batch sizes
    MaxCalls        \* bound: calls of th_dispatch_queue

ASSUME DispatchAssumption ==
    /\ WorkerCount \in Nat \ {0}
    /\ Slots \in Nat \ {0}
    /\ Sizes \subseteq Nat
    /\ BatchSizes \subseteq Nat \ {0}
    /\ MaxCalls \in Nat

Workers == 1 .. WorkerCount
Calls   == 1 .. MaxCalls

(* An item is one index of the range of one call.                          *)
Item == {<<c, k>> : c \in Calls, k \in UNION {0 .. s - 1 : s \in Sizes}}

VARIABLES
    (* the caller *)
    cpc,             \* where it is in th_dispatch_queue or th_dispatch_sync
    calls,           \* number of jobs dispatched
    size, batch, i,  \* the arguments and the loop variable
    robin,           \* q->robin
    target,          \* the worker it is dealing with
    slot,            \* the ring index that work_count++ gave it
    (* shared, per worker *)
    suspended, there_is_work, completed_work,   \* semaphores
    work_count, done_count, queue,
    (* the workers *)
    wpc,             \* where the worker is in dispatch_thread
    work,            \* its copy of the batch
    (* history *)
    submitted, ran

caller == <<cpc, calls, size, batch, i, robin, target, slot>>
shared == <<suspended, there_is_work, completed_work,
            work_count, done_count, queue>>
worker == <<wpc, work>>
history == <<submitted, ran>>
vars == <<cpc, calls, size, batch, i, robin, target, slot,
          suspended, there_is_work, completed_work,
          work_count, done_count, queue, wpc, work, submitted, ran>>

Work   == [call : Calls, start : Nat, end : Nat]
NoWork == [call |-> 0, start |-> 0, end |-> 0]    \* MEMZERO: no callback

CallerPCs == {"idle", "next", "room", "inline", "start", "claim", "store",
              "signal", "sync", "syncwait", "synced"}
WorkerPCs == {"suspended", "wait", "check", "fetch", "run", "count",
              "signal", "trapped"}

TypeOK ==
    /\ cpc \in CallerPCs
    /\ calls \in 0 .. MaxCalls
    /\ size \in Nat /\ batch \in Nat /\ i \in Nat
    /\ robin \in Nat
    /\ target \in Workers
    /\ slot \in 0 .. Slots - 1
    /\ suspended \in [Workers -> Nat]
    /\ there_is_work \in [Workers -> Nat]
    /\ completed_work \in [Workers -> Nat]
    /\ work_count \in [Workers -> Nat]
    /\ done_count \in [Workers -> Nat]
    /\ queue \in [Workers -> [0 .. Slots - 1 -> Work \union {NoWork}]]
    /\ wpc \in [Workers -> WorkerPCs]
    /\ work \in [Workers -> Work \union {NoWork}]
    /\ submitted \in SUBSET Item
    /\ ran \in [Item -> Nat]

Init ==
    /\ cpc = "idle" /\ calls = 0
    /\ size = 0 /\ batch = 0 /\ i = 0
    /\ robin = 0 /\ target = 1 /\ slot = 0
    /\ suspended = [w \in Workers |-> 0]
    /\ there_is_work = [w \in Workers |-> 0]
    /\ completed_work = [w \in Workers |-> 0]
    /\ work_count = [w \in Workers |-> 0]
    /\ done_count = [w \in Workers |-> 0]
    /\ queue = [w \in Workers |-> [s \in 0 .. Slots - 1 |-> NoWork]]
    /\ wpc = [w \in Workers |-> "suspended"]
    /\ work = [w \in Workers |-> NoWork]
    /\ submitted = {} /\ ran = [x \in Item |-> 0]

-----------------------------------------------------------------------------
(* th_dispatch_queue                                                       *)

CallerGoto(pc) ==
    /\ cpc' = pc
    /\ UNCHANGED <<calls, size, batch, i, robin, target, slot>>

(* The batch the loop is at.                                               *)
Batch == [call  |-> calls,
          start |-> i,
          end   |-> IF i + batch < size THEN i + batch ELSE size]

(* The callback processes the items of a batch; a zeroed slot has none.    *)
Callback(b) ==
    ran' = [x \in Item |-> IF x[1] = b.call /\ x[2] \in b.start .. b.end - 1
                           THEN ran[x] + 1 ELSE ran[x]]

Dispatch(s, b) ==
    /\ cpc = "idle"
    /\ calls < MaxCalls
    /\ calls' = calls + 1
    /\ size' = s /\ batch' = b /\ i' = 0
    /\ cpc' = "next"
    /\ submitted' = submitted \union {<<calls + 1, k>> : k \in 0 .. s - 1}
    /\ UNCHANGED <<robin, target, slot, shared, worker, ran>>

(* The loop head: done, or the next worker in turn.                        *)
NextBatch ==
    /\ cpc = "next"
    /\ IF i >= size
       THEN CallerGoto("idle")
       ELSE /\ target' = (robin % WorkerCount) + 1
            /\ robin' = robin + 1
            /\ cpc' = "room"
            /\ UNCHANGED <<calls, size, batch, i, slot>>
    /\ UNCHANGED <<shared, worker, history>>

(* Mutant: a full ring still takes a batch.                                *)
CheckRoom_OffByOne ==
    /\ cpc = "room"
    /\ CallerGoto(IF Slots - (work_count[target] - done_count[target]) >= 0
                  THEN "start" ELSE "inline")
    /\ UNCHANGED <<shared, worker, history>>

(* The worker may finish batches after this look: the room only grows.     *)
CheckRoom ==
    /\ cpc = "room"
    /\ CallerGoto(IF Slots - (work_count[target] - done_count[target]) >= 1
                  THEN "start" ELSE "inline")
    /\ UNCHANGED <<shared, worker, history>>

Advance ==
    /\ i' = i + batch
    /\ cpc' = "next"
    /\ UNCHANGED <<calls, size, batch, robin, target, slot>>

(* Mutant: the worker is signalled for an inline batch too.                *)
RunInline_Signals ==
    /\ cpc = "inline"
    /\ Callback(Batch)
    /\ there_is_work' = [there_is_work EXCEPT ![target] = @ + 1]
    /\ Advance
    /\ UNCHANGED <<suspended, completed_work, work_count, done_count, queue,
                   worker, submitted>>

RunInline ==
    /\ cpc = "inline"
    /\ Callback(Batch)
    /\ Advance
    /\ UNCHANGED <<shared, worker, submitted>>

(* th_thread_start: one more token for a thread that takes only the first. *)
StartThread ==
    /\ cpc = "start"
    /\ suspended' = [suspended EXCEPT ![target] = @ + 1]
    /\ CallerGoto("claim")
    /\ UNCHANGED <<there_is_work, completed_work, work_count, done_count,
                   queue, worker, history>>

(* Mutant: ++work_count instead of work_count++.                           *)
ClaimSlot_PreIncrement ==
    /\ cpc = "claim"
    /\ slot' = (work_count[target] + 1) % Slots
    /\ work_count' = [work_count EXCEPT ![target] = @ + 1]
    /\ cpc' = "store"
    /\ UNCHANGED <<calls, size, batch, i, robin, target, suspended,
                   there_is_work, completed_work, done_count, queue,
                   worker, history>>

(* queue[work_count++ % 256] = work: the counter moves before the slot is  *)
(* written.                                                                *)
ClaimSlot ==
    /\ cpc = "claim"
    /\ slot' = work_count[target] % Slots
    /\ work_count' = [work_count EXCEPT ![target] = @ + 1]
    /\ cpc' = "store"
    /\ UNCHANGED <<calls, size, batch, i, robin, target, suspended,
                   there_is_work, completed_work, done_count, queue,
                   worker, history>>

StoreWork ==
    /\ cpc = "store"
    /\ queue' = [queue EXCEPT ![target][slot] = Batch]
    /\ CallerGoto("signal")
    /\ UNCHANGED <<suspended, there_is_work, completed_work, work_count,
                   done_count, worker, history>>

(* Mutant: a worker that has a token is not signalled again.               *)
SignalWork_Flag ==
    /\ cpc = "signal"
    /\ there_is_work' = [there_is_work EXCEPT ![target] = 1]
    /\ Advance
    /\ UNCHANGED <<suspended, completed_work, work_count, done_count, queue,
                   worker, history>>

SignalWork ==
    /\ cpc = "signal"
    /\ there_is_work' = [there_is_work EXCEPT ![target] = @ + 1]
    /\ Advance
    /\ UNCHANGED <<suspended, completed_work, work_count, done_count, queue,
                   worker, history>>

-----------------------------------------------------------------------------
(* th_dispatch_sync                                                        *)

BeginSync ==
    /\ cpc = "idle"
    /\ cpc' = "sync"
    /\ target' = 1
    /\ UNCHANGED <<calls, size, batch, i, robin, slot, shared, worker, history>>

(* The loop condition, checked again after every token.                    *)
SyncCheck ==
    /\ cpc = "sync"
    /\ IF done_count[target] # work_count[target]
       THEN CallerGoto("syncwait")
       ELSE IF target < WorkerCount
            THEN /\ target' = target + 1
                 /\ UNCHANGED <<cpc, calls, size, batch, i, robin, slot>>
            ELSE CallerGoto("synced")
    /\ UNCHANGED <<shared, worker, history>>

(* Mutant: the token is taken for the end of the worker's batches.         *)
SyncWait_TrustsToken ==
    /\ cpc = "syncwait"
    /\ completed_work[target] > 0
    /\ completed_work' = [completed_work EXCEPT ![target] = @ - 1]
    /\ IF target < WorkerCount
       THEN /\ target' = target + 1
            /\ cpc' = "sync"
            /\ UNCHANGED <<calls, size, batch, i, robin, slot>>
       ELSE CallerGoto("synced")
    /\ UNCHANGED <<suspended, there_is_work, work_count, done_count, queue,
                   worker, history>>

(* Tokens of batches that were already counted when sync looked are still  *)
(* in completed_work: a token says nothing by itself.                      *)
SyncWait ==
    /\ cpc = "syncwait"
    /\ completed_work[target] > 0
    /\ completed_work' = [completed_work EXCEPT ![target] = @ - 1]
    /\ CallerGoto("sync")
    /\ UNCHANGED <<suspended, there_is_work, work_count, done_count, queue,
                   worker, history>>

ReturnFromSync ==
    /\ cpc = "synced"
    /\ CallerGoto("idle")
    /\ UNCHANGED <<shared, worker, history>>

CallerStep ==
    \/ NextBatch \/ CheckRoom \/ RunInline \/ StartThread \/ ClaimSlot
    \/ StoreWork \/ SignalWork \/ SyncCheck \/ SyncWait \/ ReturnFromSync

-----------------------------------------------------------------------------
(* dispatch_thread                                                         *)

WorkerGoto(w, pc) == wpc' = [wpc EXCEPT ![w] = pc]

(* th_thread_start was called: entry_proc calls dispatch_thread.  That a   *)
(* wait fails, here or below, is left out: th_sem_wait fails only on a     *)
(* semaphore that is destroyed, and none is.                               *)
Start(w) ==
    /\ wpc[w] = "suspended"
    /\ suspended[w] > 0
    /\ suspended' = [suspended EXCEPT ![w] = @ - 1]
    /\ WorkerGoto(w, "wait")
    /\ UNCHANGED <<caller, there_is_work, completed_work, work_count,
                   done_count, queue, work, history>>

WaitForWork(w) ==
    /\ wpc[w] = "wait"
    /\ there_is_work[w] > 0
    /\ there_is_work' = [there_is_work EXCEPT ![w] = @ - 1]
    /\ WorkerGoto(w, "check")
    /\ UNCHANGED <<caller, suspended, completed_work, work_count, done_count,
                   queue, work, history>>

(* VERIFY(ctx->done_count < ctx->work_count)                               *)
CheckCounts(w) ==
    /\ wpc[w] = "check"
    /\ WorkerGoto(w, IF done_count[w] < work_count[w]
                     THEN "fetch" ELSE "trapped")
    /\ UNCHANGED <<caller, shared, work, history>>

FetchWork(w) ==
    /\ wpc[w] = "fetch"
    /\ work' = [work EXCEPT ![w] = queue[w][done_count[w] % Slots]]
    /\ WorkerGoto(w, "run")
    /\ UNCHANGED <<caller, shared, history>>

RunWork(w) ==
    /\ wpc[w] = "run"
    /\ Callback(work[w])
    /\ WorkerGoto(w, "count")
    /\ UNCHANGED <<caller, shared, work, submitted>>

CountDone(w) ==
    /\ wpc[w] = "count"
    /\ done_count' = [done_count EXCEPT ![w] = @ + 1]
    /\ WorkerGoto(w, "signal")
    /\ UNCHANGED <<caller, suspended, there_is_work, completed_work,
                   work_count, queue, work, history>>

(* Mutant: the caller is told of every second batch only.                  *)
SignalDone_Sometimes(w) ==
    /\ wpc[w] = "signal"
    /\ completed_work' = IF done_count[w] % 2 = 0
                         THEN [completed_work EXCEPT ![w] = @ + 1]
                         ELSE completed_work
    /\ WorkerGoto(w, "wait")
    /\ UNCHANGED <<caller, suspended, there_is_work, work_count, done_count,
                   queue, work, history>>

SignalDone(w) ==
    /\ wpc[w] = "signal"
    /\ completed_work' = [completed_work EXCEPT ![w] = @ + 1]
    /\ WorkerGoto(w, "wait")
    /\ UNCHANGED <<caller, suspended, there_is_work, work_count, done_count,
                   queue, work, history>>

WorkerStep(w) ==
    \/ Start(w) \/ WaitForWork(w) \/ CheckCounts(w) \/ FetchWork(w)
    \/ RunWork(w) \/ CountDone(w) \/ SignalDone(w)

-----------------------------------------------------------------------------
Trapped == \E w \in Workers : wpc[w] = "trapped"

Next ==
    /\ ~Trapped
    /\ \/ \E s \in Sizes, b \in BatchSizes : Dispatch(s, b)
       \/ BeginSync
       \/ CallerStep
       \/ \E w \in Workers : WorkerStep(w)

Spec == Init /\ [][Next]_vars

(* A call that has begun goes on, and so does every thread that can.  The  *)
(* callbacks return.                                                       *)
Fairness ==
    /\ WF_vars(~Trapped /\ CallerStep)
    /\ \A w \in Workers : WF_vars(~Trapped /\ WorkerStep(w))

FairSpec == Spec /\ Fairness

-----------------------------------------------------------------------------
(* Properties                                                              *)

Join == INSTANCE ForkJoin WITH joined <- cpc = "synced"

(* The dispatch queue is a fork-join: every item is processed once, by a   *)
(* worker or inline, and a sync returns only when all are.                 *)
ImplementsForkJoin == Join!Spec

(* The batches in a worker's ring are the ones not done, and no two of     *)
(* them share a slot: dealing never overwrites a batch that waits.         *)
RingBounded ==
    \A w \in Workers : work_count[w] - done_count[w] \in 0 .. Slots

Count(condition) == IF condition THEN 1 ELSE 0

(* The tokens in there_is_work are the batches not taken up: neither those *)
(* the worker is at nor the one the caller has claimed but not signalled.  *)
TokensMatch ==
    \A w \in Workers :
        there_is_work[w]
          + Count(wpc[w] \in {"check", "fetch", "run", "count", "trapped"})
          + Count(target = w /\ cpc \in {"store", "signal"})
        = work_count[w] - done_count[w]

(* The VERIFY of dispatch_thread holds: a token means a batch.             *)
NeverTraps == ~Trapped

(* After a sync no worker is inside a callback, so the caller may reuse    *)
(* what user1 and user2 point to.                                          *)
QuietAfterSync ==
    cpc = "synced" =>
      \A w \in Workers : /\ there_is_work[w] = 0
                         /\ wpc[w] \in {"suspended", "wait", "signal"}

(* What the caller knows: the room it saw is still there, and a worker     *)
(* that sync has passed has nothing to do.                                 *)
CallerKnows ==
    /\ cpc \in {"next", "room", "inline", "start", "claim", "store", "signal"}
         => calls > 0
    /\ cpc \in {"start", "claim"} =>
         work_count[target] - done_count[target] < Slots
    /\ cpc \in {"sync", "syncwait"} =>
         \A w \in Workers : w < target => done_count[w] = work_count[w]
    /\ cpc = "synced" => \A w \in Workers : done_count[w] = work_count[w]

(* The inductive invariant of caller and workers.                          *)
DispatchInv == TypeOK /\ RingBounded /\ TokensMatch /\ NeverTraps /\ CallerKnows

(* Every sync returns.                                                     *)
SyncReturns == cpc = "sync" ~> cpc = "synced"

(* Every item that was dispatched is processed, synced or not.             *)
EverythingRuns ==
    \A x \in Item : x \in submitted ~> ran[x] = 1
=============================================================================
