---------------------------- MODULE LoggerProofs ----------------------------
(***************************************************************************)
(* What the logger of the audio callback promises, for every queue, every  *)
(* size of the arena and any number of events.                             *)
(***************************************************************************)
EXTENDS Logger, MessageQueueProofs

Hows == {"direct", "queued"}

LoggerTypeOK ==
    /\ caller \in {"quiet", "sending", "aborted"}
    /\ logged \in Nat
    /\ handled \in Nat /\ handled <= Len(taken)
    /\ printed \in Seq([event : Nat, how : Hows])

(* A message carries one event, the numbers of messages and events go up   *)
(* together, and while a send is under way it is the last of both.         *)
CarriedOK ==
    /\ carried \in Seq(Nat) /\ Len(carried) = attempts
    /\ \A i \in 1 .. attempts : carried[i] \in 1 .. logged
    /\ \A i, j \in 1 .. attempts : i < j => carried[i] < carried[j]
    /\ caller = "sending" => attempts > 0 /\ carried[attempts] = logged

SentOK ==
    /\ wpc # "idle" => caller = "sending" /\ wmsg.id = attempts
    /\ \A i \in 1 .. Len(sent) : sent[i].id \in 1 .. attempts
    /\ \A i, j \in 1 .. Len(sent) : i < j => sent[i].id < sent[j].id
    /\ wpc \notin {"idle", "signal"} =>
          \A i \in 1 .. Len(sent) : sent[i].id < attempts

(* The event of the i-th message that was sent.                            *)
EventOf(i) == carried[sent[i].id]

(* What is printed directly was never sent.                                *)
DirectOK ==
    \A p \in 1 .. Len(printed) :
        printed[p].how = "direct" =>
            /\ printed[p].event \in 1 .. logged
            /\ \A i \in 1 .. Len(sent) : printed[p].event # EventOf(i)
            /\ caller = "sending" => printed[p].event # logged

(* What is printed from the queue is what was handled, in order.           *)
QueuedOK ==
    /\ \A p \in 1 .. Len(printed) :
          printed[p].how = "queued" =>
              \E i \in 1 .. handled : printed[p].event = EventOf(i)
    /\ \A i \in 1 .. handled :
          \E p \in 1 .. Len(printed) : printed[p].event = EventOf(i)

DroppedOK ==
    \A e \in dropped :
        /\ e \in 1 .. logged
        /\ \A i \in 1 .. attempts : carried[i] # e

Printed(e) == \E p \in 1 .. Len(printed) : printed[p].event = e

Pending(e) == \E i \in handled + 1 .. Len(sent) : EventOf(i) = e

(* Every event is somewhere, the one being sent included.                  *)
AccountedOK ==
    \A e \in 1 .. logged :
        \/ e \in dropped \/ Printed(e) \/ Pending(e)
        \/ caller = "sending" /\ e = logged

OutputOK == PrintedOnce /\ OvertakesOnlyDirectly

LogInv ==
    /\ LoggerTypeOK /\ CarriedOK /\ SentOK /\ DirectOK /\ QueuedOK
    /\ DroppedOK /\ AccountedOK /\ OutputOK

USE LoggerAssumption

-----------------------------------------------------------------------------
(* The queue                                                               *)

(* The logger thread only waits, which never ends in a VERIFY.             *)
LEMMA WaitNeverTraps == QueueInv => rpc # "trapped"
  BY DEF QueueInv, ReaderKnows

LEMMA LoggerIsQueueStep ==
    QueueInv /\ [LoggerNext]_allVars => [Next]_vars
<1>. SUFFICES ASSUME QueueInv, [LoggerNext]_allVars PROVE [Next]_vars
  OBVIOUS
<1>1. CASE LoggerNext /\ Caller
  <2>1. UNCHANGED vars \/ WriterStep \/ \E size \in Sizes : Send(size)
    BY <1>1
    DEF Caller, LogUnformatted, LogTooBig, LogDeferred, LogFatal, SendStep,
        SendReturns
  <2> QED BY <2>1, WaitNeverTraps DEF Next
<1>2. CASE LoggerNext /\ LoggerThread
  <2>1. UNCHANGED vars \/ ReaderStep
    BY <1>2 DEF LoggerThread, WaitStep, HandleEvent
  <2> QED BY <2>1, WaitNeverTraps DEF Next
<1>3. CASE UNCHANGED allVars
  BY <1>3 DEF allVars
<1> QED BY <1>1, <1>2, <1>3 DEF LoggerNext

(* What the invariant of the queue says about what is used here.           *)
LEMMA QueueFacts ==
    ASSUME QueueInv
    PROVE  /\ attempts \in Nat
           /\ Len(sent) \in Nat /\ sent \in Seq(Message)
           /\ Len(taken) \in Nat /\ Len(taken) <= Len(sent)
           /\ \A i \in 1 .. Len(sent) : sent[i].id \in Nat
           /\ \A i \in 1 .. Len(taken) : taken[i] = sent[i]
<1>1. sent \in Seq(Message) /\ taken \in Seq(Datum) /\ attempts \in Nat
  BY QueueAssumption DEF QueueInv, TypeOK
<1>2. Len(taken) <= Len(sent)
  BY DEF QueueInv, Layout
<1>3. \A i \in 1 .. Len(sent) : sent[i] \in Message
  BY <1>1
<1>4. \A i \in 1 .. Len(sent) : sent[i].id \in Nat
  BY <1>3, QueueAssumption DEF Message
<1>5. \A i \in 1 .. Len(taken) : taken[i] = sent[i]
  BY DEF QueueInv, TakenInOrder
<1> QED BY <1>1, <1>2, <1>4, <1>5

LEMMA WriterEffect ==
    ASSUME WriterStep
    PROVE  /\ UNCHANGED <<attempts, wmsg, taken>>
           /\ wpc # "idle"
           /\ \/ /\ sent' = sent
                 /\ wpc' \notin {"idle", "signal"}
                       => wpc \notin {"idle", "signal"}
              \/ /\ sent' = Append(sent, wmsg)
                 /\ wpc = "produce" /\ wpc' = "signal"
  BY DEF WriterStep, WriterEnsure, WriterInstall, CheckRoom, WriteHeader,
         WritePayload, ProduceMessage, SignalMessage, WriterGoto, history

LEMMA ReaderEffect ==
    ASSUME QueueInv, ReaderStep
    PROVE  /\ UNCHANGED <<writerVars, sent>>
           /\ Len(taken') \in Nat /\ Len(taken) <= Len(taken')
<1>1. taken \in Seq(Datum) /\ rmsg \in Datum
  BY DEF QueueInv, TypeOK
<1>2. CASE ConsumeMessage
  BY <1>1, <1>2 DEF ConsumeMessage
<1>3. CASE ~ConsumeMessage
  BY <1>1, <1>3
  DEF ReaderStep, BeginRead, ReaderEnsure, ReaderInstall, LookForMessage,
      SemaphoreWait, CheckSize, ReadHeader, CloneData, TakeToken,
      GiveTokenBack, history
<1> QED BY <1>2, <1>3 DEF ConsumeMessage

-----------------------------------------------------------------------------
(* The steps                                                               *)

LEMMA LogInit == LoggerInit => LogInv
  BY DEF LoggerInit, Init, LogInv, LoggerTypeOK, CarriedOK, SentOK, DirectOK,
         QueuedOK, DroppedOK, AccountedOK, OutputOK, PrintedOnce,
         OvertakesOnlyDirectly

(* A step of the queue in which nothing becomes visible.                   *)
LEMMA NothingSentKeeps ==
    ASSUME QueueInv, LogInv,
           UNCHANGED <<loggerVars, sent, attempts>>,
           Len(taken') \in Nat, Len(taken) <= Len(taken'),
           SentOK'
    PROVE  LogInv'
<1>. USE DEF LogInv, loggerVars
<1>1. LoggerTypeOK' 
  BY QueueFacts DEF LoggerTypeOK
<1>2. CarriedOK' /\ DroppedOK'
  BY DEF CarriedOK, DroppedOK
<1>3. DirectOK' /\ QueuedOK' /\ AccountedOK'
  BY DEF DirectOK, QueuedOK, AccountedOK, EventOf, Printed, Pending
<1>4. OutputOK'
  BY DEF OutputOK, PrintedOnce, OvertakesOnlyDirectly
<1> QED BY <1>1, <1>2, <1>3, <1>4

(* The message becomes visible to the logger thread.                       *)
LEMMA ProducedKeeps ==
    ASSUME QueueInv, LogInv,
           UNCHANGED <<loggerVars, attempts, wmsg, taken>>,
           sent' = Append(sent, wmsg),
           wpc = "produce", wpc' = "signal"
    PROVE  LogInv'
<1>. USE DEF LogInv, loggerVars
<1>1. /\ wmsg.id = attempts /\ caller = "sending"
      /\ attempts \in Nat /\ attempts > 0 /\ carried[attempts] = logged
  BY QueueFacts DEF SentOK, CarriedOK
<1>2. /\ Len(sent') = Len(sent) + 1 /\ Len(sent) \in Nat
      /\ \A i \in 1 .. Len(sent) : sent'[i] = sent[i]
      /\ sent'[Len(sent) + 1] = wmsg
  BY QueueFacts DEF QueueInv, TypeOK, WriterKnows
<1>3. /\ \A i \in 1 .. Len(sent) :
            carried'[sent'[i].id] = carried[sent[i].id]
      /\ carried'[sent'[Len(sent) + 1].id] = logged
      /\ \A i \in 1 .. Len(sent') : i \in 1 .. Len(sent) \/ i = Len(sent) + 1
  BY <1>1, <1>2
<1>. USE DEF EventOf
<1>4. LoggerTypeOK' /\ CarriedOK' /\ DroppedOK'
  BY DEF LoggerTypeOK, CarriedOK, DroppedOK
<1>5. SentOK'
  BY <1>1, <1>2, QueueFacts DEF SentOK
<1>6. DirectOK'
  BY <1>1, <1>2, <1>3 DEF DirectOK
<1>a. handled \in Nat /\ handled <= Len(sent) /\ handled' = handled
  BY QueueFacts DEF LoggerTypeOK
<1>b. \A i \in 1 .. handled : EventOf(i)' = EventOf(i)
  BY <1>2, <1>3, <1>a
<1>7. QueuedOK'
  <2>1. ASSUME NEW p \in 1 .. Len(printed), printed[p].how = "queued"
        PROVE  \E i \in 1 .. handled : printed[p].event = EventOf(i)'
    <3>1. PICK i \in 1 .. handled : printed[p].event = EventOf(i)
      BY <2>1 DEF QueuedOK
    <3>2. printed[p].event = EventOf(i)'
      BY <3>1, <1>b
    <3> QED BY <3>2
  <2>2. ASSUME NEW i \in 1 .. handled
        PROVE  \E p \in 1 .. Len(printed) : printed[p].event = EventOf(i)'
    BY <1>b, <2>2 DEF QueuedOK
  <2> QED BY <1>a, <2>1, <2>2 DEF QueuedOK
<1>8. AccountedOK'
  <2>1. SUFFICES ASSUME NEW e \in 1 .. logged, e \notin dropped, ~Printed(e)
                 PROVE  Pending(e)'
    BY DEF AccountedOK, Printed
  <2>2. CASE Pending(e)
    <3>1. PICK i \in handled + 1 .. Len(sent) : EventOf(i) = e
      BY <2>2 DEF Pending
    <3>2. i \in handled' + 1 .. Len(sent') /\ EventOf(i)' = e
      BY <3>1, <1>2, <1>3, <1>a
    <3> QED BY <3>2 DEF Pending
  <2>3. CASE e = logged
    <3>1. /\ Len(sent) + 1 \in handled' + 1 .. Len(sent')
          /\ carried'[sent'[Len(sent) + 1].id] = logged
      BY <1>2, <1>3, <1>a
    <3> QED BY <2>3, <3>1 DEF Pending
  <2> QED BY <2>1, <2>2, <2>3 DEF AccountedOK
<1>9. OutputOK'
  BY DEF OutputOK, PrintedOnce, OvertakesOnlyDirectly
<1> QED BY <1>4, <1>5, <1>6, <1>7, <1>8, <1>9

LEMMA QueueStepKeeps ==
    ASSUME QueueInv, LogInv, UNCHANGED loggerVars,
           WriterStep \/ ReaderStep
    PROVE  LogInv'
<1>1. CASE WriterStep /\ sent' = sent
  <2>1. SentOK'
    BY <1>1, WriterEffect DEF LogInv, SentOK, loggerVars
  <2> QED BY <1>1, <2>1, WriterEffect, QueueFacts, NothingSentKeeps
<1>2. CASE WriterStep /\ sent' # sent
  BY <1>2, WriterEffect, ProducedKeeps
<1>3. CASE ReaderStep
  <2>1. SentOK'
    BY <1>3, ReaderEffect DEF LogInv, SentOK, loggerVars, writerVars
  <2> QED BY <1>3, <2>1, ReaderEffect, NothingSentKeeps DEF writerVars
<1> QED BY <1>1, <1>2, <1>3

LEMMA ElementIn ==
    ASSUME NEW S, NEW seq \in Seq(S), NEW p \in 1 .. Len(seq)
    PROVE  seq[p] \in S
  OBVIOUS

(* Nothing that was printed or dropped is newer than the newest event.     *)
LEMMA EventsBounded ==
    ASSUME QueueInv, LogInv
    PROVE  /\ \A i \in 1 .. Len(sent) : EventOf(i) \in 1 .. logged
           /\ \A p \in 1 .. Len(printed) : printed[p].event \in 1 .. logged
           /\ \A e \in dropped : e \in 1 .. logged
<1>1. \A i \in 1 .. Len(sent) : EventOf(i) \in 1 .. logged
  BY DEF LogInv, SentOK, CarriedOK, EventOf
<1>2. ASSUME NEW p \in 1 .. Len(printed)
      PROVE  printed[p].event \in 1 .. logged
  <2>1. printed[p].how \in Hows
    <3>1. printed \in Seq([event : Nat, how : Hows])
      BY DEF LogInv, LoggerTypeOK
    <3>2. printed[p] \in [event : Nat, how : Hows]
      BY <3>1, ElementIn
    <3> QED BY <3>2
  <2>2. CASE printed[p].how = "direct"
    BY <2>2 DEF LogInv, DirectOK
  <2>3. CASE printed[p].how = "queued"
    <3>1. PICK i \in 1 .. handled : printed[p].event = EventOf(i)
      BY <2>3 DEF LogInv, QueuedOK
    <3>2. i \in 1 .. Len(sent)
      BY <3>1, QueueFacts DEF LogInv, LoggerTypeOK
    <3> QED BY <1>1, <3>1, <3>2
  <2> QED BY <2>1, <2>2, <2>3 DEF Hows
<1> QED BY <1>1, <1>2 DEF LogInv, DroppedOK

LEMMA EmitFacts ==
    ASSUME LogInv, NEW event \in Nat, NEW how \in Hows, Emit(event, how)
    PROVE  /\ printed' \in Seq([event : Nat, how : Hows])
           /\ Len(printed') = Len(printed) + 1 /\ Len(printed) \in Nat
           /\ \A p \in 1 .. Len(printed) : printed'[p] = printed[p]
           /\ printed'[Len(printed) + 1].event = event
           /\ printed'[Len(printed) + 1].how = how
<1>1. printed \in Seq([event : Nat, how : Hows])
  BY DEF LogInv, LoggerTypeOK
<1>2. [event |-> event, how |-> how] \in [event : Nat, how : Hows]
  OBVIOUS
<1>3. /\ printed' \in Seq([event : Nat, how : Hows])
      /\ Len(printed') = Len(printed) + 1 /\ Len(printed) \in Nat
      /\ \A p \in 1 .. Len(printed) : printed'[p] = printed[p]
      /\ printed'[Len(printed) + 1] = [event |-> event, how |-> how]
  BY <1>1, <1>2 DEF Emit
<1> QED BY <1>3

(* Steps that leave the queue alone leave alone what was sent.             *)
LEMMA QueueStays ==
    ASSUME LogInv, UNCHANGED <<vars, carried>>
    PROVE  /\ SentOK' <=> (wpc # "idle" => caller' = "sending")
           /\ \A i : EventOf(i)' = EventOf(i)
  BY DEF vars, LogInv, SentOK, EventOf

(* An event newer than all that is printed is printed directly.            *)
LEMMA DirectKeeps ==
    ASSUME QueueInv, LogInv,
           UNCHANGED <<vars, carried, handled, dropped>>,
           Emit(logged', "direct"),
           caller' \in {"quiet", "aborted"}, wpc = "idle",
           logged' = (IF caller = "sending" THEN logged ELSE logged + 1),
           logged' \notin dropped,
           \A p \in 1 .. Len(printed) : printed[p].event < logged',
           \A i \in 1 .. Len(sent) : EventOf(i) # logged'
    PROVE  LogInv'
<1>1. logged \in Nat /\ logged' \in Nat /\ logged <= logged'
  BY DEF LogInv, LoggerTypeOK
<1>2. /\ printed' \in Seq([event : Nat, how : Hows])
      /\ Len(printed') = Len(printed) + 1 /\ Len(printed) \in Nat
      /\ \A p \in 1 .. Len(printed) : printed'[p] = printed[p]
      /\ printed'[Len(printed) + 1].event = logged'
      /\ printed'[Len(printed) + 1].how = "direct"
  BY <1>1, EmitFacts DEF Hows
<1>3. \A p \in 1 .. Len(printed') :
          p \in 1 .. Len(printed) \/ p = Len(printed) + 1
  BY <1>2
<1>4. UNCHANGED <<sent, taken, attempts>>
  BY DEF vars
<1>5. LoggerTypeOK' /\ CarriedOK' /\ SentOK' /\ DroppedOK'
  BY <1>1, <1>2, <1>4, QueueStays
  DEF LogInv, LoggerTypeOK, CarriedOK, DroppedOK
<1>6. DirectOK'
  <2>1. SUFFICES ASSUME NEW p \in 1 .. Len(printed'),
                        printed'[p].how = "direct"
                 PROVE  /\ printed'[p].event \in 1 .. logged'
                        /\ \A i \in 1 .. Len(sent) :
                              printed'[p].event # EventOf(i)
    BY <1>4, QueueStays DEF DirectOK
  <2>2. CASE p \in 1 .. Len(printed)
    <3>1. printed'[p] = printed[p] /\ printed[p].how = "direct"
      BY <1>2, <2>1, <2>2
    <3>2. printed[p].event \in 1 .. logged
      BY <3>1, <2>2 DEF LogInv, DirectOK
    <3>3. \A i \in 1 .. Len(sent) : printed[p].event # EventOf(i)
      BY <3>1, <2>2 DEF LogInv, DirectOK
    <3> QED BY <1>1, <3>1, <3>2, <3>3
  <2>3. CASE p = Len(printed) + 1
    <3>1. logged' > 0
      BY <1>1 DEF LogInv, CarriedOK
    <3> QED BY <1>1, <1>2, <2>3, <3>1
  <2> QED BY <1>3, <2>2, <2>3
<1>7. QueuedOK'
  <2>1. ASSUME NEW p \in 1 .. Len(printed'), printed'[p].how = "queued"
        PROVE  \E i \in 1 .. handled : printed'[p].event = EventOf(i)
    BY <1>2, <1>3, <2>1 DEF LogInv, QueuedOK
  <2>2. ASSUME NEW i \in 1 .. handled
        PROVE  \E p \in 1 .. Len(printed') : printed'[p].event = EventOf(i)
    BY <1>2, <2>2 DEF LogInv, QueuedOK
  <2> QED BY <2>1, <2>2, QueueStays DEF QueuedOK
<1>8. AccountedOK'
  <2>1. SUFFICES ASSUME NEW e \in 1 .. logged'
                 PROVE  e \in dropped \/ Printed(e)' \/ Pending(e)'
    BY DEF AccountedOK
  <2>2. CASE e = logged'
    BY <1>2, <2>2 DEF Printed
  <2>3. CASE e # logged'
    <3>1. e \in 1 .. logged /\ ~(caller = "sending" /\ e = logged)
      BY <1>1, <2>3
    <3>2. CASE Printed(e)
      BY <1>2, <3>2 DEF Printed
    <3>3. CASE Pending(e)
      BY <1>4, <3>3, QueueStays DEF Pending
    <3> QED BY <3>1, <3>2, <3>3 DEF LogInv, AccountedOK
  <2> QED BY <2>2, <2>3
<1>9. OutputOK'
  <2>1. \A p \in DOMAIN printed' : p \in 1 .. Len(printed')
    BY <1>2
  <2>2. DOMAIN printed = 1 .. Len(printed)
    BY DEF LogInv, LoggerTypeOK
  <2>3. \A p \in 1 .. Len(printed) :
            printed[p].event \in Nat /\ printed[p].event < logged'
    BY EventsBounded
  <2>4. PrintedOnce'
    <3>1. SUFFICES ASSUME NEW i \in 1 .. Len(printed'),
                          NEW j \in 1 .. Len(printed')
                   PROVE  /\ i # j => printed'[i].event # printed'[j].event
                          /\ printed'[i].event \notin dropped
      BY <2>1 DEF PrintedOnce
    <3>2. \A p, q \in 1 .. Len(printed) :
              /\ p # q => printed[p].event # printed[q].event
              /\ printed[p].event \notin dropped
      BY <2>2 DEF LogInv, OutputOK, PrintedOnce
    <3>3. printed'[i].event \notin dropped
      BY <1>2, <1>3, <3>2
    <3>4. ASSUME i # j PROVE printed'[i].event # printed'[j].event
      <4>1. CASE i = Len(printed) + 1
        <5>1. j \in 1 .. Len(printed)
          BY <1>3, <3>4, <4>1
        <5> QED BY <1>1, <1>2, <2>3, <4>1, <5>1
      <4>2. CASE j = Len(printed) + 1
        <5>1. i \in 1 .. Len(printed)
          BY <1>3, <3>4, <4>2
        <5> QED BY <1>1, <1>2, <2>3, <4>2, <5>1
      <4>3. CASE i \in 1 .. Len(printed) /\ j \in 1 .. Len(printed)
        BY <1>2, <3>2, <3>4, <4>3
      <4> QED BY <1>3, <4>1, <4>2, <4>3
    <3> QED BY <3>3, <3>4
  <2>5. OvertakesOnlyDirectly'
    <3>1. SUFFICES ASSUME NEW i \in 1 .. Len(printed'),
                          NEW j \in 1 .. Len(printed'),
                          i < j, printed'[i].event > printed'[j].event
                   PROVE  /\ printed'[i].how = "direct"
                          /\ printed'[j].how = "queued"
      BY <2>1 DEF OvertakesOnlyDirectly
    <3>2. i \in 1 .. Len(printed)
      BY <1>2, <3>1
    <3>3. j \in 1 .. Len(printed)
      BY <1>1, <1>2, <1>3, <2>3, <3>1, <3>2
    <3> QED BY <1>2, <2>2, <3>1, <3>2, <3>3
            DEF LogInv, OutputOK, OvertakesOnlyDirectly
  <2> QED BY <2>4, <2>5 DEF OutputOK
<1> QED BY <1>5, <1>6, <1>7, <1>8, <1>9 DEF LogInv

(* A new event that cannot be formatted is dropped.                        *)
LEMMA DropKeeps ==
    ASSUME QueueInv, LogInv,
           UNCHANGED <<vars, carried, handled, printed>>,
           NewEvent, dropped' = dropped \union {logged'},
           caller' \in {"quiet", "aborted"}, wpc = "idle"
    PROVE  LogInv'
<1>1. /\ logged \in Nat /\ logged' = logged + 1 /\ caller = "quiet"
      /\ UNCHANGED <<sent, taken, attempts>>
  BY DEF LogInv, LoggerTypeOK, NewEvent, vars
<1>2. LoggerTypeOK' /\ SentOK'
  BY <1>1, QueueStays DEF LogInv, LoggerTypeOK
<1>3. CarriedOK' /\ DroppedOK'
  BY <1>1 DEF LogInv, CarriedOK, DroppedOK
<1>4. DirectOK' /\ QueuedOK'
  BY <1>1, QueueStays DEF LogInv, DirectOK, QueuedOK
<1>5. AccountedOK'
  <2>1. SUFFICES ASSUME NEW e \in 1 .. logged'
                 PROVE  e \in dropped' \/ Printed(e) \/ Pending(e)'
    BY DEF AccountedOK, Printed
  <2>2. CASE e \in 1 .. logged
    BY <1>1, <2>2, QueueStays DEF LogInv, AccountedOK, Pending
  <2> QED BY <1>1, <2>2
<1>6. OutputOK'
  <2>1. \A p \in DOMAIN printed : printed[p].event # logged'
    BY <1>1, EventsBounded DEF LogInv, LoggerTypeOK
  <2> QED BY <2>1 DEF LogInv, OutputOK, PrintedOnce, OvertakesOnlyDirectly
<1> QED BY <1>2, <1>3, <1>4, <1>5, <1>6 DEF LogInv

(* A new event is handed to th_message_send.                               *)
LEMMA DeferKeeps ==
    ASSUME QueueInv, LogInv,
           NEW size \in Sizes, Send(size), NewEvent,
           carried' = Append(carried, logged'), caller' = "sending",
           UNCHANGED <<handled, printed, dropped>>
    PROVE  LogInv'
<1>1. /\ logged \in Nat /\ logged' = logged + 1 /\ caller = "quiet"
      /\ UNCHANGED <<sent, taken>> /\ attempts' = attempts + 1
      /\ wmsg'.id = attempts' /\ attempts \in Nat
  BY QueueFacts DEF LogInv, LoggerTypeOK, NewEvent, Send, history
<1>2. /\ carried' \in Seq(Nat) /\ Len(carried') = attempts + 1
      /\ \A i \in 1 .. attempts : carried'[i] = carried[i]
      /\ carried'[attempts + 1] = logged + 1
      /\ \A i \in 1 .. attempts' : i \in 1 .. attempts \/ i = attempts + 1
  BY <1>1 DEF LogInv, CarriedOK
<1>3. \A i \in 1 .. Len(sent) : carried'[sent[i].id] = EventOf(i)
  BY <1>2 DEF LogInv, SentOK, EventOf
<1>4. LoggerTypeOK'
  BY <1>1 DEF LogInv, LoggerTypeOK
<1>5. CarriedOK'
  BY <1>1, <1>2 DEF LogInv, CarriedOK
<1>6. SentOK'
  <2>1. \A i \in 1 .. Len(sent) :
            sent[i].id \in 1 .. attempts' /\ sent[i].id < attempts'
    BY <1>1 DEF LogInv, SentOK
  <2>2. \A i, j \in 1 .. Len(sent) : i < j => sent[i].id < sent[j].id
    BY DEF LogInv, SentOK
  <2> QED BY <1>1, <2>1, <2>2 DEF SentOK
<1>7. DirectOK'
  <2>1. SUFFICES ASSUME NEW p \in 1 .. Len(printed),
                        printed[p].how = "direct"
                 PROVE  /\ printed[p].event \in 1 .. logged'
                        /\ \A i \in 1 .. Len(sent) :
                              printed[p].event # carried'[sent[i].id]
                        /\ printed[p].event # logged'
    BY <1>1 DEF DirectOK, EventOf
  <2>2. /\ printed[p].event \in 1 .. logged
        /\ \A i \in 1 .. Len(sent) : printed[p].event # EventOf(i)
    BY <2>1 DEF LogInv, DirectOK
  <2>3. printed[p].event \in 1 .. logged' /\ printed[p].event # logged'
    BY <1>1, <2>2
  <2>4. \A i \in 1 .. Len(sent) : printed[p].event # carried'[sent[i].id]
    BY <1>3, <2>2
  <2> QED BY <2>3, <2>4
<1>8. QueuedOK'
  <2>1. handled <= Len(sent) /\ handled \in Nat
    BY QueueFacts DEF LogInv, LoggerTypeOK
  <2>2. \A i \in 1 .. handled : carried'[sent[i].id] = EventOf(i)
    <3>1. Len(sent) \in Nat
      BY QueueFacts
    <3>2. \A i \in 1 .. handled : i \in 1 .. Len(sent)
      BY <2>1, <3>1
    <3> QED BY <1>3, <3>2
  <2>3. ASSUME NEW p \in 1 .. Len(printed), printed[p].how = "queued"
        PROVE  \E i \in 1 .. handled : printed[p].event = carried'[sent[i].id]
    <3>1. PICK i \in 1 .. handled : printed[p].event = EventOf(i)
      BY <2>3 DEF LogInv, QueuedOK
    <3> QED BY <2>2, <3>1
  <2>4. ASSUME NEW i \in 1 .. handled
        PROVE  \E p \in 1 .. Len(printed) :
                  printed[p].event = carried'[sent[i].id]
    <3>1. PICK p \in 1 .. Len(printed) : printed[p].event = EventOf(i)
      BY DEF LogInv, QueuedOK
    <3> QED BY <2>2, <3>1
  <2> QED BY <1>1, <2>3, <2>4 DEF QueuedOK, EventOf
<1>9. DroppedOK'
  BY <1>1, <1>2 DEF LogInv, DroppedOK
<1>10. AccountedOK'
  <2>1. ASSUME NEW e \in 1 .. logged
        PROVE  e \in dropped \/ Printed(e) \/ Pending(e)'
    <3>1. CASE Pending(e)
      <4>1. PICK i \in handled + 1 .. Len(sent) : EventOf(i) = e
        BY <3>1 DEF Pending
      <4>2. i \in 1 .. Len(sent)
        BY <4>1 DEF LogInv, LoggerTypeOK
      <4>3. carried'[sent'[i].id] = e
        BY <1>1, <1>3, <4>1, <4>2
      <4> QED BY <1>1, <4>1, <4>3 DEF Pending, EventOf
    <3> QED BY <1>1, <3>1 DEF LogInv, AccountedOK
  <2> QED BY <1>1, <2>1 DEF AccountedOK, Printed
<1>11. OutputOK'
  BY DEF LogInv, OutputOK, PrintedOnce, OvertakesOnlyDirectly
<1> QED BY <1>4, <1>5, <1>6, <1>7, <1>8, <1>9, <1>10, <1>11 DEF LogInv

(* th_message_send returns.                                                *)
LEMMA ReturnKeeps ==
    ASSUME QueueInv, LogInv, SendReturns
    PROVE  LogInv'
<1>1. /\ caller = "sending" /\ caller' = "quiet" /\ wpc = "idle"
      /\ attempts > 0 /\ attempts \in Nat /\ carried[attempts] = logged
      /\ logged \in Nat
      /\ UNCHANGED <<vars, logged, carried, handled, dropped>>
      /\ UNCHANGED <<sent, taken, attempts>>
  BY QueueFacts DEF SendReturns, LogInv, CarriedOK, LoggerTypeOK, vars
<1>2. CASE Accepted(attempts)
  <2>1. printed' = printed
    BY <1>2 DEF SendReturns
  <2>2. PICK i \in 1 .. Len(sent) : sent[i].id = attempts
    BY <1>2, QueueFacts DEF Accepted
  <2>3. EventOf(i) = logged
    BY <1>1, <2>2 DEF EventOf
  <2>4. Printed(logged) \/ Pending(logged)
    <3>1. CASE i \in 1 .. handled
      BY <2>3, <3>1 DEF LogInv, QueuedOK, Printed
    <3>2. CASE i \notin 1 .. handled
      BY <2>2, <2>3, <3>2 DEF LogInv, LoggerTypeOK, Pending
    <3> QED BY <3>1, <3>2
  <2>5. AccountedOK'
    <3>1. ASSUME NEW e \in 1 .. logged
          PROVE  e \in dropped \/ Printed(e) \/ Pending(e)
      BY <2>4 DEF LogInv, AccountedOK
    <3>2. \A e : (Printed(e)' <=> Printed(e)) /\ (Pending(e)' <=> Pending(e))
      BY <1>1, <2>1, QueueStays DEF Printed, Pending
    <3> QED BY <1>1, <3>1, <3>2 DEF AccountedOK
  <2>6. LoggerTypeOK' /\ CarriedOK' /\ SentOK' /\ DroppedOK'
    BY <1>1, <2>1, QueueStays DEF LogInv, LoggerTypeOK, CarriedOK, DroppedOK
  <2>7. DirectOK' /\ QueuedOK'
    BY <1>1, <2>1, QueueStays DEF LogInv, DirectOK, QueuedOK
  <2>8. OutputOK'
    BY <1>1, <2>1
    DEF LogInv, OutputOK, PrintedOnce, OvertakesOnlyDirectly
  <2> QED BY <2>5, <2>6, <2>7, <2>8 DEF LogInv
<1>3. CASE ~Accepted(attempts)
  <2>1. Emit(logged', "direct")
    BY <1>1, <1>3 DEF SendReturns, Emit
  <2>2. \A i \in 1 .. Len(sent) : EventOf(i) # logged
    <3>1. ASSUME NEW i \in 1 .. Len(sent) PROVE EventOf(i) # logged
      <4>1. sent[i].id \in 1 .. attempts /\ sent[i].id # attempts
        BY <1>3, QueueFacts DEF LogInv, SentOK, Accepted
      <4> QED BY <1>1, <4>1 DEF LogInv, CarriedOK, EventOf
    <3> QED BY <3>1
  <2>3. ASSUME NEW p \in 1 .. Len(printed)
        PROVE  printed[p].event < logged
    <3>1. printed[p].event \in 1 .. logged
      BY EventsBounded
    <3>2. printed[p].event # logged
      <4>1. printed[p].how \in Hows
        <5>1. printed \in Seq([event : Nat, how : Hows])
          BY DEF LogInv, LoggerTypeOK
        <5>2. printed[p] \in [event : Nat, how : Hows]
          BY <5>1, ElementIn
        <5> QED BY <5>2
      <4>2. CASE printed[p].how = "direct"
        BY <1>1, <4>2 DEF LogInv, DirectOK
      <4>3. CASE printed[p].how = "queued"
        <5>1. PICK i \in 1 .. handled : printed[p].event = EventOf(i)
          BY <4>3 DEF LogInv, QueuedOK
        <5>2. i \in 1 .. Len(sent)
          BY <5>1, QueueFacts DEF LogInv, LoggerTypeOK
        <5> QED BY <2>2, <5>1, <5>2
      <4> QED BY <4>1, <4>2, <4>3 DEF Hows
    <3> QED BY <1>1, <3>1, <3>2
  <2>4. logged \notin dropped
    BY <1>1 DEF LogInv, DroppedOK
  <2> QED BY <1>1, <2>1, <2>2, <2>3, <2>4, DirectKeeps
<1> QED BY <1>2, <1>3

(* The logger thread prints the next message it was given.                 *)
LEMMA HandleKeeps ==
    ASSUME QueueInv, LogInv, HandleEvent
    PROVE  LogInv'
<1>. DEFINE n == handled + 1
<1>1. /\ UNCHANGED <<vars, caller, logged, carried, dropped>>
      /\ UNCHANGED <<sent, taken, attempts, wpc>>
      /\ handled' = n /\ handled \in Nat /\ logged \in Nat
      /\ n <= Len(taken) /\ n \in 1 .. Len(sent)
  BY QueueFacts DEF HandleEvent, LogInv, LoggerTypeOK, vars
<1>2. taken[n] = sent[n]
  BY <1>1, QueueFacts
<1>3. Emit(EventOf(n), "queued") /\ EventOf(n) \in 1 .. logged
  BY <1>1, <1>2, EventsBounded DEF HandleEvent, EventOf
<1>4. /\ printed' \in Seq([event : Nat, how : Hows])
      /\ Len(printed') = Len(printed) + 1 /\ Len(printed) \in Nat
      /\ \A p \in 1 .. Len(printed) : printed'[p] = printed[p]
      /\ printed'[Len(printed) + 1].event = EventOf(n)
      /\ printed'[Len(printed) + 1].how = "queued"
  BY <1>1, <1>3, EmitFacts DEF Hows
<1>5. \A p \in 1 .. Len(printed') :
          p \in 1 .. Len(printed) \/ p = Len(printed) + 1
  BY <1>4
<1>6. LoggerTypeOK' /\ CarriedOK' /\ SentOK' /\ DroppedOK'
  BY <1>1, <1>4, QueueStays
  DEF LogInv, LoggerTypeOK, CarriedOK, SentOK, DroppedOK
<1>7. DirectOK'
  <2>1. SUFFICES ASSUME NEW p \in 1 .. Len(printed),
                        printed'[p].how = "direct"
                 PROVE  /\ printed'[p].event \in 1 .. logged
                        /\ \A i \in 1 .. Len(sent) :
                              printed'[p].event # EventOf(i)
                        /\ caller = "sending" => printed'[p].event # logged
    BY <1>1, <1>4, <1>5, QueueStays DEF DirectOK
  <2> QED BY <1>4, <2>1 DEF LogInv, DirectOK
<1>8. QueuedOK'
  <2>1. ASSUME NEW p \in 1 .. Len(printed'), printed'[p].how = "queued"
        PROVE  \E i \in 1 .. n : printed'[p].event = EventOf(i)
    <3>1. CASE p \in 1 .. Len(printed)
      <4>1. PICK i \in 1 .. handled : printed[p].event = EventOf(i)
        BY <1>4, <2>1, <3>1 DEF LogInv, QueuedOK
      <4>2. i \in 1 .. n
        BY <1>1
      <4> QED BY <1>4, <3>1, <4>1, <4>2
    <3>2. CASE p = Len(printed) + 1
      <4>1. n \in 1 .. n
        BY <1>1
      <4> QED BY <1>4, <3>2, <4>1
    <3> QED BY <1>5, <3>1, <3>2
  <2>2. ASSUME NEW i \in 1 .. n
        PROVE  \E p \in 1 .. Len(printed') : printed'[p].event = EventOf(i)
    <3>1. CASE i \in 1 .. handled
      <4>1. PICK p \in 1 .. Len(printed) : printed[p].event = EventOf(i)
        BY <3>1 DEF LogInv, QueuedOK
      <4>2. p \in 1 .. Len(printed') /\ printed'[p] = printed[p]
        BY <1>4
      <4> QED BY <4>1, <4>2
    <3>2. CASE i = n
      <4>1. Len(printed) + 1 \in 1 .. Len(printed')
        BY <1>4
      <4> QED BY <1>4, <3>2, <4>1
    <3> QED BY <1>1, <3>1, <3>2
  <2> QED BY <1>1, <2>1, <2>2, QueueStays DEF QueuedOK
<1>9. AccountedOK'
  <2>1. SUFFICES ASSUME NEW e \in 1 .. logged,
                        e \notin dropped,
                        ~(caller = "sending" /\ e = logged)
                 PROVE  Printed(e)' \/ Pending(e)'
    BY <1>1 DEF AccountedOK
  <2>2. CASE Printed(e)
    BY <1>4, <2>2 DEF Printed
  <2>3. CASE Pending(e)
    <3>1. PICK i \in handled + 1 .. Len(sent) : EventOf(i) = e
      BY <2>3 DEF Pending
    <3>2. CASE i = n
      BY <1>4, <3>1, <3>2 DEF Printed
    <3>3. CASE i # n
      <4>1. i \in n + 1 .. Len(sent)
        BY <1>1, <3>1, <3>3
      <4> QED BY <1>1, <3>1, <4>1, QueueStays DEF Pending
    <3> QED BY <3>2, <3>3
  <2>4. Printed(e) \/ Pending(e)
    BY <2>1 DEF LogInv, AccountedOK
  <2> QED BY <2>2, <2>3, <2>4
<1>10. \A i \in 1 .. handled : EventOf(i) < EventOf(n)
  <2>1. ASSUME NEW i \in 1 .. handled PROVE EventOf(i) < EventOf(n)
    <3>1. i \in 1 .. Len(sent) /\ i < n
      BY <1>1, QueueFacts
    <3>2. sent[i].id < sent[n].id
      BY <1>1, <3>1 DEF LogInv, SentOK
    <3>3. sent[i].id \in 1 .. attempts /\ sent[n].id \in 1 .. attempts
      BY <1>1, <3>1 DEF LogInv, SentOK
    <3> QED BY <3>2, <3>3 DEF LogInv, CarriedOK, EventOf
  <2> QED BY <2>1
<1>11. \A p \in 1 .. Len(printed) :
           /\ printed[p].event \in 1 .. logged
           /\ printed[p].event # EventOf(n)
           /\ printed[p].how = "direct" \/ printed[p].event < EventOf(n)
  <2>1. SUFFICES ASSUME NEW p \in 1 .. Len(printed)
                 PROVE  /\ printed[p].event # EventOf(n)
                        /\ printed[p].how = "direct"
                              \/ printed[p].event < EventOf(n)
    BY EventsBounded
  <2>2. printed[p].how \in Hows
    <3>1. printed \in Seq([event : Nat, how : Hows])
      BY DEF LogInv, LoggerTypeOK
    <3>2. printed[p] \in [event : Nat, how : Hows]
      BY <3>1, ElementIn
    <3> QED BY <3>2
  <2>3. CASE printed[p].how = "direct"
    BY <1>1, <2>3 DEF LogInv, DirectOK
  <2>4. CASE printed[p].how = "queued"
    <3>1. PICK i \in 1 .. handled : printed[p].event = EventOf(i)
      BY <2>4 DEF LogInv, QueuedOK
    <3>2. EventOf(i) < EventOf(n)
      BY <1>10
    <3>3. EventOf(i) \in Nat /\ EventOf(n) \in Nat
      BY <1>3, <3>1, EventsBounded
    <3> QED BY <3>1, <3>2, <3>3
  <2> QED BY <2>2, <2>3, <2>4 DEF Hows
<1>12. EventOf(n) \notin dropped
  BY <1>1 DEF LogInv, DroppedOK, SentOK, EventOf
<1>13. /\ DOMAIN printed = 1 .. Len(printed)
       /\ DOMAIN printed' = 1 .. Len(printed')
  BY <1>4 DEF LogInv, LoggerTypeOK
<1>14. PrintedOnce'
  <2>1. SUFFICES ASSUME NEW i \in 1 .. Len(printed'),
                        NEW j \in 1 .. Len(printed')
                 PROVE  /\ i # j => printed'[i].event # printed'[j].event
                        /\ printed'[i].event \notin dropped
    BY <1>1, <1>13 DEF PrintedOnce
  <2>2. \A p, q \in 1 .. Len(printed) :
            /\ p # q => printed[p].event # printed[q].event
            /\ printed[p].event \notin dropped
    BY <1>13 DEF LogInv, OutputOK, PrintedOnce
  <2>3. printed'[i].event \notin dropped
    BY <1>4, <1>5, <1>12, <2>2
  <2>4. ASSUME i # j PROVE printed'[i].event # printed'[j].event
    <3>1. CASE i = Len(printed) + 1
      <4>1. j \in 1 .. Len(printed)
        BY <1>5, <2>4, <3>1
      <4> QED BY <1>4, <1>11, <3>1, <4>1
    <3>2. CASE j = Len(printed) + 1
      <4>1. i \in 1 .. Len(printed)
        BY <1>5, <2>4, <3>2
      <4> QED BY <1>4, <1>11, <3>2, <4>1
    <3>3. CASE i \in 1 .. Len(printed) /\ j \in 1 .. Len(printed)
      BY <1>4, <2>2, <2>4, <3>3
    <3> QED BY <1>5, <3>1, <3>2, <3>3
  <2> QED BY <2>3, <2>4
<1>15. OvertakesOnlyDirectly'
  <2>1. SUFFICES ASSUME NEW i \in 1 .. Len(printed'),
                        NEW j \in 1 .. Len(printed'),
                        i < j, printed'[i].event > printed'[j].event
                 PROVE  /\ printed'[i].how = "direct"
                        /\ printed'[j].how = "queued"
    BY <1>13 DEF OvertakesOnlyDirectly
  <2>2. i \in 1 .. Len(printed)
    BY <1>4, <2>1
  <2>3. CASE j \in 1 .. Len(printed)
    BY <1>4, <1>13, <2>1, <2>2, <2>3
    DEF LogInv, OutputOK, OvertakesOnlyDirectly
  <2>4. CASE j = Len(printed) + 1
    <3>1. printed[i].event > EventOf(n)
      BY <1>4, <2>1, <2>2, <2>4
    <3>2. ~(printed[i].event < EventOf(n))
      BY <1>3, <1>11, <2>2, <3>1
    <3>3. printed[i].how = "direct"
      BY <1>11, <2>2, <3>2
    <3> QED BY <1>4, <2>2, <2>4, <3>3
  <2> QED BY <1>5, <2>3, <2>4
<1> QED BY <1>6, <1>7, <1>8, <1>9, <1>14, <1>15 DEF LogInv, OutputOK

-----------------------------------------------------------------------------
(* The theorems                                                            *)

LEMMA LogUnchanged == QueueInv /\ LogInv /\ UNCHANGED allVars => LogInv'
<1>. SUFFICES ASSUME QueueInv, LogInv, UNCHANGED allVars PROVE LogInv'
  OBVIOUS
<1>1. UNCHANGED <<vars, loggerVars, sent, taken, attempts, wpc, wmsg>>
  BY DEF allVars, vars
<1>2. SentOK'
  BY <1>1 DEF LogInv, SentOK, loggerVars
<1> QED BY <1>1, <1>2, QueueFacts, NothingSentKeeps

LEMMA LogStep == QueueInv /\ LogInv /\ [LoggerNext]_allVars => LogInv'
<1>. SUFFICES ASSUME QueueInv, LogInv, LoggerNext PROVE LogInv'
  BY LogUnchanged
<1>1. ASSUME NEW size \in Sizes, NEW held \in 0 .. ArenaCells,
             NewEvent, LogUnformatted(size, held) \/ LogTooBig(size, held)
                       \/ LogFatal(size, held)
      PROVE  LogInv'
  <2>1. /\ caller = "quiet" /\ wpc = "idle" /\ logged' = logged + 1
        /\ logged \in Nat /\ caller' \in {"quiet", "aborted"}
        /\ UNCHANGED <<vars, carried, handled>>
    BY <1>1
    DEF NewEvent, LogUnformatted, LogTooBig, LogFatal, LogInv, SentOK,
        LoggerTypeOK
  <2>2. \/ dropped' = dropped \union {logged'} /\ UNCHANGED printed
        \/ Emit(logged', "direct") /\ UNCHANGED dropped
    BY <1>1 DEF LogUnformatted, LogTooBig, LogFatal
  <2>3. CASE dropped' = dropped \union {logged'} /\ UNCHANGED printed
    BY <1>1, <2>1, <2>3, DropKeeps
  <2>4. CASE Emit(logged', "direct") /\ UNCHANGED dropped
    <3>1. /\ logged' \notin dropped
          /\ \A p \in 1 .. Len(printed) : printed[p].event < logged'
          /\ \A i \in 1 .. Len(sent) : EventOf(i) # logged'
      BY <2>1, EventsBounded
    <3> QED BY <2>1, <2>4, <3>1, DirectKeeps
  <2> QED BY <2>2, <2>3, <2>4
<1>2. ASSUME NEW size \in Sizes, NEW held \in 0 .. ArenaCells,
             LogDeferred(size, held)
      PROVE  LogInv'
  BY <1>2, DeferKeeps DEF LogDeferred
<1>3. CASE SendStep \/ WaitStep
  BY <1>3, QueueStepKeeps DEF SendStep, WaitStep
<1>4. CASE SendReturns
  BY <1>4, ReturnKeeps
<1>5. CASE HandleEvent
  BY <1>5, HandleKeeps
<1> QED
  BY <1>1, <1>2, <1>3, <1>4, <1>5
  DEF LoggerNext, Caller, LoggerThread, LogUnformatted, LogTooBig, LogFatal

(* The queue between the audio callback and the logger thread is in order: *)
(* no message is torn, lost or overwritten.                                *)
THEOREM LoggerQueueInvariant == LoggerSpec => []QueueInv
<1>1. LoggerInit => QueueInv
  BY InitQueueInv DEF LoggerInit
<1>2. QueueInv /\ [LoggerNext]_allVars => QueueInv'
  BY LoggerIsQueueStep, QueueInvInductive
<1> QED BY <1>1, <1>2, PTL DEF LoggerSpec

(* The logger thread finds a whole message whenever it was woken.          *)
THEOREM LoggerFindsMessage == LoggerSpec => []TokenMeansMessage
<1>1. QueueInv => TokenMeansMessage
  BY TokenFindsMessage
<1> QED BY <1>1, LoggerQueueInvariant, PTL

(* Where every event is: LogInv.                                           *)
THEOREM LogInvariant == LoggerSpec => []LogInv
<1>1. LoggerInit => LogInv
  BY LogInit
<1>2. QueueInv /\ LogInv /\ [LoggerNext]_allVars => LogInv'
  BY LogStep
<1> QED BY <1>1, <1>2, LoggerQueueInvariant, PTL DEF LoggerSpec

(* No event is printed twice, and none that was dropped is printed.        *)
THEOREM NeverPrintedTwice == LoggerSpec => []PrintedOnce
<1>1. LogInv => PrintedOnce
  BY DEF LogInv, OutputOK
<1> QED BY <1>1, LogInvariant, PTL

(* Only an event printed on the spot overtakes, and only queued ones.      *)
THEOREM OrderKept == LoggerSpec => []OvertakesOnlyDirectly
<1>1. LogInv => OvertakesOnlyDirectly
  BY DEF LogInv, OutputOK
<1> QED BY <1>1, LogInvariant, PTL

(* Between two calls of the logger every event was printed or dropped, or  *)
(* waits in the queue.                                                     *)
THEOREM NoEventLost == LoggerSpec => []NoneOverlooked
<1>1. QueueInv /\ LogInv => NoneOverlooked
  <2>1. SUFFICES ASSUME QueueInv, LogInv, caller = "quiet",
                        NEW e \in 1 .. logged
                 PROVE  \/ e \in dropped
                        \/ \E i \in DOMAIN printed : printed[i].event = e
                        \/ \E i \in handled + 1 .. Len(sent) :
                              carried[sent[i].id] = e
    BY DEF NoneOverlooked
  <2>2. DOMAIN printed = 1 .. Len(printed)
    BY <2>1 DEF LogInv, LoggerTypeOK
  <2> QED BY <2>1, <2>2 DEF LogInv, AccountedOK, Printed, Pending, EventOf
<1> QED BY <1>1, LogInvariant, LoggerQueueInvariant, PTL
=============================================================================
