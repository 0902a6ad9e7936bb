-------------------------------- MODULE Logger --------------------------------
(***************************************************************************)
(* THLogger (Libraries/LibThread/Logger.c): the audio callback must not do *)
(* I/O, so a message it logs is sent through a message queue to the logger *)
(* thread, which prints it.  What cannot be sent is printed on the spot.   *)
(*                                                                         *)
(* The queue is MessageQueue, step by step; its writer is the thread of    *)
(* the audio callback, its reader the logger thread.                       *)
(***************************************************************************)
EXTENDS MessageQueueInvariant

CONSTANTS
    EventHeader,  \* sizeof(LogEvent) without its text, in cells
    ArenaCells,   \* the size of the caller's temporary arena, in cells
    MaxEvents     \* bound: calls of the logger

ASSUME LoggerAssumption ==
    /\ EventHeader \in Nat
    /\ ArenaCells \in Nat
    /\ \A size \in Sizes : size >= EventHeader
    /\ MaxEvents \in 0 .. MaxSends
    /\ ReadOps = {"wait"}

VARIABLES
    caller,     \* where the logging thread is
    logged,     \* number of events logged so far; an event is its number
    carried,    \* history: the event each th_message_send was given
    handled,    \* number of messages the logger thread has printed
    printed,    \* what stderr shows: events, and how they got there
    dropped     \* events whose text did not fit into the temporary arena

loggerVars == <<caller, logged, carried, handled, printed, dropped>>
allVars    == <<vars, loggerVars>>

LoggerInit ==
    /\ Init
    /\ caller = "quiet"
    /\ logged = 0
    /\ carried = <<>>
    /\ handled = 0
    /\ printed = <<>>
    /\ dropped = {}

Emit(event, how) == printed' = Append(printed, [event |-> event, how |-> how])

NewEvent ==
    /\ caller = "quiet"
    /\ logged < MaxEvents
    /\ logged' = logged + 1

-----------------------------------------------------------------------------
(* log_generic and dispatch, on the thread that logs.  The text is         *)
(* formatted into the temporary arena (its length and a zero), next to it  *)
(* comes the LogEvent with a copy of the text; both are swept when the     *)
(* call returns.  Of a LogEvent of size cells, held cells of the arena     *)
(* were in use already.                                                    *)
TextFits(size, held)  == held + (size - EventHeader) + 1 <= ArenaCells
EventFits(size, held) ==
    held + (size - EventHeader) + 1 + size <= ArenaCells

(* resolve_format fails: nothing is logged.                                *)
LogUnformatted(size, held) ==
    /\ NewEvent
    /\ ~TextFits(size, held)
    /\ dropped' = dropped \union {logged'}
    /\ UNCHANGED <<vars, caller, carried, handled, printed>>

(* tpush fails: "log message too big for deferred dispatch".               *)
LogTooBig(size, held) ==
    /\ NewEvent
    /\ TextFits(size, held) /\ ~EventFits(size, held)
    /\ Emit(logged', "direct")
    /\ UNCHANGED <<vars, caller, carried, handled, dropped>>

LogDeferred(size, held) ==
    /\ NewEvent
    /\ EventFits(size, held)
    /\ Send(size)
    /\ carried' = Append(carried, logged')
    /\ caller' = "sending"
    /\ UNCHANGED <<handled, printed, dropped>>

(* LoggerEventTag_Fatal: printed at once, and the process is gone, with    *)
(* whatever the queue still holds.                                         *)
LogFatal(size, held) ==
    /\ NewEvent
    /\ caller' = "aborted"
    /\ IF TextFits(size, held)
       THEN Emit(logged', "direct") /\ UNCHANGED dropped
       ELSE dropped' = dropped \union {logged'} /\ UNCHANGED printed
    /\ UNCHANGED <<vars, carried, handled>>

(* The steps of th_message_send.                                           *)
SendStep == WriterStep /\ UNCHANGED loggerVars

Accepted(attempt) == \E i \in DOMAIN sent : sent[i].id = attempt

(* Mutant: the result of the send is ignored.                              *)
SendReturns_Ignored ==
    /\ caller = "sending"
    /\ wpc = "idle"
    /\ caller' = "quiet"
    /\ UNCHANGED <<vars, logged, carried, handled, printed, dropped>>

(* Mutant: the message is printed whatever the send says.                  *)
SendReturns_PrintsAlways ==
    /\ caller = "sending"
    /\ wpc = "idle"
    /\ caller' = "quiet"
    /\ Emit(logged, "direct")
    /\ UNCHANGED <<vars, logged, carried, handled, dropped>>

(* "failed to dispatch deferred log message": printed by the caller.       *)
SendReturns ==
    /\ caller = "sending"
    /\ wpc = "idle"
    /\ caller' = "quiet"
    /\ IF Accepted(attempts)
       THEN UNCHANGED printed
       ELSE Emit(logged, "direct")
    /\ UNCHANGED <<vars, logged, carried, handled, dropped>>

-----------------------------------------------------------------------------
(* logger_thread: wait for a message, print it, and again.                 *)
WaitStep ==
    /\ ReaderStep
    /\ rpc = "idle" => handled = Len(taken)
    /\ UNCHANGED loggerVars

(* Mutant: the newest message is printed first.                            *)
HandleEvent_NewestFirst ==
    LET pending == {carried[sent[i].id] : i \in DOMAIN sent}
                     \ {printed[i].event : i \in DOMAIN printed}
    IN  /\ handled < Len(taken)
        /\ handled' = handled + 1
        /\ Emit(CHOOSE e \in pending : \A other \in pending : e >= other,
                "queued")
        /\ UNCHANGED <<vars, caller, logged, carried, dropped>>

HandleEvent ==
    /\ handled < Len(taken)
    /\ handled' = handled + 1
    /\ Emit(carried[taken[handled'].id], "queued")
    /\ UNCHANGED <<vars, caller, logged, carried, dropped>>

Caller ==
    \/ \E size \in Sizes, held \in 0 .. ArenaCells :
          \/ LogUnformatted(size, held) \/ LogTooBig(size, held)
          \/ LogDeferred(size, held)    \/ LogFatal(size, held)
    \/ SendStep \/ SendReturns

LoggerThread == WaitStep \/ HandleEvent

LoggerNext == caller # "aborted" /\ (Caller \/ LoggerThread)

(* A call of the logger runs to its end and the logger thread keeps        *)
(* looping; whether anything is logged is the program's choice.            *)
LoggerSpec ==
    /\ LoggerInit /\ [][LoggerNext]_allVars
    /\ WF_allVars(caller # "aborted" /\ (SendStep \/ SendReturns))
    /\ WF_allVars(caller # "aborted" /\ LoggerThread)

-----------------------------------------------------------------------------
(* Properties                                                              *)

(* No event is printed twice: dispatch prints an event itself only if the  *)
(* logger thread will never see it, and what could not be formatted is     *)
(* printed by neither.                                                     *)
PrintedOnce ==
    \A i, j \in DOMAIN printed :
        /\ i # j => printed[i].event # printed[j].event
        /\ printed[i].event \notin dropped

(* An event overtakes an earlier one of its thread only if it was printed  *)
(* on the spot while the earlier one was in the queue: logger_thread keeps *)
(* the order of what it was given.                                         *)
OvertakesOnlyDirectly ==
    \A i, j \in DOMAIN printed :
        i < j /\ printed[i].event > printed[j].event =>
            printed[i].how = "direct" /\ printed[j].how = "queued"

(* While the logging thread is not inside a call, an event that has been   *)
(* logged is on stderr, or dropped for want of memory to format it, or in  *)
(* the queue: dispatch never loses one between its two ways out.           *)
NoneOverlooked ==
    caller = "quiet" =>
        \A e \in 1 .. logged :
            \/ e \in dropped
            \/ \E i \in DOMAIN printed : printed[i].event = e
            \/ \E i \in handled + 1 .. Len(sent) : carried[sent[i].id] = e

(* Every event that could be formatted is printed in the end, unless a     *)
(* fatal one ends the process before.                                      *)
EventuallyPrinted ==
    \A e \in 1 .. MaxEvents :
        e <= logged /\ e \notin dropped
          ~> \/ \E i \in DOMAIN printed : printed[i].event = e
             \/ caller = "aborted"
=============================================================================
