------------------------ MODULE CounterHandleRecorder ------------------------
(***************************************************************************)
(* The class template CounterHandleRecorder<T>: a counters handle T that   *)
(* samples the hardware counters at onStart and onEnd, and a recorder that *)
(* keeps one row of differences per onEnd.  It is driven by an arbitrary   *)
(* client, who may also call reset, print it, and install or remove an     *)
(* error handler at any time.                                              *)
(*                                                                         *)
(* The hardware counters are abstracted to the moment they are sampled:    *)
(* every counter grows with time, and a count is identified by its column  *)
(* and the two moments it is the difference of.                            *)
(***************************************************************************)
EXTENDS CounterRecorder, FatalError

CONSTANTS
  MaxTime,    \* bound: the hardware counters are sampled at 0 .. MaxTime
  MaxRecords  \* bound: onEnd is called while m_index < MaxRecords

ASSUME BoundAssumption == MaxTime \in Nat /\ MaxRecords \in Nat

VARIABLES
  now,           \* the hardware counters' present value
  m_startState,  \* the handle's sample of onStart
  recorder,      \* the CounterRecorder
  taken,         \* history: the measurements since construction or reset
  started        \* history: onStart was called since the last onEnd

vars == <<now, m_startState, recorder, taken, started, errorVars>>

Time == 0 .. MaxTime

(* getEventCounts, getExecutedInstructions and getExecutedCycles of a      *)
(* handle whose m_startState and m_endState were sampled at s and e.       *)
Measurement(s, e) == [c \in Columns |-> <<c, s, e>>]

Counts == Columns \X Time \X Time
Measurements == {Measurement(s, e) : s \in Time, e \in Time}
History == [start : Time, end : Time, paired : BOOLEAN]

(* The handle's samples are indeterminate until onStart.                   *)
Init ==
  /\ now = 0
  /\ m_startState \in Time
  /\ recorder = NewRecorder
  /\ taken = <<>>
  /\ started = FALSE
  /\ programmed = TRUE
  /\ ErrorInit

HardwareCounts ==
  /\ status = "running"
  /\ now < MaxTime
  /\ now' = now + 1
  /\ UNCHANGED <<m_startState, recorder, taken, started, errorVars>>

(* Mutant: a handle that is sampled once and keeps that start.             *)
OnFirstStart ==
  /\ status = "running"
  /\ m_startState' = IF taken = <<>> THEN now ELSE m_startState
  /\ started' = TRUE
  /\ UNCHANGED <<now, recorder, taken, errorVars>>

OnStart ==
  /\ status = "running"
  /\ m_startState' = now
  /\ started' = TRUE
  /\ UNCHANGED <<now, recorder, taken, errorVars>>

(* recordCounter with the error path: nothing, a fatal error, or undefined *)
(* behaviour before any error is reported.                                 *)
RecordCounter(state) ==
  IF StraysUnreported(recorder)
  THEN /\ status' = "undefined"
       /\ UNCHANGED <<recorder, handler, programmed, raised>>
  ELSE IF RecordFails(recorder)
  THEN /\ handleFatalError(IF RecordStrays(recorder) THEN "undefined" ELSE status)
       /\ recorder' = IF HandlerReturns THEN Recorded(recorder, state) ELSE recorder
  ELSE /\ recorder' = Recorded(recorder, state)
       /\ UNCHANGED errorVars

OnEnd ==
  /\ status = "running"
  /\ recorder.m_index < MaxRecords
  /\ RecordCounter(Measurement(m_startState, now))
  /\ taken' = Append(taken, [start |-> m_startState, end |-> now, paired |-> started])
  /\ started' = FALSE
  /\ UNCHANGED <<now, m_startState>>

ClientReset ==
  /\ status = "running"
  /\ recorder' = Reset(recorder)
  /\ taken' = <<>>
  /\ UNCHANGED <<now, m_startState, started, errorVars>>

(* operator<<: only a print that reads outside the vectors has an effect.  *)
print ==
  /\ status = "running"
  /\ status' = IF PrintStrays(recorder) THEN "undefined" ELSE status
  /\ UNCHANGED <<now, m_startState, recorder, taken, started, handler, programmed, raised>>

InstallHandler ==
  /\ status = "running"
  /\ setDefaultErrorHandler \/ resetDefaultErrorHandler
  /\ UNCHANGED <<now, m_startState, recorder, taken, started>>

Next ==
  \/ HardwareCounts
  \/ OnStart
  \/ OnEnd
  \/ ClientReset
  \/ print
  \/ InstallHandler

Spec == Init /\ [][Next]_vars
-----------------------------------------------------------------------------
(* Type invariant of the handle, the recorder and the error path.          *)
TypeOK ==
  /\ now \in Time
  /\ m_startState \in Time
  /\ IsRecorder(recorder, Counts)
  /\ taken \in Seq(History)
  /\ started \in BOOLEAN
  /\ ErrorTypeOK

(* The rows print shows are the measurements taken since the last reset,   *)
(* all of them, whole and in order: two flat vectors with different row    *)
(* widths, reused after reset, never mix or drop a column.  It holds until *)
(* an error has been reported.                                             *)
RowsAreTheMeasurements ==
  ~raised =>
    /\ recorder.m_index = Len(taken)
    /\ \A n \in 1 .. Len(taken) :
         Rows(recorder)[n] = RowOf(Measurement(taken[n].start, taken[n].end))

(* A row measured by an onStart and its onEnd starts no earlier than every *)
(* earlier row ended: consecutive operations are never counted twice.      *)
OperationsDoNotOverlap ==
  ~raised =>
    \A n \in 1 .. recorder.m_index : taken[n].paired =>
      \A c \in RowColumns, i \in 1 .. n - 1 :
        Row(recorder, i - 1)[c][3] <= Row(recorder, n - 1)[c][2]

(* No behaviour is undefined unless an error was reported before: the      *)
(* checks of recordCounter stand in front of every store and print.        *)
UndefinedOnlyAfterError == status = "undefined" => raised

(* recordCounter never stores outside its vectors, whatever the installed  *)
(* handler does: FATAL_ERROR("Storing common event outside commonCounts    *)
(* structure") guards the store of the common counters.                    *)
RecordingStaysInside == [][OnEnd => status' # "undefined"]_vars

(* The recorder is a bounded log of whole rows that reports its overrun.   *)
RowLog == INSTANCE SampleLog WITH
  Capacity <- OperationCount,
  Samples <- {RowOf(m) : m \in Measurements},
  log <- IF raised THEN <<>> ELSE Rows(recorder),
  overrun <- raised

ImplementsSampleLog == RowLog!Spec
=============================================================================
