----------------------- MODULE MultithreadedBenchProofs -----------------------
(***************************************************************************)
(* What MultithreadedBench keeps for any number of cores, workers and      *)
(* operations, and for a loop that fits its recorder or overruns it.       *)
(*                                                                         *)
(* The invariant has four parts: what the workers measure, where main and  *)
(* the PMU are, which rows are live, and what is on cout.                  *)
(***************************************************************************)
EXTENDS MultithreadedBench, CounterRecorderLemmas, SequenceTheorems

Sample == [events : Nat, live : BOOLEAN]

Typed ==
  /\ cores \in SUBSET CoreNumbers \ {{}}
  /\ count \in [CoreNumbers -> 0 .. MaxCount]
  /\ pc \in [Workers -> WorkerSteps]
  /\ affinity \in [Workers -> SUBSET cores] /\ pinned \subseteq Workers
  /\ bound \in Bounds
  /\ iteration \in [Workers -> 0 .. bound]
  /\ startState \in [Workers -> 0 .. MaxCount]
  /\ own \in [Workers -> Nat]

RecordsTyped ==
  /\ DOMAIN recorder = Workers /\ recorder = [w \in Workers |-> recorder[w]]
  /\ \A w \in Workers : IsRecorder(recorder[w], 0 .. MaxCount)
  /\ truth \in [Workers -> Seq(Sample)]

(* From a constructor whose call succeeded until the destructor, a worker  *)
(* may run on its own core only.                                           *)
Pinned ==
  \A w \in Workers :
    /\ pc[w] \in {"unborn", "pin"} => w \notin pinned
    /\ pc[w] \in {"loop", "measuring"} /\ w \in pinned => affinity[w] = {w}

(* A counter never falls below the sample a worker took of it; and if the  *)
(* worker is pinned it has grown by the worker's own events at least.      *)
OwnIsCounted ==
  \A w \in Workers :
    /\ startState[w] <= count[w]
    /\ pc[w] = "measuring" /\ w \in pinned => startState[w] + own[w] <= count[w]

(* A row per iteration, and the loop's bound while it runs and after.      *)
LoopCounts ==
  \A w \in Workers :
    /\ recorder[w].m_index = iteration[w]
    /\ Len(truth[w]) = iteration[w]
    /\ pc[w] \in {"unborn", "pin"} => iteration[w] = 0
    /\ pc[w] = "measuring" => iteration[w] < bound
    /\ pc[w] \in {"core", "header", "rows", "unpin", "done"} => iteration[w] = bound

Measured == Typed /\ RecordsTyped /\ Pinned /\ OwnIsCounted /\ LoopCounts /\ CountsCoverOwnEvents

USE BenchAssumption

-----------------------------------------------------------------------------
(* What a step of the program does to the workers: nothing; a worker goes  *)
(* on without measuring; or one of the steps of its own below.             *)
Quiet == UNCHANGED <<cores, count, threads, report>>

Moves(w) ==
  /\ \/ Goto(w, "unborn", "pin")
     \/ Goto(w, "measuring", "failed")
     \/ Goto(w, "failed", "terminate")
     \/ Goto(w, "loop", "core") /\ iteration[w] >= bound
  /\ UNCHANGED <<cores, count, placement, measurements, report>>

Writes(w) ==
  /\ PrintCore(w) \/ PrintHeader(w) \/ PrintRow(w) \/ Printed(w)
  /\ UNCHANGED <<cores, count, placement, measurements>>

Records(w) == OnEnd(w) /\ ~RecordFails(recorder[w])

(* Every step is one of them.                                              *)
LEMMA WhatStepsDo ==
  ASSUME [Next]_vars
  PROVE  \/ Quiet
         \/ \E w \in Workers :
              \/ Moves(w) \/ Writes(w) \/ Pin(w) \/ OnStart(w) \/ Records(w) \/ Unpin(w)
              \/ Event(w)
         \/ \E c \in cores : OtherEvent(c)
<1>1. CASE Main
  <2>1. ASSUME NEW w \in Workers, Spawn(w) PROVE Moves(w)
    BY <2>1 DEF Spawn, Moves, Goto, hardware
  <2>2. QED BY <1>1, <2>1 DEF Main, startMonitoring, set_signal_handlers, Join, exit_cleanup, Return,
                              Quiet, hardware
<1>2. ASSUME NEW w \in Workers, Worker(w)
      PROVE  Quiet \/ Moves(w) \/ Writes(w) \/ Pin(w) \/ OnStart(w) \/ Records(w) \/ Unpin(w)
  <2>1. CASE OnEnd(w)
    BY <2>1 DEF OnEnd, Records, Moves, hardware
  <2>2. CASE NoSuchCore(w) \/ FatalCleanup(w) \/ Terminate(w) \/ LoopDone(w)
    BY <2>2 DEF NoSuchCore, FatalCleanup, Terminate, LoopDone, Moves, Quiet, hardware
  <2>3. CASE PrintCore(w) \/ PrintHeader(w) \/ PrintRow(w) \/ Printed(w)
    BY <2>3 DEF PrintCore, PrintHeader, PrintRow, Printed, print, Rest, Writes, hardware
  <2>4. QED BY <1>2, <2>1, <2>2, <2>3 DEF Worker
<1>3. CASE SignalExit \/ SpawnFails \/ Signal \/ Over \/ UNCHANGED vars
  BY <1>3 DEF SignalExit, SpawnFails, Signal, Over, vars, Quiet, hardware
<1>4. QED BY <1>1, <1>2, <1>3 DEF Next, Environment

-----------------------------------------------------------------------------
(* The measurements.                                                       *)

(* Nothing is measured before the workers start.                           *)
LEMMA InitMeasured == Init => Measured
<1> SUFFICES ASSUME Init PROVE Measured
  OBVIOUS
<1>1. Typed
  BY DEF Init, Typed, WorkerSteps
<1>2. IsRecorder(NewRecorder, 0 .. MaxCount) /\ NewRecorder.m_index = 0
  BY DEF IsRecorder, NewRecorder
<1>3. RecordsTyped
  BY <1>2 DEF Init, RecordsTyped
<1>4. Pinned /\ OwnIsCounted
  BY DEF Init, Pinned, OwnIsCounted
<1>5. LoopCounts
  <2>1. ASSUME NEW w \in Workers
        PROVE  pc[w] = "unborn" /\ recorder[w].m_index = 0 /\ iteration[w] = 0 /\ Len(truth[w]) = 0
    BY <1>2 DEF Init
  <2>2. QED BY <2>1 DEF LoopCounts
<1>6. CountsCoverOwnEvents
  BY <1>2 DEF Init, CountsCoverOwnEvents
<1>7. QED BY <1>1, <1>3, <1>4, <1>5, <1>6 DEF Measured

(* Steps that leave the workers and the counters alone keep it.            *)
LEMMA QuietMeasured == ASSUME Measured, Quiet PROVE Measured'
<1>1. UNCHANGED <<cores, count, pc, affinity, pinned, bound, iteration, startState, recorder, own,
                  truth>>
  BY DEF Quiet, threads, placement, measurements
<1>2. (Typed /\ RecordsTyped /\ Pinned /\ OwnIsCounted /\ LoopCounts /\ CountsCoverOwnEvents)'
  BY <1>1 DEF Measured, Typed, RecordsTyped, Pinned, OwnIsCounted, LoopCounts, CountsCoverOwnEvents
<1>3. QED BY <1>2 DEF Measured

(* A worker that goes on without measuring keeps it, if it leaves the loop *)
(* at the loop's bound only.                                               *)
LEMMA MovesMeasured ==
  ASSUME Measured, NEW w \in Workers, Moves(w) \/ Writes(w)
  PROVE  Measured'
<1>1. UNCHANGED <<cores, count, affinity, pinned, bound, iteration, startState, recorder, own, truth>>
  BY DEF Moves, Writes, placement, measurements
<1>2. PICK to \in {"pin", "failed", "terminate", "core", "header", "rows", "unpin"} :
        /\ pc' = [pc EXCEPT ![w] = to]
        /\ to = "pin" => pc[w] = "unborn"
        /\ to \in {"core", "header", "rows", "unpin"} =>
             pc[w] \in {"core", "header", "rows", "unpin"} \/ iteration[w] >= bound
  BY DEF Moves, Writes, PrintCore, PrintHeader, PrintRow, Printed, Goto
<1>3. pc' \in [Workers -> WorkerSteps] /\ \A v \in Workers : pc'[v] = IF v = w THEN to ELSE pc[v]
  BY <1>2 DEF Measured, Typed, WorkerSteps
<1>4. Typed' /\ RecordsTyped' /\ CountsCoverOwnEvents'
  BY <1>1, <1>3 DEF Measured, Typed, RecordsTyped, CountsCoverOwnEvents
<1>5. Pinned' /\ OwnIsCounted'
  BY <1>1, <1>2, <1>3 DEF Measured, Pinned, OwnIsCounted
<1>6. LoopCounts'
  <2> SUFFICES ASSUME NEW v \in Workers
               PROVE  /\ recorder[v].m_index = iteration[v] /\ Len(truth[v]) = iteration[v]
                      /\ pc'[v] \in {"unborn", "pin"} => iteration[v] = 0
                      /\ pc'[v] = "measuring" => iteration[v] < bound
                      /\ pc'[v] \in {"core", "header", "rows", "unpin", "done"} => iteration[v] = bound
    BY <1>1 DEF LoopCounts
  <2>1. iteration[v] \in 0 .. bound /\ bound \in Nat
    BY DEF Measured, Typed
  <2>2. QED BY <1>2, <1>3, <2>1 DEF Measured, LoopCounts
<1>7. QED BY <1>4, <1>5, <1>6 DEF Measured

(* Only a constructor whose call succeeds makes a worker count as pinned,  *)
(* and then leaves it its own core; its rows are still to come.            *)
LEMMA PinMeasured == ASSUME Measured, NEW w \in Workers, Pin(w) \/ Unpin(w) PROVE Measured'
<1>1. UNCHANGED <<cores, count, bound, iteration, startState, recorder, own, truth>>
  BY DEF Pin, Unpin, hardware, measurements
<1>2. PICK to \in {"loop", "done"} :
        /\ pc' = [pc EXCEPT ![w] = to]
        /\ to = "loop" => pc[w] = "pin" /\ Pin(w)
        /\ to = "done" => pc[w] = "unpin" /\ Unpin(w)
  BY DEF Pin, Unpin, Goto
<1>3. /\ pc' \in [Workers -> WorkerSteps] /\ pc'[w] = to
      /\ \A v \in Workers \ {w} : pc'[v] = pc[v]
  BY <1>2 DEF Measured, Typed, WorkerSteps
<1>4. /\ affinity' \in [Workers -> SUBSET cores] /\ pinned' \in {pinned, pinned \cup {w}}
      /\ \A v \in Workers \ {w} : affinity'[v] = affinity[v]
      /\ to = "done" => pinned' = pinned
  BY <1>2 DEF Pin, Unpin, Measured, Typed, placement
<1>5. to = "loop" /\ w \in pinned' => affinity'[w] = {w}
  BY <1>2 DEF Pin, Measured, Typed, Pinned, placement
<1>6. Typed' /\ RecordsTyped'
  BY <1>1, <1>3, <1>4 DEF Measured, Typed, RecordsTyped
<1>7. Pinned' /\ OwnIsCounted'
  BY <1>1, <1>3, <1>4, <1>5 DEF Measured, Pinned, OwnIsCounted
<1>8. CountsCoverOwnEvents'
  <2>1. CASE pinned' = pinned
    BY <1>1, <2>1 DEF Measured, CountsCoverOwnEvents
  <2>2. CASE pinned' # pinned
    <3>1. pc[w] = "pin" /\ pinned' = pinned \cup {w}
      BY <1>2, <1>4, <2>2
    <3>2. recorder[w].m_index = 0
      BY <3>1 DEF Measured, LoopCounts
    <3>3. QED BY <1>1, <3>1, <3>2 DEF Measured, CountsCoverOwnEvents
  <2>3. QED BY <2>1, <2>2
<1>9. LoopCounts'
  BY <1>1, <1>2, <1>3 DEF Measured, LoopCounts
<1>10. QED BY <1>6, <1>7, <1>8, <1>9 DEF Measured

(* onStart begins to count at the present count, with no events yet.       *)
LEMMA OnStartMeasured == ASSUME Measured, NEW w \in Workers, OnStart(w) PROVE Measured'
<1>1. /\ UNCHANGED <<cores, count, affinity, pinned, bound, iteration, recorder, truth>>
      /\ w \in CoreNumbers /\ iteration[w] < bound /\ pc[w] = "loop" /\ pc' = [pc EXCEPT ![w] = "measuring"]
      /\ startState' = [startState EXCEPT ![w] = count[w]]
      /\ own' = [own EXCEPT ![w] = 0]
  BY DEF OnStart, Goto, hardware, placement
<1>2. count[w] \in 0 .. MaxCount /\ MaxCount \in Nat
  BY DEF Measured, Typed
<1>3. Typed'
  BY <1>1, <1>2 DEF Measured, Typed, WorkerSteps
<1>4. RecordsTyped' /\ CountsCoverOwnEvents'
  BY <1>1 DEF Measured, RecordsTyped, CountsCoverOwnEvents
<1>5. Pinned'
  BY <1>1 DEF Measured, Typed, Pinned
<1>6. OwnIsCounted'
  BY <1>1, <1>2 DEF Measured, Typed, OwnIsCounted
<1>7. LoopCounts'
  BY <1>1 DEF Measured, Typed, LoopCounts
<1>8. QED BY <1>3, <1>4, <1>5, <1>6, <1>7 DEF Measured

(* An event of w's own is on w's core; any event only adds to a counter.   *)
LEMMA EventMeasured ==
  ASSUME Measured, (\E w \in Workers : Event(w)) \/ (\E c \in cores : OtherEvent(c))
  PROVE  Measured'
<1>1. UNCHANGED <<cores, pc, affinity, pinned, bound, iteration, startState, recorder, truth>>
  BY DEF Event, OtherEvent, threads, placement, measurements
<1>2. RecordsTyped' /\ CountsCoverOwnEvents' /\ Pinned' /\ LoopCounts'
  BY <1>1 DEF Measured, RecordsTyped, CountsCoverOwnEvents, Pinned, LoopCounts
<1>3. ASSUME NEW w \in Workers, Event(w) PROVE Typed' /\ OwnIsCounted'
  <2>1. PICK c \in affinity[w] : count[c] < MaxCount /\ count' = [count EXCEPT ![c] = @ + 1]
    BY <1>3 DEF Event, Counted
  <2>2. /\ pc[w] = "measuring" /\ own' = [own EXCEPT ![w] = @ + 1]
        /\ c \in CoreNumbers /\ (w \in pinned => c = w)
    BY <1>3 DEF Event, Measured, Typed, Pinned
  <2>3. count' \in [CoreNumbers -> 0 .. MaxCount] /\ own' \in [Workers -> Nat]
    BY <2>1, <2>2 DEF Measured, Typed
  <2>4. OwnIsCounted'
    <3> SUFFICES ASSUME NEW v \in Workers
                 PROVE  /\ startState[v] <= count'[v]
                        /\ pc[v] = "measuring" /\ v \in pinned => startState[v] + own'[v] <= count'[v]
      BY <1>1 DEF OwnIsCounted
    <3>1. /\ startState[v] <= count[v]
          /\ pc[v] = "measuring" /\ v \in pinned => startState[v] + own[v] <= count[v]
          /\ startState[v] \in Nat /\ own[v] \in Nat /\ count[v] \in Nat /\ count[c] \in Nat
      BY <2>2 DEF Measured, Typed, OwnIsCounted
    <3>2. /\ count'[v] = IF v = c THEN count[v] + 1 ELSE count[v]
          /\ own'[v] = IF v = w THEN own[v] + 1 ELSE own[v]
      BY <2>1, <2>2 DEF Measured, Typed
    <3>3. QED BY <2>2, <3>1, <3>2
  <2>5. QED BY <1>1, <2>3, <2>4 DEF Measured, Typed
<1>4. ASSUME NEW c \in cores, OtherEvent(c) PROVE Typed' /\ OwnIsCounted'
  <2>1. own' = own /\ count[c] < MaxCount /\ count' = [count EXCEPT ![c] = @ + 1] /\ c \in CoreNumbers
    BY <1>4 DEF OtherEvent, Counted, threads, measurements, Measured, Typed
  <2>2. Typed'
    BY <1>1, <2>1 DEF Measured, Typed
  <2>3. OwnIsCounted'
    BY <1>1, <2>1 DEF Measured, Typed, OwnIsCounted
  <2>4. QED BY <2>2, <2>3
<1>5. QED BY <1>2, <1>3, <1>4 DEF Measured

(* A recorded row counts what the worker's core counted since onStart,     *)
(* its own events among it; the rows before it stay.                       *)
LEMMA RecordsMeasured ==
  ASSUME Measured, programmed \in BOOLEAN, NEW w \in Workers, Records(w)
  PROVE  Measured'
<1> DEFINE r == recorder[w]
           sample == [events |-> own[w], live |-> programmed]
           state == Difference(w)
<1>1. /\ UNCHANGED <<cores, count, affinity, pinned, bound, startState, own>>
      /\ ~RecordFails(r) /\ pc[w] = "measuring" /\ pc' = [pc EXCEPT ![w] = "loop"]
      /\ recorder' = [recorder EXCEPT ![w] = Recorded(r, state)]
      /\ iteration' = [iteration EXCEPT ![w] = @ + 1]
      /\ truth' = [truth EXCEPT ![w] = Append(@, sample)]
  BY DEF Records, OnEnd, Goto, hardware, placement
<1>2. /\ count[w] \in 0 .. MaxCount /\ startState[w] \in 0 .. MaxCount /\ own[w] \in Nat
      /\ iteration[w] \in Nat /\ bound \in Nat /\ iteration[w] < bound
      /\ r.m_index = iteration[w] /\ Len(truth[w]) = iteration[w]
      /\ startState[w] <= count[w] /\ (w \in pinned => startState[w] + own[w] <= count[w])
  BY <1>1 DEF Measured, Typed, LoopCounts, OwnIsCounted
<1>3. IsRecorder(r, 0 .. MaxCount) /\ truth[w] \in Seq(Sample) /\ sample \in Sample
  BY <1>2 DEF Measured, RecordsTyped, Sample
<1>4. r.m_index < OperationCount
  BY <1>1, <1>2, <1>3, FullIsReported, RecorderAssumption
<1>5. state \in [Columns -> 0 .. MaxCount] /\ (w \in pinned => \A c \in Columns : own[w] <= state[c])
  BY <1>2 DEF Difference
<1>6. /\ IsRecorder(Recorded(r, state), 0 .. MaxCount)
      /\ Recorded(r, state).m_index = r.m_index + 1
      /\ Row(Recorded(r, state), r.m_index) = RowOf(state)
      /\ \A i \in 0 .. r.m_index - 1 : Row(Recorded(r, state), i) = Row(r, i)
  BY <1>3, <1>4, <1>5, RecordedTyped, RecordedAddsRow
<1>7. /\ Append(truth[w], sample) \in Seq(Sample)
      /\ Len(Append(truth[w], sample)) = iteration[w] + 1
      /\ \A n \in 1 .. iteration[w] : Append(truth[w], sample)[n] = truth[w][n]
      /\ Append(truth[w], sample)[iteration[w] + 1] = sample
  BY <1>2, <1>3, AppendProperties
<1> HIDE DEF r, sample, state
<1>8. /\ recorder'[w] = Recorded(r, state) /\ truth'[w] = Append(truth[w], sample)
      /\ iteration'[w] = iteration[w] + 1 /\ pc'[w] = "loop"
      /\ \A v \in Workers \ {w} : /\ recorder'[v] = recorder[v] /\ truth'[v] = truth[v]
                                  /\ iteration'[v] = iteration[v] /\ pc'[v] = pc[v]
  BY <1>1 DEF Measured, Typed, RecordsTyped
<1>9. Typed'
  BY <1>1, <1>2 DEF Measured, Typed, WorkerSteps
<1>10. RecordsTyped'
  <2>1. DOMAIN recorder' = Workers /\ recorder' = [v \in Workers |-> recorder'[v]]
    BY <1>1 DEF Measured, RecordsTyped
  <2>2. \A v \in Workers : IsRecorder(recorder'[v], 0 .. MaxCount)
    BY <1>6, <1>8 DEF Measured, RecordsTyped
  <2>3. truth' \in [Workers -> Seq(Sample)]
    BY <1>1, <1>7 DEF Measured, RecordsTyped
  <2>4. QED BY <2>1, <2>2, <2>3 DEF RecordsTyped
<1>11. Pinned' /\ OwnIsCounted'
  BY <1>1, <1>8 DEF Measured, Pinned, OwnIsCounted
<1>12. LoopCounts'
  BY <1>1, <1>2, <1>6, <1>7, <1>8 DEF Measured, LoopCounts, r
<1>13. CountsCoverOwnEvents'
  <2> SUFFICES ASSUME NEW v \in pinned, NEW n \in 1 .. recorder'[v].m_index, truth'[v][n].live,
                      NEW c \in RowColumns
               PROVE  Row(recorder'[v], n - 1)[c] >= truth'[v][n].events
    BY <1>1 DEF CountsCoverOwnEvents
  <2>0. v \in Workers
    BY DEF Measured, Typed
  <2>1. CASE v # w
    BY <1>8, <2>0, <2>1 DEF Measured, CountsCoverOwnEvents
  <2>2. CASE v = w /\ n <= iteration[w]
    <3>1. n \in 1 .. recorder[w].m_index /\ n - 1 \in 0 .. r.m_index - 1
      BY <1>2, <2>2 DEF r
    <3>2. recorder'[v] = Recorded(r, state) /\ truth'[v][n] = truth[w][n]
      BY <1>2, <1>7, <1>8, <2>2, <3>1 DEF r
    <3>3. Row(recorder'[v], n - 1) = Row(recorder[w], n - 1)
      BY <1>6, <3>1, <3>2 DEF r
    <3>4. QED BY <2>2, <3>1, <3>2, <3>3 DEF Measured, CountsCoverOwnEvents
  <2>3. CASE v = w /\ n > iteration[w]
    <3>1. n = iteration[w] + 1 /\ n - 1 = r.m_index
      BY <1>2, <1>6, <1>8, <2>3 DEF r
    <3>2. Row(recorder'[v], n - 1)[c] = state[c] /\ truth'[v][n].events = own[w]
      BY <1>6, <1>7, <1>8, <2>3, <3>1 DEF RowOf, sample
    <3>3. c \in Columns /\ state[c] \in Int
      BY <1>5, RecorderAssumption DEF RowColumns, Columns, Instructions, Cycles
    <3>4. own[w] <= state[c]
      BY <1>5, <2>3, <3>3
    <3>5. QED BY <1>2, <3>2, <3>3, <3>4
  <2>4. QED BY <1>2, <2>1, <2>2, <2>3
<1>14. QED BY <1>9, <1>10, <1>11, <1>12, <1>13 DEF Measured

(* Every step keeps the part about measurements.                           *)
LEMMA NextMeasured == ASSUME Measured, programmed \in BOOLEAN, [Next]_vars PROVE Measured'
BY WhatStepsDo, QuietMeasured, MovesMeasured, PinMeasured, OnStartMeasured, RecordsMeasured,
   EventMeasured

-----------------------------------------------------------------------------
(* main, the ways out and the PMU.                                         *)

ControlTyped ==
  /\ main \in {"startMonitoring", "set_signal_handlers", "spawn", "join",
               "exit_cleanup", "return", "returned"}
  /\ status \in Ended \cup {"running"}
  /\ handlersSet \in BOOLEAN /\ signalled \in BOOLEAN /\ programmed \in BOOLEAN

(* main spawns all workers before it joins any, and joins all of them      *)
(* before it cleans up.                                                    *)
MainWaits ==
  /\ main \in {"startMonitoring", "set_signal_handlers"} => \A w \in Workers : pc[w] = "unborn"
  /\ main = "join" => \A w \in Workers : pc[w] # "unborn"
  /\ main \in {"exit_cleanup", "return", "returned"} => \A w \in Workers : pc[w] = "done"
  /\ status = "exited" => main = "returned"

(* Nobody can signal or fail before the PMU is programmed, and whoever     *)
(* does later cleans up.                                                   *)
CleanedUp ==
  /\ main = "startMonitoring" => ~handlersSet /\ ~signalled
  /\ signalled => ~programmed
  /\ \A w \in Workers : pc[w] = "terminate" => ~programmed

(* Between startMonitoring and exit_cleanup nobody else cleans up.         *)
Monitors ==
  status = "running" /\ ~Stopping /\ main \in {"set_signal_handlers", "spawn", "join"} => programmed

Controlled == ControlTyped /\ MainWaits /\ CleanedUp /\ PmuIsReleased /\ Monitors

(* main, the PMU and the workers in the initial states.                    *)
LEMMA InitControlled == Init => Controlled
BY DEF Init, Controlled, ControlTyped, MainWaits, CleanedUp, PmuIsReleased, Monitors, Ended

(* What a worker's step does to them.                                      *)
LEMMA WorkerControl ==
  ASSUME NEW w \in Workers, Worker(w)
  PROVE  /\ status = "running" /\ UNCHANGED <<main, handlersSet, signalled>>
         /\ \/ /\ FatalCleanup(w)
               /\ programmed' = FALSE /\ status' = status
               /\ pc[w] = "failed" /\ pc' = [pc EXCEPT ![w] = "terminate"]
            \/ /\ Terminate(w)
               /\ programmed' = programmed /\ status' = "terminated"
               /\ pc[w] = "terminate" /\ pc' = pc
            \/ programmed' = programmed /\ status' = "undefined" /\ pc' = pc
            \/ /\ programmed' = programmed /\ status' = status
               /\ pc[w] \notin {"unborn", "failed", "terminate", "done"}
               /\ \E to \in WorkerSteps \ {"unborn", "terminate"} : pc' = [pc EXCEPT ![w] = to]
<1>1. CASE Pin(w) \/ OnStart(w) \/ OnEnd(w) \/ LoopDone(w) \/ Unpin(w)
  BY <1>1 DEF Pin, OnStart, OnEnd, LoopDone, Unpin, Goto, process, hardware, WorkerSteps
<1>2. CASE PrintCore(w) \/ PrintHeader(w) \/ PrintRow(w) \/ Printed(w)
  BY <1>2 DEF PrintCore, PrintHeader, PrintRow, Printed, print, Rest, Goto, process, hardware,
              WorkerSteps
<1>3. CASE FatalCleanup(w) \/ Terminate(w) \/ NoSuchCore(w)
  BY <1>3 DEF FatalCleanup, Terminate, NoSuchCore, Goto, process, hardware, threads
<1>4. QED BY <1>1, <1>2, <1>3 DEF Worker

(* A worker keeps the part about main and the PMU.                         *)
LEMMA WorkerControlled ==
  ASSUME Controlled, Typed, NEW w \in Workers, Worker(w)
  PROVE  Controlled'
<1>1. /\ status = "running" /\ UNCHANGED <<main, handlersSet, signalled>>
      /\ ControlTyped /\ MainWaits /\ CleanedUp /\ Monitors
  BY WorkerControl DEF Controlled
<1>2. CASE /\ programmed' = FALSE /\ status' = status
           /\ pc[w] = "failed" /\ pc' = [pc EXCEPT ![w] = "terminate"]
  <2>1. ControlTyped'
    BY <1>1, <1>2 DEF ControlTyped
  <2>2. MainWaits'
    BY <1>1, <1>2 DEF MainWaits, Typed
  <2>3. CleanedUp' /\ PmuIsReleased'
    BY <1>1, <1>2 DEF CleanedUp, PmuIsReleased
  <2>4. pc'[w] = "terminate"
    BY <1>2 DEF Typed
  <2>5. Monitors'
    BY <2>4 DEF Monitors, Stopping
  <2>6. QED BY <2>1, <2>2, <2>3, <2>5 DEF Controlled
<1>3. CASE /\ programmed' = programmed /\ status' = "terminated"
           /\ pc[w] = "terminate" /\ pc' = pc
  <2>1. ~programmed
    BY <1>1, <1>3 DEF CleanedUp
  <2>2. QED BY <1>1, <1>3, <2>1 DEF Controlled, ControlTyped, MainWaits, CleanedUp, PmuIsReleased,
                                    Monitors, Ended
<1>4. CASE /\ programmed' = programmed /\ status' = status
           /\ pc[w] \notin {"unborn", "failed", "terminate", "done"}
           /\ \E to \in WorkerSteps \ {"unborn", "terminate"} : pc' = [pc EXCEPT ![w] = to]
  <2>1. PICK to \in WorkerSteps \ {"unborn", "terminate"} : pc' = [pc EXCEPT ![w] = to]
    BY <1>4
  <2>2. \A v \in Workers : pc'[v] = IF v = w THEN to ELSE pc[v]
    BY <2>1 DEF Typed
  <2>3. ControlTyped' /\ PmuIsReleased'
    BY <1>1, <1>4 DEF ControlTyped, PmuIsReleased
  <2>4. MainWaits'
    BY <1>1, <1>4, <2>2 DEF MainWaits
  <2>5. CleanedUp'
    BY <1>1, <1>4, <2>2 DEF CleanedUp
  <2>6. Stopping => Stopping'
    BY <1>1, <1>4, <2>2 DEF Stopping
  <2>7. Monitors'
    BY <1>1, <1>4, <2>6 DEF Monitors
  <2>8. QED BY <2>3, <2>4, <2>5, <2>7 DEF Controlled
<1>5. CASE programmed' = programmed /\ status' = "undefined" /\ pc' = pc
  BY <1>1, <1>5 DEF Controlled, ControlTyped, MainWaits, CleanedUp, PmuIsReleased, Monitors, Ended
<1>6. QED BY <1>2, <1>3, <1>4, <1>5, WorkerControl

(* So do the statements of main.                                           *)
LEMMA MainControlled == ASSUME Controlled, Typed, Main PROVE Controlled'
<1>1. ControlTyped /\ MainWaits /\ CleanedUp /\ PmuIsReleased /\ Monitors
  BY DEF Controlled
<1>2. CASE startMonitoring
  <2>1. /\ main = "startMonitoring" /\ main' = "set_signal_handlers" /\ status = "running"
        /\ UNCHANGED <<handlersSet, signalled, pc>>
        /\ \/ programmed' = TRUE /\ status' = status
           \/ programmed' = FALSE /\ status' = "terminated"
    BY <1>2 DEF startMonitoring, MainStep, threads
  <2>2. ControlTyped' /\ MainWaits' /\ PmuIsReleased' /\ Monitors'
    BY <1>1, <2>1 DEF ControlTyped, MainWaits, PmuIsReleased, Monitors, Ended
  <2>3. CleanedUp'
    BY <1>1, <2>1 DEF CleanedUp, MainWaits
  <2>4. QED BY <2>2, <2>3 DEF Controlled
<1>3. CASE set_signal_handlers
  <2>1. /\ main = "set_signal_handlers" /\ main' = "spawn" /\ handlersSet' = TRUE
        /\ UNCHANGED <<status, signalled, programmed, pc>>
    BY <1>3 DEF set_signal_handlers, MainStep, threads, hardware
  <2>2. Stopping' <=> Stopping
    BY <2>1 DEF Stopping
  <2>3. ControlTyped' /\ MainWaits' /\ CleanedUp' /\ PmuIsReleased' /\ Monitors'
    BY <1>1, <2>1, <2>2 DEF ControlTyped, MainWaits, CleanedUp, PmuIsReleased, Monitors
  <2>4. QED BY <2>3 DEF Controlled
<1>4. ASSUME NEW w \in Workers, Spawn(w) PROVE Controlled'
  <2>1. /\ status = "running" /\ main = "spawn" /\ pc[w] = "unborn"
        /\ \A v \in Workers : pc'[v] = IF v = w THEN "pin" ELSE pc[v]
        /\ main' = IF \A v \in Workers \ {w} : pc[v] # "unborn" THEN "join" ELSE main
        /\ UNCHANGED <<status, handlersSet, signalled, programmed>>
    BY <1>4 DEF Spawn, Typed, process, hardware
  <2>2. Stopping => Stopping'
    BY <2>1 DEF Stopping
  <2>3. MainWaits'
    BY <1>1, <2>1 DEF MainWaits
  <2>4. ControlTyped' /\ CleanedUp' /\ PmuIsReleased' /\ Monitors'
    BY <1>1, <2>1, <2>2 DEF ControlTyped, CleanedUp, PmuIsReleased, Monitors
  <2>5. QED BY <2>3, <2>4 DEF Controlled
<1>5. CASE Join
  <2>1. /\ status = "running" /\ main = "join" /\ main' = "exit_cleanup"
        /\ \A w \in Workers : pc[w] = "done"
        /\ UNCHANGED <<status, handlersSet, signalled, programmed, pc>>
    BY <1>5 DEF Join, MainStep, Joinable, process, hardware, threads
  <2>2. ControlTyped' /\ MainWaits' /\ CleanedUp' /\ PmuIsReleased' /\ Monitors'
    BY <1>1, <2>1 DEF ControlTyped, MainWaits, CleanedUp, PmuIsReleased, Monitors
  <2>3. QED BY <2>2 DEF Controlled
<1>6. CASE exit_cleanup \/ Return
  <2>1. /\ status = "running" /\ programmed' = FALSE
        /\ \/ main = "exit_cleanup" /\ main' = "return" /\ status' = status
           \/ main = "return" /\ main' = "returned" /\ status' = "exited"
        /\ UNCHANGED <<handlersSet, signalled, pc>>
    BY <1>6 DEF exit_cleanup, Return, MainStep, process, threads
  <2>2. ControlTyped' /\ MainWaits' /\ CleanedUp' /\ PmuIsReleased' /\ Monitors'
    BY <1>1, <2>1 DEF ControlTyped, MainWaits, CleanedUp, PmuIsReleased, Monitors, Ended
  <2>3. QED BY <2>2 DEF Controlled
<1>7. QED BY <1>2, <1>3, <1>4, <1>5, <1>6 DEF Main

(* So do the signal, its handler, the failed spawn and the hardware.       *)
LEMMA OthersControlled ==
  ASSUME Controlled, SignalExit \/ Environment \/ Over \/ UNCHANGED vars
  PROVE  Controlled'
<1>1. ControlTyped /\ MainWaits /\ CleanedUp /\ PmuIsReleased /\ Monitors
  BY DEF Controlled
<1>2. CASE SignalExit
  <2>1. /\ signalled /\ status' = "interrupted"
        /\ UNCHANGED <<main, handlersSet, signalled, programmed, pc>>
    BY <1>2 DEF SignalExit, hardware, threads
  <2>2. ControlTyped' /\ MainWaits' /\ CleanedUp' /\ PmuIsReleased' /\ Monitors'
    BY <1>1, <2>1 DEF ControlTyped, MainWaits, CleanedUp, PmuIsReleased, Monitors, Ended
  <2>3. QED BY <2>2 DEF Controlled
<1>3. CASE SpawnFails
  <2>1. /\ main = "spawn" /\ status' = "aborted" /\ programmed' \in {programmed, FALSE}
        /\ UNCHANGED <<main, handlersSet, signalled, pc>>
    BY <1>3 DEF SpawnFails, threads
  <2>2. programmed' \in BOOLEAN /\ (~programmed => ~programmed')
    <3>1. CASE programmed' = programmed
      BY <1>1, <3>1 DEF ControlTyped
    <3>2. CASE programmed' = FALSE
      BY <3>2
    <3>3. QED BY <2>1, <3>1, <3>2
  <2>3. ControlTyped' /\ MainWaits' /\ PmuIsReleased' /\ Monitors'
    BY <1>1, <2>1, <2>2 DEF ControlTyped, MainWaits, PmuIsReleased, Monitors, Ended
  <2>4. CleanedUp'
    BY <1>1, <2>1, <2>2 DEF CleanedUp
  <2>5. QED BY <2>3, <2>4 DEF Controlled
<1>4. CASE Signal
  <2>1. status = "running" /\ UNCHANGED <<main, handlersSet, pc>>
    BY <1>4 DEF Signal, threads
  <2>2. CASE handlersSet
    <3>1. signalled' /\ ~programmed' /\ signalled' \in BOOLEAN /\ programmed' \in BOOLEAN
          /\ status' = status
      BY <1>4, <2>2 DEF Signal
    <3>2. ControlTyped' /\ MainWaits' /\ CleanedUp' /\ PmuIsReleased'
      BY <1>1, <2>1, <2>2, <3>1 DEF ControlTyped, MainWaits, CleanedUp, PmuIsReleased
    <3>3. Monitors'
      BY <3>1 DEF Monitors, Stopping
    <3>4. QED BY <3>2, <3>3 DEF Controlled
  <2>3. CASE ~handlersSet
    <3>1. status' = "killed" /\ UNCHANGED <<signalled, programmed>>
      BY <1>4, <2>3 DEF Signal
    <3>2. ControlTyped' /\ MainWaits' /\ CleanedUp' /\ PmuIsReleased' /\ Monitors'
      BY <1>1, <2>1, <3>1 DEF ControlTyped, MainWaits, CleanedUp, PmuIsReleased, Monitors, Ended
    <3>3. QED BY <3>2 DEF Controlled
  <2>4. QED BY <2>2, <2>3
<1>5. ASSUME \/ \E w \in Workers : Event(w)
             \/ \E c \in cores : OtherEvent(c)
             \/ Over \/ UNCHANGED vars
      PROVE  Controlled'
  <2>1. UNCHANGED <<main, status, handlersSet, signalled, programmed, pc>>
    BY <1>5 DEF Event, OtherEvent, Over, vars, process, hardware, threads
  <2>2. Stopping' <=> Stopping
    BY <2>1 DEF Stopping
  <2>3. ControlTyped' /\ MainWaits' /\ CleanedUp' /\ PmuIsReleased' /\ Monitors'
    BY <1>1, <2>1, <2>2 DEF ControlTyped, MainWaits, CleanedUp, PmuIsReleased, Monitors
  <2>4. QED BY <2>3 DEF Controlled
<1>6. QED BY <1>2, <1>3, <1>4, <1>5 DEF Environment

(* Every step keeps the part about main and the PMU.                       *)
LEMMA NextControlled == ASSUME Controlled, Typed, [Next]_vars PROVE Controlled'
BY WorkerControlled, MainControlled, OthersControlled DEF Next

-----------------------------------------------------------------------------
(* Unless the process is stopping, every sample was taken with the PMU     *)
(* programmed: a worker that measures keeps main from cleaning up.         *)
SamplesAreLive ==
  ~Stopping => \A w \in Workers : \A n \in 1 .. Len(truth[w]) : truth[w][n].live

(* What has begun to stop is never not stopping again.                     *)
LEMMA StoppingStays == ASSUME Controlled, Typed, [Next]_vars, Stopping PROVE Stopping'
<1>1. ASSUME NEW w \in Workers, Worker(w) PROVE Stopping'
  BY <1>1, WorkerControl DEF Stopping, Typed
<1>2. ASSUME NEW w \in Workers, Spawn(w) PROVE Stopping'
  BY <1>2 DEF Spawn, process, Stopping, Typed
<1>3. CASE startMonitoring \/ set_signal_handlers \/ Join \/ exit_cleanup \/ Return
  BY <1>3 DEF startMonitoring, set_signal_handlers, Join, exit_cleanup, Return, process, threads,
              Stopping
<1>4. CASE SignalExit \/ SpawnFails
  BY <1>4 DEF SignalExit, SpawnFails, threads, Stopping
<1>5. CASE Signal
  <2>1. signalled => signalled'
    BY <1>5 DEF Signal
  <2>2. pc' = pc
    BY <1>5 DEF Signal, threads
  <2>3. QED BY <2>1, <2>2 DEF Stopping
<1>6. ASSUME \/ \E w \in Workers : Event(w)
             \/ \E c \in cores : OtherEvent(c)
             \/ Over \/ UNCHANGED vars
      PROVE  Stopping'
  BY <1>6 DEF Event, OtherEvent, Over, vars, process, threads, Stopping
<1>7. QED BY <1>1, <1>2, <1>3, <1>4, <1>5, <1>6 DEF Next, Main, Environment

(* Every step keeps the samples live: a sample is taken in a loop that main*)
(* waits for, so nobody has cleaned up.                                    *)
LEMMA NextSamplesAreLive ==
  ASSUME SamplesAreLive, Measured, Controlled, [Next]_vars
  PROVE  SamplesAreLive'
<1> SUFFICES ASSUME ~Stopping' PROVE \A w \in Workers : \A n \in 1 .. Len(truth'[w]) : truth'[w][n].live
  BY DEF SamplesAreLive
<1>1. \A w \in Workers : \A n \in 1 .. Len(truth[w]) : truth[w][n].live
  BY StoppingStays DEF SamplesAreLive, Measured
<1>2. CASE truth' = truth
  BY <1>1, <1>2
<1>3. ASSUME NEW w \in Workers, Records(w)
      PROVE  \A v \in Workers : \A n \in 1 .. Len(truth'[v]) : truth'[v][n].live
  <2> DEFINE sample == [events |-> own[w], live |-> programmed]
  <2>1. /\ pc[w] = "measuring" /\ status = "running"
        /\ truth' = [truth EXCEPT ![w] = Append(@, sample)]
    BY <1>3 DEF Records, OnEnd, Goto
  <2>2. main \in {"spawn", "join"}
    BY <2>1 DEF Controlled, ControlTyped, MainWaits
  <2>3. ~Stopping
    BY StoppingStays DEF Measured
  <2>4. programmed
    BY <2>1, <2>2, <2>3 DEF Controlled, Monitors
  <2>5. /\ truth[w] \in Seq(Sample) /\ sample \in Sample
        /\ truth'[w] = Append(truth[w], sample)
        /\ \A v \in Workers \ {w} : truth'[v] = truth[v]
    BY <2>1 DEF Measured, Typed, RecordsTyped, Sample, Controlled, ControlTyped
  <2>6. /\ Len(truth[w]) \in Nat /\ Len(truth'[w]) = Len(truth[w]) + 1
        /\ \A n \in 1 .. Len(truth[w]) : truth'[w][n] = truth[w][n]
        /\ truth'[w][Len(truth[w]) + 1] = sample
    BY <2>5, AppendProperties, LenProperties
  <2>7. sample.live
    BY <2>4
  <2> HIDE DEF sample
  <2>8. ASSUME NEW n \in 1 .. Len(truth'[w]) PROVE truth'[w][n].live
    <3>1. n \in 1 .. Len(truth[w]) \/ n = Len(truth[w]) + 1
      BY <2>6
    <3>2. QED BY <1>1, <2>6, <2>7, <3>1, Zenon
  <2>9. QED BY <1>1, <2>5, <2>8
<1>4. QED
  <2>1. truth' = truth \/ \E w \in Workers : Records(w)
    BY WhatStepsDo DEF Quiet, Moves, Writes, Pin, OnStart, Unpin, Event, OtherEvent, threads,
                       measurements
  <2>2. QED BY <1>2, <1>3, <2>1

-----------------------------------------------------------------------------
(* cout.                                                                   *)

(* How much of its report a worker has written at each statement.          *)
LinesFit ==
  /\ line \in [Workers -> Nat] /\ piece \in [Workers -> 0 .. Pieces - 1]
  /\ \A w \in Workers :
       /\ pc[w] \in {"unborn", "pin", "loop", "measuring", "failed", "terminate", "core"} => line[w] = 0
       /\ pc[w] \notin {"core", "header", "rows"} => piece[w] = 0
       /\ pc[w] = "header" => line[w] = 1
       /\ pc[w] = "rows" => /\ 2 <= line[w] /\ line[w] <= recorder[w].m_index + 2
                            /\ line[w] = recorder[w].m_index + 2 => piece[w] = 0
       /\ pc[w] \in {"unpin", "done"} => line[w] = recorder[w].m_index + 3

(* No line is written at first.                                            *)
LEMMA InitReported == Init => LinesFit
BY DEF Init, LinesFit

(* A worker that goes on with its report keeps the part if it is as far as *)
(* its next statement says.                                                *)
LEMMA WrittenFits ==
  ASSUME LinesFit, Measured, NEW w \in Workers, recorder' = recorder,
         NEW l \in Nat, NEW p \in 0 .. Pieces - 1, NEW to \in {"core", "header", "rows", "unpin"},
         line' = [line EXCEPT ![w] = l], piece' = [piece EXCEPT ![w] = p],
         pc' = [pc EXCEPT ![w] = to],
         to = "core" => l = 0,
         to = "header" => l = 1,
         to = "rows" => /\ 2 <= l /\ l <= recorder[w].m_index + 2
                        /\ (l = recorder[w].m_index + 2 => p = 0),
         to = "unpin" => l = recorder[w].m_index + 3 /\ p = 0
  PROVE  LinesFit'
<1>1. /\ line' \in [Workers -> Nat] /\ piece' \in [Workers -> 0 .. Pieces - 1]
      /\ \A v \in Workers : /\ line'[v] = IF v = w THEN l ELSE line[v]
                            /\ piece'[v] = IF v = w THEN p ELSE piece[v]
                            /\ pc'[v] = IF v = w THEN to ELSE pc[v]
  BY DEF LinesFit, Measured, Typed
<1>2. QED BY <1>1 DEF LinesFit

(* A piece ends its line or leaves it incomplete; the statement changes at *)
(* the end of a line only.                                                 *)
LEMMA WritesReported == ASSUME LinesFit, Measured, NEW w \in Workers, Writes(w) PROVE LinesFit'
<1>1. /\ line[w] \in Nat /\ piece[w] \in 0 .. Pieces - 1 /\ recorder' = recorder
      /\ recorder[w].m_index \in Nat
  BY DEF LinesFit, Writes, measurements, Measured, RecordsTyped, IsRecorder
<1> DEFINE l == IF EndsLine(w) THEN line[w] + 1 ELSE line[w]
           p == IF EndsLine(w) THEN 0 ELSE piece[w] + 1
<1>2. print(w) => line' = [line EXCEPT ![w] = l] /\ piece' = [piece EXCEPT ![w] = p]
  BY DEF print
<1>3. /\ l \in Nat /\ p \in 0 .. Pieces - 1 /\ EndsLine(w) \in BOOLEAN
      /\ IF EndsLine(w) THEN l = line[w] + 1 /\ p = 0 ELSE l = line[w]
  BY <1>1 DEF EndsLine
<1> HIDE DEF l, p
<1>4. CASE PrintCore(w)
  <2> DEFINE to == IF EndsLine(w) THEN "header" ELSE "core"
  <2>1. line' = [line EXCEPT ![w] = l] /\ piece' = [piece EXCEPT ![w] = p] /\ pc' = [pc EXCEPT ![w] = to]
    BY <1>2, <1>4 DEF PrintCore, Goto
  <2>2. line[w] = 0
    BY <1>4 DEF PrintCore, Goto, LinesFit
  <2>3. /\ to \in {"core", "header", "rows", "unpin"}
        /\ to = "core" => l = 0
        /\ to = "header" => l = 1
        /\ to = "rows" => /\ 2 <= l /\ l <= recorder[w].m_index + 2
                          /\ (l = recorder[w].m_index + 2 => p = 0)
        /\ to # "unpin"
    BY <1>1, <1>3, <2>2
  <2> HIDE DEF to
  <2>4. QED BY <1>1, <1>3, <2>1, <2>3, WrittenFits
<1>5. CASE PrintHeader(w)
  <2> DEFINE to == IF EndsLine(w) THEN "rows" ELSE "header"
  <2>1. line' = [line EXCEPT ![w] = l] /\ piece' = [piece EXCEPT ![w] = p] /\ pc' = [pc EXCEPT ![w] = to]
    BY <1>2, <1>5 DEF PrintHeader, Goto
  <2>2. line[w] = 1
    BY <1>5 DEF PrintHeader, Goto, LinesFit
  <2>3. /\ to \in {"core", "header", "rows", "unpin"}
        /\ to = "core" => l = 0
        /\ to = "header" => l = 1
        /\ to = "rows" => /\ 2 <= l /\ l <= recorder[w].m_index + 2
                          /\ (l = recorder[w].m_index + 2 => p = 0)
        /\ to # "unpin"
    BY <1>1, <1>3, <2>2
  <2> HIDE DEF to
  <2>4. QED BY <1>1, <1>3, <2>1, <2>3, WrittenFits
<1>6. CASE PrintRow(w)
  <2> DEFINE to == "rows"
  <2>1. line' = [line EXCEPT ![w] = l] /\ piece' = [piece EXCEPT ![w] = p] /\ pc' = [pc EXCEPT ![w] = to]
    BY <1>2, <1>6 DEF PrintRow, Goto
  <2>2. 2 <= line[w] /\ line[w] < recorder[w].m_index + 2
    BY <1>6 DEF PrintRow, Goto, LinesFit
  <2>3. /\ to \in {"core", "header", "rows", "unpin"}
        /\ to = "core" => l = 0
        /\ to = "header" => l = 1
        /\ to = "rows" => /\ 2 <= l /\ l <= recorder[w].m_index + 2
                          /\ (l = recorder[w].m_index + 2 => p = 0)
        /\ to # "unpin"
    BY <1>1, <1>3, <2>2
  <2> HIDE DEF to
  <2>4. QED BY <1>1, <1>3, <2>1, <2>3, WrittenFits
<1>7. CASE Printed(w)
  <2>1. line[w] = recorder[w].m_index + 2 /\ piece[w] = 0
    BY <1>1, <1>7 DEF Printed, Goto, LinesFit
  <2>2. piece' = [piece EXCEPT ![w] = 0]
    BY <1>7, <2>1 DEF Printed, LinesFit
  <2>3. line' = [line EXCEPT ![w] = line[w] + 1] /\ pc' = [pc EXCEPT ![w] = "unpin"]
    BY <1>7 DEF Printed, Goto
  <2>4. line[w] + 1 = recorder[w].m_index + 3 /\ line[w] + 1 \in Nat /\ 0 \in 0 .. Pieces - 1
    BY <1>1, <2>1
  <2>5. QED BY <1>1, <2>2, <2>3, <2>4, WrittenFits
<1>8. QED BY <1>4, <1>5, <1>6, <1>7 DEF Writes

(* Every step keeps the part about the reports.                            *)
LEMMA NextReported == ASSUME LinesFit, Measured, [Next]_vars PROVE LinesFit'
<1>1. pc \in [Workers -> WorkerSteps]
  BY DEF Measured, Typed
<1>2. CASE Quiet
  BY <1>2 DEF Quiet, threads, measurements, report, LinesFit
<1>3. ASSUME NEW w \in Workers, Moves(w) PROVE LinesFit'
  BY <1>1, <1>3 DEF Moves, Goto, measurements, report, LinesFit
<1>4. ASSUME NEW w \in Workers, Pin(w) \/ OnStart(w) \/ Unpin(w) \/ Event(w) PROVE LinesFit'
  <2>1. line' = line /\ piece' = piece /\ recorder' = recorder
    BY <1>4 DEF Pin, OnStart, Unpin, Event, measurements, report
  <2>2. \/ pc' = [pc EXCEPT ![w] = "loop"] /\ pc[w] = "pin"
        \/ pc' = [pc EXCEPT ![w] = "measuring"] /\ pc[w] = "loop"
        \/ pc' = [pc EXCEPT ![w] = "done"] /\ pc[w] = "unpin"
        \/ pc' = pc
    BY <1>4 DEF Pin, OnStart, Unpin, Event, Goto
  <2>3. QED BY <1>1, <2>1, <2>2 DEF LinesFit
<1>5. ASSUME NEW w \in Workers, Records(w) PROVE LinesFit'
  <2>1. /\ line' = line /\ piece' = piece /\ pc[w] = "measuring" /\ pc' = [pc EXCEPT ![w] = "loop"]
        /\ DOMAIN recorder = Workers
        /\ \A v \in Workers \ {w} : recorder'[v] = recorder[v]
    BY <1>5 DEF Records, OnEnd, Goto, report, Measured, RecordsTyped
  <2>2. QED BY <1>1, <2>1 DEF LinesFit
<1>6. ASSUME NEW c \in cores, OtherEvent(c) PROVE LinesFit'
  BY <1>6 DEF OtherEvent, threads, measurements, report, LinesFit
<1>7. QED BY WhatStepsDo, WritesReported, <1>2, <1>3, <1>4, <1>5, <1>6

-----------------------------------------------------------------------------
(* The theorems.                                                           *)

IInv == Measured /\ Controlled /\ SamplesAreLive /\ LinesFit

(* The initial states satisfy the invariant.                               *)
LEMMA InitIInv == Init => IInv
<1> SUFFICES ASSUME Init PROVE IInv
  OBVIOUS
<1>1. \A w \in Workers : Len(truth[w]) = 0
  BY DEF Init
<1>2. SamplesAreLive
  BY <1>1 DEF SamplesAreLive
<1>3. QED BY <1>2, InitMeasured, InitControlled, InitReported DEF IInv

(* Every step keeps it.                                                    *)
LEMMA NextIInv == IInv /\ [Next]_vars => IInv'
<1> SUFFICES ASSUME IInv, [Next]_vars PROVE IInv'
  OBVIOUS
<1>1. Typed /\ programmed \in BOOLEAN
  BY DEF IInv, Measured, Controlled, ControlTyped
<1>2. QED BY <1>1, NextMeasured, NextControlled, NextSamplesAreLive, NextReported DEF IInv

(* So it holds in every reachable state.                                   *)
LEMMA Inductive == Spec => []IInv
<1>1. QED BY InitIInv, NextIInv, PTL DEF Spec

(* The variables stay in their types: no counter of a loop passes its      *)
(* bound and no recorder loses its shape.                                  *)
THEOREM TypeCorrect == Spec => []TypeOK
<1>1. IInv => TypeOK
  BY DEF IInv, Measured, Typed, RecordsTyped, Controlled, ControlTyped, LinesFit, TypeOK, Sample
<1>2. QED BY <1>1, Inductive, PTL

(* Where pinning succeeded, a live row counts at least its worker's own    *)
(* events, however the threads are scheduled and whoever else fails to pin *)
(* itself: work keeps its AffinityGuard while it measures.                 *)
THEOREM CountsCover == Spec => []CountsCoverOwnEvents
<1>1. IInv => CountsCoverOwnEvents
  BY DEF IInv, Measured
<1>2. QED BY <1>1, Inductive, PTL

(* Unless the process is stopping, cout shows live rows only: main joins   *)
(* every worker before it cleans up.                                       *)
THEOREM ReportedLive == Spec => []ReportedRowsAreLive
<1>1. ASSUME IInv PROVE ReportedRowsAreLive
  <2> SUFFICES ASSUME ~Stopping, NEW w \in Workers, NEW n \in 1 .. recorder[w].m_index
               PROVE  truth[w][n].live
    BY DEF ReportedRowsAreLive
  <2>1. n \in 1 .. Len(truth[w])
    BY <1>1 DEF IInv, Measured, LoopCounts
  <2>2. QED BY <1>1, <2>1 DEF IInv, SamplesAreLive
<1>2. QED BY <1>1, Inductive, PTL

(* When main returns, every worker has written its whole report: main has  *)
(* joined it, and a worker ends after its last line.                       *)
THEOREM ExitReports == Spec => []ExitReportsEverything
<1>1. ASSUME IInv PROVE ExitReportsEverything
  <2> SUFFICES ASSUME status = "exited", NEW w \in Workers
               PROVE  line[w] = bound + 3 /\ piece[w] = 0
    BY DEF ExitReportsEverything
  <2>1. pc[w] = "done"
    BY <1>1 DEF IInv, Controlled, MainWaits
  <2>2. QED BY <1>1, <2>1 DEF IInv, LinesFit, Measured, LoopCounts
<1>2. QED BY <1>1, Inductive, PTL

(* However the process ends but by an uncaught exception or an early       *)
(* signal, the PMU is free.                                                *)
THEOREM PmuReleased == Spec => []PmuIsReleased
<1>1. IInv => PmuIsReleased
  BY DEF IInv, Controlled
<1>2. QED BY <1>1, Inductive, PTL
=============================================================================
