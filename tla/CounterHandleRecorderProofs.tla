--------------------- MODULE CounterHandleRecorderProofs ---------------------
(***************************************************************************)
(* The properties of CounterHandleRecorder, for every number of            *)
(* operations, of counters and of moments, and that the recorder           *)
(* implements a bounded log of rows.                                       *)
(*                                                                         *)
(* None of the four invariants is inductive alone.  Rows stay equal to the *)
(* measurements only while no more rows were counted than fit; two         *)
(* measurements do not overlap only because a sample is never later than   *)
(* the present, and one taken since the last onStart is never earlier than *)
(* any row's end.                                                          *)
(***************************************************************************)
EXTENDS CounterHandleRecorder, CounterRecorderLemmas, SequenceTheorems

(* As long as no error was reported no more rows are counted than fit.     *)
RowsFit == ~raised => recorder.m_index <= OperationCount

(* Where the samples of the past lie: every measurement ended by now,      *)
(* before a pending onStart, and before the start of any later measurement *)
(* that had an onStart of its own.                                         *)
SamplesAreOrdered ==
  /\ \A i \in 1 .. Len(taken) :
       taken[i].end <= now /\ (started => taken[i].end <= m_startState)
  /\ \A n \in 1 .. Len(taken) : taken[n].paired =>
       \A i \in 1 .. n - 1 : taken[i].end <= taken[n].start

(* The inductive invariant.                                                *)
IInv ==
  /\ TypeOK
  /\ RowsFit
  /\ RowsAreTheMeasurements
  /\ SamplesAreOrdered
  /\ UndefinedOnlyAfterError

-----------------------------------------------------------------------------
(* A measurement of two moments is a function from columns to counts.      *)
LEMMA MeasurementTyped ==
  ASSUME NEW s \in Time, NEW e \in Time
  PROVE  Measurement(s, e) \in [Columns -> Counts] /\ Measurement(s, e) \in Measurements
BY DEF Measurement, Counts, Measurements

(* The rows of a recorder form a sequence as long as its index.            *)
LEMMA RowsLength ==
  ASSUME NEW C, NEW r, IsRecorder(r, C)
  PROVE  /\ Rows(r) = [n \in 1 .. r.m_index |-> Row(r, n - 1)]
         /\ r.m_index \in Nat
         /\ Len(Rows(r)) = r.m_index
BY DEF IsRecorder, Rows

(* The construction of a recorder.                                         *)
LEMMA NewTyped == IsRecorder(NewRecorder, Counts) /\ NewRecorder.m_index = 0
BY DEF IsRecorder, NewRecorder

(* reset keeps the vectors and takes the index back to the first row.      *)
LEMMA ResetTyped ==
  ASSUME NEW C, NEW r, IsRecorder(r, C)
  PROVE  IsRecorder(Reset(r), C) /\ Reset(r).m_index = 0
BY DEF IsRecorder, Reset

(* The three outcomes of recordCounter, told apart by the room left.       *)
LEMMA RecordOutcome ==
  ASSUME IInv, NEW state, RecordCounter(state)
  PROVE  \/ /\ recorder.m_index < OperationCount
            /\ recorder' = Recorded(recorder, state)
            /\ UNCHANGED errorVars
         \/ /\ recorder.m_index >= OperationCount
            /\ recorder' \in {recorder, Recorded(recorder, state)}
            /\ raised'
            /\ ErrorTypeOK'
<1>1. IsRecorder(recorder, Counts) /\ ErrorTypeOK
  BY DEF IInv, TypeOK
<1>2. CASE recorder.m_index < OperationCount
  <2>1. ~RecordFails(recorder) /\ ~StraysUnreported(recorder)
    BY <1>1, <1>2, RoomIsUsed
  <2>2. QED BY <1>2, <2>1 DEF RecordCounter
<1>3. CASE ~(recorder.m_index < OperationCount)
  <2>1. recorder.m_index >= OperationCount
    BY <1>1, <1>3, RecorderAssumption DEF IsRecorder
  <2>2. RecordFails(recorder) /\ ~StraysUnreported(recorder)
    BY <1>1, <2>1, FullIsReported
  <2>3. QED
    BY <1>1, <2>1, <2>2
    DEF RecordCounter, handleFatalError, runOnFatalError, HandlerReturns, ErrorTypeOK
<1>4. QED BY <1>2, <1>3

-----------------------------------------------------------------------------
(* The initial states satisfy the inductive invariant.                     *)
LEMMA InitIInv == Init => IInv
<1> SUFFICES ASSUME Init PROVE IInv
  OBVIOUS
<1>1. taken = <<>> /\ Len(taken) = 0 /\ recorder.m_index = 0 /\ IsRecorder(recorder, Counts)
  BY NewTyped DEF Init
<1>2. TypeOK
  <2>1. ErrorTypeOK
    BY DEF Init, ErrorInit, ErrorTypeOK
  <2>2. now \in Time
    BY BoundAssumption DEF Init, Time
  <2>3. taken \in Seq(History)
    BY <1>1
  <2>4. QED BY <1>1, <2>1, <2>2, <2>3 DEF Init, TypeOK
<1>3. RowsFit /\ RowsAreTheMeasurements /\ SamplesAreOrdered
  BY <1>1, RecorderAssumption DEF RowsFit, RowsAreTheMeasurements, SamplesAreOrdered
<1>4. UndefinedOnlyAfterError
  BY DEF Init, ErrorInit, UndefinedOnlyAfterError
<1>5. QED BY <1>2, <1>3, <1>4 DEF IInv

(* onEnd keeps the inductive invariant: the row it adds is the measurement *)
(* it took, and a paired one starts after every earlier one ended.         *)
LEMMA OnEndIInv == IInv /\ OnEnd => IInv'
<1> SUFFICES ASSUME IInv, OnEnd PROVE IInv'
  OBVIOUS
<1> DEFINE h == [start |-> m_startState, end |-> now, paired |-> started]
           state == Measurement(m_startState, now)
<1>1. /\ now \in Time /\ m_startState \in Time /\ IsRecorder(recorder, Counts)
      /\ taken \in Seq(History) /\ started \in BOOLEAN /\ ErrorTypeOK
  BY DEF IInv, TypeOK
<1>2. /\ now' = now /\ m_startState' = m_startState /\ started' = FALSE
      /\ taken' = Append(taken, h) /\ RecordCounter(state) /\ status = "running"
  BY DEF OnEnd
<1>3. h \in History /\ state \in [Columns -> Counts]
  BY <1>1, MeasurementTyped DEF History
<1>4. /\ Len(taken) \in Nat /\ Len(taken') = Len(taken) + 1 /\ taken' \in Seq(History)
      /\ \A i \in 1 .. Len(taken) : taken'[i] = taken[i]
      /\ taken'[Len(taken) + 1] = h
  BY <1>1, <1>2, <1>3
<1>5. \/ /\ recorder.m_index < OperationCount
         /\ recorder' = Recorded(recorder, state)
         /\ UNCHANGED errorVars
      \/ /\ recorder.m_index >= OperationCount
         /\ recorder' \in {recorder, Recorded(recorder, state)}
         /\ raised'
         /\ ErrorTypeOK'
  BY <1>2, RecordOutcome
<1>6. /\ IsRecorder(Recorded(recorder, state), Counts)
      /\ Recorded(recorder, state).m_index = recorder.m_index + 1
      /\ recorder.m_index \in Nat
  <2>1. recorder.m_index \in Nat
    BY <1>1 DEF IsRecorder
  <2>2. QED BY <1>1, <1>3, <2>1, RecordedTyped
<1>7. TypeOK'
  <2>1. IsRecorder(recorder, Counts)'
    BY <1>1, <1>5, <1>6
  <2>2. ErrorTypeOK'
    BY <1>1, <1>5 DEF ErrorTypeOK, errorVars
  <2>3. QED BY <1>1, <1>2, <1>4, <2>1, <2>2 DEF TypeOK
<1>8. RowsFit'
  BY <1>5, <1>6, RecorderAssumption DEF RowsFit
<1>9. RowsAreTheMeasurements'
  <2>1. SUFFICES ASSUME ~raised' PROVE RowsAreTheMeasurements'
    BY DEF RowsAreTheMeasurements
  <2>2. /\ recorder.m_index < OperationCount /\ recorder' = Recorded(recorder, state)
        /\ ~raised
    BY <1>5, <2>1 DEF errorVars
  <2>3. /\ recorder.m_index = Len(taken)
        /\ \A n \in 1 .. Len(taken) :
             Rows(recorder)[n] = RowOf(Measurement(taken[n].start, taken[n].end))
    BY <2>2 DEF IInv, RowsAreTheMeasurements
  <2>4. /\ Row(recorder', recorder.m_index) = RowOf(state)
        /\ \A i \in 0 .. recorder.m_index - 1 : Row(recorder', i) = Row(recorder, i)
    BY <1>1, <1>3, <2>2, RecordedAddsRow
  <2>5. recorder'.m_index = Len(taken')
    BY <1>4, <1>6, <2>2, <2>3
  <2>6. ASSUME NEW n \in 1 .. Len(taken')
        PROVE  Rows(recorder')[n] = RowOf(Measurement(taken'[n].start, taken'[n].end))
    <3>1. Rows(recorder')[n] = Row(recorder', n - 1)
      BY <2>5, <2>6 DEF Rows
    <3>2. CASE n \in 1 .. Len(taken)
      <4>1. /\ n - 1 \in 0 .. recorder.m_index - 1
            /\ Rows(recorder)[n] = Row(recorder, n - 1)
        BY <1>4, <2>3, <3>2 DEF Rows
      <4>2. taken'[n] = taken[n] /\ Row(recorder', n - 1) = Row(recorder, n - 1)
        BY <1>4, <2>4, <3>2, <4>1
      <4>3. QED BY <2>3, <3>1, <3>2, <4>1, <4>2
    <3>3. CASE n = Len(taken) + 1
      <4>1. taken'[n] = h /\ n - 1 = recorder.m_index
        BY <1>4, <2>3, <3>3
      <4>2. h.start = m_startState /\ h.end = now
        OBVIOUS
      <4>3. QED BY <2>4, <3>1, <4>1, <4>2
    <3>4. QED BY <1>4, <2>6, <3>2, <3>3
  <2>7. QED BY <2>5, <2>6 DEF RowsAreTheMeasurements
<1>10. SamplesAreOrdered'
  <2>1. \A i \in 1 .. Len(taken) :
          taken[i].end <= now /\ (started => taken[i].end <= m_startState)
    BY DEF IInv, SamplesAreOrdered
  <2>2. \A n \in 1 .. Len(taken) : taken[n].paired =>
          \A i \in 1 .. n - 1 : taken[i].end <= taken[n].start
    BY DEF IInv, SamplesAreOrdered
  <2>3. h.start = m_startState /\ h.end = now /\ h.paired = started
    OBVIOUS
  <2>4. now <= now
    BY <1>1 DEF Time
  <2>5. ASSUME NEW i \in 1 .. Len(taken') PROVE taken'[i].end <= now'
    BY <1>2, <1>4, <2>1, <2>3, <2>4, <2>5
  <2>6. ASSUME NEW n \in 1 .. Len(taken'), taken'[n].paired, NEW i \in 1 .. n - 1
        PROVE  taken'[i].end <= taken'[n].start
    <3>1. i \in 1 .. Len(taken) /\ taken'[i] = taken[i]
      BY <1>4, <2>6
    <3>2. CASE n \in 1 .. Len(taken)
      BY <1>4, <2>2, <2>6, <3>1, <3>2
    <3>3. CASE n = Len(taken) + 1
      BY <1>4, <2>1, <2>3, <2>6, <3>1, <3>3
    <3>4. QED BY <1>4, <2>6, <3>2, <3>3
  <2>7. QED BY <1>2, <2>5, <2>6 DEF SamplesAreOrdered
<1>11. UndefinedOnlyAfterError'
  BY <1>2, <1>5 DEF UndefinedOnlyAfterError, errorVars
<1>12. QED BY <1>7, <1>8, <1>9, <1>10, <1>11 DEF IInv

(* Every step keeps the inductive invariant.                               *)
LEMMA NextIInv == IInv /\ [Next]_vars => IInv'
<1> SUFFICES ASSUME IInv, [Next]_vars PROVE IInv'
  OBVIOUS
<1>1. /\ now \in Time /\ m_startState \in Time /\ IsRecorder(recorder, Counts)
      /\ taken \in Seq(History) /\ started \in BOOLEAN /\ ErrorTypeOK
  BY DEF IInv, TypeOK
<1>2. /\ RowsFit /\ RowsAreTheMeasurements /\ UndefinedOnlyAfterError
      /\ \A i \in 1 .. Len(taken) :
           taken[i].end <= now /\ (started => taken[i].end <= m_startState)
      /\ \A n \in 1 .. Len(taken) : taken[n].paired =>
           \A i \in 1 .. n - 1 : taken[i].end <= taken[n].start
  BY DEF IInv, SamplesAreOrdered
<1>3. CASE HardwareCounts
  <2>1. /\ now' = now + 1 /\ now < MaxTime
        /\ UNCHANGED <<m_startState, recorder, taken, started, errorVars>>
    BY <1>3 DEF HardwareCounts
  <2>2. now' \in Time
    BY <1>1, <2>1, BoundAssumption DEF Time
  <2>3. TypeOK'
    BY <1>1, <2>1, <2>2 DEF TypeOK, ErrorTypeOK, errorVars
  <2>4. ASSUME NEW i \in 1 .. Len(taken) PROVE taken[i].end <= now'
    <3>1. Len(taken) \in Nat /\ taken[i] \in History
      BY <1>1
    <3>2. taken[i].end \in Int /\ now \in Int /\ taken[i].end <= now
      BY <1>1, <1>2, <3>1 DEF History, Time
    <3>3. QED BY <2>1, <3>2
  <2>5. SamplesAreOrdered'
    BY <1>2, <2>1, <2>4 DEF SamplesAreOrdered
  <2>6. RowsFit' /\ RowsAreTheMeasurements' /\ UndefinedOnlyAfterError'
    BY <1>2, <2>1 DEF RowsFit, RowsAreTheMeasurements, UndefinedOnlyAfterError, errorVars
  <2>7. QED BY <2>3, <2>5, <2>6 DEF IInv
<1>4. CASE OnStart
  <2>1. m_startState' = now /\ started' = TRUE /\ UNCHANGED <<now, recorder, taken, errorVars>>
    BY <1>4 DEF OnStart
  <2>2. TypeOK'
    BY <1>1, <2>1 DEF TypeOK, ErrorTypeOK, errorVars
  <2>3. SamplesAreOrdered'
    BY <1>2, <2>1 DEF SamplesAreOrdered
  <2>4. RowsFit' /\ RowsAreTheMeasurements' /\ UndefinedOnlyAfterError'
    BY <1>2, <2>1 DEF RowsFit, RowsAreTheMeasurements, UndefinedOnlyAfterError, errorVars
  <2>5. QED BY <2>2, <2>3, <2>4 DEF IInv
<1>5. CASE OnEnd
  BY <1>5, OnEndIInv
<1>6. CASE ClientReset
  <2>1. /\ recorder' = Reset(recorder) /\ taken' = <<>>
        /\ UNCHANGED <<now, m_startState, started, errorVars>>
    BY <1>6 DEF ClientReset
  <2>2. IsRecorder(recorder', Counts) /\ recorder'.m_index = 0
    BY <1>1, <2>1, ResetTyped
  <2>3. TypeOK'
    BY <1>1, <2>1, <2>2 DEF TypeOK, ErrorTypeOK, errorVars
  <2>4. Len(taken') = 0
    BY <2>1
  <2>5. SamplesAreOrdered' /\ RowsAreTheMeasurements' /\ RowsFit'
    BY <2>2, <2>4, RecorderAssumption
    DEF SamplesAreOrdered, RowsAreTheMeasurements, RowsFit
  <2>6. UndefinedOnlyAfterError'
    BY <1>2, <2>1 DEF UndefinedOnlyAfterError, errorVars
  <2>7. QED BY <2>3, <2>5, <2>6 DEF IInv
<1>7. CASE print
  <2>1. /\ status' = (IF PrintStrays(recorder) THEN "undefined" ELSE status)
        /\ UNCHANGED <<now, m_startState, recorder, taken, started, handler, programmed, raised>>
    BY <1>7 DEF print
  <2>2. TypeOK'
    BY <1>1, <2>1 DEF TypeOK, ErrorTypeOK
  <2>3. SamplesAreOrdered' /\ RowsAreTheMeasurements' /\ RowsFit'
    BY <1>2, <2>1 DEF SamplesAreOrdered, RowsAreTheMeasurements, RowsFit
  <2>4. UndefinedOnlyAfterError'
    <3>1. CASE raised
      BY <2>1, <3>1 DEF UndefinedOnlyAfterError
    <3>2. CASE ~raised
      <4>1. ~PrintStrays(recorder)
        BY <1>1, <1>2, <3>2, PrintIsInside DEF RowsFit
      <4>2. QED BY <1>2, <2>1, <4>1 DEF UndefinedOnlyAfterError
    <3>3. QED BY <3>1, <3>2
  <2>5. QED BY <2>2, <2>3, <2>4 DEF IInv
<1>8. CASE InstallHandler
  <2>1. /\ handler' \in {"default", "custom"}
        /\ UNCHANGED <<status, programmed, raised>>
        /\ UNCHANGED <<now, m_startState, recorder, taken, started>>
    BY <1>8 DEF InstallHandler, setDefaultErrorHandler, resetDefaultErrorHandler
  <2>2. TypeOK'
    BY <1>1, <2>1 DEF TypeOK, ErrorTypeOK
  <2>3. QED
    BY <1>2, <2>1, <2>2
    DEF IInv, SamplesAreOrdered, RowsAreTheMeasurements, RowsFit, UndefinedOnlyAfterError
<1>9. CASE UNCHANGED vars
  BY <1>1, <1>2, <1>9
  DEF IInv, TypeOK, ErrorTypeOK, SamplesAreOrdered, RowsAreTheMeasurements, RowsFit,
      UndefinedOnlyAfterError, vars, errorVars
<1>10. QED
  BY <1>3, <1>4, <1>5, <1>6, <1>7, <1>8, <1>9 DEF Next

(* What the invariant says of the rows print shows.                        *)
LEMMA IInvOverlap == IInv => OperationsDoNotOverlap
<1> SUFFICES ASSUME IInv, ~raised,
                    NEW n \in 1 .. recorder.m_index, taken[n].paired,
                    NEW c \in RowColumns, NEW i \in 1 .. n - 1
             PROVE  Row(recorder, i - 1)[c][3] <= Row(recorder, n - 1)[c][2]
  BY DEF OperationsDoNotOverlap
<1>1. /\ recorder.m_index = Len(taken) /\ Len(taken) \in Nat
      /\ \A k \in 1 .. Len(taken) :
           Rows(recorder)[k] = RowOf(Measurement(taken[k].start, taken[k].end))
  BY DEF IInv, TypeOK, RowsAreTheMeasurements
<1>2. n \in 1 .. Len(taken) /\ i \in 1 .. Len(taken)
  BY <1>1
<1>3. ASSUME NEW k \in 1 .. Len(taken)
      PROVE  Row(recorder, k - 1)[c] = <<c, taken[k].start, taken[k].end>>
  <2>1. c \in Columns
    BY RecorderAssumption DEF RowColumns, Columns, Instructions, Cycles
  <2>2. Rows(recorder)[k] = Row(recorder, k - 1)
    BY <1>1 DEF Rows
  <2>3. Row(recorder, k - 1) = RowOf(Measurement(taken[k].start, taken[k].end))
    BY <1>1, <2>2
  <2>4. RowOf(Measurement(taken[k].start, taken[k].end))[c]
        = Measurement(taken[k].start, taken[k].end)[c]
    BY DEF RowOf
  <2>5. Measurement(taken[k].start, taken[k].end)[c] = <<c, taken[k].start, taken[k].end>>
    BY <2>1 DEF Measurement
  <2>6. QED BY <2>3, <2>4, <2>5
<1>4. taken[i].end <= taken[n].start
  BY <1>1, <1>2 DEF IInv, SamplesAreOrdered
<1>5. QED BY <1>2, <1>3, <1>4

-----------------------------------------------------------------------------
(* Every variable keeps its type: the vectors keep the size the            *)
(* constructor gave them and hold nothing but counts.                      *)
THEOREM TypeCorrect == Spec => []TypeOK
<1>1. IInv => TypeOK
  BY DEF IInv
<1>2. QED BY <1>1, InitIInv, NextIInv, PTL DEF Spec

(* Until an error is reported, the rows of the recorder are the            *)
(* measurements since the last reset, in order, for every table size.      *)
THEOREM RowsCorrect == Spec => []RowsAreTheMeasurements
<1>1. IInv => RowsAreTheMeasurements
  BY DEF IInv
<1>2. QED BY <1>1, InitIInv, NextIInv, PTL DEF Spec

(* No row counts an event that an earlier row counted.                     *)
THEOREM NoOverlap == Spec => []OperationsDoNotOverlap
<1>1. QED BY IInvOverlap, InitIInv, NextIInv, PTL DEF Spec

(* No store or print leaves the vectors before an error was reported.      *)
THEOREM ErrorsComeFirst == Spec => []UndefinedOnlyAfterError
<1>1. IInv => UndefinedOnlyAfterError
  BY DEF IInv
<1>2. QED BY <1>1, InitIInv, NextIInv, PTL DEF Spec

-----------------------------------------------------------------------------
(* The rows of a recorder without any are the empty sequence.              *)
LEMMA NoRows ==
  ASSUME NEW r, r.m_index = 0
  PROVE  Rows(r) = <<>>
BY DEF Rows

(* A row recorded with room left is appended to the rows.                  *)
LEMMA RowAppended ==
  ASSUME NEW C, NEW r, IsRecorder(r, C), r.m_index < OperationCount,
         NEW state \in [Columns -> C]
  PROVE  Rows(Recorded(r, state)) = Append(Rows(r), RowOf(state))
<1> DEFINE q == Recorded(r, state)
           S == {Row(r, i) : i \in Int} \cup {RowOf(state)}
<1>1. r.m_index \in Nat /\ q.m_index = r.m_index + 1
  BY RecordedTyped DEF IsRecorder
<1>2. /\ Row(q, r.m_index) = RowOf(state)
      /\ \A i \in 0 .. r.m_index - 1 : Row(q, i) = Row(r, i)
  BY RecordedAddsRow
<1>3. Rows(r) = [n \in 1 .. r.m_index |-> Row(r, n - 1)]
  BY DEF Rows
<1>4. Rows(q) = [n \in 1 .. r.m_index + 1 |-> Row(q, n - 1)]
  BY <1>1 DEF Rows
<1>5. Len(Rows(r)) = r.m_index /\ Rows(r) \in Seq(S) /\ RowOf(state) \in S
  BY <1>1, <1>3
<1>6. /\ Append(Rows(r), RowOf(state)) \in Seq(S)
      /\ Len(Append(Rows(r), RowOf(state))) = r.m_index + 1
      /\ \A n \in 1 .. r.m_index : Append(Rows(r), RowOf(state))[n] = Rows(r)[n]
      /\ Append(Rows(r), RowOf(state))[r.m_index + 1] = RowOf(state)
  BY <1>5, AppendProperties
<1>7. ASSUME NEW n \in 1 .. r.m_index + 1
      PROVE  Row(q, n - 1) = Append(Rows(r), RowOf(state))[n]
  <2>1. CASE n = r.m_index + 1
    <3>1. n - 1 = r.m_index
      BY <1>1, <2>1
    <3>2. QED BY <1>2, <1>6, <2>1, <3>1
  <2>2. CASE n # r.m_index + 1
    <3>1. n \in 1 .. r.m_index /\ n - 1 \in 0 .. r.m_index - 1
      BY <1>1, <1>7, <2>2
    <3>2. QED BY <1>2, <1>3, <1>6, <3>1
  <2>3. QED BY <2>1, <2>2
<1>8. Len(Rows(q)) = r.m_index + 1 /\ Rows(q) \in Seq(S)
  <2>1. \A n \in 1 .. r.m_index + 1 : Row(q, n - 1) \in S
    <3>1. ASSUME NEW n \in 1 .. r.m_index + 1 PROVE Row(q, n - 1) \in S
      <4>1. CASE n - 1 = r.m_index
        BY <1>2, <1>5, <4>1
      <4>2. CASE n - 1 \in 0 .. r.m_index - 1
        BY <1>2, <4>2
      <4>3. QED BY <1>1, <4>1, <4>2
    <3>2. QED BY <3>1
  <2>2. QED BY <1>1, <1>4, <2>1
<1>9. \A n \in 1 .. Len(Rows(q)) : Rows(q)[n] = Append(Rows(r), RowOf(state))[n]
  BY <1>4, <1>7, <1>8
<1>10. QED BY <1>6, <1>8, <1>9, SeqEqual

(* A step of the recorder is a step of the log or leaves it alone.         *)
LEMMA LogStep == IInv /\ [Next]_vars => [RowLog!Next]_(RowLog!vars)
<1> SUFFICES ASSUME IInv, [Next]_vars PROVE [RowLog!Next]_(RowLog!vars)
  OBVIOUS
<1> DEFINE log == IF raised THEN <<>> ELSE Rows(recorder)
<1>1. /\ IsRecorder(recorder, Counts) /\ recorder.m_index \in Nat
      /\ now \in Time /\ m_startState \in Time /\ raised \in BOOLEAN
      /\ (~raised => recorder.m_index <= OperationCount)
      /\ Len(Rows(recorder)) = recorder.m_index
  BY RowsLength DEF IInv, TypeOK, RowsFit, ErrorTypeOK
<1>2. CASE OnEnd
  <2> DEFINE state == Measurement(m_startState, now)
  <2>1. state \in [Columns -> Counts] /\ state \in Measurements
    BY <1>1, MeasurementTyped
  <2>2. \/ /\ recorder.m_index < OperationCount
           /\ recorder' = Recorded(recorder, state)
           /\ UNCHANGED errorVars
        \/ /\ recorder.m_index >= OperationCount
           /\ raised'
    BY <1>2, RecordOutcome DEF OnEnd
  <2>3. CASE raised
    BY <2>2, <2>3 DEF RowLog!Next, RowLog!AfterOverrun, errorVars
  <2>4. CASE ~raised /\ recorder.m_index < OperationCount
    <3>1. recorder' = Recorded(recorder, state) /\ raised' = raised
      BY <1>1, <2>2, <2>4, RecorderAssumption DEF errorVars
    <3>2. Rows(recorder') = Append(Rows(recorder), RowOf(state))
      BY <1>1, <2>1, <2>4, <3>1, RowAppended
    <3>3. log' = Append(log, RowOf(state)) /\ Len(log) < OperationCount
      BY <1>1, <2>4, <3>1, <3>2
    <3>4. RowOf(state) \in {RowOf(m) : m \in Measurements}
      BY <2>1
    <3>5. RowLog!Record
      BY <2>4, <3>1, <3>3, <3>4 DEF RowLog!Record
    <3>6. QED BY <3>5 DEF RowLog!Next
  <2>5. CASE ~raised /\ ~(recorder.m_index < OperationCount)
    <3>1. raised' /\ recorder.m_index = OperationCount
      BY <1>1, <2>2, <2>5, RecorderAssumption
    <3>2. Len(log) = OperationCount
      BY <1>1, <2>5, <3>1
    <3>3. RowLog!Overrun
      BY <2>5, <3>1, <3>2 DEF RowLog!Overrun
    <3>4. QED BY <3>3 DEF RowLog!Next
  <2>6. QED BY <2>3, <2>4, <2>5
<1>3. CASE ClientReset
  <2>1. recorder' = Reset(recorder) /\ raised' = raised
    BY <1>3 DEF ClientReset, errorVars
  <2>2. log' = <<>>
    <3>1. recorder'.m_index = 0
      BY <1>1, <2>1, ResetTyped
    <3>2. QED BY <3>1, NoRows
  <2>3. RowLog!Clear \/ RowLog!AfterOverrun
    BY <2>1, <2>2 DEF RowLog!Clear, RowLog!AfterOverrun
  <2>4. QED BY <2>3 DEF RowLog!Next
<1>4. CASE HardwareCounts \/ OnStart \/ print \/ InstallHandler \/ UNCHANGED vars
  <2>1. recorder' = recorder /\ raised' = raised
    BY <1>4
    DEF HardwareCounts, OnStart, print, InstallHandler, setDefaultErrorHandler,
        resetDefaultErrorHandler, vars, errorVars
  <2>2. QED BY <2>1 DEF RowLog!vars
<1>5. QED BY <1>2, <1>3, <1>4 DEF Next

(* The recorder with its two flat vectors implements a log of whole rows   *)
(* that holds operationCount of them and reports an overrun.               *)
THEOREM Refinement == Spec => ImplementsSampleLog
<1>1. Init => RowLog!Init
  <2>1. Init => Rows(recorder) = <<>> /\ ~raised
    BY NewTyped, NoRows DEF Init, ErrorInit
  <2>2. Init => raised = FALSE
    BY DEF Init, ErrorInit
  <2>3. QED BY <2>1, <2>2 DEF RowLog!Init
<1>2. QED
  BY <1>1, InitIInv, NextIInv, LogStep, PTL DEF Spec, ImplementsSampleLog, RowLog!Spec
=============================================================================
