------------------------- MODULE HwCounterStoreProofs -------------------------
(***************************************************************************)
(* What HwCounterStore answers for every capacity and every set of values, *)
(* and that it implements a bounded log of counts.                         *)
(***************************************************************************)
EXTENDS HwCounterStore, SequenceTheorems, TLAPS

(* Until the append that finds the vector full, which no program survives  *)
(* running, the vector holds the counts appended.                          *)
CountsKept ==
  /\ status = "running" => Len(appended) <= Capacity
  /\ Len(appended) <= Capacity =>
       /\ m_index = Len(appended)
       /\ \A i \in 0 .. m_index - 1 : m_counters[i] = appended[i + 1]

(* The append that finds the vector full is refused, and no other.         *)
RefusalsAreExact == refused <=> Len(appended) > Capacity

IInv == TypeOK /\ CountsKept /\ ReadsReturnAppended /\ ErrorsAreExact /\ RefusalsAreExact

USE StoreAssumption

(* The constructed store satisfies the invariant.                          *)
LEMMA InitIInv == Init => IInv
<1> SUFFICES ASSUME Init PROVE IInv
  OBVIOUS
<1>1. appended \in Seq(Values) /\ Len(appended) = 0
  BY DEF Init
<1>2. TypeOK
  <2>1. ErrorTypeOK /\ refused \in BOOLEAN /\ misread \in BOOLEAN
    BY DEF Init, ErrorInit, ErrorTypeOK
  <2>2. answer \in [index : Nat, value : Values \cup {Zero}, valid : BOOLEAN]
    BY DEF Init, NoAnswer
  <2>3. QED BY <1>1, <2>1, <2>2 DEF Init, TypeOK
<1>3. CountsKept /\ ReadsReturnAppended /\ ErrorsAreExact /\ RefusalsAreExact
  BY <1>1 DEF Init, ErrorInit, NoAnswer, CountsKept, ReadsReturnAppended, ErrorsAreExact,
              RefusalsAreExact
<1>4. QED BY <1>2, <1>3 DEF IInv

(* ASSERT changes nothing when it holds and the access is inside the       *)
(* vector, and reports an error when it does not hold.                     *)
LEMMA AssertedOutcome ==
  ASSUME ErrorTypeOK, NEW holds \in BOOLEAN, NEW i, holds => InVector(i), Asserted(holds, i)
  PROVE  /\ ErrorTypeOK'
         /\ holds => UNCHANGED errorVars
         /\ ~holds => raised' /\ (status' = "running" => InVector(i) /\ status = "running")
BY DEF Asserted, handleFatalError, runOnFatalError, ErrorTypeOK, errorVars

(* The append of a running program is stored, or reported and not stored.  *)
LEMMA AppendOutcome ==
  ASSUME IInv, NEW count \in Values, append(count)
  PROVE  /\ ErrorTypeOK' /\ UNCHANGED <<misread, answer>>
         /\ m_index = Len(appended) /\ Len(appended) \in Nat
         /\ appended' = Append(appended, count)
         /\ \/ /\ Len(appended) < Capacity
               /\ UNCHANGED <<errorVars, refused>>
               /\ Appending(count)
            \/ /\ Len(appended) = Capacity
               /\ raised' /\ refused' /\ status' # "running"
               /\ Appending(count) \/ UNCHANGED <<m_counters, m_index>>
<1>1. /\ status = "running" /\ m_index < MaxIndex /\ Asserted(AppendAssert, m_index)
      /\ appended' = Append(appended, count) /\ UNCHANGED <<misread, answer>>
      /\ IF status' = "terminated" THEN UNCHANGED <<m_counters, m_index>> ELSE Appending(count)
      /\ refused' = (refused \/ (~AppendAssert /\ raised'))
  BY DEF append
<1>2. /\ ErrorTypeOK /\ Len(appended) \in Nat /\ Len(appended) <= Capacity /\ m_index = Len(appended)
      /\ Capacity \in Nat
  BY <1>1, LenProperties DEF IInv, TypeOK, CountsKept
<1>3. (InVector(m_index) <=> m_index < Capacity) /\ (AppendAssert <=> m_index < Capacity)
  BY <1>2 DEF IInv, TypeOK, InVector, AppendAssert
<1>4. /\ ErrorTypeOK'
      /\ m_index < Capacity => UNCHANGED errorVars
      /\ ~(m_index < Capacity) => raised' /\ status' # "running"
  <2>1. AppendAssert \in BOOLEAN
    BY DEF AppendAssert
  <2>2. QED BY <1>1, <1>2, <1>3, <2>1, AssertedOutcome
<1>5. (m_index < Capacity => refused' = refused) /\ (~(m_index < Capacity) => refused')
  <2>1. refused \in BOOLEAN
    BY DEF IInv, TypeOK
  <2>2. QED BY <1>1, <1>3, <1>4, <2>1, Zenon
<1>6. QED BY <1>1, <1>2, <1>4, <1>5 DEF errorVars

(* An append that fits adds the last cell that answers; one too many is an *)
(* error.                                                                  *)
LEMMA AppendIInv == ASSUME IInv, NEW count \in Values, append(count) PROVE IInv'
<1>1. /\ ErrorTypeOK' /\ UNCHANGED <<misread, answer>>
      /\ m_index = Len(appended) /\ Len(appended) \in Nat /\ Capacity \in Nat /\ MaxIndex \in Nat
      /\ appended \in Seq(Values) /\ m_index < MaxIndex
      /\ m_counters \in [0 .. Capacity - 1 -> Values \cup {Zero}]
  BY AppendOutcome DEF append, IInv, TypeOK
<1>2. /\ appended' \in Seq(Values) /\ Len(appended') = Len(appended) + 1
      /\ \A n \in 1 .. Len(appended) : appended'[n] = appended[n]
      /\ appended'[Len(appended) + 1] = count
  BY <1>1, AppendOutcome, AppendProperties
<1>3. /\ m_counters' \in [0 .. Capacity - 1 -> Values \cup {Zero}]
      /\ m_index' \in 0 .. MaxIndex
  <2>1. Appending(count) \/ UNCHANGED <<m_counters, m_index>>
    BY AppendOutcome
  <2>2. CASE Appending(count)
    BY <1>1, <2>2 DEF Appending
  <2>3. QED BY <1>1, <2>1, <2>2
<1>4. TypeOK'
  <2>1. refused' \in BOOLEAN
    BY DEF append, IInv, TypeOK
  <2>2. QED BY <1>1, <1>2, <1>3, <2>1 DEF IInv, TypeOK
<1>5. CASE Len(appended) < Capacity
  <2>1. UNCHANGED <<errorVars, refused>> /\ Appending(count)
    BY <1>1, <1>5, AppendOutcome
  <2>2. CountsKept'
    <3>1. m_index' = Len(appended') /\ Len(appended') <= Capacity
      BY <1>1, <1>2, <1>5, <2>1 DEF Appending
    <3>2. ASSUME NEW i \in 0 .. m_index' - 1 PROVE m_counters'[i] = appended'[i + 1]
      <4>1. i \in 0 .. Capacity - 1 /\ (i \in 0 .. m_index - 1 \/ i = m_index)
        BY <1>1, <1>5, <2>1 DEF Appending
      <4>2. CASE i = m_index
        BY <1>1, <1>2, <2>1, <4>1, <4>2 DEF Appending
      <4>3. CASE i \in 0 .. m_index - 1
        <5>1. m_counters'[i] = m_counters[i] /\ i + 1 \in 1 .. Len(appended)
          BY <1>1, <2>1, <4>1, <4>3 DEF Appending
        <5>2. m_counters[i] = appended[i + 1]
          BY <1>1, <1>5, <4>3 DEF IInv, CountsKept
        <5>3. QED BY <1>2, <5>1, <5>2
      <4>4. QED BY <4>1, <4>2, <4>3
    <3>3. QED BY <3>1, <3>2 DEF CountsKept
  <2>3. ReadsReturnAppended'
    <3> SUFFICES ASSUME ~raised, answer.valid
                 PROVE  answer.index < Len(appended') /\ answer.value = appended'[answer.index + 1]
      BY <1>1, <2>1 DEF ReadsReturnAppended, errorVars
    <3>1. /\ answer.index \in Nat /\ answer.index < Len(appended)
          /\ answer.value = appended[answer.index + 1]
      BY DEF IInv, TypeOK, ReadsReturnAppended
    <3>2. QED BY <1>1, <1>2, <3>1
  <2>4. ErrorsAreExact' /\ RefusalsAreExact'
    BY <1>1, <1>2, <1>5, <2>1 DEF IInv, ErrorsAreExact, RefusalsAreExact, errorVars
  <2>5. QED BY <1>4, <2>2, <2>3, <2>4 DEF IInv
<1>6. CASE Len(appended) >= Capacity
  <2>1. raised' /\ refused' /\ status' # "running" /\ Len(appended') > Capacity
    BY <1>1, <1>2, <1>6, AppendOutcome
  <2>2. CountsKept' /\ ReadsReturnAppended' /\ ErrorsAreExact' /\ RefusalsAreExact'
    BY <1>1, <1>2, <2>1 DEF CountsKept, ReadsReturnAppended, ErrorsAreExact, RefusalsAreExact
  <2>3. QED BY <1>4, <2>2 DEF IInv
<1>7. QED BY <1>1, <1>5, <1>6

(* A read of a cell below m_index answers what was appended there; any other*)
(* is an error.                                                            *)
LEMMA ReadIInv == ASSUME IInv, NEW i \in 0 .. MaxIndex, read(i) PROVE IInv'
<1>1. /\ status = "running" /\ Asserted(ReadAssert(i), i)
      /\ answer' = IF status' = "running"
                   THEN [index |-> i, value |-> m_counters[i], valid |-> TRUE] ELSE NoAnswer
      /\ misread' = (misread \/ i >= Len(appended))
      /\ UNCHANGED <<m_counters, m_index, appended, refused>>
  BY DEF read
<1>2. /\ ErrorTypeOK /\ Len(appended) \in Nat /\ Len(appended) <= Capacity /\ m_index = Len(appended)
      /\ Capacity \in Nat /\ i \in Nat
  BY <1>1, LenProperties DEF IInv, TypeOK, CountsKept
<1>3. (InVector(i) <=> i < Capacity) /\ (ReadAssert(i) <=> i < Len(appended))
  BY <1>2 DEF IInv, TypeOK, InVector, ReadAssert
<1>4. /\ ErrorTypeOK'
      /\ i < Len(appended) => UNCHANGED errorVars
      /\ ~(i < Len(appended)) => raised' /\ (status' = "running" => i < Capacity)
  <2>1. ReadAssert(i) \in BOOLEAN
    BY DEF ReadAssert
  <2>2. ReadAssert(i) => InVector(i)
    BY <1>2, <1>3
  <2>3. /\ ErrorTypeOK'
        /\ ReadAssert(i) => UNCHANGED errorVars
        /\ ~ReadAssert(i) => raised' /\ (status' = "running" => InVector(i) /\ status = "running")
    BY <1>1, <1>2, <2>1, <2>2, AssertedOutcome
  <2>4. QED BY <1>3, <2>3
<1>5. status' = "running" => m_counters[i] \in Values \cup {Zero}
  <2>1. status' = "running" => i \in 0 .. Capacity - 1
    BY <1>2, <1>4
  <2>2. QED BY <2>1 DEF IInv, TypeOK
<1>6. misread' \in BOOLEAN /\ (misread' <=> misread \/ ~(i < Len(appended)))
  <2>1. i >= Len(appended) <=> ~(i < Len(appended))
    BY <1>2
  <2>2. misread \in BOOLEAN
    BY DEF IInv, TypeOK
  <2>3. QED BY <1>1, <2>1, <2>2, Zenon
<1>7. answer' \in [index : Nat, value : Values \cup {Zero}, valid : BOOLEAN]
  BY <1>1, <1>2, <1>5 DEF NoAnswer
<1>8. TypeOK'
  BY <1>1, <1>4, <1>6, <1>7 DEF IInv, TypeOK
<1>9. CountsKept' /\ RefusalsAreExact'
  BY <1>1, <1>2 DEF IInv, CountsKept, RefusalsAreExact
<1>10. ReadsReturnAppended'
  <2> SUFFICES ASSUME ~raised', answer'.valid
               PROVE  answer'.index < Len(appended) /\ answer'.value = appended[answer'.index + 1]
    BY <1>1 DEF ReadsReturnAppended
  <2>1. i < Len(appended) /\ i \in 0 .. m_index - 1
    BY <1>2, <1>4
  <2>2. answer'.index = i /\ answer'.value = m_counters[i]
    BY <1>1 DEF NoAnswer
  <2>3. m_counters[i] = appended[i + 1]
    BY <1>2, <2>1 DEF IInv, CountsKept
  <2>4. QED BY <2>1, <2>2, <2>3
<1>11. ErrorsAreExact'
  <2>1. raised' <=> raised \/ ~(i < Len(appended))
    BY <1>4 DEF errorVars
  <2>2. QED BY <1>1, <1>2, <1>6, <2>1 DEF IInv, ErrorsAreExact
<1>12. QED BY <1>8, <1>9, <1>10, <1>11 DEF IInv

(* Every step keeps the invariant.                                         *)
LEMMA NextIInv == IInv /\ [Next]_vars => IInv'
<1> SUFFICES ASSUME IInv, [Next]_vars PROVE IInv'
  OBVIOUS
<1>1. CASE InstallHandler
  <2>1. /\ UNCHANGED <<m_counters, m_index, appended, refused, misread, answer, status, raised>>
        /\ ErrorTypeOK'
    BY <1>1 DEF InstallHandler, setDefaultErrorHandler, resetDefaultErrorHandler, ErrorTypeOK,
                IInv, TypeOK
  <2>2. QED BY <2>1 DEF IInv, TypeOK, CountsKept, ReadsReturnAppended, ErrorsAreExact,
                         RefusalsAreExact
<1>2. CASE UNCHANGED vars
  BY <1>2 DEF vars, errorVars, IInv, TypeOK, ErrorTypeOK, CountsKept, ReadsReturnAppended,
              ErrorsAreExact, RefusalsAreExact
<1>3. QED BY <1>1, <1>2, AppendIInv, ReadIInv DEF Next

(* So the invariant holds in every reachable state.                        *)
LEMMA Inductive == Spec => []IInv
<1>1. QED BY InitIInv, NextIInv, PTL DEF Spec

-----------------------------------------------------------------------------
(* The theorems.                                                           *)

(* The vector keeps its size whatever is appended, and every read that     *)
(* returns has a value.                                                    *)
THEOREM TypeCorrect == Spec => []TypeOK
<1>1. IInv => TypeOK
  BY DEF IInv
<1>2. QED BY <1>1, Inductive, PTL

(* A read without an error returns the count appended at its index, for as *)
(* long as no error is reported.                                           *)
THEOREM ReadsCorrect == Spec => []ReadsReturnAppended
<1>1. IInv => ReadsReturnAppended
  BY DEF IInv
<1>2. QED BY <1>1, Inductive, PTL

(* The asserts of append and operator[] report every misuse and no other   *)
(* call.                                                                   *)
THEOREM ErrorsExact == Spec => []ErrorsAreExact
<1>1. IInv => ErrorsAreExact
  BY DEF IInv
<1>2. QED BY <1>1, Inductive, PTL

-----------------------------------------------------------------------------
(* The store implements a bounded log of counts.                           *)

Log == IF refused THEN <<>> ELSE Kept

(* What is kept is what was appended, until the append too many.           *)
LEMMA LogIsAppended == IInv => Log = IF refused THEN <<>> ELSE appended
<1> SUFFICES ASSUME IInv, ~refused
             PROVE  Kept = appended
  BY DEF Log
<1>1. /\ appended \in Seq(Values) /\ Len(appended) \in Nat /\ Capacity \in Nat
      /\ Len(appended) <= Capacity
  BY LenProperties DEF IInv, TypeOK, RefusalsAreExact
<1>2. m_index = Len(appended) /\ \A i \in 0 .. m_index - 1 : m_counters[i] = appended[i + 1]
  BY <1>1 DEF IInv, CountsKept
<1>3. \A n \in 1 .. m_index : InVector(n - 1) /\ m_counters[n - 1] = appended[n]
  <2>1. ASSUME NEW n \in 1 .. m_index PROVE InVector(n - 1) /\ m_counters[n - 1] = appended[n]
    <3>1. n - 1 \in 0 .. m_index - 1 /\ (n - 1) + 1 = n /\ n - 1 \in 0 .. Capacity - 1
      BY <1>1, <1>2
    <3>2. QED BY <1>2, <3>1 DEF IInv, TypeOK, InVector
  <2>2. QED BY <2>1
<1>4. appended = [n \in 1 .. m_index |-> appended[n]]
  BY <1>1, <1>2
<1>5. QED BY <1>3, <1>4 DEF Kept

(* An append is a Record or the Overrun; nothing else concerns the log.    *)
LEMMA LogStep == IInv /\ [Next]_vars => [CountLog!Next]_(CountLog!vars)
<1> SUFFICES ASSUME IInv, [Next]_vars PROVE [CountLog!Next]_(CountLog!vars)
  OBVIOUS
<1>1. /\ Len(appended) \in Nat /\ Capacity \in Nat /\ appended \in Seq(Values)
      /\ refused \in BOOLEAN /\ (refused <=> Len(appended) > Capacity)
      /\ Log = IF refused THEN <<>> ELSE appended
      /\ Log' = IF refused' THEN <<>> ELSE appended'
  <2>1. IInv'
    BY NextIInv
  <2>2. (IInv => Log = IF refused THEN <<>> ELSE appended)'
    BY LogIsAppended, PTL
  <2>3. QED BY <2>1, <2>2, LogIsAppended, LenProperties DEF IInv, TypeOK, RefusalsAreExact
<1>2. ASSUME NEW count \in Values, append(count) PROVE CountLog!Next
  <2>1. /\ appended' = Append(appended, count) /\ Len(appended') = Len(appended) + 1
        /\ Len(appended) <= Capacity /\ refused = FALSE
    BY <1>1, <1>2, AppendOutcome, AppendProperties
  <2>2. CASE Len(appended) < Capacity
    <3>1. refused' = refused
      BY <1>1, <1>2, <2>2, AppendOutcome
    <3>2. Log = appended /\ Log' = Append(Log, count) /\ Len(Log) < Capacity
      BY <1>1, <2>1, <2>2, <3>1
    <3>3. CountLog!Record
      BY <2>1, <3>1, <3>2 DEF CountLog!Record, Log
    <3>4. QED BY <3>3 DEF CountLog!Next
  <2>3. CASE Len(appended) = Capacity
    <3>1. Log = appended /\ refused'
      BY <1>1, <1>2, <2>1, <2>3, AppendOutcome
    <3>2. CountLog!Overrun
      BY <2>1, <2>3, <3>1 DEF CountLog!Overrun, Log
    <3>3. QED BY <3>2 DEF CountLog!Next
  <2>4. QED BY <1>1, <2>1, <2>2, <2>3
<1>3. CASE UNCHANGED <<m_counters, m_index, appended, refused>>
  <2>1. Log' = Log
    BY <1>1, <1>3
  <2>2. QED BY <1>3, <2>1 DEF CountLog!vars, Log
<1>4. QED
  <2>1. (\E count \in Values : append(count)) \/ UNCHANGED <<m_counters, m_index, appended, refused>>
    BY DEF Next, read, InstallHandler, vars
  <2>2. QED BY <1>2, <1>3, <2>1

(* The store keeps a bounded log: every count appended is kept in order,   *)
(* and append reports the first one too many, whatever is read meanwhile.  *)
THEOREM Refinement == Spec => ImplementsSampleLog
<1>1. Init => CountLog!Init
  <2> SUFFICES ASSUME Init PROVE CountLog!Init
    OBVIOUS
  <2>1. m_index = 0 /\ refused = FALSE
    BY DEF Init
  <2>2. Log = <<>>
    BY <2>1 DEF Log, Kept
  <2>3. QED BY <2>1, <2>2 DEF CountLog!Init, Log
<1>2. QED
  BY <1>1, InitIInv, NextIInv, LogStep, PTL DEF Spec, ImplementsSampleLog, CountLog!Spec
=============================================================================
