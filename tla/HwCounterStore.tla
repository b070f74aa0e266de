--------------------------- MODULE HwCounterStore ---------------------------
(***************************************************************************)
(* The class HwCounterStore (hw_counters_store.hpp, .cpp): a vector of     *)
(* fixed size filled by append and read by index.  Both operations ASSERT  *)
(* their index first; with a handler that returns they go on regardless.   *)
(***************************************************************************)
EXTENDS Integers, Sequences, FatalError

CONSTANTS
  Capacity,  \* the constructor's capacity
  Values,    \* the counts that are appended
  Zero,      \* a std::uint64_t the vector value-initialises
  MaxIndex   \* bound: operator[] is asked for 0 .. MaxIndex, append while m_index < MaxIndex

ASSUME StoreAssumption == Capacity \in Nat /\ MaxIndex \in Nat /\ Capacity <= MaxIndex

VARIABLES
  m_counters,  \* the vector, indexed from 0
  m_index,     \* the number of counts appended
  appended,    \* history: the counts handed to append
  refused,     \* history: an append has reported an error
  misread,     \* history: an index was read that had not been appended
  answer       \* the last read: its index and the value it returned

vars == <<m_counters, m_index, appended, refused, misread, answer, errorVars>>

NoAnswer == [index |-> 0, value |-> Zero, valid |-> FALSE]

Init ==
  /\ m_counters = [i \in 0 .. Capacity - 1 |-> Zero]
  /\ m_index = 0
  /\ appended = <<>>
  /\ refused = FALSE /\ misread = FALSE
  /\ answer = NoAnswer
  /\ programmed = TRUE
  /\ ErrorInit

InVector(i) == i \in DOMAIN m_counters

(* Mutants: a count, or a read, may be one past the last.                  *)
LaxAppendAssert == m_index <= Capacity
LaxReadAssert(i) == i <= m_index

(* The asserted conditions of append and of operator[].                    *)
AppendAssert == m_index < Capacity
ReadAssert(i) == i < m_index

(* ASSERT(holds, ...) in front of an access to cell i.                     *)
Asserted(holds, i) ==
  IF holds
  THEN /\ status' = IF InVector(i) THEN status ELSE "undefined"
       /\ UNCHANGED <<handler, programmed, raised>>
  ELSE handleFatalError(IF InVector(i) THEN status ELSE "undefined")

(* Mutants: ++m_index for m_index++, and push_back on the sized vector.    *)
PreIncrement(count) ==
  /\ m_counters' = [i \in DOMAIN m_counters |-> IF i = m_index + 1 THEN count ELSE m_counters[i]]
  /\ m_index' = m_index + 1
PushBack(count) ==
  /\ m_counters' = [i \in 0 .. Capacity + m_index |-> IF InVector(i) THEN m_counters[i] ELSE count]
  /\ m_index' = m_index + 1

Appending(count) ==
  /\ m_counters' = [i \in DOMAIN m_counters |-> IF i = m_index THEN count ELSE m_counters[i]]
  /\ m_index' = m_index + 1

append(count) ==
  /\ status = "running"
  /\ m_index < MaxIndex
  /\ Asserted(AppendAssert, m_index)
  /\ refused' = (refused \/ (~AppendAssert /\ raised'))
  /\ IF status' = "terminated" THEN UNCHANGED <<m_counters, m_index>> ELSE Appending(count)
  /\ appended' = Append(appended, count)
  /\ UNCHANGED <<misread, answer>>

read(i) ==
  /\ status = "running"
  /\ Asserted(ReadAssert(i), i)
  /\ answer' = IF status' = "running"
               THEN [index |-> i, value |-> m_counters[i], valid |-> TRUE]
               ELSE NoAnswer
  /\ misread' = (misread \/ i >= Len(appended))
  /\ UNCHANGED <<m_counters, m_index, appended, refused>>

InstallHandler ==
  /\ status = "running"
  /\ setDefaultErrorHandler \/ resetDefaultErrorHandler
  /\ UNCHANGED <<m_counters, m_index, appended, refused, misread, answer>>

Next ==
  \/ \E count \in Values : append(count)
  \/ \E i \in 0 .. MaxIndex : read(i)
  \/ InstallHandler

Spec == Init /\ [][Next]_vars
-----------------------------------------------------------------------------
(* Type invariant of the store.                                            *)
TypeOK ==
  /\ m_counters \in [0 .. Capacity - 1 -> Values \cup {Zero}]
  /\ m_index \in 0 .. MaxIndex
  /\ appended \in Seq(Values)
  /\ refused \in BOOLEAN /\ misread \in BOOLEAN
  /\ answer \in [index : Nat, value : Values \cup {Zero}, valid : BOOLEAN]
  /\ ErrorTypeOK

(* A read that reported no error returned the count appended at its index, *)
(* and a later append does not change what it said.                        *)
ReadsReturnAppended ==
  ~raised /\ answer.valid =>
    /\ answer.index < Len(appended)
    /\ answer.value = appended[answer.index + 1]

(* An error is reported exactly when the store was handed more than its   *)
(* capacity or asked for an index nobody appended: the two asserts neither *)
(* miss a misuse nor refuse a legal call.                                  *)
ErrorsAreExact == raised <=> Len(appended) > Capacity \/ misread

(* The cells below m_index; one outside the vector has no count.           *)
Kept == [n \in 1 .. m_index |-> IF InVector(n - 1) THEN m_counters[n - 1] ELSE Zero]

(* The store is a bounded log of counts, whatever is read from it, and the *)
(* assert of append reports the overrun: without it the vector would be    *)
(* left unreported.                                                        *)
CountLog == INSTANCE SampleLog WITH
  Samples <- Values,
  log <- IF refused THEN <<>> ELSE Kept,
  overrun <- refused

ImplementsSampleLog == CountLog!Spec
=============================================================================
