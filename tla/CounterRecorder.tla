--------------------------- MODULE CounterRecorder ---------------------------
(***************************************************************************)
(* The class CounterRecorder (pcm_context.hpp, pcm_context.cpp): a table   *)
(* of measurements kept in two flat vectors, one row per measured          *)
(* operation.  A row holds the two common counters at m_index * 2 and the  *)
(* m_counterCount chosen events at m_index * m_counterCount.               *)
(*                                                                         *)
(* The module defines the class as operators over one record, so that the  *)
(* specifications of a single recorder (CounterHandleRecorder) and of many *)
(* threads with a recorder each (MultithreadedBench) share it.             *)
(***************************************************************************)
EXTENDS Integers, Sequences

CONSTANTS
  OperationCount,  \* the constructor's operationCount
  LastRegister,    \* the constructor's counterCount, a CounterRegister: 0 .. 3
  Zero             \* a std::uint64_t the vector value-initialises

ASSUME RecorderAssumption == OperationCount \in Nat /\ LastRegister \in 0 .. 3

(* The columns of a measurement: the four CounterRegisters and the two     *)
(* common counters.                                                        *)
Registers == 0 .. 3
Instructions == 4
Cycles == 5
Columns == 0 .. 5

m_counterCount == LastRegister + 1
EventSize == OperationCount * m_counterCount
CommonSize == OperationCount * 2

NewRecorder ==
  [m_index        |-> 0,
   m_eventCounts  |-> [i \in 0 .. EventSize - 1 |-> Zero],
   m_commonCounts |-> [i \in 0 .. CommonSize - 1 |-> Zero]]

-----------------------------------------------------------------------------
(* recordCounter.  A state is what the handle's getters return: a function *)
(* from Columns to counts.  Its stores happen in the order 0 ..            *)
(* LastRegister for the chosen events, then the pair of common counters.   *)

Stores == 0 .. m_counterCount
IsEventStore(j) == j <= LastRegister

(* Mutant: rows as wide as the last register's number.                     *)
NarrowEventSlot(r, k) == r.m_index * LastRegister + k
EventSlot(r, k) == r.m_index * m_counterCount + k
CommonSlot(r) == r.m_index * 2

(* Mutants: a check off by one either way.                                 *)
LaxEventFits(r, k) == EventSlot(r, k) <= EventSize
StrictCommonFits(r) == (r.m_index + 1) * 2 < CommonSize

(* The check before a store: FATAL_ERROR is called when it fails.  For the *)
(* common counters it tests m_index, not the slot that is written.         *)
EventFits(r, k) == EventSlot(r, k) < EventSize
CommonFits(r) == r.m_index + 1 < CommonSize
Fits(r, j) == IF IsEventStore(j) THEN EventFits(r, j) ELSE CommonFits(r)

(* The store lands inside its vector.                                      *)
Inside(r, j) ==
  IF IsEventStore(j) THEN EventSlot(r, j) \in DOMAIN r.m_eventCounts
                     ELSE CommonSlot(r) + 1 \in DOMAIN r.m_commonCounts

RecordFails(r) == \E j \in Stores : ~Fits(r, j)
Strays(r, j) == Fits(r, j) /\ ~Inside(r, j)

(* A store outside its vector before any check failed, and at all.         *)
StraysUnreported(r) == \E j \in Stores : Strays(r, j) /\ \A i \in 0 .. j : Fits(r, i)
RecordStrays(r) == \E j \in Stores : Strays(r, j)

(* The recorder when every call of FATAL_ERROR returned, or none was made. *)
Recorded(r, state) ==
  [m_index |-> r.m_index + 1,
   m_eventCounts |->
     [i \in DOMAIN r.m_eventCounts |->
        LET k == i - EventSlot(r, 0)
        IN  IF k \in 0 .. LastRegister /\ EventFits(r, k)
            THEN state[k] ELSE r.m_eventCounts[i]],
   m_commonCounts |->
     [i \in DOMAIN r.m_commonCounts |->
        LET c == i - CommonSlot(r)
        IN  IF c \in 0 .. 1 /\ CommonFits(r)
            THEN state[Instructions + c] ELSE r.m_commonCounts[i]]]

(* Mutant: reset takes back one row only.                                  *)
StepBack(r) == [r EXCEPT !.m_index = @ - 1]

Reset(r) == [r EXCEPT !.m_index = 0]

-----------------------------------------------------------------------------
(* print: the rows below m_index.  A row is a function from its columns.   *)

RowColumns == 0 .. LastRegister \cup {Instructions, Cycles}

Row(r, i) ==
  [c \in RowColumns |->
     IF c \in Registers
     THEN r.m_eventCounts[i * m_counterCount + c]
     ELSE r.m_commonCounts[i * 2 + (c - Instructions)]]

Rows(r) == [n \in 1 .. r.m_index |-> Row(r, n - 1)]

(* print reads outside the vectors when more rows were counted than fit.   *)
PrintStrays(r) ==
  \E i \in 0 .. r.m_index - 1 :
    \/ i * m_counterCount + LastRegister \notin DOMAIN r.m_eventCounts
    \/ i * 2 + 1 \notin DOMAIN r.m_commonCounts

(* The part of a measurement a recorder keeps.                             *)
RowOf(state) == [c \in RowColumns |-> state[c]]

IsRecorder(r, Counts) ==
  /\ r = [m_index |-> r.m_index, m_eventCounts |-> r.m_eventCounts,
          m_commonCounts |-> r.m_commonCounts]
  /\ r.m_index \in Nat
  /\ r.m_eventCounts \in [0 .. EventSize - 1 -> Counts \cup {Zero}]
  /\ r.m_commonCounts \in [0 .. CommonSize - 1 -> Counts \cup {Zero}]
=============================================================================
