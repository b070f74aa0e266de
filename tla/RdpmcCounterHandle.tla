-------------------------- MODULE RdpmcCounterHandle --------------------------
(***************************************************************************)
(* The class RDPMCCountersHandle (rdmpc_counter_handle.hpp): it reads six  *)
(* counters one after another with the rdpmc instruction, on the core its  *)
(* thread runs on, and subtracts 64-bit values.  The counters are narrower *)
(* than that and wrap.  Events go on between the reads, and the scheduler  *)
(* may move the thread.  All counters of a core count the same events.     *)
(***************************************************************************)
EXTENDS Integers

CONSTANTS
  Cores,          \* the cores the thread may run on
  LastRegister,   \* the last of the chosen events: 3 (FOUR)
  HalfModulus,    \* EAX holds values below 2 ^ 32
  CounterModulus, \* a counter values below 2 ^ 40 or 2 ^ 48
  WordModulus,    \* a std::uint64_t values below 2 ^ 64
  MaxCount        \* bound: no core counts further

(* All that matters of the powers of two is that the counter's divides the *)
(* word's.  The bound leaves room for every value a counter can show.      *)
ASSUME WidthAssumption ==
  /\ {HalfModulus, CounterModulus, WordModulus} \subseteq Nat \ {0}
  /\ WordModulus % CounterModulus = 0
  /\ LastRegister \in Nat
  /\ MaxCount \in Nat /\ CounterModulus - 1 <= MaxCount

(* The counters in the order they are read: the instructions, the cycles   *)
(* and the chosen events.                                                  *)
Last == LastRegister + 2
Columns == 0 .. Last

VARIABLES
  count,    \* per core: the events since its counters were zero; they show it modulo their width
  at,       \* the core the thread runs on
  reads,    \* the rdpmc's of this measurement so far, first those of onStart
  m_startState, m_endState,
  done,     \* onEnd has returned
  startAt, endAt,  \* history, per column: the count when it was read
  moved     \* history: the thread has moved since onStart

vars == <<count, at, reads, m_startState, m_endState, done, startAt, endAt, moved>>

Zeros == [c \in Columns |-> 0]

Init ==
  /\ count \in [Cores -> 0 .. CounterModulus - 1]
  /\ at \in Cores
  /\ reads = 0 /\ done = FALSE /\ moved = FALSE
  /\ m_startState = Zeros /\ m_endState = Zeros
  /\ startAt = Zeros /\ endAt = Zeros

Register == count[at] % CounterModulus

(* Mutants: the high half is not shifted, or shifted by a bit too many.    *)
Unshifted == LET a == Register % HalfModulus
                 d == Register \div HalfModulus
             IN  (a + d) % WordModulus
Overshifted == LET a == Register % HalfModulus
                   d == Register \div HalfModulus
               IN  (a + d * (2 * HalfModulus)) % WordModulus

(* The low half of the counter is in EAX, the rest in EDX.                 *)
RDPMC == LET a == Register % HalfModulus
             d == Register \div HalfModulus
         IN  (a + d * HalfModulus) % WordModulus

column == reads % (Last + 1)

onStart ==
  /\ reads <= Last
  /\ reads' = reads + 1
  /\ m_startState' = [m_startState EXCEPT ![column] = RDPMC]
  /\ startAt' = [startAt EXCEPT ![column] = count[at]]
  /\ done' = FALSE /\ moved' = (moved /\ reads # 0)
  /\ UNCHANGED <<count, at, m_endState, endAt>>

onEnd ==
  /\ reads > Last
  /\ reads' = (reads + 1) % (2 * Last + 2)
  /\ m_endState' = [m_endState EXCEPT ![column] = RDPMC]
  /\ endAt' = [endAt EXCEPT ![column] = count[at]]
  /\ done' = (reads = 2 * Last + 1)
  /\ UNCHANGED <<count, at, m_startState, startAt, moved>>

(* Something counts on the thread's core.  What other cores count is not   *)
(* seen: their counters were at any value to begin with.                   *)
Event ==
  /\ count[at] < MaxCount
  /\ count' = [count EXCEPT ![at] = @ + 1]
  /\ UNCHANGED <<at, reads, m_startState, m_endState, done, startAt, endAt, moved>>

Migrate ==
  /\ \E c \in Cores \ {at} : at' = c
  /\ moved' = TRUE
  /\ UNCHANGED <<count, reads, m_startState, m_endState, done, startAt, endAt>>

Next == onStart \/ onEnd \/ Event \/ Migrate

Spec == Init /\ [][Next]_vars
-----------------------------------------------------------------------------
(* Mutant: the operands are swapped.                                       *)
Swapped(c) == (m_startState[c] - m_endState[c]) % WordModulus

(* getExecutedInstructions, getExecutedCycles and getEventCounts: unsigned *)
(* subtraction.                                                            *)
getCounts(c) == (m_endState[c] - m_startState[c]) % WordModulus

(* Type invariant of the handle and the counters it reads: no read answers *)
(* more than the width of a counter.                                       *)
TypeOK ==
  /\ count \in [Cores -> 0 .. MaxCount]
  /\ at \in Cores
  /\ reads \in 0 .. 2 * Last + 1
  /\ m_startState \in [Columns -> 0 .. CounterModulus - 1]
  /\ m_endState \in [Columns -> 0 .. CounterModulus - 1]
  /\ done \in BOOLEAN /\ moved \in BOOLEAN
  /\ startAt \in [Columns -> 0 .. MaxCount] /\ endAt \in [Columns -> 0 .. MaxCount]

(* The answers are about one core only when the thread has not moved.      *)
Valid == done /\ ~moved

Measured(c) == endAt[c] - startAt[c]
Wraps(c) == (endAt[c] \div CounterModulus) - (startAt[c] \div CounterModulus)

(* The answer for a counter is the number of its events, less the width of *)
(* the counter for each wrap between its two reads: the 64-bit difference  *)
(* is huge then, and its low bits are still right.                         *)
CountsAreExactModuloWraps ==
  Valid => \A c \in Columns :
    /\ getCounts(c) = (Measured(c) - Wraps(c) * CounterModulus) % WordModulus
    /\ getCounts(c) % CounterModulus = Measured(c) % CounterModulus

(* Every column covers the measured operation, the counters read last in   *)
(* onStart and first in onEnd as well, and nothing before or after the two *)
(* calls, although no two columns are read at the same time.               *)
ColumnsBracketTheOperation ==
  Valid => \A c \in Columns : Wraps(c) = 0 =>
    /\ endAt[0] - startAt[Last] <= getCounts(c)
    /\ getCounts(c) <= endAt[Last] - startAt[0]
=============================================================================
