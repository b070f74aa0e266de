------------------------ MODULE CounterRecorderLemmas ------------------------
(***************************************************************************)
(* What recordCounter and print do to a well-formed recorder, for every    *)
(* number of operations and of counters.  With w = m_counterCount columns  *)
(* of events per row, row i occupies the slots i*w .. i*w + w - 1, and     *)
(* slots of different rows differ because w is between 1 and 4.            *)
(***************************************************************************)
EXTENDS CounterRecorder, TLAPS

(* A row has one to four event columns.                                    *)
LEMMA RowWidth == m_counterCount \in {1, 2, 3, 4} /\ m_counterCount = LastRegister + 1
BY RecorderAssumption DEF m_counterCount

(* The vectors' sizes are natural numbers.                                 *)
LEMMA Sizes == EventSize \in Nat /\ CommonSize \in Nat
BY RecorderAssumption, RowWidth DEF EventSize, CommonSize

(* While rows remain, every check of recordCounter passes and every store  *)
(* is inside its vector.                                                   *)
LEMMA RoomIsUsed ==
  ASSUME NEW C, NEW r, IsRecorder(r, C), r.m_index < OperationCount
  PROVE  ~RecordFails(r) /\ ~StraysUnreported(r) /\ ~RecordStrays(r)
<1> DEFINE w == m_counterCount
<1>1. r.m_index \in Nat /\ OperationCount \in Nat
  BY RecorderAssumption DEF IsRecorder
<1>2. DOMAIN r.m_eventCounts = 0 .. EventSize - 1 /\ DOMAIN r.m_commonCounts = 0 .. CommonSize - 1
  BY DEF IsRecorder
<1>3. ASSUME NEW j \in Stores PROVE Fits(r, j) /\ Inside(r, j)
  <2>1. CASE j <= LastRegister
    <3>1. j \in 0 .. w - 1 /\ r.m_index * w + j \in Nat
      BY <1>1, <2>1, RowWidth, RecorderAssumption DEF Stores
    <3>2. r.m_index * w + j < OperationCount * w
      BY <1>1, <3>1, RowWidth
    <3>3. QED
      BY <1>2, <2>1, <3>1, <3>2, Sizes
      DEF Fits, Inside, IsEventStore, EventFits, EventSlot, EventSize
  <2>2. CASE ~(j <= LastRegister)
    BY <1>1, <1>2, <2>2
    DEF Fits, Inside, IsEventStore, CommonFits, CommonSlot, CommonSize
  <2>3. QED BY <2>1, <2>2
<1>4. QED BY <1>3 DEF RecordFails, StraysUnreported, RecordStrays, Strays

(* When the table is full the very first check fails, so no store strays   *)
(* before an error was reported.                                           *)
LEMMA FullIsReported ==
  ASSUME NEW C, NEW r, IsRecorder(r, C), r.m_index >= OperationCount
  PROVE  RecordFails(r) /\ ~StraysUnreported(r)
<1> DEFINE w == m_counterCount
<1>1. r.m_index \in Nat /\ OperationCount \in Nat
  BY RecorderAssumption DEF IsRecorder
<1>2. 0 \in Stores /\ IsEventStore(0) /\ \A j \in Stores : 0 \in 0 .. j
  BY RowWidth, RecorderAssumption DEF Stores, IsEventStore
<1>3. ~Fits(r, 0)
  <2>1. ~(r.m_index * w + 0 < OperationCount * w)
    BY <1>1, RowWidth
  <2>2. QED BY <1>2, <2>1 DEF Fits, EventFits, EventSlot, EventSize
<1>4. QED BY <1>2, <1>3 DEF RecordFails, StraysUnreported

(* A recorded row leaves a well-formed recorder.                           *)
LEMMA RecordedTyped ==
  ASSUME NEW C, NEW r, IsRecorder(r, C), NEW state \in [Columns -> C]
  PROVE  IsRecorder(Recorded(r, state), C) /\ Recorded(r, state).m_index = r.m_index + 1
<1>1. ASSUME NEW i \in DOMAIN r.m_eventCounts, i - EventSlot(r, 0) \in 0 .. LastRegister
      PROVE  state[i - EventSlot(r, 0)] \in C
  BY <1>1, RecorderAssumption DEF Columns
<1>2. ASSUME NEW i \in DOMAIN r.m_commonCounts, i - CommonSlot(r) \in 0 .. 1
      PROVE  state[Instructions + (i - CommonSlot(r))] \in C
  BY <1>2 DEF Columns, Instructions
<1>3. Recorded(r, state).m_eventCounts \in [0 .. EventSize - 1 -> C \cup {Zero}]
  BY <1>1 DEF IsRecorder, Recorded
<1>4. Recorded(r, state).m_commonCounts \in [0 .. CommonSize - 1 -> C \cup {Zero}]
  BY <1>2 DEF IsRecorder, Recorded
<1>5. QED BY <1>3, <1>4 DEF IsRecorder, Recorded

(* recordCounter adds the row of its state and leaves the earlier rows.    *)
LEMMA RecordedAddsRow ==
  ASSUME NEW C, NEW r, IsRecorder(r, C), r.m_index < OperationCount,
         NEW state \in [Columns -> C]
  PROVE  /\ Row(Recorded(r, state), r.m_index) = RowOf(state)
         /\ \A i \in 0 .. r.m_index - 1 : Row(Recorded(r, state), i) = Row(r, i)
<1> DEFINE w == m_counterCount
           e == Recorded(r, state).m_eventCounts
           m == Recorded(r, state).m_commonCounts
           s == EventSlot(r, 0)
<1>1. r.m_index \in Nat /\ OperationCount \in Nat /\ LastRegister \in 0 .. 3
  BY RecorderAssumption DEF IsRecorder
<1>2. /\ DOMAIN r.m_eventCounts = 0 .. EventSize - 1
      /\ DOMAIN r.m_commonCounts = 0 .. CommonSize - 1
  BY DEF IsRecorder
<1>3. s = r.m_index * w /\ s \in Nat /\ s + w <= EventSize
  BY <1>1, RowWidth DEF EventSlot, EventSize
<1>4. \A k \in 0 .. LastRegister : EventFits(r, k)
  BY <1>1, <1>3, RowWidth DEF EventFits, EventSlot, EventSize
<1>5. CommonFits(r) /\ CommonSlot(r) = r.m_index * 2
  BY <1>1 DEF CommonFits, CommonSlot, CommonSize
<1>6. \A k \in 0 .. LastRegister : e[s + k] = state[k]
  <2>1. e = [i \in 0 .. EventSize - 1 |->
               IF i - s \in 0 .. LastRegister /\ EventFits(r, i - s)
               THEN state[i - s] ELSE r.m_eventCounts[i]]
    BY <1>2 DEF Recorded
  <2>2. ASSUME NEW k \in 0 .. LastRegister PROVE e[s + k] = state[k]
    <3>1. s + k \in 0 .. EventSize - 1 /\ (s + k) - s = k
      BY <1>1, <1>3, RowWidth, Sizes
    <3>2. QED BY <1>4, <2>1, <3>1
  <2>3. QED BY <2>2
<1>7. \A x \in 0 .. s - 1 : e[x] = r.m_eventCounts[x]
  BY <1>1, <1>2, <1>3, RowWidth, Sizes DEF Recorded
<1>8. \A c \in 0 .. 1 : m[r.m_index * 2 + c] = state[Instructions + c]
  <2>1. m = [i \in 0 .. CommonSize - 1 |->
               IF i - CommonSlot(r) \in 0 .. 1 /\ CommonFits(r)
               THEN state[Instructions + (i - CommonSlot(r))] ELSE r.m_commonCounts[i]]
    BY <1>2 DEF Recorded
  <2>2. ASSUME NEW c \in 0 .. 1
        PROVE  m[r.m_index * 2 + c] = state[Instructions + c]
    <3>1. /\ r.m_index * 2 + c \in 0 .. CommonSize - 1
          /\ (r.m_index * 2 + c) - CommonSlot(r) = c
      BY <1>1, <1>5 DEF CommonSize
    <3>2. QED BY <1>5, <2>1, <3>1
  <2>3. QED BY <2>2
<1>9. \A x \in 0 .. r.m_index * 2 - 1 : m[x] = r.m_commonCounts[x]
  BY <1>1, <1>2, <1>5 DEF Recorded, CommonSize
<1>10. Row(Recorded(r, state), r.m_index) = RowOf(state)
  <2>1. ASSUME NEW c \in RowColumns
        PROVE  (IF c \in Registers THEN e[r.m_index * w + c]
                                   ELSE m[r.m_index * 2 + (c - Instructions)]) = state[c]
    <3>1. CASE c \in 0 .. LastRegister
      BY <1>1, <1>3, <1>6, <3>1 DEF Registers
    <3>2. CASE c \in {Instructions, Cycles}
      BY <1>8, <3>2 DEF Registers, Instructions, Cycles
    <3>3. QED BY <3>1, <3>2 DEF RowColumns
  <2>2. QED BY <2>1 DEF Row, RowOf
<1>11. ASSUME NEW i \in 0 .. r.m_index - 1
       PROVE  Row(Recorded(r, state), i) = Row(r, i)
  <2>1. ASSUME NEW c \in RowColumns
        PROVE  (IF c \in Registers THEN e[i * w + c] ELSE m[i * 2 + (c - Instructions)])
               = (IF c \in Registers THEN r.m_eventCounts[i * w + c]
                                     ELSE r.m_commonCounts[i * 2 + (c - Instructions)])
    <3>1. CASE c \in 0 .. LastRegister
      <4>1. i * w + c \in 0 .. s - 1
        BY <1>1, <1>3, <3>1, RowWidth
      <4>2. QED BY <1>1, <1>7, <3>1, <4>1 DEF Registers
    <3>2. CASE c \in {Instructions, Cycles}
      <4>1. i * 2 + (c - Instructions) \in 0 .. r.m_index * 2 - 1
        BY <1>1, <3>2 DEF Instructions, Cycles
      <4>2. QED BY <1>9, <3>2, <4>1 DEF Registers, Instructions, Cycles
    <3>3. QED BY <3>1, <3>2 DEF RowColumns
  <2>2. QED BY <2>1 DEF Row
<1>12. QED BY <1>10, <1>11

(* print stays inside the vectors while no row is counted that did not fit. *)
LEMMA PrintIsInside ==
  ASSUME NEW C, NEW r, IsRecorder(r, C), r.m_index <= OperationCount
  PROVE  ~PrintStrays(r)
<1> SUFFICES ASSUME NEW i \in 0 .. r.m_index - 1
             PROVE  /\ i * m_counterCount + LastRegister \in DOMAIN r.m_eventCounts
                    /\ i * 2 + 1 \in DOMAIN r.m_commonCounts
  BY DEF PrintStrays
<1>1. r.m_index \in Nat /\ OperationCount \in Nat /\ i \in Nat /\ i < OperationCount
  BY RecorderAssumption DEF IsRecorder
<1>2. /\ i * m_counterCount + LastRegister \in Nat
      /\ i * m_counterCount + LastRegister < OperationCount * m_counterCount
  BY <1>1, RowWidth, RecorderAssumption
<1>3. i * 2 + 1 \in Nat /\ i * 2 + 1 < OperationCount * 2
  BY <1>1
<1>4. QED BY <1>2, <1>3, Sizes DEF IsRecorder, EventSize, CommonSize
=============================================================================
