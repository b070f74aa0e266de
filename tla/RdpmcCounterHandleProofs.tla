----------------------- MODULE RdpmcCounterHandleProofs -----------------------
(***************************************************************************)
(* What RdpmcCounterHandle answers for counters of any width and any       *)
(* number of chosen events.  The first part is the arithmetic of values    *)
(* that are split, put together and subtracted modulo a width; the second  *)
(* the order in which the columns are read.                                *)
(***************************************************************************)
EXTENDS RdpmcCounterHandle, TLAPS

(* Division with remainder.                                                *)
LEMMA Division ==
  ASSUME NEW a \in Int, NEW n \in Nat \ {0}
  PROVE  /\ a \div n \in Int /\ a % n \in 0 .. n - 1
         /\ a = (a \div n) * n + (a % n)
OBVIOUS

(* The remainder is the only one.                                          *)
LEMMA OneRemainder ==
  ASSUME NEW a \in Int, NEW n \in Nat \ {0}, NEW q \in Int, NEW r \in 0 .. n - 1, a = q * n + r
  PROVE  a % n = r
<1> DEFINE p == a \div n
           s == a % n
<1>1. p \in Int /\ s \in 0 .. n - 1 /\ a = p * n + s
  BY Division
<1> HIDE DEF p, s
<1>2. (p - q) * n = r - s
  BY <1>1
<1>3. p - q < 1
  <2>1. SUFFICES ASSUME p - q >= 1 PROVE FALSE
    BY <1>1
  <2>2. (p - q) * n >= n
    BY <1>1, <2>1
  <2>3. QED BY <1>1, <1>2, <2>2
<1>4. p - q > -1
  <2>1. SUFFICES ASSUME p - q <= -1 PROVE FALSE
    BY <1>1
  <2>2. (p - q) * n <= -n
    BY <1>1, <2>1
  <2>3. QED BY <1>1, <1>2, <2>2
<1>5. p = q
  BY <1>1, <1>3, <1>4
<1>6. s = r
  BY <1>1, <1>5
<1>7. QED BY <1>6 DEF s

(* Multiples of n do not change a remainder of n.                          *)
LEMMA SameRemainder ==
  ASSUME NEW a \in Int, NEW n \in Nat \ {0}, NEW k \in Int
  PROVE  (a - k * n) % n = a % n
<1> DEFINE q == a \div n
           r == a % n
<1>1. q \in Int /\ r \in 0 .. n - 1 /\ a = q * n + r
  BY Division
<1> HIDE DEF q, r
<1>2. a - k * n \in Int /\ q - k \in Int /\ a - k * n = (q - k) * n + r
  BY <1>1
<1>3. (a - k * n) % n = r
  BY <1>1, <1>2, OneRemainder
<1>4. QED BY <1>3 DEF r

(* The moduli; a remainder of the word's has the remainder of a counter's. *)
LEMMA Moduli ==
  /\ HalfModulus \in Nat \ {0} /\ CounterModulus \in Nat \ {0} /\ WordModulus \in Nat \ {0}
  /\ CounterModulus <= WordModulus
  /\ \A a \in Int : (a % WordModulus) % CounterModulus = a % CounterModulus
<1> DEFINE C == CounterModulus
           W == WordModulus
           k == W \div C
<1>1. HalfModulus \in Nat \ {0} /\ C \in Nat \ {0} /\ W \in Nat \ {0} /\ W % C = 0
  BY WidthAssumption
<1>2. k \in Int /\ W = k * C
  BY <1>1, Division
<1> HIDE DEF C, W, k
<1>3. C <= W
  <2>1. k >= 1
    <3>1. SUFFICES ASSUME k <= 0 PROVE FALSE
      BY <1>2
    <3>2. k * C <= 0
      BY <1>1, <1>2, <3>1
    <3>3. QED BY <1>1, <1>2, <3>2
  <2>2. k * C >= C
    BY <1>1, <1>2, <2>1
  <2>3. QED BY <1>1, <1>2, <2>2
<1>4. ASSUME NEW a \in Int PROVE (a % W) % C = a % C
  <2> DEFINE q == a \div W
             r == a % W
  <2>1. q \in Int /\ r \in Int /\ a = q * W + r
    BY <1>1, Division
  <2> HIDE DEF q, r
  <2>2. q * k \in Int /\ a = r + (q * k) * C
    BY <1>1, <1>2, <2>1
  <2>3. a % C = r % C
    <3> DEFINE m == q * k
    <3>1. m \in Int /\ a = r + m * C
      BY <2>2
    <3> HIDE DEF m
    <3>2. m * C \in Int
      BY <1>1, <3>1
    <3>3. r = a - m * C
      BY <2>1, <3>1, <3>2
    <3>4. (a - m * C) % C = a % C
      BY <1>1, <2>1, <3>1, SameRemainder
    <3>5. QED BY <3>3, <3>4
  <2>4. QED BY <2>3 DEF r
<1>5. QED BY <1>1, <1>3, <1>4 DEF C, W

(* Splitting a register into its halves and joining them loses nothing.    *)
LEMMA WholeRegister ==
  ASSUME count[at] \in Nat
  PROVE  RDPMC = count[at] % CounterModulus /\ RDPMC \in 0 .. CounterModulus - 1
<1> DEFINE v == count[at] % CounterModulus
<1>1. v \in 0 .. CounterModulus - 1 /\ Register = v
  <2>1. count[at] \in Int /\ CounterModulus \in Nat \ {0}
    BY Moduli
  <2>2. v \in 0 .. CounterModulus - 1
    BY <2>1, Division
  <2>3. QED BY <2>2 DEF Register
<1> HIDE DEF v
<1>2. (v % HalfModulus) + (v \div HalfModulus) * HalfModulus = v
  <2>1. v \in Int /\ HalfModulus \in Nat \ {0} /\ CounterModulus \in Nat
    BY <1>1, Moduli
  <2>2. /\ v \div HalfModulus \in Int /\ v % HalfModulus \in Int
        /\ v = (v \div HalfModulus) * HalfModulus + (v % HalfModulus)
    BY <2>1, Division
  <2>3. QED BY <2>1, <2>2
<1>3. v \in 0 .. WordModulus - 1 /\ v = 0 * WordModulus + v
  BY <1>1, Moduli
<1>4. v % WordModulus = v
  <2>1. v \in Int /\ WordModulus \in Nat \ {0}
    BY <1>3, Moduli
  <2>2. QED BY <1>3, <2>1, OneRemainder
<1>5. RDPMC = v
  BY <1>1, <1>2, <1>4 DEF RDPMC
<1>6. QED BY <1>1, <1>5 DEF v

(* The column a read belongs to, in onStart and in onEnd.                  *)
LEMMA ColumnRead ==
  ASSUME reads \in 0 .. 2 * Last + 1
  PROVE  /\ Last \in Nat /\ column \in Columns
         /\ reads <= Last => column = reads
         /\ reads > Last => column = reads - (Last + 1)
<1>1. Last \in Nat
  BY WidthAssumption DEF Last
<1>2. CASE reads <= Last
  <2>1. reads = 0 * (Last + 1) + reads /\ reads \in 0 .. (Last + 1) - 1
    BY <1>1, <1>2
  <2>2. reads % (Last + 1) = reads
    BY <1>1, <2>1, OneRemainder
  <2>3. QED BY <1>1, <1>2, <2>2 DEF column, Columns
<1>3. CASE reads > Last
  <2>1. reads = 1 * (Last + 1) + (reads - (Last + 1)) /\ reads - (Last + 1) \in 0 .. (Last + 1) - 1
    BY <1>1, <1>3
  <2>2. reads % (Last + 1) = reads - (Last + 1)
    BY <1>1, <2>1, OneRemainder
  <2>3. QED BY <1>1, <1>3, <2>2 DEF column, Columns
<1>4. QED BY <1>1, <1>2, <1>3

(* The index after the last read of onEnd is the first of onStart.         *)
LEMMA NextRead ==
  ASSUME reads \in 0 .. 2 * Last + 1
  PROVE  (reads + 1) % (2 * Last + 2) = IF reads = 2 * Last + 1 THEN 0 ELSE reads + 1
<1>1. Last \in Nat
  BY ColumnRead
<1>2. CASE reads = 2 * Last + 1
  <2>1. reads + 1 = 1 * (2 * Last + 2) + 0 /\ 0 \in 0 .. (2 * Last + 2) - 1
    BY <1>1, <1>2
  <2>2. QED BY <1>1, <1>2, <2>1, OneRemainder
<1>3. CASE reads # 2 * Last + 1
  <2>1. reads + 1 = 0 * (2 * Last + 2) + (reads + 1) /\ reads + 1 \in 0 .. (2 * Last + 2) - 1
    BY <1>1, <1>3
  <2>2. QED BY <1>1, <1>3, <2>1, OneRemainder
<1>4. QED BY <1>2, <1>3

-----------------------------------------------------------------------------
(* What a handle holds is the count at its reads, modulo the width.        *)
ShownCounts ==
  \A c \in Columns : /\ m_startState[c] = startAt[c] % CounterModulus
                     /\ m_endState[c] = endAt[c] % CounterModulus

(* The columns read so far in onStart, and in onEnd.                       *)
Started(c) == done \/ c < reads
Ended(c) == done \/ c + Last + 1 < reads

(* On one core the counts of the reads grow in their order, up to now.     *)
ReadInOrder ==
  /\ done => reads = 0
  /\ ~moved =>
       /\ \A d \in Columns : Started(d) =>
            startAt[d] <= count[at] /\ \A c \in 0 .. d : startAt[c] <= startAt[d]
       /\ \A d \in Columns : Ended(d) =>
            /\ endAt[d] <= count[at]
            /\ \A c \in 0 .. d : endAt[c] <= endAt[d]
            /\ \A c \in Columns : startAt[c] <= endAt[d]

IInv == TypeOK /\ ShownCounts /\ ReadInOrder

(* Before the first read the handle holds zeros.                           *)
LEMMA InitIInv == Init => IInv
<1> SUFFICES ASSUME Init PROVE IInv
  OBVIOUS
<1>1. Last \in Nat /\ CounterModulus \in Nat \ {0} /\ MaxCount \in Nat /\ CounterModulus - 1 <= MaxCount
  BY WidthAssumption, Moduli DEF Last
<1>2. 0 % CounterModulus = 0
  <2>1. 0 = 0 * CounterModulus + 0 /\ 0 \in 0 .. CounterModulus - 1
    BY <1>1
  <2>2. QED BY <1>1, <2>1, OneRemainder
<1>3. count \in [Cores -> 0 .. MaxCount]
  BY <1>1 DEF Init
<1>4. TypeOK
  <2>1. /\ Zeros \in [Columns -> 0 .. CounterModulus - 1] /\ Zeros \in [Columns -> 0 .. MaxCount]
        /\ 0 \in 0 .. 2 * Last + 1
    BY <1>1 DEF Zeros
  <2>2. QED BY <1>3, <2>1 DEF Init, TypeOK
<1>5. ShownCounts
  BY <1>2 DEF Init, Zeros, ShownCounts
<1>6. ReadInOrder
  BY <1>1 DEF Init, ReadInOrder, Started, Ended, Columns
<1>7. QED BY <1>4, <1>5, <1>6 DEF IInv

(* A read of onStart shows the present count, the largest so far on its core.*)
LEMMA StartIInv == ASSUME IInv, onStart PROVE IInv'
<1>1. /\ reads \in 0 .. 2 * Last + 1 /\ Last \in Nat /\ count[at] \in 0 .. MaxCount /\ MaxCount \in Nat
      /\ \A c \in Columns : startAt[c] \in Nat /\ endAt[c] \in Nat
  BY WidthAssumption DEF IInv, TypeOK, Last
<1>2. /\ reads \in Columns /\ reads' = reads + 1 /\ done' = FALSE
      /\ m_startState' = [m_startState EXCEPT ![reads] = RDPMC]
      /\ startAt' = [startAt EXCEPT ![reads] = count[at]]
      /\ UNCHANGED <<count, at, m_endState, endAt>>
  BY <1>1, ColumnRead DEF onStart, Columns
<1>3. RDPMC = count[at] % CounterModulus /\ RDPMC \in 0 .. CounterModulus - 1
  BY <1>1, WholeRegister
<1>4. moved' \in BOOLEAN
  BY DEF onStart, IInv, TypeOK
<1>5. TypeOK'
  <2>1. reads' \in 0 .. 2 * Last + 1
    BY <1>1, <1>2 DEF Columns
  <2>2. m_startState' \in [Columns -> 0 .. CounterModulus - 1] /\ startAt' \in [Columns -> 0 .. MaxCount]
    BY <1>1, <1>2, <1>3 DEF IInv, TypeOK
  <2>3. QED BY <1>2, <1>4, <2>1, <2>2 DEF IInv, TypeOK
<1>6. ShownCounts'
  BY <1>2, <1>3 DEF IInv, TypeOK, ShownCounts
<1>7. ReadInOrder'
  <2>1. reads' # 0 /\ ~done' /\ \A c \in Columns : ~Ended(c)'
    BY <1>1, <1>2 DEF Ended, Columns
  <2>2. ASSUME ~moved', NEW d \in Columns, d <= reads
        PROVE  startAt'[d] <= count'[at'] /\ \A c \in 0 .. d : startAt'[c] <= startAt'[d]
    <3>1. \A c \in 0 .. reads : c \in Columns
      BY <1>1, <1>2 DEF Columns
    <3>2. startAt'[reads] = count[at] /\ \A c \in Columns \ {reads} : startAt'[c] = startAt[c]
      BY <1>2 DEF IInv, TypeOK
    <3>3. CASE reads = 0
      BY <1>1, <1>2, <2>2, <3>2, <3>3 DEF Columns
    <3>4. CASE reads # 0
      <4>1. ~moved
        BY <2>2, <3>4 DEF onStart
      <4>2. \A e \in Columns : e < reads =>
              startAt[e] <= count[at] /\ \A c \in 0 .. e : startAt[c] <= startAt[e]
        BY <4>1 DEF IInv, ReadInOrder, Started
      <4>3. QED BY <1>1, <1>2, <2>2, <3>1, <3>2, <4>2 DEF Columns
    <3>5. QED BY <3>3, <3>4
  <2>3. \A d \in Columns : Started(d)' => d <= reads
    BY <1>1, <1>2 DEF Started, Columns
  <2>4. QED BY <2>1, <2>2, <2>3 DEF ReadInOrder
<1>8. QED BY <1>5, <1>6, <1>7 DEF IInv

(* So does a read of onEnd, which comes after all of onStart.              *)
LEMMA EndIInv == ASSUME IInv, onEnd PROVE IInv'
<1> DEFINE k == reads - (Last + 1)
<1>1. /\ reads \in 0 .. 2 * Last + 1 /\ Last \in Nat /\ count[at] \in 0 .. MaxCount /\ MaxCount \in Nat
      /\ \A c \in Columns : startAt[c] \in Nat /\ endAt[c] \in Nat
  BY WidthAssumption DEF IInv, TypeOK, Last
<1>2. /\ reads > Last /\ k \in Columns /\ ~done
      /\ reads' = IF reads = 2 * Last + 1 THEN 0 ELSE reads + 1
      /\ m_endState' = [m_endState EXCEPT ![k] = RDPMC]
      /\ endAt' = [endAt EXCEPT ![k] = count[at]]
      /\ UNCHANGED <<count, at, m_startState, startAt, moved>>
  BY <1>1, ColumnRead, NextRead DEF onEnd, IInv, ReadInOrder, Columns
<1>3. RDPMC = count[at] % CounterModulus /\ RDPMC \in 0 .. CounterModulus - 1
  BY <1>1, WholeRegister
<1>4. done' \in BOOLEAN /\ (done' <=> reads = 2 * Last + 1)
  BY DEF onEnd
<1>5. TypeOK'
  <2>1. reads' \in 0 .. 2 * Last + 1
    BY <1>1, <1>2
  <2>2. m_endState' \in [Columns -> 0 .. CounterModulus - 1] /\ endAt' \in [Columns -> 0 .. MaxCount]
    BY <1>1, <1>2, <1>3 DEF IInv, TypeOK
  <2>3. QED BY <1>2, <1>4, <2>1, <2>2 DEF IInv, TypeOK
<1>6. ShownCounts'
  BY <1>2, <1>3 DEF IInv, TypeOK, ShownCounts
<1>7. ReadInOrder'
  <2>1. done' => reads' = 0
    BY <1>2, <1>4
  <2>2. ASSUME ~moved'
        PROVE  \A d \in Columns :
                 startAt'[d] <= count'[at'] /\ \A c \in 0 .. d : startAt'[c] <= startAt'[d]
    <3>1. \A d \in Columns : Started(d)
      BY <1>1, <1>2 DEF Started, Columns
    <3>2. QED BY <1>2, <2>2, <3>1 DEF IInv, ReadInOrder
  <2>3. ASSUME ~moved', NEW d \in Columns, d <= k
        PROVE  /\ endAt'[d] <= count'[at']
               /\ \A c \in 0 .. d : endAt'[c] <= endAt'[d]
               /\ \A c \in Columns : startAt'[c] <= endAt'[d]
    <3>1. \A c \in 0 .. k : c \in Columns
      BY <1>1, <1>2 DEF Columns
    <3>2. endAt'[k] = count[at] /\ \A c \in Columns \ {k} : endAt'[c] = endAt[c]
      BY <1>2 DEF IInv, TypeOK
    <3>3. \A e \in Columns : e < k => /\ endAt[e] <= count[at]
                                      /\ \A c \in 0 .. e : endAt[c] <= endAt[e]
                                      /\ \A c \in Columns : startAt[c] <= endAt[e]
      BY <1>1, <1>2, <2>3 DEF IInv, ReadInOrder, Ended, Columns
    <3>4. \A c \in Columns : startAt[c] <= count[at]
      BY <1>2, <2>2, <2>3
    <3>5. QED BY <1>1, <1>2, <2>3, <3>1, <3>2, <3>3, <3>4 DEF Columns
  <2>4. \A d \in Columns : Ended(d)' => d <= k
    BY <1>1, <1>2, <1>4 DEF Ended, Columns
  <2>5. QED BY <2>1, <2>2, <2>3, <2>4 DEF ReadInOrder
<1>8. QED BY <1>5, <1>6, <1>7 DEF IInv

(* Nothing is read by the others; a count only grows.                      *)
LEMMA EventIInv == ASSUME IInv, Event PROVE IInv'
<1>1. /\ count[at] \in 0 .. MaxCount /\ count[at] < MaxCount /\ MaxCount \in Nat
      /\ count' = [count EXCEPT ![at] = @ + 1] /\ at \in Cores /\ Last \in Nat
      /\ \A c \in Columns : startAt[c] \in Nat /\ endAt[c] \in Nat
      /\ UNCHANGED <<at, reads, m_startState, m_endState, done, startAt, endAt, moved>>
  BY WidthAssumption DEF Event, IInv, TypeOK, Last
<1>2. count' \in [Cores -> 0 .. MaxCount] /\ count[at] <= count'[at] /\ count'[at] \in Nat
  BY <1>1 DEF IInv, TypeOK
<1>3. TypeOK' /\ ShownCounts'
  BY <1>1, <1>2 DEF IInv, TypeOK, ShownCounts
<1>4. ReadInOrder'
  BY <1>1, <1>2 DEF IInv, ReadInOrder, Started, Ended
<1>5. QED BY <1>3, <1>4 DEF IInv

(* Every step keeps the invariant; a thread that moves loses the order.    *)
LEMMA NextIInv == IInv /\ [Next]_vars => IInv'
<1> SUFFICES ASSUME IInv, [Next]_vars PROVE IInv'
  OBVIOUS
<1>1. CASE Migrate
  BY <1>1 DEF Migrate, IInv, TypeOK, ShownCounts, ReadInOrder
<1>2. CASE UNCHANGED vars
  BY <1>2 DEF vars, IInv, TypeOK, ShownCounts, ReadInOrder, Started, Ended
<1>3. QED BY <1>1, <1>2, StartIInv, EndIInv, EventIInv DEF Next

(* The invariant holds in every reachable state.                           *)
LEMMA Inductive == Spec => []IInv
<1>1. QED BY InitIInv, NextIInv, PTL DEF Spec

-----------------------------------------------------------------------------
(* The theorems.                                                           *)

(* No value the handle holds is wider than a counter, and the handle is    *)
(* always between two of its reads.                                        *)
THEOREM TypeCorrect == Spec => []TypeOK
<1>1. IInv => TypeOK
  BY DEF IInv
<1>2. QED BY <1>1, Inductive, PTL

(* EDX and EAX put together are the counter: every value held is the number*)
(* of events of the core when it was read, modulo the counter's width, for *)
(* a thread that moves as well.                                            *)
THEOREM SamplesCorrect == Spec => []ShownCounts
<1>1. IInv => ShownCounts
  BY DEF IInv
<1>2. QED BY Inductive, <1>1, PTL

(* The difference of the values held, in terms of the counts read.         *)
LEMMA Difference ==
  ASSUME IInv, NEW c \in Columns
  PROVE  /\ Measured(c) \in Int /\ Wraps(c) \in Int
         /\ m_endState[c] - m_startState[c] = Measured(c) - Wraps(c) * CounterModulus
         /\ m_endState[c] \in 0 .. CounterModulus - 1
         /\ m_startState[c] \in 0 .. CounterModulus - 1
<1> DEFINE e == endAt[c]
           s == startAt[c]
           C == CounterModulus
<1>1. e \in Int /\ s \in Int /\ C \in Nat \ {0}
  BY Moduli, WidthAssumption DEF IInv, TypeOK
<1>2. e \div C \in Int /\ e = (e \div C) * C + (e % C)
  BY <1>1, Division
<1>3. s \div C \in Int /\ s = (s \div C) * C + (s % C)
  BY <1>1, Division
<1>4. e % C \in 0 .. C - 1 /\ s % C \in 0 .. C - 1
  BY <1>1, Division
<1>5. m_endState[c] = e % C /\ m_startState[c] = s % C
  BY DEF IInv, ShownCounts
<1>6. Measured(c) = e - s /\ Wraps(c) = (e \div C) - (s \div C)
  BY DEF Measured, Wraps
<1> HIDE DEF e, s, C
<1>7. (e % C) - (s % C) = (e - s) - ((e \div C) - (s \div C)) * C
  BY <1>1, <1>2, <1>3, <1>4
<1>8. Measured(c) \in Int /\ Wraps(c) \in Int
  BY <1>1, <1>2, <1>3, <1>6
<1>9. m_endState[c] - m_startState[c] = Measured(c) - Wraps(c) * C
  BY <1>5, <1>6, <1>7
<1>10. m_endState[c] \in 0 .. C - 1 /\ m_startState[c] \in 0 .. C - 1
  BY <1>4, <1>5
<1>11. QED BY <1>8, <1>9, <1>10 DEF C

(* However the counters wrap, the low bits of an answer are right, and a   *)
(* wrap between the two reads costs exactly one width.                     *)
THEOREM CountsAreExact == Spec => []CountsAreExactModuloWraps
<1>1. ASSUME IInv PROVE CountsAreExactModuloWraps
  <2> SUFFICES ASSUME NEW c \in Columns
               PROVE  /\ getCounts(c) = (Measured(c) - Wraps(c) * CounterModulus) % WordModulus
                      /\ getCounts(c) % CounterModulus = Measured(c) % CounterModulus
    BY DEF CountsAreExactModuloWraps
  <2> DEFINE x == Measured(c)
             k == Wraps(c)
             C == CounterModulus
  <2>1. x \in Int /\ k \in Int /\ C \in Nat \ {0}
    BY <1>1, Difference, Moduli
  <2>2. getCounts(c) = (Measured(c) - Wraps(c) * CounterModulus) % WordModulus
    BY <1>1, Difference DEF getCounts
  <2> HIDE DEF x, k, C
  <2>3. x - k * C \in Int
    BY <2>1
  <2>4. (x - k * C) % C = x % C
    BY <2>1, SameRemainder
  <2>5. ((x - k * C) % WordModulus) % CounterModulus = (x - k * C) % CounterModulus
    BY <2>3, Moduli
  <2>6. getCounts(c) % CounterModulus = x % C
    BY <2>2, <2>4, <2>5 DEF x, k, C
  <2>7. QED BY <2>2, <2>6 DEF x, C
<1>2. QED BY <1>1, Inductive, PTL

(* On one core and without a wrap every answer lies between the events of  *)
(* the operation alone and those of both calls and the operation: it was   *)
(* read after the first read of its call and before the last.              *)
THEOREM ColumnsBracket == Spec => []ColumnsBracketTheOperation
<1>1. ASSUME IInv PROVE ColumnsBracketTheOperation
  <2> SUFFICES ASSUME done, ~moved, NEW c \in Columns, Wraps(c) = 0
               PROVE  /\ endAt[0] - startAt[Last] <= getCounts(c)
                      /\ getCounts(c) <= endAt[Last] - startAt[0]
    BY DEF ColumnsBracketTheOperation, Valid
  <2>1. Last \in Nat /\ 0 \in Columns /\ Last \in Columns /\ c \in 0 .. Last /\ 0 \in 0 .. c
    BY WidthAssumption DEF Last, Columns
  <2>2. \A d \in Columns : startAt[d] \in Nat /\ endAt[d] \in Nat
    BY <1>1, WidthAssumption DEF IInv, TypeOK
  <2>3. \A d \in Columns : Started(d) /\ Ended(d)
    BY DEF Started, Ended
  <2>4. /\ startAt[0] <= startAt[c] /\ startAt[c] <= startAt[Last]
        /\ endAt[0] <= endAt[c] /\ endAt[c] <= endAt[Last]
        /\ startAt[c] <= endAt[c]
    BY <1>1, <2>1, <2>3 DEF IInv, ReadInOrder
  <2>5. getCounts(c) = endAt[c] - startAt[c]
    <3> DEFINE m == endAt[c] - startAt[c]
    <3>1. m_endState[c] - m_startState[c] = m /\ m \in 0 .. CounterModulus - 1
      <4>1. m \in Nat /\ Measured(c) = m /\ CounterModulus \in Nat
        BY <2>2, <2>4, Moduli DEF Measured
      <4>2. /\ m_endState[c] - m_startState[c] = m - 0 * CounterModulus
            /\ m_endState[c] \in 0 .. CounterModulus - 1
            /\ m_startState[c] \in 0 .. CounterModulus - 1
        BY <1>1, <4>1, Difference
      <4>3. QED BY <4>1, <4>2
    <3> HIDE DEF m
    <3>2. m \in Int /\ WordModulus \in Nat \ {0} /\ m \in 0 .. WordModulus - 1 /\ m = 0 * WordModulus + m
      BY <3>1, Moduli
    <3>3. m % WordModulus = m
      BY <3>2, OneRemainder
    <3>4. QED BY <3>1, <3>3 DEF getCounts, m
  <2>6. QED BY <2>1, <2>2, <2>4, <2>5
<1>2. QED BY <1>1, Inductive, PTL
=============================================================================
