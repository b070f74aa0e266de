-------------------------- MODULE BenchmarkRunsProofs --------------------------
(***************************************************************************)
(* Who holds the PMU, and whose events a run records, for any number of    *)
(* users, runs and faults.                                                 *)
(***************************************************************************)
EXTENDS BenchmarkRuns, TLAPS

(* The statements before the first row and between the two rows.           *)
Before == {"idle"} \cup Setup \cup {"set_signal_handlers", "fill", "onStart", "onEnd"}
Between == {"indices", "onStart_again", "onEnd_again"}

VariablesTyped ==
  /\ pmu \in Users \cup {Free, Stale}
  /\ pc \in [Users -> Statements]
  /\ m_resetBusyDevice \in [Users -> BOOLEAN]
  /\ rows \in [Users -> Seq({"own", "disturbed"})]
  /\ own \subseteq Users /\ hit \subseteq Users /\ late \subseteq Users
  /\ faults \in 0 .. MaxFaults

(* A run has at most the rows of the measurements behind it.               *)
RowsFit ==
  \A u \in Users :
    /\ pc[u] \in Before => rows[u] = <<>>
    /\ pc[u] \in Between => Len(rows[u]) <= 1
    /\ Len(rows[u]) <= 2

(* A run that is not monitoring does not hold the PMU.                     *)
OthersHoldNothing == \A u \in Users : pc[u] \notin Monitored => pmu # u

(* A run that was not reset and not late holds it, nobody else is left to  *)
(* clean up, and a measurement it has begun was undisturbed so far.        *)
MonitorsHold ==
  \A u \in Users : pc[u] \in Monitored /\ u \notin hit \cup late =>
    /\ pmu = u
    /\ \A w \in Users \ {u} : ~HasProgrammed(w)
    /\ pc[u] \in {"onEnd", "onEnd_again"} => u \in own
    /\ \A i \in DOMAIN rows[u] : rows[u][i] = "own"

StaleIsAFault == faults = 0 => pmu # Stale

IInv == VariablesTyped /\ RowsFit /\ OthersHoldNothing /\ MonitorsHold /\ StaleIsAFault

USE RunsAssumption

(* The initial states satisfy the invariant.                               *)
LEMMA InitIInv == Init => IInv
<1> SUFFICES ASSUME Init PROVE IInv
  OBVIOUS
<1>1. VariablesTyped
  BY DEF Init, VariablesTyped, Statements
<1>2. RowsFit
  <2>1. \A u \in Users : pc[u] = "idle" /\ rows[u] = <<>>
    BY DEF Init
  <2>2. \A u \in Users : pc[u] \notin Between
    BY <2>1 DEF Between
  <2>3. Len(<< >>) <= 2
    OBVIOUS
  <2>4. \A u \in Users : Len(rows[u]) <= 2
    BY <2>1, <2>3, Zenon
  <2>5. QED BY <2>1, <2>2, <2>4, Zenon DEF RowsFit
<1>3. OthersHoldNothing
  BY DEF Init, OthersHoldNothing
<1>4. MonitorsHold
  BY DEF Init, MonitorsHold, Monitored
<1>5. StaleIsAFault
  BY DEF Init, StaleIsAFault
<1>6. QED BY <1>1, <1>2, <1>3, <1>4, <1>5 DEF IInv

(* What a step of u's run does to the statements of all users.             *)
LEMMA GotoStatements ==
  ASSUME IInv, NEW u \in Users, NEW from, NEW to \in Statements, Goto(u, from, to)
  PROVE  /\ pc[u] = from /\ pc' \in [Users -> Statements]
         /\ \A v \in Users : pc'[v] = IF v = u THEN to ELSE pc[v]
BY DEF Goto, IInv, VariablesTyped

(* What a process leaves behind at a cleanup or at its end.                *)
Leaves(u, to) ==
  IF to = "idle" THEN Ends(u) ELSE UNCHANGED <<m_resetBusyDevice, rows, hit, late>>

(* A run that gives the PMU away, whether it holds it or not, disturbs no  *)
(* other but the late: it goes on with a statement that needs none.        *)
LEMMA GivenAway ==
  ASSUME IInv, NEW u \in Users, NEW from, NEW to \in {"idle", "return"}, Goto(u, from, to),
         NEW new \in {pmu, Free, Stale}, SetPmu(new), new # u,
         new = pmu \/ pmu = u \/ HasProgrammed(u), to = "return" => HasProgrammed(u),
         faults' \in 0 .. MaxFaults, faults' >= faults,
         new = Stale => pmu = Stale \/ faults' > 0,
         Leaves(u, to)
  PROVE  IInv'
<1>1. /\ pc[u] = from /\ pc' \in [Users -> Statements]
      /\ \A v \in Users : pc'[v] = IF v = u THEN to ELSE pc[v]
  BY GotoStatements DEF Statements
<1>2. pmu' = new /\ own' = own \cap {new}
  BY DEF SetPmu
<1>3. /\ m_resetBusyDevice' \in [Users -> BOOLEAN]
      /\ rows' \in [Users -> Seq({"own", "disturbed"})]
      /\ hit' \subseteq Users /\ late' \subseteq Users
      /\ rows'[u] = IF to = "idle" THEN <<>> ELSE rows[u]
      /\ \A v \in Users \ {u} : /\ rows'[v] = rows[v]
                                /\ v \in hit \cup late => v \in hit' \cup late'
  <2>1. CASE to = "return"
    BY <2>1 DEF Leaves, IInv, VariablesTyped
  <2>2. CASE to = "idle"
    <3>1. /\ m_resetBusyDevice' = [m_resetBusyDevice EXCEPT ![u] = FALSE]
          /\ rows' = [rows EXCEPT ![u] = <<>>]
          /\ hit' = hit \ {u} /\ late' = late \ {u}
      BY <2>2 DEF Leaves, Ends
    <3>2. QED BY <2>2, <3>1 DEF IInv, VariablesTyped
  <2>3. QED BY <2>1, <2>2
<1>4. VariablesTyped'
  BY <1>1, <1>2, <1>3 DEF IInv, VariablesTyped
<1>5. RowsFit'
  <2> SUFFICES ASSUME NEW v \in Users
               PROVE  /\ pc'[v] \in Before => rows'[v] = <<>>
                      /\ pc'[v] \in Between => Len(rows'[v]) <= 1
                      /\ Len(rows'[v]) <= 2
    BY DEF RowsFit
  <2>1. CASE v # u
    BY <1>1, <1>3, <2>1 DEF IInv, RowsFit
  <2>2. CASE v = u
    <3>1. pc'[u] \in Before => to = "idle"
      BY <1>1 DEF Before, Setup
    <3>2. pc'[u] \notin Between
      BY <1>1 DEF Between
    <3>3. Len(rows'[u]) <= 2
      <4>1. Len(rows[u]) <= 2
        BY DEF IInv, RowsFit
      <4>2. Len(<< >>) <= 2
        OBVIOUS
      <4>3. QED BY <1>3, <4>1, <4>2, Zenon
    <3>4. QED BY <1>3, <2>2, <3>1, <3>2, <3>3
  <2>3. QED BY <2>1, <2>2
<1>6. OthersHoldNothing'
  BY <1>1, <1>2 DEF IInv, OthersHoldNothing, Monitored
<1>7. MonitorsHold'
  <2> SUFFICES ASSUME NEW v \in Users, pc'[v] \in Monitored, v \notin hit' \cup late'
               PROVE  /\ pmu' = v
                      /\ \A w \in Users \ {v} : ~HasProgrammed(w)'
                      /\ pc'[v] \in {"onEnd", "onEnd_again"} => v \in own'
                      /\ \A i \in DOMAIN rows'[v] : rows'[v][i] = "own"
    BY DEF MonitorsHold
  <2>1. v # u /\ pc[v] \in Monitored /\ v \notin hit \cup late /\ pc'[v] = pc[v]
    BY <1>1, <1>3 DEF Monitored
  <2>2. /\ pmu = v /\ ~HasProgrammed(u)
        /\ \A w \in Users \ {v} : ~HasProgrammed(w)
        /\ pc[v] \in {"onEnd", "onEnd_again"} => v \in own
        /\ \A i \in DOMAIN rows[v] : rows[v][i] = "own"
    BY <2>1 DEF IInv, MonitorsHold
  <2>3. new = pmu /\ from \notin Monitored /\ from # "return"
    BY <1>1, <2>1, <2>2 DEF HasProgrammed
  <2>4. \A w \in Users \ {v} : ~HasProgrammed(w)'
    <3>1. to = "idle"
      BY <2>2
    <3>2. QED BY <1>1, <2>2, <3>1 DEF HasProgrammed, Monitored
  <2>5. QED BY <1>2, <1>3, <2>1, <2>2, <2>3, <2>4
<1>8. StaleIsAFault'
  BY <1>2 DEF IInv, StaleIsAFault, VariablesTyped
<1>9. QED BY <1>4, <1>5, <1>6, <1>7, <1>8 DEF IInv

(* A step of u's run that leaves the PMU alone, on the same side of        *)
(* startMonitoring, and keeps what it has recorded.                        *)
LEMMA PmuKept ==
  ASSUME IInv, NEW u \in Users, NEW from, NEW to \in Statements, Goto(u, from, to),
         from \in Monitored <=> to \in Monitored, to # "return",
         to \in {"onEnd", "onEnd_again"} => (pmu = u => u \in own'),
         to \in Before => rows'[u] = <<>>,
         to \in Between => Len(rows'[u]) <= 1,
         Len(rows'[u]) <= 2,
         (\A i \in DOMAIN rows[u] : rows[u][i] = "own") /\ (from \in {"onEnd", "onEnd_again"} => u \in own)
           => \A i \in DOMAIN rows'[u] : rows'[u][i] = "own",
         \A v \in Users \ {u} : rows'[v] = rows[v] /\ (v \in own => v \in own'),
         hit' = hit, late' = late,
         VariablesTyped',
         faults' >= faults,
         UNCHANGED pmu
  PROVE  IInv'
<1>1. /\ pc[u] = from
      /\ \A v \in Users : pc'[v] = IF v = u THEN to ELSE pc[v]
  BY GotoStatements
<1>2. RowsFit'
  BY <1>1 DEF IInv, RowsFit
<1>3. OthersHoldNothing'
  BY <1>1 DEF IInv, OthersHoldNothing
<1>4. MonitorsHold'
  <2> SUFFICES ASSUME NEW v \in Users, pc'[v] \in Monitored, v \notin hit' \cup late'
               PROVE  /\ pmu' = v
                      /\ \A w \in Users \ {v} : ~HasProgrammed(w)'
                      /\ pc'[v] \in {"onEnd", "onEnd_again"} => v \in own'
                      /\ \A i \in DOMAIN rows'[v] : rows'[v][i] = "own"
    BY DEF MonitorsHold
  <2>1. pc[v] \in Monitored /\ v \notin hit \cup late
    BY <1>1
  <2>2. /\ pmu = v
        /\ \A w \in Users \ {v} : ~HasProgrammed(w)
        /\ pc[v] \in {"onEnd", "onEnd_again"} => v \in own
        /\ \A i \in DOMAIN rows[v] : rows[v][i] = "own"
    BY <2>1 DEF IInv, MonitorsHold
  <2>3. \A w \in Users \ {v} : ~HasProgrammed(w)'
    BY <1>1, <2>2 DEF HasProgrammed
  <2>4. CASE v = u
    BY <1>1, <2>2, <2>3, <2>4
  <2>5. CASE v # u
    BY <1>1, <2>2, <2>3, <2>5
  <2>6. QED BY <2>4, <2>5
<1>5. StaleIsAFault'
  <2>1. faults \in Nat /\ faults' \in Nat
    BY DEF IInv, VariablesTyped
  <2>2. faults' = 0 => faults = 0
    BY <2>1
  <2>3. QED BY <2>2 DEF IInv, StaleIsAFault
<1>6. QED BY <1>2, <1>3, <1>4, <1>5 DEF IInv

-----------------------------------------------------------------------------
(* PCM::program succeeds on a free PMU, so no other run was monitoring     *)
(* without having been reset.                                              *)
LEMMA ProgrammedIInv == ASSUME IInv, NEW u \in Users, Programmed(u) PROVE IInv'
<1>1. /\ pc[u] = "startMonitoring" /\ pc' \in [Users -> Statements]
      /\ \A v \in Users : pc'[v] = IF v = u THEN "set_signal_handlers" ELSE pc[v]
  BY GotoStatements DEF Programmed, Statements, Monitored
<1>2. /\ pmu = Free /\ pmu' = u
      /\ own' = own \cap {u}
      /\ late' = IF \E v \in Users \ {u} : HasProgrammed(v) THEN late \cup {u} ELSE late
      /\ UNCHANGED <<m_resetBusyDevice, rows, hit, faults>>
  BY DEF Programmed, SetPmu
<1>3. VariablesTyped'
  BY <1>1, <1>2 DEF IInv, VariablesTyped
<1>4. RowsFit'
  BY <1>1, <1>2 DEF IInv, RowsFit, Before, Between, Setup
<1>5. OthersHoldNothing'
  BY <1>1, <1>2 DEF IInv, OthersHoldNothing, Monitored
<1>6. MonitorsHold'
  <2> SUFFICES ASSUME NEW v \in Users, pc'[v] \in Monitored, v \notin hit' \cup late'
               PROVE  /\ pmu' = v
                      /\ \A w \in Users \ {v} : ~HasProgrammed(w)'
                      /\ pc'[v] \in {"onEnd", "onEnd_again"} => v \in own'
                      /\ \A i \in DOMAIN rows'[v] : rows'[v][i] = "own"
    BY DEF MonitorsHold
  <2>1. v = u
    BY <1>1, <1>2 DEF IInv, MonitorsHold
  <2>2. rows'[v] = <<>>
    BY <1>1, <1>2, <2>1 DEF IInv, RowsFit, Before, Setup
  <2>3. \A w \in Users \ {v} : ~HasProgrammed(w)'
    BY <1>1, <1>2, <2>1 DEF HasProgrammed
  <2>4. QED BY <1>1, <1>2, <2>1, <2>2, <2>3
<1>7. StaleIsAFault'
  BY <1>2 DEF StaleIsAFault
<1>8. QED BY <1>3, <1>4, <1>5, <1>6, <1>7 DEF IInv

(* resetPMU takes the PMU from its holder, who is marked.                  *)
LEMMA ResetIInv == ASSUME IInv, NEW u \in Users, resetPMU(u) PROVE IInv'
<1>1. /\ pc[u] = "resetPMU" /\ pc' \in [Users -> Statements]
      /\ \A v \in Users : pc'[v] = IF v = u THEN "fatal" ELSE pc[v]
  BY GotoStatements DEF resetPMU, ThenFatal, Statements, Setup
<1>2. /\ pmu' = Free
      /\ own' = own \cap {Free}
      /\ hit' = hit \cup (({pmu} \cap Users) \ {u})
      /\ UNCHANGED <<m_resetBusyDevice, rows, late, faults>>
  BY DEF resetPMU, SetPmu
<1>3. VariablesTyped'
  BY <1>1, <1>2 DEF IInv, VariablesTyped
<1>4. RowsFit'
  BY <1>1, <1>2 DEF IInv, RowsFit, Before, Between, Setup
<1>5. OthersHoldNothing'
  BY <1>2 DEF OthersHoldNothing
<1>6. MonitorsHold'
  BY <1>1, <1>2 DEF IInv, MonitorsHold, Monitored
<1>7. StaleIsAFault'
  BY <1>2 DEF StaleIsAFault
<1>8. QED BY <1>3, <1>4, <1>5, <1>6, <1>7 DEF IInv

(* A begun measurement: rows recorded so far are kept.                     *)
LEMMA OnStartIInv == ASSUME IInv, NEW u \in Users, onStart(u) PROVE IInv'
<1>1. /\ own' = IF pmu = u THEN own \cup {u} ELSE own \ {u}
      /\ UNCHANGED <<pmu, m_resetBusyDevice, rows, hit, late, faults>>
  BY DEF onStart
<1>2. PICK from \in {"onStart", "onStart_again"}, to \in {"onEnd", "onEnd_again"} :
        /\ Goto(u, from, to)
        /\ from = "onStart" <=> to = "onEnd"
  BY DEF onStart
<1>3. from \in Monitored /\ to \in Monitored /\ to \in Statements /\ to # "return"
  BY DEF Monitored, Statements
<1>4. pc[u] = from /\ pc' \in [Users -> Statements]
  BY <1>2, <1>3, GotoStatements
<1>5. VariablesTyped'
  BY <1>1, <1>4 DEF IInv, VariablesTyped
<1>6. /\ to \in Before => rows'[u] = <<>>
      /\ to \in Between => Len(rows'[u]) <= 1
      /\ Len(rows'[u]) <= 2
  BY <1>1, <1>2, <1>4 DEF IInv, RowsFit, Before, Between, Setup
<1>7. (pmu = u => u \in own') /\ \A v \in Users \ {u} : v \in own => v \in own'
  BY <1>1 DEF IInv, VariablesTyped
<1>8. faults' >= faults
  BY <1>1 DEF IInv, VariablesTyped
<1>9. QED BY <1>1, <1>2, <1>3, <1>5, <1>6, <1>7, <1>8, PmuKept

(* A row is added: it is the run's own if the measurement was.             *)
LEMMA OnEndIInv == ASSUME IInv, NEW u \in Users, onEnd(u) PROVE IInv'
<1>1. /\ rows' = [rows EXCEPT ![u] = Append(@, Counted(u))]
      /\ UNCHANGED <<pmu, m_resetBusyDevice, own, hit, late, faults>>
  BY DEF onEnd, history
<1>2. PICK from \in {"onEnd", "onEnd_again"}, to \in {"indices", "print"} :
        /\ Goto(u, from, to)
        /\ from = "onEnd" <=> to = "indices"
  BY DEF onEnd
<1>3. from \in Monitored /\ to \in Monitored /\ to \in Statements /\ to # "return"
  BY DEF Monitored, Statements
<1>4. pc[u] = from /\ pc' \in [Users -> Statements]
  BY <1>2, <1>3, GotoStatements
<1>5. rows[u] \in Seq({"own", "disturbed"}) /\ Counted(u) \in {"own", "disturbed"} /\ rows \in [Users -> Seq({"own", "disturbed"})]
  BY DEF IInv, VariablesTyped, Counted
<1>6. /\ rows'[u] = Append(rows[u], Counted(u))
      /\ rows' \in [Users -> Seq({"own", "disturbed"})]
      /\ \A v \in Users \ {u} : rows'[v] = rows[v]
  BY <1>1, <1>5
<1>7. VariablesTyped'
  BY <1>1, <1>4, <1>6 DEF IInv, VariablesTyped
<1>8. /\ from = "onEnd" => rows[u] = <<>>
      /\ from = "onEnd_again" => Len(rows[u]) <= 1
  BY <1>4 DEF IInv, RowsFit, Before, Between
<1>9. /\ to \in Before => rows'[u] = <<>>
      /\ to \in Between => Len(rows'[u]) <= 1
      /\ Len(rows'[u]) <= 2
  <2>1. Len(rows'[u]) = Len(rows[u]) + 1 /\ Len(rows[u]) \in Nat
    BY <1>5, <1>6
  <2>2. to \notin Before
    BY DEF Before, Setup
  <2>3. to \in Between => to = "indices"
    BY DEF Between
  <2>4. QED BY <1>2, <1>8, <2>1, <2>2, <2>3
<1>10. (\A i \in DOMAIN rows[u] : rows[u][i] = "own") /\ u \in own => \A i \in DOMAIN rows'[u] : rows'[u][i] = "own"
  BY <1>5, <1>6 DEF Counted
<1>11. faults' >= faults
  BY <1>1 DEF IInv, VariablesTyped
<1>12. QED BY <1>1, <1>2, <1>3, <1>6, <1>7, <1>9, <1>10, <1>11, PmuKept

(* A statement that touches nothing but flags and the count of faults.     *)
LEMMA Stays ==
  ASSUME IInv, NEW u \in Users, NEW from, NEW to \in Statements, Goto(u, from, to),
         from \in Monitored <=> to \in Monitored,
         to \notin {"onEnd", "onEnd_again", "return"},
         to \in Before => from \in Before,
         to \in Between => from \in Between,
         m_resetBusyDevice' \in [Users -> BOOLEAN],
         faults' \in 0 .. MaxFaults, faults' >= faults,
         UNCHANGED <<pmu, rows, own, hit, late>>
  PROVE  IInv'
<1>1. pc[u] = from /\ pc' \in [Users -> Statements]
  BY GotoStatements
<1>2. VariablesTyped'
  BY <1>1 DEF IInv, VariablesTyped
<1>3. /\ to \in Before => rows'[u] = <<>>
      /\ to \in Between => Len(rows'[u]) <= 1
      /\ Len(rows'[u]) <= 2
  BY <1>1 DEF IInv, RowsFit
<1>4. QED BY <1>2, <1>3, PmuKept

(* The start of a run, the steps of its setup and the fills.               *)
LEMMA QuietIInv ==
  ASSUME IInv, NEW u \in Users,
         Begin(u) \/ init(u) \/ resetMsrIfBusy(u) \/ PMUBusy(u) \/ Local(u) \/ SetupFails(u)
  PROVE  IInv'
<1>1. faults \in 0 .. MaxFaults /\ m_resetBusyDevice \in [Users -> BOOLEAN]
  BY DEF IInv, VariablesTyped
<1>2. /\ UNCHANGED <<pmu, rows, own, hit, late>>
      /\ m_resetBusyDevice' \in [Users -> BOOLEAN]
      /\ faults' \in 0 .. MaxFaults /\ faults' >= faults
  <2>1. CASE Begin(u) \/ init(u) \/ PMUBusy(u) \/ Local(u)
    <3>1. UNCHANGED <<pmu, m_resetBusyDevice, rows, own, hit, late, faults>>
      BY <2>1, Zenon DEF Begin, init, PMUBusy, Local, history
    <3>2. QED BY <1>1, <3>1
  <2>2. CASE resetMsrIfBusy(u)
    BY <1>1, <2>2 DEF resetMsrIfBusy, history
  <2>3. CASE SetupFails(u)
    BY <1>1, <2>3 DEF SetupFails, Fault
  <2>4. QED BY <2>1, <2>2, <2>3
<1>3. \/ Goto(u, "idle", "init") \/ Goto(u, "init", "resetMsrIfBusy")
      \/ Goto(u, "resetMsrIfBusy", "startMonitoring")
      \/ Goto(u, "startMonitoring", "fatal") \/ Goto(u, "startMonitoring", "resetPMU")
      \/ Goto(u, "init", "fatal") \/ Goto(u, "set_signal_handlers", "fill")
      \/ Goto(u, "fill", "onStart") \/ Goto(u, "indices", "onStart_again")
      \/ Goto(u, "print", "exit_cleanup")
  BY DEF Begin, init, resetMsrIfBusy, PMUBusy, Local, SetupFails
<1>4. PICK from, to : /\ Goto(u, from, to) /\ to \in Statements
                      /\ from \in Monitored <=> to \in Monitored
                      /\ to \notin {"onEnd", "onEnd_again", "return"}
                      /\ to \in Before => from \in Before
                      /\ to \in Between => from \in Between
  <2>1. \/ \E from \in {"idle"} \cup Setup, to \in Setup : Goto(u, from, to)
        \/ \E from \in {"set_signal_handlers", "fill"}, to \in {"fill", "onStart"} : Goto(u, from, to)
        \/ Goto(u, "indices", "onStart_again") \/ Goto(u, "print", "exit_cleanup")
    BY <1>3 DEF Setup
  <2>2. QED BY <2>1 DEF Statements, Monitored, Before, Between, Setup
<1>5. QED BY <1>2, <1>4, Stays

(* Every end of a run gives the PMU away: freed by its cleanup, or stale   *)
(* after a kill, which is a fault.                                         *)
LEMMA EndIInv ==
  ASSUME IInv, NEW u \in Users,
         Fatal(u) \/ exit_cleanup(u) \/ Return(u) \/ Interrupted(u) \/ Killed(u)
  PROVE  IInv'
<1>1. /\ faults \in 0 .. MaxFaults /\ MaxFaults \in Nat /\ pmu \in Users \cup {Free, Stale}
      /\ Free # u /\ Stale # u /\ Free # Stale
      /\ pc[u] \notin Monitored => pmu # u
  BY DEF IInv, VariablesTyped, OthersHoldNothing, RunsAssumption
<1>2. CASE Fatal(u)
  <2>1. /\ Goto(u, "fatal", "idle") /\ Ends(u) /\ faults' = faults
        /\ Cleanup(u) /\ pc[u] = "fatal"
    BY <1>2 DEF Fatal, Goto
  <2>2. SetPmu(pmu) /\ pmu # u
    BY <1>1, <2>1 DEF Cleanup, HasProgrammed, Monitored
  <2>3. Leaves(u, "idle")
    BY <2>1 DEF Leaves
  <2>4. faults' \in 0 .. MaxFaults /\ faults' >= faults
    BY <1>1, <2>1
  <2>5. QED BY <2>1, <2>2, <2>3, <2>4, GivenAway
<1>3. CASE exit_cleanup(u) \/ Return(u) \/ Interrupted(u)
  <2>1. /\ faults' \in 0 .. MaxFaults /\ faults' >= faults
    BY <1>1, <1>3 DEF exit_cleanup, Return, Interrupted, Fault
  <2>2. PICK from \in {"exit_cleanup", "return", pc[u]}, to \in {"idle", "return"} :
          Goto(u, from, to) /\ Leaves(u, to)
    BY <1>3 DEF exit_cleanup, Return, Interrupted, Leaves
  <2>3. Cleanup(u) /\ HasProgrammed(u)
    BY <1>3 DEF exit_cleanup, Return, Interrupted, Goto, HasProgrammed, Monitored, Handled
  <2>4. SetPmu(Free)
    BY <2>3 DEF Cleanup
  <2>5. QED BY <1>1, <2>1, <2>2, <2>3, <2>4, GivenAway
<1>4. CASE Killed(u)
  <2>1. faults' \in 0 .. MaxFaults /\ faults' >= faults /\ faults' > 0
    BY <1>1, <1>4 DEF Killed, Fault
  <2>2. Goto(u, pc[u], "idle") /\ Leaves(u, "idle")
    BY <1>4 DEF Killed, Leaves
  <2>3. CASE pmu = u
    <3>1. SetPmu(Stale)
      BY <1>4, <2>3 DEF Killed
    <3>2. QED BY <1>1, <2>1, <2>2, <2>3, <3>1, GivenAway
  <2>4. CASE pmu # u
    <3>1. SetPmu(pmu)
      BY <1>4, <2>4 DEF Killed
    <3>2. QED BY <1>1, <2>1, <2>2, <2>4, <3>1, GivenAway
  <2>5. QED BY <2>3, <2>4
<1>5. QED BY <1>2, <1>3, <1>4

-----------------------------------------------------------------------------
(* Every step keeps the invariant.                                         *)
LEMMA NextIInv == IInv /\ [Next]_vars => IInv'
<1> SUFFICES ASSUME IInv, [Next]_vars PROVE IInv'
  OBVIOUS
<1>1. CASE Next
  <2>1. PICK u \in Users : Begin(u) \/ Run(u) \/ SetupFails(u) \/ Interrupted(u) \/ Killed(u)
    BY <1>1 DEF Next
  <2>2. CASE Programmed(u)
    BY <2>2, ProgrammedIInv
  <2>3. CASE resetPMU(u)
    BY <2>3, ResetIInv
  <2>4. CASE onStart(u)
    BY <2>4, OnStartIInv
  <2>5. CASE onEnd(u)
    BY <2>5, OnEndIInv
  <2>6. CASE Begin(u) \/ init(u) \/ resetMsrIfBusy(u) \/ PMUBusy(u) \/ Local(u) \/ SetupFails(u)
    BY <2>6, QuietIInv
  <2>7. CASE Fatal(u) \/ exit_cleanup(u) \/ Return(u) \/ Interrupted(u) \/ Killed(u)
    BY <2>7, EndIInv
  <2>8. QED BY <2>1, <2>2, <2>3, <2>4, <2>5, <2>6, <2>7 DEF Run
<1>2. CASE UNCHANGED vars
  BY <1>2 DEF vars, history, IInv, VariablesTyped, RowsFit, OthersHoldNothing, MonitorsHold,
              StaleIsAFault, HasProgrammed
<1>3. QED BY <1>1, <1>2

(* The inductive invariant of the machine and its runs.                    *)
LEMMA SpecIInv == Spec => []IInv
<1>1. QED BY InitIInv, NextIInv, PTL DEF Spec

(* The variables keep their types, and no run records more than two rows.  *)
THEOREM TypeCorrect == Spec => []TypeOK
<1>1. IInv => TypeOK
  BY DEF IInv, VariablesTyped, RowsFit, TypeOK
<1>2. QED BY SpecIInv, <1>1, PTL

(* For any number of users and faults, a run that measures holds the PMU,  *)
(* and its rows count its own events, unless another run resets the PMU or *)
(* one that programmed before it is still to clean up.                     *)
THEOREM RowsAreOwn == Spec => []UndisturbedRowsAreOwn
<1>1. IInv => UndisturbedRowsAreOwn
  BY DEF IInv, MonitorsHold, UndisturbedRowsAreOwn
<1>2. QED BY SpecIInv, <1>1, PTL

(* A user without a run never holds the PMU, and only a fault makes it     *)
(* stale.                                                                  *)
THEOREM EndedHoldNothing == Spec => []EndedRunsHoldNothing
<1>1. IInv => EndedRunsHoldNothing
  <2>1. "idle" \notin Monitored
    BY DEF Monitored
  <2>2. QED BY <2>1 DEF IInv, OthersHoldNothing, StaleIsAFault, EndedRunsHoldNothing
<1>2. QED BY SpecIInv, <1>1, PTL
=============================================================================
