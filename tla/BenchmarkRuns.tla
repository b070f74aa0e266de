---------------------------- MODULE BenchmarkRuns ----------------------------
(***************************************************************************)
(* Runs of the single-threaded benchmark (main.cpp) on one machine.  Each  *)
(* user starts one run after another; the runs of different users overlap. *)
(* They share the PMU, which outlives them: a run that dies without        *)
(* cleaning up leaves it programmed, and later runs find it busy.          *)
(*                                                                         *)
(* PCM is external: program succeeds only on a free PMU; cleanup, in a     *)
(* process that has programmed the PMU, frees it whoever holds it by then, *)
(* as often as it is called; resetPMU frees it in any process.             *)
(***************************************************************************)
EXTENDS Naturals, Sequences

CONSTANTS
  Users,     \* who runs the benchmark
  Free,      \* the PMU is not programmed
  Stale,     \* the PMU was programmed by a process that is gone
  MaxFaults  \* bound: the runs that are killed, interrupted or fail

ASSUME RunsAssumption == Free \notin Users /\ Stale \notin Users /\ Free # Stale
                         /\ MaxFaults \in Nat

VARIABLES
  pmu,    \* the user whose present run programmed the PMU, Free or Stale
  pc,     \* per user: the next statement of the run, or "idle"
  m_resetBusyDevice,  \* per user: the run has called resetMsrIfBusy
  rows,   \* per user: the rows the run recorded, "own" if the run's events were counted throughout
  own,    \* history: the users whose run's events were counted since onStart
  hit,    \* history: the users whose run lost the PMU to a reset by another
  late,   \* history: the users whose run programmed while one that had before was alive
  faults  \* history: the runs that ended early for no reason of their own

history == <<own, hit, late, faults>>
vars == <<pmu, pc, m_resetBusyDevice, rows, history>>

(* The statements of main in their order.                                  *)
Setup == {"init", "resetMsrIfBusy", "startMonitoring", "resetPMU", "fatal"}
Monitored == {"set_signal_handlers", "fill", "onStart", "onEnd", "indices",
              "onStart_again", "onEnd_again", "print", "exit_cleanup"}
Statements == {"idle", "return"} \cup Setup \cup Monitored
Handled == (Monitored \ {"set_signal_handlers"}) \cup {"return"}

Init ==
  /\ pmu = Free
  /\ pc = [u \in Users |-> "idle"]
  /\ m_resetBusyDevice = [u \in Users |-> FALSE]
  /\ rows = [u \in Users |-> <<>>]
  /\ own = {} /\ hit = {} /\ late = {}
  /\ faults = 0

Goto(u, from, to) == pc[u] = from /\ pc' = [pc EXCEPT ![u] = to]

(* The PMU belongs to somebody else from now on.                           *)
SetPmu(new) ==
  /\ pmu' = new
  /\ own' = own \cap {new}

(* Mutant: the pointer is tested the wrong way round.                      *)
NoCleanup(u) == SetPmu(pmu)

HasProgrammed(u) == pc[u] \in Monitored \cup {"return"}

(* runOnFatalError, which ~PcmContext, PCM's exit_cleanup and its signal   *)
(* handlers repeat: PCM::cleanup in a run of u, also after u has lost the  *)
(* PMU or given it back.                                                   *)
Cleanup(u) == SetPmu(IF HasProgrammed(u) THEN Free ELSE pmu)

-----------------------------------------------------------------------------
(* A user starts the benchmark.                                            *)
Begin(u) ==
  /\ Goto(u, "idle", "init")
  /\ UNCHANGED <<pmu, m_resetBusyDevice, rows, history>>

(* The process ends, and with it everything it keeps.                      *)
Ends(u) ==
  /\ m_resetBusyDevice' = [m_resetBusyDevice EXCEPT ![u] = FALSE]
  /\ rows' = [rows EXCEPT ![u] = <<>>]
  /\ hit' = hit \ {u} /\ late' = late \ {u}

(* The arguments are checked, the data base is read, the context chooses   *)
(* its events: BenchmarkSetup tells when this ends in a fatal error.       *)
init(u) ==
  /\ Goto(u, "init", "resetMsrIfBusy")
  /\ UNCHANGED <<pmu, m_resetBusyDevice, rows, history>>

(* Mutant: the flag comes too late, or does not stay.                      *)
ResetNever(u) ==
  /\ Goto(u, "resetMsrIfBusy", "startMonitoring")
  /\ UNCHANGED <<pmu, m_resetBusyDevice, rows, history>>

resetMsrIfBusy(u) ==
  /\ Goto(u, "resetMsrIfBusy", "startMonitoring")
  /\ m_resetBusyDevice' = [m_resetBusyDevice EXCEPT ![u] = TRUE]
  /\ UNCHANGED <<pmu, rows, history>>

Programmed(u) ==
  /\ pmu = Free
  /\ Goto(u, "startMonitoring", "set_signal_handlers")
  /\ SetPmu(u)
  /\ late' = IF \E v \in Users \ {u} : HasProgrammed(v) THEN late \cup {u} ELSE late
  /\ UNCHANGED <<m_resetBusyDevice, rows, hit, faults>>

(* Mutant: the flag is tested the wrong way round.                         *)
BusyInverted(u) ==
  /\ pmu # Free
  /\ Goto(u, "startMonitoring", IF m_resetBusyDevice[u] THEN "fatal" ELSE "resetPMU")
  /\ UNCHANGED <<pmu, m_resetBusyDevice, rows, history>>

PMUBusy(u) ==
  /\ pmu # Free
  /\ Goto(u, "startMonitoring", IF m_resetBusyDevice[u] THEN "resetPMU" ELSE "fatal")
  /\ UNCHANGED <<pmu, m_resetBusyDevice, rows, history>>

(* Mutant: after the reset the run goes on.                                *)
AfterReset == "set_signal_handlers"

(* What follows a reset: handleFatalError.                                 *)
ThenFatal == "fatal"

(* resetPMU: whoever holds the PMU by now loses it.                        *)
resetPMU(u) ==
  /\ Goto(u, "resetPMU", ThenFatal)
  /\ SetPmu(Free)
  /\ hit' = hit \cup (({pmu} \cap Users) \ {u})
  /\ UNCHANGED <<m_resetBusyDevice, rows, late, faults>>

(* handleFatalError: clean up and terminate.  Nothing is programmed yet.   *)
Fatal(u) ==
  /\ Goto(u, "fatal", "idle")
  /\ Cleanup(u)
  /\ Ends(u)
  /\ UNCHANGED faults

(* set_signal_handlers and the two fills.                                  *)
Local(u) ==
  /\ \/ Goto(u, "set_signal_handlers", "fill")
     \/ Goto(u, "fill", "onStart")
     \/ Goto(u, "indices", "onStart_again")
     \/ Goto(u, "print", "exit_cleanup")
  /\ UNCHANGED <<pmu, m_resetBusyDevice, rows, history>>

onStart(u) ==
  /\ Goto(u, "onStart", "onEnd") \/ Goto(u, "onStart_again", "onEnd_again")
  /\ own' = IF pmu = u THEN own \cup {u} ELSE own \ {u}
  /\ UNCHANGED <<pmu, m_resetBusyDevice, rows, hit, late, faults>>

(* What the row of the measurement tells.                                  *)
Counted(u) == IF u \in own THEN "own" ELSE "disturbed"

(* Mutant: the second measurement is taken for the first.                  *)
EndOfFirst(u) ==
  /\ Goto(u, "onEnd", "indices") \/ Goto(u, "onEnd_again", "indices")
  /\ rows' = [rows EXCEPT ![u] = Append(@, Counted(u))]
  /\ UNCHANGED <<pmu, m_resetBusyDevice, history>>

onEnd(u) ==
  /\ Goto(u, "onEnd", "indices") \/ Goto(u, "onEnd_again", "print")
  /\ rows' = [rows EXCEPT ![u] = Append(@, Counted(u))]
  /\ UNCHANGED <<pmu, m_resetBusyDevice, history>>

exit_cleanup(u) ==
  /\ Goto(u, "exit_cleanup", "return")
  /\ Cleanup(u)
  /\ UNCHANGED <<m_resetBusyDevice, rows, hit, late, faults>>

(* The return from main destroys the context.                              *)
Return(u) ==
  /\ Goto(u, "return", "idle")
  /\ Cleanup(u)
  /\ Ends(u)
  /\ UNCHANGED faults

Run(u) ==
  \/ init(u) \/ resetMsrIfBusy(u) \/ Programmed(u) \/ PMUBusy(u) \/ resetPMU(u) \/ Fatal(u)
  \/ Local(u) \/ onStart(u) \/ onEnd(u) \/ exit_cleanup(u) \/ Return(u)

-----------------------------------------------------------------------------
(* Faults.                                                                 *)

Fault ==
  /\ faults < MaxFaults
  /\ faults' = faults + 1

(* Missing data, an MSR that cannot be accessed, an unknown error of PCM.  *)
SetupFails(u) ==
  /\ Goto(u, "init", "fatal") \/ Goto(u, "startMonitoring", "fatal")
  /\ Fault
  /\ UNCHANGED <<pmu, m_resetBusyDevice, rows, own, hit, late>>

(* A signal whose handler is installed: clean up and exit.                 *)
Interrupted(u) ==
  /\ pc[u] \in Handled
  /\ Goto(u, pc[u], "idle")
  /\ Cleanup(u)
  /\ Ends(u)
  /\ Fault

(* SIGKILL, any signal while no handler is installed, or an exception that *)
(* nothing catches: the process is gone at once.                           *)
Killed(u) ==
  /\ pc[u] # "idle"
  /\ Goto(u, pc[u], "idle")
  /\ SetPmu(IF pmu = u THEN Stale ELSE pmu)
  /\ Ends(u)
  /\ Fault

Next == \E u \in Users : Begin(u) \/ Run(u) \/ SetupFails(u) \/ Interrupted(u) \/ Killed(u)

(* A run that was started is executed to its end; nobody has to start one. *)
Fairness == \A u \in Users : WF_vars(Run(u))

Spec == Init /\ [][Next]_vars /\ Fairness
-----------------------------------------------------------------------------
(* Type invariant of the machine and its runs.                             *)
TypeOK ==
  /\ pmu \in Users \cup {Free, Stale}
  /\ pc \in [Users -> Statements]
  /\ m_resetBusyDevice \in [Users -> BOOLEAN]
  /\ rows \in [Users -> Seq({"own", "disturbed"})] /\ \A u \in Users : Len(rows[u]) <= 2
  /\ own \subseteq Users /\ hit \subseteq Users /\ late \subseteq Users
  /\ faults \in 0 .. MaxFaults

(* A run has the PMU to itself while it measures, and what it records is   *)
(* counted for its own events throughout, unless another run resets the    *)
(* PMU or one that programmed before it is still to clean up.              *)
UndisturbedRowsAreOwn ==
  \A u \in Users : pc[u] \in Monitored /\ u \notin hit \cup late =>
    pmu = u /\ \A i \in DOMAIN rows[u] : rows[u][i] = "own"

(* Only a run that is killed leaves the PMU programmed: every other end    *)
(* cleans up, so a user without a run does not hold it.                    *)
EndedRunsHoldNothing ==
  /\ \A u \in Users : pc[u] = "idle" => pmu # u
  /\ faults = 0 => pmu # Stale

Attempts(u) == pc[u] = "startMonitoring"

(* Whatever was killed: as long as users keep trying, runs keep getting    *)
(* the PMU.  The flag of resetMsrIfBusy is what brings a stale PMU back.   *)
PmuIsNotLost == ([]<>(\E u \in Users : Attempts(u))) => []<>(pmu \in Users)

(* A user who is alone with the machine and keeps trying gets reports with *)
(* two rows of the run's own events.                                       *)
AloneIsEnough ==
  \A u \in Users :
    (<>[](\A v \in Users \ {u} : pc[v] = "idle")) /\ ([]<>Attempts(u)) =>
      []<>(pc[u] = "exit_cleanup" /\ rows[u] = <<"own", "own">>)
=============================================================================
