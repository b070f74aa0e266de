------------------------- MODULE MultithreadedBench -------------------------
(***************************************************************************)
(* main_multithreaded.cpp: main starts monitoring, installs the signal     *)
(* handlers, spawns a worker for each of some fixed core numbers, joins    *)
(* them and cleans up.  Each worker tries to pin itself to its core with   *)
(* an AffinityGuard, measures `bound' operations with a                    *)
(* CounterHandleRecorder<CoreCountersHandle> of its own and prints its     *)
(* report.  The workers share the PMU, the cores and cout.  The context is *)
(* configured before the first state: main is about to call                *)
(* startMonitoring.                                                        *)
(*                                                                         *)
(* A hardware counter is the number of events on its core since the PMU    *)
(* was programmed.  All columns of a measurement count the same events.    *)
(***************************************************************************)
EXTENDS CounterRecorder

CONSTANTS
  CoreNumbers, \* the numbers a core of some machine may have
  Workers,     \* the core numbers given a worker; a worker is named by its core's
  Bounds,      \* the bounds the measuring loop of work may have
  Pieces,      \* the pieces a line reaches cout in, its end the last
  MaxCount     \* bound: no counter grows beyond MaxCount

ASSUME BenchAssumption ==
  /\ Workers \subseteq CoreNumbers
  /\ Bounds \subseteq Nat /\ Pieces \in Nat \ {0} /\ MaxCount \in Nat
  /\ Zero = 0

VARIABLES
  cores,        \* the cores this machine has
  main,         \* main's next statement
  status,       \* how the process ended, or "running"
  handlersSet,  \* set_signal_handlers has been called
  signalled,    \* the signal handler runs: it has cleaned up and will exit
  programmed,   \* the PMU counts the events of startMonitoring
  count,        \* per core: its hardware counter
  pc,           \* per worker: its next statement
  affinity,     \* per worker: the cores it may run on
  bound,        \* the bound of the loop; the recorders hold OperationCount
  iteration,    \* per worker: the loop variable i
  startState,   \* per worker: m_startState of its handle
  recorder,     \* per worker: its CounterRecorder
  line,         \* per worker: the lines of its report written; print's loop is at row line - 2
  piece,        \* per worker: the pieces of its next line written
  pinned,       \* history: the workers whose pthread_setaffinity_np succeeded
  own,          \* history, per worker: its events since its onStart
  truth         \* history, per worker: the events and validity of each sample

hardware == <<cores, programmed, count>>
process == <<status, handlersSet, signalled>>
placement == <<affinity, pinned>>
measurements == <<bound, iteration, startState, recorder, own, truth>>
threads == <<pc, placement, measurements>>
report == <<line, piece>>
vars == <<main, process, hardware, threads, report>>

Ended == {"exited", "terminated", "interrupted", "killed", "aborted", "undefined"}
WorkerSteps == {"unborn", "pin", "loop", "measuring", "failed", "terminate",
                "core", "header", "rows", "unpin", "done"}

Init ==
  /\ main = "startMonitoring"
  /\ status = "running" /\ handlersSet = FALSE /\ signalled = FALSE
  /\ cores \in SUBSET CoreNumbers \ {{}}
  /\ programmed = FALSE
  /\ count = [c \in CoreNumbers |-> 0]
  /\ pc = [w \in Workers |-> "unborn"]
  /\ affinity = [w \in Workers |-> cores] /\ pinned = {}
  /\ bound \in Bounds
  /\ iteration = [w \in Workers |-> 0]
  /\ startState = [w \in Workers |-> 0]
  /\ recorder = [w \in Workers |-> NewRecorder]
  /\ line = [w \in Workers |-> 0] /\ piece = [w \in Workers |-> 0]
  /\ own = [w \in Workers |-> 0]
  /\ truth = [w \in Workers |-> <<>>]

-----------------------------------------------------------------------------
(* main                                                                    *)

MainStep(from, to) == status = "running" /\ main = from /\ main' = to

(* PCM::program succeeds, or handleFatalError terminates the process.      *)
startMonitoring ==
  /\ MainStep("startMonitoring", "set_signal_handlers")
  /\ \/ programmed' = TRUE /\ UNCHANGED status
     \/ programmed' = FALSE /\ status' = "terminated"
  /\ UNCHANGED <<handlersSet, signalled, cores, count, threads, report>>

set_signal_handlers ==
  /\ MainStep("set_signal_handlers", "spawn")
  /\ handlersSet' = TRUE
  /\ UNCHANGED <<status, signalled, hardware, threads, report>>

Spawn(w) ==
  /\ status = "running" /\ main = "spawn" /\ pc[w] = "unborn"
  /\ pc' = [pc EXCEPT ![w] = "pin"]
  /\ main' = IF \A v \in Workers \ {w} : pc[v] # "unborn" THEN "join" ELSE main
  /\ UNCHANGED <<process, hardware, placement, measurements, report>>

(* The std::thread constructor throws and nothing catches it; whether the  *)
(* handlers of set_signal_handlers see the abort is up to the PCM library. *)
SpawnFails ==
  /\ status = "running" /\ main = "spawn"
  /\ status' = "aborted"
  /\ programmed' \in {programmed, FALSE}
  /\ UNCHANGED <<main, handlersSet, signalled, cores, count, threads, report>>

(* Mutants: detached workers, and waiting for a step the thread has left.  *)
Detached(w) == pc[w] # "unborn"
AtDestructor(w) == pc[w] = "unpin"

Joinable(w) == pc[w] = "done"

Join ==
  /\ MainStep("join", "exit_cleanup")
  /\ \A w \in Workers : Joinable(w)
  /\ UNCHANGED <<process, hardware, threads, report>>

exit_cleanup ==
  /\ MainStep("exit_cleanup", "return")
  /\ programmed' = FALSE
  /\ UNCHANGED <<process, cores, count, threads, report>>

(* return runs ~PcmContext, which cleans up once more.                     *)
Return ==
  /\ MainStep("return", "returned")
  /\ programmed' = FALSE
  /\ status' = "exited"
  /\ UNCHANGED <<handlersSet, signalled, cores, count, threads, report>>

Main == startMonitoring \/ set_signal_handlers \/ (\E w \in Workers : Spawn(w))
        \/ Join \/ exit_cleanup \/ Return

-----------------------------------------------------------------------------
(* work                                                                    *)

Goto(w, from, to) == status = "running" /\ pc[w] = from /\ pc' = [pc EXCEPT ![w] = to]

(* Mutant: the guard is destroyed at once, so the thread is not pinned.    *)
PinTemporary(w) ==
  /\ Goto(w, "pin", "loop")
  /\ pinned' = pinned \cup {w}
  /\ UNCHANGED <<main, process, hardware, affinity, measurements, report>>

(* AffinityGuard's constructor.  The call may fail, and must where there   *)
(* is no such core; nobody looks at its result.                            *)
Pin(w) ==
  /\ Goto(w, "pin", "loop")
  /\ \/ /\ w \in cores
        /\ affinity' = [affinity EXCEPT ![w] = {w}]
        /\ pinned' = pinned \cup {w}
     \/ UNCHANGED placement
  /\ UNCHANGED <<main, process, hardware, measurements, report>>

(* PCM looks the core up by its number unchecked.                          *)
NoSuchCore(w) ==
  /\ status = "running" /\ pc[w] = "loop"
  /\ iteration[w] < bound /\ w \notin cores
  /\ status' = "undefined"
  /\ UNCHANGED <<main, handlersSet, signalled, hardware, threads, report>>

OnStart(w) ==
  /\ iteration[w] < bound /\ w \in cores
  /\ Goto(w, "loop", "measuring")
  /\ startState' = [startState EXCEPT ![w] = count[w]]
  /\ own' = [own EXCEPT ![w] = 0]
  /\ UNCHANGED <<main, process, hardware, placement, bound, iteration, recorder, truth, report>>

(* Mutant: start minus end.                                                *)
Reversed(w) == [c \in Columns |-> startState[w] - count[w]]

(* The handle reads the counter of its core, wherever the thread runs.     *)
Difference(w) == [c \in Columns |-> count[w] - startState[w]]

OnEnd(w) ==
  IF RecordFails(recorder[w])
  THEN /\ Goto(w, "measuring", "failed")
       /\ UNCHANGED <<main, process, hardware, placement, measurements, report>>
  ELSE /\ Goto(w, "measuring", "loop")
       /\ recorder' = [recorder EXCEPT ![w] = Recorded(@, Difference(w))]
       /\ iteration' = [iteration EXCEPT ![w] = @ + 1]
       /\ truth' = [truth EXCEPT ![w] = Append(@, [events |-> own[w], live |-> programmed])]
       /\ UNCHANGED <<main, process, hardware, placement, bound, startState, own, report>>

(* Mutant: the handler is called without runOnFatalError.                  *)
FatalNoCleanup(w) ==
  /\ Goto(w, "failed", "terminate")
  /\ UNCHANGED <<main, process, hardware, placement, measurements, report>>

(* handleFatalError with the default handler: clean up, then terminate.    *)
FatalCleanup(w) ==
  /\ Goto(w, "failed", "terminate")
  /\ programmed' = FALSE
  /\ UNCHANGED <<main, process, cores, count, placement, measurements, report>>

Terminate(w) ==
  /\ status = "running" /\ pc[w] = "terminate"
  /\ status' = "terminated"
  /\ UNCHANGED <<main, handlersSet, signalled, hardware, threads, report>>

LoopDone(w) ==
  /\ iteration[w] >= bound
  /\ Goto(w, "loop", "core")
  /\ UNCHANGED <<main, process, hardware, placement, measurements, report>>

(* The report.  `std::lock_guard<std::mutex> lock_guard(mutex)' names a    *)
(* type in its parentheses: it declares a function and takes no lock.  A   *)
(* line takes several <<, and other threads may write between any two.     *)
Rest == <<main, process, hardware, placement, measurements>>

EndsLine(w) == piece[w] + 1 = Pieces

print(w) ==
  /\ line' = [line EXCEPT ![w] = IF EndsLine(w) THEN @ + 1 ELSE @]
  /\ piece' = [piece EXCEPT ![w] = IF EndsLine(w) THEN 0 ELSE @ + 1]
  /\ UNCHANGED Rest

PrintCore(w) == Goto(w, "core", IF EndsLine(w) THEN "header" ELSE "core") /\ print(w)

PrintHeader(w) == Goto(w, "header", IF EndsLine(w) THEN "rows" ELSE "header") /\ print(w)

(* print's loop over the rows below m_index.                               *)
PrintRow(w) ==
  /\ line[w] < recorder[w].m_index + 2
  /\ Goto(w, "rows", "rows")
  /\ print(w)

(* The endl that work adds to the rows makes an empty line.                *)
Printed(w) ==
  /\ line[w] >= recorder[w].m_index + 2
  /\ Goto(w, "rows", "unpin")
  /\ line' = [line EXCEPT ![w] = @ + 1]
  /\ UNCHANGED <<Rest, piece>>

(* AffinityGuard's destructor, and the end of the thread.  Whether the old *)
(* mask comes back is not checked either; nothing runs under it.           *)
Unpin(w) ==
  /\ Goto(w, "unpin", "done")
  /\ affinity' = [affinity EXCEPT ![w] = cores]
  /\ UNCHANGED <<main, process, hardware, pinned, measurements, report>>

Worker(w) ==
  \/ Pin(w) \/ NoSuchCore(w) \/ OnStart(w) \/ OnEnd(w) \/ FatalCleanup(w) \/ Terminate(w) \/ LoopDone(w)
  \/ PrintCore(w) \/ PrintHeader(w) \/ PrintRow(w) \/ Printed(w) \/ Unpin(w)

-----------------------------------------------------------------------------
(* The machine, the scheduler and the user.                                *)

Counted(c) == count[c] < MaxCount /\ count' = [count EXCEPT ![c] = @ + 1]

(* The measured operation causes an event on any core the thread may run   *)
(* on: the scheduler moves it as it likes between those.                   *)
Event(w) ==
  /\ status = "running" /\ pc[w] = "measuring" /\ programmed
  /\ \E c \in affinity[w] : Counted(c)
  /\ own' = [own EXCEPT ![w] = @ + 1]
  /\ UNCHANGED <<main, process, cores, programmed, pc, placement, bound, iteration, startState,
                 recorder, truth, report>>

(* Another thread or process causes one.                                   *)
OtherEvent(c) ==
  /\ status = "running" /\ programmed
  /\ Counted(c)
  /\ UNCHANGED <<main, process, cores, programmed, threads, report>>

(* A signal: before set_signal_handlers its default action kills the       *)
(* process, after it the handler cleans up and then exits.                 *)
Signal ==
  /\ status = "running" /\ ~signalled
  /\ IF handlersSet
     THEN signalled' = TRUE /\ programmed' = FALSE /\ UNCHANGED status
     ELSE status' = "killed" /\ UNCHANGED <<signalled, programmed>>
  /\ UNCHANGED <<main, handlersSet, cores, count, threads, report>>

SignalExit ==
  /\ status = "running" /\ signalled
  /\ status' = "interrupted"
  /\ UNCHANGED <<main, handlersSet, signalled, hardware, threads, report>>

Environment ==
  \/ SpawnFails
  \/ \E w \in Workers : Event(w)
  \/ \E c \in cores : OtherEvent(c)
  \/ Signal

Over == status \in Ended /\ UNCHANGED vars

Next == Main \/ (\E w \in Workers : Worker(w)) \/ SignalExit \/ Environment \/ Over

(* The operating system runs every runnable thread; nobody has to send a   *)
(* signal or cause an event.                                               *)
Fairness == WF_vars(Main) /\ WF_vars(SignalExit) /\ \A w \in Workers : WF_vars(Worker(w))

Spec == Init /\ [][Next]_vars
FairSpec == Spec /\ Fairness
-----------------------------------------------------------------------------
(* Type invariant of the whole program.                                    *)
TypeOK ==
  /\ main \in {"startMonitoring", "set_signal_handlers", "spawn", "join",
               "exit_cleanup", "return", "returned"}
  /\ status \in Ended \cup {"running"}
  /\ handlersSet \in BOOLEAN /\ signalled \in BOOLEAN /\ programmed \in BOOLEAN
  /\ cores \in SUBSET CoreNumbers \ {{}}
  /\ count \in [CoreNumbers -> 0 .. MaxCount]
  /\ pc \in [Workers -> WorkerSteps]
  /\ affinity \in [Workers -> SUBSET cores] /\ pinned \subseteq Workers
  /\ bound \in Bounds
  /\ iteration \in [Workers -> 0 .. bound]
  /\ startState \in [Workers -> 0 .. MaxCount]
  /\ \A w \in Workers : IsRecorder(recorder[w], 0 .. MaxCount)
  /\ line \in [Workers -> Nat] /\ piece \in [Workers -> 0 .. Pieces - 1]
  /\ own \in [Workers -> Nat]
  /\ truth \in [Workers -> Seq([events : Nat, live : BOOLEAN])]

(* Where pinning succeeded, a row taken while the PMU was programmed       *)
(* counts at least the events its worker caused between onStart and onEnd: *)
(* AffinityGuard keeps the thread on the core whose counters its handle    *)
(* reads.  Where it failed nothing says so, and rows may miss events.      *)
CountsCoverOwnEvents ==
  \A w \in pinned : \A n \in 1 .. recorder[w].m_index :
    truth[w][n].live =>
      \A c \in RowColumns : Row(recorder[w], n - 1)[c] >= truth[w][n].events

(* The process is stopping early: after a signal or a fatal error other    *)
(* threads keep running for a while with the PMU cleaned up.               *)
Stopping == signalled \/ \E w \in Workers : pc[w] \in {"failed", "terminate"}

(* The first piece of row n of w's report is on cout.                      *)
RowBegun(w, n) == line[w] > n + 1 \/ (line[w] = n + 1 /\ piece[w] > 0)

(* Unless the process is stopping, every row on cout was measured while    *)
(* the PMU was programmed: main cleans up only after joining all workers.  *)
ReportedRowsAreLive ==
  ~Stopping =>
    \A w \in Workers : \A n \in 1 .. recorder[w].m_index : RowBegun(w, n) => truth[w][n].live

(* When main returns, every worker has written its whole report: its core, *)
(* the header, one row per iteration and the empty line behind them.       *)
ExitReportsEverything ==
  status = "exited" => \A w \in Workers : line[w] = bound + 3 /\ piece[w] = 0

(* Every way out but an uncaught exception or a signal that came before    *)
(* set_signal_handlers leaves the PMU free for the next user; a core that  *)
(* does not exist leaves the program undefined.                            *)
PmuIsReleased == status \in {"exited", "terminated", "interrupted"} => ~programmed

(* A worker has begun its report and not ended it.                         *)
Reporting(w) == pc[w] \in {"core", "header", "rows"} /\ (line[w] > 0 \/ piece[w] > 0)

(* Reports and their lines are not torn apart: no worker writes while      *)
(* another is in the middle of its report, as the lock_guard in front of   *)
(* the three statements says.                                              *)
ReportsAreContiguous ==
  \A v \in Workers, w \in Workers : Reporting(v) /\ Reporting(w) => v = w

(* The program ends.                                                       *)
Termination == <>(status # "running")
=============================================================================
