# A verification development for pcm-wrapper

pcm-wrapper is a thin C++ layer over Intel's PCM library: it reads Intel's
event lists, programs four events into the performance monitoring unit (PMU),
samples the hardware counters before and after an operation and keeps the
differences in tables. This directory holds TLA+ modules translated from that
code, the TLC configurations that check them, and TLAPS proofs.

## Inventory

The repository's own code is about a thousand lines; `3rd-party/` is vendored
(Catch, nlohmann json) and `db/` is Intel's data.

| part | code | state | operations |
|---|---|---|---|
| error path | `error_handling.*` | the installed handler; whether the PMU is still programmed | `FATAL_ERROR`, `ASSERT`, `setDefaultErrorHandler`, `resetDefaultErrorHandler` |
| event data base | `hw_counter_json_reader.*`, `hw_event.hpp` | a map from event names to encodings and supported models | `loadFromDirectory`, `loadCounters`, `getCounters` |
| PCM context | `pcm_context.*` (`PcmContext`) | the events of this model, four chosen names, the reset flag | `init`, `setCounter`, `resetMsrIfBusy`, `startMonitoring`, handles, header, destructor |
| handles | `CoreCountersHandle`, `SystemCountersHandle`, `RDPMCCountersHandle` | two samples | `onStart`, `onEnd`, getters |
| recorder | `CounterRecorder`, `CounterHandleRecorder` | two flat vectors and a row index | `onEnd`, `reset`, `operator<<` |
| store | `hw_counters_store.*` | a vector and an index | `append`, `operator[]` |
| benchmarks | `main.cpp`, `main_multithreaded.cpp` | threads, affinity, `cout` | the programs |

How they interact:

- A benchmark loads the data base into a reader, hands it to
  `PcmContext::init`, may choose events, calls `startMonitoring`, and takes
  handles from the context. Handles are copied into recorders; the recorders
  are called from the measuring threads.
- Every part calls the error path, which reaches past all of them to the PCM
  singleton (`PCM::cleanup`) and then to a replaceable global handler. The
  handler decides whether the code behind a `FATAL_ERROR` runs: the default
  one terminates, the one the unit tests install returns.
- The PMU, the cores and `cout` are shared by all threads, and the PMU by all
  processes of the machine.

What is hard, and what makes each part correct:

| part | hard | correct when |
|---|---|---|
| error path | control comes back from a "fatal" error when the handler returns; other threads run on while the PMU is cleaned up | no undefined behaviour before an error was reported; every end of the process leaves the PMU free |
| event data base | `readdir` gives the files in any order, or fails; a file may vanish or not parse | a load that returns has passed no file over; what `getCounters` answers depends on the files, not on their order |
| PCM context | calls in any order; lookups that insert; another user of the PMU | the PMU counts supported events, and those the header names |
| recorder, store | index arithmetic at the limit, reuse after `reset`, a bounds check that tests the wrong number | a log of whole rows in order, and an error exactly at the overrun |
| RDPMC handle | counters narrower than the subtraction and read one after another | the answers are exact but for wraps, and every column covers the operation |
| benchmarks | interleaved threads, migration, pinning that fails, signals at any moment, one thread's fatal error among others | rows of a pinned worker count its own events; rows are taken while the PMU runs, and are all reported; the program ends |
| successive and concurrent processes | the PMU outlives a process that is killed; a run that finds it busy resets it, whoever uses it by then; a run that was reset still cleans up | a run's rows are its own unless another resets the PMU or is still to clean up; the PMU is never lost for good |

`PROJECT.json` lists the hazards behind this table, each at its line, with the
properties that cover it.

## The modules

| module | models | state and actions |
|---|---|---|
| `FatalError` | `error_handling.*` | `handler`, `status`, `programmed`, `raised`, and the operations as action formulas that the other modules use inside their actions. `handleFatalError(after)` is a whole `FATAL_ERROR`: clean up, call the handler, and end in the status `after` if it returns |
| `SampleLog` | the promise of a store of measurements | the abstract specification: a bounded log of whole samples that reports its overrun |
| `CounterRecorder` | the class `CounterRecorder` | operators over one record with the members of the class: `Recorded` is `recordCounter`, `Rows` what `print` shows, `RecordFails` and `RecordStrays` the outcomes of its checks |
| `CounterHandleRecorder` | `CounterHandleRecorder<T>` and its client | one action per public call; hardware counters are sampled by time, so that a count is the column and the two moments it is the difference of |
| `HwCounterStore` | `HwCounterStore` and its client | `append`, `read` for `operator[]`, and the handler |
| `MultithreadedBench` | `main_multithreaded.cpp` on its machine | main and each worker statement by statement with a program counter, which cores the machine has, their counters, where each thread may run, other threads, signals, and how much of its report each worker has written to `cout`; it uses the operators of `CounterRecorder` for each worker's table |
| `RdpmcCounterHandle` | `RDPMCCountersHandle` | `onStart` and `onEnd` are six reads each, one step per `rdpmc`; a counter is the number of its events modulo its width; `getCounts` is the three getters |
| `BenchmarkSetup` | `main.cpp:31-39`, `main_multithreaded.cpp:117-125` | the composition: it extends `HwCounterJsonReader`, whose actions are its loading, and instantiates `PcmContext`; the context's `supported` is what the reader answers for this machine's model, and `main` is the next statement |
| `BenchmarkRuns` | `main.cpp` in full, on a machine | per user the next statement of the present run; the PMU and whose it is; kills, signals, failures |
| `HwCounterJsonReader` | the reader and `HwEvent` | one step per file `readdir` returns and one per event loaded |
| `PcmContext` | `PcmContext` and its client | one action per call, `startMonitoring` split by the outcome of `PCM::program`; another program may take and leave the PMU |
| `MCMultithreadedBench`, `MCPcmContext`, `MCBenchmarkSetup` | | constants and symmetry for TLC |
| `CounterRecorderLemmas`, `*Proofs` | | lemmas, theorems and proofs |

Conventions. Operators carry the names of the functions they model; `print`
stands for `operator<<` together with `CounterRecorder::print`. A behaviour the
language leaves undefined (a store or read outside a vector, a call through the
uninitialised `m_pcm`, a core that does not exist) ends in `status =
"undefined"`, after which nothing happens; only the destructor, which usually
survives an indeterminate pointer or crashes, keeps both outcomes. Variables
marked "history" are not in the code: they record what happened so that a
property can refer to it. Definitions marked "Mutant" are not in the code
either: each is the code with a plausible slip, kept beside the definition it
replaces to show that a property would notice.

Abstractions. An event name, an encoding, a CPU model are model values. In
`PcmContext` the encoding of a supported event is identified with its name,
because what counts there is whether a register holds the chosen event or the
`(0, 0)` of a value-initialised `HwEvent`. In `HwCounterJsonReader` a file is
the model its name stands for and the sequence of events it lists; JSON text
and the conversion of hexadecimal strings are left out, except that a file may
fail to parse. `BenchmarkSetup` keeps both: register `i` counts the encoding
the reader's map has for the name the context programmed. In `BenchmarkRuns` a
row is only whether its run's events were counted from `onStart` to `onEnd`. In
`RdpmcCounterHandle` the moduli of half a counter, a counter and a word are
constants (2^32, 2^40 or 2^48, and 2^64 in the program); the only thing assumed
of them is that a counter's divides the word's. In `MultithreadedBench` and
`RdpmcCounterHandle` all columns of a row count the same events. Printed text
is left out except for how many lines, and pieces of a line, of which worker
are out: `Pieces` is the number of pieces a line is written in (the program
uses one `<<` per number and delimiter, and `cout` is not locked between them);
what matters is that there are several.

Error handlers. A handler terminates the process or returns. One that throws is
left out: nothing in the repository installs one, and the exception would
unwind through each caller to whoever catches it. In `RdpmcCounterHandle` the
reads and the operation happen in program order; `rdpmc` is not a serialising
instruction, so on the hardware the bracket of `ColumnsBracketTheOperation` is
as wide as the processor reorders around it.

Cleaning up. `PCM::cleanup` is called by a fatal error, by `exit_cleanup`, by
`~PcmContext` and by PCM's signal handlers, and nobody asks whether this
process still holds the PMU. `BenchmarkRuns` assumes of the library that the
call stops the counters, whoever programmed them by then, in a process that
has programmed the PMU before, and does nothing in one that never has. A run
that lost the PMU to a reset, or that is between its two cleanups, therefore
stops whoever programs in between; `late` remembers the runs exposed to that.

## The runs

| run | question | instance |
|---|---|---|
| `handle_recorder` | does the table stay a log of whole rows, under every sequence of calls, resets and handler changes? | two rows of three events, three ticks, one call beyond the capacity |
| `handle_recorder_inside` | *violated:* do the checks keep every store inside? | see Findings |
| `store` | are reads what was appended, and errors exactly the misuses? | capacity two, indices to three, two values |
| `bench` | are the reports complete when main returns, their rows live, and the rows of pinned workers measured on the right core, under every interleaving? | machines with one or both of two cores, two workers, two iterations, lines of two pieces, two events per core |
| `bench_fair` | does the program end, whatever the loop's bound, and does a worker's fatal error release the PMU while the other measures? | loops of one and two iterations on recorders of one row, with fairness |
| `bench_lock` | *violated:* are reports contiguous? | see Findings |
| `reader` | is no file passed over, is the map the function of the loaded events, complete for every model, and is an event's encoding independent of the order if the files agree on the event? | every directory of two files of up to two events, read in full or cut short, two models, two encodings |
| `context` | are monitored events supported and named by the header, and exactly the unknown names reported? | every subset of five events supported, two calls of `setCounter` |
| `setup` | from the files to the PMU: is a missing default event always reported, and each default event programmed with the right encoding if the files agree on it? | every directory of two files of up to two events; two events stand for the four defaults |
| `setup_codes` | *violated:* is the PMU programmed with the encodings of its own model? | see Findings |
| `runs` | are a run's rows its own if none that programmed earlier is still to clean up and none resets it, is the PMU released, and does it come back after a kill? | three users, two faults |
| `rdpmc` | are the differences exact but for wraps, and does every column cover the operation? | counters modulo 4 in halves modulo 2, words modulo 8; three columns, two cores, five events |

Why the bounds are enough. The recorder's arithmetic is about neighbouring rows
and the last one: two rows of three events have both, with different strides in
the two vectors (3 and 2), and `MaxRecords` is one more than the capacity, so
the overrun happens. A print after an overrun does not happen there: with two
rows and a handler that returns, the store of the common counters has left the
vector before, and the model ends. With one row that store is refused and a
later print walks past the vectors; that case is covered by the proofs only.
Width three is checked there, widths one and two in the bench runs, and all of
them, with every number of rows, are covered by the proofs. In the bench two
workers are the least that interleave, two iterations the least with an earlier
row, two pieces the least with a place inside a line, and a count of two tells
an own event from another's; a machine that lacks one of the cores, or refuses
to pin, is among the instances; the workers are symmetric, and symmetry is used
only in the runs without a liveness property. For the reader, two files are
needed to disagree on an event or to collect models, two events to tell the one
that is known from the one that is new, and two elements in a file to list an
event twice. The context reads four registers and one event outside the
defaults; more calls of `setCounter` than two only repeat. In `setup` one event
is the default of a register alone and one is shared by three, so a name may be
missing for one register or for several. Three users are what it takes to reset
a PMU that has changed hands since it was found busy, and what it takes for a
run that was reset to stop one that was not; a fault per user who may disturb
the third is enough to leave the PMU programmed and to fail once more behind
that. For `rdpmc` the moduli differ from each other, as they do in the program,
and a count to five wraps a counter modulo 4; one that wraps twice within an
operation is out of the run's reach and covered by the proof.

Deadlock. The clients of the recorder, the store, the reader and the context
stop when the bounds are used up or the process has ended, and the setup when
the measurements begin, so those runs do not check deadlock. `runs` and
`rdpmc` do. The bench does: its only state without a real successor is
the end of the process (`Over`).

Fairness. `FairSpec` assumes weak fairness of main's next statement, of each
worker's and of the `exit` in the signal handler: the operating system runs
every runnable thread, and none of those steps waits for anything but
`Joinable`. No fairness is assumed for `SpawnFails`, signals, events
and other threads. `Termination` then says that main's join is
reached whatever happens.

`BenchmarkRuns` assumes weak fairness of the steps of a run that was started,
which wait for nothing. That a user starts a run is never assumed:
`PmuIsNotLost` and `AloneIsEnough` say what happens if users keep trying. The
code promises no more: two users who start over for ever may reset each other
every time, so neither property says that each of several users succeeds.

## The proofs

All theorems are of the form `Spec => []Inv`, `Spec => [][A]_v` or `Spec =>
AbstractSpec`, for every value of the constants that satisfies the assumptions
of the modules: sizes and bounds are naturals, there are four registers, the
default names are names, the machine of the setup is of a recognised model,
`NoModel` is no model, workers are named by core numbers, a line has at least
one piece, a recorder keeps one to four events, the bounds reach the store's
capacity and every value a counter shows, and a counter's modulus divides the
word's. The bounds of the models (`MaxTime`, `MaxLoads`, ...) are constants of
the theorems too, so the theorems hold for every bound.

- `CounterRecorderLemmas`: whatever the size and the width, when the checks of
  `recordCounter` pass the stores are inside the vectors (`RoomIsUsed`), when
  the table is full the checks fail (`FullIsReported`), a recorded row is the
  last one shown and earlier rows are unchanged (`RecordedAddsRow`), and
  printing a table with no more rows than fit reads inside (`PrintIsInside`).
  This is where the products of the index arithmetic are handled.
- `CounterHandleRecorderProofs`: `TypeCorrect`, `RowsCorrect`, `NoOverlap`,
  `ErrorsComeFirst`, `Refinement`. `RowsAreTheMeasurements` is not inductive
  alone: the invariant adds that the rows fit the table while no error was
  reported, without which the lemmas do not apply, and that the samples taken
  are ordered in time, which `NoOverlap` needs. The refinement maps the log to
  the rows shown until an error is reported: `OnEnd` is `Record` or
  `Overrun`, `ClientReset` is `Clear`, every other step stutters.
- `HwCounterStoreProofs`: `TypeCorrect`, `ReadsCorrect`, `ErrorsExact`,
  `Refinement`. What the properties lack is that the vector holds what was
  appended, slot by slot, until the append too many (`CountsKept`): that append
  may store past the vector and go on with a handler that returns, but it has
  reported an error, and from then on the log is overrun. The refinement maps
  the log to the slots below the index and the overrun to `refused`, which is
  set where the assert of `append` fails and reports, so that an append too many
  without a report would be a log that is too long; `RefusalsAreExact` joins
  that to the number of appends. `append` is `Record` or `Overrun`, reads and
  handlers stutter.
- `MultithreadedBenchProofs`: `TypeCorrect`, `CountsCover`, `ReportedLive`,
  `ExitReports`, `PmuReleased`, for any cores, workers, iterations and pieces.
  The invariant has four parts. The workers' (`Measured`): a worker whose
  pinning succeeded may run on its core only until it has finished its loop, so
  the growth of that core's counter is at least its own events; of the others
  nothing is said. Main's (`Controlled`): which workers exist at each statement
  of main, that main goes past `join` only when all are done, and who may hold
  the PMU at each end of the process. `SamplesAreLive`: all rows are live
  unless the process is stopping; it is inductive because a worker measures
  only while main waits for it. And `cout`'s (`LinesFit`): how many lines a
  worker has written at each of its statements, and that no piece is left over
  behind the last. `WhatStepsDo` sorts the steps by what they do to a worker,
  so that each part has a few kinds of steps to survive instead of every
  statement.
- `RdpmcCounterHandleProofs`: `TypeCorrect`, `SamplesCorrect`,
  `CountsAreExact`, `ColumnsBracket`, for every modulus and any number of
  columns, however often a counter wraps. The lemmas are the arithmetic: the
  two halves give the counter back (`Division`), a remainder is determined by
  its class (`OneRemainder`, `SameRemainder`), and two moduli of which one
  divides the other (`Moduli`). The invariant adds that a sample is the count
  at its read modulo the counter (`ShownCounts`, which `SamplesCorrect` states)
  and that, while the thread stays, counts grow in the order of the reads
  (`ReadInOrder`).
- `BenchmarkSetupProofs`, the reader: `TypeCorrect`, `CountersCorrect`,
  `KnownEvents`, `AnswersComplete`, `AgreementFixes`, `NoFilePassedOver`.
  `CountersAreTheFacts` relates the map to the events loaded so far; with the
  types of the files being read it is inductive. That no file is lost needs
  more (`Accounted`): at any point within a file and a directory, a fact was
  loaded or is still to come from the open file exactly when a directory read
  before, or a file already taken of the open one, lists it. At rest that says
  that the facts loaded are the facts listed, whatever order `readdir` chose.
  That a load returns only if it could take every file it was given is kept
  file by file as well (`AllTaken`).
- `BenchmarkSetupProofs`, the composition: `SetupTypeCorrect`,
  `InitErrorsExact`, `AgreementPrograms`. The context's theorems do not carry
  over: they are about a `supported` that never changes, and here it changes
  while the reader loads. The invariant `SetupIInv` says instead when each part
  moves. Once main is past `loadFromDirectory` the reader rests
  (`ReaderRests`), so that what is supported is what the files of this model
  list (`AnsweredAreListed`). Up to `init` the context's map is empty
  (`Fresh`), so that `init` leaves in it exactly what the reader answers. From
  then on the map is the identity on that and the default names are in it
  (`Prepared`), so that the lookups of `startMonitoring` insert nothing
  (`LookupsFind`). The handler is always the default one: a failed check ends
  the process at the statement it is in, which is what makes the errors exact.
  Both agreement theorems are about one event at a time: files that disagree on
  an event leave the others' encodings alone.
- `PcmContextProofs`: `TypeCorrect`, `MonitoredSupported`, `HeaderCorrect`,
  `CountersSupported`, `ReportsExact`, all from `ChoiceIsSound`: until an error
  is reported the map of an initialised context is the identity on the
  supported events and every chosen name is in it. That is why the lookups of
  `startMonitoring`, which insert what they do not find, insert nothing.
- `BenchmarkRunsProofs`: `TypeCorrect`, `RowsAreOwn`, `EndedHoldNothing`, for
  any number of users and faults. The invariant adds that a run before
  `set_signal_handlers` or after its cleanup does not hold the PMU, that an
  undisturbed run that has programmed the PMU holds it and is the only one that
  has, so that no cleanup but its own can take it away, and that a measurement
  it has begun is its own so far (`MonitorsHold`), and that a run has no more
  rows than measurements behind it.

Every safety property of every passing run is a theorem. Only model-checked are
the liveness properties `Termination`, `PmuIsNotLost` and `AloneIsEnough`:
liveness under fairness and `ENABLED` are out of the prover's reach, as is
induction over data, which no property here needs.

## Findings

Each is a run that TLC must find violated; `PROJECT.json` quotes the lines.

- `src/main_multithreaded.cpp:106` takes no lock:
  `std::lock_guard<std::mutex> lock_guard(mutex);` declares a function, since
  `mutex` names the type. Reports are interleaved, also within a line
  (`bench_lock`).
- `src/pcm_context.hpp:213` compares the row, not the slot, with the size of
  the vector of common counters. `ErrorsComeFirst` proves that the check of
  the event counters in front of it makes up for that until an error was
  reported; with a handler that returns it does not (`handle_recorder_inside`).
- `src/hw_counter_json_reader.cpp:75` keeps the encoding of the first file that
  names an event, for all models. The data base has different encodings for
  `DTLB_LOAD_MISSES.WALK_COMPLETED`, one of the default events, so which one is
  programmed depends on the order of `readdir` (`setup_codes`).
  `AgreementProgramsTheModels` says that this is the only way to a wrong
  encoding.

Observed while modelling, and visible in the modules, without a run of their
own: with a handler that returns, as `test/hw_counter_store_test.cpp` installs
one, `append` stores past its vector after the failed assert
(`src/hw_counters_store.cpp:15`), and `startMonitoring` teaches the context a
name it was told not to know (`src/pcm_context.cpp:57`). `ErrorsAreExact` and
`ReportsAreExact` say that both come only after a reported error. The
single-threaded benchmark does not pin its thread to the core its handle reads
(`src/main.cpp:41`), and the multithreaded one does not look at the result of
pinning (`src/main_multithreaded.cpp:44`) nor at whether the cores 4 to 8
exist (`src/main_multithreaded.cpp:135`): `Pin` and `NoSuchCore` have these
outcomes, and `CountsCoverOwnEvents` is about the workers that were pinned. A
run that lost the PMU to a reset stops, when it ends, the run that has
programmed it since (`src/error_handling.cpp:51`, `src/main.cpp:86`,
`src/pcm_context.cpp:23`). An error of `readdir`
(`src/hw_counter_json_reader.cpp:138`) or `opendir` leaves a partial data base
without a word; `PcmContext::init` reports it only if a default event is
missing.

## Not modelled

- `DynamicCounterRecorder` has no constructor definition and no user.
  `ImmutableCounterStore::operator[]`, `onBenchmarkStart`, `onBenchmarkEnd` and
  `getHwCounter` are declared and defined nowhere.
- The PCM library is external: `program`, `cleanup`, `resetPMU` and the signal
  handlers are modelled by how this code uses them.
- `detailedDefaultFatalHandler` differs from the plain one in what it prints.
- Vendored libraries (`3rd-party/`: Catch and nlohmann json, 40000 of the
  repository's 42000 lines of code, most of it tests of the libraries), build
  files, event data and unit tests. The tests are quoted where a property comes
  from them. Of the repository's own 1200 lines the map covers about three
  quarters; the rest is includes, comments, declarations and printed text.
- The argument check of `main.cpp:29` and a missing argument of
  `main_multithreaded.cpp:119`: `SetupFails` of `BenchmarkRuns` stands for the
  former, nothing for the latter.
- The handle of `main.cpp` reads core 2 while its thread may run anywhere;
  which core's events the rows are is not in `BenchmarkRuns`.

## Plan

Done: every part of the repository's own code that keeps state: the error path,
the recorder with its abstract log, the store, the RDPMC handle, the reader and
the context, their composition, both benchmarks, and the runs that share a PMU,
all with their proofs.

What a change of the code would ask for next: a constructor for
`DynamicCounterRecorder` would make it one more client of `SampleLog`; a lock
in the report of `main_multithreaded.cpp`, or encodings kept per model in the
reader, would turn `bench_lock` and `setup_codes` into passing runs and their
properties into theorems.
