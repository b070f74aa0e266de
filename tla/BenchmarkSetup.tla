---------------------------- MODULE BenchmarkSetup ----------------------------
(***************************************************************************)
(* The first statements of both benchmarks (main.cpp:31-39,                *)
(* main_multithreaded.cpp:117-125): a reader loads the directory of        *)
(* argv[1], a context takes its events over and programs them.  The module *)
(* extends the reader's, whose operations it calls, and instantiates the   *)
(* context's: what the context finds supported is what the reader answers  *)
(* for this machine's model.  No handler is installed, so a fatal error    *)
(* ends the process.                                                       *)
(***************************************************************************)
EXTENDS HwCounterJsonReader

CONSTANTS
  Default, Unset, NoEvent,  \* of PcmContext
  Cpu                       \* the model PCM::getCPUModel answers

VARIABLES
  m_pcm, m_counters, m_chosenEvents, m_resetBusyDevice, monitored, busy, sets,
  rechosen, reported,
  main      \* the next statement

(* Mutant: the context takes over every event of the data base.            *)
EveryEvent == DOMAIN m_hwCounters

(* The keys of reader.getCounters(m_pcm->getCPUModel()).                   *)
Answered == {c[1] : c \in getCounters(Cpu)}

Context == INSTANCE PcmContext WITH Names <- Events, MaxSets <- 0, supported <- Answered

(* The names init chooses are event names, and the context's own values    *)
(* are not.                                                                *)
ASSUME SetupAssumption ==
  /\ Cpu \in Models
  /\ Default \in [Context!Registers -> Events]
  /\ Unset \notin Events /\ NoEvent \notin Events

readerVars == <<m_hwCounters, reading, loads, facts>>
contextVars == <<m_pcm, m_counters, m_chosenEvents, m_resetBusyDevice, monitored, busy,
                 sets, rechosen, reported>>
setupVars == <<readerVars, contextVars, errorVars, main>>

SetupInit == Init /\ Context!Init /\ main = "loadFromDirectory"

(* One statement of main; after a fatal error there is no next one.        *)
Statement(from, to) ==
  /\ main = from
  /\ main' = IF status' = "running" THEN to ELSE from

Load ==
  /\ main = "loadFromDirectory"
  /\ \/ loadFromDirectory
     \/ \E f \in unread : ReadFile(f) \/ CannotOpen(f)
     \/ LoadElement
     \/ FileLoaded
  /\ UNCHANGED <<contextVars, main>>

Loaded ==
  /\ closedir
  /\ UNCHANGED contextVars
  /\ Statement("loadFromDirectory", "init")

(* opendir fails: loadFromDirectory does nothing and says nothing.         *)
NoDirectory ==
  /\ Running("idle") /\ loads = <<>>
  /\ UNCHANGED <<readerVars, contextVars, errorVars>>
  /\ Statement("loadFromDirectory", "init")

init == UNCHANGED readerVars /\ Context!init /\ Statement("init", "resetMsrIfBusy")

resetMsrIfBusy ==
  /\ UNCHANGED readerVars
  /\ Context!resetMsrIfBusy
  /\ Statement("resetMsrIfBusy", "startMonitoring")

startMonitoring ==
  /\ UNCHANGED readerVars
  /\ \/ Context!Monitoring
     \/ \E code \in {"MSRAccessDenied", "PMUBusy", "UnknownError"} : Context!MonitoringFails(code)
  /\ Statement("startMonitoring", "monitoring")

OtherProgram == UNCHANGED readerVars /\ Context!OtherProgram /\ UNCHANGED main

SetupNext == Load \/ Loaded \/ NoDirectory \/ init \/ resetMsrIfBusy \/ startMonitoring \/ OtherProgram

SetupSpec == SetupInit /\ [][SetupNext]_setupVars
-----------------------------------------------------------------------------
(* Type invariant of the program up to the first measurement.              *)
SetupTypeOK ==
  /\ TypeOK
  /\ Context!TypeOK
  /\ main \in {"loadFromDirectory", "init", "resetMsrIfBusy", "startMonitoring", "monitoring"}

(* <<event, code>> is in the event list of this machine's model.           *)
ListedHere(e, c) == <<e, c, Cpu>> \in Listed

AllListed == \A i \in Context!Registers : \E c \in Codes : ListedHere(Default[i], c)

(* init goes on exactly when the files of this machine's model that were   *)
(* read list all four default events; a directory that could not be opened *)
(* or read to its end, which the reader does not report, is reported here  *)
(* when one is missing.                                                    *)
InitErrorsAreExact ==
  /\ main = "init" /\ status = "terminated" => ~AllListed
  /\ main \in {"resetMsrIfBusy", "startMonitoring", "monitoring"} => AllListed

(* The encoding register i counts: the context has it from the reader.     *)
ProgrammedCode(i) == m_hwCounters[monitored[i]].code

(* When the files agree on the encodings of the default events, the PMU is *)
(* programmed with what the list of this machine's model says for them, in *)
(* whatever order readdir gave the files and whatever else they list.      *)
AgreementProgramsTheModels ==
  main = "monitoring" => \A i \in Context!Registers :
    /\ monitored[i] = Default[i]
    /\ Agreed(Default[i]) => ListedHere(Default[i], ProgrammedCode(i))

(* The PMU is programmed with the encodings the list of this machine's     *)
(* model gives: db/ivybridge_core_v19.json says 0x82 and                   *)
(* db/skylake_core_v30.json 0x0E, each for its own model, of the umask of  *)
(* DTLB_LOAD_MISSES.WALK_COMPLETED, one of the default events.             *)
ProgrammedCodesAreTheModels ==
  main = "monitoring" => \A i \in Context!Registers : ListedHere(Default[i], ProgrammedCode(i))
=============================================================================
