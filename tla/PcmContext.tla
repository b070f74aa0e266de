------------------------------ MODULE PcmContext ------------------------------
(***************************************************************************)
(* The class PcmContext (pcm_context.hpp, pcm_context.cpp): which events   *)
(* the CPU supports, which four are chosen, and programming them into the  *)
(* PMU.  It is driven by an arbitrary client, who also installs and        *)
(* removes error handlers; another program may hold the PMU meanwhile.     *)
(*                                                                         *)
(* The encoding of a supported event is identified with its name; NoEvent  *)
(* is the encoding (0, 0) of a value-initialised HwEvent.                  *)
(***************************************************************************)
EXTENDS Naturals, FatalError

CONSTANTS
  Names,    \* event names
  Default,  \* the names init chooses: a function from Registers
  Unset,    \* the empty name
  NoEvent,  \* the encoding of HwEvent()
  MaxSets   \* bound: the calls of setCounter by the client

Registers == 0 .. 3

ASSUME ContextAssumption ==
  /\ Default \in [Registers -> Names]
  /\ Unset \notin Names /\ NoEvent \notin Names
  /\ MaxSets \in Nat

VARIABLES
  supported,          \* the names reader.getCounters answers for this CPU
  m_pcm,              \* "indeterminate", "instance", or "destroyed" with the context
  m_counters,         \* the map from names to encodings
  m_chosenEvents,     \* the name chosen for each register
  m_resetBusyDevice,  \* resetMsrIfBusy has been called
  monitored,          \* the encodings the PMU was last programmed with
  busy,               \* another program holds the PMU
  sets,               \* the calls of setCounter so far
  rechosen,           \* history: names were chosen since startMonitoring
  reported            \* history: the last call took the error path

choice == <<m_counters, m_chosenEvents>>
vars == <<supported, m_pcm, choice, m_resetBusyDevice, monitored, busy, sets,
          rechosen, reported, errorVars>>

Init ==
  /\ supported \in SUBSET Names
  /\ m_pcm = "indeterminate"
  /\ m_counters = <<>>
  /\ m_chosenEvents = [i \in Registers |-> Unset]
  /\ m_resetBusyDevice = FALSE
  /\ monitored = [i \in Registers |-> NoEvent]
  /\ busy \in BOOLEAN
  /\ sets = 0
  /\ rechosen = FALSE /\ reported = FALSE
  /\ programmed = FALSE
  /\ ErrorInit

Alive == status = "running" /\ m_pcm # "destroyed"

(* FATAL_ERROR if `fails', and whether the caller's code goes on.          *)
Check(fails) ==
  /\ reported' = fails
  /\ IF fails THEN handleFatalError("running") ELSE UNCHANGED errorVars
GoesOn == status' = "running"

(* Mutant: the validity of a name is not checked.                          *)
Unchecked(counters, n) == FALSE

(* checkEventValidity: the name is not in the map.                         *)
Unknown(counters, n) == n \notin DOMAIN counters

(* init: take the supported events over and choose the default ones.       *)
init ==
  /\ Alive
  /\ m_pcm' = "instance"
  /\ LET counters == [n \in DOMAIN m_counters \cup supported |->
                        IF n \in supported THEN n ELSE m_counters[n]]
     IN  /\ Check(supported = {} \/ \E i \in Registers : Unknown(counters, Default[i]))
         /\ m_counters' = IF GoesOn THEN counters ELSE m_counters
  /\ m_chosenEvents' = IF GoesOn THEN Default ELSE m_chosenEvents
  /\ rechosen' = TRUE
  /\ UNCHANGED <<supported, m_resetBusyDevice, monitored, busy, sets>>

(* With a handler that returns, a name that was reported is chosen anyway. *)
setCounter(i, n) ==
  /\ Alive /\ sets < MaxSets
  /\ Check(Unknown(m_counters, n))
  /\ m_chosenEvents' = IF GoesOn THEN [m_chosenEvents EXCEPT ![i] = n] ELSE m_chosenEvents
  /\ sets' = sets + 1
  /\ rechosen' = TRUE
  /\ UNCHANGED <<supported, m_pcm, m_counters, m_resetBusyDevice, monitored, busy>>

resetMsrIfBusy ==
  /\ Alive
  /\ m_resetBusyDevice' = TRUE
  /\ reported' = FALSE
  /\ UNCHANGED <<supported, m_pcm, choice, monitored, busy, sets, rechosen, errorVars>>

(* m_counters[name]: a name that is not in the map is inserted.            *)
Inserted ==
  [n \in DOMAIN m_counters \cup {m_chosenEvents[i] : i \in Registers} |->
     IF n \in DOMAIN m_counters THEN m_counters[n] ELSE NoEvent]

(* Mutants: the registers are filled from the last one down; the last one  *)
(* is left out.                                                            *)
Backwards == [i \in Registers |-> Inserted[m_chosenEvents[3 - i]]]
ButTheLast == [i \in 0 .. 2 |-> Inserted[m_chosenEvents[i]]]

description == [i \in Registers |-> Inserted[m_chosenEvents[i]]]

(* PCM::program: it succeeds only while nobody else holds the PMU, finds   *)
(* it busy only while somebody does, and may fail for other reasons.       *)
program(code) ==
  CASE code = "Success" -> ~busy
    [] code = "PMUBusy" -> busy \/ programmed
    [] OTHER -> TRUE

(* m_pcm is never initialised by the constructor.                          *)
StartWithoutInit ==
  /\ Alive /\ m_pcm = "indeterminate"
  /\ status' = "undefined"
  /\ UNCHANGED <<supported, m_pcm, choice, m_resetBusyDevice, monitored, busy, sets,
                 rechosen, reported, handler, programmed, raised>>

Monitoring ==
  /\ Alive /\ m_pcm = "instance" /\ program("Success")
  /\ m_counters' = Inserted
  /\ monitored' = description
  /\ programmed' = TRUE
  /\ rechosen' = FALSE /\ reported' = FALSE
  /\ UNCHANGED <<supported, m_pcm, m_chosenEvents, m_resetBusyDevice, busy, sets,
                 handler, status, raised>>

(* handlePcmProgramError.                                                  *)
MonitoringFails(code) ==
  /\ Alive /\ m_pcm = "instance" /\ program(code)
  /\ m_counters' = Inserted
  /\ busy' = IF code = "PMUBusy" /\ m_resetBusyDevice THEN FALSE ELSE busy
  /\ Check(TRUE)
  /\ UNCHANGED <<supported, m_pcm, m_chosenEvents, m_resetBusyDevice, monitored, sets, rechosen>>

(* ~PcmContext: cleanup through m_pcm, whatever an uninitialised m_pcm is. *)
Destroy ==
  /\ Alive
  /\ m_pcm' = "destroyed"
  /\ status' \in IF m_pcm = "indeterminate" THEN {status, "undefined"} ELSE {status}
  /\ programmed' = FALSE
  /\ UNCHANGED <<supported, choice, m_resetBusyDevice, monitored, busy, sets, rechosen,
                 reported, handler, raised>>

(* Another program takes and leaves the PMU.                               *)
OtherProgram ==
  /\ Alive /\ ~programmed
  /\ busy' = ~busy
  /\ UNCHANGED <<supported, m_pcm, choice, m_resetBusyDevice, monitored, sets, rechosen,
                 reported, errorVars>>

InstallHandler ==
  /\ Alive
  /\ setDefaultErrorHandler \/ resetDefaultErrorHandler
  /\ UNCHANGED <<supported, m_pcm, choice, m_resetBusyDevice, monitored, busy, sets,
                 rechosen, reported>>

Next ==
  \/ init
  \/ \E i \in Registers, n \in Names : setCounter(i, n)
  \/ resetMsrIfBusy
  \/ StartWithoutInit
  \/ Monitoring
  \/ \E code \in {"MSRAccessDenied", "PMUBusy", "UnknownError"} : MonitoringFails(code)
  \/ Destroy
  \/ OtherProgram
  \/ InstallHandler

Spec == Init /\ [][Next]_vars
-----------------------------------------------------------------------------
(* Type invariant of the context.                                          *)
TypeOK ==
  /\ supported \subseteq Names
  /\ m_pcm \in {"indeterminate", "instance", "destroyed"}
  /\ DOMAIN m_counters \subseteq Names \cup {Unset}
  /\ \A n \in DOMAIN m_counters : m_counters[n] \in ({n} \cap Names) \cup {NoEvent}
  /\ m_chosenEvents \in [Registers -> Names \cup {Unset}]
  /\ m_resetBusyDevice \in BOOLEAN
  /\ monitored \in [Registers -> Names \cup {NoEvent}]
  /\ busy \in BOOLEAN
  /\ sets \in 0 .. MaxSets
  /\ rechosen \in BOOLEAN /\ reported \in BOOLEAN
  /\ ErrorTypeOK

(* Until an error is reported the PMU monitors supported events only: the  *)
(* lookups of startMonitoring, which insert what they do not find, find    *)
(* every chosen name.                                                      *)
MonitoredAreSupported ==
  programmed /\ ~raised => \A i \in Registers : monitored[i] \in supported

getEventHeader == m_chosenEvents

(* The header names the events that are monitored, register by register,   *)
(* unless names were chosen after startMonitoring.                         *)
HeaderNamesMonitored ==
  programmed /\ ~raised /\ ~rechosen =>
    \A i \in Registers : monitored[i] = getEventHeader[i]

(* An initialised context knows exactly the events of this CPU, as long as *)
(* no error was reported: no call adds a name.                             *)
CountersAreSupported ==
  m_pcm = "instance" /\ ~raised => DOMAIN m_counters = supported

(* Until an error was reported an initialised context reports a name       *)
(* exactly when this CPU does not support it ("Event not found in passed   *)
(* db", pcm_context.cpp:125), before and after startMonitoring: its        *)
(* lookups have taught the context no name.                                *)
ReportsAreExact ==
  [][\A i \in Registers, n \in Names :
       m_pcm = "instance" /\ ~raised /\ setCounter(i, n) =>
         (reported' <=> n \notin supported)]_vars
=============================================================================
