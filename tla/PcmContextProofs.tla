--------------------------- MODULE PcmContextProofs ---------------------------
(***************************************************************************)
(* The invariants of PcmContext for any set of events and of defaults.     *)
(* That the PMU monitors supported events rests on two facts that every    *)
(* call before startMonitoring keeps: the map holds the supported names    *)
(* with their encodings and no other, and every chosen name is in the map. *)
(***************************************************************************)
EXTENDS PcmContext, TLAPS

(* The map and the choice, as long as no error was reported.               *)
ChoiceIsSound ==
  ~raised =>
    /\ m_pcm = "indeterminate" => DOMAIN m_counters = {} /\ ~programmed
    /\ m_pcm = "instance" =>
         /\ DOMAIN m_counters = supported
         /\ \A n \in supported : m_counters[n] = n
         /\ \A i \in Registers : m_chosenEvents[i] \in supported
    /\ programmed =>
         /\ \A i \in Registers : monitored[i] \in supported
         /\ ~rechosen => \A i \in Registers : monitored[i] = m_chosenEvents[i]

IInv == TypeOK /\ ChoiceIsSound

-----------------------------------------------------------------------------
(* The initial states satisfy the invariant.                               *)
LEMMA InitIInv == Init => IInv
<1> SUFFICES ASSUME Init PROVE IInv
  OBVIOUS
<1>1. ErrorTypeOK
  BY DEF Init, ErrorInit, ErrorTypeOK
<1>2. DOMAIN m_counters = {}
  BY DEF Init
<1>3. sets \in 0 .. MaxSets
  BY ContextAssumption DEF Init
<1>4. rechosen \in BOOLEAN /\ reported \in BOOLEAN /\ m_resetBusyDevice \in BOOLEAN
  BY DEF Init
<1>5. TypeOK
  BY <1>1, <1>2, <1>3, <1>4 DEF Init, TypeOK
<1>6. ChoiceIsSound
  <2>1. m_pcm = "indeterminate" /\ programmed = FALSE
    BY DEF Init
  <2>2. QED BY <1>2, <2>1 DEF ChoiceIsSound
<1>7. QED BY <1>5, <1>6 DEF IInv

(* The error path keeps the types, and an error stays reported.            *)
LEMMA CheckTyped ==
  ASSUME ErrorTypeOK, NEW fails \in BOOLEAN, Check(fails)
  PROVE  /\ ErrorTypeOK' /\ reported' \in BOOLEAN
         /\ ~raised' => ~fails /\ ~raised /\ status' = status /\ programmed' = programmed
<1>1. CASE fails
  <2>1. handleFatalError("running") /\ reported' = fails
    BY <1>1 DEF Check
  <2>2. ErrorTypeOK' /\ raised'
    BY <2>1 DEF handleFatalError, runOnFatalError, ErrorTypeOK
  <2>3. QED BY <2>1, <2>2
<1>2. CASE ~fails
  <2>1. UNCHANGED errorVars /\ reported' = fails
    BY <1>2 DEF Check
  <2>2. QED BY <1>2, <2>1 DEF errorVars, ErrorTypeOK
<1>3. QED BY <1>1, <1>2

(* The map after the lookups of startMonitoring.                           *)
LEMMA InsertedTyped ==
  ASSUME IInv
  PROVE  /\ DOMAIN Inserted \subseteq Names \cup {Unset}
         /\ \A n \in DOMAIN Inserted : Inserted[n] \in ({n} \cap Names) \cup {NoEvent}
         /\ \A i \in Registers : m_chosenEvents[i] \in DOMAIN Inserted
         /\ description \in [Registers -> Names \cup {NoEvent}]
         /\ ~raised /\ m_pcm = "instance" =>
              /\ DOMAIN Inserted = supported
              /\ \A n \in supported : Inserted[n] = n
              /\ \A i \in Registers : description[i] = m_chosenEvents[i]
<1>1. /\ DOMAIN m_counters \subseteq Names \cup {Unset}
      /\ \A n \in DOMAIN m_counters : m_counters[n] \in ({n} \cap Names) \cup {NoEvent}
      /\ m_chosenEvents \in [Registers -> Names \cup {Unset}]
  BY DEF IInv, TypeOK
<1>2. /\ DOMAIN Inserted = DOMAIN m_counters \cup {m_chosenEvents[i] : i \in Registers}
      /\ \A n \in DOMAIN Inserted :
           Inserted[n] = IF n \in DOMAIN m_counters THEN m_counters[n] ELSE NoEvent
  BY DEF Inserted
<1>3. \A i \in Registers : m_chosenEvents[i] \in DOMAIN Inserted
  BY <1>2
<1>4. \A n \in DOMAIN Inserted : n \in Names \cup {Unset} /\ Inserted[n] \in ({n} \cap Names) \cup {NoEvent}
  BY <1>1, <1>2
<1>5. description = [i \in Registers |-> Inserted[m_chosenEvents[i]]]
  BY DEF description
<1>6. description \in [Registers -> Names \cup {NoEvent}]
  BY <1>3, <1>4, <1>5
<1>7. ASSUME ~raised, m_pcm = "instance"
      PROVE  /\ DOMAIN Inserted = supported
             /\ \A n \in supported : Inserted[n] = n
             /\ \A i \in Registers : description[i] = m_chosenEvents[i]
  <2>1. /\ DOMAIN m_counters = supported
        /\ \A n \in supported : m_counters[n] = n
        /\ \A i \in Registers : m_chosenEvents[i] \in supported
    BY <1>7 DEF IInv, ChoiceIsSound
  <2>2. DOMAIN Inserted = supported
    BY <1>2, <2>1
  <2>3. QED BY <1>2, <1>5, <2>1, <2>2
<1>8. QED BY <1>3, <1>4, <1>6, <1>7

-----------------------------------------------------------------------------
(* The parts of the type invariant that a step may change.                 *)
MapTyped ==
  /\ DOMAIN m_counters \subseteq Names \cup {Unset}
  /\ \A n \in DOMAIN m_counters : m_counters[n] \in ({n} \cap Names) \cup {NoEvent}

FlagsTyped ==
  /\ m_resetBusyDevice \in BOOLEAN /\ busy \in BOOLEAN
  /\ rechosen \in BOOLEAN /\ reported \in BOOLEAN

RestTyped ==
  /\ supported \subseteq Names
  /\ m_pcm \in {"indeterminate", "instance", "destroyed"}
  /\ m_chosenEvents \in [Registers -> Names \cup {Unset}]
  /\ monitored \in [Registers -> Names \cup {NoEvent}]
  /\ sets \in 0 .. MaxSets

(* The type invariant in the parts the steps below change apart.           *)
LEMMA TypeParts == TypeOK <=> MapTyped /\ FlagsTyped /\ RestTyped /\ ErrorTypeOK
BY Zenon DEF TypeOK, MapTyped, FlagsTyped, RestTyped

(* init makes the map that of the supported events, or reports an error.   *)
LEMMA InitCallIInv == ASSUME IInv, init PROVE IInv'
<1> DEFINE counters == [n \in DOMAIN m_counters \cup supported |->
                          IF n \in supported THEN n ELSE m_counters[n]]
           fails == supported = {} \/ \E i \in Registers : Unknown(counters, Default[i])
<1>1. MapTyped /\ FlagsTyped /\ RestTyped /\ ErrorTypeOK
  BY TypeParts DEF IInv
<1>2. /\ m_pcm' = "instance" /\ Check(fails)
      /\ m_counters' = IF GoesOn THEN counters ELSE m_counters
      /\ m_chosenEvents' = IF GoesOn THEN Default ELSE m_chosenEvents
      /\ rechosen' = TRUE
      /\ status = "running" /\ m_pcm # "destroyed"
      /\ UNCHANGED <<supported, m_resetBusyDevice, monitored, busy, sets>>
  BY DEF init, Alive
<1>3. /\ DOMAIN counters = DOMAIN m_counters \cup supported
      /\ \A n \in DOMAIN counters :
           counters[n] = IF n \in supported THEN n ELSE m_counters[n]
  OBVIOUS
<1>4. fails \in BOOLEAN
  OBVIOUS
<1>5. /\ ErrorTypeOK' /\ reported' \in BOOLEAN
      /\ ~raised' => ~fails /\ ~raised /\ status' = status /\ programmed' = programmed
  <2> HIDE DEF fails
  <2> QED BY <1>1, <1>2, <1>4, CheckTyped
<1>6. MapTyped'
  <2>1. supported \subseteq Names
    BY <1>1 DEF RestTyped
  <2>2. /\ DOMAIN counters \subseteq Names \cup {Unset}
        /\ \A n \in DOMAIN counters : counters[n] \in ({n} \cap Names) \cup {NoEvent}
    BY <1>1, <1>3, <2>1 DEF MapTyped
  <2> HIDE DEF counters
  <2>3. m_counters' = counters \/ m_counters' = m_counters
    BY <1>2
  <2>4. QED BY <1>1, <2>2, <2>3 DEF MapTyped
<1>7. FlagsTyped'
  BY <1>1, <1>2, <1>5, Zenon DEF FlagsTyped
<1>8. RestTyped'
  <2>1. m_chosenEvents' \in [Registers -> Names \cup {Unset}]
    BY <1>1, <1>2, ContextAssumption DEF RestTyped
  <2>2. QED BY <1>1, <1>2, <2>1 DEF RestTyped
<1>9. ChoiceIsSound'
  <2> SUFFICES ASSUME ~raised' PROVE ChoiceIsSound'
    BY DEF ChoiceIsSound
  <2>1. ~fails /\ ~raised /\ programmed' = programmed /\ GoesOn
    BY <1>2, <1>5 DEF GoesOn
  <2>2. m_counters' = counters /\ m_chosenEvents' = Default
    BY <1>2, <2>1
  <2>3. \A i \in Registers : Default[i] \in DOMAIN counters
    BY <2>1 DEF Unknown
  <2>4. DOMAIN m_counters \subseteq supported
    BY <1>1, <1>2, <2>1 DEF IInv, ChoiceIsSound, RestTyped
  <2>5. /\ DOMAIN counters = supported
        /\ \A n \in supported : counters[n] = n
    BY <1>3, <2>4
  <2>6. programmed => \A i \in Registers : monitored[i] \in supported
    BY <2>1 DEF IInv, ChoiceIsSound
  <2> HIDE DEF counters, fails
  <2>7. QED BY <1>2, <2>1, <2>2, <2>3, <2>5, <2>6 DEF ChoiceIsSound
<1>10. QED
  <2>1. TypeOK' <=> MapTyped' /\ FlagsTyped' /\ RestTyped' /\ ErrorTypeOK'
    BY Zenon DEF TypeOK, MapTyped, FlagsTyped, RestTyped
  <2>2. QED BY <1>5, <1>6, <1>7, <1>8, <1>9, <2>1 DEF IInv

(* setCounter accepts a name of the map, or reports an error.              *)
LEMMA SetCounterIInv ==
  ASSUME IInv, NEW i \in Registers, NEW n \in Names, setCounter(i, n) PROVE IInv'
<1>1. MapTyped /\ FlagsTyped /\ RestTyped /\ ErrorTypeOK
  BY TypeParts DEF IInv
<1>2. /\ Check(Unknown(m_counters, n))
      /\ m_chosenEvents' =
           IF GoesOn THEN [m_chosenEvents EXCEPT ![i] = n] ELSE m_chosenEvents
      /\ sets < MaxSets /\ sets' = sets + 1
      /\ rechosen' = TRUE
      /\ status = "running" /\ m_pcm # "destroyed"
      /\ UNCHANGED <<supported, m_pcm, m_counters, m_resetBusyDevice, monitored, busy>>
  BY DEF setCounter, Alive
<1>3. /\ ErrorTypeOK' /\ reported' \in BOOLEAN
      /\ ~raised' => /\ ~Unknown(m_counters, n) /\ ~raised
                     /\ status' = status /\ programmed' = programmed
  <2>1. Unknown(m_counters, n) \in BOOLEAN
    BY DEF Unknown
  <2>2. QED BY <1>1, <1>2, <2>1, CheckTyped
<1>4. MapTyped'
  BY <1>1, <1>2 DEF MapTyped
<1>5. FlagsTyped'
  BY <1>1, <1>2, <1>3, Zenon DEF FlagsTyped
<1>6. RestTyped'
  <2>1. m_chosenEvents' \in [Registers -> Names \cup {Unset}]
    BY <1>1, <1>2 DEF RestTyped
  <2>2. sets' \in 0 .. MaxSets
    BY <1>1, <1>2, ContextAssumption DEF RestTyped
  <2>3. QED BY <1>1, <1>2, <2>1, <2>2 DEF RestTyped
<1>7. ChoiceIsSound'
  <2> SUFFICES ASSUME ~raised' PROVE ChoiceIsSound'
    BY DEF ChoiceIsSound
  <2>1. n \in DOMAIN m_counters /\ ~raised /\ programmed' = programmed /\ GoesOn
    BY <1>2, <1>3 DEF GoesOn, Unknown
  <2>2. m_chosenEvents' = [m_chosenEvents EXCEPT ![i] = n]
    BY <1>2, <2>1
  <2>3. m_chosenEvents \in [Registers -> Names \cup {Unset}]
    BY <1>1 DEF RestTyped
  <2>4. m_pcm = "instance"
    BY <1>1, <1>2, <2>1 DEF IInv, ChoiceIsSound, RestTyped
  <2>5. QED BY <1>2, <2>1, <2>2, <2>3, <2>4 DEF IInv, ChoiceIsSound
<1>8. QED
  <2>1. TypeOK' <=> MapTyped' /\ FlagsTyped' /\ RestTyped' /\ ErrorTypeOK'
    BY Zenon DEF TypeOK, MapTyped, FlagsTyped, RestTyped
  <2>2. QED BY <1>3, <1>4, <1>5, <1>6, <1>7, <2>1 DEF IInv
(* A step that leaves the map, the choice and the PMU's events alone keeps *)
(* the invariant, if it reports an error or stops the PMU at most.         *)
LEMMA FrameIInv ==
  ASSUME IInv, FlagsTyped', ErrorTypeOK',
         UNCHANGED <<supported, choice, monitored, sets, rechosen>>,
         m_pcm' \in {m_pcm, "destroyed"},
         programmed' => programmed,
         raised => raised'
  PROVE  IInv'
<1>1. MapTyped /\ RestTyped
  BY TypeParts DEF IInv
<1>2. UNCHANGED <<m_counters, m_chosenEvents>>
  BY DEF choice
<1>3. MapTyped' /\ RestTyped'
  BY <1>1, <1>2 DEF MapTyped, RestTyped
<1>4. ChoiceIsSound'
  BY <1>2 DEF IInv, ChoiceIsSound
<1>5. QED
  <2>1. TypeOK' <=> MapTyped' /\ FlagsTyped' /\ RestTyped' /\ ErrorTypeOK'
    BY Zenon DEF TypeOK, MapTyped, FlagsTyped, RestTyped
  <2>2. QED BY <1>3, <1>4, <2>1 DEF IInv

(* startMonitoring monitors the chosen events.                             *)
LEMMA MonitoringIInv == ASSUME IInv, Monitoring PROVE IInv'
<1>1. MapTyped /\ FlagsTyped /\ RestTyped /\ ErrorTypeOK
  BY TypeParts DEF IInv
<1>2. /\ m_pcm = "instance"
      /\ m_counters' = Inserted /\ monitored' = description
      /\ programmed' = TRUE /\ rechosen' = FALSE /\ reported' = FALSE
      /\ UNCHANGED <<supported, m_pcm, m_chosenEvents, m_resetBusyDevice, busy, sets,
                     handler, status, raised>>
  BY DEF Monitoring
<1>3. ErrorTypeOK'
  BY <1>1, <1>2 DEF ErrorTypeOK
<1>4. FlagsTyped'
  BY <1>1, <1>2 DEF FlagsTyped
<1>5. MapTyped'
  BY <1>2, InsertedTyped DEF MapTyped
<1>6. ASSUME ~raised
      PROVE  /\ DOMAIN m_counters' = supported
             /\ \A n \in supported : m_counters'[n] = n
             /\ \A i \in Registers : monitored'[i] = m_chosenEvents[i]
  BY <1>2, <1>6, InsertedTyped
<1>7. RestTyped'
  <2>1. monitored' \in [Registers -> Names \cup {NoEvent}]
    BY <1>2, InsertedTyped
  <2>2. QED BY <1>1, <1>2, <2>1 DEF RestTyped
<1>8. ChoiceIsSound'
  <2>1. ~raised => \A i \in Registers : m_chosenEvents[i] \in supported
    BY <1>2 DEF IInv, ChoiceIsSound
  <2>2. QED BY <1>2, <1>6, <2>1 DEF ChoiceIsSound
<1>9. QED
  <2>1. TypeOK' <=> MapTyped' /\ FlagsTyped' /\ RestTyped' /\ ErrorTypeOK'
    BY Zenon DEF TypeOK, MapTyped, FlagsTyped, RestTyped
  <2>2. QED BY <1>3, <1>4, <1>5, <1>7, <1>8, <2>1 DEF IInv
(* A program that fails reports an error; the map has grown all the same.  *)
LEMMA MonitoringFailsIInv ==
  ASSUME IInv, NEW code, MonitoringFails(code) PROVE IInv'
<1>1. MapTyped /\ FlagsTyped /\ RestTyped /\ ErrorTypeOK
  BY TypeParts DEF IInv
<1>2. /\ Check(TRUE)
      /\ m_counters' = Inserted
      /\ busy' = IF code = "PMUBusy" /\ m_resetBusyDevice THEN FALSE ELSE busy
      /\ UNCHANGED <<supported, m_pcm, m_chosenEvents, m_resetBusyDevice, monitored,
                     sets, rechosen>>
  BY DEF MonitoringFails
<1>3. ErrorTypeOK' /\ reported' \in BOOLEAN /\ raised'
  <2>1. ErrorTypeOK' /\ reported' \in BOOLEAN /\ (~raised' => ~TRUE)
    BY <1>1, <1>2, CheckTyped
  <2>2. QED BY <2>1
<1>4. FlagsTyped'
  BY <1>1, <1>2, <1>3 DEF FlagsTyped
<1>5. MapTyped'
  BY <1>2, InsertedTyped DEF MapTyped
<1>6. RestTyped'
  BY <1>1, <1>2 DEF RestTyped
<1>7. ChoiceIsSound'
  BY <1>3 DEF ChoiceIsSound
<1>8. QED
  <2>1. TypeOK' <=> MapTyped' /\ FlagsTyped' /\ RestTyped' /\ ErrorTypeOK'
    BY Zenon DEF TypeOK, MapTyped, FlagsTyped, RestTyped
  <2>2. QED BY <1>3, <1>4, <1>5, <1>6, <1>7, <2>1 DEF IInv

(* Every step keeps the invariant.                                         *)
LEMMA NextIInv == IInv /\ [Next]_vars => IInv'
<1> SUFFICES ASSUME IInv, [Next]_vars PROVE IInv'
  OBVIOUS
<1>1. MapTyped /\ FlagsTyped /\ RestTyped /\ ErrorTypeOK
  BY TypeParts DEF IInv
<1>2. CASE init
  BY <1>2, InitCallIInv
<1>3. CASE \E i \in Registers, n \in Names : setCounter(i, n)
  BY <1>3, SetCounterIInv
<1>4. CASE resetMsrIfBusy
  <2>1. FlagsTyped'
    BY <1>1, <1>4 DEF FlagsTyped, resetMsrIfBusy
  <2>2. ErrorTypeOK'
    BY <1>1, <1>4 DEF ErrorTypeOK, errorVars, resetMsrIfBusy
  <2>3. QED BY <1>4, <2>1, <2>2, FrameIInv DEF resetMsrIfBusy, errorVars
<1>5. CASE StartWithoutInit
  <2>1. FlagsTyped'
    BY <1>1, <1>5 DEF FlagsTyped, StartWithoutInit
  <2>2. ErrorTypeOK'
    BY <1>1, <1>5 DEF ErrorTypeOK, StartWithoutInit
  <2>3. QED BY <1>5, <2>1, <2>2, FrameIInv DEF StartWithoutInit
<1>6. CASE Monitoring
  BY <1>6, MonitoringIInv
<1>7. CASE \E code \in {"MSRAccessDenied", "PMUBusy", "UnknownError"} : MonitoringFails(code)
  BY <1>7, MonitoringFailsIInv
<1>8. CASE Destroy
  <2>1. FlagsTyped'
    BY <1>1, <1>8 DEF FlagsTyped, Destroy
  <2>2. ErrorTypeOK'
    BY <1>1, <1>8 DEF ErrorTypeOK, Destroy
  <2>3. QED BY <1>8, <2>1, <2>2, FrameIInv DEF Destroy
<1>9. CASE OtherProgram
  <2>1. FlagsTyped'
    BY <1>1, <1>9 DEF FlagsTyped, OtherProgram
  <2>2. ErrorTypeOK'
    BY <1>1, <1>9 DEF ErrorTypeOK, errorVars, OtherProgram
  <2>3. QED BY <1>9, <2>1, <2>2, FrameIInv DEF OtherProgram, errorVars
<1>10. CASE InstallHandler
  <2>1. FlagsTyped'
    BY <1>1, <1>10 DEF FlagsTyped, InstallHandler
  <2>2. ErrorTypeOK' /\ UNCHANGED <<programmed, raised>>
    BY <1>1, <1>10
    DEF ErrorTypeOK, InstallHandler, setDefaultErrorHandler, resetDefaultErrorHandler
  <2>3. QED BY <1>10, <2>1, <2>2, FrameIInv DEF InstallHandler
<1>11. CASE UNCHANGED vars
  <2>1. FlagsTyped'
    BY <1>1, <1>11 DEF FlagsTyped, vars
  <2>2. ErrorTypeOK'
    BY <1>1, <1>11 DEF ErrorTypeOK, vars, errorVars
  <2>3. QED BY <1>11, <2>1, <2>2, FrameIInv DEF vars, errorVars
<1>12. QED
  BY <1>2, <1>3, <1>4, <1>5, <1>6, <1>7, <1>8, <1>9, <1>10, <1>11 DEF Next

(* The invariant holds in every reachable state.                           *)
LEMMA SpecIInv == Spec => []IInv
BY InitIInv, NextIInv, PTL DEF Spec

(* The context keeps the types of its map, choice and flags, whatever the  *)
(* client, the handler and the other program do.                           *)
THEOREM TypeCorrect == Spec => []TypeOK
<1>1. IInv => TypeOK
  BY DEF IInv
<1>2. QED BY <1>1, SpecIInv, PTL

(* Until an error is reported every monitored event is supported.          *)
THEOREM MonitoredSupported == Spec => []MonitoredAreSupported
<1>1. IInv => MonitoredAreSupported
  BY DEF IInv, ChoiceIsSound, MonitoredAreSupported
<1>2. QED BY <1>1, SpecIInv, PTL

(* The header names what is monitored unless names were chosen since.      *)
THEOREM HeaderCorrect == Spec => []HeaderNamesMonitored
<1>1. IInv => HeaderNamesMonitored
  BY DEF IInv, ChoiceIsSound, HeaderNamesMonitored, getEventHeader
<1>2. QED BY <1>1, SpecIInv, PTL

(* An initialised context knows exactly the supported events until an      *)
(* error is reported.                                                      *)
THEOREM CountersSupported == Spec => []CountersAreSupported
<1>1. IInv => CountersAreSupported
  BY DEF IInv, ChoiceIsSound, CountersAreSupported
<1>2. QED BY <1>1, SpecIInv, PTL

(* setCounter reports exactly the names this CPU does not support, until   *)
(* an error has been reported.                                             *)
THEOREM ReportsExact == Spec => ReportsAreExact
<1>1. ASSUME IInv, NEW i \in Registers, NEW n \in Names,
             m_pcm = "instance", ~raised, setCounter(i, n)
      PROVE  reported' <=> n \notin supported
  <2>1. DOMAIN m_counters = supported
    BY <1>1 DEF IInv, ChoiceIsSound
  <2>2. reported' = Unknown(m_counters, n)
    BY <1>1 DEF setCounter, Check
  <2>3. QED BY <2>1, <2>2 DEF Unknown
<1> DEFINE Exact == \A i \in Registers, n \in Names :
             m_pcm = "instance" /\ ~raised /\ setCounter(i, n) =>
               (reported' <=> n \notin supported)
<1>2. IInv /\ [Next]_vars => [Exact]_vars
  BY <1>1
<1>3. [][Exact]_vars => ReportsAreExact
  BY PTL DEF ReportsAreExact
<1> HIDE DEF Exact
<1>4. QED BY <1>2, <1>3, SpecIInv, PTL DEF Spec
=============================================================================
