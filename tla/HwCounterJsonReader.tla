------------------------- MODULE HwCounterJsonReader -------------------------
(***************************************************************************)
(* The class HwCounterJsonReader (hw_counter_json_reader.cpp, .hpp) and    *)
(* its HwEvent: event lists, one JSON file per CPU model, merged into one  *)
(* map from event names to an encoding and the models that support it.     *)
(*                                                                         *)
(* The files come in the order readdir returns them, which nobody fixes;   *)
(* a file may be gone when it is opened, and readdir may fail.  A file is  *)
(* abstracted to what its name and contents mean to the reader: the model  *)
(* named by its prefix and the sequence of <<event name, encoding>> it     *)
(* lists.                                                                  *)
(***************************************************************************)
EXTENDS Naturals, Sequences, FatalError

CONSTANTS
  Files,       \* the names of a directory's regular files
  Events,      \* event names
  Codes,       \* encodings: pairs of an event number and a umask
  Models,      \* the recognised CPU models, the values of c_cpuModels
  NoModel,     \* getCPUModel's -1
  MaxElements, \* bound: the events a file lists
  MaxLoads     \* bound: the calls of loadFromDirectory

ASSUME ReaderAssumption ==
  /\ NoModel \notin Models
  /\ MaxElements \in Nat /\ MaxLoads \in Nat

VARIABLES
  m_hwCounters,  \* the map: a function from event names to HwEvents
  directory,     \* the directory being read
  unread,        \* its files readdir has not returned yet
  elements,      \* the events of the open file that are still to be loaded
  model,         \* the model of the open file
  stage,         \* "idle", "readdir" or "loading"
  loads,         \* history: per call that returned, the files it read
  facts          \* history: the <<event, code, model>> loaded, in order

reading == <<directory, unread, elements, model, stage>>
vars == <<m_hwCounters, reading, loads, facts, errorVars>>

(* What a directory entry is to the reader: a list of events for a model,  *)
(* recognised or not; a JSON file that does not parse or convert; a file   *)
(* of another type; or a file whose name is shorter than "json".           *)
Listings == UNION {[1 .. n -> Events \X Codes] : n \in 0 .. MaxElements}
Lists == [kind : {"json"}, model : Models \cup {NoModel}, elements : Listings]
Corrupt == [kind : {"corrupt"}, model : Models \cup {NoModel}, elements : {<<>>}]
Others == [kind : {"other", "short"}, model : {NoModel}, elements : {<<>>}]
Entries == Lists \cup Corrupt \cup Others
Directories == [Files -> Entries]

Init ==
  /\ m_hwCounters = <<>>
  /\ directory = <<>> /\ unread = {} /\ elements = <<>> /\ model = NoModel
  /\ stage = "idle"
  /\ loads = <<>> /\ facts = <<>>
  /\ programmed = FALSE
  /\ ErrorInit

Running(s) == status = "running" /\ stage = s

(* opendir; when it fails the call does nothing and says nothing.          *)
loadFromDirectory ==
  /\ Running("idle") /\ Len(loads) < MaxLoads
  /\ directory' \in Directories
  /\ unread' = Files
  /\ stage' = "readdir"
  /\ UNCHANGED <<m_hwCounters, elements, model, loads, facts, errorVars>>

(* Mutant: files of unrecognised models are loaded too.                    *)
IsAnyJson(entry) == entry.kind \in {"json", "corrupt"}

(* isJson and getCPUModel, which loadCounters is called behind.            *)
IsLoaded(entry) == entry.kind \in {"json", "corrupt"} /\ entry.model # NoModel

(* substr(size() - 4) throws for a short name; nothing catches it.         *)
Throw ==
  /\ status' = "terminated"
  /\ UNCHANGED <<m_hwCounters, directory, elements, model, stage, loads, facts,
                 handler, programmed, raised>>

(* readdir returns a file, and loadCounters opens and parses it.           *)
ReadFile(f) ==
  /\ Running("readdir") /\ f \in unread
  /\ unread' = unread \ {f}
  /\ LET entry == directory[f] IN
       \/ entry.kind = "short" /\ Throw
       \/ /\ entry.kind # "short" /\ ~IsLoaded(entry)
          /\ UNCHANGED <<m_hwCounters, directory, elements, model, stage, loads, facts, errorVars>>
       \/ IsLoaded(entry) /\ entry.kind = "corrupt" /\ Throw
       \/ /\ IsLoaded(entry) /\ entry.kind = "json"
          /\ elements' = entry.elements /\ model' = entry.model /\ stage' = "loading"
          /\ UNCHANGED <<m_hwCounters, directory, loads, facts, errorVars>>

(* Mutant: after the handler returns the file is passed over.              *)
PassOver(f) ==
  /\ Running("readdir") /\ f \in unread /\ IsLoaded(directory[f])
  /\ unread' = unread \ {f}
  /\ handleFatalError("running")
  /\ UNCHANGED <<m_hwCounters, directory, elements, model, stage, loads, facts>>

(* The file cannot be opened: a fatal error, and when the handler returns  *)
(* the parser throws on the stream that is not open.                       *)
CannotOpen(f) ==
  /\ Running("readdir") /\ f \in unread /\ IsLoaded(directory[f])
  /\ unread' = unread \ {f}
  /\ handleFatalError("terminated")
  /\ UNCHANGED <<m_hwCounters, directory, elements, model, stage, loads, facts>>

(* The class HwEvent: a code and the models it was loaded for; its name is *)
(* the key of the map.                                                     *)
HwEvent == [code : Codes, models : SUBSET Models]

addSupportedCpuModel(event, m) == [event EXCEPT !.models = @ \cup {m}]

supports(event, m) == m \in event.models

(* m_hwCounters.insert of an event the map does not know.                  *)
Inserted(n, event) ==
  [x \in DOMAIN m_hwCounters \cup {n} |-> IF x = n THEN event ELSE m_hwCounters[x]]

(* Mutants: a known event keeps its models; it gets the last file's code;  *)
(* an insertion by operator[], which leaves the code of HwEvent().         *)
KeepKnown(e, m) ==
  IF e[1] \in DOMAIN m_hwCounters THEN m_hwCounters
  ELSE Inserted(e[1], [code |-> e[2], models |-> {m}])
LastWins(e, m) ==
  IF e[1] \in DOMAIN m_hwCounters
  THEN [m_hwCounters EXCEPT ![e[1]] = [code |-> e[2], models |-> @.models \cup {m}]]
  ELSE Inserted(e[1], [code |-> e[2], models |-> {m}])
ByIndex(e, m) ==
  IF e[1] \in DOMAIN m_hwCounters
  THEN [m_hwCounters EXCEPT ![e[1]] = addSupportedCpuModel(@, m)]
  ELSE Inserted(e[1], [code |-> <<>>, models |-> {m}])

(* The loop's body: insert the event, or add the model to the known one.   *)
Merge(e, m) ==
  IF e[1] \in DOMAIN m_hwCounters
  THEN [m_hwCounters EXCEPT ![e[1]] = addSupportedCpuModel(@, m)]
  ELSE Inserted(e[1], [code |-> e[2], models |-> {m}])

LoadElement ==
  /\ Running("loading") /\ elements # <<>>
  /\ m_hwCounters' = Merge(Head(elements), model)
  /\ elements' = Tail(elements)
  /\ facts' = Append(facts, <<Head(elements)[1], Head(elements)[2], model>>)
  /\ UNCHANGED <<directory, unread, model, stage, loads, errorVars>>

FileLoaded ==
  /\ Running("loading") /\ elements = <<>>
  /\ stage' = "readdir"
  /\ UNCHANGED <<m_hwCounters, directory, unread, elements, model, loads, facts, errorVars>>

(* The files of the directory readdir has returned.                        *)
Read == [f \in Files \ unread |-> directory[f]]

(* readdir returns a null pointer: at the end of the directory or, before  *)
(* it, because of an error; the loop does not ask which.                   *)
closedir ==
  /\ Running("readdir")
  /\ stage' = "idle"
  /\ loads' = Append(loads, Read)
  /\ UNCHANGED <<m_hwCounters, directory, unread, elements, model, facts, errorVars>>

InstallHandler ==
  /\ Running("idle")
  /\ setDefaultErrorHandler \/ resetDefaultErrorHandler
  /\ UNCHANGED <<m_hwCounters, reading, loads, facts>>

Next ==
  \/ loadFromDirectory
  \/ \E f \in unread : ReadFile(f) \/ CannotOpen(f)
  \/ LoadElement
  \/ FileLoaded
  \/ closedir
  \/ InstallHandler

Spec == Init /\ [][Next]_vars
-----------------------------------------------------------------------------
(* getCounters(m): the events that support the model m, with their codes.  *)
getCounters(m) ==
  {<<n, m_hwCounters[n].code>> : n \in {x \in DOMAIN m_hwCounters : supports(m_hwCounters[x], m)}}

(* Type invariant of the reader.                                           *)
TypeOK ==
  /\ DOMAIN m_hwCounters \subseteq Events
  /\ \A n \in DOMAIN m_hwCounters : m_hwCounters[n] \in HwEvent
  /\ unread \subseteq Files
  /\ elements \in Seq(Events \X Codes)
  /\ model \in Models \cup {NoModel}
  /\ stage \in {"idle", "readdir", "loading"}
  /\ stage # "idle" => directory \in Directories
  /\ loads \in Seq(UNION {[F -> Entries] : F \in SUBSET Files})
  /\ facts \in Seq(Events \X Codes \X Models)
  /\ ErrorTypeOK

(* What the files that were read say: <<event, code, model>> for every     *)
(* event a JSON file of a recognised model lists.                          *)
Listed ==
  {l \in Events \X Codes \X Models :
     \E i \in DOMAIN loads : \E f \in DOMAIN loads[i] :
       \E k \in DOMAIN loads[i][f].elements :
         /\ loads[i][f].model = l[3]
         /\ loads[i][f].elements[k] = <<l[1], l[2]>>}

AtRest == stage = "idle" /\ status = "running"

(* The map is a function of the sequence of events loaded: an event is     *)
(* known if it was loaded, supports the models it was loaded for and keeps *)
(* the code it was loaded with first.                                      *)
CountersAreTheFacts ==
  /\ DOMAIN m_hwCounters = {facts[i][1] : i \in DOMAIN facts}
  /\ \A n \in DOMAIN m_hwCounters :
       /\ m_hwCounters[n].models = {facts[i][3] : i \in {j \in DOMAIN facts : facts[j][1] = n}}
       /\ \E i \in DOMAIN facts :
            /\ facts[i][1] = n /\ facts[i][2] = m_hwCounters[n].code
            /\ \A j \in 1 .. i - 1 : facts[j][1] # n

(* After a load, getCounters(m) names exactly the events the files of      *)
(* model m list: no file readdir returned is skipped, in whatever order.   *)
AnswersAreComplete ==
  AtRest => \A m \in Models :
    {c[1] : c \in getCounters(m)} = {l[1] : l \in {x \in Listed : x[3] = m}}

(* The files that list the event n agree on its code.                      *)
Agreed(n) == \A k \in Listed, l \in Listed : k[1] = n /\ l[1] = n => k[2] = l[2]

(* When the files agree on an event's code, getCounters answers that code  *)
(* for every model, so the order of readdir does not matter for the event, *)
(* whatever the files say about others.                                    *)
AgreementFixesCodes ==
  AtRest => \A m \in Models : \A c \in getCounters(m) :
    Agreed(c[1]) => <<c[1], c[2], m>> \in Listed

(* An event, once known, keeps its code and loses no model.                *)
KnownEventsStay ==
  [][\A n \in DOMAIN m_hwCounters :
       /\ n \in DOMAIN m_hwCounters'
       /\ m_hwCounters'[n].code = m_hwCounters[n].code
       /\ m_hwCounters[n].models \subseteq m_hwCounters'[n].models]_m_hwCounters

(* The code can load the file or has no use for it.                        *)
Taken(entry) ==
  entry.kind # "short" /\ (entry.kind = "corrupt" => entry.model \notin Models)

(* A load that returns has met nothing it could not take: no error was     *)
(* reported on the way, not even to a handler that returns, and no file    *)
(* was passed over because its name is short or its text does not parse.   *)
(* So the only way to a partial map is an error of opendir or readdir.     *)
NoFileIsPassedOver ==
  AtRest => ~raised /\ \A i \in DOMAIN loads : \A f \in DOMAIN loads[i] : Taken(loads[i][f])
=============================================================================
