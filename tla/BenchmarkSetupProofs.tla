------------------------- MODULE BenchmarkSetupProofs -------------------------
(***************************************************************************)
(* What HwCounterJsonReader keeps for every directory, every order of its  *)
(* files and any number of events, codes and models; and what the          *)
(* composition BenchmarkSetup makes of it: from the files to the events    *)
(* the PMU is programmed with.                                             *)
(***************************************************************************)
EXTENDS BenchmarkSetup, SequenceTheorems, TLAPS

-----------------------------------------------------------------------------
(* The reader.                                                             *)

Fact == Events \X Codes \X Models

(* What a call of loadFromDirectory can have read.                         *)
Parts == UNION {[F -> Entries] : F \in SUBSET Files}

(* The map is a function, and the model of an open file is recognised.     *)
MapIsTyped ==
  /\ m_hwCounters \in [DOMAIN m_hwCounters -> HwEvent]
  /\ stage = "loading" => model \in Models

IInv == TypeOK /\ MapIsTyped /\ CountersAreTheFacts

-----------------------------------------------------------------------------
(* The events a file lists are a sequence.                                 *)
LEMMA EntryTyped ==
  ASSUME NEW d \in Directories, NEW f \in Files
  PROVE  /\ d[f].elements \in Seq(Events \X Codes)
         /\ IsLoaded(d[f]) => d[f].model \in Models
<1>1. d[f] \in Lists \cup Corrupt \cup Others
  BY DEF Directories, Entries
<1>2. ASSUME NEW x \in Listings PROVE x \in Seq(Events \X Codes)
  <2>1. PICK n \in 0 .. MaxElements : x \in [1 .. n -> Events \X Codes]
    BY DEF Listings
  <2>2. n \in Nat
    BY <2>1, ReaderAssumption
  <2>3. QED BY <2>1, <2>2
<1>3. <<>> \in Seq(Events \X Codes)
  OBVIOUS
<1>4. CASE d[f] \in Lists
  BY <1>2, <1>4 DEF Lists, IsLoaded
<1>5. CASE d[f] \in Corrupt \cup Others
  BY <1>3, <1>5 DEF Corrupt, Others, IsLoaded
<1>6. QED BY <1>1, <1>4, <1>5

(* What the loop's body does to the map.                                   *)
LEMMA MergeTyped ==
  ASSUME MapIsTyped, NEW e \in Events \X Codes, NEW m \in Models
  PROVE  /\ DOMAIN Merge(e, m) = DOMAIN m_hwCounters \cup {e[1]}
         /\ Merge(e, m) \in [DOMAIN Merge(e, m) -> HwEvent]
         /\ \A n \in DOMAIN m_hwCounters : n # e[1] => Merge(e, m)[n] = m_hwCounters[n]
         /\ IF e[1] \in DOMAIN m_hwCounters
            THEN /\ Merge(e, m)[e[1]].code = m_hwCounters[e[1]].code
                 /\ Merge(e, m)[e[1]].models = m_hwCounters[e[1]].models \cup {m}
            ELSE Merge(e, m)[e[1]] = [code |-> e[2], models |-> {m}]
<1>1. m_hwCounters \in [DOMAIN m_hwCounters -> HwEvent]
  BY DEF MapIsTyped
<1>2. CASE e[1] \in DOMAIN m_hwCounters
  <2> DEFINE n1 == e[1]
             old == m_hwCounters[n1]
             new == [old EXCEPT !.models = @ \cup {m}]
  <2>1. old \in HwEvent
    BY <1>1, <1>2
  <2>2. new \in HwEvent /\ new.code = old.code /\ new.models = old.models \cup {m}
    BY <2>1 DEF HwEvent
  <2>3. Merge(e, m) = [m_hwCounters EXCEPT ![n1] = new]
    BY <1>2 DEF Merge, addSupportedCpuModel
  <2>4. QED BY <1>1, <1>2, <2>2, <2>3
<1>3. CASE e[1] \notin DOMAIN m_hwCounters
  <2>1. [code |-> e[2], models |-> {m}] \in HwEvent
    BY DEF HwEvent
  <2>2. Merge(e, m) = Inserted(e[1], [code |-> e[2], models |-> {m}])
    BY <1>3 DEF Merge
  <2>3. QED BY <1>1, <1>3, <2>1, <2>2 DEF Inserted
<1>4. QED BY <1>2, <1>3

(* The third parts of the triples whose first part is n.                   *)
LEMMA ThirdParts ==
  ASSUME NEW D, NEW s, NEW n, NEW y
  PROVE  y \in {s[i][3] : i \in {j \in D : s[j][1] = n}}
         <=> \E i \in D : s[i][1] = n /\ y = s[i][3]
OBVIOUS

(* The map after one more event is the map of the longer list of facts.    *)
LEMMA LoadElementFacts ==
  ASSUME IInv, LoadElement
  PROVE  /\ MapIsTyped' /\ CountersAreTheFacts'
         /\ facts' \in Seq(Fact) /\ elements' \in Seq(Events \X Codes)
         /\ DOMAIN m_hwCounters' \subseteq Events
<1> DEFINE e == Head(elements)
           fact == <<e[1], e[2], model>>
           L == Len(facts)
<1>1. /\ elements \in Seq(Events \X Codes) /\ elements # <<>>
      /\ facts \in Seq(Fact) /\ L \in Nat
      /\ model \in Models /\ DOMAIN m_hwCounters \subseteq Events
  BY DEF IInv, TypeOK, MapIsTyped, LoadElement, Running, Fact
<1>2. e \in Events \X Codes /\ Tail(elements) \in Seq(Events \X Codes) /\ fact \in Fact
  BY <1>1 DEF Fact
<1>3. /\ m_hwCounters' = Merge(e, model)
      /\ elements' = Tail(elements)
      /\ facts' = Append(facts, fact)
      /\ stage' = stage /\ model' = model
  BY DEF LoadElement
<1>4. /\ DOMAIN facts = 1 .. L /\ DOMAIN facts' = 1 .. L + 1 /\ facts' \in Seq(Fact)
      /\ \A i \in 1 .. L : facts'[i] = facts[i]
      /\ facts'[L + 1] = fact
  BY <1>1, <1>2, <1>3, AppendProperties, LenProperties
<1>5. /\ DOMAIN m_hwCounters' = DOMAIN m_hwCounters \cup {e[1]}
      /\ m_hwCounters' \in [DOMAIN m_hwCounters' -> HwEvent]
      /\ \A n \in DOMAIN m_hwCounters : n # e[1] => m_hwCounters'[n] = m_hwCounters[n]
      /\ IF e[1] \in DOMAIN m_hwCounters
         THEN /\ m_hwCounters'[e[1]].code = m_hwCounters[e[1]].code
              /\ m_hwCounters'[e[1]].models = m_hwCounters[e[1]].models \cup {model}
         ELSE m_hwCounters'[e[1]] = [code |-> e[2], models |-> {model}]
  BY <1>1, <1>2, <1>3, MergeTyped DEF IInv
<1>6. MapIsTyped'
  BY <1>1, <1>3, <1>5 DEF MapIsTyped
<1>7. /\ DOMAIN m_hwCounters = {facts[i][1] : i \in 1 .. L}
      /\ \A n \in DOMAIN m_hwCounters :
           /\ m_hwCounters[n].models = {facts[i][3] : i \in {j \in 1 .. L : facts[j][1] = n}}
           /\ \E i \in 1 .. L :
                /\ facts[i][1] = n /\ facts[i][2] = m_hwCounters[n].code
                /\ \A j \in 1 .. i - 1 : facts[j][1] # n
  BY <1>4 DEF IInv, CountersAreTheFacts
<1>8. fact[1] = e[1] /\ fact[2] = e[2] /\ fact[3] = model
  OBVIOUS
<1>9. 1 .. L + 1 = 1 .. L \cup {L + 1}
  BY <1>1
<1>10. \A y : (\E i \in 1 .. L + 1 : y = facts'[i][1])
             <=> (\E i \in 1 .. L : y = facts[i][1]) \/ y = e[1]
  BY <1>4, <1>8, <1>9
<1>11. \A n, y : (\E i \in 1 .. L + 1 : facts'[i][1] = n /\ y = facts'[i][3])
                <=> \/ \E i \in 1 .. L : facts[i][1] = n /\ y = facts[i][3]
                    \/ n = e[1] /\ y = model
  BY <1>4, <1>8, <1>9
<1>12. DOMAIN m_hwCounters' = {facts'[i][1] : i \in 1 .. L + 1}
  <2>1. {facts'[i][1] : i \in 1 .. L + 1} = {facts[i][1] : i \in 1 .. L} \cup {e[1]}
    BY <1>10
  <2>2. QED BY <1>5, <1>7, <2>1
<1>13. ASSUME NEW n \in DOMAIN m_hwCounters'
       PROVE  m_hwCounters'[n].models = {facts'[i][3] : i \in {j \in 1 .. L + 1 : facts'[j][1] = n}}
  <2> DEFINE old == {facts[i][3] : i \in {j \in 1 .. L : facts[j][1] = n}}
             new == {facts'[i][3] : i \in {j \in 1 .. L + 1 : facts'[j][1] = n}}
  <2>1. \A y : y \in old <=> \E i \in 1 .. L : facts[i][1] = n /\ y = facts[i][3]
    BY ThirdParts
  <2>2. \A y : y \in new <=> \E i \in 1 .. L + 1 : facts'[i][1] = n /\ y = facts'[i][3]
    BY ThirdParts
  <2> HIDE DEF old, new
  <2>3. \A y : y \in new <=> y \in old \/ (n = e[1] /\ y = model)
    BY <1>11, <2>1, <2>2
  <2>4. CASE n # e[1]
    <3>1. n \in DOMAIN m_hwCounters /\ m_hwCounters'[n].models = old
      BY <1>5, <1>7, <1>13, <2>4 DEF old
    <3>2. new = old
      BY <2>4, <2>3
    <3>3. QED BY <3>1, <3>2 DEF new
  <2>5. CASE n = e[1]
    <3>1. new = old \cup {model}
      BY <2>5, <2>3
    <3>2. CASE n \in DOMAIN m_hwCounters
      BY <1>5, <1>7, <2>5, <3>1, <3>2 DEF old, new
    <3>3. CASE n \notin DOMAIN m_hwCounters
      <4>1. old = {}
        <5>1. \A i \in 1 .. L : facts[i][1] # n
          BY <1>7, <3>3
        <5>2. QED BY <2>1, <5>1
      <4>2. m_hwCounters'[n].models = {model}
        BY <1>5, <2>5, <3>3
      <4>3. new = {model}
        BY <3>1, <4>1
      <4>4. QED BY <4>2, <4>3 DEF new
    <3>4. QED BY <3>2, <3>3
  <2>6. QED BY <2>4, <2>5
<1>14. ASSUME NEW n \in DOMAIN m_hwCounters'
       PROVE  \E i \in 1 .. L + 1 :
                /\ facts'[i][1] = n /\ facts'[i][2] = m_hwCounters'[n].code
                /\ \A j \in 1 .. i - 1 : facts'[j][1] # n
  <2>1. CASE n \in DOMAIN m_hwCounters
    <3>1. PICK i \in 1 .. L : /\ facts[i][1] = n /\ facts[i][2] = m_hwCounters[n].code
                              /\ \A j \in 1 .. i - 1 : facts[j][1] # n
      BY <1>7, <2>1
    <3>2. m_hwCounters'[n].code = m_hwCounters[n].code
      BY <1>5, <2>1
    <3>3. i \in 1 .. L + 1 /\ \A j \in 1 .. i - 1 : j \in 1 .. L
      BY <1>1, <3>1
    <3>4. QED BY <1>4, <3>1, <3>2, <3>3
  <2>2. CASE n \notin DOMAIN m_hwCounters
    <3>1. n = e[1] /\ m_hwCounters'[n].code = e[2]
      BY <1>5, <1>14, <2>2
    <3>2. \A j \in 1 .. L : facts[j][1] # n
      BY <1>7, <2>2
    <3>3. L + 1 \in 1 .. L + 1 /\ 1 .. (L + 1) - 1 = 1 .. L
      BY <1>1
    <3>4. \A j \in 1 .. (L + 1) - 1 : facts'[j][1] # n
      BY <1>4, <3>2, <3>3
    <3>5. QED BY <1>4, <1>8, <3>1, <3>3, <3>4
  <2>3. QED BY <2>1, <2>2
<1>15. CountersAreTheFacts'
  BY <1>4, <1>12, <1>13, <1>14 DEF CountersAreTheFacts
<1>16. QED BY <1>1, <1>2, <1>3, <1>4, <1>5, <1>6, <1>15

-----------------------------------------------------------------------------
(* The initial states satisfy the invariant.                               *)
LEMMA InitIInv == Init => IInv
<1> SUFFICES ASSUME Init PROVE IInv
  OBVIOUS
<1>1. /\ m_hwCounters = <<>> /\ facts = <<>> /\ loads = <<>> /\ elements = <<>>
      /\ unread = {} /\ model = NoModel /\ stage = "idle"
  BY DEF Init
<1>2. ErrorTypeOK
  BY DEF Init, ErrorInit, ErrorTypeOK
<1>3. DOMAIN m_hwCounters = {} /\ DOMAIN facts = {}
  BY <1>1
<1>4. TypeOK
  BY <1>1, <1>2, <1>3 DEF TypeOK
<1>5. MapIsTyped /\ CountersAreTheFacts
  BY <1>1, <1>3 DEF MapIsTyped, CountersAreTheFacts
<1>6. QED BY <1>4, <1>5 DEF IInv

(* Steps that leave the map and the facts alone.                           *)
LEMMA MapUnchanged ==
  ASSUME IInv, m_hwCounters' = m_hwCounters, facts' = facts,
         unread' \subseteq Files, elements' \in Seq(Events \X Codes),
         model' \in Models \cup {NoModel}, stage' \in {"idle", "readdir", "loading"},
         stage' # "idle" => directory' \in Directories,
         stage' = "loading" => model' \in Models,
         loads' \in Seq(Parts), ErrorTypeOK'
  PROVE  IInv'
<1>1. TypeOK'
  BY DEF IInv, TypeOK, Parts
<1>2. MapIsTyped'
  BY DEF IInv, MapIsTyped
<1>3. CountersAreTheFacts'
  <2>1. CountersAreTheFacts
    BY DEF IInv
  <2>2. QED BY <2>1 DEF CountersAreTheFacts
<1>4. QED BY <1>1, <1>2, <1>3 DEF IInv

(* Every step keeps the invariant, and no step changes a known event's     *)
(* code or takes a model from it.                                          *)
LEMMA NextIInv ==
  ASSUME IInv, [Next]_vars
  PROVE  /\ IInv'
         /\ \A n \in DOMAIN m_hwCounters :
              /\ n \in DOMAIN m_hwCounters'
              /\ m_hwCounters'[n].code = m_hwCounters[n].code
              /\ m_hwCounters[n].models \subseteq m_hwCounters'[n].models
<1>1. /\ TypeOK /\ MapIsTyped /\ CountersAreTheFacts
      /\ unread \subseteq Files /\ elements \in Seq(Events \X Codes)
      /\ model \in Models \cup {NoModel} /\ loads \in Seq(Parts) /\ ErrorTypeOK
      /\ (stage # "idle" => directory \in Directories)
  BY DEF IInv, TypeOK, Parts
<1>2. CASE loadFromDirectory
  <2>1. /\ directory' \in Directories /\ unread' = Files /\ stage' = "readdir"
        /\ UNCHANGED <<m_hwCounters, elements, model, loads, facts, errorVars>>
    BY <1>2 DEF loadFromDirectory
  <2>2. ErrorTypeOK'
    BY <1>1, <2>1 DEF ErrorTypeOK, errorVars
  <2>3. IInv'
    BY <1>1, <2>1, <2>2, MapUnchanged
  <2>4. QED BY <2>1, <2>3
<1>3. ASSUME NEW f \in unread, ReadFile(f) PROVE IInv' /\ m_hwCounters' = m_hwCounters
  <2> DEFINE entry == directory[f]
  <2>1. /\ stage = "readdir" /\ unread' = unread \ {f}
        /\ UNCHANGED <<m_hwCounters, directory, loads, facts, handler, programmed, raised>>
        /\ \/ /\ UNCHANGED <<elements, model, stage>>
              /\ status' \in {status, "terminated"}
           \/ /\ elements' = entry.elements /\ model' = entry.model /\ stage' = "loading"
              /\ status' = status /\ IsLoaded(entry)
    BY <1>3 DEF ReadFile, Throw, Running, errorVars
  <2>2. /\ entry.elements \in Seq(Events \X Codes)
        /\ IsLoaded(entry) => entry.model \in Models
    BY <1>1, <1>3, <2>1, EntryTyped
  <2>3. ErrorTypeOK'
    BY <1>1, <2>1 DEF ErrorTypeOK
  <2>4. IInv'
    BY <1>1, <2>1, <2>2, <2>3, MapUnchanged DEF MapIsTyped
  <2>5. QED BY <2>1, <2>4
<1>4. ASSUME NEW f \in unread, CannotOpen(f) PROVE IInv' /\ m_hwCounters' = m_hwCounters
  <2>1. /\ unread' = unread \ {f}
        /\ UNCHANGED <<m_hwCounters, directory, elements, model, stage, loads, facts>>
        /\ handleFatalError("terminated")
    BY <1>4 DEF CannotOpen
  <2>2. ErrorTypeOK'
    BY <1>1, <2>1 DEF handleFatalError, runOnFatalError, ErrorTypeOK
  <2>3. IInv'
    BY <1>1, <2>1, <2>2, MapUnchanged DEF MapIsTyped, TypeOK
  <2>4. QED BY <2>1, <2>3
<1>5. CASE LoadElement
  <2> DEFINE e == Head(elements)
  <2>1. /\ UNCHANGED <<directory, unread, model, stage, loads, errorVars>>
        /\ m_hwCounters' = Merge(e, model) /\ elements # <<>> /\ stage = "loading"
    BY <1>5 DEF LoadElement, Running
  <2>2. /\ MapIsTyped' /\ CountersAreTheFacts'
        /\ facts' \in Seq(Fact) /\ elements' \in Seq(Events \X Codes)
        /\ DOMAIN m_hwCounters' \subseteq Events
    BY <1>5, LoadElementFacts
  <2>3. \A n \in DOMAIN m_hwCounters' :
          m_hwCounters'[n] \in HwEvent
    BY <2>2 DEF MapIsTyped
  <2>4. ErrorTypeOK'
    BY <1>1, <2>1 DEF ErrorTypeOK, errorVars
  <2>5. TypeOK'
    BY <1>1, <2>1, <2>2, <2>3, <2>4 DEF TypeOK, Fact
  <2>6. e \in Events \X Codes /\ model \in Models
    BY <1>1, <2>1 DEF MapIsTyped
  <2>7. ASSUME NEW n \in DOMAIN m_hwCounters
        PROVE  /\ n \in DOMAIN m_hwCounters'
               /\ m_hwCounters'[n].code = m_hwCounters[n].code
               /\ m_hwCounters[n].models \subseteq m_hwCounters'[n].models
    <3> DEFINE map == Merge(e, model)
    <3> HIDE DEF e
    <3>1. /\ DOMAIN map = DOMAIN m_hwCounters \cup {e[1]}
          /\ n # e[1] => map[n] = m_hwCounters[n]
          /\ IF e[1] \in DOMAIN m_hwCounters
             THEN /\ map[e[1]].code = m_hwCounters[e[1]].code
                  /\ map[e[1]].models = m_hwCounters[e[1]].models \cup {model}
             ELSE map[e[1]] = [code |-> e[2], models |-> {model}]
      BY <1>1, <2>6, MergeTyped
    <3>2. CASE n = e[1]
      BY <2>1, <3>1, <3>2
    <3>3. CASE n # e[1]
      BY <2>1, <3>1, <3>3
    <3>4. QED BY <3>2, <3>3
  <2>8. QED BY <2>2, <2>5, <2>7 DEF IInv
<1>6. CASE FileLoaded
  <2>1. /\ stage' = "readdir" /\ stage = "loading"
        /\ UNCHANGED <<m_hwCounters, directory, unread, elements, model, loads, facts, errorVars>>
    BY <1>6 DEF FileLoaded, Running
  <2>2. ErrorTypeOK'
    BY <1>1, <2>1 DEF ErrorTypeOK, errorVars
  <2>3. IInv'
    BY <1>1, <2>1, <2>2, MapUnchanged
  <2>4. QED BY <2>1, <2>3
<1>7. CASE closedir
  <2>1. /\ stage' = "idle" /\ stage = "readdir" /\ loads' = Append(loads, Read)
        /\ UNCHANGED <<m_hwCounters, directory, unread, elements, model, facts, errorVars>>
    BY <1>7 DEF closedir, Running
  <2>2. loads' \in Seq(Parts)
    <3>1. Read \in [Files \ unread -> Entries]
      BY <1>1, <2>1 DEF Read, Directories
    <3>2. Read \in Parts
      BY <3>1 DEF Parts
    <3>3. QED BY <1>1, <2>1, <3>2
  <2>3. ErrorTypeOK'
    BY <1>1, <2>1 DEF ErrorTypeOK, errorVars
  <2>4. IInv'
    BY <1>1, <2>1, <2>2, <2>3, MapUnchanged
  <2>5. QED BY <2>1, <2>4
<1>8. CASE InstallHandler
  <2>1. /\ handler' \in {"default", "custom"}
        /\ UNCHANGED <<status, programmed, raised>>
        /\ UNCHANGED <<m_hwCounters, directory, unread, elements, model, stage, loads, facts>>
    BY <1>8 DEF InstallHandler, setDefaultErrorHandler, resetDefaultErrorHandler, reading
  <2>2. ErrorTypeOK'
    BY <1>1, <2>1 DEF ErrorTypeOK
  <2>3. IInv'
    BY <1>1, <2>1, <2>2, MapUnchanged DEF MapIsTyped, TypeOK
  <2>4. QED BY <2>1, <2>3
<1>9. CASE UNCHANGED vars
  <2>1. UNCHANGED <<m_hwCounters, directory, unread, elements, model, stage, loads, facts, errorVars>>
    BY <1>9 DEF vars, reading
  <2>2. ErrorTypeOK'
    BY <1>1, <2>1 DEF ErrorTypeOK, errorVars
  <2>3. IInv'
    BY <1>1, <2>1, <2>2, MapUnchanged DEF MapIsTyped, TypeOK
  <2>4. QED BY <2>1, <2>3
<1>10. QED
  BY <1>2, <1>3, <1>4, <1>5, <1>6, <1>7, <1>8, <1>9 DEF Next

-----------------------------------------------------------------------------
(* Every variable keeps its type; an open file's model is recognised.      *)
THEOREM TypeCorrect == Spec => []TypeOK
<1>1. IInv => TypeOK
  BY DEF IInv
<1>2. IInv /\ [Next]_vars => IInv'
  BY NextIInv
<1>3. QED BY <1>1, <1>2, InitIInv, PTL DEF Spec

(* The map is a function of the events loaded and their order: the first   *)
(* file that lists an event decides its code for every model.              *)
THEOREM CountersCorrect == Spec => []CountersAreTheFacts
<1>1. IInv => CountersAreTheFacts
  BY DEF IInv
<1>2. IInv /\ [Next]_vars => IInv'
  BY NextIInv
<1>3. QED BY <1>1, <1>2, InitIInv, PTL DEF Spec

(* An event that is known keeps its code and its models.                   *)
THEOREM KnownEvents == Spec => KnownEventsStay
<1>1. IInv /\ [Next]_vars => IInv'
  BY NextIInv
<1>2. IInv /\ [Next]_vars =>
        [\A n \in DOMAIN m_hwCounters :
           /\ n \in DOMAIN m_hwCounters'
           /\ m_hwCounters'[n].code = m_hwCounters[n].code
           /\ m_hwCounters[n].models \subseteq m_hwCounters'[n].models]_m_hwCounters
  BY NextIInv
<1>3. QED BY <1>1, <1>2, InitIInv, PTL DEF Spec, KnownEventsStay

-----------------------------------------------------------------------------
(* Which facts the files that were read account for.                       *)

(* The list of events es of the model m has the fact l.                    *)
HasFact(es, m, l) == m = l[3] /\ \E k \in DOMAIN es : es[k] = <<l[1], l[2]>>

IsFact(l) == \E i \in DOMAIN facts : facts[i] = l

IsListed(l) ==
  \E i \in DOMAIN loads : \E f \in DOMAIN loads[i] : HasFact(loads[i][f].elements, loads[i][f].model, l)

(* The files of the open directory that readdir has returned.              *)
IsRead(l) == \E f \in Files \ unread : HasFact(directory[f].elements, directory[f].model, l)

(* A fact was loaded, or is still to come from the open file, exactly when *)
(* a file of an earlier call or a file read from the open directory does.  *)
Accounted ==
  status = "running" =>
    \A l \in Fact :
      IsFact(l) \/ (stage = "loading" /\ HasFact(elements, model, l))
      <=> IsListed(l) \/ (stage # "idle" /\ IsRead(l))

(* Files the reader passes over account for no fact.                       *)
LEMMA PassedOver ==
  ASSUME NEW d \in Directories, NEW f \in Files, ~IsLoaded(d[f]), NEW l \in Fact
  PROVE  ~HasFact(d[f].elements, d[f].model, l)
<1>1. d[f] \in Lists \cup Corrupt \cup Others
  BY DEF Directories, Entries
<1>2. l[3] \in Models /\ NoModel \notin Models
  BY ReaderAssumption DEF Fact
<1>3. CASE d[f] \in Lists
  BY <1>2, <1>3 DEF Lists, IsLoaded, HasFact
<1>4. CASE d[f] \in Corrupt \cup Others
  <2>1. d[f].elements = <<>>
    BY <1>4 DEF Corrupt, Others
  <2>2. QED BY <2>1 DEF HasFact
<1>5. QED BY <1>1, <1>3, <1>4

(* A list's facts are its head's and its tail's.                           *)
LEMMA HeadOrTail ==
  ASSUME NEW es \in Seq(Events \X Codes), es # <<>>, NEW m \in Models, NEW l \in Fact
  PROVE  HasFact(es, m, l) <=> l = <<Head(es)[1], Head(es)[2], m>> \/ HasFact(Tail(es), m, l)
<1>1. /\ Len(es) \in Nat /\ Len(es) >= 1 /\ DOMAIN es = 1 .. Len(es)
      /\ DOMAIN Tail(es) = 1 .. Len(es) - 1
      /\ \A k \in 1 .. Len(es) - 1 : Tail(es)[k] = es[k + 1]
      /\ Head(es) = es[1] /\ Head(es) \in Events \X Codes
  BY HeadTailProperties, LenProperties
<1>2. /\ l = <<l[1], l[2], l[3]>>
      /\ Head(es) = <<Head(es)[1], Head(es)[2]>>
  BY <1>1 DEF Fact
<1>3. l = <<Head(es)[1], Head(es)[2], m>> <=> m = l[3] /\ es[1] = <<l[1], l[2]>>
  BY <1>1, <1>2
<1>4. (\E k \in 1 .. Len(es) : es[k] = <<l[1], l[2]>>)
      <=> es[1] = <<l[1], l[2]>> \/ \E k \in 1 .. Len(es) - 1 : Tail(es)[k] = <<l[1], l[2]>>
  <2>1. ASSUME NEW k \in 1 .. Len(es), k # 1
        PROVE  k - 1 \in 1 .. Len(es) - 1 /\ Tail(es)[k - 1] = es[k]
    BY <1>1, <2>1
  <2>2. ASSUME NEW k \in 1 .. Len(es) - 1 PROVE k + 1 \in 1 .. Len(es) /\ Tail(es)[k] = es[k + 1]
    BY <1>1
  <2>3. 1 \in 1 .. Len(es)
    BY <1>1
  <2>4. QED BY <2>1, <2>2, <2>3
<1>5. QED BY <1>1, <1>3, <1>4 DEF HasFact

(* Before the first directory there is nothing to account for.             *)
LEMMA InitAccounted == Init => Accounted
<1> SUFFICES ASSUME Init PROVE Accounted
  OBVIOUS
<1>1. facts = <<>> /\ loads = <<>> /\ stage = "idle"
  BY DEF Init
<1>2. QED BY <1>1 DEF Accounted, IsFact, IsListed

(* Every step keeps the account: a fact is loaded once its file is read, and*)
(* the files of a directory are among the loads once the call returns.     *)
LEMMA NextAccounted ==
  ASSUME IInv, Accounted, [Next]_vars
  PROVE  Accounted'
<1> SUFFICES ASSUME status' = "running", NEW l \in Fact
             PROVE  IsFact(l)' \/ (stage' = "loading" /\ HasFact(elements', model', l))
                    <=> IsListed(l)' \/ (stage' # "idle" /\ IsRead(l)')
  BY DEF Accounted
<1> DEFINE Before == IsFact(l) \/ (stage = "loading" /\ HasFact(elements, model, l))
                     <=> IsListed(l) \/ (stage # "idle" /\ IsRead(l))
<1>1. /\ unread \subseteq Files /\ elements \in Seq(Events \X Codes)
      /\ facts \in Seq(Fact) /\ loads \in Seq(Parts)
      /\ stage # "idle" => directory \in Directories
      /\ stage = "loading" => model \in Models
      /\ status = "running" => Before
  BY DEF IInv, TypeOK, MapIsTyped, Fact, Accounted, Parts
<1>2. CASE loadFromDirectory
  <2>1. /\ status = "running" /\ stage = "idle" /\ stage' = "readdir" /\ unread' = Files
        /\ facts' = facts /\ loads' = loads
    BY <1>2 DEF loadFromDirectory, Running
  <2>2. ~IsRead(l)'
    BY <2>1 DEF IsRead
  <2>3. (IsFact(l)' <=> IsFact(l)) /\ (IsListed(l)' <=> IsListed(l))
    BY <2>1 DEF IsFact, IsListed
  <2>4. QED BY <1>1, <2>1, <2>2, <2>3
<1>3. ASSUME NEW f \in unread, ReadFile(f)
      PROVE  IsFact(l)' \/ (stage' = "loading" /\ HasFact(elements', model', l))
             <=> IsListed(l)' \/ (stage' # "idle" /\ IsRead(l)')
  <2> DEFINE Reads == HasFact(directory[f].elements, directory[f].model, l)
  <2>1. /\ status = "running" /\ stage = "readdir" /\ unread' = unread \ {f}
        /\ UNCHANGED <<directory, facts, loads>>
        /\ \/ ~IsLoaded(directory[f]) /\ stage' = stage
           \/ /\ elements' = directory[f].elements /\ model' = directory[f].model
              /\ stage' = "loading"
    BY <1>3 DEF ReadFile, Throw, Running
  <2>2. IsRead(l)' <=> IsRead(l) \/ Reads
    <3>1. Files \ unread' = (Files \ unread) \cup {f}
      BY <1>1, <2>1
    <3>2. QED BY <2>1, <3>1 DEF IsRead
  <2>3. (IsFact(l)' <=> IsFact(l)) /\ (IsListed(l)' <=> IsListed(l))
    BY <2>1 DEF IsFact, IsListed
  <2>4. ~IsLoaded(directory[f]) => ~Reads
    BY <1>1, <2>1, PassedOver
  <2> HIDE DEF Reads
  <2>5. stage' = "loading" => (HasFact(elements', model', l) <=> Reads)
    BY <2>1 DEF Reads
  <2>6. QED BY <1>1, <2>1, <2>2, <2>3, <2>4, <2>5
<1>4. ASSUME NEW f \in unread, CannotOpen(f) PROVE FALSE
  BY <1>4 DEF CannotOpen, handleFatalError
<1>5. CASE LoadElement
  <2> DEFINE fact == <<Head(elements)[1], Head(elements)[2], model>>
  <2>1. /\ status = "running" /\ stage = "loading" /\ elements # <<>>
        /\ elements' = Tail(elements) /\ facts' = Append(facts, fact)
        /\ UNCHANGED <<directory, unread, model, stage, loads>>
    BY <1>5 DEF LoadElement, Running
  <2>2. HasFact(elements, model, l) <=> l = fact \/ HasFact(elements', model', l)
    BY <1>1, <2>1, HeadOrTail
  <2>3. IsFact(l)' <=> IsFact(l) \/ l = fact
    <3>1. Head(elements) \in Events \X Codes
      BY <1>1, <2>1
    <3>2. fact \in Fact
      BY <1>1, <2>1, <3>1 DEF Fact
    <3>3. /\ DOMAIN facts = 1 .. Len(facts) /\ DOMAIN facts' = 1 .. Len(facts) + 1
          /\ Len(facts) \in Nat
          /\ \A i \in 1 .. Len(facts) : facts'[i] = facts[i]
          /\ facts'[Len(facts) + 1] = fact
      BY <1>1, <2>1, <3>2, AppendProperties, LenProperties
    <3>4. 1 .. Len(facts) + 1 = 1 .. Len(facts) \cup {Len(facts) + 1}
      BY <3>3
    <3> HIDE DEF fact
    <3>5. QED BY <3>3, <3>4 DEF IsFact
  <2>4. (IsListed(l)' <=> IsListed(l)) /\ (IsRead(l)' <=> IsRead(l))
    BY <2>1 DEF IsListed, IsRead
  <2> HIDE DEF fact
  <2>5. QED BY <1>1, <2>1, <2>2, <2>3, <2>4
<1>6. CASE FileLoaded
  <2>1. /\ status = "running" /\ stage = "loading" /\ stage' = "readdir" /\ elements = <<>>
        /\ UNCHANGED <<directory, unread, loads, facts>>
    BY <1>6 DEF FileLoaded, Running
  <2>2. ~HasFact(elements, model, l)
    BY <2>1 DEF HasFact
  <2>3. (IsFact(l)' <=> IsFact(l)) /\ (IsListed(l)' <=> IsListed(l)) /\ (IsRead(l)' <=> IsRead(l))
    BY <2>1 DEF IsFact, IsListed, IsRead
  <2>4. QED BY <1>1, <2>1, <2>2, <2>3
<1>7. CASE closedir
  <2>1. /\ status = "running" /\ stage = "readdir" /\ stage' = "idle"
        /\ loads' = Append(loads, Read) /\ facts' = facts /\ directory \in Directories
    BY <1>1, <1>7 DEF closedir, Running
  <2> DEFINE new == Read
  <2>0. /\ new \in Parts /\ DOMAIN new = Files \ unread
        /\ \A f \in Files \ unread : new[f] = directory[f]
    <3>1. new \in [Files \ unread -> Entries]
      BY <1>1, <2>1 DEF Read, Directories
    <3>2. QED BY <3>1 DEF Parts, Read
  <2> HIDE DEF new
  <2>2. /\ DOMAIN loads = 1 .. Len(loads) /\ DOMAIN loads' = 1 .. Len(loads) + 1
        /\ Len(loads) \in Nat
        /\ \A i \in 1 .. Len(loads) : loads'[i] = loads[i]
        /\ loads'[Len(loads) + 1] = new
    BY <1>1, <2>0, <2>1, AppendProperties, LenProperties DEF new
  <2>3. 1 .. Len(loads) + 1 = 1 .. Len(loads) \cup {Len(loads) + 1}
    BY <2>2
  <2>4. IsListed(l)' <=> IsListed(l) \/ IsRead(l)
    BY <2>0, <2>1, <2>2, <2>3 DEF IsListed, IsRead
  <2>5. IsFact(l)' <=> IsFact(l)
    BY <2>1 DEF IsFact
  <2>6. QED BY <1>1, <2>1, <2>4, <2>5
<1>8. CASE InstallHandler \/ UNCHANGED vars
  <2>1. UNCHANGED <<directory, unread, elements, model, stage, loads, facts, status>>
    BY <1>8 DEF InstallHandler, setDefaultErrorHandler, resetDefaultErrorHandler, reading, vars,
                errorVars
  <2>2. QED BY <1>1, <2>1 DEF IsFact, IsListed, IsRead
<1>9. QED
  BY <1>2, <1>3, <1>4, <1>5, <1>6, <1>7, <1>8 DEF Next

(* The account holds in every reachable state.                             *)
LEMMA Bookkeeping == Spec => [](IInv /\ Accounted)
<1>1. IInv /\ Accounted /\ [Next]_vars => IInv' /\ Accounted'
  BY NextIInv, NextAccounted
<1>2. QED BY <1>1, InitIInv, InitAccounted, PTL DEF Spec

(* At rest the facts loaded are the facts listed.                          *)
LEMMA FactsAreListed ==
  ASSUME IInv, Accounted, AtRest
  PROVE  \A l : l \in Listed <=> IsFact(l)
<1>1. \A l \in Fact : IsFact(l) <=> IsListed(l)
  BY DEF Accounted, AtRest
<1>2. \A l : l \in Listed <=> l \in Fact /\ IsListed(l)
  BY DEF Listed, IsListed, HasFact, Fact
<1>3. \A l : IsFact(l) => l \in Fact
  BY DEF IInv, TypeOK, IsFact, Fact
<1>4. QED BY <1>1, <1>2, <1>3

(* The events a model is said to support are those loaded for it.          *)
LEMMA AnswersAreFacts ==
  ASSUME IInv, NEW m \in Models, NEW n
  PROVE  n \in DOMAIN m_hwCounters /\ supports(m_hwCounters[n], m)
         <=> \E i \in DOMAIN facts : facts[i][1] = n /\ m = facts[i][3]
<1>1. /\ DOMAIN m_hwCounters = {facts[i][1] : i \in DOMAIN facts}
      /\ \A x \in DOMAIN m_hwCounters :
           m_hwCounters[x].models = {facts[i][3] : i \in {j \in DOMAIN facts : facts[j][1] = x}}
  BY DEF IInv, CountersAreTheFacts
<1>2. m \in {facts[i][3] : i \in {j \in DOMAIN facts : facts[j][1] = n}}
      <=> \E i \in DOMAIN facts : facts[i][1] = n /\ m = facts[i][3]
  BY ThirdParts
<1>3. CASE n \in DOMAIN m_hwCounters
  BY <1>1, <1>2, <1>3 DEF supports
<1>4. CASE n \notin DOMAIN m_hwCounters
  BY <1>1, <1>4
<1>5. QED BY <1>3, <1>4

(* The keys of what getCounters answers are the events of the model.       *)
LEMMA AnswerKeys ==
  ASSUME NEW m, NEW n
  PROVE  n \in {c[1] : c \in getCounters(m)}
         <=> n \in DOMAIN m_hwCounters /\ supports(m_hwCounters[n], m)
<1> DEFINE S == {x \in DOMAIN m_hwCounters : supports(m_hwCounters[x], m)}
<1>1. getCounters(m) = {<<x, m_hwCounters[x].code>> : x \in S}
  BY DEF getCounters
<1>2. n \in S <=> n \in DOMAIN m_hwCounters /\ supports(m_hwCounters[n], m)
  OBVIOUS
<1> HIDE DEF S
<1>3. (\E c \in getCounters(m) : n = c[1]) <=> n \in S
  <2>1. ASSUME NEW c \in getCounters(m), n = c[1] PROVE n \in S
    BY <1>1, <2>1
  <2>2. ASSUME n \in S PROVE \E c \in getCounters(m) : n = c[1]
    <3>1. <<n, m_hwCounters[n].code>> \in getCounters(m)
      BY <1>1, <2>2
    <3>2. QED BY <3>1
  <2>3. QED BY <2>1, <2>2
<1>4. QED BY <1>2, <1>3

(* After a load no file is skipped and none invented: a model's events are *)
(* those its files list, in whatever order readdir returned them.          *)
THEOREM AnswersComplete == Spec => []AnswersAreComplete
<1>1. ASSUME IInv, Accounted PROVE AnswersAreComplete
  <2> SUFFICES ASSUME AtRest, NEW m \in Models
               PROVE  {c[1] : c \in getCounters(m)} = {l[1] : l \in {x \in Listed : x[3] = m}}
    BY DEF AnswersAreComplete
  <2>1. \A l : l \in Listed <=> IsFact(l)
    BY <1>1, FactsAreListed
  <2>2. ASSUME NEW n
        PROVE  n \in {l[1] : l \in {x \in Listed : x[3] = m}}
               <=> \E i \in DOMAIN facts : facts[i][1] = n /\ m = facts[i][3]
    BY <2>1 DEF IsFact
  <2>3. QED BY <1>1, <2>2, AnswerKeys, AnswersAreFacts
<1>2. QED BY <1>1, Bookkeeping, PTL

(* At rest the code answered for an event is one its model's files list,   *)
(* when all files agree on the event.                                      *)
LEMMA CodesAgree ==
  ASSUME IInv, Accounted, AtRest, NEW m \in Models, NEW c \in getCounters(m), Agreed(c[1])
  PROVE  <<c[1], c[2], m>> \in Listed
<1>1. \A l : l \in Listed <=> IsFact(l)
  BY FactsAreListed
<1>2. PICK n \in DOMAIN m_hwCounters : supports(m_hwCounters[n], m) /\ c = <<n, m_hwCounters[n].code>>
  BY DEF getCounters
<1>3. PICK i \in DOMAIN facts : facts[i][1] = n /\ m = facts[i][3]
  BY <1>2, AnswersAreFacts
<1>4. PICK j \in DOMAIN facts : facts[j][1] = n /\ facts[j][2] = m_hwCounters[n].code
  BY <1>2 DEF IInv, CountersAreTheFacts
<1>5. facts[i] \in Listed /\ facts[j] \in Listed
  BY <1>1 DEF IsFact
<1>6. facts[i][2] = c[2] /\ facts[i][1] = c[1]
  BY <1>2, <1>3, <1>4, <1>5 DEF Agreed
<1>7. facts[i] = <<facts[i][1], facts[i][2], facts[i][3]>>
  BY DEF IInv, TypeOK
<1>8. QED BY <1>3, <1>5, <1>6, <1>7

(* Files that agree on an event's code fix the code getCounters answers,   *)
(* so that the order of readdir does not matter.                           *)
THEOREM AgreementFixes == Spec => []AgreementFixesCodes
<1>1. ASSUME IInv, Accounted PROVE AgreementFixesCodes
  BY <1>1, CodesAgree DEF AgreementFixesCodes
<1>2. QED BY <1>1, Bookkeeping, PTL

(* While a load goes on nothing was reported and every file read so far    *)
(* was taken.                                                              *)
AllTaken ==
  status = "running" =>
    /\ ~raised
    /\ \A i \in DOMAIN loads : \A f \in DOMAIN loads[i] : Taken(loads[i][f])
    /\ stage # "idle" => \A f \in Files \ unread : Taken(directory[f])

(* Every step keeps that: a file that is not taken, and a file that cannot *)
(* be opened under any handler, end the process.                           *)
LEMMA NextAllTaken ==
  ASSUME IInv, AllTaken, [Next]_vars
  PROVE  AllTaken'
<1> SUFFICES ASSUME status' = "running"
             PROVE  /\ ~raised'
                    /\ \A i \in DOMAIN loads' : \A f \in DOMAIN loads'[i] : Taken(loads'[i][f])
                    /\ stage' # "idle" => \A f \in Files \ unread' : Taken(directory'[f])
  BY DEF AllTaken, Taken
<1>1. CASE loadFromDirectory
  BY <1>1 DEF AllTaken, loadFromDirectory, Running, errorVars
<1>2. ASSUME NEW f \in unread, ReadFile(f)
      PROVE  /\ UNCHANGED <<raised, loads>> /\ status = "running"
             /\ \A g \in Files \ unread' : Taken(directory'[g])
  <2>1. /\ UNCHANGED <<raised, loads, directory>> /\ status = "running" /\ stage = "readdir"
        /\ unread' = unread \ {f} /\ f \in Files /\ directory \in Directories
        /\ directory[f].kind # "short" /\ (directory[f].kind = "corrupt" => ~IsLoaded(directory[f]))
    BY <1>2 DEF ReadFile, Throw, Running, IInv, TypeOK, errorVars
  <2>2. directory[f].kind = "corrupt" => directory[f].model \notin Models
    <3>1. directory[f] \in Lists \cup Corrupt \cup Others
      BY <2>1 DEF Directories, Entries
    <3>2. QED BY <2>1, ReaderAssumption DEF IsLoaded
  <2>3. Taken(directory[f])
    BY <2>1, <2>2 DEF Taken
  <2>4. QED BY <2>1, <2>3 DEF AllTaken
<1>3. ASSUME NEW f \in unread, CannotOpen(f) PROVE FALSE
  BY <1>3 DEF CannotOpen, handleFatalError
<1>4. CASE LoadElement \/ FileLoaded \/ InstallHandler \/ UNCHANGED vars
  <2>1. UNCHANGED <<raised, loads, directory, unread, status>> /\ (stage' = "idle" <=> stage = "idle")
    BY <1>4 DEF LoadElement, FileLoaded, InstallHandler, setDefaultErrorHandler, Running,
                resetDefaultErrorHandler, vars, reading, errorVars
  <2>2. QED BY <2>1 DEF AllTaken
<1>5. CASE closedir
  <2>1. /\ loads' = Append(loads, Read) /\ UNCHANGED raised /\ status = "running"
        /\ stage = "readdir" /\ stage' = "idle" /\ directory \in Directories
    BY <1>5 DEF closedir, Running, errorVars, IInv, TypeOK
  <2> DEFINE new == Read
  <2>2. new \in Parts /\ \A f \in DOMAIN new : Taken(new[f])
    <3>1. new \in [Files \ unread -> Entries]
      BY <2>1 DEF Read, Directories
    <3>2. \A f \in DOMAIN new : Taken(new[f])
      BY <2>1, <3>1 DEF AllTaken, Read
    <3>3. QED BY <3>1, <3>2 DEF Parts
  <2>3. loads \in Seq(Parts)
    BY DEF IInv, TypeOK, Parts
  <2> HIDE DEF new
  <2>4. /\ DOMAIN loads = 1 .. Len(loads) /\ DOMAIN loads' = 1 .. Len(loads) + 1
        /\ Len(loads) \in Nat
        /\ \A i \in 1 .. Len(loads) : loads'[i] = loads[i]
        /\ loads'[Len(loads) + 1] = new
    BY <2>1, <2>2, <2>3, AppendProperties, LenProperties DEF new
  <2>5. 1 .. Len(loads) + 1 = 1 .. Len(loads) \cup {Len(loads) + 1}
    BY <2>4
  <2>6. QED BY <2>1, <2>2, <2>4, <2>5 DEF AllTaken
<1>6. QED BY <1>1, <1>2, <1>3, <1>4, <1>5 DEF Next, AllTaken

(* For any directory, order of its files and handler: a load that returns  *)
(* has met no error and passed no file over.                               *)
THEOREM NoFilePassedOver == Spec => []NoFileIsPassedOver
<1>1. Init => AllTaken
  BY DEF Init, ErrorInit, AllTaken
<1>2. IInv /\ Accounted /\ AllTaken /\ [Next]_vars => AllTaken'
  BY NextAllTaken
<1>3. AllTaken => NoFileIsPassedOver
  BY DEF AllTaken, NoFileIsPassedOver, AtRest
<1>4. QED BY <1>1, <1>2, <1>3, Bookkeeping, PTL DEF Spec

-----------------------------------------------------------------------------
(* The composition.                                                        *)

(* The context sees a reader that is not loading.                          *)
ReaderRests == main # "loadFromDirectory" => stage = "idle"

(* The context knows nothing before init.                                  *)
Fresh ==
  main = "loadFromDirectory" \/ (main = "init" /\ status = "running") =>
    m_pcm = "indeterminate" /\ DOMAIN m_counters = {}

(* After init it knows the events of this machine and has chosen the       *)
(* default ones among them.                                                *)
Prepared ==
  main \in {"resetMsrIfBusy", "startMonitoring", "monitoring"} =>
    /\ m_pcm = "instance"
    /\ DOMAIN m_counters = Answered /\ \A n \in Answered : m_counters[n] = n
    /\ m_chosenEvents = Default /\ \A i \in Context!Registers : Default[i] \in Answered

SetupIInv ==
  /\ IInv /\ Accounted
  /\ SetupTypeOK /\ handler = "default"
  /\ ReaderRests /\ Fresh /\ Prepared
  /\ InitErrorsAreExact /\ AgreementProgramsTheModels

USE SetupAssumption

(* What the context finds supported are events of this machine's list, as  *)
(* soon as the reader is at rest.                                          *)
LEMMA AnsweredAreListed ==
  ASSUME IInv, Accounted, AtRest, NEW n
  PROVE  n \in Answered <=> \E c \in Codes : ListedHere(n, c)
<1>1. \A l : l \in Listed <=> IsFact(l)
  BY FactsAreListed
<1>2. n \in Answered <=> \E i \in DOMAIN facts : facts[i][1] = n /\ Cpu = facts[i][3]
  <2>1. n \in Answered <=> n \in DOMAIN m_hwCounters /\ supports(m_hwCounters[n], Cpu)
    BY AnswerKeys, Zenon DEF Answered
  <2>2. Cpu \in Models
    BY SetupAssumption
  <2>3. QED BY <2>1, <2>2, AnswersAreFacts
<1>3. ASSUME NEW i \in DOMAIN facts, facts[i][1] = n, Cpu = facts[i][3]
      PROVE  \E c \in Codes : ListedHere(n, c)
  <2>1. facts[i] \in Listed /\ facts[i] \in Events \X Codes \X Models
    BY <1>1, <1>3 DEF IsFact, IInv, TypeOK
  <2>2. facts[i] = <<n, facts[i][2], Cpu>> /\ facts[i][2] \in Codes
    BY <1>3, <2>1
  <2>3. QED BY <2>1, <2>2 DEF ListedHere
<1>4. ASSUME NEW c \in Codes, ListedHere(n, c)
      PROVE  \E i \in DOMAIN facts : facts[i][1] = n /\ Cpu = facts[i][3]
  BY <1>1, <1>4 DEF ListedHere, IsFact
<1>5. QED BY <1>2, <1>3, <1>4

(* It answers event names only.                                            *)
LEMMA AnsweredTyped == ASSUME TypeOK PROVE Answered \subseteq Events
BY AnswerKeys DEF Answered, TypeOK

(* What was read does not change with the context.                         *)
LEMMA ReadStays ==
  ASSUME UNCHANGED readerVars
  PROVE  /\ Answered' = Answered
         /\ \A n, c : ListedHere(n, c)' <=> ListedHere(n, c)
         /\ \A n : Agreed(n)' <=> Agreed(n)
         /\ AllListed' <=> AllListed
<1>1. UNCHANGED <<m_hwCounters, loads>>
  BY DEF readerVars
<1>2. Answered' = Answered
  BY <1>1 DEF Answered, getCounters, supports
<1>3. Listed' = Listed
  BY <1>1 DEF Listed
<1>4. QED BY <1>2, <1>3 DEF ListedHere, Agreed, AllListed

(* A step of the context leaves the reader as it is.                       *)
LEMMA ContextKeepsReader ==
  ASSUME IInv, Accounted, UNCHANGED readerVars, ErrorTypeOK', status' = "running" => status = "running"
  PROVE  IInv' /\ Accounted'
<1>1. UNCHANGED <<m_hwCounters, directory, unread, elements, model, stage, loads, facts>>
  BY DEF readerVars, reading
<1>2. IInv'
  BY <1>1, MapUnchanged DEF IInv, TypeOK, MapIsTyped, Parts
<1>3. Accounted'
  BY <1>1 DEF Accounted, IsFact, IsListed, IsRead
<1>4. QED BY <1>2, <1>3

(* What the reader loads is typed for the context, which has not begun.    *)
LEMMA ReaderKeepsContext ==
  ASSUME SetupTypeOK, IInv', UNCHANGED contextVars
  PROVE  Context!TypeOK'
<1>1. Answered' \subseteq Events /\ ErrorTypeOK'
  <2>1. TypeOK'
    BY DEF IInv
  <2>2. (TypeOK => Answered \subseteq Events)'
    BY AnsweredTyped, PTL
  <2>3. QED BY <2>1, <2>2 DEF TypeOK
<1>2. QED
  BY <1>1 DEF SetupTypeOK, contextVars, Context!TypeOK, Context!ErrorTypeOK, ErrorTypeOK

-----------------------------------------------------------------------------
(* The program starts before everything.                                   *)
LEMMA SetupStarts == SetupInit => SetupIInv
<1> SUFFICES ASSUME SetupInit PROVE SetupIInv
  OBVIOUS
<1>1. IInv /\ Accounted
  BY InitIInv, InitAccounted DEF SetupInit
<1>2. Answered \subseteq Events
  BY <1>1, AnsweredTyped DEF IInv
<1>3. Context!Init /\ main = "loadFromDirectory" /\ handler = "default"
  BY DEF SetupInit, Init, ErrorInit
<1>4. m_pcm = "indeterminate" /\ DOMAIN m_counters = {}
  BY <1>3 DEF Context!Init
<1>5. Context!TypeOK
  <2>1. ErrorTypeOK
    BY <1>1 DEF IInv, TypeOK
  <2>2. /\ m_resetBusyDevice \in BOOLEAN /\ busy \in BOOLEAN
        /\ rechosen \in BOOLEAN /\ reported \in BOOLEAN /\ Context!ErrorTypeOK
    BY <1>3, <2>1 DEF Context!Init, Context!ErrorTypeOK, ErrorTypeOK
  <2>3. /\ m_chosenEvents \in [Context!Registers -> Events \cup {Unset}]
        /\ monitored \in [Context!Registers -> Events \cup {NoEvent}]
        /\ sets \in 0 .. 0
    BY <1>3 DEF Context!Init
  <2>4. QED BY <1>2, <1>4, <2>2, <2>3 DEF Context!TypeOK
<1>6. SetupTypeOK
  BY <1>1, <1>3, <1>5 DEF SetupTypeOK, IInv
<1>7. ReaderRests /\ Fresh /\ Prepared
  BY <1>3, <1>4 DEF ReaderRests, Fresh, Prepared
<1>8. InitErrorsAreExact /\ AgreementProgramsTheModels
  BY <1>3 DEF InitErrorsAreExact, AgreementProgramsTheModels
<1>9. QED BY <1>1, <1>3, <1>6, <1>7, <1>8 DEF SetupIInv

(* Loading, to its end or to that of the process, keeps the invariant.     *)
LEMMA LoadKeeps == ASSUME SetupIInv, Load \/ Loaded \/ NoDirectory PROVE SetupIInv'
<1>1. /\ main = "loadFromDirectory" /\ UNCHANGED contextVars
      /\ \/ main' = main
         \/ main' = "init" /\ stage' = "idle"
  BY DEF Load, Loaded, NoDirectory, Statement, closedir, Running, readerVars, reading
<1>2. [Next]_vars
  BY DEF Load, Loaded, NoDirectory, Next, vars, readerVars
<1>3. IInv' /\ Accounted'
  BY <1>2, NextIInv, NextAccounted DEF SetupIInv
<1>4. handler' = "default"
  BY DEF SetupIInv, Load, Loaded, NoDirectory, loadFromDirectory, ReadFile, Throw, CannotOpen,
         handleFatalError, LoadElement, FileLoaded, closedir, errorVars
<1>5. main' = "init" => status' = "running"
  BY <1>1 DEF Load, Loaded, NoDirectory, Statement
<1>6. SetupTypeOK'
  <2>1. Context!TypeOK'
    BY <1>1, <1>3, ReaderKeepsContext DEF SetupIInv
  <2>2. QED BY <1>1, <1>3, <2>1 DEF SetupTypeOK, IInv
<1>7. ReaderRests'
  BY <1>1 DEF ReaderRests
<1>8. Fresh'
  BY <1>1 DEF SetupIInv, Fresh, contextVars
<1>9. Prepared' /\ AgreementProgramsTheModels'
  BY <1>1 DEF Prepared, AgreementProgramsTheModels
<1>10. InitErrorsAreExact'
  BY <1>1, <1>5 DEF InitErrorsAreExact
<1>11. QED BY <1>3, <1>4, <1>6, <1>7, <1>8, <1>9, <1>10 DEF SetupIInv

-----------------------------------------------------------------------------
(* What a statement of the context leaves to show.                         *)
LEMMA ContextKeeps ==
  ASSUME SetupIInv, UNCHANGED <<readerVars, handler>>, Context!TypeOK',
         status' = "running" => status = "running",
         main' \in {main, "resetMsrIfBusy", "startMonitoring", "monitoring"},
         main # "loadFromDirectory" \/ main' = main
  PROVE  /\ IInv' /\ Accounted'
         /\ SetupTypeOK' /\ handler' = "default"
         /\ ReaderRests'
<1>1. IInv /\ Accounted /\ UNCHANGED readerVars
  BY DEF SetupIInv
<1>2. ErrorTypeOK'
  BY DEF Context!TypeOK, Context!ErrorTypeOK, ErrorTypeOK
<1>3. IInv' /\ Accounted'
  BY <1>1, <1>2, ContextKeepsReader
<1>4. SetupTypeOK' /\ handler' = "default"
  BY <1>3 DEF SetupIInv, SetupTypeOK, IInv
<1>5. ReaderRests'
  BY DEF SetupIInv, ReaderRests, readerVars, reading
<1>6. QED BY <1>3, <1>4, <1>5

(* With the default handler a check that fails ends the process.           *)
LEMMA CheckEnds ==
  ASSUME SetupTypeOK, handler = "default", NEW fails \in BOOLEAN, Context!Check(fails)
  PROVE  /\ Context!ErrorTypeOK' /\ reported' \in BOOLEAN /\ handler' = handler
         /\ status' = IF fails THEN "terminated" ELSE status
<1>1. Context!ErrorTypeOK
  BY DEF SetupTypeOK, Context!TypeOK
<1>2. CASE fails
  <2>1. Context!handleFatalError("running") /\ reported' = fails
    BY <1>2 DEF Context!Check
  <2>2. /\ programmed' = FALSE /\ raised' = TRUE /\ handler' = handler
        /\ status' = "terminated"
    BY <2>1 DEF Context!handleFatalError, Context!runOnFatalError, Context!HandlerReturns
  <2>3. QED BY <1>1, <1>2, <2>1, <2>2 DEF Context!ErrorTypeOK
<1>3. CASE ~fails
  <2>1. UNCHANGED Context!errorVars /\ reported' = fails
    BY <1>3 DEF Context!Check
  <2>2. QED BY <1>1, <1>3, <2>1 DEF Context!errorVars, Context!ErrorTypeOK
<1>4. QED BY <1>2, <1>3

(* init reports an error exactly when a default event is not listed.       *)
LEMMA InitKeeps == ASSUME SetupIInv, init PROVE SetupIInv'
<1> DEFINE counters == [n \in DOMAIN m_counters \cup Answered |->
                          IF n \in Answered THEN n ELSE m_counters[n]]
           fails == Answered = {} \/ \E i \in Context!Registers : Context!Unknown(counters, Default[i])
<1>1. /\ Context!init /\ UNCHANGED readerVars
      /\ main = "init" /\ main' = IF status' = "running" THEN "resetMsrIfBusy" ELSE "init"
  BY DEF init, Statement
<1>2. /\ status = "running" /\ m_pcm' = "instance" /\ Context!Check(fails)
      /\ m_counters' = IF status' = "running" THEN counters ELSE m_counters
      /\ m_chosenEvents' = IF status' = "running" THEN Default ELSE m_chosenEvents
      /\ rechosen' = TRUE
      /\ UNCHANGED <<m_resetBusyDevice, monitored, busy, sets>>
  BY <1>1 DEF Context!init, Context!Alive, Context!GoesOn
<1>3. DOMAIN m_counters = {}
  BY <1>1, <1>2 DEF SetupIInv, Fresh
<1>4. DOMAIN counters = Answered /\ \A n \in Answered : counters[n] = n
  BY <1>3
<1>5. fails <=> \E i \in Context!Registers : Default[i] \notin Answered
  <2>1. (\E i \in Context!Registers : Context!Unknown(counters, Default[i]))
        <=> \E i \in Context!Registers : Default[i] \notin Answered
    BY <1>4 DEF Context!Unknown
  <2>2. 0 \in Context!Registers
    BY DEF Context!Registers
  <2>3. QED BY <2>1, <2>2
<1>6. fails \in BOOLEAN
  OBVIOUS
<1> HIDE DEF fails, counters
<1>7. /\ Context!ErrorTypeOK' /\ reported' \in BOOLEAN /\ handler' = handler
      /\ status' = IF fails THEN "terminated" ELSE "running"
  BY <1>2, <1>6, CheckEnds DEF SetupIInv
<1>8. IInv /\ Accounted /\ AtRest
  BY <1>1, <1>2 DEF SetupIInv, ReaderRests, AtRest
<1>9. fails <=> ~AllListed
  BY <1>5, <1>8, AnsweredAreListed DEF AllListed
<1>10. Answered' = Answered /\ (AllListed' <=> AllListed)
  BY <1>1, ReadStays
<1>11. Answered \subseteq Events /\ Context!TypeOK
  BY <1>8, AnsweredTyped DEF IInv, SetupIInv, SetupTypeOK
<1>12. Context!TypeOK'
  <2>1. /\ DOMAIN m_counters' \subseteq Events \cup {Unset}
        /\ \A n \in DOMAIN m_counters' : m_counters'[n] \in ({n} \cap Events) \cup {NoEvent}
    <3>1. CASE status' = "running"
      BY <1>2, <1>4, <1>11, <3>1
    <3>2. CASE status' # "running"
      BY <1>2, <1>3, <3>2
    <3>3. QED BY <3>1, <3>2
  <2>2. m_chosenEvents' \in [Context!Registers -> Events \cup {Unset}]
    BY <1>2, <1>11 DEF Context!TypeOK
  <2>3. /\ m_resetBusyDevice' \in BOOLEAN /\ busy' \in BOOLEAN
        /\ rechosen' \in BOOLEAN
        /\ monitored' \in [Context!Registers -> Events \cup {NoEvent}] /\ sets' \in 0 .. 0
    BY <1>2, <1>11 DEF Context!TypeOK
  <2>4. Answered' \subseteq Events
    BY <1>10, <1>11
  <2>5. QED BY <1>2, <1>7, <2>1, <2>2, <2>3, <2>4 DEF Context!TypeOK
<1>13. /\ IInv' /\ Accounted' /\ SetupTypeOK' /\ handler' = "default"
       /\ ReaderRests'
  BY <1>1, <1>2, <1>7, <1>12, ContextKeeps DEF SetupIInv
<1>14. Fresh'
  BY <1>1, <1>7 DEF Fresh
<1>15. Prepared'
  <2>1. CASE fails
    BY <1>1, <1>7, <2>1 DEF Prepared
  <2>2. CASE ~fails
    BY <1>2, <1>4, <1>5, <1>7, <1>10, <2>2 DEF Prepared
  <2>3. QED BY <2>1, <2>2
<1>16. InitErrorsAreExact'
  BY <1>1, <1>7, <1>9, <1>10 DEF InitErrorsAreExact
<1>17. AgreementProgramsTheModels'
  BY <1>1 DEF AgreementProgramsTheModels
<1>18. QED BY <1>13, <1>14, <1>15, <1>16, <1>17 DEF SetupIInv

(* resetMsrIfBusy touches nothing the invariant relates.                   *)
LEMMA ResetKeeps == ASSUME SetupIInv, resetMsrIfBusy PROVE SetupIInv'
<1>1. /\ Context!resetMsrIfBusy /\ UNCHANGED readerVars /\ main = "resetMsrIfBusy"
      /\ main' \in {"resetMsrIfBusy", "startMonitoring"}
  BY DEF resetMsrIfBusy, Statement
<1>2. /\ m_resetBusyDevice' = TRUE /\ reported' = FALSE
      /\ UNCHANGED <<m_pcm, m_counters, m_chosenEvents, monitored, busy, sets, rechosen>>
      /\ UNCHANGED <<handler, status, programmed, raised>>
  BY <1>1 DEF Context!resetMsrIfBusy, Context!choice, Context!errorVars
<1>3. Answered' = Answered /\ (AllListed' <=> AllListed)
  BY <1>1, ReadStays
<1>4. Context!TypeOK'
  BY <1>2, <1>3 DEF SetupIInv, SetupTypeOK, Context!TypeOK, Context!ErrorTypeOK
<1>5. /\ IInv' /\ Accounted' /\ SetupTypeOK' /\ handler' = "default"
      /\ ReaderRests'
  BY <1>1, <1>2, <1>4, ContextKeeps
<1>6. Fresh' /\ AgreementProgramsTheModels'
  BY <1>1 DEF Fresh, AgreementProgramsTheModels
<1>7. Prepared'
  BY <1>1, <1>2, <1>3 DEF SetupIInv, Prepared
<1>8. InitErrorsAreExact'
  BY <1>1, <1>3 DEF SetupIInv, InitErrorsAreExact
<1>9. QED BY <1>5, <1>6, <1>7, <1>8 DEF SetupIInv

(* Every chosen event is in the map, so that the lookups of                *)
(* startMonitoring insert nothing and find what the reader answered.       *)
LEMMA LookupsFind ==
  ASSUME SetupIInv, main = "startMonitoring"
  PROVE  /\ DOMAIN Context!Inserted = Answered
         /\ \A n \in Answered : Context!Inserted[n] = n
         /\ Context!description = Default
<1>1. /\ DOMAIN m_counters = Answered /\ \A n \in Answered : m_counters[n] = n
      /\ m_chosenEvents = Default /\ \A i \in Context!Registers : Default[i] \in Answered
  BY DEF SetupIInv, Prepared
<1>2. /\ DOMAIN Context!Inserted = Answered
      /\ \A n \in Answered : Context!Inserted[n] = n
  <2>1. DOMAIN m_counters \cup {m_chosenEvents[i] : i \in Context!Registers} = Answered
    BY <1>1
  <2>2. QED BY <1>1, <2>1 DEF Context!Inserted
<1>3. \A i \in Context!Registers : Context!Inserted[m_chosenEvents[i]] = Default[i]
  BY <1>1, <1>2
<1>4. Context!description = Default
  BY <1>3 DEF Context!description
<1>5. QED BY <1>2, <1>4

(* startMonitoring programs the default events, with the codes on which    *)
(* the files agree, or reports an error, which ends the process.           *)
LEMMA MonitoringKeeps == ASSUME SetupIInv, startMonitoring PROVE SetupIInv'
<1>1. /\ UNCHANGED readerVars /\ main = "startMonitoring"
      /\ main' = IF status' = "running" THEN "monitoring" ELSE "startMonitoring"
      /\ \/ Context!Monitoring
         \/ \E code \in {"MSRAccessDenied", "PMUBusy", "UnknownError"} : Context!MonitoringFails(code)
  BY DEF startMonitoring, Statement
<1>2. /\ status = "running" /\ m_counters' = Context!Inserted
      /\ UNCHANGED <<m_pcm, m_chosenEvents, m_resetBusyDevice, sets>>
  BY <1>1 DEF Context!Monitoring, Context!MonitoringFails, Context!Alive
<1>3. /\ DOMAIN m_counters' = Answered /\ \A n \in Answered : m_counters'[n] = n
      /\ Context!description = Default
  BY <1>1, <1>2, LookupsFind
<1>4. Answered' = Answered /\ (AllListed' <=> AllListed)
  BY <1>1, ReadStays
<1>5. Answered \subseteq Events /\ Context!TypeOK /\ handler = "default" /\ SetupTypeOK
  BY AnsweredTyped DEF IInv, SetupIInv, SetupTypeOK
<1>6. /\ Context!ErrorTypeOK' /\ handler' = handler
      /\ busy' \in BOOLEAN /\ rechosen' \in BOOLEAN /\ reported' \in BOOLEAN
      /\ \/ status' = "running" /\ monitored' = Default
         \/ status' = "terminated" /\ monitored' = monitored
  <2>1. CASE Context!Monitoring
    <3>1. /\ programmed' = TRUE /\ rechosen' = FALSE /\ reported' = FALSE
          /\ monitored' = Default /\ UNCHANGED <<busy, handler, status, raised>>
      BY <1>3, <2>1 DEF Context!Monitoring
    <3>2. QED BY <1>2, <1>5, <3>1 DEF Context!TypeOK, Context!ErrorTypeOK
  <2>2. ASSUME NEW code \in {"MSRAccessDenied", "PMUBusy", "UnknownError"},
               Context!MonitoringFails(code)
        PROVE  /\ Context!ErrorTypeOK' /\ handler' = handler
               /\ busy' \in BOOLEAN /\ rechosen' \in BOOLEAN /\ reported' \in BOOLEAN
               /\ status' = "terminated" /\ monitored' = monitored
    <3>1. /\ Context!Check(TRUE) /\ busy' \in {FALSE, busy}
          /\ UNCHANGED <<monitored, rechosen>>
      BY <2>2 DEF Context!MonitoringFails
    <3>2. /\ Context!ErrorTypeOK' /\ reported' \in BOOLEAN /\ handler' = handler
          /\ status' = "terminated"
      BY <1>5, <3>1, CheckEnds
    <3>3. QED BY <1>5, <3>1, <3>2 DEF Context!TypeOK
  <2>3. QED BY <1>1, <2>1, <2>2
<1>7. Context!TypeOK'
  <2>1. /\ DOMAIN m_counters' \subseteq Events \cup {Unset}
        /\ \A n \in DOMAIN m_counters' : m_counters'[n] \in ({n} \cap Events) \cup {NoEvent}
    BY <1>3, <1>5
  <2>2. /\ m_chosenEvents' \in [Context!Registers -> Events \cup {Unset}]
        /\ m_resetBusyDevice' \in BOOLEAN /\ sets' \in 0 .. 0
        /\ m_pcm' \in {"indeterminate", "instance", "destroyed"}
    BY <1>2, <1>5 DEF Context!TypeOK
  <2>3. monitored' \in [Context!Registers -> Events \cup {NoEvent}]
    BY <1>5, <1>6 DEF Context!TypeOK
  <2>4. Answered' \subseteq Events
    BY <1>4, <1>5
  <2>5. QED BY <1>6, <2>1, <2>2, <2>3, <2>4 DEF Context!TypeOK
<1>8. /\ IInv' /\ Accounted' /\ SetupTypeOK' /\ handler' = "default"
      /\ ReaderRests'
  BY <1>1, <1>2, <1>6, <1>7, ContextKeeps
<1>9. Fresh'
  BY <1>1 DEF Fresh
<1>10. Prepared'
  BY <1>1, <1>2, <1>3, <1>4 DEF SetupIInv, Prepared
<1>11. InitErrorsAreExact'
  BY <1>1, <1>4 DEF SetupIInv, InitErrorsAreExact
<1>12. AgreementProgramsTheModels'
  <2> SUFFICES ASSUME main' = "monitoring", NEW i \in Context!Registers
               PROVE  /\ monitored'[i] = Default[i]
                      /\ Agreed(Default[i])' => ListedHere(Default[i], ProgrammedCode(i))'
    BY DEF AgreementProgramsTheModels
  <2>1. monitored' = Default /\ m_hwCounters' = m_hwCounters
    BY <1>1, <1>6 DEF readerVars
  <2>2. Default[i] \in Answered
    BY <1>1 DEF SetupIInv, Prepared
  <2>3. <<Default[i], m_hwCounters[Default[i]].code>> \in getCounters(Cpu)
    <3>1. Default[i] \in DOMAIN m_hwCounters /\ supports(m_hwCounters[Default[i]], Cpu)
      BY <2>2, AnswerKeys DEF Answered
    <3>2. QED BY <3>1 DEF getCounters
  <2>4. IInv /\ Accounted /\ AtRest
    BY <1>1, <1>2 DEF SetupIInv, ReaderRests, AtRest
  <2>5. Agreed(Default[i]) => ListedHere(Default[i], m_hwCounters[Default[i]].code)
    BY <2>3, <2>4, CodesAgree DEF ListedHere
  <2>6. QED BY <1>1, <2>1, <2>5, ReadStays DEF ProgrammedCode
<1>13. QED BY <1>8, <1>9, <1>10, <1>11, <1>12 DEF SetupIInv

(* The PMU changes hands.                                                  *)
LEMMA OtherProgramKeeps == ASSUME SetupIInv, OtherProgram PROVE SetupIInv'
<1>1. /\ UNCHANGED <<readerVars, main>> /\ busy' = ~busy
      /\ UNCHANGED <<m_pcm, m_counters, m_chosenEvents, m_resetBusyDevice, monitored, sets,
                     rechosen, reported>>
      /\ UNCHANGED <<handler, status, programmed, raised>>
  BY DEF OtherProgram, Context!OtherProgram, Context!choice, Context!errorVars
<1>2. /\ Answered' = Answered /\ (AllListed' <=> AllListed)
      /\ \A n, c : ListedHere(n, c)' <=> ListedHere(n, c)
      /\ \A n : Agreed(n)' <=> Agreed(n)
  BY <1>1, ReadStays
<1>3. Context!TypeOK'
  BY <1>1, <1>2 DEF SetupIInv, SetupTypeOK, Context!TypeOK, Context!ErrorTypeOK
<1>4. /\ IInv' /\ Accounted' /\ SetupTypeOK' /\ handler' = "default"
      /\ ReaderRests'
  BY <1>1, <1>3, ContextKeeps
<1>5. Fresh' /\ Prepared'
  BY <1>1, <1>2 DEF SetupIInv, Fresh, Prepared
<1>6. InitErrorsAreExact'
  BY <1>1, <1>2 DEF SetupIInv, InitErrorsAreExact
<1>7. AgreementProgramsTheModels'
  BY <1>1, <1>2 DEF SetupIInv, AgreementProgramsTheModels, ProgrammedCode, readerVars
<1>8. QED BY <1>4, <1>5, <1>6, <1>7 DEF SetupIInv

(* The invariant holds in every reachable state.                           *)
LEMMA SetupInvariant == SetupSpec => []SetupIInv
<1>1. SetupIInv /\ [SetupNext]_setupVars => SetupIInv'
  <2> SUFFICES ASSUME SetupIInv, [SetupNext]_setupVars PROVE SetupIInv'
    OBVIOUS
  <2>1. CASE Load \/ Loaded \/ NoDirectory
    BY <2>1, LoadKeeps
  <2>2. CASE init
    BY <2>2, InitKeeps
  <2>3. CASE resetMsrIfBusy
    BY <2>3, ResetKeeps
  <2>4. CASE startMonitoring
    BY <2>4, MonitoringKeeps
  <2>5. CASE OtherProgram
    BY <2>5, OtherProgramKeeps
  <2>6. CASE UNCHANGED setupVars
    <3>1. /\ UNCHANGED <<readerVars, main, handler, status, programmed, raised>>
          /\ UNCHANGED <<m_pcm, m_counters, m_chosenEvents, m_resetBusyDevice, monitored,
                         busy, sets, rechosen, reported>>
      BY <2>6 DEF setupVars, contextVars, errorVars
    <3>2. /\ Answered' = Answered /\ (AllListed' <=> AllListed)
          /\ \A n, c : ListedHere(n, c)' <=> ListedHere(n, c)
          /\ \A n : Agreed(n)' <=> Agreed(n)
      BY <3>1, ReadStays
    <3>3. Context!TypeOK'
      BY <3>1, <3>2 DEF SetupIInv, SetupTypeOK, Context!TypeOK, Context!ErrorTypeOK
    <3>4. /\ IInv' /\ Accounted' /\ SetupTypeOK' /\ handler' = "default"
          /\ ReaderRests'
      BY <3>1, <3>3, ContextKeeps
    <3>5. Fresh' /\ Prepared' /\ InitErrorsAreExact'
      BY <3>1, <3>2 DEF SetupIInv, Fresh, Prepared, InitErrorsAreExact
    <3>6. AgreementProgramsTheModels'
      BY <3>1, <3>2 DEF SetupIInv, AgreementProgramsTheModels, ProgrammedCode, readerVars
    <3>7. QED BY <3>4, <3>5, <3>6 DEF SetupIInv
  <2>7. QED BY <2>1, <2>2, <2>3, <2>4, <2>5, <2>6 DEF SetupNext
<1>2. QED BY <1>1, SetupStarts, PTL DEF SetupSpec

(* The types hold from the first statement to the last, whatever the files *)
(* list and whoever else uses the PMU.                                     *)
THEOREM SetupTypeCorrect == SetupSpec => []SetupTypeOK
<1>1. SetupIInv => SetupTypeOK
  BY DEF SetupIInv
<1>2. QED BY <1>1, SetupInvariant, PTL

(* init ends the process exactly when the files of this machine's model do *)
(* not list all four default events, whatever else they list.              *)
THEOREM InitErrorsExact == SetupSpec => []InitErrorsAreExact
<1>1. SetupIInv => InitErrorsAreExact
  BY DEF SetupIInv
<1>2. QED BY <1>1, SetupInvariant, PTL

(* Once monitoring, register i counts the i-th default event, with the     *)
(* encoding of this machine's model if the files agree on the event.       *)
THEOREM AgreementPrograms == SetupSpec => []AgreementProgramsTheModels
<1>1. SetupIInv => AgreementProgramsTheModels
  BY DEF SetupIInv
<1>2. QED BY <1>1, SetupInvariant, PTL
=============================================================================
