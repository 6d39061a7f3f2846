---------------------------- MODULE ConfigProofs ----------------------------
(***************************************************************************)
(* What loading a configuration guarantees, for every set of files: any    *)
(* number of handlers, conductors, workflows and callbacks, and clauses of *)
(* any length.                                                             *)
(***************************************************************************)
EXTENDS Config, FiniteSetTheorems, WellFoundedInduction, TLAPS

-----------------------------------------------------------------------------
(* The inductive invariant: what each phase has checked.                    *)

Unchecked == {"read", "error", "panic"}

WhensOK == \A cb \in CallbacksOfFile : cb.when # Missing => WhenOutcome(cb.when) = "ok"

ConductorsOK == \A c \in DOMAIN file.conductors : file.conductors[c] \subseteq DOMAIN file.handlers

WorkflowsOK == \A w \in DOMAIN file.workflows : WorkflowOutcomes(file.workflows[w]) \subseteq {"ok"}

TableOK ==
    /\ \A cb \in CallbacksOfFile : cb.when # Missing
    /\ callbackMap = [w \in DOMAIN file.workflows |-> CallbackTable(w)]

LoadInv ==
    /\ phase \in Phases /\ file \in Files
    /\ phase \notin Unchecked => WhensOK
    /\ phase \notin Unchecked \cup {"unmarshalled"} => ConductorsOK
    /\ phase \in Linked => WorkflowsOK
    /\ IF phase = "caboose" THEN TableOK ELSE DOMAIN callbackMap = {}
    /\ DOMAIN clients \subseteq DOMAIN file.handlers
    /\ \A h \in DOMAIN clients : clients[h] = WorkflowsOf(h)

\* What is found wrong is an error or a panic.
Outcomes == {"ok", "error", "panic"}

\* A nonempty set of natural numbers has a least element.
LEMMA Least ==
    ASSUME NEW T \in SUBSET Nat, T # {}
    PROVE  \E n \in T : \A m \in T : n <= m
<1>1. PICK n \in T : \A m \in T : <<m, n>> \notin OpToRel(<, Nat)
  BY NatLessThanWellFounded, WFMin, Zenon
<1>2. \A m \in T : m < n => <<m, n>> \in OpToRel(<, Nat)
  BY SMT DEF OpToRel
<1>3. \A m \in T : ~(m < n)
  BY <1>1, <1>2, Zenon
<1> QED  BY <1>3

LEMMA MinIsLeast == ASSUME NEW T \in SUBSET Nat, T # {} PROVE Min(T) \in T
BY Least DEF Min

LEMMA FileIsOK == file \in Files => FileOK(file)
BY ConfigAssumption

LEMMA CallbackIsOK == ASSUME file \in Files, NEW cb \in CallbacksOfFile PROVE CallbackOK(cb)
BY FileIsOK DEF CallbacksOfFile, FileOK

LEMMA WhenOutcomes ==
    ASSUME NEW when, when \in Seq(Range(when))
    PROVE  /\ WhenOutcome(when) \in Outcomes
           /\ WhenOutcome(when) = "ok" => \A n \in Named(when) : when[n].state \notin Negated(when)
<1> DEFINE bad == {n \in DOMAIN when : ClauseOutcome(when[n]) # "ok"}
<1>1. \A n \in DOMAIN when : ClauseOutcome(when[n]) \in Outcomes
  BY DEF ClauseOutcome, Outcomes
<1>2. CASE bad # {}
  <2>1. Min(bad) \in bad
    <3>1. bad \in SUBSET Nat
      <4>1. DOMAIN when = 1 .. Len(when) /\ Len(when) \in Nat
        OBVIOUS
      <4> QED  BY <4>1
    <3> QED  BY <1>2, <3>1, MinIsLeast
  <2>2. WhenOutcome(when) = ClauseOutcome(when[Min(bad)])
    BY <1>2 DEF WhenOutcome
  <2> QED  BY <1>1, <2>1, <2>2
<1>3. CASE bad = {}
  BY <1>3 DEF WhenOutcome, Outcomes
<1> QED  BY <1>2, <1>3

LEMMA CallbackOutcomesAre == \A cb : CallbackOutcomes(cb) \subseteq Outcomes
BY DEF CallbackOutcomes, GivenOutcome, Outcomes

LEMMA WorkflowOutcomesAre == \A wf : WorkflowOutcomes(wf) \subseteq Outcomes
BY CallbackOutcomesAre DEF WorkflowOutcomes, Outcomes

\* A check goes on only if nothing was wrong.
LEMMA EndsWell ==
    ASSUME NEW outcomes \in SUBSET Outcomes, NEW next, Ends(outcomes, next),
           phase' \notin {"error", "panic"}
    PROVE  phase' = next /\ outcomes \subseteq {"ok"}
BY DEF Ends, Outcomes

LEMMA EndsSomehow ==
    ASSUME NEW outcomes \in SUBSET Outcomes, NEW next, Ends(outcomes, next)
    PROVE  phase' \in {next, "error", "panic"}
BY DEF Ends, Outcomes

-----------------------------------------------------------------------------
(* The steps.                                                               *)

LEMMA LoadInit == ConfigInit => LoadInv
BY DEF ConfigInit, LoadInv, Phases, Unchecked, Linked, Nothing

\* What was checked stays checked.
LEMMA SameFile ==
    ASSUME UNCHANGED file
    PROVE  /\ WhensOK' <=> WhensOK
           /\ ConductorsOK' <=> ConductorsOK
           /\ WorkflowsOK' <=> WorkflowsOK
<1>1. WhensOK' <=> WhensOK
  BY DEF WhensOK, CallbacksOfFile
<1>2. ConductorsOK' <=> ConductorsOK
  BY DEF ConductorsOK
<1>3. WorkflowsOK' <=> WorkflowsOK
  BY DEF WorkflowsOK, WorkflowOutcomes, Runnable, CallbackOutcomes, GivenOutcome
<1> QED  BY <1>1, <1>2, <1>3

LEMMA OutcomesOfChecks ==
    ASSUME LoadInv
    PROVE  /\ FileOutcomes \in SUBSET Outcomes
           /\ {ConductorOutcome(c) : c \in DOMAIN file.conductors} \in SUBSET Outcomes
           /\ UNION {WorkflowOutcomes(file.workflows[w]) : w \in DOMAIN file.workflows}
                \in SUBSET Outcomes
<1>1. \A cb \in CallbacksOfFile : cb.when # Missing => WhenOutcome(cb.when) \in Outcomes
  BY CallbackIsOK, WhenOutcomes DEF CallbackOK, LoadInv
<1>2. FileOutcomes \in SUBSET Outcomes
  BY <1>1 DEF FileOutcomes, TypeOutcome, OptsOutcome, Outcomes
<1>3. {ConductorOutcome(c) : c \in DOMAIN file.conductors} \in SUBSET Outcomes
  BY DEF ConductorOutcome, Outcomes
<1>4. UNION {WorkflowOutcomes(file.workflows[w]) : w \in DOMAIN file.workflows} \in SUBSET Outcomes
  BY WorkflowOutcomesAre
<1> QED  BY <1>2, <1>3, <1>4

LEMMA UnmarshalChecks == ASSUME LoadInv, Unmarshal PROVE LoadInv' /\ phase' # "idle"
<1>1. /\ phase = "read" /\ Ends(FileOutcomes, "unmarshalled")
      /\ UNCHANGED <<file, callbackMap, clients>>
  BY DEF Unmarshal
<1>2. phase' \in {"unmarshalled", "error", "panic"}
  BY <1>1, OutcomesOfChecks, EndsSomehow
<1>3. phase' = "unmarshalled" => FileOutcomes \subseteq {"ok"}
  BY <1>1, <1>2, OutcomesOfChecks, EndsWell
<1>4. phase' = "unmarshalled" => WhensOK
  BY <1>3 DEF WhensOK, FileOutcomes
<1> QED
  BY <1>1, <1>2, <1>4, SameFile DEF LoadInv, Phases, Unchecked, Linked, WorkflowsOf

LEMMA LinkConductorsChecks == ASSUME LoadInv, LinkConductors PROVE LoadInv' /\ phase' # "idle"
<1> DEFINE outcomes == {ConductorOutcome(c) : c \in DOMAIN file.conductors}
<1>1. /\ phase = "unmarshalled" /\ Ends(outcomes, "conductors")
      /\ UNCHANGED <<file, callbackMap, clients>>
  BY DEF LinkConductors
<1>2. phase' \in {"conductors", "error", "panic"}
  BY <1>1, OutcomesOfChecks, EndsSomehow
<1>3. phase' = "conductors" => outcomes \subseteq {"ok"}
  BY <1>1, <1>2, OutcomesOfChecks, EndsWell
<1>4. phase' = "conductors" => ConductorsOK
  BY <1>3 DEF ConductorsOK, ConductorOutcome
<1> HIDE DEF outcomes
<1> QED
  BY <1>1, <1>2, <1>4, SameFile DEF LoadInv, Phases, Unchecked, Linked, WorkflowsOf

LEMMA LinkWorkflowsChecks == ASSUME LoadInv, LinkWorkflows PROVE LoadInv' /\ phase' # "idle"
<1> DEFINE outcomes == UNION {WorkflowOutcomes(file.workflows[w]) : w \in DOMAIN file.workflows}
<1>1. /\ phase = "conductors" /\ Ends(outcomes, "linked")
      /\ UNCHANGED <<file, callbackMap, clients>>
  BY DEF LinkWorkflows
<1>2. phase' \in {"linked", "error", "panic"}
  BY <1>1, OutcomesOfChecks, EndsSomehow
<1>3. phase' = "linked" => outcomes \subseteq {"ok"}
  BY <1>1, <1>2, OutcomesOfChecks, EndsWell
<1>4. phase' = "linked" => WorkflowsOK
  BY <1>3 DEF WorkflowsOK
<1> HIDE DEF outcomes
<1> QED
  BY <1>1, <1>2, <1>4, SameFile DEF LoadInv, Phases, Unchecked, Linked, WorkflowsOf

\* The programs change nothing that was loaded.
LEMMA ProgramKeeps ==
    ASSUME LoadInv, phase = "linked", UNCHANGED file
    PROVE  WhensOK' /\ ConductorsOK' /\ WorkflowsOK'
BY SameFile DEF LoadInv, Unchecked, Linked

LEMMA MapKeeps == ASSUME LoadInv, MapConfigCallbacks PROVE LoadInv'
<1>1. phase = "linked" /\ UNCHANGED <<file, clients>>
  BY DEF MapConfigCallbacks
<1>2. phase' = "caboose" => TableOK'
  BY <1>1 DEF MapConfigCallbacks, TableOK, CallbacksOfFile, CallbackTable
<1>3. phase' \in {"caboose", "panic"} /\ (phase' = "panic" => UNCHANGED callbackMap)
  BY DEF MapConfigCallbacks
<1> QED
  BY <1>1, <1>2, <1>3, ProgramKeeps DEF LoadInv, Phases, Unchecked, Linked, WorkflowsOf

LEMMA RunKeeps ==
    ASSUME LoadInv, NEW c \in DOMAIN file.conductors, RunConductor(c)
    PROVE  LoadInv'
<1> DEFINE listed == file.conductors[c]
           served == ServedOf(listed)
<1>1. phase = "linked" /\ UNCHANGED <<file, callbackMap>>
  BY DEF RunConductor
<1>2. listed \subseteq DOMAIN file.handlers
  BY <1>1 DEF LoadInv, Unchecked, Linked, ConductorsOK
<1>3. \/ phase' \in {"panic", "idle"} /\ UNCHANGED clients
      \/ phase' = "conductor" /\ clients' = [h \in served |-> WorkflowsOf(h)]
  BY DEF RunConductor, Known
<1> HIDE DEF listed
<1>4. /\ DOMAIN clients' \subseteq DOMAIN file.handlers
      /\ \A h \in DOMAIN clients' : clients'[h] = WorkflowsOf(h)
  BY <1>2, <1>3 DEF LoadInv, ServedOf
<1>5. \A h : WorkflowsOf(h)' = WorkflowsOf(h)
  BY <1>1 DEF WorkflowsOf
<1> QED
  BY <1>1, <1>3, <1>4, <1>5, ProgramKeeps DEF LoadInv, Phases, Unchecked, Linked

LEMMA LoadStep == LoadInv /\ [ConfigNext]_configVars => LoadInv'
<1> SUFFICES ASSUME LoadInv, [ConfigNext]_configVars PROVE LoadInv'
  OBVIOUS
<1>1. CASE UNCHANGED configVars
  <2>1. UNCHANGED <<file, phase, callbackMap, clients>>
    BY <1>1 DEF configVars
  <2>2. TableOK' <=> TableOK
    BY <2>1 DEF TableOK, CallbackTable, CallbacksOfFile
  <2>3. \A h : WorkflowsOf(h)' = WorkflowsOf(h)
    BY <2>1 DEF WorkflowsOf
  <2> QED  BY <2>1, <2>2, <2>3, SameFile DEF LoadInv
<1>2. CASE UnknownInstance
  BY <1>2, ProgramKeeps DEF UnknownInstance, LoadInv, Phases, Unchecked, Linked, WorkflowsOf
<1> QED
  BY <1>1, <1>2, UnmarshalChecks, LinkConductorsChecks, LinkWorkflowsChecks, MapKeeps, RunKeeps
  DEF ConfigNext

LEMMA LoadInvariance == ConfigSpec => []LoadInv
BY LoadInit, LoadStep, PTL DEF ConfigSpec

-----------------------------------------------------------------------------
(* What it is worth.                                                        *)

LEMMA LoadedIsValid == LoadInv => LoadedValidates
<1> SUFFICES ASSUME LoadInv, phase \in Linked PROVE LoadedValidates
  BY DEF LoadedValidates
<1>1. WorkflowsOK /\ file \in Files
  BY DEF LoadInv
<1>2. \A w \in DOMAIN file.workflows : Runnable(file.workflows[w])
  BY <1>1 DEF WorkflowsOK, WorkflowOutcomes
<1>3. ASSUME NEW cb \in CallbacksOfFile
      PROVE  /\ cb.handler \in DOMAIN file.handlers
             /\ Validates(file.handlers[cb.handler].parameters, Extracted(cb.parameters))
  <2> PICK w \in DOMAIN file.workflows : \E c \in DOMAIN file.workflows[w].callbacks :
                                              cb = file.workflows[w].callbacks[c]
    BY DEF CallbacksOfFile
  <2> PICK c \in DOMAIN file.workflows[w].callbacks : cb = file.workflows[w].callbacks[c]
    OBVIOUS
  <2>1. CallbackOutcomes(cb) \subseteq {"ok"}
    BY <1>1, <1>2 DEF WorkflowsOK, WorkflowOutcomes
  <2> DEFINE schema == file.handlers[cb.handler].parameters
             given == cb.parameters
  <2>2. /\ cb.handler \in DOMAIN file.handlers
        /\ schema # Missing /\ given # Missing
    BY <2>1 DEF CallbackOutcomes
  <2>3. {GivenOutcome(schema, given, n) : n \in DOMAIN given} \subseteq {"ok"}
    BY <2>1, <2>2 DEF CallbackOutcomes
  <2>4. Required(schema) \subseteq DOMAIN given
    BY <2>1, <2>2, <2>3 DEF CallbackOutcomes
  <2>5. \A n \in DOMAIN given : given[n] \in {"path", "good", "bad", Empty}
    <3>1. CallbackOK(cb)
      BY <1>1, CallbackIsOK
    <3> QED  BY <3>1, <2>2 DEF CallbackOK
  <2>6. \A n \in DOMAIN given \cap DOMAIN schema : given[n] \in {"path", "good"}
    <3> SUFFICES ASSUME NEW n \in DOMAIN given \cap DOMAIN schema
                 PROVE  given[n] \in {"path", "good"}
      OBVIOUS
    <3>1. GivenOutcome(schema, given, n) = "ok"
      BY <2>3
    <3>2. given[n] # Empty /\ given[n] # "bad"
      BY <3>1 DEF GivenOutcome
    <3> QED  BY <2>5, <3>2
  <2>7. /\ DOMAIN Extracted(given) = DOMAIN given
        /\ \A n \in DOMAIN given : Extracted(given)[n] = IF given[n] = "path" THEN "good" ELSE given[n]
    BY DEF Extracted
  <2> HIDE DEF schema, given
  <2>8. Validates(schema, Extracted(given))
    BY <2>4, <2>6, <2>7 DEF Validates, Required
  <2> QED  BY <2>2, <2>8 DEF schema, given
<1> QED  BY <1>2, <1>3 DEF LoadedValidates

\* A workflow has a handler that can run it, and a callback validates whenever
\* its workflow's data does, in every configuration that loads.
THEOREM LoadedIsGood == ConfigSpec => []LoadedValidates
BY LoadInvariance, LoadedIsValid, PTL

\* The table of the caboose.
LEMMA TimesMeant ==
    ASSUME NEW when, when \in Seq(Range(when)), \A n \in DOMAIN when : when[n].not \in BOOLEAN,
           WhenOutcome(when) = "ok", NEW state \in FinalStates
    PROVE  /\ Times(when, state) \in Nat
           /\ Times(when, state) > 0 <=> state \in Meant(when)
           /\ Times(when, state) > 1 =>
                /\ \A n \in DOMAIN when : ~when[n].not
                /\ \E m, n \in DOMAIN when : m # n /\ when[m].state = when[n].state
<1> DEFINE these == {n \in Named(when) : when[n].state = state}
           named == Cardinality(these)
           negated == {when[n].state : n \in {k \in DOMAIN when : when[k].not = TRUE}}
<1>1. IsFiniteSet(these)
  <2>1. DOMAIN when = 1 .. Len(when) /\ Len(when) \in Nat
    OBVIOUS
  <2>2. IsFiniteSet(DOMAIN when)
    BY <2>1, FS_Interval
  <2>3. these \in SUBSET DOMAIN when
    BY DEF Named
  <2> QED  BY <2>2, <2>3, FS_Subset
<1>2. named \in Nat /\ (named = 0 <=> these = {}) /\ (named = 1 <=> \E n : these = {n})
  BY <1>1, FS_CardinalityType, FS_EmptySet, FS_Singleton
<1>3. negated = Negated(when)
  BY DEF Negated, Named
<1>4. state \in {when[n].state : n \in {k \in DOMAIN when : when[k].not = FALSE}} <=> these # {}
  BY DEF Named
<1>5. state \in Meant(when) <=> IF Negated(when) = {} THEN these # {} ELSE state \notin Negated(when)
  BY <1>3, <1>4 DEF Meant
<1>6. Times(when, state) = IF Negated(when) = {} THEN named
                           ELSE IF named > 0 \/ state \notin Negated(when) THEN 1 ELSE 0
  BY DEF Times
<1>7. these # {} => state \notin Negated(when)
  BY WhenOutcomes
<1>8. Negated(when) = {} => \A n \in DOMAIN when : ~when[n].not
  BY DEF Negated, Named
<1>9. \A n \in these : n \in DOMAIN when /\ when[n].state = state
  BY DEF Named
<1> HIDE DEF named, these
<1>10. named > 1 => \E m, n \in these : m # n
  <2> SUFFICES ASSUME named > 1 PROVE \E m, n \in these : m # n
    OBVIOUS
  <2>1. PICK m \in these : TRUE
    BY <1>2
  <2>2. these # {m}
    <3>1. these = {m} => named = 1
      BY <1>2, Zenon
    <3> QED  BY <3>1
  <2> QED  BY <2>1, <2>2
<1> QED  BY <1>2, <1>5, <1>6, <1>7, <1>8, <1>9, <1>10

LEMMA TableIsMeant == LoadInv => CallbackMapIsMeant
<1> SUFFICES ASSUME LoadInv, phase = "caboose",
                    NEW w \in DOMAIN file.workflows, NEW c \in DOMAIN file.workflows[w].callbacks,
                    NEW state \in FinalStates
             PROVE  LET when == file.workflows[w].callbacks[c].when
                    IN  /\ callbackMap[w][state][c] > 0 <=> state \in Meant(when)
                        /\ callbackMap[w][state][c] > 1 =>
                             /\ \A n \in DOMAIN when : ~when[n].not
                             /\ \E m, n \in DOMAIN when : m # n /\ when[m].state = when[n].state
  BY DEF CallbackMapIsMeant
<1> DEFINE cb == file.workflows[w].callbacks[c]
<1>1. cb \in CallbacksOfFile
  BY DEF CallbacksOfFile
<1>2. cb.when # Missing /\ WhenOutcome(cb.when) = "ok"
  BY <1>1 DEF LoadInv, TableOK, WhensOK, Unchecked
<1>3. cb.when \in Seq(Range(cb.when)) /\ \A n \in DOMAIN cb.when : cb.when[n].not \in BOOLEAN
  BY <1>1, <1>2, CallbackIsOK DEF LoadInv, CallbackOK
<1>4. callbackMap[w][state][c] = Times(cb.when, state)
  BY DEF LoadInv, TableOK, CallbackTable
<1> QED  BY <1>2, <1>3, <1>4, TimesMeant

\* The caboose has each callback for the states its `when' means, and for no
\* others, whatever the clauses and however many.
THEOREM MapIsMeant == ConfigSpec => []CallbackMapIsMeant
BY LoadInvariance, TableIsMeant, PTL

LEMMA TypesHold == LoadInv => ConfigTypeOK
<1> SUFFICES ASSUME LoadInv PROVE ConfigTypeOK
  OBVIOUS
<1>1. DOMAIN callbackMap = IF phase = "caboose" THEN DOMAIN file.workflows ELSE {}
  BY DEF LoadInv, TableOK
<1>2. ASSUME NEW w \in DOMAIN callbackMap
      PROVE  callbackMap[w] \in [FinalStates -> [DOMAIN file.workflows[w].callbacks -> Nat]]
  <2> DEFINE cbs == file.workflows[w].callbacks
  <2>1. phase = "caboose" /\ w \in DOMAIN file.workflows /\ callbackMap[w] = CallbackTable(w)
    BY <1>1 DEF LoadInv, TableOK
  <2>2. ASSUME NEW c \in DOMAIN cbs, NEW state \in FinalStates
        PROVE  Times(cbs[c].when, state) \in Nat
    <3>1. cbs[c] \in CallbacksOfFile
      BY <2>1 DEF CallbacksOfFile
    <3>2. cbs[c].when # Missing /\ WhenOutcome(cbs[c].when) = "ok"
      BY <2>1, <3>1 DEF LoadInv, TableOK, WhensOK, Unchecked
    <3>3. /\ cbs[c].when \in Seq(Range(cbs[c].when))
          /\ \A n \in DOMAIN cbs[c].when : cbs[c].when[n].not \in BOOLEAN
      BY <3>1, <3>2, CallbackIsOK DEF LoadInv, CallbackOK
    <3> QED  BY <3>2, <3>3, TimesMeant
  <2> QED  BY <2>1, <2>2 DEF CallbackTable
<1>3. \A h \in DOMAIN clients : clients[h] \subseteq DOMAIN file.workflows
  BY DEF LoadInv, WorkflowsOf
<1> QED  BY <1>1, <1>2, <1>3 DEF LoadInv, ConfigTypeOK

\* What the programs make of a configuration keeps its types.
THEOREM ConfigTypeCorrect == ConfigSpec => []ConfigTypeOK
BY LoadInvariance, TypesHold, PTL

-----------------------------------------------------------------------------
(* The conductor.                                                           *)

\* The workflows of a handler with a client have their labels, and a listed handler
\* without one has a reason.
ClientsInv ==
    /\ \A h \in DOMAIN clients, w \in DOMAIN file.workflows :
         file.workflows[w].handler = h => w \in LabelNames
    /\ phase \in {"conductor", "idle"} =>
         \E c \in DOMAIN file.conductors :
            \A h \in file.conductors[c] : h \in DOMAIN clients \/ NoClientFor(h)

\* Only an argoworkflows handler of a conductor can have workflows and a client.
LEMMA WorkflowsOfClients ==
    ASSUME LoadInv, phase \in Linked, NEW w \in DOMAIN file.workflows,
           ClientOutcome(file.workflows[w].handler) = "ok"
    PROVE  w \in LabelNames
<1> DEFINE h == file.workflows[w].handler
<1>1. Runnable(file.workflows[w])
  BY DEF LoadInv, WorkflowsOK, WorkflowOutcomes
<1>2. file.handlers[h].type \in {"argoworkflows", "cirrus"}
  BY <1>1 DEF Runnable
<1>3. ArgoClientOutcome(h) = "ok"
  BY <1>2 DEF ClientOutcome
<1>4. \A v \in Known(h) : Labelled(v)
  BY <1>3 DEF ArgoClientOutcome
<1> QED  BY <1>4 DEF Known, Labelled, WorkflowsOf

\* A handler of the list without a client has a reason, if nothing panicked.
LEMMA UnservedHasReason ==
    ASSUME FileOK(file), NEW h \in DOMAIN file.handlers, ClientOutcome(h) \notin {"ok", "panic"}
    PROVE  NoClientFor(h)
<1>1. CASE file.handlers[h].type = "argoworkflows"
  <2>1. ArgoClientOutcome(h) \notin {"ok", "panic"}
    BY <1>1 DEF ClientOutcome
  <2>2. file.handlers[h].conf \in {Missing, "good", "bad"}
    BY DEF FileOK, HandlerOK
  <2>3. CASE file.handlers[h].conf = "bad"
    BY <1>1, <2>3 DEF NoClientFor
  <2>4. CASE file.handlers[h].conf # "bad"
    <3>1. ~\A w \in Known(h) : Labelled(w)
      BY <2>1, <2>4 DEF ArgoClientOutcome
    <3> QED  BY <3>1 DEF Known, Labelled, WorkflowsOf, NoClientFor
  <2> QED  BY <2>3, <2>4
<1>2. CASE file.handlers[h].type # "argoworkflows"
  BY <1>2 DEF ClientOutcome, NoClientFor
<1> QED  BY <1>1, <1>2

LEMMA RunClients ==
    ASSUME LoadInv, ClientsInv, NEW c \in DOMAIN file.conductors, RunConductor(c)
    PROVE  ClientsInv'
<1> DEFINE listed == file.conductors[c]
           served == ServedOf(listed)
<1>1. phase = "linked" /\ file' = file /\ FileOK(file)
  BY FileIsOK DEF RunConductor, LoadInv
<1>2. listed \subseteq DOMAIN file.handlers
  BY <1>1 DEF LoadInv, Unchecked, Linked, ConductorsOK
<1>3. CASE phase' = "panic" /\ UNCHANGED clients
  BY <1>1, <1>3 DEF ClientsInv
<1>4. CASE /\ \A h \in listed : ClientOutcome(h) # "panic"
           /\ \/ phase' = "idle" /\ served = {} /\ UNCHANGED clients
              \/ phase' = "conductor" /\ clients' = [h \in served |-> Known(h)]
  <2>1. \A h \in listed : h \in served \/ NoClientFor(h)
    BY <1>1, <1>2, <1>4, UnservedHasReason DEF ServedOf
  <2>2. \A h : NoClientFor(h)' <=> NoClientFor(h)
    BY <1>1 DEF NoClientFor
  <2>3. \A w \in DOMAIN file.workflows :
           file.workflows[w].handler \in served => w \in LabelNames
    BY <1>1, WorkflowsOfClients DEF ServedOf, Linked
  <2> HIDE DEF listed, served
  <2>4. /\ \A h \in DOMAIN clients', w \in DOMAIN file.workflows :
              file.workflows[w].handler = h => w \in LabelNames
        /\ served \subseteq DOMAIN clients'
    BY <1>4, <2>3 DEF ClientsInv
  <2>5. \A h \in file.conductors[c] : h \in DOMAIN clients' \/ NoClientFor(h)'
    BY <2>1, <2>2, <2>4 DEF listed
  <2> QED  BY <1>1, <2>4, <2>5 DEF ClientsInv
<1> QED  BY <1>3, <1>4 DEF RunConductor

LEMMA ClientsStep == LoadInv /\ ClientsInv /\ [ConfigNext]_configVars => ClientsInv'
<1> SUFFICES ASSUME LoadInv, ClientsInv, [ConfigNext]_configVars PROVE ClientsInv'
  OBVIOUS
<1>1. CASE UNCHANGED configVars
  BY <1>1 DEF configVars, ClientsInv, NoClientFor
<1>2. CASE Unmarshal \/ LinkConductors \/ LinkWorkflows
  <2>1. UNCHANGED <<file, clients>>
    BY <1>2 DEF Unmarshal, LinkConductors, LinkWorkflows
  <2>2. phase' \in Phases /\ phase' # "idle"
    BY <1>2, UnmarshalChecks, LinkConductorsChecks, LinkWorkflowsChecks DEF LoadInv
  <2>3. phase' # "conductor"
    BY <1>2, OutcomesOfChecks, EndsSomehow DEF Unmarshal, LinkConductors, LinkWorkflows
  <2> QED  BY <2>1, <2>2, <2>3 DEF ClientsInv
<1>3. CASE MapConfigCallbacks \/ UnknownInstance
  BY <1>3 DEF MapConfigCallbacks, UnknownInstance, ClientsInv
<1> QED  BY <1>1, <1>2, <1>3, RunClients DEF ConfigNext

\* Every workflow of a handler with a loop is known to it and has its label, and a
\* listed handler without a loop has a reason, whatever file is read.
THEOREM ClientsAreComplete == ConfigSpec => []ClientsKnowTheirWorkflows
<1>1. ConfigInit => ClientsInv
  BY DEF ConfigInit, Nothing, ClientsInv
<1>2. LoadInv /\ ClientsInv => ClientsKnowTheirWorkflows
  BY DEF LoadInv, ClientsInv, ClientsKnowTheirWorkflows, WorkflowsOf
<1> QED  BY <1>1, <1>2, LoadInvariance, ClientsStep, PTL DEF ConfigSpec

-----------------------------------------------------------------------------
(* Sound files.                                                             *)

LEMMA SoundWhen ==
    ASSUME NEW when,
           \A m, n \in DOMAIN when :
              /\ when[n].state \in FinalStates
              /\ when[m].state = when[n].state => when[m].not = when[n].not
    PROVE  WhenOutcome(when) = "ok"
<1>1. {n \in DOMAIN when : ClauseOutcome(when[n]) # "ok"} = {}
  BY ConfigAssumption DEF ClauseOutcome
<1>2. ~\E n \in Named(when) : when[n].state \in Negated(when)
  BY DEF Named, Negated
<1> QED  BY <1>1, <1>2 DEF WhenOutcome

LEMMA SoundCallback ==
    ASSUME NEW cb, cb.handler \in DOMAIN file.handlers,
           file.handlers[cb.handler].parameters # Missing, cb.parameters # Missing,
           \A n \in DOMAIN cb.parameters :
              n \in DOMAIN file.handlers[cb.handler].parameters /\ cb.parameters[n] # Empty,
           Validates(file.handlers[cb.handler].parameters, Extracted(cb.parameters))
    PROVE  CallbackOutcomes(cb) \subseteq {"ok"}
<1> DEFINE schema == file.handlers[cb.handler].parameters
           given == cb.parameters
<1>1. /\ DOMAIN Extracted(given) = DOMAIN given
      /\ \A n \in DOMAIN given : Extracted(given)[n] = IF given[n] = "path" THEN "good" ELSE given[n]
  BY DEF Extracted
<1>2. /\ \A n \in DOMAIN schema : schema[n] = "required" => n \in DOMAIN given
      /\ \A n \in DOMAIN given \cap DOMAIN schema : Extracted(given)[n] = "good"
  BY <1>1 DEF Validates
<1>3. Required(schema) \subseteq DOMAIN given
  BY <1>2 DEF Required
<1>4. \A n \in DOMAIN given : n \in DOMAIN schema /\ given[n] \notin {Empty, "bad"}
  BY <1>1, <1>2
<1>5. \A n \in DOMAIN given : GivenOutcome(schema, given, n) = "ok"
  BY <1>4 DEF GivenOutcome
<1> HIDE DEF schema, given
<1>6. {GivenOutcome(schema, given, n) : n \in DOMAIN given} \subseteq {"ok"}
  BY <1>5
<1>7. DOMAIN given \subseteq DOMAIN schema
  BY <1>4
<1> QED  BY <1>3, <1>6, <1>7 DEF CallbackOutcomes, schema, given

LEMMA SoundNames ==
    ASSUME Sound(file), NEW w \in DOMAIN file.workflows,
           NEW c \in DOMAIN file.workflows[w].callbacks
    PROVE  LET when == file.workflows[w].callbacks[c].when
           IN  \A m, n \in DOMAIN when :
                  /\ when[n].state \in FinalStates
                  /\ when[m].state = when[n].state => when[m].not = when[n].not
BY DEF Sound

LEMMA SoundChecks ==
    ASSUME LoadInv, Sound(file)
    PROVE  /\ FileOutcomes \subseteq {"ok"}
           /\ {ConductorOutcome(c) : c \in DOMAIN file.conductors} \subseteq {"ok"}
           /\ UNION {WorkflowOutcomes(file.workflows[w]) : w \in DOMAIN file.workflows}
                \subseteq {"ok"}
           /\ \A cb \in CallbacksOfFile : cb.when # Missing
<1>1. ASSUME NEW cb \in CallbacksOfFile
      PROVE  /\ TypeOutcome(cb.type, CallbackTypes) = "ok"
             /\ cb.when # Missing /\ WhenOutcome(cb.when) = "ok"
             /\ CallbackOutcomes(cb) \subseteq {"ok"}
  <2> PICK w \in DOMAIN file.workflows : \E c \in DOMAIN file.workflows[w].callbacks :
                                              cb = file.workflows[w].callbacks[c]
    BY DEF CallbacksOfFile
  <2> PICK c \in DOMAIN file.workflows[w].callbacks : cb = file.workflows[w].callbacks[c]
    OBVIOUS
  <2>1. /\ cb.type \in CallbackTypes
        /\ cb.handler \in DOMAIN file.handlers
        /\ cb.when # Missing
    BY DEF Sound
  <2>2. \A m, n \in DOMAIN cb.when :
           /\ cb.when[n].state \in FinalStates
           /\ cb.when[m].state = cb.when[n].state => cb.when[m].not = cb.when[n].not
    BY SoundNames
  <2>3. /\ file.handlers[cb.handler].parameters # Missing
        /\ cb.parameters # Missing
        /\ \A n \in DOMAIN cb.parameters :
              n \in DOMAIN file.handlers[cb.handler].parameters /\ cb.parameters[n] # Empty
        /\ Validates(file.handlers[cb.handler].parameters, Extracted(cb.parameters))
    BY DEF Sound
  <2>4. TypeOutcome(cb.type, CallbackTypes) = "ok"
    BY <2>1 DEF TypeOutcome
  <2>5. WhenOutcome(cb.when) = "ok"
    BY <2>2, SoundWhen
  <2>6. CallbackOutcomes(cb) \subseteq {"ok"}
    BY <2>1, <2>3, SoundCallback
  <2> QED  BY <2>1, <2>4, <2>5, <2>6
<1>2. FileOutcomes \subseteq {"ok"}
  <2>1. \A h \in DOMAIN file.handlers : TypeOutcome(file.handlers[h].type, HandlerTypes) = "ok"
    BY DEF Sound, TypeOutcome
  <2>2. \A w \in DOMAIN file.workflows : OptsOutcome(file.workflows[w].argoOpts) = "ok"
    BY DEF Sound, OptsOutcome
  <2> QED  BY <1>1, <2>1, <2>2 DEF FileOutcomes
<1>3. {ConductorOutcome(c) : c \in DOMAIN file.conductors} \subseteq {"ok"}
  BY DEF Sound, ConductorOutcome
<1>4. ASSUME NEW w \in DOMAIN file.workflows
      PROVE  WorkflowOutcomes(file.workflows[w]) \subseteq {"ok"}
  <2>1. FileOK(file)
    BY FileIsOK DEF LoadInv
  <2>2. /\ file.workflows[w].handler \in DOMAIN file.handlers
        /\ file.workflows[w].argoOpts \notin {Missing, "broken"}
        /\ file.workflows[w].cirrusOpts # Missing
        /\ file.handlers[file.workflows[w].handler].type \in {"argoworkflows", "cirrus"}
    BY DEF Sound
  <2>3. Runnable(file.workflows[w])
    BY <2>2 DEF Runnable
  <2>4. \A c \in DOMAIN file.workflows[w].callbacks :
           CallbackOutcomes(file.workflows[w].callbacks[c]) \subseteq {"ok"}
    BY <1>1 DEF CallbacksOfFile
  <2> QED  BY <2>3, <2>4 DEF WorkflowOutcomes
<1> QED  BY <1>1, <1>2, <1>3, <1>4

LEMMA SoundStep ==
    LoadInv /\ SoundIsAccepted /\ [ConfigNext]_configVars => SoundIsAccepted'
<1> SUFFICES ASSUME LoadInv, SoundIsAccepted, [ConfigNext]_configVars, Sound(file)'
             PROVE  phase' \notin {"error", "panic"}
  BY DEF SoundIsAccepted
<1>1. file' = file
  BY DEF ConfigNext, configVars, Unmarshal, LinkConductors, LinkWorkflows, MapConfigCallbacks,
         UnknownInstance, RunConductor
<1>2. Sound(file)
  BY <1>1
<1>3. phase \notin {"error", "panic"}
  BY <1>2 DEF SoundIsAccepted
<1>4. CASE Unmarshal \/ LinkConductors \/ LinkWorkflows
  BY <1>2, <1>4, SoundChecks DEF Unmarshal, LinkConductors, LinkWorkflows, Ends
<1>5. CASE MapConfigCallbacks
  BY <1>2, <1>5, SoundChecks DEF MapConfigCallbacks
<1>6. ASSUME NEW c \in DOMAIN file.conductors, RunConductor(c)
      PROVE  phase' # "panic" /\ phase' # "error"
  <2>1. \A h \in file.conductors[c] : ClientOutcome(h) # "panic"
    BY <1>2 DEF Sound, ClientOutcome, ArgoClientOutcome
  <2> QED  BY <1>6, <2>1 DEF RunConductor
<1>7. CASE UnknownInstance \/ UNCHANGED configVars
  BY <1>3, <1>7 DEF UnknownInstance, configVars
<1> QED  BY <1>4, <1>5, <1>6, <1>7 DEF ConfigNext

\* No sound configuration is refused, and neither program panics on one.
THEOREM SoundFilesLoad == ConfigSpec => []SoundIsAccepted
<1>1. ConfigInit => SoundIsAccepted
  BY DEF ConfigInit, SoundIsAccepted
<1> QED  BY <1>1, LoadInvariance, SoundStep, PTL DEF ConfigSpec
=============================================================================
