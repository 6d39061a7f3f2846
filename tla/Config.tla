------------------------------- MODULE Config -------------------------------
(***************************************************************************)
(* The configuration file (pkg/config), from reading it to what the two    *)
(* programs make of it: the caboose a table of callbacks, the conductor    *)
(* the clients of its handlers.                                            *)
(*                                                                         *)
(* A map of the file is a function here.  The code ranges over maps in any *)
(* order and stops at the first thing that is wrong, so a step that finds  *)
(* an error and a panic may end in either.  The file has the right shape:  *)
(* what YAML itself refuses, and null where an object belongs, is left out,*)
(* but for a parameter of a callback.                                      *)
(***************************************************************************)
EXTENDS Naturals, Sequences, SequencesExt

CONSTANTS
    Files,        \* the files that may be read; see FileOK
    FinalStates,
    LabelNames,   \* the names that may be the value of a label
    Missing,      \* an optional entry that is not there
    Empty         \* "", or null

HandlerTypes == {"noop", "synchttp", "argoworkflows", "cirrus"}
CallbackTypes == {"single", "perfeature"}

\* "good" and "bad" are cluster options, with what they name outside the file,
\* from which a client and its namespace can be made or not.
HandlerOK(h) ==
    /\ DOMAIN h = {"type", "conf", "parameters"}
    /\ h.conf \in {Missing, "good", "bad"}
    /\ h.parameters # Missing => \A n \in DOMAIN h.parameters :
                                    h.parameters[n] \in {"required", "default"}

CallbackOK(cb) ==
    /\ DOMAIN cb = {"handler", "type", "when", "parameters"}
    /\ cb.when # Missing => /\ cb.when \in Seq(Range(cb.when))
                            /\ \A n \in DOMAIN cb.when : cb.when[n].not \in BOOLEAN
    /\ cb.parameters # Missing => \A n \in DOMAIN cb.parameters :
                                     cb.parameters[n] \in {"path", "good", "bad", Empty}

\* "good" and "bad" are literal values that the schema of the parameter accepts
\* or does not; a broken argoOpts lacks its template, or names a parameter or a
\* label that Argo would refuse.
FileOK(f) ==
    /\ \A h \in DOMAIN f.handlers : HandlerOK(f.handlers[h])
    /\ \A w \in DOMAIN f.workflows :
         /\ f.workflows[w].argoOpts \in {Missing, "whole", "broken"}
         /\ \A c \in DOMAIN f.workflows[w].callbacks : CallbackOK(f.workflows[w].callbacks[c])

ASSUME ConfigAssumption ==
    /\ \A f \in Files : FileOK(f)
    /\ Empty \notin FinalStates

VARIABLES
    file,
    phase,        \* how far the program is
    callbackMap,  \* of the caboose: how often a callback is in the list of a state
    clients       \* of the conductor: the workflows each of its clients knows

configVars == <<file, phase, callbackMap, clients>>

Linked == {"linked", "caboose", "conductor"}
Phases ==
    {"read", "unmarshalled", "conductors", "error", "panic", "unknown", "idle"} \cup Linked

ConfigTypeOK ==
    /\ phase \in Phases
    /\ \A w \in DOMAIN callbackMap :
         callbackMap[w] \in [FinalStates -> [DOMAIN file.workflows[w].callbacks -> Nat]]
    /\ DOMAIN callbackMap = IF phase = "caboose" THEN DOMAIN file.workflows ELSE {}
    /\ DOMAIN clients \subseteq DOMAIN file.handlers
    /\ \A h \in DOMAIN clients : clients[h] \subseteq DOMAIN file.workflows

Nothing == [x \in {} |-> x]

ConfigInit ==
    /\ file \in Files
    /\ phase = "read"
    /\ callbackMap = Nothing
    /\ clients = Nothing

\* A step ends well if everything in it does, and otherwise the way something in it does.
Ends(outcomes, next) ==
    phase' \in IF outcomes \subseteq {"ok"} THEN {next} ELSE outcomes \ {"ok"}

CallbacksOfFile ==
    UNION {{file.workflows[w].callbacks[c] : c \in DOMAIN file.workflows[w].callbacks} :
           w \in DOMAIN file.workflows}

-----------------------------------------------------------------------------
(* CallbackWhen.UnmarshalYAML.                                              *)

\* A clause is a state, or "!" and a state.
ClauseOutcome(clause) ==
    CASE clause.state \in FinalStates -> "ok"
      [] clause.state = Empty /\ ~clause.not -> "panic"
      [] OTHER -> "error"

Named(when) == {n \in DOMAIN when : ~when[n].not}
Negated(when) == {when[n].state : n \in DOMAIN when \ Named(when)}

\* Mutant: a state may be named and negated.
WhenOutcomeTolerant(when) ==
    LET bad == {n \in DOMAIN when : ClauseOutcome(when[n]) # "ok"}
    IN  IF bad # {} THEN ClauseOutcome(when[Min(bad)]) ELSE "ok"

WhenOutcome(when) ==
    LET bad == {n \in DOMAIN when : ClauseOutcome(when[n]) # "ok"}
    IN  IF bad # {} THEN ClauseOutcome(when[Min(bad)])
        ELSE IF \E n \in Named(when) : when[n].state \in Negated(when) THEN "error"
        ELSE "ok"

\* Mutant: nothing is made unique.
TimesAppended(when, state) ==
    LET named == Cardinality({n \in Named(when) : when[n].state = state})
    IN  IF Negated(when) = {} \/ state \in Negated(when) THEN named ELSE named + 1

\* How often a state is in the list: as often as it is named, and once if some
\* states are negated, and it is not one of them; then the list is made unique.
Times(when, state) ==
    LET named == Cardinality({n \in Named(when) : when[n].state = state})
    IN  IF Negated(when) = {} THEN named
        ELSE IF named > 0 \/ state \notin Negated(when) THEN 1 ELSE 0

-----------------------------------------------------------------------------
(* Parsing and linking: SwoopConfig.UnmarshalYAML.                          *)

TypeOutcome(type, types) == IF type \in types \cup {Missing} THEN "ok" ELSE "error"

\* ArgoWorkflowOpts.UnmarshalYAML
OptsOutcome(opts) == IF opts = "broken" THEN "error" ELSE "ok"

FileOutcomes ==
    {TypeOutcome(file.handlers[h].type, HandlerTypes) : h \in DOMAIN file.handlers}
        \cup {OptsOutcome(file.workflows[w].argoOpts) : w \in DOMAIN file.workflows}
        \cup {TypeOutcome(cb.type, CallbackTypes) : cb \in CallbacksOfFile}
        \cup {WhenOutcome(cb.when) : cb \in {c \in CallbacksOfFile : c.when # Missing}}

Unmarshal ==
    /\ phase = "read"
    /\ Ends(FileOutcomes, "unmarshalled")
    /\ UNCHANGED <<file, callbackMap, clients>>

\* Conductors.setHandlers
ConductorOutcome(c) ==
    IF file.conductors[c] \subseteq DOMAIN file.handlers THEN "ok" ELSE "error"

LinkConductors ==
    /\ phase = "unmarshalled"
    /\ Ends({ConductorOutcome(c) : c \in DOMAIN file.conductors}, "conductors")
    /\ UNCHANGED <<file, callbackMap, clients>>

\* Mutant: a default does not make a parameter optional.
RequiredAll(schema) == DOMAIN schema

\* What HandlerParameters.UnmarshalYAML compiles to: required is what has no default.
Required(schema) == {n \in DOMAIN schema : schema[n] = "required"}

GivenOutcome(schema, given, n) ==
    CASE given[n] = Empty -> "panic"
      [] given[n] = "bad" /\ n \in DOMAIN schema -> "error"
      [] OTHER -> "ok"

\* Mutant: parameters that are required need not be given.
CallbackOutcomesLoose(cb) ==
    LET schema == file.handlers[cb.handler].parameters
        found == {GivenOutcome(schema, cb.parameters, n) : n \in DOMAIN cb.parameters}
    IN  IF cb.handler \notin DOMAIN file.handlers THEN {"error"}
        ELSE IF schema = Missing \/ cb.parameters = Missing THEN {"panic"}
        ELSE IF ~(found \subseteq {"ok"}) THEN found
        ELSE IF DOMAIN cb.parameters \subseteq DOMAIN schema THEN {"ok"}
        ELSE {"error"}

\* Callback._setHandler
CallbackOutcomes(cb) ==
    LET schema == file.handlers[cb.handler].parameters
        found == {GivenOutcome(schema, cb.parameters, n) : n \in DOMAIN cb.parameters}
    IN  IF cb.handler \notin DOMAIN file.handlers THEN {"error"}
        ELSE IF schema = Missing \/ cb.parameters = Missing THEN {"panic"}
        ELSE IF ~(found \subseteq {"ok"}) THEN found
        ELSE IF /\ Required(schema) \subseteq DOMAIN cb.parameters
                /\ DOMAIN cb.parameters \subseteq DOMAIN schema THEN {"ok"}
        ELSE {"error"}

\* Workflow.setHandler
Runnable(wf) ==
    /\ wf.handler \in DOMAIN file.handlers
    /\ \/ file.handlers[wf.handler].type = "argoworkflows" /\ wf.argoOpts # Missing
       \/ file.handlers[wf.handler].type = "cirrus" /\ wf.cirrusOpts # Missing

\* Workflow.setHandlers
WorkflowOutcomes(wf) ==
    IF Runnable(wf)
    THEN UNION {CallbackOutcomes(wf.callbacks[c]) : c \in DOMAIN wf.callbacks}
    ELSE {"error"}

LinkWorkflows ==
    /\ phase = "conductors"
    /\ Ends(UNION {WorkflowOutcomes(file.workflows[w]) : w \in DOMAIN file.workflows}, "linked")
    /\ UNCHANGED <<file, callbackMap, clients>>

-----------------------------------------------------------------------------
(* What the programs make of it.                                            *)

\* Mutant: the table has no entry for a state that no callback is for.
CallbackTableSparse(w) ==
    LET cbs == file.workflows[w].callbacks
        named == {s \in FinalStates : \E c \in DOMAIN cbs : Times(cbs[c].when, s) > 0}
    IN  [state \in named |-> [c \in DOMAIN cbs |-> Times(cbs[c].when, state)]]

CallbackTable(w) ==
    LET cbs == file.workflows[w].callbacks
    IN  [state \in FinalStates |-> [c \in DOMAIN cbs |-> Times(cbs[c].when, state)]]

\* caboose.MapConfigCallbacks
MapConfigCallbacks ==
    /\ phase = "linked"
    /\ IF \E cb \in CallbacksOfFile : cb.when = Missing
       THEN phase' = "panic" /\ UNCHANGED callbackMap
       ELSE /\ phase' = "caboose"
            /\ callbackMap' = [w \in DOMAIN file.workflows |-> CallbackTable(w)]
    /\ UNCHANGED <<file, clients>>

\* Handler.Workflows, which linking fills.
WorkflowsOf(h) == {w \in DOMAIN file.workflows : file.workflows[w].handler = h}

\* Mutant: a workflow without a label is left out of the client.
KnownLabelled(h) == {w \in WorkflowsOf(h) : w \in LabelNames}

\* The workflows of the client that NewArgoClient makes, by their id.
Known(h) == WorkflowsOf(h)

\* SetWorkflowIdLabel, whose error Workflows.UnmarshalYAML drops, and
\* SubmitOptsGenerator, which then finds no label.
Labelled(w) == w \in LabelNames

\* NewArgoClient: no options are a nil pointer to GetConfig; then the client and the
\* namespace may fail; and one workflow without a label ends it for all the others.
ArgoClientOutcome(h) ==
    CASE file.handlers[h].conf = Missing -> "panic"
      [] file.handlers[h].conf = "bad" -> "skipped"
      [] OTHER -> IF \A w \in Known(h) : Labelled(w) THEN "ok" ELSE "skipped"

\* NewHandlerFromConfig
ClientOutcome(h) ==
    CASE file.handlers[h].type = "argoworkflows" -> ArgoClientOutcome(h)
      [] file.handlers[h].type = "synchttp" -> "ok"
      [] OTHER -> "skipped"

\* Mutant: the first handler without a client ends the loop over the handlers.
ServedUpToError(listed) ==
    IF \A h \in listed : ClientOutcome(h) = "ok" THEN listed ELSE {}

\* Of the handlers in its list a conductor starts those that it has a client for.
ServedOf(listed) == {h \in listed : ClientOutcome(h) = "ok"}

\* PgConductor.Run is given a name that no conductor has.
UnknownInstance ==
    /\ phase = "linked"
    /\ phase' = "unknown"
    /\ UNCHANGED <<file, callbackMap, clients>>

\* PgConductor.Run up to Listen.  Handlers without a client are only logged, but
\* a conductor must have one to listen for, and ends otherwise.
RunConductor(c) ==
    /\ phase = "linked"
    /\ LET listed == file.conductors[c]
           served == ServedOf(listed)
       IN  IF \E h \in listed : ClientOutcome(h) = "panic"
           THEN phase' = "panic" /\ UNCHANGED clients
           ELSE IF served = {} THEN phase' = "idle" /\ UNCHANGED clients
           ELSE /\ phase' = "conductor"
                /\ clients' = [h \in served |-> Known(h)]
    /\ UNCHANGED <<file, callbackMap>>

ConfigNext ==
    \/ Unmarshal \/ LinkConductors \/ LinkWorkflows
    \/ MapConfigCallbacks
    \/ UnknownInstance
    \/ \E c \in DOMAIN file.conductors : RunConductor(c)

ConfigSpec == ConfigInit /\ [][ConfigNext]_configVars

-----------------------------------------------------------------------------
\* Callback.ValidateParams: the schema that the parameters of an action must meet
\* before they are stored.
Validates(schema, params) ==
    /\ \A n \in DOMAIN schema : schema[n] = "required" => n \in DOMAIN params
    /\ \A n \in DOMAIN params \cap DOMAIN schema : params[n] = "good"

\* extractParams, when every path finds what the schema wants there.
Extracted(given) == [n \in DOMAIN given |-> IF given[n] = "path" THEN "good" ELSE given[n]]

\* What loads is good for its actions: a workflow has a handler that can run it,
\* and a callback fails to validate only if the data of the workflow is at fault,
\* never for what the file gives it.
LoadedValidates ==
    phase \in Linked =>
        /\ \A w \in DOMAIN file.workflows : Runnable(file.workflows[w])
        /\ \A cb \in CallbacksOfFile :
             /\ cb.handler \in DOMAIN file.handlers
             /\ Validates(file.handlers[cb.handler].parameters, Extracted(cb.parameters))

\* What `when' means: the states it names, or, if it negates any, all the others.
Meant(when) ==
    LET states(not) == {when[n].state : n \in {k \in DOMAIN when : when[k].not = not}}
    IN  IF states(TRUE) = {} THEN states(FALSE) ELSE FinalStates \ states(TRUE)

\* The table of the caboose has a callback exactly for the states its `when' means,
\* and once for each, unless the file names a state twice and negates none: then
\* the callback is made as often as the state is named.
CallbackMapIsMeant ==
    phase = "caboose" =>
        \A w \in DOMAIN file.workflows : \A c \in DOMAIN file.workflows[w].callbacks :
            LET when == file.workflows[w].callbacks[c].when
            IN  \A state \in FinalStates :
                  /\ callbackMap[w][state][c] > 0 <=> state \in Meant(when)
                  /\ callbackMap[w][state][c] > 1 =>
                       /\ \A n \in DOMAIN when : ~when[n].not
                       /\ \E m, n \in DOMAIN when : m # n /\ when[m].state = when[n].state

\* Why a conductor may have no loop for a handler that it lists.
NoClientFor(h) ==
    \/ file.handlers[h].type \notin {"argoworkflows", "synchttp"}
    \/ file.handlers[h].type = "argoworkflows" /\ file.handlers[h].conf = "bad"
    \/ \E w \in DOMAIN file.workflows \ LabelNames : file.workflows[w].handler = h

\* What linking accepts the loops of a conductor can submit: every workflow of a
\* handler that has a loop is known to it and has its label, so that none of its
\* actions is refused as unknown.  A handler in the conductor's list is without a
\* loop, and its actions stay pending, only for one of the reasons above, of which
\* the program logs one line and goes on.
ClientsKnowTheirWorkflows ==
    /\ \A h \in DOMAIN clients, w \in DOMAIN file.workflows :
         file.workflows[w].handler = h => w \in clients[h] \cap LabelNames
    /\ phase \in {"conductor", "idle"} =>
         \E c \in DOMAIN file.conductors :
            \A h \in file.conductors[c] : h \in DOMAIN clients \/ NoClientFor(h)

\* A file with nothing missing and nothing wrong.
Sound(f) ==
    /\ \A h \in DOMAIN f.handlers :
         f.handlers[h].type \in HandlerTypes /\ f.handlers[h].conf \notin {Missing, "bad"}
    /\ \A c \in DOMAIN f.conductors : f.conductors[c] \subseteq DOMAIN f.handlers
    /\ \A w \in DOMAIN f.workflows :
         /\ f.workflows[w].handler \in DOMAIN f.handlers
         /\ f.workflows[w].argoOpts \notin {Missing, "broken"}
         /\ f.workflows[w].cirrusOpts # Missing
         /\ f.handlers[f.workflows[w].handler].type \in {"argoworkflows", "cirrus"}
         /\ \A c \in DOMAIN f.workflows[w].callbacks :
              LET cb == f.workflows[w].callbacks[c]
                  schema == f.handlers[cb.handler].parameters
              IN  /\ cb.type \in CallbackTypes
                  /\ cb.handler \in DOMAIN f.handlers /\ schema # Missing
                  /\ cb.parameters # Missing
                  /\ \A n \in DOMAIN cb.parameters :
                       n \in DOMAIN schema /\ cb.parameters[n] # Empty
                  /\ Validates(schema, Extracted(cb.parameters))
                  /\ cb.when # Missing
                  /\ \A m, n \in DOMAIN cb.when :
                       /\ cb.when[n].state \in FinalStates
                       /\ cb.when[m].state = cb.when[n].state => cb.when[m].not = cb.when[n].not

\* A sound file is never refused, in whatever order the code looks at it, and
\* neither program panics on it.
SoundIsAccepted == Sound(file) => phase \notin {"error", "panic"}
=============================================================================
