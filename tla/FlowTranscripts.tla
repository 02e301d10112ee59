--------------------------- MODULE FlowTranscripts ---------------------------
(***************************************************************************)
(* The flow validator and its transcripts (src/dev_runner): a flow's nodes *)
(* are validated one after another against the schemas of their            *)
(* components, merged with the defaults of the registry, and written to    *)
(* .greentic/transcripts/<flow>-<second>.yaml.  Library functions: their   *)
(* callers, and what describes a component, are external.                  *)
(*                                                                         *)
(* A YAML value is a function from its positions, the keys on the way to   *)
(* them, to what stands there: a scalar, or a mapping of what is below.    *)
(* Sequences are compared and replaced whole, so they are scalars here.    *)
(***************************************************************************)
EXTENDS Integers, SequencesExt

CONSTANTS
    Tasks,
    Paths, Stem,       \* flow files, and the stem of each one's name
    Scalars, Mapping,  \* what stands at a position
    Components,        \* the scalars that are strings
    Keys, Segment,     \* mapping keys, and what a key is in a path of the log
    Documents,         \* the nodes a flow file may hold
    Schemas, Broken,   \* schemas, and those that do not compile
    Accepts(_, _),     \* whether a schema accepts a node
    Answers,           \* what a describer may say of a component
    Stub,              \* the registry: component -> [schema, defaults]
    None, Failing, EmptyFile, Mixed,
    MaxSecond, MaxRebuilds \* bounds: seconds, and changed descriptions

VARIABLES
    now,
    describer, rebuilds,
    store,             \* the files of the transcript directory
    stage, path, document,
    plans,             \* component_plan_cache
    nodes,             \* validated_nodes
    transcript, outcome

world == <<now, describer, rebuilds>>
vars == <<world, store, stage, path, document, plans, nodes, transcript, outcome>>

Names == {Stem[p] : p \in Paths} \X (0..MaxSecond)
Marks == {"default", "override"}
Stages == {"idle", "check", "assemble", "open", "fill", "done"}
Kinds == Scalars \cup {Mapping}
\* Whoever has something below him is a mapping.
IsValue(v) ==
    /\ DOMAIN v \subseteq Seq(Keys) /\ <<>> \in DOMAIN v
    /\ \A at \in DOMAIN v :
         /\ v[at] \in Kinds
         /\ \A n \in 0 .. Len(at) - 1 :
              SubSeq(at, 1, n) \in DOMAIN v /\ v[SubSeq(at, 1, n)] = Mapping
IsMapping(v, at) == at \in DOMAIN v /\ v[at] = Mapping
NoPlan == [schema |-> Failing, defaults |-> None]
NoTranscript == [flow_path |-> None, generated_at |-> 0, nodes |-> <<>>]
\* What the constants satisfy.  The defaults of the registry are mappings.
FlowAssumption ==
    /\ Mapping \notin Scalars /\ Components \subseteq Scalars
    /\ Segment \in [Keys -> Seq(STRING)]
    /\ \A d \in Documents : /\ d \in Seq({d[i] : i \in DOMAIN d})
                            /\ \A i \in DOMAIN d : IsValue(d[i])
    /\ Broken \subseteq Schemas /\ Answers \subseteq Schemas \cup {None, Failing}
    /\ None \notin Schemas \cup Components \cup Paths \cup {"error", "written"}
    /\ Failing \notin Schemas \cup {None}
    /\ DOMAIN Stub \subseteq Components
    /\ \A c \in DOMAIN Stub :
         /\ Stub[c].schema \in Schemas
         /\ IsValue(Stub[c].defaults) /\ IsMapping(Stub[c].defaults, <<>>)
         /\ Stub[c].defaults # None
    /\ MaxSecond \in Nat /\ MaxRebuilds \in Nat

-----------------------------------------------------------------------------
(* Merging a node with its component's defaults.                           *)

PathString(keys) == FlattenSeq([i \in DOMAIN keys |-> Segment[keys[i]]])
\* mutant: the log names a key without the way to it.
EntryOfKey(mark, keys) == <<mark, Segment[Last(keys)]>>
Entry(mark, keys) == <<mark, PathString(keys)>>

\* The same stands at a position of both values, and below it.
Same(v, w, at) ==
    \A p \in DOMAIN v \cup DOMAIN w : IsPrefix(at, p) =>
        p \in DOMAIN v \cap DOMAIN w /\ v[p] = w[p]
\* merge_node descends where both are mappings; where it stops, one of the two
\* values is taken with all that is below it, the node's own if there is one.
Descends(defaults, node, at) == IsMapping(defaults, at) /\ IsMapping(node, at)
Met(defaults, node) ==
    {at \in DOMAIN defaults \cup DOMAIN node :
        /\ at # <<>> /\ Descends(defaults, node, Front(at))
        /\ ~Descends(defaults, node, at)}
Mark(defaults, node, at) ==
    IF at \notin DOMAIN node \/ Same(defaults, node, at)
    THEN "default" ELSE "override"
MergedValue(defaults, node) ==
    LET kept == {at \in DOMAIN defaults : \A n \in 0 .. Len(at) :
                    SubSeq(at, 1, n) \in DOMAIN node => IsMapping(node, SubSeq(at, 1, n))}
    IN [at \in kept \cup DOMAIN node |->
            IF at \in DOMAIN node THEN node[at] ELSE defaults[at]]
\* Entries are kept once, so that the log is a set.  Nothing is logged of the
\* whole node, whose path is empty.
MergeLog(defaults, node) ==
    {Entry(Mark(defaults, node, at), at) : at \in Met(defaults, node)}
Merge(defaults, node) ==
    IF defaults = None
    THEN [value |-> node, log |-> {}]
    ELSE [value |-> MergedValue(defaults, node), log |-> MergeLog(defaults, node)]

-----------------------------------------------------------------------------
Init ==
    /\ now = 0
    /\ describer \in [Components -> Answers] /\ rebuilds = 0
    /\ store = [n \in Names |-> None]
    /\ stage = [t \in Tasks |-> "idle"]
    /\ path \in [Tasks -> Paths]
    /\ document = [t \in Tasks |-> <<>>]
    /\ plans = [t \in Tasks |-> [c \in Components |-> NoPlan]]
    /\ nodes = [t \in Tasks |-> <<>>]
    /\ transcript = [t \in Tasks |-> NoTranscript]
    /\ outcome = [t \in Tasks |-> None]

Goto(t, s) == stage' = [stage EXCEPT ![t] = s]
End(t, result) == outcome' = [outcome EXCEPT ![t] = result] /\ Goto(t, "done")

Tick ==
    /\ now < MaxSecond /\ now' = now + 1
    /\ UNCHANGED <<describer, rebuilds, store, stage, path, document, plans,
                   nodes, transcript, outcome>>

\* A component is built anew and described otherwise.
Redescribe(c) ==
    /\ rebuilds < MaxRebuilds /\ rebuilds' = rebuilds + 1
    /\ \E a \in Answers \ {describer[c]} :
          describer' = [describer EXCEPT ![c] = a]
    /\ UNCHANGED <<now, store, stage, path, document, plans, nodes, transcript,
                   outcome>>

\* Read the flow: the file may be outside the root, unreadable, no YAML or
\* without nodes.
ReadFlow(t) ==
    /\ stage[t] = "idle"
    /\ \/ \E d \in Documents :
             /\ document' = [document EXCEPT ![t] = d]
             /\ Goto(t, "check")
             /\ UNCHANGED outcome
       \/ End(t, "error") /\ UNCHANGED document
    /\ UNCHANGED <<world, store, path, plans, nodes, transcript>>

Node(t) == document[t][Len(nodes[t]) + 1]
Unchecked(t) == stage[t] = "check" /\ Len(nodes[t]) < Len(document[t])
ComponentOf(node) ==
    LET named(k) == <<k>> \in DOMAIN node /\ node[<<k>>] \in Components
    IN  CASE ~IsMapping(node, <<>>) -> None
          [] IsMapping(node, <<>>) /\ named("component") -> node[<<"component">>]
          [] IsMapping(node, <<>>) /\ ~named("component") /\ named("type") ->
                node[<<"type">>]
          [] OTHER -> None

\* The registry's schema comes before the one the component describes.
SchemaOf(c) == IF c \in DOMAIN Stub THEN Stub[c].schema ELSE describer[c]
NewPlan(c) ==
    [schema |-> SchemaOf(c),
     defaults |-> IF c \in DOMAIN Stub THEN Stub[c].defaults ELSE None]
\* mutant: it is described for each of its nodes.
PlanForNode(t, c) == NewPlan(c)
\* A component is described once for the whole flow.
PlanFor(t, c) == IF plans[t][c] = NoPlan THEN NewPlan(c) ELSE plans[t][c]
CannotPlan(t, c) ==
    /\ plans[t][c] = NoPlan
    /\ describer[c] = Failing \/ SchemaOf(c) \in Broken
Valid(plan, node) == plan.schema = None \/ Accepts(plan.schema, node)

CheckNode(t) ==
    /\ Unchecked(t)
    /\ LET c == ComponentOf(Node(t))
       IN  /\ c # None /\ ~CannotPlan(t, c)
           /\ Valid(PlanFor(t, c), Node(t))
           /\ plans' = [plans EXCEPT ![t][c] = PlanFor(t, c)]
           /\ nodes' = [nodes EXCEPT ![t] = Append(@,
                 [component |-> c, node_config |-> Node(t),
                  schema |-> PlanFor(t, c).schema,
                  defaults |-> PlanFor(t, c).defaults])]
    /\ UNCHANGED <<world, store, stage, path, document, transcript, outcome>>

\* One node that is not valid ends the validation: no node is returned.
RejectNode(t) ==
    /\ Unchecked(t)
    /\ LET c == ComponentOf(Node(t))
       IN  IF c = None THEN TRUE
           ELSE CannotPlan(t, c) \/ ~Valid(PlanFor(t, c), Node(t))
    /\ End(t, "error")
    /\ UNCHANGED <<world, store, path, document, plans, nodes, transcript>>

Validated(t) ==
    /\ stage[t] = "check" /\ Len(nodes[t]) = Len(document[t])
    /\ Goto(t, "assemble")
    /\ UNCHANGED <<world, store, path, document, plans, nodes, transcript,
                   outcome>>

\* from_validated_nodes: the second is read here.
Assemble(t) ==
    /\ stage[t] = "assemble"
    /\ transcript' = [transcript EXCEPT ![t] =
          [flow_path |-> path[t], generated_at |-> now,
           nodes |-> [i \in DOMAIN nodes[t] |->
              LET merged == Merge(nodes[t][i].defaults, nodes[t][i].node_config)
              IN  [resolved_config |-> merged.value, run_log |-> merged.log,
                   schema |-> nodes[t][i].schema]]]]
    /\ Goto(t, "open")
    /\ UNCHANGED <<world, store, path, document, plans, nodes, outcome>>

\* mutant: the file's name has no second.
OutputOfFlow(t) == <<Stem[path[t]], 0>>
OutputPath(t) == <<Stem[path[t]], transcript[t].generated_at>>

\* The file is truncated first and written then; two that write at the same
\* time may leave a mixture.
OpenTranscript(t) ==
    /\ stage[t] = "open"
    /\ store' = [store EXCEPT ![OutputPath(t)] = EmptyFile]
    /\ Goto(t, "fill")
    /\ UNCHANGED <<world, path, document, plans, nodes, transcript, outcome>>
FillTranscript(t) ==
    /\ stage[t] = "fill"
    /\ \E content \in {transcript[t]}
             \cup (IF store[OutputPath(t)] = EmptyFile THEN {} ELSE {Mixed}) :
          store' = [store EXCEPT ![OutputPath(t)] = content]
    /\ End(t, "written")
    /\ UNCHANGED <<world, path, document, plans, nodes, transcript>>

\* The directory cannot be made or the file not be written, or the process is
\* killed: what is there stays.
WriteFails(t) ==
    /\ stage[t] \in {"open", "fill"}
    /\ End(t, "error")
    /\ UNCHANGED <<world, store, path, document, plans, nodes, transcript>>

Next ==
    \/ Tick
    \/ \E c \in Components : Redescribe(c)
    \/ \E t \in Tasks : \/ ReadFlow(t) \/ CheckNode(t) \/ RejectNode(t)
                        \/ Validated(t) \/ Assemble(t) \/ OpenTranscript(t)
                        \/ FillTranscript(t) \/ WriteFails(t)
Spec == Init /\ [][Next]_vars

-----------------------------------------------------------------------------
(* What the log says of a value's positions.                               *)

Leaves(value) == {at \in DOMAIN value : value[at] # Mapping}
MarksAt(node, keys) ==
    {m \in Marks : keys # <<>> /\ <<m, PathString(keys)>> \in node.run_log}
\* The positions on the way to a leaf that carry a mark.
MarkedOnTheWay(node, leaf) ==
    {n \in 1..Len(leaf) : MarksAt(node, SubSeq(leaf, 1, n)) # {}}
PlainKeys(value) ==
    \A at \in DOMAIN value : \A i \in DOMAIN at : Segment[at[i]] = <<at[i]>>

(***************************************************************************)
(* Properties.                                                             *)
(***************************************************************************)

TypeOK ==
    /\ now \in 0..MaxSecond /\ rebuilds \in 0..MaxRebuilds
    /\ describer \in [Components -> Answers]
    /\ stage \in [Tasks -> Stages] /\ path \in [Tasks -> Paths]
    /\ outcome \in [Tasks -> {None, "error", "written"}]
    /\ DOMAIN store = Names
    /\ \A t \in Tasks :
          /\ transcript[t] # NoTranscript =>
                OutputPath(t) \in Names /\ transcript[t].flow_path = path[t]
          /\ \A i \in DOMAIN nodes[t] :
                /\ nodes[t][i].component \in Components
                /\ nodes[t][i].schema \in (Schemas \ Broken) \cup {None}

\* However often a component is rebuilt while its flow is validated, all the
\* nodes of one component are validated against the same schema, and each was
\* accepted by the schema its transcript will name.
OneSchemaPerComponent ==
    \A t \in Tasks : \A i, j \in DOMAIN nodes[t] :
        /\ nodes[t][i].component = nodes[t][j].component
              => nodes[t][i].schema = nodes[t][j].schema
        /\ nodes[t][i].schema # None
              => Accepts(nodes[t][i].schema, document[t][i])

\* Where the registry has defaults and keys are spelt as in the log, the flow's
\* own values are in force, and on the way to every value there is one mark:
\* `default` exactly if the value there is the default.
MarkOf(value, defaults, keys) ==
    IF Same(value, defaults, keys) THEN "default" ELSE "override"
OneMark(node, value, defaults, leaf) ==
    \E n \in 1..Len(leaf) :
        /\ MarkedOnTheWay(node, leaf) = {n}
        /\ MarksAt(node, SubSeq(leaf, 1, n)) =
              {MarkOf(value, defaults, SubSeq(leaf, 1, n))}
NodeTells(node, defaults, own) ==
    LET value == node.resolved_config
    IN  defaults # None /\ PlainKeys(value) =>
          /\ \A leaf \in Leaves(own) :
                leaf \in DOMAIN value /\ value[leaf] = own[leaf]
          /\ \A leaf \in Leaves(value) : OneMark(node, value, defaults, leaf)

\* A transcript has every node of its flow, and tells of each what is in force
\* and what of it is a default.
TranscriptTells ==
    \A t \in Tasks : transcript[t] # NoTranscript =>
        /\ Len(transcript[t].nodes) = Len(document[t])
        /\ \A i \in DOMAIN transcript[t].nodes :
              NodeTells(transcript[t].nodes[i], nodes[t][i].defaults,
                        document[t][i])

\* A transcript that was written stays as it was written, unless another flow
\* of the same stem is run in the same second.
TranscriptKept ==
    \A t \in Tasks :
        outcome[t] = "written"
        /\ (\A u \in Tasks \ {t} :
               transcript[u] # NoTranscript =>
                  \/ Stem[path[u]] # Stem[path[t]]
                  \/ transcript[u].generated_at # transcript[t].generated_at)
        => \E n \in Names : /\ n[1] = Stem[path[t]]
                            /\ store[n] = transcript[t]

=============================================================================
