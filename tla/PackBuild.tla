----------------------------- MODULE PackBuild -----------------------------
(***************************************************************************)
(* pack_build.rs with the ComponentResolver of component_resolver.rs: read *)
(* a flow, resolve and validate its nodes one after another against the    *)
(* component directory, write the resolved configurations, build the pack  *)
(* and, in strict mode, build once more and compare.  A process is a shell *)
(* in one workspace; components are rebuilt and the flow is edited between *)
(* any two reads.                                                          *)
(***************************************************************************)
EXTENDS Naturals, Sequences

CONSTANTS
    Procs,       \* the shells
    Flows,       \* what the flow file may hold
    Builds,      \* what a component directory may hold
    NodeIds, Names, Dirs, Versions, Payloads, Operations,
    ShortOf,     \* the last segment of a component's name
    NoBuild, NoPack, NoConfig, NoOperation,
    MaxBuilds,   \* bound: commands started in a behaviour
    MaxChanges   \* bound: rebuilds and edits

VARIABLES
    disk,        \* the component directory: subdirectory -> build
    source,      \* the flow file
    pack,        \* the pack file
    configs,     \* .greentic/resolved_config/<node>.json
    started, changes,
    pc,          \* where each process is
    strict,      \* LOCAL_CHECK_STRICT
    pass,        \* 1, or 2 for the build that is compared
    alone,       \* history: no other shell was building meanwhile
    flow,        \* the nodes it read
    next,        \* the node it resolves, or whose configuration it writes, next
    prepared,    \* the build prepare_component read for that node
    cache,       \* the resolver's cache
    resolved,    \* the resolved nodes
    invalid,     \* whether a payload was refused
    temp         \* the pack of the second pass

inputs == <<disk, source>>
outputs == <<pack, configs>>
counters == <<started, changes>>
resolver == <<prepared, cache, resolved, invalid>>
vars == <<inputs, outputs, counters, pc, strict, pass, alone, flow, next,
          resolver, temp>>

Nodes == [node : NodeIds, kind : {"component", "component.exec", "builtin"},
          name : Names, req : SUBSET Versions, payload : Payloads,
          operation : Operations \cup {NoOperation}]
BuildRecords == [id : Names, version : Versions, accepts : SUBSET Payloads,
                 operation : Operations \cup {NoOperation}]
\* What a name was resolved to: the build that was described and validated, and
\* the build whose manifest was read afterwards.
Components == [name : Names, build : Builds, manifest : Builds]
Prepared == [dir : Dirs, build : Builds]
ResolvedNodes == [node : Nodes, component : Components]
PackNodes == [node : NodeIds, name : Names, payload : Payloads, id : Names,
              version : Versions, operation : Operations \cup {NoOperation},
             backfilled : BOOLEAN]
Configs == [id : Names, version : Versions, payload : Payloads]
Packs == [nodes : SUBSET PackNodes, components : SUBSET Builds]

ASSUME InputAssumption ==
    /\ Flows \subseteq Seq(Nodes) /\ Flows # {}
    /\ \A f \in Flows : \A i, j \in 1..Len(f) : f[i].node = f[j].node => i = j
    /\ Builds \subseteq BuildRecords
    /\ Names \subseteq Dirs /\ ShortOf \in [Names -> Dirs]
    /\ MaxBuilds \in Nat /\ MaxChanges \in Nat
ASSUME NothingAssumption ==
    /\ NoBuild \notin Builds /\ NoConfig \notin Configs
    /\ NoOperation \notin Operations
    /\ NoPack \notin Packs

Stages == {"idle", "read", "prepare", "manifest", "configs", "pack",
           "compare", "done", "stopped"}
Ended == {"idle", "done", "stopped"}

Goto(p, stage) == pc' = [pc EXCEPT ![p] = stage]

\* What a command knew is gone when it ends.
Leave(p, stage) ==
    /\ Goto(p, stage)
    /\ flow' = [flow EXCEPT ![p] = <<>>]
    /\ next' = [next EXCEPT ![p] = 1]
    /\ prepared' = [prepared EXCEPT ![p] = NoBuild]
    /\ cache' = [cache EXCEPT ![p] = {}]
    /\ resolved' = [resolved EXCEPT ![p] = <<>>]
    /\ invalid' = [invalid EXCEPT ![p] = FALSE]
    /\ temp' = [temp EXCEPT ![p] = NoPack]

\* The directory of that name, or the one of its last segment.
ComponentTarget(name) == IF disk[name] = NoBuild /\ disk[ShortOf[name]] # NoBuild
                         THEN ShortOf[name] ELSE name

Cached(p, name, build) ==
    {c \in cache[p] : c.name = name /\ c.build.version = build.version}

Node(p) == flow[p][next[p]]

\* mutant: one artifact of each id
FirstOfId(nodes) ==
    {i \in 1..Len(nodes) : \A j \in 1..(i - 1) :
        nodes[j].component.build.id # nodes[i].component.build.id}

\* The artifacts of the pack: one of each id and version, the first.
FirstOfKey(nodes) ==
    {i \in 1..Len(nodes) : \A j \in 1..(i - 1) :
        \/ nodes[j].component.build.id # nodes[i].component.build.id
        \/ nodes[j].component.build.version # nodes[i].component.build.version}
CollectArtifacts(nodes) == {nodes[i].component.build : i \in FirstOfKey(nodes)}

\* A node whose payload stands under the component's own id and names no
\* operation gets the manifest's first one.
Backfilled(r) == /\ r.node.operation = NoOperation
                 /\ r.node.kind = "component"
                 /\ r.node.name = r.component.build.id

\* greentic-pack, which is external, reads the artifacts again; it is taken to
\* hold them to the hashes it is given, so that a component rebuilt since then
\* ends the command (Stop).
PackOf(nodes) ==
    [nodes |-> {[node |-> r.node.node, name |-> r.node.name,
                 payload |-> r.node.payload,
                 id |-> r.component.build.id,
                 version |-> r.component.build.version,
                 operation |-> IF Backfilled(r) THEN r.component.manifest.operation
                               ELSE r.node.operation,
                 backfilled |-> Backfilled(r)] :
                   r \in {nodes[i] : i \in 1..Len(nodes)}},
     components |-> CollectArtifacts(nodes)]

ConfigOf(r) == [id |-> r.component.build.id,
                version |-> r.component.build.version,
                payload |-> r.node.payload]

Init ==
    /\ disk \in [Dirs -> Builds \cup {NoBuild}]
    /\ source \in Flows
    /\ pack = NoPack
    /\ configs = [n \in NodeIds |-> NoConfig]
    /\ started = 0 /\ changes = 0
    /\ pc = [p \in Procs |-> "idle"]
    /\ strict = [p \in Procs |-> FALSE]
    /\ pass = [p \in Procs |-> 1]
    /\ alone = [p \in Procs |-> FALSE]
    /\ flow = [p \in Procs |-> <<>>]
    /\ next = [p \in Procs |-> 1]
    /\ prepared = [p \in Procs |-> NoBuild]
    /\ cache = [p \in Procs |-> {}]
    /\ resolved = [p \in Procs |-> <<>>]
    /\ invalid = [p \in Procs |-> FALSE]
    /\ temp = [p \in Procs |-> NoPack]

-----------------------------------------------------------------------------
(* The workspace's owner.                                                  *)
Rebuild ==
    /\ changes < MaxChanges
    /\ changes' = changes + 1
    /\ \E d \in Dirs : \E b \in (Builds \cup {NoBuild}) \ {disk[d]} :
         disk' = [disk EXCEPT ![d] = b]
    /\ UNCHANGED <<source, outputs, started, pc, strict, pass, alone, flow, next,
                   resolver, temp>>

EditFlow ==
    /\ changes < MaxChanges
    /\ changes' = changes + 1
    /\ source' \in Flows \ {source}
    /\ UNCHANGED <<disk, outputs, started, pc, strict, pass, alone, flow, next,
                   resolver, temp>>

-----------------------------------------------------------------------------
(* A build.                                                                *)
Begin(p) ==
    /\ pc[p] \in Ended
    /\ started < MaxBuilds
    /\ started' = started + 1
    /\ \E s \in BOOLEAN : strict' = [strict EXCEPT ![p] = s]
    /\ pass' = [pass EXCEPT ![p] = 1]
    /\ alone' = [q \in Procs |-> q = p /\ \A r \in Procs \ {p} : pc[r] \in Ended]
    /\ Goto(p, "read")
    /\ UNCHANGED <<inputs, outputs, changes, flow, next, resolver, temp>>

\* Read the flow once; the resolver starts empty.
ReadFlow(p) ==
    /\ pc[p] = "read"
    /\ flow' = [flow EXCEPT ![p] = source]
    /\ next' = [next EXCEPT ![p] = 1]
    /\ cache' = [cache EXCEPT ![p] = {}]
    /\ resolved' = [resolved EXCEPT ![p] = <<>>]
    /\ invalid' = [invalid EXCEPT ![p] = FALSE]
    /\ Goto(p, "prepare")
    /\ UNCHANGED <<inputs, outputs, counters, strict, pass, alone, prepared, temp>>

SkipBuiltin(p) ==
    /\ pc[p] = "prepare" /\ next[p] <= Len(flow[p])
    /\ Node(p).kind = "builtin"
    /\ next' = [next EXCEPT ![p] = @ + 1]
    /\ UNCHANGED <<inputs, outputs, counters, pc, strict, pass, alone, flow,
                   resolver, temp>>

\* The node is done: its payload is checked against the component's schema.
Resolve(p, component) ==
    /\ resolved' = [resolved EXCEPT ![p] =
         Append(@, [node |-> Node(p), component |-> component])]
    /\ invalid' = [invalid EXCEPT ![p] =
         @ \/ Node(p).payload \notin component.build.accepts]
    /\ next' = [next EXCEPT ![p] = @ + 1]

\* mutant: the cache keeps the description, and the manifest is read each time
PrepareReread(p) ==
    LET target == ComponentTarget(Node(p).name)
        build == disk[target]
    IN /\ pc[p] = "prepare" /\ next[p] <= Len(flow[p])
       /\ Node(p).kind # "builtin"
       /\ build # NoBuild /\ build.version \in Node(p).req
       /\ \E b \in IF Cached(p, Node(p).name, build) # {}
                   THEN {c.build : c \in Cached(p, Node(p).name, build)}
                   ELSE {build} :
            prepared' = [prepared EXCEPT ![p] = [dir |-> target, build |-> b]]
       /\ Goto(p, "manifest")
       /\ UNCHANGED <<inputs, outputs, counters, strict, pass, alone, flow, next,
                      cache, resolved, invalid, temp>>

\* prepare_component reads the directory every time, whether or not the answer
\* is cached under the name that was asked for and the version it found.
Prepare(p) ==
    LET target == ComponentTarget(Node(p).name)
        build == disk[target]
    IN /\ pc[p] = "prepare" /\ next[p] <= Len(flow[p])
       /\ Node(p).kind # "builtin"
       /\ build # NoBuild /\ build.version \in Node(p).req
       /\ IF Cached(p, Node(p).name, build) # {}
          THEN /\ \E c \in Cached(p, Node(p).name, build) : Resolve(p, c)
               /\ UNCHANGED <<pc, prepared, cache>>
          ELSE /\ prepared' = [prepared EXCEPT ![p] =
                                 [dir |-> target, build |-> build]]
               /\ Goto(p, "manifest")
               /\ UNCHANGED <<next, cache, resolved, invalid>>
       /\ UNCHANGED <<inputs, outputs, counters, strict, pass, alone, flow, temp>>

\* The manifest file is read again for what goes into the pack.
ReadManifest(p) ==
    LET component == [name |-> Node(p).name, build |-> prepared[p].build,
                      manifest |-> disk[prepared[p].dir]]
    IN /\ pc[p] = "manifest"
       /\ disk[prepared[p].dir] # NoBuild
       /\ cache' = [cache EXCEPT ![p] = @ \cup {component}]
       /\ prepared' = [prepared EXCEPT ![p] = NoBuild]
       /\ Resolve(p, component)
       /\ Goto(p, "prepare")
       /\ UNCHANGED <<inputs, outputs, counters, strict, pass, alone, flow, temp>>

\* All errors are reported together, and end the command.
NodesResolved(p) ==
    /\ pc[p] = "prepare" /\ next[p] > Len(flow[p])
    /\ IF invalid[p] THEN Leave(p, "stopped")
       ELSE /\ next' = [next EXCEPT ![p] = 1]
            /\ Goto(p, "configs")
            /\ UNCHANGED <<flow, resolver, temp>>
    /\ UNCHANGED <<inputs, outputs, counters, strict, pass, alone>>

WriteConfig(p) ==
    /\ pc[p] = "configs" /\ next[p] <= Len(resolved[p])
    /\ LET r == resolved[p][next[p]]
       IN configs' = [configs EXCEPT ![r.node.node] = ConfigOf(r)]
    /\ next' = [next EXCEPT ![p] = @ + 1]
    /\ UNCHANGED <<inputs, pack, counters, pc, strict, pass, alone, flow,
                   resolver, temp>>

ConfigsWritten(p) ==
    /\ pc[p] = "configs" /\ next[p] > Len(resolved[p])
    /\ Goto(p, "pack")
    /\ UNCHANGED <<inputs, outputs, counters, strict, pass, alone, flow, next,
                   resolver, temp>>

\* The first pass writes the pack file, the second one a temporary file.
BuildPack(p) ==
    /\ pc[p] = "pack"
    /\ \/ /\ pass[p] = 2
          /\ temp' = [temp EXCEPT ![p] = PackOf(resolved[p])]
          /\ Goto(p, "compare")
          /\ UNCHANGED <<pack, pass, flow, next, resolver>>
       \/ /\ pass[p] = 1 /\ strict[p]
          /\ pack' = PackOf(resolved[p])
          /\ pass' = [pass EXCEPT ![p] = 2]
          /\ Goto(p, "read")
          /\ UNCHANGED <<flow, next, resolver, temp>>
       \/ /\ pass[p] = 1 /\ ~strict[p]
          /\ pack' = PackOf(resolved[p])
          /\ Leave(p, "done")
          /\ UNCHANGED pass
    /\ UNCHANGED <<inputs, configs, counters, strict, alone>>

\* mutant: that both builds succeed is enough
CompareNothing(p) ==
    /\ pc[p] = "compare"
    /\ Leave(p, "done")
    /\ UNCHANGED <<inputs, outputs, counters, strict, pass, alone>>

Compare(p) ==
    /\ pc[p] = "compare"
    /\ Leave(p, IF pack = temp[p] THEN "done" ELSE "stopped")
    /\ UNCHANGED <<inputs, outputs, counters, strict, pass, alone>>

\* An error, or the end of the process, between any two steps.
Stop(p) ==
    /\ pc[p] \notin Ended
    /\ Leave(p, "stopped")
    /\ UNCHANGED <<inputs, outputs, counters, strict, pass, alone>>

-----------------------------------------------------------------------------
Step(p) ==
    \/ ReadFlow(p) \/ SkipBuiltin(p) \/ Prepare(p) \/ ReadManifest(p)
    \/ NodesResolved(p) \/ WriteConfig(p) \/ ConfigsWritten(p)
    \/ BuildPack(p) \/ Compare(p)
Next == (\E p \in Procs : Begin(p) \/ Step(p) \/ Stop(p)) \/ Rebuild \/ EditFlow
Spec == Init /\ [][Next]_vars

-----------------------------------------------------------------------------
\* Every variable has its type.
TypeOK ==
    /\ disk \in [Dirs -> Builds \cup {NoBuild}]
    /\ source \in Flows
    /\ pack = NoPack \/ pack \in Packs
    /\ configs \in [NodeIds -> Configs \cup {NoConfig}]
    /\ started \in 0 .. MaxBuilds /\ changes \in 0 .. MaxChanges
    /\ pc \in [Procs -> Stages]
    /\ strict \in [Procs -> BOOLEAN]
    /\ pass \in [Procs -> {1, 2}]
    /\ alone \in [Procs -> BOOLEAN]
    /\ flow \in [Procs -> Flows \cup {<<>>}]
    /\ next \in [Procs -> Nat \ {0}]
    /\ prepared \in [Procs -> Prepared \cup {NoBuild}]
    /\ cache \in [Procs -> SUBSET Components]
    /\ resolved \in [Procs -> Seq(ResolvedNodes)]
    /\ invalid \in [Procs -> BOOLEAN]
    /\ temp \in [Procs -> Packs \cup {NoPack}]

\* Every component is requested under one name: the resolver's cache does not
\* notice that two names are one component.
OneNameEach(nodes) == \A m, n \in nodes : m.id = n.id => m.name = n.name

ServedBy(n) == {b \in pack.components : b.id = n.id /\ b.version = n.version}

\* However the components are rebuilt while nodes are resolved, the pack holds a
\* component for each of them, and whatever it holds under that id and version
\* accepts the node's payload: two nodes are never validated against two builds
\* of one version.
PackServesNodes ==
    pack # NoPack /\ OneNameEach(pack.nodes) =>
        \A n \in pack.nodes :
            /\ ServedBy(n) # {}
            /\ \A b \in ServedBy(n) : n.payload \in b.accepts

\* Nodes of one component that name no operation get the same one, though the
\* manifest it comes from is read separately.
OneDefaultOperation ==
    pack # NoPack =>
        \A m, n \in pack.nodes :
            m.backfilled /\ n.backfilled /\ m.id = n.id /\ m.version = n.version
                => m.operation = n.operation

\* After a build with no other shell at work, the resolved configurations are
\* those of the pack: in strict mode the second build wrote them, and it is
\* equal to the first or the command fails.
ConfigsMatchPack ==
    \A p \in Procs : pc[p] = "done" /\ alone[p] =>
        \A n \in pack.nodes :
            configs[n.node] = [id |-> n.id, version |-> n.version,
                               payload |-> n.payload]
=============================================================================
