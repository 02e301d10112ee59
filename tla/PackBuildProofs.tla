--------------------------- MODULE PackBuildProofs ---------------------------
(***************************************************************************)
(* Proofs about PackBuild, for every number of shells and builds, every    *)
(* flow and every component directory, however it is rebuilt.              *)
(*                                                                         *)
(* The inductive invariant says that a resolver's cache has one component  *)
(* of each name and version, that every resolved node has its component    *)
(* from there and, as long as no payload was refused, fits it (Resolving), *)
(* and what a shell that builds alone has written so far (Written).        *)
(***************************************************************************)
EXTENDS PackBuild, WellFoundedInduction, TLAPS

-----------------------------------------------------------------------------
(* Indices.                                                                *)

Less == {mn \in Nat \X Nat : mn[1] < mn[2]}

\* A nonempty set of natural numbers has a least one.
LEMMA Least ==
    ASSUME NEW T, T \subseteq Nat, T # {}
    PROVE  \E x \in T : \A y \in T : x <= y
  <1>1. OpToRel(<, Nat) = Less
    BY DEF OpToRel, Less
  <1>2. IsWellFoundedOn(Less, Nat)
    BY <1>1, NatLessThanWellFounded, Zenon
  <1>3. PICK x \in T : \A y \in T : ~ (<<y, x>> \in Less)
    BY <1>2, WFMin, Zenon
  <1>4. \A y \in T : ~ (y < x)
    BY <1>3 DEF Less
  <1>5. QED BY <1>4

\* Appending to a sequence adds its last element and nothing else.
LEMMA Appended ==
    ASSUME NEW S, NEW s \in Seq(S), NEW x \in S
    PROVE  /\ Append(s, x) \in Seq(S)
           /\ Len(s) \in Nat /\ Len(Append(s, x)) = Len(s) + 1
           /\ \A i \in 1 .. (Len(s) + 1) :
                Append(s, x)[i] = IF i = Len(s) + 1 THEN x ELSE s[i]
  OBVIOUS

-----------------------------------------------------------------------------
(* What a pack is made of.                                                 *)

SameKey(c, d) == c.build.id = d.build.id /\ c.build.version = d.build.version

\* Among the nodes of one id and version one is the first.
LEMMA FirstOfEach ==
    ASSUME NEW nodes \in Seq(ResolvedNodes), NEW i \in 1 .. Len(nodes)
    PROVE  \E k \in FirstOfKey(nodes) :
             SameKey(nodes[k].component, nodes[i].component)
  <1> DEFINE T == {k \in 1 .. Len(nodes) :
                     SameKey(nodes[k].component, nodes[i].component)}
  <1>1. Len(nodes) \in Nat
    OBVIOUS
  <1>2. T \subseteq Nat /\ i \in T
    BY <1>1 DEF SameKey
  <1>3. PICK k \in T : \A j \in T : k <= j
    BY <1>2, Least
  <1>4. ASSUME NEW j \in 1 .. (k - 1)
        PROVE  \/ nodes[j].component.build.id # nodes[k].component.build.id
               \/ nodes[j].component.build.version # nodes[k].component.build.version
    <2>1. j \in 1 .. Len(nodes) /\ ~ (k <= j)
      BY <1>1, <1>4
    <2>2. j \notin T
      BY <1>3, <2>1
    <2>3. QED BY <2>1, <2>2 DEF SameKey
  <1>5. k \in FirstOfKey(nodes)
    BY <1>3, <1>4 DEF FirstOfKey
  <1>6. QED BY <1>3, <1>5

\* A pack made of resolved nodes is a pack.
LEMMA PackTyped ==
    ASSUME NEW nodes \in Seq(ResolvedNodes)
    PROVE  PackOf(nodes) \in Packs
  <1>1. ASSUME NEW r \in ResolvedNodes
        PROVE  /\ r.node \in Nodes /\ r.component.build \in BuildRecords
               /\ r.component.build \in Builds
               /\ r.component.manifest \in BuildRecords
    BY <1>1, InputAssumption DEF ResolvedNodes, Components
  <1>2. ASSUME NEW r \in ResolvedNodes
        PROVE  [node |-> r.node.node, name |-> r.node.name,
                payload |-> r.node.payload,
                id |-> r.component.build.id,
                version |-> r.component.build.version,
                operation |-> IF Backfilled(r) THEN r.component.manifest.operation
                              ELSE r.node.operation,
                backfilled |-> Backfilled(r)] \in PackNodes
    <2>1. Backfilled(r) \in BOOLEAN
      BY DEF Backfilled
    <2>2. (IF Backfilled(r) THEN r.component.manifest.operation
           ELSE r.node.operation) \in Operations \cup {NoOperation}
      BY <1>1 DEF Nodes, BuildRecords
    <2>3. /\ r.node.node \in NodeIds /\ r.node.name \in Names
          /\ r.node.payload \in Payloads
          /\ r.component.build.id \in Names
          /\ r.component.build.version \in Versions
      BY <1>1 DEF Nodes, BuildRecords
    <2>4. QED BY <2>1, <2>2, <2>3 DEF PackNodes
  <1>3. \A i \in 1 .. Len(nodes) : nodes[i] \in ResolvedNodes
    OBVIOUS
  <1>4. PackOf(nodes).nodes \in SUBSET PackNodes
    BY <1>2, <1>3 DEF PackOf
  <1>5. PackOf(nodes).components \in SUBSET Builds
    BY <1>1, <1>3 DEF PackOf, CollectArtifacts, FirstOfKey
  <1>6. QED BY <1>4, <1>5 DEF Packs, PackOf

\* A node of a pack and the resolved node it comes from.
From(n, r) ==
    /\ n.node = r.node.node /\ n.name = r.node.name /\ n.payload = r.node.payload
    /\ n.id = r.component.build.id /\ n.version = r.component.build.version
    /\ n.backfilled => /\ r.node.name = r.component.build.id
                       /\ n.operation = r.component.manifest.operation

\* The nodes of a pack come from the resolved nodes, each from one.
LEMMA PackNode ==
    ASSUME NEW nodes
    PROVE  /\ \A n \in PackOf(nodes).nodes :
                \E i \in 1 .. Len(nodes) : From(n, nodes[i])
           /\ \A i \in 1 .. Len(nodes) :
                \E n \in PackOf(nodes).nodes : From(n, nodes[i])
  <1> DEFINE made(r) == [node |-> r.node.node, name |-> r.node.name,
                         payload |-> r.node.payload,
                         id |-> r.component.build.id,
                         version |-> r.component.build.version,
                         operation |-> IF Backfilled(r)
                                       THEN r.component.manifest.operation
                                       ELSE r.node.operation,
                         backfilled |-> Backfilled(r)]
  <1>1. PackOf(nodes).nodes = {made(r) : r \in {nodes[i] : i \in 1 .. Len(nodes)}}
    BY DEF PackOf
  <1>2. ASSUME NEW r PROVE From(made(r), r)
    BY DEF From, Backfilled
  <1> HIDE DEF made
  <1>3. ASSUME NEW n \in PackOf(nodes).nodes
        PROVE  \E i \in 1 .. Len(nodes) : From(n, nodes[i])
    <2>1. PICK i \in 1 .. Len(nodes) : n = made(nodes[i])
      BY <1>1
    <2>2. QED BY <1>2, <2>1
  <1>4. ASSUME NEW i \in 1 .. Len(nodes)
        PROVE  \E n \in PackOf(nodes).nodes : From(n, nodes[i])
    <2>1. made(nodes[i]) \in PackOf(nodes).nodes
      BY <1>1
    <2>2. QED BY <1>2, <2>1
  <1>5. QED BY <1>3, <1>4

\* What the resolver of a build promises of its nodes.
OneOfKey(components) ==
    \A c, d \in components :
        c.name = d.name /\ c.build.version = d.build.version => c = d
FromCache(nodes, components) ==
    \A i \in 1 .. Len(nodes) : /\ nodes[i].component \in components
                               /\ nodes[i].component.name = nodes[i].node.name
Accepted(nodes) ==
    \A i \in 1 .. Len(nodes) :
        nodes[i].node.payload \in nodes[i].component.build.accepts
DistinctNodes(nodes) ==
    \A i, j \in 1 .. Len(nodes) : nodes[i].node.node = nodes[j].node.node => i = j

\* The two claims of a pack, of any pack.
Serving(pk) ==
    OneNameEach(pk.nodes) =>
        \A n \in pk.nodes :
            LET served == {b \in pk.components : b.id = n.id /\ b.version = n.version}
            IN served # {} /\ \A b \in served : n.payload \in b.accepts
SameDefaults(pk) ==
    \A m, n \in pk.nodes :
        m.backfilled /\ n.backfilled /\ m.id = n.id /\ m.version = n.version
            => m.operation = n.operation

\* A pack made of nodes that were resolved and accepted serves them.
LEMMA PackServes ==
    ASSUME NEW nodes \in Seq(ResolvedNodes), NEW components,
           OneOfKey(components), FromCache(nodes, components), Accepted(nodes)
    PROVE  Serving(PackOf(nodes))
  <1> DEFINE pk == PackOf(nodes)
  <1> SUFFICES ASSUME OneNameEach(pk.nodes), NEW n \in pk.nodes
               PROVE  LET served == {b \in pk.components :
                                       b.id = n.id /\ b.version = n.version}
                      IN served # {} /\ \A b \in served : n.payload \in b.accepts
    BY DEF Serving
  <1>0. PICK i \in 1 .. Len(nodes) : From(n, nodes[i])
    BY PackNode
  <1>1. /\ n.name = nodes[i].node.name /\ n.payload = nodes[i].node.payload
        /\ n.id = nodes[i].component.build.id
        /\ n.version = nodes[i].component.build.version
    BY <1>0 DEF From
  <1>2. pk.components = {nodes[k].component.build : k \in FirstOfKey(nodes)}
    BY DEF PackOf, CollectArtifacts
  <1>3. PICK k \in FirstOfKey(nodes) :
          SameKey(nodes[k].component, nodes[i].component)
    BY FirstOfEach
  <1>4. /\ nodes[k].component.build \in pk.components
        /\ nodes[k].component.build.id = n.id
        /\ nodes[k].component.build.version = n.version
    BY <1>1, <1>2, <1>3 DEF SameKey
  <1>5. ASSUME NEW b \in pk.components, b.id = n.id, b.version = n.version
        PROVE  n.payload \in b.accepts
    <2>1. PICK j \in FirstOfKey(nodes) : b = nodes[j].component.build
      BY <1>2
    <2>2. j \in 1 .. Len(nodes)
      BY DEF FirstOfKey
    <2>3. PICK m \in pk.nodes : From(m, nodes[j])
      BY <2>2, PackNode
    <2>4. m.name = n.name /\ m.name = nodes[j].node.name
      BY <1>5, <2>1, <2>3 DEF OneNameEach, From
    <2>5. nodes[j].component = nodes[i].component
      BY <1>1, <1>5, <2>1, <2>2, <2>3, <2>4 DEF FromCache, OneOfKey
    <2>6. QED BY <1>1, <2>1, <2>5 DEF Accepted
  <1>6. QED BY <1>4, <1>5

\* Nodes that get a default operation get it from one reading of the manifest.
LEMMA PackDefaults ==
    ASSUME NEW nodes \in Seq(ResolvedNodes), NEW components,
           OneOfKey(components), FromCache(nodes, components)
    PROVE  SameDefaults(PackOf(nodes))
  <1> DEFINE pk == PackOf(nodes)
  <1> SUFFICES ASSUME NEW m \in pk.nodes, NEW n \in pk.nodes, m.backfilled,
                      n.backfilled, m.id = n.id, m.version = n.version
               PROVE  m.operation = n.operation
    BY DEF SameDefaults
  <1>1. PICK i \in 1 .. Len(nodes) : From(m, nodes[i])
    BY PackNode
  <1>2. PICK j \in 1 .. Len(nodes) : From(n, nodes[j])
    BY PackNode
  <1>3. /\ nodes[i].node.name = nodes[j].node.name
        /\ nodes[i].component.build.version = nodes[j].component.build.version
        /\ m.operation = nodes[i].component.manifest.operation
        /\ n.operation = nodes[j].component.manifest.operation
    BY <1>1, <1>2 DEF From
  <1>4. nodes[i].component = nodes[j].component
    BY <1>3 DEF FromCache, OneOfKey
  <1>5. QED BY <1>3, <1>4

-----------------------------------------------------------------------------
(* One shell.                                                              *)

\* What a shell knows: its cache has one component of each name and version,
\* and every node it resolved is one of the flow it read and has its component
\* from the cache.  Past the nodes no payload was refused.
Resolving(p) ==
    /\ pc[p] = "manifest" =>
         /\ next[p] <= Len(flow[p]) /\ prepared[p] \in Prepared
         /\ Cached(p, Node(p).name, prepared[p].build) = {}
    /\ OneOfKey(cache[p])
    /\ FromCache(resolved[p], cache[p])
    /\ ~invalid[p] => Accepted(resolved[p])
    /\ DistinctNodes(resolved[p])
    /\ pc[p] \in {"prepare", "manifest"} =>
         \A i \in 1 .. Len(resolved[p]) : \E k \in 1 .. Len(flow[p]) :
            k < next[p] /\ resolved[p][i].node.node = flow[p][k].node
    /\ pc[p] \in {"configs", "pack", "compare"} => ~invalid[p]
    /\ pc[p] = "compare" => temp[p] = PackOf(resolved[p])

\* What a shell without any other one at work has written.
Written(p) ==
    alone[p] =>
      /\ \A q \in Procs : q # p => pc[q] \in Ended
      /\ pc[p] = "configs" =>
           \A i \in 1 .. Len(resolved[p]) : i < next[p] =>
             configs[resolved[p][i].node.node] = ConfigOf(resolved[p][i])
      /\ pc[p] \in {"pack", "compare"} =>
           \A i \in 1 .. Len(resolved[p]) :
             configs[resolved[p][i].node.node] = ConfigOf(resolved[p][i])
      /\ pc[p] = "done" =>
           \A n \in pack.nodes :
             configs[n.node] = [id |-> n.id, version |-> n.version,
                                payload |-> n.payload]

PackInv == pack # NoPack => Serving(pack) /\ SameDefaults(pack)

IInv ==
    /\ TypeOK
    /\ \A p \in Procs : Resolving(p)
    /\ \A p \in Procs : Written(p)
    /\ PackInv

\* The empty sequence keeps every promise.
LEMMA NothingResolved ==
    /\ \A S : <<>> \in Seq(S)
    /\ OneOfKey({}) /\ FromCache(<<>>, {}) /\ Accepted(<<>>)
    /\ DistinctNodes(<<>>) /\ Len(<<>>) = 0 /\ 1 .. 0 = {}
  <1>1. Len(<<>>) = 0 /\ 1 .. 0 = {} /\ \A S : <<>> \in Seq(S)
    OBVIOUS
  <1>2. QED
    BY <1>1 DEF OneOfKey, FromCache, Accepted, DistinctNodes

\* The node that is next is one of the flow.
LEMMA NodeTyped ==
    ASSUME TypeOK, NEW p \in Procs, next[p] <= Len(flow[p])
    PROVE  /\ flow[p] \in Flows /\ flow[p] \in Seq(Nodes)
           /\ next[p] \in 1 .. Len(flow[p]) /\ Node(p) \in Nodes
  <1>1. next[p] \in Nat \ {0} /\ flow[p] \in Flows \cup {<<>>}
    BY DEF TypeOK
  <1>2. flow[p] # <<>>
    BY <1>1, NothingResolved
  <1>3. flow[p] \in Flows /\ flow[p] \in Seq(Nodes)
    BY <1>1, <1>2, InputAssumption
  <1>4. Len(flow[p]) \in Nat
    BY <1>3
  <1>5. next[p] \in 1 .. Len(flow[p])
    BY <1>1, <1>4
  <1>6. QED BY <1>3, <1>5 DEF Node

\* Where a component is looked for.
LEMMA TargetTyped ==
    ASSUME NEW name \in Names
    PROVE  ComponentTarget(name) \in Dirs
  BY InputAssumption DEF ComponentTarget

\* Resolving a node types and adds it.
LEMMA ResolveTyped ==
    ASSUME TypeOK, NEW p \in Procs, next[p] <= Len(flow[p]),
           NEW c \in Components, Resolve(p, c)
    PROVE  /\ resolved' \in [Procs -> Seq(ResolvedNodes)]
           /\ invalid' \in [Procs -> BOOLEAN]
           /\ next' \in [Procs -> Nat \ {0}]
  <1> DEFINE r == [node |-> Node(p), component |-> c]
  <1>1. r \in ResolvedNodes
    BY NodeTyped DEF ResolvedNodes
  <1>2. resolved[p] \in Seq(ResolvedNodes) /\ next[p] \in Nat \ {0}
    BY DEF TypeOK
  <1>3. Append(resolved[p], r) \in Seq(ResolvedNodes)
    BY <1>1, <1>2, Appended
  <1>4. resolved' = [resolved EXCEPT ![p] = Append(resolved[p], r)]
    BY DEF Resolve
  <1> HIDE DEF r
  <1>5. resolved' \in [Procs -> Seq(ResolvedNodes)]
    BY <1>3, <1>4 DEF TypeOK
  <1>6. invalid' \in [Procs -> BOOLEAN]
    BY DEF Resolve, TypeOK
  <1>7. next' \in [Procs -> Nat \ {0}]
    BY <1>2 DEF Resolve, TypeOK
  <1>8. QED BY <1>5, <1>6, <1>7

\* Leaving forgets everything, in its type.
LEMMA LeaveTyped ==
    ASSUME TypeOK, NEW p \in Procs, NEW stage \in Ended, Leave(p, stage)
    PROVE  /\ pc' \in [Procs -> Stages] /\ flow' \in [Procs -> Flows \cup {<<>>}]
           /\ next' \in [Procs -> Nat \ {0}]
           /\ prepared' \in [Procs -> Prepared \cup {NoBuild}]
           /\ cache' \in [Procs -> SUBSET Components]
           /\ resolved' \in [Procs -> Seq(ResolvedNodes)]
           /\ invalid' \in [Procs -> BOOLEAN]
           /\ temp' \in [Procs -> Packs \cup {NoPack}]
  <1>1. resolved' \in [Procs -> Seq(ResolvedNodes)]
    BY NothingResolved DEF Leave, TypeOK
  <1>2. /\ pc' \in [Procs -> Stages] /\ flow' \in [Procs -> Flows \cup {<<>>}]
        /\ next' \in [Procs -> Nat \ {0}]
    BY DEF Leave, TypeOK, Goto, Stages, Ended
  <1>3. QED BY <1>1, <1>2 DEF Leave, TypeOK

\* Every step keeps the types.
LEMMA TypesStep ==
    ASSUME TypeOK, \A p \in Procs : Resolving(p), [Next]_vars
    PROVE  TypeOK'
  <1> USE DEF Goto, inputs, outputs, counters, resolver
  <1>1. CASE Rebuild
    BY <1>1, InputAssumption DEF Rebuild, TypeOK
  <1>2. CASE EditFlow
    BY <1>2, InputAssumption DEF EditFlow, TypeOK
  <1>3. ASSUME NEW p \in Procs, Begin(p) PROVE TypeOK'
    BY <1>3, InputAssumption DEF Begin, TypeOK, Stages
  <1>4. ASSUME NEW p \in Procs, ReadFlow(p) PROVE TypeOK'
    <2>1. resolved' \in [Procs -> Seq(ResolvedNodes)]
      BY <1>4, NothingResolved DEF ReadFlow, TypeOK
    <2>2. flow' \in [Procs -> Flows \cup {<<>>}] /\ next' \in [Procs -> Nat \ {0}]
      BY <1>4 DEF ReadFlow, TypeOK
    <2>3. QED BY <1>4, <2>1, <2>2 DEF ReadFlow, TypeOK, Stages
  <1>5. ASSUME NEW p \in Procs, SkipBuiltin(p) PROVE TypeOK'
    <2>1. next' \in [Procs -> Nat \ {0}]
      BY <1>5 DEF SkipBuiltin, TypeOK
    <2>2. QED BY <1>5, <2>1 DEF SkipBuiltin, TypeOK
  <1>6. ASSUME NEW p \in Procs, Prepare(p) PROVE TypeOK'
    <2> DEFINE target == ComponentTarget(Node(p).name)
               build == disk[target]
    <2>1. next[p] <= Len(flow[p]) /\ build # NoBuild
      BY <1>6 DEF Prepare
    <2>2. Node(p) \in Nodes
      BY <2>1, NodeTyped
    <2>3. target \in Dirs
      BY <2>2, TargetTyped DEF Nodes
    <2>4. build \in Builds
      BY <2>1, <2>3 DEF TypeOK
    <2>5. CASE Cached(p, Node(p).name, build) # {}
      <3>1. /\ \E c \in Cached(p, Node(p).name, build) : Resolve(p, c)
            /\ UNCHANGED <<pc, prepared, cache>>
            /\ UNCHANGED <<inputs, outputs, counters, strict, pass, alone, flow, temp>>
        BY <1>6, <2>5 DEF Prepare
      <3>2. PICK c \in Components : Resolve(p, c)
        BY <3>1 DEF Cached, TypeOK
      <3>3. QED BY <2>1, <3>1, <3>2, ResolveTyped DEF TypeOK
    <2>6. CASE Cached(p, Node(p).name, build) = {}
      <3>1. /\ prepared' = [prepared EXCEPT ![p] =
                              [dir |-> target, build |-> build]]
            /\ pc' = [pc EXCEPT ![p] = "manifest"]
            /\ UNCHANGED <<next, cache, resolved, invalid>>
            /\ UNCHANGED <<inputs, outputs, counters, strict, pass, alone, flow, temp>>
        BY <1>6, <2>6 DEF Prepare
      <3>2. [dir |-> target, build |-> build] \in Prepared
        BY <2>3, <2>4 DEF Prepared
      <3> HIDE DEF target, build
      <3>3. prepared' \in [Procs -> Prepared \cup {NoBuild}]
        BY <3>1, <3>2 DEF TypeOK
      <3>4. QED BY <3>1, <3>3 DEF TypeOK, Stages
    <2>7. QED BY <2>5, <2>6
  <1>7. ASSUME NEW p \in Procs, ReadManifest(p) PROVE TypeOK'
    <2> DEFINE c == [name |-> Node(p).name, build |-> prepared[p].build,
                     manifest |-> disk[prepared[p].dir]]
    <2>1. /\ pc[p] = "manifest" /\ disk[prepared[p].dir] # NoBuild
          /\ cache' = [cache EXCEPT ![p] = @ \cup {c}] /\ Resolve(p, c)
          /\ prepared' = [prepared EXCEPT ![p] = NoBuild]
          /\ pc' = [pc EXCEPT ![p] = "prepare"]
          /\ UNCHANGED <<inputs, outputs, counters, strict, pass, alone, flow, temp>>
      BY <1>7 DEF ReadManifest
    <2>2. next[p] <= Len(flow[p]) /\ prepared[p] \in Prepared
      BY <2>1 DEF Resolving
    <2>3. Node(p) \in Nodes
      BY <2>2, NodeTyped
    <2>4. c \in Components
      BY <2>1, <2>2, <2>3 DEF Components, Prepared, Nodes, TypeOK
    <2>5. /\ resolved' \in [Procs -> Seq(ResolvedNodes)]
          /\ invalid' \in [Procs -> BOOLEAN] /\ next' \in [Procs -> Nat \ {0}]
      BY <2>1, <2>2, <2>4, ResolveTyped
    <2> HIDE DEF c
    <2>6. cache' \in [Procs -> SUBSET Components]
      BY <2>1, <2>4 DEF TypeOK
    <2>7. QED BY <2>1, <2>5, <2>6 DEF TypeOK, Stages
  <1>8. ASSUME NEW p \in Procs, NodesResolved(p) PROVE TypeOK'
    <2>1. CASE invalid[p]
      <3>1. /\ Leave(p, "stopped")
            /\ UNCHANGED <<inputs, outputs, counters, strict, pass, alone>>
        BY <1>8, <2>1 DEF NodesResolved
      <3>2. QED BY <3>1, LeaveTyped DEF TypeOK, Ended
    <2>2. CASE ~invalid[p]
      <3>1. /\ next' = [next EXCEPT ![p] = 1] /\ pc' = [pc EXCEPT ![p] = "configs"]
            /\ UNCHANGED <<flow, resolver, temp>>
            /\ UNCHANGED <<inputs, outputs, counters, strict, pass, alone>>
        BY <1>8, <2>2 DEF NodesResolved
      <3>2. next' \in [Procs -> Nat \ {0}]
        BY <3>1 DEF TypeOK
      <3>3. QED BY <3>1, <3>2 DEF TypeOK, Stages
    <2>3. QED BY <2>1, <2>2
  <1>9. ASSUME NEW p \in Procs, WriteConfig(p) PROVE TypeOK'
    <2> DEFINE r == resolved[p][next[p]]
    <2>1. /\ next[p] <= Len(resolved[p]) /\ next[p] \in Nat \ {0}
          /\ resolved[p] \in Seq(ResolvedNodes)
          /\ configs' = [configs EXCEPT ![r.node.node] = ConfigOf(r)]
          /\ next' = [next EXCEPT ![p] = @ + 1]
      BY <1>9 DEF WriteConfig, TypeOK
    <2>2. r \in ResolvedNodes
      BY <2>1
    <2>3. ConfigOf(r) \in Configs
      BY <2>2, InputAssumption
      DEF ConfigOf, Configs, ResolvedNodes, Components, BuildRecords, Nodes
    <2> HIDE DEF r
    <2>4. configs' \in [NodeIds -> Configs \cup {NoConfig}]
      BY <2>1, <2>3 DEF TypeOK
    <2>5. next' \in [Procs -> Nat \ {0}]
      BY <2>1 DEF TypeOK
    <2>6. QED BY <1>9, <2>4, <2>5 DEF WriteConfig, TypeOK
  <1>10. ASSUME NEW p \in Procs, ConfigsWritten(p) PROVE TypeOK'
    BY <1>10 DEF ConfigsWritten, TypeOK, Stages
  <1>11. ASSUME NEW p \in Procs, BuildPack(p) PROVE TypeOK'
    <2>1. PackOf(resolved[p]) \in Packs
      BY PackTyped DEF TypeOK
    <2>2. CASE pass[p] = 2
      <3>1. /\ temp' = [temp EXCEPT ![p] = PackOf(resolved[p])]
            /\ pc' = [pc EXCEPT ![p] = "compare"]
            /\ UNCHANGED <<pack, pass, flow, next, resolver>>
            /\ UNCHANGED <<inputs, configs, counters, strict, alone>>
        BY <1>11, <2>2 DEF BuildPack
      <3>2. temp' \in [Procs -> Packs \cup {NoPack}]
        BY <2>1, <3>1 DEF TypeOK
      <3>3. QED BY <3>1, <3>2 DEF TypeOK, Stages
    <2>3. CASE pass[p] = 1 /\ strict[p]
      <3>1. /\ pack' = PackOf(resolved[p]) /\ pass' = [pass EXCEPT ![p] = 2]
            /\ pc' = [pc EXCEPT ![p] = "read"]
            /\ UNCHANGED <<flow, next, resolver, temp>>
            /\ UNCHANGED <<inputs, configs, counters, strict, alone>>
        BY <1>11, <2>3 DEF BuildPack
      <3>2. QED BY <2>1, <3>1 DEF TypeOK, Stages
    <2>4. CASE pass[p] = 1 /\ ~strict[p]
      <3>1. /\ pack' = PackOf(resolved[p]) /\ Leave(p, "done")
            /\ UNCHANGED <<pass, inputs, configs, counters, strict, alone>>
        BY <1>11, <2>4 DEF BuildPack
      <3>2. QED BY <2>1, <3>1, LeaveTyped DEF TypeOK, Ended
    <2>5. pass[p] \in {1, 2}
      BY DEF TypeOK
    <2>6. QED BY <2>2, <2>3, <2>4, <2>5
  <1>12. ASSUME NEW p \in Procs, Compare(p) \/ Stop(p) PROVE TypeOK'
    <2>1. PICK stage \in Ended :
            /\ Leave(p, stage)
            /\ UNCHANGED <<inputs, outputs, counters, strict, pass, alone>>
      BY <1>12 DEF Compare, Stop, Ended
    <2>2. QED BY <2>1, LeaveTyped DEF TypeOK
  <1>13. CASE UNCHANGED vars
    BY <1>13 DEF vars, TypeOK
  <1>14. QED
    BY <1>1, <1>2, <1>3, <1>4, <1>5, <1>6, <1>7, <1>8, <1>9, <1>10, <1>11,
       <1>12, <1>13
    DEF Next, Step

\* What a shell knows, as one value.
Own(p) == <<pc[p], flow[p], next[p], prepared[p], cache[p], resolved[p],
            invalid[p], temp[p]>>

\* A step of one shell leaves what the others know alone.
LEMMA OthersUnchanged ==
    ASSUME TypeOK, NEW p \in Procs, Begin(p) \/ Step(p) \/ Stop(p),
           NEW q \in Procs, q # p
    PROVE  UNCHANGED Own(q)
  <1> USE DEF Own, Goto, Leave, resolver, outputs, inputs, TypeOK
  <1>1. CASE Begin(p) \/ Stop(p)
    BY <1>1 DEF Begin, Stop
  <1>2. CASE ReadFlow(p) \/ SkipBuiltin(p)
    BY <1>2 DEF ReadFlow, SkipBuiltin
  <1>3. CASE Prepare(p)
    BY <1>3 DEF Prepare, Resolve
  <1>4. CASE ReadManifest(p)
    BY <1>4 DEF ReadManifest, Resolve
  <1>5. CASE NodesResolved(p)
    BY <1>5 DEF NodesResolved
  <1>6. CASE WriteConfig(p) \/ ConfigsWritten(p)
    BY <1>6 DEF WriteConfig, ConfigsWritten
  <1>7. CASE BuildPack(p)
    BY <1>7 DEF BuildPack
  <1>8. CASE Compare(p)
    BY <1>8 DEF Compare
  <1>9. QED BY <1>1, <1>2, <1>3, <1>4, <1>5, <1>6, <1>7, <1>8 DEF Step

\* What it knows decides what the resolver promises.
LEMMA ResolvingKept ==
    ASSUME NEW q \in Procs, Resolving(q), UNCHANGED Own(q)
    PROVE  Resolving(q)'
  <1>1. /\ pc'[q] = pc[q] /\ flow'[q] = flow[q] /\ next'[q] = next[q]
        /\ prepared'[q] = prepared[q] /\ cache'[q] = cache[q]
        /\ resolved'[q] = resolved[q] /\ invalid'[q] = invalid[q]
        /\ temp'[q] = temp[q]
    BY DEF Own
  <1>2. \A name, build : Cached(q, name, build)' = Cached(q, name, build)
    BY <1>1 DEF Cached
  <1>3. Node(q)' = Node(q)
    BY <1>1 DEF Node
  <1>4. QED BY <1>1, <1>2, <1>3 DEF Resolving

\* Leaving, a shell promises nothing any more.
LEMMA ResolvingLeft ==
    ASSUME TypeOK, NEW p \in Procs, NEW stage \in Ended, Leave(p, stage)
    PROVE  Resolving(p)'
  <1>1. pc'[p] \in Ended /\ cache'[p] = {} /\ resolved'[p] = <<>>
    BY DEF Leave, Goto, TypeOK
  <1>2. QED BY <1>1, NothingResolved DEF Resolving, Ended

\* One more node resolved keeps the promises.
LEMMA ResolvingOne ==
    ASSUME TypeOK, NEW p \in Procs, Resolving(p), pc[p] \in {"prepare", "manifest"},
           next[p] <= Len(flow[p]), flow' = flow, pc'[p] = "prepare",
           NEW c \in Components, c.name = Node(p).name, Resolve(p, c),
           c \in cache'[p], cache[p] \subseteq cache'[p], OneOfKey(cache'[p])
    PROVE  Resolving(p)'
  <1> DEFINE s == resolved[p]
             r == [node |-> Node(p), component |-> c]
             n == next[p]
  <1>1. /\ flow[p] \in Flows /\ n \in 1 .. Len(flow[p]) /\ Node(p) = flow[p][n]
        /\ Len(flow[p]) \in Nat /\ r \in ResolvedNodes
    BY NodeTyped DEF Node, ResolvedNodes
  <1>2. s \in Seq(ResolvedNodes)
    BY DEF TypeOK
  <1>3. /\ Len(s) \in Nat /\ Len(Append(s, r)) = Len(s) + 1
        /\ \A i \in 1 .. (Len(s) + 1) :
             Append(s, r)[i] = IF i = Len(s) + 1 THEN r ELSE s[i]
    BY <1>1, <1>2, Appended
  <1>4. /\ resolved'[p] = Append(s, r) /\ next'[p] = n + 1
        /\ invalid'[p] = (invalid[p] \/ Node(p).payload \notin c.build.accepts)
    BY DEF Resolve, TypeOK
  <1>5. r.node = Node(p) /\ r.component = c
    OBVIOUS
  <1> HIDE DEF s, r, n
  <1>6. \A i \in 1 .. (Len(s) + 1) : i = Len(s) + 1 \/ i \in 1 .. Len(s)
    BY <1>3
  <1>7. FromCache(resolved'[p], cache'[p])
    BY <1>3, <1>4, <1>5, <1>6 DEF FromCache, Resolving, s
  <1>8. ~invalid'[p] => Accepted(resolved'[p])
    BY <1>3, <1>4, <1>5, <1>6 DEF Accepted, Resolving, s
  <1>9. \A i \in 1 .. Len(s) : \E k \in 1 .. Len(flow[p]) :
          k < n /\ s[i].node.node = flow[p][k].node
    BY DEF Resolving, s, n
  <1>10. DistinctNodes(resolved'[p])
    <2>1. \A i \in 1 .. Len(s) : s[i].node.node # r.node.node
      BY <1>1, <1>5, <1>9, InputAssumption
    <2>2. DistinctNodes(s)
      BY DEF Resolving, s
    <2>3. QED BY <1>3, <1>4, <1>6, <2>1, <2>2 DEF DistinctNodes
  <1>11. \A i \in 1 .. Len(resolved'[p]) : \E k \in 1 .. Len(flow[p]) :
           k < n + 1 /\ resolved'[p][i].node.node = flow[p][k].node
    <2> SUFFICES ASSUME NEW i \in 1 .. (Len(s) + 1)
                 PROVE  \E k \in 1 .. Len(flow[p]) :
                   k < n + 1 /\ Append(s, r)[i].node.node = flow[p][k].node
      BY <1>3, <1>4
    <2>1. CASE i = Len(s) + 1
      BY <1>1, <1>3, <1>5, <2>1
    <2>2. CASE i \in 1 .. Len(s)
      <3>1. PICK k \in 1 .. Len(flow[p]) : k < n /\ s[i].node.node = flow[p][k].node
        BY <1>9, <2>2
      <3>2. k < n + 1
        BY <1>1, <3>1
      <3>3. Append(s, r)[i] = s[i]
        BY <1>3, <2>2
      <3>4. QED BY <3>1, <3>2, <3>3
    <2>3. QED BY <1>6, <2>1, <2>2
  <1>12. QED BY <1>4, <1>7, <1>8, <1>10, <1>11 DEF Resolving

\* A shell's own steps keep what the resolver promises.
LEMMA ResolvingOwn ==
    ASSUME TypeOK, NEW p \in Procs, Resolving(p), Begin(p) \/ Step(p) \/ Stop(p)
    PROVE  Resolving(p)'
  <1> USE DEF Goto, resolver
  <1>1. CASE Begin(p)
    <2>1. /\ pc'[p] = "read"
          /\ UNCHANGED <<flow, next, prepared, cache, resolved, invalid, temp>>
      BY <1>1 DEF Begin, TypeOK
    <2>2. QED BY <2>1 DEF Resolving
  <1>2. CASE ReadFlow(p)
    <2>1. /\ pc'[p] = "prepare" /\ cache'[p] = {} /\ resolved'[p] = <<>>
      BY <1>2 DEF ReadFlow, TypeOK
    <2>2. QED BY <2>1, NothingResolved DEF Resolving
  <1>3. CASE SkipBuiltin(p)
    <2>1. /\ pc'[p] = "prepare" /\ pc[p] = "prepare" /\ next'[p] = next[p] + 1
          /\ UNCHANGED <<flow, prepared, cache, resolved, invalid, temp>>
          /\ next[p] \in Nat
      BY <1>3 DEF SkipBuiltin, TypeOK
    <2>2. \A i \in 1 .. Len(resolved[p]) : \E k \in 1 .. Len(flow[p]) :
            k < next[p] + 1 /\ resolved[p][i].node.node = flow[p][k].node
      <3>1. \A k \in 1 .. Len(flow[p]) : k < next[p] => k < next[p] + 1
        BY <2>1
      <3>2. QED BY <2>1, <3>1 DEF Resolving
    <2>3. QED BY <2>1, <2>2 DEF Resolving
  <1>4. CASE Prepare(p)
    <2> DEFINE target == ComponentTarget(Node(p).name)
               build == disk[target]
    <2>1. /\ next[p] <= Len(flow[p]) /\ pc[p] = "prepare" /\ build # NoBuild
          /\ UNCHANGED <<flow, temp>>
      BY <1>4 DEF Prepare
    <2>2. CASE Cached(p, Node(p).name, build) # {}
      <3>1. PICK c \in Cached(p, Node(p).name, build) : Resolve(p, c)
        BY <1>4, <2>2 DEF Prepare
      <3>2. UNCHANGED <<pc, prepared, cache>>
        BY <1>4, <2>2 DEF Prepare
      <3>3. c \in cache[p] /\ c.name = Node(p).name /\ c \in Components
        BY DEF Cached, TypeOK
      <3>4. OneOfKey(cache[p])
        BY DEF Resolving
      <3>5. QED BY <2>1, <3>1, <3>2, <3>3, <3>4, ResolvingOne
    <2>3. CASE Cached(p, Node(p).name, build) = {}
      <3>1. /\ prepared' = [prepared EXCEPT ![p] =
                              [dir |-> target, build |-> build]]
            /\ pc' = [pc EXCEPT ![p] = "manifest"]
            /\ UNCHANGED <<next, cache, resolved, invalid>>
        BY <1>4, <2>3 DEF Prepare
      <3>2. Node(p) \in Nodes
        BY <2>1, NodeTyped
      <3>3. target \in Dirs /\ build \in Builds
        BY <2>1, <3>2, TargetTyped DEF Nodes, TypeOK
      <3>4. prepared'[p] \in Prepared /\ prepared'[p].build = build
        BY <3>1, <3>3 DEF Prepared, TypeOK
      <3>5. Cached(p, Node(p).name, build)' = Cached(p, Node(p).name', build')
        BY <3>1 DEF Cached
      <3>6. pc'[p] = "manifest" /\ Node(p)' = Node(p)
        BY <2>1, <3>1 DEF Node, TypeOK
      <3>7. {c \in cache'[p] : c.name = Node(p)'.name
                               /\ c.build.version = prepared'[p].build.version} = {}
        BY <2>3, <3>1, <3>4, <3>6 DEF Cached
      <3> HIDE DEF target, build
      <3>8. QED BY <2>1, <3>1, <3>4, <3>6, <3>7 DEF Resolving, Cached
    <2>4. QED BY <2>2, <2>3
  <1>5. CASE ReadManifest(p)
    <2> DEFINE c == [name |-> Node(p).name, build |-> prepared[p].build,
                     manifest |-> disk[prepared[p].dir]]
    <2>1. /\ pc[p] = "manifest" /\ disk[prepared[p].dir] # NoBuild
          /\ cache' = [cache EXCEPT ![p] = @ \cup {c}] /\ Resolve(p, c)
          /\ pc' = [pc EXCEPT ![p] = "prepare"] /\ flow' = flow
      BY <1>5 DEF ReadManifest
    <2>2. /\ next[p] <= Len(flow[p]) /\ prepared[p] \in Prepared
          /\ Cached(p, Node(p).name, prepared[p].build) = {}
          /\ OneOfKey(cache[p])
      BY <2>1 DEF Resolving
    <2>3. Node(p) \in Nodes
      BY <2>2, NodeTyped
    <2>4. c \in Components
      BY <2>1, <2>2, <2>3 DEF Components, Prepared, Nodes, TypeOK
    <2>5. c.name = Node(p).name /\ c.build = prepared[p].build
      OBVIOUS
    <2> HIDE DEF c
    <2>6. cache'[p] = cache[p] \cup {c} /\ pc'[p] = "prepare"
      BY <2>1 DEF TypeOK
    <2>7. \A d \in cache[p] : ~ (d.name = c.name /\ d.build.version = c.build.version)
      BY <2>2, <2>5 DEF Cached
    <2>8. OneOfKey(cache'[p])
      BY <2>2, <2>6, <2>7 DEF OneOfKey
    <2>9. QED BY <2>1, <2>2, <2>4, <2>5, <2>6, <2>8, ResolvingOne
  <1>6. CASE NodesResolved(p)
    <2>1. CASE invalid[p]
      BY <1>6, <2>1, ResolvingLeft DEF NodesResolved, Ended
    <2>2. CASE ~invalid[p]
      BY <1>6, <2>2 DEF NodesResolved, Resolving, TypeOK
    <2>3. QED BY <2>1, <2>2
  <1>7. CASE WriteConfig(p)
    <2>1. pc[p] = "configs" /\ pc'[p] = "configs"
          /\ UNCHANGED <<flow, prepared, cache, resolved, invalid, temp>>
      BY <1>7 DEF WriteConfig
    <2>2. QED BY <2>1 DEF Resolving
  <1>8. CASE ConfigsWritten(p)
    <2>1. pc[p] = "configs" /\ pc'[p] = "pack"
          /\ UNCHANGED <<flow, prepared, cache, resolved, invalid, temp>>
      BY <1>8 DEF ConfigsWritten, TypeOK
    <2>2. QED BY <2>1 DEF Resolving
  <1>9. CASE BuildPack(p)
    <2>1. CASE pass[p] = 2
      <3>1. /\ pc[p] = "pack" /\ pc'[p] = "compare"
            /\ temp'[p] = PackOf(resolved[p])
            /\ UNCHANGED <<flow, prepared, cache, resolved, invalid>>
        BY <1>9, <2>1 DEF BuildPack, TypeOK
      <3>2. PackOf(resolved[p])' = PackOf(resolved[p])
        BY <3>1
      <3>3. QED BY <3>1 DEF Resolving
    <2>2. CASE pass[p] = 1 /\ strict[p]
      <3>1. /\ pc'[p] = "read"
            /\ UNCHANGED <<flow, prepared, cache, resolved, invalid, temp>>
        BY <1>9, <2>2 DEF BuildPack, TypeOK
      <3>2. QED BY <3>1 DEF Resolving
    <2>3. CASE pass[p] = 1 /\ ~strict[p]
      BY <1>9, <2>3, ResolvingLeft DEF BuildPack, Ended
    <2>4. QED BY <2>1, <2>2, <2>3 DEF TypeOK
  <1>10. CASE Compare(p) \/ Stop(p)
    BY <1>10, ResolvingLeft DEF Compare, Stop, Ended
  <1>11. QED
    BY <1>1, <1>2, <1>3, <1>4, <1>5, <1>6, <1>7, <1>8, <1>9, <1>10 DEF Step

\* Every step keeps what every shell's resolver promises.
LEMMA ResolvingStep ==
    ASSUME TypeOK, \A q \in Procs : Resolving(q), [Next]_vars
    PROVE  \A q \in Procs : Resolving(q)'
  <1> SUFFICES ASSUME NEW q \in Procs PROVE Resolving(q)'
    OBVIOUS
  <1>1. ASSUME NEW p \in Procs, Begin(p) \/ Step(p) \/ Stop(p)
        PROVE  Resolving(q)'
    <2>1. CASE q = p
      BY <1>1, <2>1, ResolvingOwn
    <2>2. CASE q # p
      BY <1>1, <2>2, OthersUnchanged, ResolvingKept
    <2>3. QED BY <2>1, <2>2
  <1>2. CASE Rebuild \/ EditFlow \/ UNCHANGED vars
    <2>1. UNCHANGED Own(q)
      BY <1>2 DEF Rebuild, EditFlow, vars, Own, resolver
    <2>2. QED BY <2>1, ResolvingKept
  <1>3. QED BY <1>1, <1>2 DEF Next

-----------------------------------------------------------------------------
(* The pack and the resolved configurations.                               *)

\* Whatever pack is written is made of accepted nodes.
LEMMA PackStep ==
    ASSUME TypeOK, \A q \in Procs : Resolving(q), PackInv, [Next]_vars
    PROVE  PackInv'
  <1>1. ASSUME NEW p \in Procs, BuildPack(p), pack' # pack PROVE PackInv'
    <2>1. pack' = PackOf(resolved[p]) /\ pc[p] = "pack"
      BY <1>1 DEF BuildPack
    <2>2. /\ OneOfKey(cache[p]) /\ FromCache(resolved[p], cache[p])
          /\ Accepted(resolved[p])
      BY <2>1 DEF Resolving
    <2>3. resolved[p] \in Seq(ResolvedNodes)
      BY DEF TypeOK
    <2>4. QED BY <2>1, <2>2, <2>3, PackServes, PackDefaults DEF PackInv
  <1>2. CASE pack' = pack
    BY <1>2 DEF PackInv, Serving, SameDefaults
  <1>3. QED
    BY <1>1, <1>2
    DEF Next, Step, Begin, Stop, ReadFlow, SkipBuiltin, Prepare, ReadManifest,
        NodesResolved, WriteConfig, ConfigsWritten, Compare, Rebuild, EditFlow,
        vars, outputs

\* The configurations of resolved nodes are those of a pack made of them.
LEMMA ConfigsOfPack ==
    ASSUME NEW nodes,
           \A i \in 1 .. Len(nodes) : configs[nodes[i].node.node] = ConfigOf(nodes[i])
    PROVE  \A n \in PackOf(nodes).nodes :
             configs[n.node] = [id |-> n.id, version |-> n.version,
                                payload |-> n.payload]
  <1> SUFFICES ASSUME NEW n \in PackOf(nodes).nodes
               PROVE  configs[n.node] = [id |-> n.id, version |-> n.version,
                                         payload |-> n.payload]
    OBVIOUS
  <1>1. PICK i \in 1 .. Len(nodes) : From(n, nodes[i])
    BY PackNode
  <1>2. QED BY <1>1 DEF From, ConfigOf

\* A step of the shell that builds alone adds to what it has written.
LEMMA WrittenOwn ==
    ASSUME TypeOK, NEW p \in Procs, Resolving(p), Written(p), alone[p], Step(p) \/ Stop(p)
    PROVE  Written(p)'
  <1> USE DEF Goto, outputs, resolver
  <1>1. \A q \in Procs : q # p => pc[q] \in Ended /\ pc'[q] = pc[q]
    BY OthersUnchanged DEF Own, Written
  <1>2. ASSUME pc'[p] \notin {"configs", "pack", "compare", "done"} PROVE Written(p)'
    BY <1>1, <1>2 DEF Written
  <1>3. CASE ReadFlow(p) \/ SkipBuiltin(p) \/ ReadManifest(p) \/ Stop(p)
    BY <1>2, <1>3 DEF ReadFlow, SkipBuiltin, ReadManifest, Stop, Leave, TypeOK
  <1>4. CASE Prepare(p)
    <2>1. pc'[p] \in {"prepare", "manifest"}
      BY <1>4 DEF Prepare, TypeOK
    <2>2. QED BY <1>2, <2>1
  <1>5. CASE NodesResolved(p)
    <2>1. CASE invalid[p]
      BY <1>2, <1>5, <2>1 DEF NodesResolved, Leave, TypeOK
    <2>2. CASE ~invalid[p]
      <3>1. /\ pc'[p] = "configs" /\ next'[p] = 1 /\ resolved' = resolved
            /\ UNCHANGED configs
        BY <1>5, <2>2 DEF NodesResolved, TypeOK
      <3>2. \A i \in 1 .. Len(resolved[p]) : ~ (i < 1)
        BY DEF TypeOK
      <3>3. QED BY <1>1, <3>1, <3>2 DEF Written
    <2>3. QED BY <2>1, <2>2
  <1>6. CASE WriteConfig(p)
    <2> DEFINE r == resolved[p][next[p]]
    <2>1. /\ next[p] <= Len(resolved[p]) /\ next[p] \in Nat \ {0}
          /\ resolved[p] \in Seq(ResolvedNodes)
          /\ configs' = [configs EXCEPT ![r.node.node] = ConfigOf(r)]
          /\ next'[p] = next[p] + 1 /\ pc[p] = "configs"
          /\ UNCHANGED <<pc, resolved>>
      BY <1>6 DEF WriteConfig, TypeOK
    <2>2. Len(resolved[p]) \in Nat /\ next[p] \in 1 .. Len(resolved[p])
      BY <2>1
    <2>3. \A i \in 1 .. Len(resolved[p]) : resolved[p][i].node.node \in NodeIds
      <3>1. \A i \in 1 .. Len(resolved[p]) : resolved[p][i] \in ResolvedNodes
        BY <2>1
      <3>2. \A x \in ResolvedNodes : x.node.node \in NodeIds
        BY DEF ResolvedNodes, Nodes
      <3>3. QED BY <3>1, <3>2
    <2>4. ASSUME NEW i \in 1 .. Len(resolved[p]), i < next[p] + 1
          PROVE  configs'[resolved[p][i].node.node] = ConfigOf(resolved[p][i])
      <3>1. CASE i = next[p]
        BY <2>1, <2>3, <3>1 DEF TypeOK
      <3>2. CASE i # next[p]
        <4>1. i < next[p]
          BY <2>2, <2>4, <3>2
        <4>2. resolved[p][i].node.node # r.node.node
          BY <2>2, <3>2 DEF Resolving, DistinctNodes
        <4>3. configs[resolved[p][i].node.node] = ConfigOf(resolved[p][i])
          BY <2>1, <4>1 DEF Written
        <4>4. QED BY <2>1, <2>3, <4>2, <4>3 DEF TypeOK
      <3>3. QED BY <3>1, <3>2
    <2>5. QED BY <1>1, <2>1, <2>4 DEF Written
  <1>7. CASE ConfigsWritten(p)
    <2>1. /\ pc[p] = "configs" /\ pc'[p] = "pack" /\ next[p] > Len(resolved[p])
          /\ UNCHANGED <<configs, resolved>>
      BY <1>7 DEF ConfigsWritten, TypeOK
    <2>2. next[p] \in Nat /\ Len(resolved[p]) \in Nat
      BY DEF TypeOK
    <2>3. \A i \in 1 .. Len(resolved[p]) : i < next[p]
      BY <2>1, <2>2
    <2>4. QED BY <1>1, <2>1, <2>3 DEF Written
  <1>8. CASE BuildPack(p)
    <2>1. CASE pass[p] = 2
      <3>1. /\ pc[p] = "pack" /\ pc'[p] = "compare"
            /\ UNCHANGED <<configs, resolved>>
        BY <1>8, <2>1 DEF BuildPack, TypeOK
      <3>2. QED BY <1>1, <3>1 DEF Written
    <2>2. CASE pass[p] = 1 /\ strict[p]
      BY <1>2, <1>8, <2>2 DEF BuildPack, TypeOK
    <2>3. CASE pass[p] = 1 /\ ~strict[p]
      <3>1. /\ pc[p] = "pack" /\ pc'[p] = "done" /\ pack' = PackOf(resolved[p])
            /\ UNCHANGED configs
        BY <1>8, <2>3 DEF BuildPack, Leave, TypeOK
      <3>2. \A n \in PackOf(resolved[p]).nodes :
              configs[n.node] = [id |-> n.id, version |-> n.version,
                                 payload |-> n.payload]
        BY <3>1, ConfigsOfPack DEF Written
      <3>3. QED BY <1>1, <3>1, <3>2 DEF Written
    <2>4. QED BY <2>1, <2>2, <2>3 DEF TypeOK
  <1>9. CASE Compare(p)
    <2>1. CASE pack # temp[p]
      BY <1>2, <1>9, <2>1 DEF Compare, Leave, TypeOK
    <2>2. CASE pack = temp[p]
      <3>1. /\ pc[p] = "compare" /\ pc'[p] = "done" /\ UNCHANGED <<pack, configs>>
        BY <1>9, <2>2 DEF Compare, Leave, TypeOK
      <3>2. pack = PackOf(resolved[p])
        BY <2>2, <3>1 DEF Resolving
      <3>3. \A n \in pack.nodes :
              configs[n.node] = [id |-> n.id, version |-> n.version,
                                 payload |-> n.payload]
        BY <3>1, <3>2, ConfigsOfPack DEF Written
      <3>4. QED BY <1>1, <3>1, <3>3 DEF Written
    <2>3. QED BY <2>1, <2>2
  <1>10. QED
    BY <1>3, <1>4, <1>5, <1>6, <1>7, <1>8, <1>9 DEF Step

\* Every step keeps what shells that build alone have written.
LEMMA WrittenStep ==
    ASSUME TypeOK, \A q \in Procs : Resolving(q), \A q \in Procs : Written(q),
           [Next]_vars
    PROVE  \A q \in Procs : Written(q)'
  <1> SUFFICES ASSUME NEW q \in Procs PROVE Written(q)'
    OBVIOUS
  <1>1. ASSUME NEW p \in Procs, Begin(p) PROVE Written(q)'
    <2>1. alone'[q] = (q = p /\ \A r \in Procs \ {p} : pc[r] \in Ended)
          /\ pc'[p] = "read"
      BY <1>1 DEF Begin, Goto, TypeOK
    <2>2. CASE q # p
      BY <2>1, <2>2 DEF Written
    <2>3. CASE q = p
      <3>1. \A r \in Procs : r # p => pc'[r] = pc[r]
        BY <1>1, OthersUnchanged DEF Own
      <3>2. QED BY <2>1, <2>3, <3>1 DEF Written
    <2>4. QED BY <2>2, <2>3
  <1>2. ASSUME NEW p \in Procs, Step(p) \/ Stop(p) PROVE Written(q)'
    <2>1. alone' = alone /\ pc[p] \notin Ended
      BY <1>2
      DEF Step, Stop, ReadFlow, SkipBuiltin, Prepare, ReadManifest, NodesResolved,
          WriteConfig, ConfigsWritten, BuildPack, Compare, Ended
    <2>2. CASE ~alone[q]
      BY <2>1, <2>2 DEF Written
    <2>3. CASE alone[q]
      <3>1. q = p
        BY <2>1, <2>3 DEF Written
      <3>2. QED BY <1>2, <2>3, <3>1, WrittenOwn
    <2>4. QED BY <2>2, <2>3
  <1>3. CASE Rebuild \/ EditFlow \/ UNCHANGED vars
    <2>1. UNCHANGED <<alone, pc, next, resolved, configs, pack>>
      BY <1>3 DEF Rebuild, EditFlow, vars, outputs, resolver
    <2>2. QED BY <2>1 DEF Written
  <1>4. QED BY <1>1, <1>2, <1>3 DEF Next

-----------------------------------------------------------------------------
(* The theorems.                                                           *)

LEMMA InitIInv == Init => IInv
  <1> SUFFICES ASSUME Init PROVE IInv
    OBVIOUS
  <1>1. TypeOK
    <2>1. resolved \in [Procs -> Seq(ResolvedNodes)]
      BY NothingResolved DEF Init
    <2>2. started \in 0 .. MaxBuilds /\ changes \in 0 .. MaxChanges
          /\ next \in [Procs -> Nat \ {0}]
      BY InputAssumption DEF Init
    <2>3. QED BY <2>1, <2>2 DEF Init, TypeOK, Stages
  <1>2. \A p \in Procs : Resolving(p)
    BY NothingResolved DEF Init, Resolving
  <1>3. \A p \in Procs : Written(p)
    BY DEF Init, Written
  <1>4. PackInv
    BY DEF Init, PackInv
  <1>5. QED BY <1>1, <1>2, <1>3, <1>4 DEF IInv

LEMMA NextIInv == IInv /\ [Next]_vars => IInv'
  <1> SUFFICES ASSUME IInv, [Next]_vars PROVE IInv'
    OBVIOUS
  <1>1. TypeOK' BY TypesStep DEF IInv
  <1>2. \A p \in Procs : Resolving(p)' BY ResolvingStep DEF IInv
  <1>3. \A p \in Procs : Written(p)' BY WrittenStep DEF IInv
  <1>4. PackInv' BY PackStep DEF IInv
  <1>5. QED BY <1>1, <1>2, <1>3, <1>4 DEF IInv

\* What the invariant says of the pack and of the configurations.
LEMMA IInvImplies ==
    IInv => TypeOK /\ PackServesNodes /\ OneDefaultOperation /\ ConfigsMatchPack
  <1> SUFFICES ASSUME IInv
               PROVE  TypeOK /\ PackServesNodes /\ OneDefaultOperation
                      /\ ConfigsMatchPack
    OBVIOUS
  <1>1. PackServesNodes
    BY DEF IInv, PackInv, Serving, PackServesNodes, ServedBy
  <1>2. OneDefaultOperation
    BY DEF IInv, PackInv, SameDefaults, OneDefaultOperation
  <1>3. ConfigsMatchPack
    BY DEF IInv, Written, ConfigsMatchPack
  <1>4. QED BY <1>1, <1>2, <1>3 DEF IInv

LEMMA Invariance == Spec => []IInv
  BY InitIInv, NextIInv, PTL DEF Spec

\* Every variable has its type, whatever is rebuilt meanwhile.
THEOREM TypeCorrect == Spec => []TypeOK
  BY Invariance, IInvImplies, PTL

\* The pack holds what its nodes were validated against (ComponentResolver's
\* cache, collect_component_artifacts).
THEOREM AlwaysServed == Spec => []PackServesNodes
  BY Invariance, IInvImplies, PTL

\* Nodes of one component get one default operation (ensure_node_operations).
THEOREM AlwaysOneDefault == Spec => []OneDefaultOperation
  BY Invariance, IInvImplies, PTL

\* A build that had the workspace to itself leaves the configurations of its
\* pack (write_resolved_configs, verify_determinism).
THEOREM AlwaysMatching == Spec => []ConfigsMatchPack
  BY Invariance, IInvImplies, PTL
=============================================================================
