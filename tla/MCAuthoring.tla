------------------------------ MODULE MCAuthoring ------------------------------
(* Values for model checking Authoring.  Its components share no state, so *)
(* a behaviour is one of one component, the others at rest.                *)
EXTENDS Authoring, TLC

CONSTANTS
    old, new,             \* artifacts
    oauth, web, null, set \* scalars
VARIABLE component        \* the one that moves

INSTANCE NestedValues

config_vars ==
    <<disk, config_commands, config_stage, env, config_path, setting, asked,
      doc, seen, settings, configured, config_disturbed>>
flow_vars ==
    <<now, describer, rebuilds, transcripts, flow_stage, flow_path, document,
      plans, nodes, transcript, outcome>>

-----------------------------------------------------------------------------
(* WorkerStore.                                                            *)

MCArtifacts == {old, new}
MCDigests == {"sha of old", "sha of new", "sha of damaged"}
MCSha == [b \in Bytes |-> CASE b = old -> "sha of old"
                            [] b = new -> "sha of new"
                            [] b = Damaged -> "sha of damaged"]
Fixed(S) == CHOOSE x \in S : TRUE
StoreRests == /\ Init /\ describe = Fixed(Versions) /\ artifact = old
              /\ version = [c \in Clients |-> Fixed(Versions)]
              /\ dir = [c \in Clients |-> Fixed(Dirs)]

-----------------------------------------------------------------------------
(* ConfigFiles: a shell without a variable, and one with.                  *)

FileNames == {"named", "xdg", "home"}
Env(variables) == [variables |-> variables, candidates |-> <<"xdg", "home">>]
MCEnvironments == {Env(<<>>), Env(<<"named">>)}

DefaultKey == <<"distributor", "default_profile">>
InlineUrl == <<"distributor", "default_profile", "base_url">>
ToolKey == <<"tools", "greentic-component", "path">>
NestedUrl == <<"distributor", "profiles", "a", "base_url">>
LegacyUrl == <<"distributor", "b", "base_url">>
RootUrl == <<"profiles", "a", "base_url">>
Everything == <<"distributor">>
MCSchemaKeys == {DefaultKey, InlineUrl, ToolKey, NestedUrl, LegacyUrl, RootUrl}
\* A tool, a profile of either table, and a value in the place of a table.
MCSettings == {<<ToolKey, "tool">>, <<NestedUrl, "url1">>, <<LegacyUrl, "url2">>,
               <<Everything, "b">>}
NoFiles == [f \in FileNames |-> Missing]
\* A file at home with root-level profiles; two files, one of them empty, with
\* an inline default; a named file with a legacy table that is the default.
MCInitialDisks ==
    {[NoFiles EXCEPT !["home"] = (RootUrl :> "url1") @@ (ToolKey :> "tool")],
     [NoFiles EXCEPT !["xdg"] = (InlineUrl :> "url1"), !["home"] = <<>>],
     [NoFiles EXCEPT !["named"] = (LegacyUrl :> "url2") @@ (DefaultKey :> "b")]}

MCConfigKeys == MCSchemaKeys \cup {Everything}
MCFileArgs == {None, "home"}
ASSUME Config!FilesAssumption
ConfigRests == /\ disk = NoFiles
               /\ env = [c \in Clients |-> Env(<<>>)]
               /\ config_commands = 0
               /\ config_stage = [c \in Clients |-> "idle"]
               /\ config_path = [c \in Clients |-> None]
               /\ setting = [c \in Clients |-> Config!NoSetting]
               /\ asked = [c \in Clients |-> None]
               /\ doc = [c \in Clients |-> <<>>]
               /\ seen = [c \in Clients |-> None]
               /\ settings = [f \in FileNames |-> <<>>]
               /\ configured = {}
               /\ config_disturbed = {}

-----------------------------------------------------------------------------
(* FlowTranscripts: two flows of one stem, and a registry with a stub for  *)
(* oauth only, as DescribeRegistry::new.                                   *)

MCFlowPaths == {"flow", "same_stem"}
MCStem == [p \in MCFlowPaths |-> "flow"]
MCFlowKeys == {"component", "type", "inputs", "client_id", "scopes",
               "inputs.scopes"}
MCSegment == [k \in MCFlowKeys |->
                IF k = "inputs.scopes" THEN <<"inputs", "scopes">> ELSE <<k>>]
MCScalars == {oauth, web, null, set}
MCComponents == {oauth, web}
MCStub == oauth :> [schema |-> "stub_schema",
                    defaults |-> Flat([component |-> oauth,
                                       inputs |-> [client_id |-> null,
                                                   scopes |-> null]])]
MCSchemas == {"stub_schema", "any", "strict", "broken"}
MCAnswers == {"any", "strict", "broken", Failing}
\* The strict schema wants inputs.
MCAccepts(schema, node) == schema = "strict" => <<"inputs">> \in DOMAIN node

Web(inputs) == [component |-> web, inputs |-> inputs]
NestedDocuments == {
    <<[component |-> oauth, inputs |-> [scopes |-> set]],
      Web([scopes |-> set])>>,            \* one of two defaults, and no default
    <<Web(null), [type |-> web], set>>,   \* one that strict does not accept,
                                          \* and no mapping
    <<[component |-> null, type |-> oauth,
       inputs |-> [scopes |-> null, client_id |-> [scopes |-> set]]],
      [inputs |-> set]>>,                 \* and one without a component
    <<[component |-> oauth, inputs |-> [scopes |-> null, type |-> null]],
      ("component" :> oauth) @@ ("inputs.scopes" :> set)>>}
MCDocuments == {[i \in DOMAIN d |-> Flat(d[i])] : d \in NestedDocuments}

\* Merge, by positions, is the code's recursion: for every two values with
\* two keys and two scalars, up to two levels deep, either level empty or not.
MergeKeys == {"inputs", "scopes"}
MappingsOf(values) == UNION {[K -> values] : K \in SUBSET MergeKeys}
Shallow == {null, set} \cup MappingsOf({null, set})
Deep == {null, set} \cup MappingsOf(Shallow)
ASSUME \A d \in Deep, n \in Deep :
    LET reference == MergeNode(d, n, <<>>)
        own == Flat(n)
        defaults == Flat(d)
    IN  /\ Flow!MergedValue(defaults, own) = Flat(reference.value)
        /\ {<<Flow!Mark(defaults, own, at), at>> : at \in Flow!Met(defaults, own)} =
              reference.log

ASSUME Flow!FlowAssumption
FlowRests == /\ describer = [c \in {oauth, web} |-> "any"]
             /\ flow_path = [c \in Clients |-> "flow"] /\ Flow!Init

-----------------------------------------------------------------------------
MCInit ==
    \/ component = "store" /\ Init /\ ConfigRests /\ FlowRests
    \/ component = "config" /\ Config!Init
       /\ StoreRests /\ FlowRests
    \/ component = "flow" /\ Flow!Init
       /\ StoreRests /\ ConfigRests
MCNext ==
    /\ UNCHANGED component
    /\ \/ /\ component = "store" /\ Next
          /\ UNCHANGED <<config_vars, flow_vars>>
       \/ /\ component = "config" /\ Config!Next
          /\ UNCHANGED <<vars, flow_vars>>
       \/ /\ component = "flow" /\ Flow!Next
          /\ UNCHANGED <<vars, config_vars>>
MCSpec ==
    MCInit
    /\ [][MCNext]_<<component, vars, config_vars, flow_vars>>

Symmetry == Permutations(Clients)
=============================================================================
