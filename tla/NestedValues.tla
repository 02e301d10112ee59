---------------------------- MODULE NestedValues ----------------------------
(***************************************************************************)
(* YAML values as nested functions from keys to values, and merge_node of  *)
(* dev_runner/transcript.rs as the recursion over them that it is.  It is  *)
(* the reference that FlowTranscripts' Merge, which works on positions, is *)
(* compared with.                                                          *)
(***************************************************************************)
EXTENDS Sequences, FiniteSets

CONSTANTS Scalars, Mapping

IsNested(value) == value \notin Scalars

\* A nested value by its positions.
RECURSIVE Flat(_)
Flat(value) ==
    IF ~IsNested(value) THEN [at \in {<<>>} |-> value]
    ELSE LET below == [k \in DOMAIN value |-> Flat(value[k])]
             ways == UNION {{<<k, at>> : at \in DOMAIN below[k]} : k \in DOMAIN value}
         IN [at \in {<<>>} \cup {<<w[1]>> \o w[2] : w \in ways} |->
                IF at = <<>> THEN Mapping ELSE below[Head(at)][Tail(at)]]

\* What is logged at a position; nothing at the root.
Logged(mark, at) == IF at = <<>> THEN {} ELSE {<<mark, at>>}
\* The merged value and the marks of its positions.
RECURSIVE MergeNode(_, _, _)
MergeNode(defaults, overrides, at) ==
    IF IsNested(defaults) /\ IsNested(overrides)
    THEN LET both == DOMAIN defaults \cap DOMAIN overrides
             merged == [k \in both |->
                          MergeNode(defaults[k], overrides[k], Append(at, k))]
         IN  [value |-> [k \in DOMAIN defaults \cup DOMAIN overrides |->
                           CASE k \in both -> merged[k].value
                             [] k \in DOMAIN defaults \ both -> defaults[k]
                             [] OTHER -> overrides[k]],
              log |-> UNION {merged[k].log : k \in both}
                      \cup UNION {Logged("default", Append(at, k)) :
                                    k \in DOMAIN defaults \ both}
                      \cup UNION {Logged("override", Append(at, k)) :
                                    k \in DOMAIN overrides \ both}]
    ELSE [value |-> overrides,
          log |-> Logged(IF defaults = overrides THEN "default" ELSE "override", at)]
=============================================================================
