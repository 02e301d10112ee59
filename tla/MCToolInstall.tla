---------------------------- MODULE MCToolInstall ----------------------------
(* Values for model checking ToolInstall: two tools, of which the second   *)
(* is never published; research builds 1 and 3, plain builds 2 and 4, the  *)
(* last of them also as the research crate's fallback.                     *)
EXTENDS ToolInstall, TLC

MCCatalogue == <<"start", "flow">>
MCVersions == 1..4
MCVersionLane == [v \in MCVersions |-> 1]
MCPublishable == {<<<<"start", "stable">>, v>> : v \in {2, 4}}
                 \cup {<<<<"start", "rnd">>, v>> : v \in {1, 3, 4}}
MCSideLoads == {<<<<"start", "stable">>, v>> : v \in {3}}
\* The shells run the same code.
Symmetry == Permutations(Procs)
=============================================================================
