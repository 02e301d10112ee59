--------------------------- MODULE MCTenantInstall ---------------------------
(* Values for model checking TenantInstall.                                *)
EXTENDS TenantInstall, TLC

Tool(id, build, name, entries, ok) ==
    [id |-> id, build |-> build, bin |-> name, entries |-> entries, ok |-> ok]
Doc(path, build, ok) == [path |-> path, build |-> build, ok |-> ok]
Manifest(t, tools, docs_) == [tenant |-> t, tools |-> tools, docs |-> docs_]

MCNames == {"LICENSE", "gen", "exec", "admin", "admin-1", "old"}
MCSimilar == {<<"admin", "admin-1">>} \cup {<<n, n>> : n \in MCNames}

\* An archive with a second binary behind its own, one whose binary carries
\* its version, one whose binary has another name, one without files, one
\* whose checksum is wrong.
Gen(build) == Tool("gen", build, "gen", <<"LICENSE", "gen">>, TRUE)
Exec == Tool("exec", 1, "exec", <<"exec", "gen">>, TRUE)
Admin == Tool("admin", 1, "admin", <<"LICENSE", "admin-1">>, TRUE)
Legacy == Tool("legacy", 1, "exec", <<"old">>, TRUE)
Empty == Tool("empty", 1, "old", <<>>, TRUE)
Forged == Tool("forged", 1, "exec", <<"exec">>, FALSE)
Guide == Doc("guide", 1, TRUE)
Escaping == Doc("guide", 2, FALSE)

-----------------------------------------------------------------------------
(* Two shells, two tenants.                                                *)
MCTools == {Gen(1), Gen(2), Exec, Legacy, Admin, Empty, Forged}
MCDocs == {Guide, Escaping}
MCManifests ==
    {Manifest("acme", <<Gen(1), Exec, Legacy>>, <<Guide>>),
     Manifest("acme", <<Admin, Gen(2)>>, <<Guide, Escaping>>),
     Manifest("globex", <<Exec, Empty>>, <<Guide>>),
     Manifest("globex", <<Gen(2), Forged>>, <<>>)}
\* The shells run the same code.
Symmetry == Permutations(Procs)
=============================================================================
