---------------------------- MODULE MCWorkspace ----------------------------
(* Values for model checking Workspace.                                    *)
EXTENDS Workspace, TLC

Offer(kind, coordinate, name, version, digest, bytes) ==
    [kind |-> kind, coordinate |-> coordinate, name |-> name,
     version |-> version, digest |-> digest, bytes |-> bytes]
Command(op, name, version) == [op |-> op, name |-> name, version |-> version]

MCNames == {"org/llm", "org-llm", "llm", "tool", "demo", "Demo!"}
MCVersions == {"1.0.0", "^1", "0.0.0", "soon"}
MCSlugOf == [nv \in MCNames \X MCVersions |->
               IF nv[1] \in {"org/llm", "org-llm"} THEN "org-llm" ELSE "other"]
MCDirOf == [n \in MCNames |-> IF n \in {"demo", "Demo!"} THEN "demo" ELSE "other"]

\* A component with a digest that is rebuilt under its version; one without a
\* digest whose version may be none; two packs whose names share a directory,
\* one of which has an entry that leaves it; a coordinate of the wrong kind.
MCOffers ==
    {Offer("component", "org/llm", "llm", "1.0.0", "sha256-a", "a"),
     Offer("component", "org/llm", "llm", "1.0.0", "sha256-b", "b"),
     Offer("component", "org-llm", "tool", "1.0.0", NoDigest, "a"),
     Offer("component", "org-llm", "tool", "soon", NoDigest, "b"),
     Offer("pack", "demo", "demo", "1.0.0", "sha256-p", "p"),
     Offer("pack", "Demo!", "Demo!", "1.0.0", NoDigest, "p"),
     Offer("pack", "Demo!", "Demo!", "1.0.0", "sha256-q", "q"),
     Offer("pack", "org-llm", "tool", "1.0.0", NoDigest, "p")}
MCPackFiles == [b \in {"a", "b", "p", "q"} |->
                  CASE b = "p" -> <<"flow", "doc">>
                    [] b = "q" -> <<"flow", "../up">>
                    [] OTHER -> <<>>]
MCCommands ==
    {Command("add", "org/llm", "^1"), Command("add", "org-llm", "1.0.0"),
     Command("fetch", "org/llm", "1.0.0"), Command("fetch", "org-llm", "1.0.0"),
     Command("init", "demo", "1.0.0"), Command("init", "Demo!", "1.0.0"),
     Command("init", "org/llm", "1.0.0")}

\* The shells run the same code.
Symmetry == Permutations(Procs)
=============================================================================
