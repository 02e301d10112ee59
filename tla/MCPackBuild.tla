---------------------------- MODULE MCPackBuild ----------------------------
(* Values for model checking PackBuild.                                    *)
EXTENDS PackBuild, TLC

Node_(node, kind, name, req, payload, operation) ==
    [node |-> node, kind |-> kind, name |-> name, req |-> req,
     payload |-> payload, operation |-> operation]
Build_(id, version, accepts, operation) ==
    [id |-> id, version |-> version, accepts |-> accepts, operation |-> operation]

\* One component under its id and under the short name of its directory, built
\* twice as version 1, with another schema and another first operation.
MCBuilds == {Build_("org.echo", 1, {"text", "card"}, "echo"),
             Build_("org.echo", 1, {"text"}, "shout"),
             Build_("org.echo", 2, {"card"}, NoOperation)}
MCShortOf == [n \in {"org.echo", "echo"} |-> "echo"]

Start(name, req, payload) == Node_("start", "component", name, req, payload, NoOperation)
\* Two nodes of one component; one component under two names, with a built-in
\* node between them.
MCFlows ==
    {<<Start("org.echo", {1}, "text"),
       Node_("log", "component", "org.echo", {1, 2}, "card", NoOperation)>>,
     <<Start("org.echo", {1, 2}, "card"),
       Node_("call", "builtin", "echo", {}, "text", NoOperation),
       Node_("log", "component.exec", "echo", {1, 2}, "text", "echo")>>}

\* The shells run the same code.
Symmetry == Permutations(Procs)
=============================================================================
