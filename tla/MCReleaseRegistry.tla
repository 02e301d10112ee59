-------------------------- MODULE MCReleaseRegistry --------------------------
(* Values for model checking ReleaseRegistry.                              *)
EXTENDS ReleaseRegistry

MCTags == {"stable", "dev", "rnd", "latest", "rc", "1.0.0", "1.0.1"}
MCPlainReleases == {"1.0.0", "1.0.1"}
MCVersionLane == [v \in Versions |-> IF v = 3 THEN 2 ELSE 1]
MCReleaseLane == [t \in Tags |-> IF t \in MCPlainReleases THEN 1 ELSE NoLane]

Cmd(op, release, from, tag) ==
    [op |-> op, release |-> release, from |-> from, tag |-> tag,
     force |-> FALSE, dry |-> FALSE, notify |-> TRUE, token |-> TRUE]
Forced(c) == [c EXCEPT !.force = TRUE]
Dry(c) == [c EXCEPT !.dry = TRUE]
Anonymous(c) == [c EXCEPT !.token = FALSE]
Quiet(c) == [c EXCEPT !.notify = FALSE]

Base(p) == <<p, "base">>
DevCrate(p) == <<p, "dev">>
Files(crate, vs) == {<<<<crate, v>>, t, k>> : v \in vs, t \in Targets, k \in Kinds}

-----------------------------------------------------------------------------
(* One engineer, one command after another, no --force: two packages, the  *)
(* second published and built later than the first.                        *)
SeqPackages == {"flow", "pack"}
SeqVersions == {1, 2}
SeqCommands ==
    {Cmd("publish", "1.0.0", "stable", "stable"),
     Quiet(Cmd("publish", "1.0.0", "latest", NoTag)),
     Cmd("publish_file", NoTag, "latest", "stable"),
     Cmd("snapshot", "1.0.1", "stable", "stable"),
     Cmd("snapshot", "1.0.1", "stable", NoTag),
     Dry(Cmd("snapshot", "1.0.1", "stable", "stable")),
     Cmd("promote", "1.0.0", "latest", "stable"),
     Anonymous(Cmd("generate", "1.0.1", "latest", NoTag))}
SeqPublishable == {Base("flow"), Base("pack")} \X {1}
SeqBuildable == Files(Base("flow"), {1}) \cup Files(Base("pack"), {1})
SeqGtc == {<<"1.0.1", t>> : t \in Targets}

-----------------------------------------------------------------------------
(* Two processes, --force, promotes and a generate from `stable` at any    *)
(* time: one package with two versions.                                    *)
ConPackages == {"flow"}
ConCommands ==
    {Forced(Cmd("publish", "1.0.0", "latest", NoTag)),
     Forced(Cmd("snapshot", "1.0.0", "stable", "stable")),
     Cmd("publish_file", "1.0.1", "latest", "rc"),
     Cmd("promote", "1.0.0", "latest", "stable"),
     Cmd("generate", "1.0.1", "stable", NoTag)}
ConPublishable == {Base("flow")} \X {1, 2}
\* the linux files arrive one by one; the mac archive has no checksum
ConBuildable == Files(Base("flow"), {1}) \ {<<<<Base("flow"), 1>>, "mac", "sha256">>}
ConGtc == {}

-----------------------------------------------------------------------------
(* Every channel and every option, one process, two commands.              *)
OptVersions == {1, 2, 3}
OptFlags(c) == {c, Dry(c), Anonymous(c), Forced(Quiet(c))}
OptCommands ==
    UNION {OptFlags(c) : c \in
      {Cmd("publish", "1.0.0", "dev", "dev"),
       Cmd("publish_file", NoTag, "latest", "rnd"),
       Cmd("snapshot", "1.0.0", "dev", "dev"),
       Cmd("snapshot_github", "1.0.1", "dev", "dev"),
       Cmd("snapshot", "1.0.1", "rnd", "rnd"),
       Cmd("promote", "1.0.0", "latest", "rnd"),
       Cmd("generate", "1.0.0", "dev", NoTag),
       Cmd("latest", "latest", "latest", NoTag)}}
OptPublishable == {<<DevCrate("flow"), 1>>, <<DevCrate("flow"), 3>>,
                   <<Base("flow"), 3>>}
OptBuildable == Files(DevCrate("flow"), {1})
OptGtc == {<<"1.0.0", t>> : t \in Targets}
OptFiles == {[version |-> "1.0.0", channel |-> NoChannel, gtc |-> {},
              pins |-> {<<Base("flow"), 1>>}]}

-----------------------------------------------------------------------------
(* A promote while the release it promotes is published again.             *)
RacePublishable == {Base("flow")} \X {1, 2}
RaceBuildable == Files(Base("flow"), {1})
RaceGtc == {}
RaceCommands == {Forced(Cmd("publish", "1.0.0", "latest", NoTag)),
                 Cmd("promote", "1.0.0", "latest", "stable")}
=============================================================================
