-------------------------- MODULE ToolchainManifest --------------------------
(***************************************************************************)
(* Toolchain manifests and the pure decisions `greentic-dev release` takes *)
(* about them (release_cmd.rs): which crate a channel pins, which version  *)
(* a resolver returns, which manifest the command assembles, and whether   *)
(* the stable-lane gate lets it through.                                   *)
(*                                                                         *)
(* Versions are those of CrateVersions; the literal pin "latest" is an     *)
(* integer that is not one.  A manifest's packages are a set of pins       *)
(* <<crate, version>>; extension-pack and component references are left    *)
(* out, because no command acts on them.                                   *)
(***************************************************************************)
EXTENDS CrateVersions

CONSTANTS
    Packages,       \* the entries of GREENTIC_TOOLCHAIN_PACKAGES
    ReleaseLane,    \* the (major, minor) line of every tag, as lane_of parses it
    Targets,        \* the platforms release archives are built for
    Tags,           \* the OCI tags: release names and channel tags
    PlainReleases,  \* the tags that parse as plain X.Y.Z
    NoManifest      \* "no manifest": a missing tag, or None in the code

ChannelTags == {"stable", "dev", "rnd", "latest"}
NoTag == ""       \* no `--tag` / no `--release` on the command line
NoChannel == "-"  \* a manifest whose `channel` field is absent
NoLane == 0       \* lane_of returned None: the tag is not a version

Latest == 0       \* the pin "latest"

Crates == Packages \X {"base", "dev"}
Pins == Crates \X (Versions \cup {Latest})
GtcRefs == Tags \X Targets
Manifests == [version : Tags, channel : Tags \cup {NoChannel},
              pins : SUBSET Pins, gtc : SUBSET GtcRefs]

ASSUME TagAssumption ==
    /\ ChannelTags \subseteq Tags
    /\ {NoTag, NoChannel} \cap Tags = {}
    /\ ReleaseLane \in [Tags -> Nat]
    /\ PlainReleases \subseteq Tags \ ChannelTags
ASSUME NoManifestAssumption == NoManifest \notin Manifests

-----------------------------------------------------------------------------
(* The version a channel pins.                                             *)

ChannelOf(from) == IF from \in {"dev", "rnd"} THEN from ELSE "stable"

ResolveFor(vs, channel, lane) ==
    CASE channel = "rnd" -> ResolveResearch(vs)
      [] channel = "dev" /\ lane # NoLane -> ResolveInLane(vs, lane)
      [] OTHER -> ResolveLatest(vs)

-----------------------------------------------------------------------------
(* Assembling a manifest from an optional source and the crate index.      *)

CrateFor(from, package) == <<package, IF from = "dev" THEN "dev" ELSE "base">>

ConcretePins(source, crate) ==
    IF source = NoManifest THEN {}
    ELSE {v \in Versions : <<crate, v>> \in source.pins}

VersionChoices(package, release, from, source, index) ==
    LET crate == CrateFor(from, package)
        kept == ConcretePins(source, crate)
    IN IF kept # {} THEN kept
       ELSE ResolveFor(index[crate], ChannelOf(from), ReleaseLane[release])

GeneratedManifests(release, from, source, index) ==
    LET choices == [p \in Packages |->
                      VersionChoices(p, release, from, source, index)]
        picks == {f \in [Packages -> Versions \cup {Absent}] :
                    \A p \in Packages : f[p] \in choices[p]}
    IN {[version |-> release, channel |-> from, gtc |-> {},
         pins |-> {<<CrateFor(from, p), f[p]>> :
                     p \in {q \in Packages : f[q] # Absent}}] : f \in picks}

\* `snapshot --source github-releases`: in-lane dev builds whose release is
\* complete (release_github_source.rs; which of them, see DevReleaseSource).
GithubManifests(release, complete) ==
    LET picks == {f \in [Packages -> Versions] : \A p \in Packages :
                    /\ VersionLane[f[p]] = ReleaseLane[release]
                    /\ <<CrateFor("dev", p), f[p]>> \in complete}
    IN {[version |-> release, channel |-> "dev", gtc |-> {},
         pins |-> {<<CrateFor("dev", p), f[p]>> : p \in Packages}] : f \in picks}

LatestManifest ==
    [version |-> "latest", channel |-> "latest", gtc |-> {},
     pins |-> {<<CrateFor("dev", p), Latest>> : p \in Packages}]

FileName(m) == <<m.version,
                 IF m.channel = NoChannel THEN "stable" ELSE m.channel>>

-----------------------------------------------------------------------------
(* The stable-lane gate.  `assets` is the set of files attached to GitHub  *)
(* releases, <<pin, target, kind>>; a release that does not exist and one  *)
(* without files look the same to the gate.                                *)

Kinds == {"archive", "sha256"}
Assets == Pins \X Targets \X Kinds

\* mutants: one half of the condition each
StableByChannelOnly(m, tag) == m.channel = "stable"
StableByTagOnly(m, tag) == tag = "stable"
AffectsStable(m, tag) == m.channel = "stable" \/ tag = "stable"

\* mutant: a release without archives passes
EveryArchiveChecksummed(assets, pin) ==
    \A t \in Targets : <<pin, t, "archive">> \in assets =>
        <<pin, t, "sha256">> \in assets
CheckReleaseAssets(assets, pin) ==
    LET archives == {t \in Targets : <<pin, t, "archive">> \in assets}
    IN /\ archives # {}
       /\ \A t \in archives : <<pin, t, "sha256">> \in assets

\* What a user of the pin needs: a target whose archive can be fetched and
\* verified.
Downloadable(assets, pin) ==
    \E t \in Targets : \A k \in Kinds : <<pin, t, k>> \in assets

AllDownloadable(assets, m) == \A pin \in m.pins : Downloadable(assets, pin)

\* gtc's own release is keyed by the manifest's version; its files carry
\* their digest, so a file is usable as soon as it is attached.
\* mutant: the names rebuilt from the version, as consumers used to
GtcNamesRebuilt(version, gtcAssets) == {version} \X Targets
GtcArtifactsFor(version, gtcAssets) ==
    {ref \in gtcAssets : ref[1] = version}

ShouldNotify(release, channel) ==
    channel = "stable" /\ release \in PlainReleases
=============================================================================
