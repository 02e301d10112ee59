----------------------------- MODULE ConfigFiles -----------------------------
(***************************************************************************)
(* The configuration files: `config set` (cmd/config.rs) changes one key   *)
(* of one file, and every command that needs a tool's path or a            *)
(* distributor profile looks for a file and reads it (config.rs,           *)
(* distributor.rs, delegate/component.rs).  No lock is taken and fs::write *)
(* truncates a file before it fills it; an empty file is a configuration   *)
(* that says nothing.                                                      *)
(***************************************************************************)
EXTENDS Naturals, SequencesExt

CONSTANTS
    Shells, Files,
    Environments, \* [variables, candidates : Seq(Files)]: the files that the
                  \* three variables name, and the ones to look for otherwise
    Keys,         \* sequences of segments
    SchemaKeys,   \* the keys that may hold a string
    Names,        \* distributor profiles
    Settings,     \* <<key, value>>: what is set
    FileArgs,     \* what --file may name
    InitialDisks, \* files as somebody wrote them
    Missing, Broken, Failed, None,
    MaxCommands   \* bound: commands started in a behaviour

VARIABLES
    disk,         \* file -> Missing, Broken or a document
    commands,     \* commands started so far
    stage,        \* where each shell is
    env, path,    \* its environment, and the file it works on
    setting,      \* what its `config set` sets
    asked,        \* the profile its load asks for
    doc,          \* the document it writes
    seen,         \* what its last load saw
    settings,     \* history: file -> the document with every reported setting
    configured,   \* history: the files there were, or that a setting was
                  \* reported of
    disturbed     \* history: files in which one `config set` was interrupted
                  \* while it wrote, or read while another one wrote

history == <<settings, configured, disturbed>>
vars == <<disk, commands, stage, env, path, setting, asked, doc, seen, history>>

Values == {kv[2] : kv \in Settings}
\* A document: its values by key.  A value has nothing below it.
IsDocument(d) ==
    /\ DOMAIN d \subseteq Keys /\ d \in [DOMAIN d -> Values]
    /\ \A j, k \in DOMAIN d : ~IsStrictPrefix(j, k)
Empty == <<>>
NoSetting == <<<<>>, None>>
With(d, K) == [k \in DOMAIN d \cap K |-> d[k]]

-----------------------------------------------------------------------------
(* What the constants satisfy: a string cannot stand where the table of a  *)
(* profile is.                                                             *)

Nested(n) == <<"distributor", "profiles", n>>
Legacy(n) == <<"distributor", n>>
Root(n) == <<"profiles", n>>
FilesAssumption ==
    /\ \A e \in Environments :
         e.variables \in Seq(Files) /\ e.candidates \in Seq(Files)
    /\ Keys \subseteq Seq(STRING) /\ SchemaKeys \subseteq Keys
    /\ \A n \in Names : \A table \in {Nested(n), Legacy(n), Root(n)} :
         table \in Seq(STRING) /\ \A k \in SchemaKeys : ~IsPrefix(k, table)
    /\ {Missing, Broken} \cap UNION {[K -> Values] : K \in SUBSET Keys} = {}
    /\ Missing # Broken /\ None \notin Files \cup Names
    /\ FileArgs \subseteq Files \cup {None}
    /\ \A kv \in Settings : kv[1] \in Keys /\ kv[1] # <<>>
    /\ \A d \in InitialDisks : /\ DOMAIN d = Files
                               /\ \A f \in Files : d[f] = Missing \/ IsDocument(d[f])
    /\ MaxCommands \in Nat

-----------------------------------------------------------------------------
(* Which file is read, and which is written.                               *)

FirstExisting(files, d) ==
    LET there == {i \in DOMAIN files : d[files[i]] # Missing}
    IN IF there = {} THEN None
       ELSE files[CHOOSE i \in there : \A j \in there : i <= j]
\* The first variable that is set decides, whether its file is there or not.
Selected(e, d) ==
    IF e.variables # <<>> THEN Head(e.variables)
    ELSE FirstExisting(e.candidates, d)
\* mutant: the file that was there last.
ConfigPathLast(e) ==
    IF e.variables # <<>> THEN Head(e.variables)
    ELSE IF e.candidates # <<>> THEN e.candidates[Len(e.candidates)] ELSE None
ConfigPath(e) ==
    IF e.variables # <<>> THEN Head(e.variables)
    ELSE IF e.candidates # <<>> THEN Head(e.candidates) ELSE None

-----------------------------------------------------------------------------
(* What a document says.                                                   *)

\* A table, a list or a number cannot be read from a string: the whole file
\* is refused.
Parses(d) == d \notin {Missing, Broken} /\ DOMAIN d \subseteq SchemaKeys
Table(d, prefix) ==
    LET below == {k \in DOMAIN d : IsStrictPrefix(prefix, k)}
    IN [field \in {SubSeq(k, Len(prefix) + 1, Len(k)) : k \in below} |->
            d[prefix \o field]]
There(d, prefix) == \E k \in DOMAIN d : IsStrictPrefix(prefix, k)

\* mutant: the legacy tables are read only without the others.
ProfilesApart(d) ==
    LET nested == {n \in Names : There(d, Nested(n))}
        legacy == {n \in Names : There(d, Legacy(n))}
        root == {n \in Names : There(d, Root(n))}
    IN IF nested # {} THEN [n \in nested |-> Table(d, Nested(n))]
       ELSE IF legacy # {} THEN [n \in legacy |-> Table(d, Legacy(n))]
       ELSE [n \in root |-> Table(d, Root(n))]
\* A legacy table counts unless there is a profile of its name; the tables at
\* the root only when there is no other profile.
DistributorProfiles(d) ==
    LET nested == {n \in Names : There(d, Nested(n))}
        legacy == {n \in Names : There(d, Legacy(n))}
        root == {n \in Names : There(d, Root(n))}
    IN IF nested \cup legacy = {}
       THEN [n \in root |-> Table(d, Root(n))]
       ELSE [n \in nested \cup legacy |->
                 Table(d, IF n \in nested THEN Nested(n) ELSE Legacy(n))]

DefaultProfile == <<"distributor", "default_profile">>
\* --profile or GREENTIC_DISTRIBUTOR_PROFILE, the default, or `default`.
SelectProfile(wanted, d) ==
    IF wanted # None THEN wanted
    ELSE IF DefaultProfile \in DOMAIN d THEN d[DefaultProfile]
    ELSE "default"
\* The default may also be a table: it is the profile.
ResolveProfile(wanted, d) ==
    IF wanted = None /\ There(d, DefaultProfile) THEN Table(d, DefaultProfile)
    ELSE LET name == SelectProfile(wanted, d)
         IN IF name \in DOMAIN DistributorProfiles(d)
            THEN DistributorProfiles(d)[name] ELSE None
ToolPath == <<"tools", "greentic-component", "path">>
\* The configured program, or the one on the PATH.
Program(d) == IF ToolPath \in DOMAIN d THEN d[ToolPath] ELSE None
Seen(wanted, d) ==
    [program |-> Program(d), profile |-> ResolveProfile(wanted, d)]

-----------------------------------------------------------------------------
Init ==
    /\ disk \in InitialDisks
    /\ stage = [s \in Shells |-> "idle"]
    /\ commands = 0
    /\ env \in [Shells -> Environments]
    /\ path = [s \in Shells |-> None]
    /\ setting = [s \in Shells |-> NoSetting]
    /\ asked = [s \in Shells |-> None]
    /\ doc = [s \in Shells |-> Empty]
    /\ seen = [s \in Shells |-> None]
    /\ settings = [f \in Files |-> IF disk[f] = Missing THEN Empty ELSE disk[f]]
    /\ configured = {f \in Files : disk[f] # Missing}
    /\ disturbed = {}

Goto(s, where) == stage' = [stage EXCEPT ![s] = where]
Begin(s) ==
    /\ stage[s] = "idle" /\ commands < MaxCommands
    /\ commands' = commands + 1
    /\ UNCHANGED <<disk, env, doc, history>>
End(s) ==
    /\ Goto(s, "idle")
    /\ path' = [path EXCEPT ![s] = None]
    /\ setting' = [setting EXCEPT ![s] = NoSetting]
    /\ asked' = [asked EXCEPT ![s] = None]
    /\ doc' = [doc EXCEPT ![s] = Empty]
    /\ UNCHANGED <<commands, env>>
Writing(s) == stage[s] \in {"truncate", "fill"}

\* config set, with or without --file.
BeginSet(s, kv, file) ==
    /\ Begin(s)
    /\ LET p == IF file = None THEN ConfigPath(env[s]) ELSE file
       IN p # None /\ path' = [path EXCEPT ![s] = p]
    /\ setting' = [setting EXCEPT ![s] = kv]
    /\ Goto(s, "read")
    /\ UNCHANGED <<asked, seen>>
\* mutant: a value in the place of a table is no error.
AppliesAlways(d, key) == TRUE
\* A value in the place of a table ends the command; a table in the place of
\* the value is replaced with all that is below it.
Applies(d, key) == \A k \in DOMAIN d : ~IsStrictPrefix(k, key)
Apply(d, kv) ==
    [k \in {j \in DOMAIN d : ~IsPrefix(kv[1], j)} \cup {kv[1]} |->
         IF k = kv[1] THEN kv[2] ELSE d[k]]
Document(f) == IF disk[f] = Missing THEN Empty ELSE disk[f]
ReadDocument(s) ==
    /\ stage[s] = "read"
    /\ disk[path[s]] # Broken
    /\ Applies(Document(path[s]), setting[s][1])
    /\ doc' = [doc EXCEPT ![s] = Apply(Document(path[s]), setting[s])]
    /\ disturbed' = disturbed \cup
         {path[t] : t \in {u \in Shells : Writing(u) /\ path[u] = path[s]}}
    /\ Goto(s, "truncate")
    /\ UNCHANGED <<disk, commands, env, path, setting, asked, seen, settings,
                   configured>>
Truncate(s) ==
    /\ stage[s] = "truncate"
    /\ disk' = [disk EXCEPT ![path[s]] = Empty]
    /\ Goto(s, "fill")
    /\ UNCHANGED <<commands, env, path, setting, asked, doc, seen, history>>
\* Over what another shell wrote in the meantime: the tail of a longer
\* document stays.
Filled(old, new) ==
    IF old = Empty THEN {new}
    ELSE IF old = Broken THEN {new, Broken}
    ELSE {new, Broken} \cup
         {d \in {new @@ With(old, K) : K \in SUBSET DOMAIN old} : IsDocument(d)}
Fill(s) ==
    /\ stage[s] = "fill"
    /\ \E d \in Filled(disk[path[s]], doc[s]) :
           disk' = [disk EXCEPT ![path[s]] = d]
    /\ settings' = [settings EXCEPT ![path[s]] = Apply(@, setting[s])]
    /\ configured' = configured \cup {path[s]}
    /\ End(s)
    /\ UNCHANGED <<seen, disturbed>>

\* Killed or out of space in the middle: nothing of the document is there, or
\* some of it.
Interrupt(s) ==
    /\ stage[s] = "fill"
    /\ \E d \in {disk[path[s]], Broken} \cup
                {With(doc[s], K) : K \in SUBSET DOMAIN doc[s]} :
           disk' = [disk EXCEPT ![path[s]] = d]
    /\ disturbed' = disturbed \cup {path[s]}
    /\ End(s)
    /\ UNCHANGED <<seen, settings, configured>>
\* An error or a kill before that.
Stop(s) ==
    /\ stage[s] \notin {"idle", "fill"}
    /\ End(s)
    /\ UNCHANGED <<disk, seen, history>>

\* A command that needs the configuration, with --profile or its variable.
SelectConfig(s, name) ==
    /\ Begin(s)
    /\ path' = [path EXCEPT ![s] = Selected(env[s], disk)]
    /\ asked' = [asked EXCEPT ![s] = name]
    /\ seen' = [seen EXCEPT ![s] = None]
    /\ Goto(s, "load")
    /\ UNCHANGED setting
ReadConfig(s) ==
    /\ stage[s] = "load"
    /\ seen' = [seen EXCEPT ![s] =
                    IF path[s] = None THEN Seen(asked[s], Empty)
                    ELSE IF Parses(disk[path[s]]) THEN Seen(asked[s], disk[path[s]])
                    ELSE Failed]
    /\ End(s)
    /\ UNCHANGED <<disk, history>>

Next == \E s \in Shells :
    \/ \E kv \in Settings, f \in FileArgs : BeginSet(s, kv, f)
    \/ ReadDocument(s) \/ Truncate(s) \/ Fill(s) \/ Interrupt(s) \/ Stop(s)
    \/ \E name \in Names \cup {None} : SelectConfig(s, name)
    \/ ReadConfig(s)
Spec == Init /\ [][Next]_vars

-----------------------------------------------------------------------------
(* Properties.                                                             *)

Stages == {"idle", "read", "truncate", "fill", "load"}
\* A file that can be read has no value below another one, and what a load saw
\* is a program and a profile.
TypeOK ==
    /\ \A f \in Files : disk[f] \in {Missing, Broken} \/ IsDocument(disk[f])
    /\ stage \in [Shells -> Stages]
    /\ commands \in 0 .. MaxCommands
    /\ env \in [Shells -> Environments]
    /\ path \in [Shells -> Files \cup {None}]
    /\ setting \in [Shells -> Settings \cup {NoSetting}]
    /\ asked \in [Shells -> Names \cup {None}]
    /\ \A s \in Shells :
        /\ IsDocument(doc[s])
        /\ seen[s] \in {None, Failed} \/ seen[s].program \in Values \cup {None}
    /\ configured \subseteq Files /\ disturbed \subseteq Files

Reports(s) == stage[s] = "fill" /\ stage'[s] = "idle" /\ path[s] \notin disturbed'

\* What is set without --file is what the next command in that environment
\* reads: config_path and resolve_config_path agree on the file, which then
\* has the new value next to all the others.
SetTakesEffect == [][\A s \in Shells :
    Reports(s) /\ path[s] = ConfigPath(env[s]) =>
        /\ Selected(env[s], disk') = path[s]
        /\ disk'[path[s]] = Apply(settings[path[s]], setting[s])]_vars

\* What the commands of an environment read before a setting, as far as it was
\* reported.
Known == [f \in Files |-> IF f \in configured THEN Empty ELSE Missing]
ReadBefore(e) == Selected(e, Known)
DocumentBefore(e) ==
    IF ReadBefore(e) = None THEN Empty ELSE settings[ReadBefore(e)]
\* The file is created in front of the one that the environment has read.
Shadows(f, e) == f \notin configured /\ ReadBefore(e) \notin {None, f}

\* A setting is about something else than the tables of a profile; with no
\* table of its name but at the root, no other profile may appear either.
AboutProfile(key, n) == \E t \in {Nested(n), Legacy(n), Root(n)} :
                            IsPrefix(t, key) \/ IsPrefix(key, t)
RootOnly(d, n) == ~There(d, Nested(n)) /\ ~There(d, Legacy(n))

\* "Legacy `[distributor.<name>]` tables continue to work; they are merged with
\* `distributor.profiles` when present" (docs/distributor.md): what the commands
\* of an environment resolve for the name of a profile stays as it was when a
\* setting about something else is written to the file they read, be it changed
\* or created.  There is one way to lose it: `config set` creates the first
\* candidate in front of the file that was read so far (config_path takes the
\* first candidate, resolve_config_path the first that exists).
ProfilesKept == [][\A s \in Shells : Reports(s) /\ setting[s][1] \in SchemaKeys =>
    \A e \in Environments, n \in Names :
      LET before == DocumentBefore(e)
          after == disk'[path[s]]
      IN /\ Selected(e, disk') = path[s]
         /\ ~Shadows(path[s], e)
         /\ ~AboutProfile(setting[s][1], n)
         /\ RootOnly(before, n) => \A m \in Names : RootOnly(after, m)
         => ResolveProfile(n, after) = ResolveProfile(n, before)]_vars

=============================================================================
