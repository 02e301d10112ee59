------------------------------ MODULE Authoring ------------------------------
(***************************************************************************)
(* What a developer's commands keep on disk: WorkerStore, ConfigFiles and  *)
(* FlowTranscripts, side by side.  The last two keep their names behind    *)
(* Config! and Flow!.                                                      *)
(***************************************************************************)
EXTENDS WorkerStore

CONSTANTS
    ConfigFileNames, Environments, ConfigKeys, SchemaKeys, Profiles, Settings,
    FileArgs, InitialDisks, Missing, Broken, Failed,
    MaxSettings,                                        \* ConfigFiles
    FlowPaths, Stem, Scalars, Mapping, Components, FlowKeys, Segment,
    Documents, Schemas, BrokenSchemas, Accepts(_, _), Answers, Stub, Failing,
    EmptyFile, Mixed, MaxSecond, MaxRebuilds            \* FlowTranscripts
VARIABLES
    disk, config_commands, config_stage, env, config_path, setting, asked, doc,
    seen, settings, configured, config_disturbed,       \* ConfigFiles
    now, describer, rebuilds, transcripts, flow_stage, flow_path, document,
    plans, nodes, transcript, outcome                   \* FlowTranscripts

Config == INSTANCE ConfigFiles WITH
    Shells <- Clients, Files <- ConfigFileNames, Keys <- ConfigKeys,
    Names <- Profiles, MaxCommands <- MaxSettings,
    commands <- config_commands, stage <- config_stage, path <- config_path,
    disturbed <- config_disturbed

Flow == INSTANCE FlowTranscripts WITH
    Tasks <- Clients, Paths <- FlowPaths, Keys <- FlowKeys,
    Broken <- BrokenSchemas,
    store <- transcripts, stage <- flow_stage, path <- flow_path

-----------------------------------------------------------------------------
\* The type invariants of the three modules.
TypesOK == TypeOK /\ Config!TypeOK /\ Flow!TypeOK
\* ConfigFiles' SetTakesEffect: the next command reads what has been set.
SetTakesEffect == Config!SetTakesEffect
\* ConfigFiles' ProfilesKept: a setting leaves what the commands of every
\* environment resolve for the other profiles, but where its file is created in
\* front of theirs.
ProfilesKept == Config!ProfilesKept
\* FlowTranscripts' OneSchemaPerComponent: a flow's nodes see one description.
OneSchemaPerComponent == Flow!OneSchemaPerComponent
\* FlowTranscripts' TranscriptTells: one true mark on the way to every value.
TranscriptTells == Flow!TranscriptTells
\* FlowTranscripts' TranscriptKept: what was written stays.
TranscriptKept == Flow!TranscriptKept
=============================================================================
