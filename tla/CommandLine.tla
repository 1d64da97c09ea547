------------------------------ MODULE CommandLine ------------------------------
(***************************************************************************)
(* The commands of __main__.py and cli/handlers.py, one after another over *)
(* one directory of JSON files and one of Robot files: converting a file,  *)
(* several files or a directory, applying suggestions first, and fetching  *)
(* from an API before any of these (core/converter.py,                     *)
(* utils/file_operations.py).  Any file operation may fail, a command may  *)
(* die at any step, and the user edits the JSON files meanwhile.           *)
(*                                                                         *)
(* Conversion is a function of the JSON content: a Robot file is named by  *)
(* the content it was made from.  The payload is saved under one name, as  *)
(* it is within a second.                                                  *)
(***************************************************************************)
EXTENDS Integers, Sequences, FiniteSets, SequencesExt

CONSTANTS
    UserFiles,   \* JSON files of the user
    Payload,     \* file of a fetched payload
    ImprovedOf,  \* [Improvable -> file that --apply-suggestions writes beside it]
    Meta,        \* its .meta.json
    Stem,        \* [JsonFiles -> stem, which names its Robot file]
    NamedFiles,  \* JSON files that a command is given by name
    OutputNames, \* outputs that a command for one file is given
    MaxCommands, \* bound: commands
    MaxSaves     \* bound: contents the user saves or a server sends

Improvable == UserFiles \cup {Payload}
Fetched == {Payload, Meta, ImprovedOf[Payload]}
JsonFiles == UserFiles \cup {ImprovedOf[f] : f \in Improvable} \cup {Payload, Meta}
Stems == {Stem[f] : f \in JsonFiles}

ASSUME CommandAssumption ==
    /\ IsFiniteSet(UserFiles) /\ Improvable \subseteq DOMAIN ImprovedOf
    /\ JsonFiles \subseteq DOMAIN Stem
    /\ NamedFiles \subseteq JsonFiles /\ OutputNames \subseteq Stems
    /\ UserFiles \cap ({ImprovedOf[f] : f \in Improvable} \cup {Payload, Meta}) = {}
    /\ Payload # Meta
    /\ {MaxCommands, MaxSaves} \subseteq Nat

\* A content with test cases, as saved or with suggestions applied; JSON without
\* test cases (an empty array, metadata); no JSON; no file.
Cases(n, improved) == [save |-> n, improved |-> improved]
NoCases == Cases(0, FALSE)
Broken == Cases(-1, FALSE)
NoFile == Cases(-2, FALSE)
Contents == [save : -2..MaxSaves, improved : BOOLEAN]
Convertible(content) == content.save > 0

VARIABLES
    json,     \* [JsonFiles -> content]
    robot,    \* [Stems -> content converted, Broken when half written]
    bakFile,  \* [Improvable -> content of its .bak]
    temp,     \* the temporary JSON file of --apply-suggestions
    command,  \* the running command
    exit,     \* how the last one ended: none yet, ok, error, died
    commands, \* commands begun
    saves,    \* contents so far
    atStart,  \* history: robot when the command began
    made,     \* history: [Stems -> content converted last for it, or NoFile]
    own       \* history: the JSON file this command has written to convert it, if any

commandVars == <<json, robot, bakFile, temp, command, exit, commands, saves, atStart, made, own>>
history == <<atStart, made, own>>

\* A command before its first step: what it is to do, with which files and output.
Job(at, todo, out) ==
    [at |-> at, after |-> "rest", todo |-> todo, out |-> out, content |-> NoFile]
NoCommand == Job("rest", <<>>, {})

CommandTypeOK ==
    /\ json \in [JsonFiles -> Contents]
    /\ robot \in [Stems -> Contents] /\ atStart \in [Stems -> Contents]
    /\ made \in [Stems -> Contents]
    /\ bakFile \in [Improvable -> Contents]
    /\ temp \in Contents /\ own \in SUBSET JsonFiles
    /\ command.at \in {"rest", "list", "load", "open", "write", "suggest",
                       "openImproved", "writeImproved", "backup", "temp", "fetch",
                       "openPayload", "writePayload", "meta"}
    /\ command.after \in {"rest", "list", "load", "suggest"}  \* what follows a fetch
    /\ command.todo \in Seq(JsonFiles)
    /\ command.out \subseteq Stems  \* an output file given, or {} for a directory
    /\ command.content \in Contents
    /\ exit \in {"none", "ok", "error", "died"}
    /\ commands \in 0..MaxCommands /\ saves \in 0..MaxSaves

CommandInit ==
    /\ json = [f \in JsonFiles |-> NoFile]
    /\ robot = [s \in Stems |-> NoFile] /\ atStart = robot /\ made = robot
    /\ bakFile = [f \in Improvable |-> NoFile]
    /\ temp = NoFile /\ own = {}
    /\ command = NoCommand /\ exit = "none"
    /\ commands = 0 /\ saves = 0

-----------------------------------------------------------------------------
(* Helpers *)

Stage(where) == command.at = where
Into(where) == command' = [command EXCEPT !.at = where]
Output == IF command.out = {} THEN Stem[Head(command.todo)] ELSE CHOOSE s \in command.out : TRUE
Present == {f \in JsonFiles : json[f] # NoFile}

Starts(job) ==
    /\ Stage("rest") /\ commands < MaxCommands
    /\ commands' = commands + 1
    /\ command' = job
    /\ exit' = "none"
    /\ atStart' = robot /\ made' = [s \in Stems |-> NoFile] /\ own' = {}
    /\ UNCHANGED <<json, robot, bakFile, temp, saves>>

\* The temporary file is forgotten: the finally clause removes it, a process that
\* dies leaves it where nobody reads it.
Exits(how) ==
    /\ command' = NoCommand
    /\ exit' = how
    /\ temp' = NoFile

\* What is to be converted: the file, or the temporary file with suggestions.
Input == IF temp # NoFile THEN temp ELSE json[Head(command.todo)]

-----------------------------------------------------------------------------
(* Commands *)

\* handle_positional_args and --files of one file: a name for the output.
OneFile == {Job("load", <<f>>, {s}) : f \in NamedFiles, s \in OutputNames}
WithSuggestions == {Job("suggest", <<f>>, {s}) : f \in Improvable, s \in OutputNames}

\* --files of several, a wildcard, --directory: to a directory.
SeveralFiles == {Job("load", <<f, g>>, {}) : f, g \in NamedFiles}
WholeDirectory == Job("list", <<>>, {})

Conversions == OneFile \cup WithSuggestions \cup SeveralFiles \cup {WholeDirectory}

ConvertFile == \E job \in OneFile : Starts(job)
ApplySuggestions == \E job \in WithSuggestions : Starts(job)
ConvertFiles == \E job \in SeveralFiles : Starts(job)
ConvertDirectory == Starts(WholeDirectory)

\* --fetch-format: the payload is saved first.  It is then the input, unless --files
\* or --directory name others; without an output or one of these it is only saved.
Fetch ==
    \E job \in {NoCommand} \cup Conversions : Starts([job EXCEPT !.at = "fetch", !.after = job.at])

-----------------------------------------------------------------------------
(* convert_directory, convert_multiple_files and convert_file *)

\* Every JSON file of the directory, in the order of the file system: all that are
\* there, or without what a fetch saves elsewhere.
ListDirectory ==
    /\ Stage("list")
    /\ \E shown \in {Present, Present \ Fetched} :
          IF shown = {}
             THEN Exits("error")
             ELSE /\ \E order \in SetToSeqs(shown) :
                        command' = [command EXCEPT !.at = "load", !.todo = order]
                  /\ UNCHANGED <<temp, exit>>
    /\ UNCHANGED <<json, robot, bakFile, commands, saves, history>>

\* load_json_file and the conversion, both before the output is opened.
LoadInput ==
    /\ Stage("load")
    /\ Convertible(Input)
    /\ command' = [command EXCEPT !.at = "open", !.content = Input]
    /\ UNCHANGED <<json, robot, bakFile, temp, exit, commands, saves, history>>

\* No such file, no JSON, no test cases: the command ends, files to come are left.
InputFails ==
    /\ Stage("load")
    /\ ~Convertible(Input)
    /\ Exits("error")
    /\ UNCHANGED <<json, robot, bakFile, commands, saves, history>>

\* save_robot_file
OpenOutput ==
    /\ Stage("open")
    /\ robot' = [robot EXCEPT ![Output] = Broken]
    /\ made' = [made EXCEPT ![Output] = command.content]
    /\ Into("write")
    /\ UNCHANGED <<json, bakFile, temp, exit, commands, saves, atStart, own>>

\* Mutant of WriteOutput: the output is named by the last input.
WriteOutputOfLast ==
    /\ Stage("write")
    /\ robot' = [robot EXCEPT ![IF command.out = {} THEN Stem[Last(command.todo)] ELSE Output] =
                    command.content]
    /\ IF Len(command.todo) > 1
          THEN /\ command' = [command EXCEPT !.at = "load", !.todo = Tail(@)]
               /\ UNCHANGED <<temp, exit>>
          ELSE Exits("ok")
    /\ UNCHANGED <<json, bakFile, commands, saves, history>>

WriteOutput ==
    /\ Stage("write")
    /\ robot' = [robot EXCEPT ![Output] = command.content]
    /\ IF Len(command.todo) > 1
          THEN /\ command' = [command EXCEPT !.at = "load", !.todo = Tail(@)]
               /\ UNCHANGED <<temp, exit>>
          ELSE Exits("ok")
    /\ UNCHANGED <<json, bakFile, commands, saves, history>>

-----------------------------------------------------------------------------
(* process_single_file_with_suggestions *)

\* Suggestions that cannot be applied leave the data as it is.
LoadAndImprove ==
    /\ Stage("suggest")
    /\ LET content == json[Head(command.todo)]
       IN  IF content \in {NoFile, Broken}
              THEN Exits("error")
              ELSE /\ \E improved \in {content, [content EXCEPT !.improved = TRUE]} :
                         command' = [command EXCEPT !.at = "openImproved", !.content = improved]
                   /\ UNCHANGED <<temp, exit>>
    /\ UNCHANGED <<json, robot, bakFile, commands, saves, history>>

OpenImproved ==
    /\ Stage("openImproved")
    /\ json' = [json EXCEPT ![ImprovedOf[Head(command.todo)]] = Broken]
    /\ Into("writeImproved")
    /\ UNCHANGED <<robot, bakFile, temp, exit, commands, saves, history>>

WriteImproved ==
    /\ Stage("writeImproved")
    /\ json' = [json EXCEPT ![ImprovedOf[Head(command.todo)]] = command.content]
    /\ own' = {ImprovedOf[Head(command.todo)]}
    /\ Into("backup")
    /\ UNCHANGED <<robot, bakFile, temp, exit, commands, saves, atStart, made>>

\* A copy that fails is passed over.
BackUp ==
    /\ Stage("backup")
    /\ LET f == Head(command.todo)
       IN  \E copy \in {bakFile[f], json[f]} : bakFile' = [bakFile EXCEPT ![f] = copy]
    /\ Into("temp")
    /\ UNCHANGED <<json, robot, temp, exit, commands, saves, history>>

MakeTemp ==
    /\ Stage("temp")
    /\ temp' = command.content
    /\ Into("load")
    /\ UNCHANGED <<json, robot, bakFile, exit, commands, saves, history>>

-----------------------------------------------------------------------------
(* handle_api_ingest *)

\* A fetch that ends without a page gives an empty array.
FetchAnswers ==
    /\ Stage("fetch")
    /\ \E pages \in BOOLEAN :
          /\ pages => saves < MaxSaves
          /\ saves' = IF pages THEN saves + 1 ELSE saves
          /\ command' = [command EXCEPT !.at = "openPayload",
                            !.content = IF pages THEN Cases(saves + 1, FALSE) ELSE NoCases]
    /\ UNCHANGED <<json, robot, bakFile, temp, exit, commands, history>>

OpenPayload ==
    /\ Stage("openPayload")
    /\ json' = [json EXCEPT ![Payload] = Broken]
    /\ Into("writePayload")
    /\ UNCHANGED <<robot, bakFile, temp, exit, commands, saves, history>>

WritePayload ==
    /\ Stage("writePayload")
    /\ json' = [json EXCEPT ![Payload] = command.content]
    /\ own' = IF command.after = "load" /\ command.todo = <<Payload>> THEN {Payload} ELSE {}
    /\ Into("meta")
    /\ UNCHANGED <<robot, bakFile, temp, exit, commands, saves, atStart, made>>

WriteMetadata ==
    /\ Stage("meta")
    /\ json' = [json EXCEPT ![Meta] = NoCases]
    /\ IF command.after = "rest"
          THEN Exits("ok")
          ELSE Into(command.after) /\ UNCHANGED <<temp, exit>>
    /\ UNCHANGED <<robot, bakFile, commands, saves, history>>

-----------------------------------------------------------------------------
(* Failures and the user *)

\* A file operation or the server fails: main reports it and exits with 1.
OperationFails ==
    /\ command.at \notin {"rest", "backup"}
    /\ Exits("error")
    /\ UNCHANGED <<json, robot, bakFile, commands, saves, history>>

CommandDies ==
    /\ ~Stage("rest")
    /\ Exits("died")
    /\ UNCHANGED <<json, robot, bakFile, commands, saves, history>>

UserSaves(f) ==
    /\ saves < MaxSaves
    /\ saves' = saves + 1
    /\ json' = [json EXCEPT ![f] = Cases(saves + 1, FALSE)]
    /\ UNCHANGED <<robot, bakFile, temp, command, exit, commands, history>>

CommandNext ==
    \/ ConvertFile \/ ConvertFiles \/ ConvertDirectory \/ ApplySuggestions \/ Fetch
    \/ ListDirectory \/ LoadInput \/ InputFails \/ OpenOutput \/ WriteOutput
    \/ LoadAndImprove \/ OpenImproved \/ WriteImproved \/ BackUp \/ MakeTemp
    \/ FetchAnswers \/ OpenPayload \/ WritePayload \/ WriteMetadata
    \/ OperationFails \/ CommandDies
    \/ \E f \in UserFiles : UserSaves(f)

CommandSpec == CommandInit /\ [][CommandNext]_commandVars

-----------------------------------------------------------------------------
(* Properties *)

\* What the exit status tells of the outputs, though a conversion of several files
\* stops at the first that fails.  Success: every output holds what was converted
\* for it last, whole, all others are as they were, and a payload fetched as the
\* input, or a file with suggestions, is converted as it was left on disk, and
\* nothing else is.  Failure: each output is as it was or made whole by this
\* command, except for the one it was writing.
ExitTellsOutputs ==
    Stage("rest") =>
        /\ exit = "ok" =>
              /\ \A s \in Stems : robot[s] = IF made[s] = NoFile THEN atStart[s] ELSE made[s]
              /\ \A f \in own : {made[s] : s \in Stems} \ {NoFile} = {json[f]}
        /\ \A s \in Stems : robot[s] \in {atStart[s], made[s], Broken}
        /\ Cardinality({s \in Stems : robot[s] \notin {atStart[s], made[s]}}) <= 1
=============================================================================
