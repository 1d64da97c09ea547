--------------------------- MODULE BlueprintRegistry ---------------------------
(***************************************************************************)
(* configure_template_sources of core/templates/blueprints/registry.py:    *)
(* each process rebuilds its own registries from template files, and all   *)
(* share a disk cache of analyses, one file per template, written beside   *)
(* its place under one temporary name and moved there.  Files may be       *)
(* edited meanwhile, and a process may die between two file operations.    *)
(*                                                                         *)
(* What is learned from a content (step patterns, keywords, imports) is    *)
(* its fact; how text is parsed is not modelled.  An edit changes the      *)
(* mtime or the size, so that a stat names a content.  The checks of a     *)
(* file before it is read are one step with its stat.                      *)
(***************************************************************************)
EXTENDS Integers, Sequences, FiniteSets

CONSTANTS
    TemplateFiles,
    KindOf,            \* [TemplateFiles -> {"template", "resource", "python"}], by suffix
    TemplateKeys,
    KeysOf,            \* [TemplateFiles -> keys derived from the stem]
    Sources,           \* entries: [directory, files in order, keys: a name given, or {}]
    FirstText,         \* [TemplateFiles -> Texts]
    EditTexts,         \* texts a file is edited to
    MaxFiles,          \* MAX_TEMPLATE_FILES
    Programs,          \* processes
    MaxConfigurations, \* bound: configurations begun
    MaxEdits,          \* bound: edits
    NoFact

\* A content: nothing special, with suite settings, with a construct that
\* SandboxedTemplate refuses, not UTF-8, refused before it is read (binary, too
\* large, other suffix), or no file.
Texts == {"plain", "settings", "disallowed", "foreign", "unfit", "missing"}

ASSUME BlueprintAssumption ==
    /\ KindOf \in [TemplateFiles -> {"template", "resource", "python"}]
    /\ KeysOf \in [TemplateFiles -> SUBSET TemplateKeys]
    /\ FirstText \in [TemplateFiles -> Texts]
    /\ EditTexts \subseteq Texts
    /\ Sources \in Seq([directory : BOOLEAN, files : Seq(TemplateFiles), keys : SUBSET TemplateKeys])
    /\ \A i \in DOMAIN Sources : ~Sources[i].directory => Len(Sources[i].files) = 1
    /\ {MaxFiles, MaxConfigurations, MaxEdits} \subseteq Nat

VARIABLES
    templates,      \* [TemplateFiles -> [stat, text] on disk]
    blobs,          \* contents of the inodes of cache and temporary files
    cacheFile,      \* [TemplateFiles -> inode of its cache file, 0 when missing]
    tmpFile,        \* [TemplateFiles -> inode of its temporary file, 0 when missing]
    registries,     \* [Programs -> TEMPLATE_REGISTRY and the other globals]
    configuring,    \* [Programs -> where its configuration stands]
    edits,          \* edits so far
    configurations, \* configurations begun
    undisturbed,    \* history: programs whose files were not edited since it began
    agreed          \* history: what the first undisturbed configuration since the
                    \* last edit came to, as a set of at most one

blueprintVars == <<templates, edits, blobs, cacheFile, tmpFile, registries, configuring,
                   configurations, undisturbed, agreed>>

Stats == 0..MaxEdits
Facts == [file : TemplateFiles, stat : Stats, text : Texts]
Torn == NoFact  \* no JSON
Payloads == [stat : Stats, fact : Facts] \cup {Torn}

Cleared == [templates |-> [k \in TemplateKeys |-> NoFact],  \* TEMPLATE_REGISTRY
            learned |-> <<>>,   \* KNOWLEDGE_BASE, KEYWORD_LIBRARY, RESOURCE_IMPORTS
            imported |-> {},    \* RESOURCE_IMPORTS: resource files
            settings |-> <<>>,  \* SUITE_SETTINGS_REGISTRY
            baseDir |-> 0,      \* TEMPLATE_STATE: entry of base_dir
            enabled |-> FALSE]  \* TEMPLATE_STATE

\* A configuration between two files: at a position of an entry, with the files that
\* were counted before the entry and those that have been counted so far.
Between(at, entry, pos, ingested, got) ==
    [at |-> at, entry |-> entry, pos |-> pos, ingested |-> ingested, got |-> got,
     stat |-> 0, fact |-> NoFact, inode |-> 0]

Outside == Between("rest", 0, 0, 0, 0)

BlueprintTypeOK ==
    /\ templates \in [TemplateFiles -> [stat : Stats, text : Texts]]
    /\ edits \in Stats
    /\ blobs \in Seq(Payloads)
    /\ cacheFile \in [TemplateFiles -> 0..Len(blobs)]
    /\ tmpFile \in [TemplateFiles -> 0..Len(blobs)]
    /\ \A p \in Programs :
          /\ registries[p].templates \in [TemplateKeys -> Facts \cup {NoFact}]
          /\ registries[p].learned \in Seq(Facts)
          /\ registries[p].settings \in Seq(Facts)
          /\ configuring[p].at \in {"rest", "entry", "file", "load", "read", "open",
                                    "write", "replace", "register"}
          /\ configuring[p].fact \in Facts \cup {NoFact}
    /\ configurations \in 0..MaxConfigurations
    /\ undisturbed \subseteq Programs
    /\ Cardinality(agreed) <= 1

BlueprintInit ==
    /\ templates = [f \in TemplateFiles |-> [stat |-> 0, text |-> FirstText[f]]]
    /\ edits = 0
    /\ blobs = <<>>
    /\ cacheFile = [f \in TemplateFiles |-> 0]
    /\ tmpFile = [f \in TemplateFiles |-> 0]
    /\ registries = [p \in Programs |-> Cleared]
    /\ configuring = [p \in Programs |-> Outside]
    /\ configurations = 0
    /\ undisturbed = {}
    /\ agreed = {}

-----------------------------------------------------------------------------
(* Helpers *)

Configures(p, where) == configuring[p].at = where
Moves(p, where) == configuring' = [configuring EXCEPT ![p].at = where]
Source(p) == Sources[configuring[p].entry]
Current(p) == Source(p).files[configuring[p].pos]
Found(f) == templates[f].text # "missing"
Fact(f) == [file |-> f, stat |-> templates[f].stat, text |-> templates[f].text]
filesVars == <<templates, edits, blobs, cacheFile, tmpFile>>

\* A configuration ends with these registries; a first one is remembered.
Ends(p, enabled) ==
    LET result == [registries[p] EXCEPT !.enabled = enabled]
    IN  /\ registries' = [registries EXCEPT ![p] = result]
        /\ configuring' = [configuring EXCEPT ![p] = Outside]
        /\ agreed' = IF agreed = {} /\ p \in undisturbed THEN {result} ELSE agreed

\* TemplateIngestionError: the rest of the entry is skipped and not counted.
Reject(p) ==
    configuring' = [configuring EXCEPT ![p] =
        Between("entry", configuring[p].entry + 1, 0, configuring[p].ingested, 0)]

\* The file is counted; on with the next one.
Counted(p) ==
    configuring' = [configuring EXCEPT ![p] =
        Between("file", configuring[p].entry, configuring[p].pos + 1,
                configuring[p].ingested, configuring[p].got + 1)]

\* _apply_template_analysis.  An analysis from the cache has no suite settings.
Learn(reg, fact, cached) ==
    [reg EXCEPT
        !.learned = Append(@, fact),
        !.settings = IF fact.text = "settings" /\ ~cached THEN Append(@, fact) ELSE @]

-----------------------------------------------------------------------------
(* configure_template_sources *)

Configure(p) ==
    /\ Configures(p, "rest")
    /\ configurations < MaxConfigurations
    /\ configurations' = configurations + 1
    /\ registries' = [registries EXCEPT ![p] = Cleared]
    /\ configuring' = [configuring EXCEPT ![p] = Between("entry", 1, 0, 0, 0)]
    /\ undisturbed' = undisturbed \cup {p}
    /\ UNCHANGED <<filesVars, agreed>>

\* _prepare_template_entry skips a single file that is missing.
TakeEntry(p) ==
    /\ Configures(p, "entry")
    /\ configuring[p].entry <= Len(Sources)
    /\ IF ~Source(p).directory /\ ~Found(Source(p).files[1])
          THEN /\ configuring' = [configuring EXCEPT ![p].entry = @ + 1]
               /\ UNCHANGED registries
          ELSE /\ configuring' = [configuring EXCEPT ![p] =
                     Between("file", configuring[p].entry, 1, configuring[p].ingested,
                             configuring[p].ingested)]
               /\ registries' = [registries EXCEPT ![p].baseDir =
                     IF @ = 0 THEN configuring[p].entry ELSE @]
    /\ UNCHANGED <<filesVars, configurations, undisturbed, agreed>>

EndOfEntries(p) ==
    /\ Configures(p, "entry")
    /\ configuring[p].entry > Len(Sources)
    /\ Ends(p, configuring[p].ingested > 0)
    /\ UNCHANGED <<filesVars, configurations, undisturbed>>

EndOfEntry(p) ==
    /\ Configures(p, "file")
    /\ configuring[p].pos > Len(Source(p).files)
    /\ configuring' = [configuring EXCEPT ![p] =
          Between("entry", configuring[p].entry + 1, 0, configuring[p].got, 0)]
    /\ UNCHANGED <<filesVars, registries, configurations, undisturbed, agreed>>

\* The loop of a directory leaves out what is no file.
PassOver(p) ==
    /\ Configures(p, "file")
    /\ configuring[p].pos <= Len(Source(p).files)
    /\ Source(p).directory /\ ~Found(Current(p))
    /\ configuring' = [configuring EXCEPT ![p].pos = @ + 1]
    /\ UNCHANGED <<filesVars, registries, configurations, undisturbed, agreed>>

LimitReached(p) ==
    /\ Configures(p, "file")
    /\ configuring[p].pos <= Len(Source(p).files)
    /\ Source(p).directory => Found(Current(p))
    /\ configuring[p].got >= MaxFiles
    /\ Ends(p, configuring[p].got > 0)
    /\ UNCHANGED <<filesVars, configurations, undisturbed>>

\* _ingest_source_file, up to the stat of _register_template.
TakeFile(p) ==
    /\ Configures(p, "file")
    /\ configuring[p].pos <= Len(Source(p).files)
    /\ Source(p).directory => Found(Current(p))
    /\ configuring[p].got < MaxFiles
    /\ IF templates[Current(p)].text \in {"missing", "unfit"}
          THEN Reject(p)
          ELSE configuring' = [configuring EXCEPT
                  ![p].at = IF KindOf[Current(p)] = "template" THEN "load" ELSE "read",
                  ![p].stat = templates[Current(p)].stat]
    /\ UNCHANGED <<filesVars, registries, configurations, undisturbed, agreed>>

-----------------------------------------------------------------------------
(* _register_template, _register_resource, _register_python *)

\* Mutant of LoadCache: an analysis is taken whatever its stat.
LoadAnyCache(p) ==
    /\ Configures(p, "load")
    /\ LET inode == cacheFile[Current(p)]
           hit == inode # 0 /\ blobs[inode] # Torn
       IN  IF hit
              THEN /\ registries' = [registries EXCEPT
                         ![p] = Learn(registries[p], blobs[inode].fact, TRUE)]
                   /\ configuring' = [configuring EXCEPT
                         ![p].at = "register", ![p].fact = blobs[inode].fact]
              ELSE Moves(p, "read") /\ UNCHANGED registries
    /\ UNCHANGED <<filesVars, configurations, undisturbed, agreed>>

\* _load_template_cache: the stat must be the one just taken.
LoadCache(p) ==
    /\ Configures(p, "load")
    /\ LET inode == cacheFile[Current(p)]
           hit == inode # 0 /\ blobs[inode] # Torn /\ blobs[inode].stat = configuring[p].stat
       IN  IF hit
              THEN /\ registries' = [registries EXCEPT
                         ![p] = Learn(registries[p], blobs[inode].fact, TRUE)]
                   /\ configuring' = [configuring EXCEPT
                         ![p].at = "register", ![p].fact = blobs[inode].fact]
              ELSE Moves(p, "read") /\ UNCHANGED registries
    /\ UNCHANGED <<filesVars, configurations, undisturbed, agreed>>

\* A file that cannot be opened, or a resource with a disallowed construct.
ReadRejected(p) ==
    /\ Configures(p, "read")
    /\ \/ ~Found(Current(p))
       \/ KindOf[Current(p)] = "resource" /\ templates[Current(p)].text = "disallowed"
    /\ Reject(p)
    /\ UNCHANGED <<filesVars, registries, configurations, undisturbed, agreed>>

\* UnicodeDecodeError is no OSError: it leaves configure_template_sources.
ReadRaises(p) ==
    /\ Configures(p, "read")
    /\ templates[Current(p)].text = "foreign"
    /\ Ends(p, FALSE)
    /\ UNCHANGED <<filesVars, configurations, undisturbed>>

ReadTemplate(p) ==
    /\ Configures(p, "read")
    /\ KindOf[Current(p)] = "template"
    /\ templates[Current(p)].text \notin {"missing", "foreign"}
    /\ registries' = [registries EXCEPT ![p] = Learn(registries[p], Fact(Current(p)), FALSE)]
    /\ configuring' = [configuring EXCEPT ![p].at = "open", ![p].fact = Fact(Current(p))]
    /\ UNCHANGED <<filesVars, configurations, undisturbed, agreed>>

ReadResource(p) ==
    /\ Configures(p, "read")
    /\ KindOf[Current(p)] = "resource"
    /\ templates[Current(p)].text \notin {"missing", "foreign", "disallowed"}
    /\ registries' = [registries EXCEPT
          ![p] = [Learn(registries[p], Fact(Current(p)), FALSE) EXCEPT
                     !.imported = @ \cup {Current(p)}]]
    /\ Counted(p)
    /\ UNCHANGED <<filesVars, configurations, undisturbed, agreed>>

ReadPython(p) ==
    /\ Configures(p, "read")
    /\ KindOf[Current(p)] = "python"
    /\ templates[Current(p)].text \notin {"missing", "foreign"}
    /\ registries' = [registries EXCEPT ![p].learned = Append(@, Fact(Current(p)))]
    /\ Counted(p)
    /\ UNCHANGED <<filesVars, configurations, undisturbed, agreed>>

-----------------------------------------------------------------------------
(* _store_template_cache: write_text of the temporary file, replace *)

OpenTmp(p) ==
    /\ Configures(p, "open")
    /\ LET f == Current(p)
           inode == IF tmpFile[f] = 0 THEN Len(blobs) + 1 ELSE tmpFile[f]
       IN  /\ blobs' = IF tmpFile[f] = 0 THEN Append(blobs, Torn)
                       ELSE [blobs EXCEPT ![inode] = Torn]
           /\ tmpFile' = [tmpFile EXCEPT ![f] = inode]
           /\ configuring' = [configuring EXCEPT ![p].at = "write", ![p].inode = inode]
    /\ UNCHANGED <<templates, edits, cacheFile, registries, configurations, undisturbed, agreed>>

\* Over what another process has written to the same inode, a shorter text
\* leaves the other's end behind it.
WriteTmp(p) ==
    /\ Configures(p, "write")
    /\ LET inode == configuring[p].inode
           payload == [stat |-> configuring[p].stat, fact |-> configuring[p].fact]
       IN  \E written \in {payload} \cup (IF blobs[inode] \in {Torn, payload} THEN {} ELSE {Torn}) :
              blobs' = [blobs EXCEPT ![inode] = written]
    /\ Moves(p, "replace")
    /\ UNCHANGED <<templates, edits, cacheFile, tmpFile, registries, configurations, undisturbed, agreed>>

\* Another process may have moved the file away: an OSError, which is passed over.
ReplaceTmp(p) ==
    /\ Configures(p, "replace")
    /\ LET f == Current(p)
       IN  IF tmpFile[f] = 0
              THEN UNCHANGED <<cacheFile, tmpFile>>
              ELSE /\ cacheFile' = [cacheFile EXCEPT ![f] = tmpFile[f]]
                   /\ tmpFile' = [tmpFile EXCEPT ![f] = 0]
    /\ Moves(p, "register")
    /\ UNCHANGED <<templates, edits, blobs, registries, configurations, undisturbed, agreed>>

\* The write fails half way.
StoreCacheFails(p) ==
    /\ Configures(p, "write")
    /\ Moves(p, "register")
    /\ UNCHANGED <<filesVars, registries, configurations, undisturbed, agreed>>

\* SandboxedTemplate refuses a disallowed construct, after the learning.  The
\* first template of a key stays.
RegisterTemplate(p) ==
    /\ Configures(p, "register")
    /\ LET fact == configuring[p].fact
           keys == IF Source(p).keys # {} THEN Source(p).keys ELSE KeysOf[Current(p)]
       IN  IF fact.text = "disallowed"
              THEN Reject(p) /\ UNCHANGED registries
              ELSE /\ Counted(p)
                   /\ registries' = [registries EXCEPT ![p].templates =
                         [k \in TemplateKeys |->
                            IF k \in keys /\ @[k] = NoFact THEN fact ELSE @[k]]]
    /\ UNCHANGED <<filesVars, configurations, undisturbed, agreed>>

-----------------------------------------------------------------------------
(* The world around *)

ProgramDies(p) ==
    /\ ~Configures(p, "rest")
    /\ configuring' = [configuring EXCEPT ![p] = Outside]
    /\ registries' = [registries EXCEPT ![p] = Cleared]
    /\ undisturbed' = undisturbed \ {p}
    /\ UNCHANGED <<filesVars, configurations, agreed>>

\* The stats of all files are numbered together.
Edit(f, text) ==
    /\ edits < MaxEdits
    /\ text # templates[f].text
    /\ edits' = edits + 1
    /\ templates' = [templates EXCEPT ![f] = [stat |-> edits + 1, text |-> text]]
    /\ undisturbed' = {}
    /\ agreed' = {}
    /\ UNCHANGED <<blobs, cacheFile, tmpFile, registries, configuring, configurations>>

BlueprintNext ==
    \/ \E p \in Programs :
          \/ Configure(p) \/ TakeEntry(p) \/ EndOfEntries(p) \/ EndOfEntry(p)
          \/ PassOver(p) \/ LimitReached(p) \/ TakeFile(p)
          \/ LoadCache(p) \/ ReadRejected(p) \/ ReadRaises(p)
          \/ ReadTemplate(p) \/ ReadResource(p) \/ ReadPython(p)
          \/ OpenTmp(p) \/ WriteTmp(p) \/ ReplaceTmp(p) \/ StoreCacheFails(p)
          \/ RegisterTemplate(p) \/ ProgramDies(p)
    \/ \E f \in TemplateFiles, text \in EditTexts : Edit(f, text)

BlueprintSpec == BlueprintInit /\ [][BlueprintNext]_blueprintVars

-----------------------------------------------------------------------------
(* Properties *)

\* A configuration during which no file was edited is a function of the files,
\* whatever the disk cache holds, whoever writes it at the same time or died
\* over it: it comes to the same templates, knowledge, imports and switch as any
\* other, all of it from the present contents, and no template is registered
\* that was refused.  Suite settings are left out, see SettingsRepeat.
ConfigurationRepeats ==
    \A p \in undisturbed : Configures(p, "rest") =>
        LET mine == registries[p] IN
        /\ \A other \in agreed :
              [mine EXCEPT !.settings = <<>>] = [other EXCEPT !.settings = <<>>]
        /\ \A i \in DOMAIN mine.learned : mine.learned[i] = Fact(mine.learned[i].file)
        /\ \A k \in TemplateKeys : mine.templates[k] # NoFact =>
              /\ mine.templates[k].text # "disallowed"
              /\ \E i \in DOMAIN mine.learned : mine.learned[i] = mine.templates[k]
        /\ mine.enabled => mine.learned # <<>> /\ mine.baseDir # 0

\* get_suite_settings: the first that was found.
SuiteSettings(reg) == IF reg.settings = <<>> THEN NoFact ELSE Head(reg.settings)

\* "The pipeline is intentionally stateless between invocations"
\* (wiki/architecture/Blueprint-Learning.md): the suite settings that generated
\* tests get depend on the files alone.
SettingsRepeat ==
    \A p \in undisturbed : Configures(p, "rest") =>
        \A other \in agreed : SuiteSettings(registries[p]) = SuiteSettings(other)
=============================================================================
