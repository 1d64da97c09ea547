----------------------------- MODULE StepConversion -----------------------------
(***************************************************************************)
(* How a document becomes a suite: GenericConversionEngine.convert         *)
(* (core/engine.py) with the generators of core/keyword_generator.py,      *)
(* core/multi_command_parser.py and core/keywords/generators.  One engine  *)
(* converts one document after the other.  What it keeps between them is   *)
(* the library context of its keyword generator and the cache of intents,  *)
(* which belongs to the class.                                             *)
(*                                                                         *)
(* A step is [does, fields, says, expects]: the words of its description,  *)
(* the names in its test data that a colon follows, the other words of the *)
(* test data, and the words of its expected result.  A keyword is the set  *)
(* of libraries that have it and the words of its line, as far as the      *)
(* detection of libraries can tell them apart: arguments that only repeat  *)
(* words of the step's comments are left out.                              *)
(***************************************************************************)
EXTENDS IntentPatterns, FiniteSets, SequencesExt

CONSTANTS
    Inputs,              \* [title, tests, coverage, templated]
    MaxConversions,      \* bound on the documents an engine converts, each as often as it likes
    IntentCacheLimit,    \* PROGRESS_CONFIG.intent_cache_limit
    IntentCacheCleanup   \* PROGRESS_CONFIG.intent_cache_cleanup_threshold

ASSUME ConversionAssumption ==
    /\ {MaxConversions, IntentCacheLimit, IntentCacheCleanup} \subseteq Nat \ {0}

VARIABLES
    doc,       \* the document of the running conversion
    todo,      \* its steps that have no keywords yet
    lines,     \* the lines of the test cases
    keywords,  \* the keywords in them
    context,   \* the library context of the keyword generator
    intents,   \* the cache of intents, oldest first
    phase,
    converted  \* history: what the conversions came to

conversionVars == <<doc, todo, lines, keywords, context, intents, phase, converted>>

WordsOf(step) == step.does \o step.fields \o step.says
StepsOf(d) == FlattenSeq(d.tests)
Says(text, words) == \E w \in words : Contains(text, w)

K(libraries, line) == [of |-> libraries, line |-> line]
BuiltIn(line) == K({"BuiltIn"}, line)
Web == {"SeleniumLibrary", "AppiumLibrary"}

-----------------------------------------------------------------------------
(* Web keywords *)

BrowserKeyword(step) ==
    IF Says(step.fields \o step.says, {"platformname", "devicename", "apppackage", "bundleid"})
    THEN K({"AppiumLibrary"}, <<"open", "application">>)
    ELSE K({"SeleniumLibrary"}, <<"open", "browser", "http", "login", "chrome">>)

NavigationKeyword(step) ==
    K({"SeleniumLibrary"}, <<"go", "to", IF Says(step.says, {"http"}) THEN "http" ELSE "url">>)

\* A prefix is chosen from the step's own words, not from the library context.
Prefixed(found, simple, line) ==
    CASE "AppiumLibrary" \in found -> K({"AppiumLibrary"}, <<"appiumlibrary">> \o line)
      [] "SeleniumLibrary" \in found /\ ~simple ->
             K({"SeleniumLibrary"}, <<"seleniumlibrary">> \o line)
      [] OTHER -> K(Web, line)

InputKeyword(field, step) ==
    Prefixed(LibrariesIn(<<<<"input", field>> \o step.fields \o step.says>>, FALSE),
             step.fields # <<>> /\ Says(step.fields \o step.says, {field}),
             <<"input", "text", "id", field>>)

PasswordKeyword(step) ==
    Prefixed(LibrariesIn(<<<<"password">> \o step.fields \o step.says>>, FALSE),
             step.fields # <<>>,
             <<"input", "password", "id">>)

ClickKeyword(step) ==
    IF /\ ~Says(step.fields, {"locator", "id", "xpath", "css"})
       /\ \/ Says(step.does, {"button"})
          \/ Says(step.does, {"submit"}) /\ Says(step.does, {"form", "login"})
    THEN K(Web, <<"click", "button", "id">>)
    ELSE K(Web, <<"click", "element", "id">>)

\* generate_library_aware_page_verification_keyword: the choice by the library context.
PageVerification(libraries, text) ==
    IF "AppiumLibrary" \in libraries
    THEN K({"AppiumLibrary"}, <<"appiumlibrary", "page", "should", "contain", "text">> \o text)
    ELSE K({"SeleniumLibrary"}, <<"seleniumlibrary", "page", "should", "contain">> \o text)

-----------------------------------------------------------------------------
(* Keywords for commands, databases, requests and files *)

NetworkCommands == {"curl", "wget"}
SimpleCommands == {"echo", "hash", "blake2bsum", "grep", "chmod", "chown", "ping"}
ComplexCommands == {"&", "&&", "||", "python", "docker"}

\* COMMAND_TO_KEYWORD, and the commands that have too few arguments for their keyword.
FileCommands == [cat |-> <<"get", "file">>, ls |-> <<"list", "directory">>,
                 mkdir |-> <<"create", "directory">>, rmdir |-> <<"remove", "directory">>,
                 touch |-> <<"create", "file">>, cp |-> <<"copy", "file">>,
                 mv |-> <<"move", "file">>, rm |-> <<"remove", "file">>]
Short(command) ==
    \/ command[1] = "cat" /\ Len(command) # 2
    \/ command[1] \in {"cp", "mv"} /\ Len(command) < 3
FileCommand(command) ==
    IF command[1] \in {"cp", "mv"} /\ Len(command) > 3
    THEN <<FileCommands[command[1]][1], "files">> ELSE FileCommands[command[1]]

\* _choose_command_library.  A command may be a keyword already: those of the list that
\* do something to a file or log.
RunKeyword(command) == K({"OperatingSystem"}, <<"run">> \o command)
ProcessKeyword(command) == K({"Process"}, <<"run", "process">> \o command)
NeedsProcess(command) ==
    \/ Says(command, ComplexCommands)
    \/ Says(command, {">"}) /\ Says(command, {"|"})
    \/ Cardinality({i \in DOMAIN command : command[i] = "|"}) > 1
    \/ Len(command) > 5
CommandLibrary(command) ==
    CASE command = <<>> -> RunKeyword(<<"command">>)
      [] command # <<>> /\ command[1] = "log" -> BuiltIn(command)
      [] Len(command) > 1 /\ command[1] \in {"create", "get"} /\ command[2] = "file" ->
             K({"OperatingSystem", "SSHLibrary"}, command)
      [] command # <<>> /\ command[1] \in DOMAIN FileCommands ->
             IF Short(command) THEN RunKeyword(command)
             ELSE K({"OperatingSystem"}, FileCommand(command) \o Tail(command))
      [] command # <<>> /\ command[1] \in NetworkCommands -> ProcessKeyword(command)
      [] command # <<>> /\ command[1] \in SimpleCommands -> RunKeyword(command)
      [] OTHER -> IF NeedsProcess(command) THEN ProcessKeyword(command) ELSE RunKeyword(command)

\* generate_command_keyword: what follows "command:", or all of the test data.
CommandKeyword(step) ==
    CommandLibrary(IF Says(step.fields, {"command", "cmd"}) THEN step.says
                   ELSE step.fields \o step.says)

\* _validate_sql_query
Dangerous(sql) ==
    \/ Says(sql, {"--"})
    \/ Matches(<<{"union"}, {"select"}>>, sql)
    \/ Matches(<<{";"}, {"drop", "delete", "update", "insert", "create"}>>, sql)

\* What follows a label, else for a query the verb: (SELECT\s+.+?);? and its like end
\* after one more character.
Statements == {"select", "insert", "update", "delete"}
Labelled(step) == Says(step.fields, {"sql", "query", "statement"})
SqlOf(intent, step) ==
    IF Labelled(step) THEN step.says
    ELSE IF intent = "db_query" THEN SelectSeq(step.says, LAMBDA w : w \in Statements)
    ELSE <<>>
SqlKeyword(sql) ==
    K({"DatabaseLibrary"}, <<"execute", "sql", "string">> \o IF sql = <<>> THEN <<"select">> ELSE sql)
DatabaseKeyword(intent, step) ==
    CASE intent = "db_connect" -> K({"DatabaseLibrary"}, <<"connect", "to", "database">>)
      [] intent \in {"db_query", "db_modify"} -> SqlKeyword(SqlOf(intent, step))
      [] intent = "db_disconnect" ->
             K({"DatabaseLibrary"}, <<"disconnect", "from", "database">>)
      [] intent = "db_row_count" ->
             K({"DatabaseLibrary"}, <<"query", "select", "count", "from">>)

ApiKeyword(intent) ==
    K({"RequestsLibrary"},
      CASE intent = "api_request" -> <<"get", "on", "session">>
        [] intent = "api_session" -> <<"create", "session">>
        [] intent = "api_response" -> <<"status", "should", "be">>)

\* _is_ssh_context
RemoteIndicators == {"ssh", "scp", "sftp", "upload", "download", "remote", "server", "connection"}
IsRemote(step) ==
    \/ Says(WordsOf(step), RemoteIndicators)
    \/ Says(step.fields, {"keyfile", "host", "username", "password"})
    \/ Matches(<<{"put", "get"}, {"file"}>>, WordsOf(step))

Transfer(upload) ==
    IF upload THEN K({"SSHLibrary"}, <<"put", "file">>)
    ELSE K({"SSHLibrary", "OperatingSystem"}, <<"get", "file">>)
FileKeyword(intent, step) ==
    CASE intent = "file_transfer" ->
             IF IsRemote(step)
             THEN Transfer(\/ Says(step.does, {"upload", "put", "send"})
                           \/ ~Says(step.does, {"download", "get", "receive", "retrieve"}))
             ELSE K({"SSHLibrary", "OperatingSystem"}, <<"get", "file", "remote">>)
      [] intent = "file_exists" ->
             K({"OperatingSystem", "SSHLibrary"}, <<"file", "should", "exist">>)
      [] intent = "file_remove" -> K({"OperatingSystem"}, <<"remove", "file">>)
      [] intent = "file_creation" -> K({"OperatingSystem"}, <<"create", "file">>)
      [] intent = "file_stat" -> CommandKeyword(step)

-----------------------------------------------------------------------------
(* SSH keywords *)

Login(step) ==
    IF Says(WordsOf(step), {"key", "keyfile", "public", "private"})
    THEN <<"login", "with", "public", "key">> ELSE <<"login">>
Disconnect(step) ==
    IF Says(WordsOf(step), {"close"}) /\ Says(WordsOf(step), {"all"})
    THEN <<"close", "all", "connections">> ELSE <<"close", "connection">>
Execute(step) ==
    CASE Says(WordsOf(step), {"start"}) /\ Says(WordsOf(step), {"command", "process"}) ->
             <<"start", "command">>
      [] Says(WordsOf(step), {"read"}) /\ Says(WordsOf(step), {"output"}) ->
             <<"read", "command", "output">>
      [] OTHER -> <<"execute", "command">>
Configuration(step) ==
    IF ~Says(WordsOf(step), {"client"}) /\ Says(WordsOf(step), {"default"})
    THEN <<"set", "default", "configuration">> ELSE <<"set", "client", "configuration">>

\* The keywords that Telnet has too, those that OperatingSystem has too, and the others.
ShellLine(intent, step) ==
    CASE intent = "ssh_connect" -> <<"open", "connection">>
      [] intent = "ssh_disconnect" -> Disconnect(step)
      [] intent = "ssh_execute" -> Execute(step)
      [] intent = "ssh_read_until" -> <<"read", "until">>
      [] intent = "ssh_write" -> <<"write">>
      [] intent = "ssh_switch_connection" -> <<"switch", "connection">>
RemoteKeyword(intent, step) ==
    CASE intent = "ssh_login" -> K({"SSHLibrary"}, Login(step))
      [] intent = "ssh_configuration" -> K({"SSHLibrary"}, Configuration(step))
      [] intent = "ssh_enable_logging" -> K({"SSHLibrary"}, <<"enable", "ssh", "logging">>)
      [] intent = "ssh_file_upload" -> Transfer(TRUE)
      [] intent = "ssh_file_download" -> Transfer(FALSE)
      [] intent = "ssh_directory_create" ->
             K({"SSHLibrary", "OperatingSystem"}, <<"create", "directory">>)
      [] intent = "ssh_directory_list" ->
             K({"SSHLibrary", "OperatingSystem"}, <<"list", "directory">>)
      [] OTHER -> K({"SSHLibrary", "Telnet"}, ShellLine(intent, step))
RemoteIntents == {"ssh_connect", "ssh_login", "ssh_configuration", "ssh_disconnect",
    "ssh_execute", "ssh_file_upload", "ssh_file_download", "ssh_read_until", "ssh_write",
    "ssh_directory_create", "ssh_directory_list", "ssh_switch_connection",
    "ssh_enable_logging"}

-----------------------------------------------------------------------------
(* BuiltIn keywords *)

BuiltInLines ==
    [convert_to_integer |-> <<"convert", "to", "integer">>,
     convert_to_string |-> <<"convert", "to", "string">>,
     convert_to_boolean |-> <<"convert", "to", "boolean">>,
     convert_to_number |-> <<"convert", "to", "number">>,
     log_message |-> <<"log">>, set_variable |-> <<"set", "variable">>,
     get_variable |-> <<"get", "variable", "value">>,
     create_list |-> <<"create", "list">>, create_dictionary |-> <<"create", "dictionary">>,
     get_length |-> <<"get", "length">>, length_should_be |-> <<"length", "should", "be">>,
     should_start_with |-> <<"should", "start", "with">>,
     should_end_with |-> <<"should", "end", "with">>, should_match |-> <<"should", "match">>,
     assertion_contains |-> <<"should", "contain">>,
     evaluate_expression |-> <<"evaluate">>, run_keyword_if |-> <<"run", "keyword", "if">>,
     repeat_keyword |-> <<"repeat", "keyword">>, fail_test |-> <<"fail">>,
     get_count |-> <<"get", "count">>]

\* Words of the variables that stand for data a step does not give.
Placeholders ==
    [create_dictionary |-> <<"key", "value">>, should_start_with |-> <<"string">>,
     should_end_with |-> <<"string">>, should_match |-> <<"string">>]
BuiltInKeyword(intent, step) ==
    BuiltIn(BuiltInLines[intent]
            \o IF intent \in DOMAIN Placeholders /\ step.fields \o step.says = <<>>
               THEN Placeholders[intent] ELSE <<>>)

\* _detect_ambiguous_cases: the keywords suggested, and _format_suggestions: the first,
\* with the others as "alternative keywords" in a comment of its line.
Joint == {"and", "then", "&"}
Verification(libraries) ==
    IF libraries = {} THEN BuiltIn(<<"should", "contain", "container", "item">>)
    ELSE PageVerification(libraries, <<"container", "item">>)
ToInteger == BuiltIn(<<"convert", "to", "integer", "value">>)
ShouldBeEqual == BuiltIn(<<"should", "be", "equal", "actual", "expected">>)
Suggestions(libraries, text) ==
    LET If(has, suggested) == IF Matches(has, text) THEN suggested ELSE <<>>
    IN  If(<<{"log", "record"}, Joint, {"verify", "check", "assert"}>>,
           <<BuiltIn(<<"log", "message">>), Verification(libraries)>>)
     \o If(<<{"verify"}, Joint, {"log", "record"}>>,
           <<Verification(libraries), BuiltIn(<<"log", "message">>)>>)
     \o If(<<{"convert", "transform"}, Joint, {"validate", "verify", "check"}>>,
           <<ToInteger, ShouldBeEqual>>)
     \o If(<<{"validate"}, Joint, {"convert", "transform"}>>, <<ShouldBeEqual, ToInteger>>)
     \o If(<<{"check", "verify", "get"}, {"length"}>>,
           <<BuiltIn(<<"get", "length">>), BuiltIn(<<"length", "should", "be">>)>>)
     \o If(<<{"count"}, {"items", "elements"}>>,
           <<BuiltIn(<<"get", "count">>), BuiltIn(<<"should", "contain", "times">>)>>)
Suggested(suggestions) ==
    K(suggestions[1].of,
      suggestions[1].line
      \o IF Len(suggestions) = 1 THEN <<>>
         ELSE FoldLeft(LAMBDA line, k : line \o k.line, <<"key">>, Tail(suggestions)))

\* _determine_robot_keyword
SingleKeyword(libraries, intent, step) ==
    LET suggestions == Suggestions(libraries, WordsOf(step))
        verified == IF step.fields # <<>> THEN step.says ELSE step.expects
    IN  CASE suggestions # <<>> -> Suggested(suggestions)
          [] suggestions = <<>> /\ intent = "browser_open" -> BrowserKeyword(step)
          [] suggestions = <<>> /\ intent = "browser_navigate" -> NavigationKeyword(step)
          [] suggestions = <<>> /\ intent = "input_username" ->
                 InputKeyword(IF Says(WordsOf(step), {"email"}) THEN "email" ELSE "username", step)
          [] suggestions = <<>> /\ intent = "input_password" -> PasswordKeyword(step)
          [] suggestions = <<>> /\ intent = "click" -> ClickKeyword(step)
          [] suggestions = <<>> /\ intent \in {"web_verify_text", "element_verification",
                                               "content_verification"} ->
                 PageVerification(libraries, verified)
          [] suggestions = <<>> /\ intent \in {"db_connect", "db_query", "db_disconnect",
                                               "db_modify", "db_row_count"} ->
                 DatabaseKeyword(intent, step)
          [] suggestions = <<>> /\ intent \in {"api_request", "api_session", "api_response"} ->
                 ApiKeyword(intent)
          [] suggestions = <<>> /\ intent \in {"file_transfer", "file_exists", "file_remove",
                                               "file_creation", "file_stat"} ->
                 FileKeyword(intent, step)
          [] suggestions = <<>> /\ intent \in RemoteIntents -> RemoteKeyword(intent, step)
          [] suggestions = <<>> /\ intent = "command" -> CommandKeyword(step)
          [] suggestions = <<>> /\ intent \in DOMAIN BuiltInLines -> BuiltInKeyword(intent, step)
          [] OTHER -> BuiltIn(IF IsRemote(step) THEN <<"no", "operation", "ssh">>
                              ELSE <<"no", "operation">>)

-----------------------------------------------------------------------------
(* Several keywords from structured test data: multi_command_parser.py *)

\* The indicators of a form are looked for anywhere in the text: "perform" has "form".
FormWords == {"fill", "enter", "input", "form", "details", "credentials", "perform"}
PersonFields == {"email", "username", "user", "name", "phone", "address", "login"}
Forms(step) == Says(step.does, FormWords)
Queries(step) == Says(step.does, {"query"}) /\ Says(step.does, {"verify"})
CallsApi(step) ==
    \/ Says(step.does, {"api"})
    \/ Says(step.does, {"request"}) /\ Says(step.does, {"validate"})
Uploads(step) == Says(step.does, {"upload"}) /\ Says(step.does, {"verify"})
Fields(step) == ToSet(step.fields)
Compares(step) ==
    \/ {"command_1", "command_2"} \subseteq Fields(step)
    \/ {"source_command", "target_command"} \subseteq Fields(step)
    \/ Says(step.does, {"hash", "checksum", "digest", "compare", "diff"})

\* should_generate_multiple_commands
IsStructured(step) ==
    /\ Len(step.fields) > 1
    /\ \/ Forms(step) /\ Cardinality(Fields(step) \cap (PersonFields \cup {"password"})) >= 2
       \/ Queries(step)
       \/ CallsApi(step)
       \/ Uploads(step)
       \/ Compares(step)

FormKeywords(step) ==
    LET found == LibrariesIn(<<step.does \o step.expects \o step.fields \o step.says>>, FALSE)
        library == IF "AppiumLibrary" \in found THEN "AppiumLibrary" ELSE "SeleniumLibrary"
        name == IF "AppiumLibrary" \in found THEN "appiumlibrary" ELSE "seleniumlibrary"
        KeywordFor(field) ==
            CASE field = "password" -> K({library}, <<name, "input", "password", "id", field>>)
              [] field \in PersonFields -> K({library}, <<name, "input", "text", "id", field>>)
              [] field \in {"remember", "active", "agree"} ->
                     K({"SeleniumLibrary"}, <<"select", "checkbox", "id", field>>)
              [] OTHER -> K({"SeleniumLibrary"}, <<"seleniumlibrary", "input", "text", "id", field>>)
    IN  [i \in DOMAIN step.fields |-> KeywordFor(step.fields[i])]

\* Only values with a statement, an endpoint, a file or both commands make keywords.
QueryKeywords(step) ==
    IF ~Says(step.says, Statements) THEN <<>>
    ELSE <<K({"DatabaseLibrary"}, <<"query">> \o step.says)>>
         \o IF Says(step.expects, {"returns"}) /\ Says(step.expects, {"3"})
            THEN <<K({"DatabaseLibrary"}, <<"row", "count", "should", "be">>)>> ELSE <<>>
RequestKeywords(step) ==
    IF ~Says(step.says, {"/"}) THEN <<>>
    ELSE <<K({"RequestsLibrary"}, <<"get">> \o step.says)>>
         \o (IF Matches(<<{"status"}, {"200"}>>, step.expects)
             THEN <<K({"RequestsLibrary"}, <<"status", "should", "be">>)>> ELSE <<>>)
         \o (IF Says(Front(step.expects \o <<"">>), {"contains"})
             THEN <<K({"RequestsLibrary"}, <<"response", "should", "contain">>)>> ELSE <<>>)
UploadKeywords(step) ==
    LET mobile == "AppiumLibrary" \in LibrariesIn(<<<<"verify">> \o step.expects>>, FALSE)
    IN  IF "file" \notin Fields(step) THEN <<>>
        ELSE <<K({"SeleniumLibrary"}, <<"seleniumlibrary", "choose", "file">>),
               K({"SeleniumLibrary"}, <<"seleniumlibrary", "click", "button">>)>>
             \o IF ~Says(step.expects, {"successfully"}) THEN <<>>
                ELSE <<IF mobile
                       THEN K({"AppiumLibrary"}, <<"appiumlibrary", "verified", "element">>)
                       ELSE K({"SeleniumLibrary"}, <<"seleniumlibrary", "verified", "page">>)>>
CompareKeywords(step) ==
    LET Has(names) == Fields(step) \cap names # {}
    IN  IF /\ Has({"command_1", "source_command", "source"})
           /\ Has({"command_2", "target_command", "target"})
        THEN <<ProcessKeyword(<<>>), ProcessKeyword(<<>>),
               BuiltIn(<<"should", "be", "equal", "as", "strings">>)>>
        ELSE <<>>

\* generate_multiple_robot_keywords
StructuredKeywords(step) ==
    CASE Forms(step) -> FormKeywords(step)
      [] ~Forms(step) /\ Queries(step) -> QueryKeywords(step)
      [] ~Forms(step) /\ ~Queries(step) /\ CallsApi(step) -> RequestKeywords(step)
      [] ~Forms(step) /\ ~Queries(step) /\ ~CallsApi(step) /\ Uploads(step) ->
             UploadKeywords(step)
      [] OTHER -> CompareKeywords(step)

CredentialKeywords ==
    <<K({"SeleniumLibrary"}, <<"seleniumlibrary", "input", "text", "id", "username">>),
      K({"SeleniumLibrary"}, <<"seleniumlibrary", "input", "password", "id", "password">>)>>

-----------------------------------------------------------------------------
(* The cache of intents *)

\* IntentOf, for the texts there are: a constant, which TLC evaluates once.
Intents ==
    [text \in {WordsOf(s) : s \in UNION {ToSet(StepsOf(d)) : d \in Inputs}} |->
        IntentOf(text)]

Known(text) == \E i \in DOMAIN intents : intents[i].text = text
Recognised(text) ==
    IF Known(text) THEN intents[CHOOSE i \in DOMAIN intents : intents[i].text = text].intent
    ELSE Intents[text]

\* detect_intent: the text goes into the cache, or makes it lose its oldest entries.
Remember(cache, text) ==
    CASE \E i \in DOMAIN cache : cache[i].text = text -> cache
      [] OTHER ->
             IF Len(cache) < IntentCacheLimit
             THEN Append(cache, [text |-> text, intent |-> Intents[text]])
             ELSE IF Len(cache) >= IntentCacheCleanup
             THEN SubSeq(cache, IntentCacheLimit + 1, Len(cache))
             ELSE cache

-----------------------------------------------------------------------------
(* The engine *)

Blank == [title |-> <<>>, tests |-> <<>>, coverage |-> FALSE, templated |-> FALSE]

ConversionInit ==
    /\ doc = Blank
    /\ todo = <<>>
    /\ lines = <<>>
    /\ keywords = <<>>
    /\ context = {}
    /\ intents = <<>>
    /\ phase = "idle"
    /\ converted = {}

\* combine_step_text: the words of all steps in one line.
StepText(d) ==
    FoldLeft(LAMBDA text, step : text \o step.does \o step.fields \o step.says \o step.expects,
             <<>>, StepsOf(d))

\* Mutant of LibraryContext: what an earlier document left is kept.
LibraryContextKept(d) == context \cup LibrariesIn(<<StepText(d)>>, d.coverage)

\* detect_libraries, of which set_library_context tells the keyword generator.
LibraryContext(d) == LibrariesIn(<<StepText(d)>>, d.coverage)

Return(outcome, imports, made) ==
    /\ converted' = converted \cup
           {[doc |-> doc', outcome |-> outcome, imports |-> imports, keywords |-> made]}
    /\ phase' = "idle"

\* A test without steps comes to a placeholder.
Placeholder(d) == IF <<>> \in ToSet(d.tests) THEN <<<<"no", "operation">>>> ELSE <<>>
Convert(d) ==
    /\ phase = "idle"
    /\ Cardinality(converted) < MaxConversions \/ \E s \in converted : s.doc = d
    /\ doc' = d
    /\ UNCHANGED intents
    /\ \/ /\ d.templated
          /\ Return("from template", {}, <<>>)
          /\ UNCHANGED <<todo, lines, keywords, context>>
       \/ /\ ~d.templated /\ d.tests = <<>>
          /\ Return("no tests", {}, <<>>)
          /\ UNCHANGED <<todo, lines, keywords, context>>
       \/ /\ ~d.templated /\ d.tests # <<>>
          /\ phase' = "generate"
          /\ todo' = StepsOf(d)
          /\ lines' = <<d.title>> \o Placeholder(d)
          /\ keywords' = <<>>
          /\ context' = LibraryContext(d)
          /\ UNCHANGED converted

Comments(step) ==
    <<<<"step">> \o step.does, step.fields \o step.says, step.expects>>
    \o IF Says(step.says, {"id_rsa", "pem"}) THEN <<<<"private", "key", "file">>>> ELSE <<>>

Emit(generated, step) ==
    /\ keywords' = keywords \o generated
    /\ lines' = lines \o Comments(step) \o [i \in DOMAIN generated |-> generated[i].line]
    /\ todo' = Tail(todo)
    /\ UNCHANGED <<doc, context, phase, converted>>

GenerateMultiple ==
    /\ phase = "generate" /\ todo # <<>>
    /\ IsStructured(Head(todo))
    /\ Emit(StructuredKeywords(Head(todo)), Head(todo))
    /\ UNCHANGED intents

GenerateCredentials ==
    /\ phase = "generate" /\ todo # <<>>
    /\ ~IsStructured(Head(todo))
    /\ Recognised(WordsOf(Head(todo))) = "credential_input"
    /\ Emit(CredentialKeywords, Head(todo))
    /\ intents' = Remember(intents, WordsOf(Head(todo)))

\* The intent is asked for twice: a text that made the cache lose its oldest entries
\* goes into it the second time.
Single ==
    /\ phase = "generate" /\ todo # <<>>
    /\ ~IsStructured(Head(todo))
    /\ Recognised(WordsOf(Head(todo))) # "credential_input"
    /\ intents' = Remember(Remember(intents, WordsOf(Head(todo))), WordsOf(Head(todo)))
Refused(step) ==
    LET intent == Recognised(WordsOf(step))
    IN  /\ intent \in {"db_query", "db_modify"}
        /\ Suggestions(context, WordsOf(step)) = <<>>
        /\ Dangerous(SqlOf(intent, step))

GenerateSingle ==
    /\ Single
    /\ ~Refused(Head(todo))
    /\ Emit(<<SingleKeyword(context, Recognised(WordsOf(Head(todo))), Head(todo))>>, Head(todo))

\* ValidationError leaves the engine with the context of the document it gave up.
Abandon ==
    /\ Single
    /\ Refused(Head(todo))
    /\ UNCHANGED <<doc, todo, lines, keywords, context>>
    /\ Return("refused", {}, <<>>)

\* Mutant of Imports: only the generated lines are asked.
ImportsOfLines == LibrariesIn(lines, FALSE)

\* The libraries of the steps, and those that the generated lines speak of.
Imports == context \cup LibrariesIn(lines, FALSE)

Finish ==
    /\ phase = "generate" /\ todo = <<>>
    /\ UNCHANGED <<doc, todo, lines, keywords, context, intents>>
    /\ Return("suite", Imports, keywords)

ConversionNext ==
    \/ \E d \in Inputs : Convert(d)
    \/ GenerateMultiple
    \/ GenerateCredentials
    \/ GenerateSingle
    \/ Abandon
    \/ Finish

ConversionSpec == ConversionInit /\ [][ConversionNext]_conversionVars

-----------------------------------------------------------------------------
(* Properties *)

ConversionTypeOK ==
    /\ phase \in {"idle", "generate"}
    /\ context \subseteq Libraries
    /\ \A s \in converted : s.imports \subseteq Libraries
    /\ Len(intents) <= IntentCacheLimit

\* A document comes to the same suite whenever it is converted, whatever the engine
\* converted before, refused half way, or has in its cache of intents.
ConversionRepeats ==
    \A s, t \in converted : s.doc = t.doc => s = t

\* A verification whose library was chosen by the library context is of a library that
\* the suite imports, although the libraries are found twice, before and after the
\* keywords are made, and conflicts between them are resolved each time.  The titles of
\* the tests are only seen the second time: what they say of mobile apps can take
\* SeleniumLibrary away.
IsPageVerification(k) == Len(k.line) > 1 /\ k.line[2] = "page"
NamesApp(title) == \E p \in LibraryPatterns.AppiumLibrary : Matches(p, title)
ChosenLibraryIsImported ==
    \A s \in {t \in converted : ~NamesApp(t.doc.title)} :
        \A k \in ToSet(s.keywords) : IsPageVerification(k) => k.of \subseteq s.imports
=============================================================================
