----------------------------- MODULE IntentPatterns -----------------------------
(***************************************************************************)
(* The tables by which core/pattern_matcher.py reads the text of a step:   *)
(* PatternMatcher finds what the step wants done, LibraryDetector the      *)
(* Robot Framework libraries that a text speaks of.                        *)
(*                                                                         *)
(* A text is a sequence of lower-case words.  The expression               *)
(* \b(?:a|b).*(?:c)\b is <<{"a", "b"}, {"c"}>>: one word of each set, in   *)
(* this order, whatever stands between.  Words that only differ in an      *)
(* ending the expression leaves open are taken as one word, and of two     *)
(* expressions of one library the one the other contains is left out.      *)
(***************************************************************************)
EXTENDS Integers, Sequences, SequencesExt

\* Does the text have a word of each set, in their order?
Matches(has, text) ==
    LET found[i \in 0..Len(text)] ==  \* how many sets the first i words meet
            IF i = 0 THEN 0
            ELSE LET n == found[i - 1]
                 IN  IF n < Len(has) /\ text[i] \in has[n + 1] THEN n + 1 ELSE n
    IN  found[Len(text)] = Len(has)

-----------------------------------------------------------------------------
(* PatternMatcher *)

P(priority, intent, has) == [priority |-> priority, intent |-> intent, has |-> has]
Verify == {"verify", "check", "ensure"}
Enter == {"enter", "input", "type", "fill"}
Click == {"click", "press", "tap"}

\* Command execution and files.
FilePatterns == <<
    P(10, "file_stat", <<{"stat"}>>),
    P(10, "command", <<{"initiate"}, {"download"}>>),
    P(10, "command", <<{"curl", "wget"}>>),
    P(9, "command", <<{"echo", "hash", "blake2bsum"}>>),
    P(9, "command", <<{"chmod", "chown", "stat", "truncate", "cp", "rm", "mkdir", "rmdir",
                       "touch", "ls", "cat"}>>),
    P(8, "file_exists", <<Verify, {"file"}, {"exist", "exists"}>>),
    P(7, "file_remove", <<{"remove", "delete", "clean"}, {"file"}>>),
    P(7, "file_transfer", <<{"get", "retrieve", "transfer"}, {"file"}>>),
    P(7, "file_creation", <<{"create", "write"}, {"file"}>>),
    P(6, "file_transfer", <<{"copy", "move"}, {"file"}>>),
    P(6, "file_exists", <<{"file"}, {"should"}, {"exist"}>>),
    P(6, "file_exists", <<{"file"}, {"exists"}>>),
    P(6, "file_remove", <<{"file"}, {"should"}, {"not"}, {"exist"}>>)>>

DatabasePatterns == <<
    P(8, "db_connect", <<{"connect", "establish", "open"}, {"database"}>>),
    P(7, "db_query", <<{"execute", "run"}, {"sql", "query"}>>),
    P(6, "db_disconnect", <<{"disconnect", "close", "terminate"}, {"database", "db"}>>),
    P(6, "db_modify", <<{"insert", "update", "delete"}, {"record", "row"}>>),
    P(5, "db_row_count", <<{"verify", "check", "validate"}, {"row", "record"}, {"count"}>>)>>

SSHPatterns == <<
    P(7, "ssh_connect", <<{"open", "establish", "create", "connect"},
                          {"ssh", "connection", "remote", "server"}>>),
    P(7, "ssh_connect", <<{"connect"}, {"to"}, {"server", "staging", "production"}>>),
    P(6, "ssh_connect", <<{"connect"}>>),
    P(6, "ssh_disconnect", <<{"close", "disconnect", "terminate"},
                             {"connection", "ssh", "remote"}>>),
    P(7, "ssh_execute", <<{"execute", "run"}, {"command", "ssh"}>>),
    P(7, "ssh_execute", <<{"start"}, {"extraction", "command"}>>),
    P(7, "ssh_login", <<{"login"}, {"ssh"}>>),
    P(7, "ssh_login", <<{"ssh"}, {"login"}>>),
    P(7, "ssh_login", <<{"login"}, {"with"}, {"key"}>>),
    P(7, "ssh_configuration", <<{"set"}, {"ssh"}, {"client"}, {"configuration"}>>),
    P(7, "ssh_file_upload", <<{"upload", "put"}, {"file"}>>),
    P(7, "ssh_file_download", <<{"download", "get"}, {"file"}>>),
    P(8, "ssh_directory_create", <<{"create"}, {"directory"}>>),
    P(7, "ssh_directory_list", <<{"list"}, {"directory"}>>),
    P(7, "ssh_read_until", <<{"read"}, {"until"}>>),
    P(7, "ssh_write", <<{"write"}>>),
    P(7, "ssh_enable_logging", <<{"enable"}, {"logging"}>>),
    P(7, "ssh_switch_connection", <<{"switch"}, {"connection"}>>),
    P(6, "ssh_file_upload", <<{"upload"}, {"application"}, {"archive"}>>),
    P(6, "ssh_read_until", <<{"wait"}, {"for"}, {"extraction", "completion"}>>),
    P(6, "ssh_read_until", <<{"read"}, {"deployment"}, {"output"}>>),
    P(6, "ssh_directory_create", <<{"list"}, {"deployment"}, {"contents"}>>)>>

WebPatterns == <<
    P(8, "browser_open", <<{"open", "navigate", "visit", "launch"},
                           {"browser", "page", "url", "application"}>>),
    P(8, "browser_navigate", <<{"navigate"},
                               {"url", "page", "site", "screen", "login", "portal",
                                "dashboard", "home"}>>),
    P(5, "input_username", <<Enter, {"username", "email"}>>),
    P(5, "input_password", <<Enter, {"password"}>>),
    P(6, "credential_input", <<Enter \cup {"provide"}, {"credentials"}>>),
    P(4, "click", <<Click, {"button", "element"}>>),
    P(5, "click", <<{"submit"}, {"form", "button", "login", "request"}>>),
    P(3, "click", <<Click>>),
    P(5, "web_verify_text", <<{"assert"}, {"page"}, {"contains"}>>),
    P(4, "assertion_contains", <<{"assert"}, {"contains"}>>),
    P(3, "content_verification", <<Verify \cup {"assert", "validate"},
                                   {"content", "contains", "displays"}>>),
    P(2, "content_verification", <<Verify \cup {"assert", "validate"}>>),
    P(3, "content_verification", <<{"verify:"}>>),
    P(3, "element_verification", <<{"element:"}>>)>>

ServicePatterns == <<
    P(5, "api_request", <<{"make", "send", "perform"}, {"get", "post", "put", "delete"},
                          {"request", "api"}>>),
    P(4, "api_session", <<{"create", "establish"}, {"session"}>>),
    P(3, "api_response", <<{"verify", "check", "validate"}, {"response", "status"}>>),
    P(3, "performance_monitoring", <<{"monitor", "measure", "track"},
                                     {"performance", "metrics", "load"}>>),
    P(3, "performance_testing", <<{"test", "execute"}, {"performance", "load", "stress"}>>),
    P(3, "security_testing", <<{"security", "authenticate", "authorization",
                                "vulnerability"}>>),
    P(3, "security_scanning", <<{"scan", "penetration"}>>)>>

BuiltInPatterns == <<
    P(4, "convert_to_integer", <<{"convert"}, {"to"}, {"integer"}>>),
    P(4, "convert_to_string", <<{"convert"}, {"to"}, {"string"}>>),
    P(4, "convert_to_boolean", <<{"convert"}, {"to"}, {"boolean"}>>),
    P(4, "convert_to_number", <<{"convert"}, {"to"}, {"number"}>>),
    P(4, "set_variable", <<{"set"}, {"variable"}>>),
    P(4, "get_variable", <<{"get"}, {"variable"}>>),
    P(4, "create_list", <<{"create"}, {"list"}>>),
    P(4, "create_dictionary", <<{"create"}, {"dictionary"}>>),
    P(4, "get_length", <<{"get"}, {"length"}>>),
    P(4, "length_should_be", <<{"length"}, {"should"}, {"be"}>>),
    P(4, "length_should_be", <<{"check"}, {"length"}, {"of"}, {"collection"}>>),
    P(4, "should_start_with", <<{"should"}, {"start"}, {"with"}>>),
    P(4, "should_end_with", <<{"should"}, {"end"}, {"with"}>>),
    P(4, "should_match", <<{"should"}, {"match"}>>),
    P(4, "evaluate_expression", <<{"evaluate"}>>),
    P(4, "run_keyword_if", <<{"run"}, {"keyword"}, {"if", "conditionally"}>>),
    P(4, "repeat_keyword", <<{"repeat"}, {"keyword"}>>),
    P(4, "fail_test", <<{"fail"}>>),
    P(4, "get_count", <<{"get"}, {"count"}>>),
    P(4, "log_message", <<{"log"}, {"message"}>>)>>

\* _build_patterns, in the order of the source; the sort by priority is stable.
Patterns ==
    FilePatterns \o DatabasePatterns \o SSHPatterns \o WebPatterns \o ServicePatterns
    \o BuiltInPatterns

\* detect_intent: the first match in the order of descending priority.
IntentOf(text) ==
    LET hits == {i \in DOMAIN Patterns : Matches(Patterns[i].has, text)}
        first == CHOOSE i \in hits : \A j \in hits :
                     \/ Patterns[i].priority > Patterns[j].priority
                     \/ Patterns[i].priority = Patterns[j].priority /\ i <= j
    IN  IF hits = {} THEN "none" ELSE Patterns[first].intent

-----------------------------------------------------------------------------
(* LibraryDetector *)

One(words) == {<<{w}>> : w \in words}

\* LIBRARY_PATTERNS.  Only get.*file and its like see the file in keyfile.
LibraryPatterns ==
    [SeleniumLibrary |->
         One({"browser", "navigate", "click", "input", "page", "web", "url", "login",
              "button", "element", "selenium"})
         \cup {<<Verify, {"content", "text"}>>, <<{"title", "location"}, {"should"}>>},
     SSHLibrary |->
         One({"ssh", "remote", "connection", "host", "server"})
         \cup {<<{"execute"}, {"command"}>>},
     Process |->
         One({"command", "execute", "run", "curl", "wget", "bash", "process"}),
     OperatingSystem |->
         One({"file", "directory", "exists", "remove", "delete", "filesystem"})
         \cup {<<{"create", "copy", "move", "get"}, {"keyfile"}>>},
     DatabaseLibrary |->
         One({"database", "sql", "query", "table"})
         \cup {<<{"row"}, {"count"}>>, <<{"insert"}, {"into"}>>, <<{"verify"}, {"row"}>>,
               <<{"delete", "select"}, {"from"}>>},
     RequestsLibrary |->
         One({"api", "rest", "request", "response", "session", "http"})
         \cup {<<{"check"}, {"status"}>>, <<{"status"}, {"should"}, {"be"}>>},
     Collections |->
         One({"list", "dictionary", "collection", "append"})
         \cup {<<{"get"}, {"from"}, {"dict"}>>, <<{"dict"}, {"update"}>>},
     String |->
         One({"string", "uppercase", "lowercase", "strip"}) \cup {<<{"convert"}, {"case"}>>},
     Telnet |-> One({"telnet"}),
     AppiumLibrary |->
         One({"platformname", "devicename", "apppackage", "bundleid", "udid", "webview"})
         \cup {<<{"mobile", "android", "ios", "launch", "install", "native", "hybrid"},
                 {"app"}>>,
               <<{"mobile"}, {"application", "testing"}>>, <<{"appium"}, {"server"}>>},
     FtpLibrary |->
         {<<{"ftp"}, {"server", "connection", "protocol"}>>,
          <<{"file"}, {"transfer"}, {"protocol"}>>},
     MQTTLibrary |->
         One({"mqtt", "publish", "subscribe", "broker", "iot"}) \cup {<<{"message"}, {"queue"}>>},
     RedisLibrary |-> One({"redis", "cache"}) \cup {<<{"key"}, {"value"}>>},
     RobotMongoDBLibrary |->
         One({"mongodb", "mongo", "nosql", "collection"})
         \cup {<<{"document"}, {"database"}>>}]

Libraries == DOMAIN LibraryPatterns

\* What speaks for mobile and for web automation, with its score in hundredths: the
\* confidence times the effective weight, which has the confidence in it once more.
Unique == 451
Strong == 192
Moderate == 72
MobilePatterns ==
    {<<Unique, <<{"android", "ios", "native"}, {"app"}>>>>, <<Unique, <<{"appium"}, {"server"}>>>>,
     <<Unique, <<{"apppackage", "bundleid"}>>>>, <<Strong, <<{"mobile"}, {"application"}>>>>,
     <<Strong, <<{"install", "launch"}, {"app"}>>>>, <<Strong, <<{"swipe"}, {"screen"}>>>>,
     <<Strong, <<{"platformname", "devicename", "udid"}>>>>, <<Moderate, <<{"webview"}>>>>,
     <<Moderate, <<{"mobile"}, {"element", "test"}>>>>}
BrowserPatterns ==
    {<<Unique, <<{"chrome", "firefox"}>>>>, <<Unique, <<{"xpath"}>>>>, <<Unique, <<{"javascript"}>>>>,
     <<Strong, <<{"url", "http"}>>>>, <<Strong, <<{"navigate"}, {"to"}>>>>,
     <<Strong, <<{"open"}, {"browser"}>>>>, <<Strong, <<{"web"}, {"element"}>>>>,
     <<Moderate, <<Click \cup {"type", "verify"}, {"element"}>>>>, <<Moderate, <<{"page"}, {"title"}>>>>}

\* _calculate_bayesian_score, over the lines of a text: no expression matches across
\* the end of a line.
ScoreOf(patterns, lines) ==
    LET hits == {p \in patterns : \E i \in DOMAIN lines : Matches(p[2], lines[i])}
    IN  FoldSet(LAMBDA p, sum : p[1] + sum, 0, hits)

\* _resolve_selenium_appium_conflict and _apply_bayesian_decision
Resolved(libraries, lines) ==
    LET mobile == ScoreOf(MobilePatterns, lines)
        web == ScoreOf(BrowserPatterns, lines)
        preferMobile ==
            \/ mobile >= 285
            \/ web < 285 /\ mobile > web /\ mobile >= 160
    IN  libraries \ {IF preferMobile THEN "SeleniumLibrary" ELSE "AppiumLibrary"}

\* detect_libraries_from_text: both of the two only when the data say that they are
\* there to cover every library.
LibrariesIn(lines, coverage) ==
    LET found == {l \in Libraries : \E p \in LibraryPatterns[l], i \in DOMAIN lines :
                                        Matches(p, lines[i])}
    IN  IF {"SeleniumLibrary", "AppiumLibrary"} \subseteq found /\ ~coverage
        THEN Resolved(found, lines) ELSE found
=============================================================================
