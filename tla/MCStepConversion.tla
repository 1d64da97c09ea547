---------------------------- MODULE MCStepConversion ----------------------------
(* Instance of StepConversion for TLC: a document for each kind of step with  *)
(* the forms such steps have, documents that mix web and mobile steps in      *)
(* either order, with and without the label that keeps both libraries and     *)
(* with titles that name an app, documents that share steps, documents that   *)
(* are refused at their first or second step, and documents without tests or  *)
(* without steps.                                                             *)
EXTENDS StepConversion

MCStepOf(does, fields, says, expects) ==
    [does |-> does, fields |-> fields, says |-> says, expects |-> expects]
Plain(does) == MCStepOf(does, <<>>, <<>>, <<>>)
MCInput(tests) == [title |-> <<"x">>, tests |-> tests, coverage |-> FALSE, templated |-> FALSE]

MCOpenApp == MCStepOf(<<"open", "application">>, <<"platformname">>, <<"android">>, <<>>)
MCOpenBrowser == MCStepOf(<<"open", "browser">>, <<>>, <<"http", "firefox">>, <<>>)
MCVerify == MCStepOf(<<"verify", "content">>, <<>>, <<>>, <<"welcome">>)
MCEnsure == MCStepOf(<<"ensure", "greeting">>, <<>>, <<>>, <<"welcome">>)
MCVerifyAndLog == Plain(<<"verify", "and", "log">>)
MCEnter == Plain(<<"enter", "username">>)
MCDrop == MCStepOf(<<"run", "query">>, <<"sql">>, <<"select", "name", ";", "drop", "users">>, <<>>)

\* Steps that read what the engine keeps, beside one of web and one of mobile tests.
MCMixes ==
    {MCInput(<<<<a, b>>>>) :
        a \in {MCOpenApp, MCOpenBrowser, MCDrop, MCEnsure}, b \in {MCVerify, MCVerifyAndLog, MCDrop}}
    \cup {MCInput(<<<<MCOpenBrowser>>, <<MCOpenApp, MCVerify>>, <<>>>>),
          MCInput(<<<<MCOpenBrowser, Plain(<<"verify", "xpath", "element">>)>>,
                    <<Plain(<<"launch", "app">>), MCVerify>>>>),
          MCInput(<<<<MCEnter, MCEnter>>>>), MCInput(<<>>), MCInput(<<<<>>>>)}
MCVariants ==
    {[d EXCEPT !.title = t, !.coverage = c] :
        d \in {MCInput(<<<<MCOpenBrowser, MCOpenApp, MCVerify>>>>), MCInput(<<<<MCEnsure>>>>)},
        t \in {<<"x">>, <<"android", "app">>}, c \in BOOLEAN}
    \cup {[MCInput(<<<<MCVerify>>>>) EXCEPT !.templated = TRUE]}

MCWebSteps == <<
    MCOpenBrowser, MCOpenApp, MCVerify, MCVerifyAndLog, MCEnter,
    Plain(<<"navigate", "to", "portal">>),
    MCStepOf(<<"enter", "username">>, <<"username">>, <<"bob">>, <<>>),
    MCStepOf(<<"enter", "password">>, <<>>, <<"native", "app", "page">>, <<>>),
    MCStepOf(<<"enter", "password">>, <<"password">>, <<"x">>, <<>>),
    Plain(<<"click", "login", "button">>), Plain(<<"press">>),
    Plain(<<"provide", "credentials">>)>>
MCDataSteps == <<
    MCStepOf(<<"run", "query">>, <<>>, <<"select", "name", "from", "users">>, <<>>),
    MCStepOf(<<"delete", "record">>, <<"sql">>, <<"delete", "from", "users">>, <<>>),
    Plain(<<"check", "row", "count">>), Plain(<<"connect", "database">>),
    Plain(<<"close", "database">>), Plain(<<"make", "get", "request">>),
    Plain(<<"create", "session">>), Plain(<<"check", "response">>)>>
MCFileSteps == <<
    MCStepOf(<<"copy", "file">>, <<>>, <<"a", "b">>, <<>>),
    MCStepOf(<<"get", "file">>, <<"host">>, <<"a">>, <<>>),
    MCStepOf(<<"move", "file">>, <<"host">>, <<"a">>, <<>>),
    Plain(<<"remove", "file">>), Plain(<<"create", "file">>),
    Plain(<<"verify", "file", "exists">>), MCStepOf(<<"stat">>, <<>>, <<"a">>, <<>>)>>
MCCommandLines == <<
    <<>>, <<"log", "hello">>, <<"get", "file">>, <<"cp", "a", "b">>, <<"mv", "a", "b", "c">>,
    <<"cat">>, <<"curl", "a">>, <<"hash", "a">>, <<"python", "a">>, <<"a", "|", "b", "|", "c">>, <<"a">>>>
MCCommands ==
    [i \in DOMAIN MCCommandLines |-> MCStepOf(<<"echo">>, <<"command">>, MCCommandLines[i], <<>>)]
MCRemoteSteps == <<
    MCStepOf(<<"connect", "to", "server">>, <<"host">>, <<"alpha">>, <<>>),
    Plain(<<"login", "with", "key">>), MCStepOf(<<"login", "ssh">>, <<"username">>, <<"bob">>, <<>>),
    Plain(<<"disconnect", "ssh">>), Plain(<<"close", "all", "connection">>),
    Plain(<<"execute", "command">>), Plain(<<"start", "command">>),
    Plain(<<"execute", "ssh", "read", "output">>), Plain(<<"upload", "file">>),
    Plain(<<"download", "file">>), Plain(<<"read", "until">>), Plain(<<"write">>),
    Plain(<<"create", "directory">>), Plain(<<"list", "directory">>),
    Plain(<<"switch", "connection">>), Plain(<<"enable", "logging">>),
    Plain(<<"set", "ssh", "client", "configuration">>),
    Plain(<<"set", "ssh", "client", "default", "configuration">>),
    MCStepOf(<<"key">>, <<>>, <<"id_rsa">>, <<>>), Plain(<<"monitor", "remote", "load">>)>>
MCBuiltInSteps == <<
    Plain(<<"convert", "to", "integer">>), Plain(<<"log", "message">>),
    Plain(<<"create", "dictionary">>), Plain(<<"should", "match">>),
    Plain(<<"convert", "and", "verify">>), Plain(<<"validate", "and", "convert">>),
    Plain(<<"log", "and", "verify">>), Plain(<<"check", "length">>), Plain(<<"count", "items">>),
    Plain(<<"dance">>)>>
MCStructured == <<
    MCStepOf(<<"fill", "form">>, <<"email", "password", "remember">>, <<"a", "b", "yes">>, <<>>),
    MCStepOf(<<"fill", "android", "app", "form">>, <<"email", "password">>, <<"a", "b">>, <<>>),
    MCStepOf(<<"query", "and", "verify">>, <<"sql", "b">>, <<"select", "y">>, <<"returns", "3">>),
    MCStepOf(<<"query", "and", "verify">>, <<"a", "b">>, <<"x", "y">>, <<>>),
    MCStepOf(<<"call", "api">>, <<"url", "b">>, <<"/", "y">>, <<"status", "200", "contains", "z">>),
    MCStepOf(<<"upload", "and", "verify">>, <<"file", "b">>, <<"x", "y">>,
             <<"app", "uploaded", "successfully">>),
    MCStepOf(<<"upload", "and", "verify">>, <<"file", "b">>, <<"x", "y">>,
             <<"android", "app", "uploaded", "successfully">>),
    MCStepOf(<<"compare">>, <<"command_1", "command_2">>, <<"x", "y">>, <<>>),
    MCStepOf(<<"compare">>, <<"a", "b">>, <<"x", "y">>, <<>>)>>

MCInputs ==
    MCMixes \cup MCVariants
    \cup {MCInput(<<steps>>) : steps \in
             {MCWebSteps, MCDataSteps, MCFileSteps, MCCommands, MCRemoteSteps, MCBuiltInSteps,
              MCStructured}}
=============================================================================
