---------------------------- MODULE RemoteLibrary ----------------------------
(***************************************************************************)
(* The libraries Remote and RemoteB, whose keywords are run by a server in *)
(* another process, and the server. RemoteB sends the code of libraries to *)
(* it before it asks, as all others do, for the names of keywords and for  *)
(* their documentation and arguments. The server handles one request at a  *)
(* time; every request has a connection of its own, which may break at any *)
(* moment, and the client may give up waiting when a keyword times out.    *)
(* What keywords print comes back with their results and is left out.      *)
(***************************************************************************)
EXTENDS Integers, Sequences, FiniteSets, SequencesExt

CONSTANTS KeywordsOf,   \* library -> sequence of its keywords
          RemoteImports,      \* sequences of libraries: those sent by one import
          Shipping,     \* whether the library is RemoteB
          RemoteValues,       \* arguments
          Converted(_), Returned(_), Sendable(_), \* what becomes of values: see MCWaiting
          Attempts,     \* to get the names of keywords
          MaxImports, MaxCalls, MaxBreaks, MaxStarts, \* bounds: of what happens
          Nothing
ASSUME RemoteAssumption ==
    /\ \A lib \in DOMAIN KeywordsOf: KeywordsOf[lib] \in Seq(STRING)
    /\ RemoteImports \subseteq Seq(DOMAIN KeywordsOf)
    /\ Attempts \in Nat \ {0} /\ {MaxImports, MaxCalls, MaxBreaks, MaxStarts} \subseteq Nat
\* What is said of the values that get to the server, see ValuesAreConverted.
ASSUME ConversionAssumption ==
    \A v \in RemoteValues: Sendable(Converted(v)) =>
        /\ Sendable(Returned(v))
        /\ Sendable(v) => Returned(v) = v
        /\ Returned(v) = Returned(Converted(v))

VARIABLES server,   \* [up, stopping, hosted, queue, serving, starts]
          client,   \* what it does: [op, left, attempts, request], request is the number it waits for
          answer,   \* that it got, or None
          handlers, \* keywords it knows: [name, twin]
          breaks, requests, callCount, imports, \* how many there have been
          executed, \* number of a request -> how its keyword ended (history)
          lastCall,     \* the last keyword that ended, or None (history)
          broken    \* whether a connection broke during the last import (history)
remoteVars == <<server, client, answer, handlers, breaks, requests, callCount, imports, executed, lastCall, broken>>

Stop == "stop_remote_server"
Doing(op, left, attempts) == [op |-> op, left |-> left, attempts |-> attempts, request |-> 0]
IdleClient == Doing("idle", <<>>, 0)
SocketError == [kind |-> "socket error"]
Fault == [kind |-> "fault"]
ExpatError == [kind |-> "expat error"]
Ok(value) == [kind |-> "ok", value |-> value]

------------------------------------------------------------------------------
(***************************************************************************)
(* The client sends a request and waits for the answer. What it does next  *)
(* depends on what it does, see below.                                     *)
(***************************************************************************)
Waiting == client.op # "idle" /\ answer = Nothing
Request(what, name, value) == [id |-> requests + 1, what |-> what, name |-> name, value |-> value]
\* Mutant: the answer to a request that was given up is read, too.
AnswerFirst(request, result) == answer' = result
Answered(request, result) == answer' = IF Waiting /\ client.request = request.id THEN result ELSE answer
\* Without a server the connection is refused at once.
SendRequest(doing, what, name, value) ==
    /\ requests' = requests + 1 /\ client' = [doing EXCEPT !.request = requests + 1]
    /\ IF server.up THEN server' = [server EXCEPT !.queue = Append(@, Request(what, name, value))] /\ answer' = Nothing
       ELSE answer' = SocketError /\ server' = server

------------------------------------------------------------------------------
(***************************************************************************)
(* The server. Code that was sent is imported; a library is asked for the  *)
(* keyword only when those that were imported earlier do not have it.      *)
(***************************************************************************)
NamesOf(libraries) == FlattenSeq([i \in DOMAIN libraries |-> KeywordsOf[libraries[i]]])
KeywordNames == NamesOf(server.hosted) \o <<Stop>>
GetKeyword(name) == \* the library that has it
    LET having == {i \in DOMAIN server.hosted: name \in Range(KeywordsOf[server.hosted[i]])}
    IN  IF name = Stop THEN Stop ELSE IF having = {} THEN Nothing ELSE server.hosted[CHOOSE i \in having: \A j \in having: i <= j]
StartServer ==
    /\ ~server.up /\ server.starts < MaxStarts
    /\ \E hosted \in IF Shipping THEN {<<>>} ELSE RemoteImports:
           server' = [up |-> TRUE, stopping |-> FALSE, hosted |-> hosted, queue |-> <<>>, serving |-> Nothing, starts |-> server.starts + 1]
    /\ UNCHANGED <<client, answer, handlers, breaks, requests, callCount, imports, executed, lastCall, broken>>
\* When it has stopped its connections are closed.
ServerStopped(s) == [s EXCEPT !.up = FALSE, !.queue = <<>>, !.serving = Nothing]
InQueue(id) == \E i \in DOMAIN server.queue: server.queue[i].id = id
InterruptServer == \* SIGINT or SIGHUP
    /\ server.up /\ ~server.stopping /\ breaks < MaxBreaks /\ breaks' = breaks + 1 /\ broken' = TRUE
    /\ server' = IF server.serving = Nothing THEN ServerStopped(server) ELSE [server EXCEPT !.stopping = TRUE]
    /\ answer' = IF server.serving = Nothing /\ Waiting /\ InQueue(client.request) THEN SocketError ELSE answer
    /\ UNCHANGED <<client, handlers, requests, callCount, imports, executed, lastCall>>
Result(request) == \* of what the server does at once
    CASE request.what = "names" -> Ok(KeywordNames)
      [] request.what = "documentation" -> IF GetKeyword(request.name) = Nothing THEN Fault ELSE Ok(request.name)
      [] request.what = "arguments" -> IF GetKeyword(request.name) = Nothing THEN Fault ELSE Ok(request.name)
      [] request.what = "import" -> Ok(TRUE)
HandleRequest ==
    /\ server.up /\ server.serving = Nothing /\ server.queue # <<>>
    /\ LET request == Head(server.queue)
           rest == [server EXCEPT !.queue = Tail(@)]
       IN  IF request.what = "run" THEN server' = [rest EXCEPT !.serving = request] /\ answer' = answer
           ELSE /\ server' = IF request.what = "import" THEN [rest EXCEPT !.hosted = Append(@, request.name)] ELSE rest
                /\ Answered(request, Result(request))
    /\ UNCHANGED <<client, handlers, breaks, requests, callCount, imports, executed, lastCall, broken>>
\* A keyword gets a converted value, and returns a value of the same kind as
\* the one it was called with. It passes, fails, raises SystemExit, which fails
\* the request, or returns what has no text, or a text not valid in XML.
Endings == {"pass", "fail", "exit", "no text", "invalid"}
RunRemoteKeyword(ending) ==
    /\ server.up /\ server.serving # Nothing
    /\ LET request == server.serving
           found == GetKeyword(request.name)
           end == IF found = Nothing THEN "fail" ELSE IF found = Stop THEN "pass" ELSE ending
           stops == server.stopping \/ found = Stop
           result == CASE end = "pass" -> Ok([status |-> "PASS", return |-> Returned(request.value), id |-> request.id])
                       [] end = "fail" -> Ok([status |-> "FAIL", return |-> Nothing, id |-> request.id])
                       [] end \in {"exit", "no text"} -> Fault
                       [] end = "invalid" -> ExpatError
       IN  /\ executed' = Append(executed, [id |-> request.id, end |-> end, library |-> found])
           /\ server' = IF stops THEN ServerStopped(server) ELSE [server EXCEPT !.serving = Nothing]
           /\ IF stops /\ Waiting /\ InQueue(client.request) THEN answer' = SocketError ELSE Answered(request, result)
    /\ UNCHANGED <<client, handlers, breaks, requests, callCount, imports, lastCall, broken>>
\* The request, if it is not yet handled, may not reach the server. It is the
\* last one in the queue.
BreakConnection ==
    /\ Waiting /\ breaks < MaxBreaks /\ breaks' = breaks + 1
    /\ answer' = SocketError /\ broken' = TRUE
    /\ server' \in {server, IF InQueue(client.request) THEN [server EXCEPT !.queue = Front(@)] ELSE server}
    /\ UNCHANGED <<client, handlers, requests, callCount, imports, executed, lastCall>>

------------------------------------------------------------------------------
(***************************************************************************)
(* Importing: libraries are sent, names are asked for until they are got,  *)
(* and the documentation and the arguments of every keyword are asked for, *)
(* and again for its twin that passes when it fails. A keyword for which a *)
(* connection breaks is left out.                                          *)
(***************************************************************************)
GetNames(attempts) == SendRequest(Doing("names", <<>>, attempts), "names", Nothing, Nothing)
Ship(libraries) ==
    IF libraries = <<>> THEN GetNames(Attempts)
    ELSE SendRequest(Doing("ship", Tail(libraries), 0), "import", Head(libraries), Nothing)
ImportRemote(libraries) ==
    /\ client.op = "idle" /\ imports < MaxImports /\ imports' = imports + 1
    /\ broken' = ~server.up /\ handlers' = {}
    /\ IF Shipping THEN Ship(libraries) ELSE GetNames(Attempts)
    /\ UNCHANGED <<breaks, callCount, executed, lastCall>>
Ends == client' = IdleClient /\ answer' = Nothing /\ UNCHANGED <<server, requests>>
\* Code that the server cannot import, for which RemoteB.py:112 waits in a
\* debugger, is not among what is sent.
LibrarySent ==
    /\ client.op = "ship" /\ answer # Nothing
    /\ IF answer.kind = "ok" THEN Ship(client.left) ELSE Ends
    /\ UNCHANGED <<handlers, breaks, callCount, imports, executed, lastCall, broken>>
Describe(names, attempts) == \* each name four times: see TwinOf
    IF names = <<>> THEN Ends
    ELSE SendRequest(Doing("describe", names, attempts),
              IF attempts % 2 = 0 THEN "documentation" ELSE "arguments", Head(names), Nothing)
GotNames ==
    /\ client.op = "names" /\ answer # Nothing
    /\ CASE answer.kind = "ok" -> Describe(answer.value, 4)
         [] answer.kind # "ok" /\ client.attempts > 1 -> GetNames(client.attempts - 1)
         [] OTHER -> Ends
    /\ UNCHANGED <<handlers, breaks, callCount, imports, executed, lastCall, broken>>
\* 4 and 3 requests are left for the keyword, 2 and 1 for its twin.
Described ==
    /\ client.op = "describe" /\ answer # Nothing
    /\ LET left == client.attempts - 1
           added == CASE left = 2 -> {[name |-> Head(client.left), twin |-> FALSE]}
                      [] left = 0 -> {[name |-> Head(client.left), twin |-> TRUE]}
                      [] OTHER -> {}
       IN  IF answer.kind = "socket error" THEN Describe(Tail(client.left), 4) /\ handlers' = handlers
           ELSE /\ handlers' = handlers \cup added
                /\ IF left = 0 THEN Describe(Tail(client.left), 4) ELSE Describe(client.left, left)
    /\ UNCHANGED <<breaks, callCount, imports, executed, lastCall, broken>>

------------------------------------------------------------------------------
(***************************************************************************)
(* Running keywords.                                                       *)
(***************************************************************************)
Inverted(handler, status) ==
    IF ~handler.twin THEN status ELSE IF status = "FAIL" THEN "PASS" ELSE "FAIL"
CallEnded(handler, status, message, given, result) ==
    lastCall' = [id |-> client.request, name |-> handler.name, twin |-> handler.twin, message |-> message,
             status |-> status, given |-> given, result |-> result]
CallKeyword(handler, value) ==
    /\ client.op = "idle" /\ callCount < MaxCalls /\ callCount' = callCount + 1 /\ handler \in handlers
    /\ IF Sendable(Converted(value))
       THEN SendRequest(Doing("run", <<handler, value>>, 0), "run", handler.name, value) /\ lastCall' = lastCall
       ELSE CallEnded(handler, Inverted(handler, "FAIL"), "overflow", value, Nothing) /\ UNCHANGED <<server, client, answer, requests>>
    /\ UNCHANGED <<handlers, breaks, imports, executed, broken>>
KeywordAnswered ==
    /\ client.op = "run" /\ answer # Nothing /\ Ends
    /\ LET handler == client.left[1]
       IN  IF answer.kind = "ok"
           THEN CallEnded(handler, Inverted(handler, answer.value.status), "remote", client.left[2], answer.value)
           ELSE CallEnded(handler, Inverted(handler, "FAIL"), answer.kind, client.left[2], Nothing)
    /\ UNCHANGED <<handlers, breaks, callCount, imports, executed, broken>>
\* The keyword goes on in the server. The timeout is outside of what is called,
\* so that a twin fails, too.
KeywordTimeout ==
    /\ client.op = "run" /\ answer = Nothing /\ Ends
    /\ CallEnded(client.left[1], "FAIL", "timeout", client.left[2], Nothing)
    /\ UNCHANGED <<handlers, breaks, callCount, imports, executed, broken>>

RemoteInit ==
    /\ server = [up |-> FALSE, stopping |-> FALSE, hosted |-> <<>>, queue |-> <<>>, serving |-> Nothing, starts |-> 0]
    /\ client = IdleClient /\ answer = Nothing /\ handlers = {} /\ executed = <<>> /\ lastCall = Nothing
    /\ breaks = 0 /\ requests = 0 /\ callCount = 0 /\ imports = 0 /\ broken = FALSE
RunAny == \E ending \in Endings: RunRemoteKeyword(ending)
RemoteNext ==
    \/ StartServer \/ InterruptServer \/ HandleRequest \/ RunAny \/ BreakConnection
    \/ LibrarySent \/ GotNames \/ Described \/ KeywordAnswered \/ KeywordTimeout
    \/ \E libraries \in RemoteImports: ImportRemote(libraries)
    \/ \E handler \in handlers, value \in RemoteValues: CallKeyword(handler, value)
\* The server and the client go on, and the keywords in the server end.
RemoteFairness ==
    /\ WF_remoteVars(HandleRequest) /\ WF_remoteVars(RunAny)
    /\ WF_remoteVars(LibrarySent \/ GotNames \/ Described \/ KeywordAnswered)
RemoteSpec == RemoteInit /\ [][RemoteNext]_remoteVars /\ RemoteFairness

------------------------------------------------------------------------------
\* No keyword is run twice for one request, and what is said of it is true,
\* whatever connections broke and whatever keywords were given up before: it
\* passed if it is said to have passed, the server says that it failed only if
\* it did, and the result is its own. One that is given up has failed, a twin,
\* which passes when anything else goes wrong, as well.
AnswersAreOwn ==
    /\ \A i, j \in DOMAIN executed: executed[i].id = executed[j].id => i = j
    /\ lastCall # Nothing /\ lastCall.message = "remote" =>
           /\ lastCall.result.id = lastCall.id
           /\ \E e \in Range(executed): /\ e.id = lastCall.id
                                       /\ e.end = IF lastCall.result.status = "PASS" THEN "pass" ELSE "fail"
    /\ lastCall # Nothing /\ lastCall.status = "PASS" =>
           lastCall.message = "remote" \/ (lastCall.twin /\ lastCall.message # "timeout")

\* An import during which no connection breaks knows all keywords of the
\* server that takes part in it, each with its twin, and every other import
\* knows no keywords but those.
ImportsAreWhole ==
    LET served == {[name |-> name, twin |-> twin]: name \in Range(KeywordNames), twin \in BOOLEAN}
    IN  client.op = "idle" /\ server.starts = 1 /\ server.up /\ imports = 1 =>
            handlers \subseteq served /\ (~broken => handlers = served)

\* Values are converted on both ways, and twice is once: what can be sent
\* comes back as it is, and all that comes back can be sent.
ValuesAreConverted ==
    lastCall # Nothing /\ lastCall.message = "remote" /\ lastCall.result.status = "PASS" =>
        /\ Sendable(lastCall.result.return)
        /\ Sendable(lastCall.given) => lastCall.result.return = lastCall.given
        /\ lastCall.result.return = Returned(Converted(lastCall.given))

\* What the client of a remote library may believe of what the server says.
AnswersAreTrue == AnswersAreOwn /\ ImportsAreWhole /\ ValuesAreConverted

\* Every import and every keyword ends, though the server may stop, or be
\* still at work on what was given up.
RequestsEnd == client.op # "idle" ~> client.op = "idle"

\* A keyword that "does not have access" has been tried.
\* doc: src/doc/examples/remoteb/xmlrpc.rst:23 "Make sure I don't have root
\* access", which uses Failed Create File.
TwinsHaveFailed ==
    lastCall # Nothing /\ lastCall.twin /\ lastCall.status = "PASS" => \E e \in Range(executed): e.id = lastCall.id

\* Numbers are passed.
\* doc: src/doc/userguide/src/ExtendingRobotFramework/RemoteLibrary.txt:114
\* "Strings, numbers and Boolean values are passed without modifications."
NumbersArePassed == lastCall # Nothing => lastCall.message # "overflow"
=============================================================================
