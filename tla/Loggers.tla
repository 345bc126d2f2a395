------------------------------ MODULE Loggers ------------------------------
(***************************************************************************)
(* The global LOGGER: loggers that are registered while messages are       *)
(* already being sent, messages kept for those that come later, and        *)
(* listeners whose methods may fail, which sends more messages.            *)
(*                                                                         *)
(* A call of a LOGGER method is a frame of calls with the loggers it has   *)
(* still to reach. The main program is run_from_cli and run.               *)
(***************************************************************************)
EXTENDS Integers, Sequences, FiniteSets, SequencesExt

CONSTANTS Listeners,     \* what is made of each --listener, in order
          Version,       \* API version of each of them, 1 or 2
          Broken,        \* listeners that cannot be taken into use
          SplitOutputs,  \* whether the sub suite has an output of its own
          MaxNesting,    \* bound: nested messages before Python gives up
          MaxFailures    \* bound: failing calls of listeners. The code has none: a
                         \* listener that fails on every message it is relayed is
                         \* relayed the ERROR about it, and so on without an end

Others == {"auto", "file", "console", "xml", "debug", "listeners"}
ASSUME ListenersAssumption ==
    /\ Listeners \in Seq(STRING)
    /\ \A i, j \in DOMAIN Listeners : Listeners[i] = Listeners[j] => i = j
    /\ Range(Listeners) \cap Others = {}
    /\ Version \in [Range(Listeners) -> {1, 2}]
    /\ Broken \subseteq Range(Listeners)
    /\ MaxNesting \in Nat \ {0} /\ MaxFailures \in Nat

VARIABLES contextChanging, regular, \* the registered loggers
          consoleDisabled, \* _console_logger_disabled
          imported, \* the listeners that have been taken into use
          cache,    \* messages kept for later loggers, or NoCache
          calls,    \* active calls of LOGGER, the innermost last
          pc,       \* where the main program is
          at,       \* number of events of the suite already sent
          open,     \* what each receiver has been told to be running
          active,   \* files that are open, listeners that have not been closed
          shown,    \* output files the console has named
          got,      \* messages each receiver has got
          sent,     \* levels of the messages sent to LOGGER.message
          failures, \* <<listener, method, "error" or "exit">> of every failed call
          causes,   \* number of other reasons to send an ERROR
          escaped   \* what the exception was, or ended, that got out of LOGGER

registration == <<contextChanging, regular, consoleDisabled, imported>>
observed == <<open, active, shown, got>>
vars == <<registration, cache, calls, pc, at, observed, sent, failures, causes, escaped>>

NoCache == <<0>>    \* no message has number 0
Receivers == (Others \ {"listeners"}) \cup Range(Listeners)

LEVELS == [NONE |-> 100, ERROR |-> 60, FAIL |-> 50, WARN |-> 40, INFO |-> 30, DEBUG |-> 20]
IsLogged(level, threshold) == LEVELS[level] >= LEVELS[threshold]

\* The messages a receiver has a use for.
WantsMessage(l, level) ==
    CASE l \in {"auto", "console", "xml"} -> IsLogged(level, "WARN")
      [] l = "file" -> IsLogged(level, "INFO")
      [] l = "debug" -> FALSE
      [] OTHER -> Version[l] = 2

AllLoggers == contextChanging \o regular
EndingLoggers == regular \o contextChanging

\* Listeners is one logger, registered once, that calls each listener in turn.
Expand(loggers) ==
    IF \E i \in DOMAIN loggers : loggers[i] = "listeners"
    THEN LET i == CHOOSE i \in DOMAIN loggers : loggers[i] = "listeners"
         IN  SubSeq(loggers, 1, i - 1) \o imported \o SubSeq(loggers, i + 1, Len(loggers))
    ELSE loggers

\* A frame: next is what follows the call, to the logger that gets the cached
\* messages and number that of the one it is at.
Frame(method, item, todo) ==
    [method |-> method, item |-> item, message |-> 0, todo |-> todo,
     next |-> "", to |-> "", number |-> 0]
Call(method, item) ==
    Frame(method, item, Expand(IF method = "end" THEN EndingLoggers ELSE AllLoggers))
Message(message, loggers) == [Frame("message", "", Expand(loggers)) EXCEPT !.message = message]
NewMessage == Message(Len(sent) + 1, AllLoggers)
\* LOGGER.error of a failure, which LOGGER.info of its details follows.
ErrorThenInfo == [NewMessage EXCEPT !.next = "info"]
\* The part of _relay_cached_messages_to from message i on: the cache may have
\* grown meanwhile.
RelayFrom(l, i, messages) ==
    IF messages = NoCache \/ i > Len(messages) THEN <<>>
    ELSE <<[Message(messages[i], <<l>>) EXCEPT !.next = "relay", !.to = l, !.number = i]>>

Top == Last(calls)
Below == Front(calls)
Reached == Append(Below, [Top EXCEPT !.todo = Tail(@)])
Nesting == Cardinality({i \in DOMAIN calls : calls[i].method = "message"})
Called(l) == calls # <<>> /\ Top.todo # <<>> /\ l = Head(Top.todo)

(***************************************************************************)
(* What the receivers do when they are called.                             *)
(***************************************************************************)
Told(l) ==
    open' = CASE Top.method = "start" -> [open EXCEPT ![l] = Append(@, Top.item)]
              [] Top.method = "end" -> [open EXCEPT ![l] = Front(@)]
              [] OTHER -> open
Gets(l) ==
    got' = IF Top.method = "message" /\ WantsMessage(l, sent[Top.message])
           THEN [got EXCEPT ![l] = Append(@, Top.message)] ELSE got
Closes(l) == active' = IF Top.method = "close" THEN active \ {l} ELSE active

\* CommandLineMonitor names the outputs that are written when no suite runs.
ConsoleReceives(l) ==
    /\ l \in {"auto", "console"}
    /\ Told(l) /\ Gets(l)
    /\ shown' = IF Top.method = "output_file" /\ "suite" \notin Range(open[l])
                THEN shown \cup {Top.item} ELSE shown
    /\ UNCHANGED active

\* FileLogger writes everything but log messages as messages to its file.
FileLoggerWrites ==
    \/ Top.method = "message" /\ WantsMessage("file", sent[Top.message])
    \/ Top.method \in {"start", "end", "output_file"}
FileLoggerReceives(l) ==
    /\ l = "file"
    /\ FileLoggerWrites => l \in active
    /\ Gets(l) /\ Closes(l)
    /\ UNCHANGED <<open, shown>>

DebugFileWrites == Top.method \in {"start", "end", "log_message"}
DebugFileReceives(l) ==
    /\ l = "debug"
    /\ DebugFileWrites => l \in active
    /\ Told(l) /\ Closes(l)
    /\ UNCHANGED <<got, shown>>

XmlLoggerReceives(l) == l = "xml" /\ Told(l) /\ Gets(l) /\ UNCHANGED <<active, shown>>

\* Listeners calls each listener with what its API version takes.
ListenerReceives(l) ==
    l \in Range(imported) /\ Told(l) /\ Gets(l) /\ Closes(l) /\ UNCHANGED shown

Receive(l) ==
    \/ ConsoleReceives(l) \/ FileLoggerReceives(l) \/ DebugFileReceives(l)
    \/ XmlLoggerReceives(l) \/ ListenerReceives(l)

\* The debug file is closed at the end of the root suite, after all loggers have
\* been told of it.
DebugFileEnds(l) == l = "debug" /\ Top.method = "end" /\ Len(open[l]) = 1

MayFail(l) ==
    /\ l \in Range(imported) /\ Len(failures) < MaxFailures
    /\ Top.method \in {"message", "log_message"} => Version[l] = 2

\* The output file is opened when the first suite starts, that of a split suite
\* when it does.
OpensOutput ==
    /\ Top.method = "start" /\ Top.item = "suite"
    /\ open["xml"] = <<>> \/ (SplitOutputs /\ Len(open["xml"]) = 1)

(***************************************************************************)
(* Calls of LOGGER.                                                        *)
(***************************************************************************)
Deliver(l) ==
    /\ Called(l)
    /\ Receive(l)
    /\ calls' = IF DebugFileEnds(l)
                THEN Reached \o <<Frame("close", "debug", <<"debug">>),
                                  Call("output_file", "Debug")>>
                ELSE Reached
    /\ UNCHANGED <<registration, cache, pc, at, sent, failures, causes, escaped>>

\* call_method reports the failure of a listener to all loggers, the listeners
\* included.
Fail(l) ==
    /\ Called(l) /\ MayFail(l) /\ Nesting < MaxNesting
    /\ Receive(l)
    /\ failures' = Append(failures, <<l, Top.method, "error">>)
    /\ sent' = Append(sent, "ERROR")
    /\ calls' = Append(Reached, ErrorThenInfo)
    /\ UNCHANGED <<registration, cache, pc, at, causes, escaped>>

\* The call was made by a library keyword, whose failure is logged in turn.
CalledByKeyword ==
    /\ pc = "running"
    /\ \/ calls[1].method = "message"
       \/ calls[1].method = "log_message" /\ calls[1].item # "FAIL"

\* An exception gets out of run, too. _exit reports it.
LeavesRun(cause) ==
    /\ calls' = <<>>
    /\ pc' = IF pc = "ended" THEN pc ELSE "exit"
    /\ escaped' = cause

\* An exception that nothing catches on its way out of LOGGER: a closed file, or
\* too much recursion in the handling of failures.
Raise(l) ==
    /\ Called(l)
    /\ \/ /\ IF l = "file" THEN FileLoggerWrites ELSE l = "debug" /\ DebugFileWrites
          /\ l \notin active
          /\ UNCHANGED failures
       \/ /\ MayFail(l) /\ Nesting = MaxNesting
          /\ failures' = Append(failures, <<l, Top.method, "error">>)
    /\ IF CalledByKeyword
       THEN /\ calls' = <<Call("log_message", "FAIL")>>
            /\ escaped' = "keyword"
            /\ UNCHANGED pc
       ELSE LeavesRun("run")
    /\ UNCHANGED <<registration, cache, at, observed, sent, causes>>

\* A KeyboardInterrupt, a SystemExit or a MemoryError of a listener: who asks
\* get_error_details for it, call_method or the keyword that logs, raises it again.
\* Of a MemoryError _run_or_rebot_from_cli asks, too, so that _exit is not called.
LeavesAtOnce ==
    \/ LeavesRun("exit")
    \/ calls' = <<>> /\ pc' = "ended" /\ escaped' = "exit"

RaiseExit(l) ==
    /\ Called(l) /\ MayFail(l)
    /\ failures' = Append(failures, <<l, Top.method, "exit">>)
    /\ LeavesAtOnce
    /\ UNCHANGED <<registration, cache, at, observed, sent, causes>>

\* XmlLogger's DataError about an output file that cannot be opened.
RaiseDataError(l) ==
    /\ Called(l) /\ l = "xml" /\ OpensOutput
    /\ LeavesRun("output")
    /\ UNCHANGED <<registration, cache, at, observed, sent, failures, causes>>

\* A call that has reached all its loggers. A message is then kept for later
\* ones, and a warning that was logged becomes a message, too.
Return ==
    /\ calls # <<>> /\ Top.todo = <<>>
    /\ LET kept == IF Top.method = "message" /\ Top.next # "relay" /\ cache # NoCache
                   THEN Append(cache, Top.message) ELSE cache
           level == IF Top.next = "info" THEN "INFO"
                    ELSE IF Top.method = "log_message" /\ Top.item = "WARN" THEN "WARN"
                    ELSE "NONE"
       IN /\ cache' = kept
          /\ IF level # "NONE"
             THEN /\ sent' = Append(sent, level)
                  /\ calls' = Append(Below, NewMessage)
             ELSE /\ calls' = IF Top.next = "relay"
                              THEN Below \o RelayFrom(Top.to, Top.number + 1, kept)
                              ELSE Below
                  /\ UNCHANGED sent
    /\ UNCHANGED <<registration, pc, at, observed, failures, causes, escaped>>

(***************************************************************************)
(* The main program.                                                       *)
(***************************************************************************)
Step(from, to) == calls = <<>> /\ pc = from /\ pc' = to

\* LOGGER.message of a new message; an error has to have a cause.
Say(level) ==
    /\ sent' = Append(sent, level)
    /\ calls' = <<IF level = "ERROR" THEN ErrorThenInfo ELSE NewMessage>>
    /\ causes' = IF level = "ERROR" THEN causes + 1 ELSE causes

Register(l) ==
    /\ regular' = Append(regular, l)
    /\ calls' = RelayFrom(l, 1, cache)

RunFromCli ==
    /\ Step("start", "syslog") /\ Say("INFO")
    /\ UNCHANGED <<registration, cache, at, observed, failures, escaped>>

\* Nothing, a file that can be opened, or one that cannot.
RegisterFileLogger ==
    /\ Step("syslog", "sources")
    /\ \/ /\ calls' = <<>>
          /\ UNCHANGED <<regular, active, sent, causes>>
       \/ /\ Register("file")
          /\ active' = active \cup {"file"}
          /\ UNCHANGED <<sent, causes>>
       \/ /\ Say("ERROR")
          /\ UNCHANGED <<regular, active>>
    /\ UNCHANGED <<contextChanging, consoleDisabled, imported, cache, at, open, shown, got, failures, escaped>>

LogSources ==
    /\ Step("sources", "console") /\ Say("INFO")
    /\ UNCHANGED <<registration, cache, at, observed, failures, escaped>>

\* The console does not get the cached messages: the one it replaces has.
RegisterConsoleLogger ==
    /\ Step("console", "output")
    /\ regular' = Append(IF consoleDisabled THEN regular ELSE Tail(regular), "console")
    /\ consoleDisabled' = TRUE
    /\ UNCHANGED <<contextChanging, imported, cache, calls, at, observed, sent, failures, causes, escaped>>

\* Mutant: cached messages are not relayed.
RegisterXmlOnly ==
    /\ Step("output", "listeners")
    /\ contextChanging' = Append(contextChanging, "xml")
    /\ UNCHANGED <<regular, consoleDisabled, imported, cache, calls, at, observed, sent, failures, causes, escaped>>

RegisterXmlLogger ==
    /\ Step("output", "listeners")
    /\ contextChanging' = Append(contextChanging, "xml")
    /\ calls' = RelayFrom("xml", 1, cache)
    /\ UNCHANGED <<regular, consoleDisabled, imported, cache, at, observed, sent, failures, causes, escaped>>

\* All of them are imported before any is registered.
ImportListener ==
    /\ at < Len(Listeners)
    /\ Step("listeners", "listeners")
    /\ Say(IF Listeners[at + 1] \in Broken THEN "ERROR" ELSE "INFO")
    /\ at' = at + 1
    /\ imported' = IF Listeners[at + 1] \in Broken THEN imported ELSE Append(imported, Listeners[at + 1])
    /\ active' = active \cup ({Listeners[at + 1]} \ Broken)
    /\ UNCHANGED <<contextChanging, regular, consoleDisabled, cache, open, shown, got, failures, escaped>>

\* The import of a listener, or its __init__, raises a SystemExit or the like.
ImportExits ==
    /\ at < Len(Listeners) /\ Len(failures) < MaxFailures
    /\ calls = <<>> /\ pc = "listeners"
    /\ failures' = Append(failures, <<Listeners[at + 1], "import", "exit">>)
    /\ LeavesAtOnce
    /\ UNCHANGED <<registration, cache, at, observed, sent, causes>>

\* The message of DebugFile is sent before the listeners are registered, too.
OpenDebugFile ==
    /\ at = Len(Listeners)
    /\ Step("listeners", "register")
    /\ \E opened \in BOOLEAN :
         /\ Say(IF opened THEN "INFO" ELSE "ERROR")
         /\ active' = IF opened THEN active \cup {"debug"} ELSE active
    /\ UNCHANGED <<registration, cache, at, open, shown, got, failures, escaped>>

RegisterListeners ==
    /\ Step("register", "registered")
    /\ IF imported # <<>> THEN Register("listeners") ELSE UNCHANGED <<regular, calls>>
    /\ UNCHANGED <<contextChanging, consoleDisabled, imported, cache, at, observed, sent, failures, causes, escaped>>

RegisterDebugFile ==
    /\ Step("registered", "running")
    /\ regular' = IF "debug" \in active THEN Append(regular, "debug") ELSE regular
    /\ cache' = NoCache
    /\ at' = 0
    /\ UNCHANGED <<contextChanging, consoleDisabled, imported, calls, observed, sent, failures, causes, escaped>>

\* What a directory with one suite of one test sends.
Events == << <<"start", "suite">>, <<"start", "suite">>, <<"start", "test">>,
             <<"start", "kw">>, <<"log", "">>, <<"end", "kw">>, <<"end", "test">>,
             <<"end", "suite">>, <<"split", "">>, <<"end", "suite">> >>

RunSuite ==
    /\ at < Len(Events)
    /\ Step("running", "running")
    /\ at' = at + 1
    /\ LET event == Events[at + 1] IN
       \/ /\ event[1] \in {"start", "end"}
          /\ calls' = <<Call(event[1], event[2])>>
          /\ UNCHANGED <<sent, causes>>
       \/ /\ event[1] = "log"
          /\ \/ Say("INFO")
             \/ \E level \in {"INFO", "WARN"} :
                  calls' = <<Call("log_message", level)>> /\ UNCHANGED <<sent, causes>>
       \/ /\ event[1] = "split"
          /\ calls' = IF SplitOutputs THEN <<Call("output_file", "SplitOutput")>> ELSE <<>>
          /\ UNCHANGED <<sent, causes>>
    /\ UNCHANGED <<registration, cache, observed, failures, escaped>>

ExecutionEnded ==
    /\ at = Len(Events)
    /\ Step("running", "executed") /\ Say("INFO")
    /\ UNCHANGED <<registration, cache, at, observed, failures, escaped>>

Unregistered(loggers, l) ==
    IF l \in Range(loggers) THEN RemoveAt(loggers, CHOOSE i \in DOMAIN loggers : loggers[i] = l) ELSE loggers
\* Output.close: the output file is complete, so nothing goes there any more.
CloseOutput ==
    /\ Step("executed", "log")
    /\ contextChanging' = Unregistered(contextChanging, "xml")
    /\ calls' = <<Frame("output_file", "Output", Expand(regular))>>
    /\ UNCHANGED <<regular, consoleDisabled, imported, cache, at, observed, sent, failures, causes, escaped>>

WriteLog ==
    /\ Step("log", "close")
    /\ calls' = <<Call("output_file", "Log")>>
    /\ UNCHANGED <<registration, cache, at, observed, sent, failures, causes, escaped>>

Close ==
    /\ Step("close", "closing")
    /\ calls' = <<Call("close", "")>>
    /\ UNCHANGED <<registration, cache, at, observed, sent, failures, causes, escaped>>

Closed ==
    /\ Step("closing", "exit")
    /\ contextChanging' = <<>> /\ regular' = <<>> /\ cache' = <<>>
    /\ UNCHANGED <<consoleDisabled, imported, calls, at, observed, sent, failures, causes, escaped>>

\* _exit sends an ERROR in any case, with details of an unexpected one. After a run
\* that succeeded its text is None and no logger is left to show it.
Uncaught == {"run", "exit", "output"}
Exit ==
    /\ Step("exit", "ended")
    /\ sent' = Append(sent, "ERROR")
    /\ calls' = <<IF escaped = "run" THEN ErrorThenInfo ELSE NewMessage>>
    /\ causes' = IF escaped \in Uncaught THEN causes + 1 ELSE causes
    /\ UNCHANGED <<registration, cache, at, observed, failures, escaped>>

Ended == calls = <<>> /\ pc = "ended" /\ UNCHANGED vars

Main ==
    \/ RunFromCli \/ RegisterFileLogger \/ LogSources \/ RegisterConsoleLogger
    \/ RegisterXmlLogger \/ ImportListener \/ OpenDebugFile \/ RegisterListeners
    \/ RegisterDebugFile \/ RunSuite \/ ExecutionEnded \/ CloseOutput \/ WriteLog
    \/ Close \/ Closed \/ Exit

Init ==
    /\ contextChanging = <<>> /\ regular = <<"auto">> /\ consoleDisabled = FALSE /\ imported = <<>>
    /\ cache = <<>> /\ calls = <<>> /\ pc = "start" /\ at = 0
    /\ open = [l \in Receivers |-> <<>>] /\ active = {} /\ shown = {}
    /\ got = [l \in Receivers |-> <<>>]
    /\ sent = <<>> /\ failures = <<>> /\ causes = 0 /\ escaped = "no"

Next ==
    \/ Main \/ ImportExits \/ Return \/ Ended
    \/ \E l \in Receivers :
         Deliver(l) \/ Fail(l) \/ Raise(l) \/ RaiseExit(l) \/ RaiseDataError(l)

Spec == Init /\ [][Next]_vars

(***************************************************************************)
(* Properties.                                                             *)
(***************************************************************************)
FailedIn(method) == \E i \in DOMAIN failures : failures[i][2] = method
Exited == \E i \in DOMAIN failures : failures[i][3] = "exit"

\* What has been shown on the console, or got by another receiver.
Seen(l) == IF l = "console" THEN got["auto"] \o got["console"] ELSE got[l]

\* Also a logger that is registered late, while messages are sent, gets every
\* message from the first one on (Logger's docstring: "cached messages written to
\* new loggers when they are registered"); a listener that fails on a message
\* does not keep it from the others.
MessagesReachEveryone ==
    calls = <<>> /\ escaped = "no" =>
        \A l \in Range(Expand(AllLoggers)), m \in DOMAIN sent :
            WantsMessage(l, sent[m]) => m \in Range(Seen(l))

\* As long as no listener fails on a message, nobody gets one twice or before an
\* earlier one, the messages about other failures included.
MessagesInOrder ==
    ~FailedIn("message") =>
        \A l \in Receivers : \A i, j \in DOMAIN Seen(l) : i < j => Seen(l)[i] < Seen(l)[j]

\* What a listener does or logs in any of its methods lands in the output file
\* inside the suite, test or keyword it is told about: the output file opens it
\* first and closes it last (LoggerCollection.starting_loggers, ending_loggers).
XmlEnclosesListeners ==
    contextChanging # <<>> =>
        \A l \in Receivers : IsPrefix(open[l], open["xml"])

\* call_method keeps the failures of listeners from whoever called LOGGER, but for
\* these: that of a message method comes back to the listener that failed, until
\* Python gives up; that of close comes after the file logger was closed; and what
\* get_error_details raises again, which no keyword, report or other listener holds
\* up: it ends the run. Besides, the run ends if an output file cannot be opened,
\* before any test has been started.
FailuresStayContained ==
    /\ escaped # "no" =>
        \/ FailedIn("message")
        \/ FailedIn("close") /\ "file" \in Range(AllLoggers) /\ "file" \notin active
        \/ Exited
        \/ escaped = "output" /\ at <= 2
    /\ Exited => pc \in {"exit", "ended"} /\ escaped \in Uncaught

\* Nobody is shown an error that nothing has caused, although _exit sends one in
\* any case: LOGGER.close has removed all loggers before.
ErrorsHaveCauses ==
    ~FailedIn("message") =>
        \A l \in Receivers :
            Cardinality({i \in DOMAIN got[l] : sent[got[l][i]] = "ERROR"})
                <= Len(failures) + causes

\* The user guide says that close is "Called after all test suites, and test cases
\* in them, have been executed". It does not hold: when a file logger is used,
\* the failure of one listener in close keeps the next one from being called.
ListenersAreClosed ==
    /\ pc = "ended" /\ calls = <<>> /\ at = Len(Events)
    /\ ~FailedIn("message") /\ ~Exited
    => \A l \in Range(imported) : l \notin active

\* What LOGGER promises of messages and of calls of loggers.
LoggersAreTold ==
    /\ MessagesReachEveryone /\ MessagesInOrder /\ XmlEnclosesListeners
    /\ FailuresStayContained /\ ErrorsHaveCauses
=============================================================================
