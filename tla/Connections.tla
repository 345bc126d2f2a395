----------------------------- MODULE Connections -----------------------------
(***************************************************************************)
(* The connection cache of robot.utils and the libraries that use it:      *)
(* Telnet, whose keywords read what servers send when it arrives or give   *)
(* up, and the background processes of the OperatingSystem library.        *)
(*                                                                         *)
(* What a server sends is a sequence of tokens: the echo of a text, a line *)
(* end, the output of a command and a prompt. "unread" are those on their  *)
(* way or in the buffer of telnetlib: any of them may still be late.       *)
(***************************************************************************)
EXTENDS Integers, Sequences, FiniteSets, SequencesExt

CONSTANTS Commands,        \* commands that are written
          ConnectionNames,           \* of Switch: [alias, number], see IntName
          MaxConnections,  \* bound: connections in the cache
          MaxConnectionKeywords,     \* bound: Telnet keywords in a behavior
          MaxTries         \* bound: writes in Write Until Expected Output
ASSUME ConnectionsAssumption ==
    /\ ConnectionNames \subseteq [alias: STRING, number: Nat]
    /\ {MaxConnections, MaxConnectionKeywords, MaxTries} \subseteq Nat

VARIABLES connectionCache,      \* of connections, processes in ProcessesSpec
          telnet,     \* connection -> [unread, open, prompt]
          keyword,    \* the Telnet keyword that is running
          keywordCount,      \* keywords so far
          switched,       \* the index Switch Connection returned and its connection
          registered, \* alias -> connection (history)
          processes   \* process -> [closed, ended, read]
connectionVars == <<connectionCache, telnet, keyword, keywordCount, switched, registered, processes>>

NoAlias == ""
NoConnection == 0
IntName(i) == [alias |-> NoAlias, number |-> i]

------------------------------------------------------------------------------
(***************************************************************************)
(* ConnectionCache. A name is an integer or a string, which is an alias if *)
(* one is known and an index if it looks like one.                         *)
(***************************************************************************)
EmptyCache == [connections |-> <<>>, aliases |-> <<>>, current |-> NoConnection]

RegisterIn(c, connection, alias) ==
    LET index == Len(c.connections) + 1
    IN  [connections |-> Append(c.connections, connection),
         aliases |-> IF alias = NoAlias THEN c.aliases
                     ELSE [a \in DOMAIN c.aliases \cup {alias} |->
                              IF a = alias THEN index ELSE c.aliases[a]],
         current |-> index]

GetIndex(c, name) ==
    IF name.alias \in DOMAIN c.aliases THEN c.aliases[name.alias]
    ELSE IF name.number \in DOMAIN c.connections THEN name.number ELSE NoConnection

Switched(c, index) == [c EXCEPT !.current = index]
Emptied(c) == EmptyCache
HasCurrent == connectionCache.current # NoConnection
CurrentConnection == connectionCache.connections[connectionCache.current]

------------------------------------------------------------------------------
(***************************************************************************)
(* Telnet servers echo, answer commands and prompt.                        *)
(***************************************************************************)
Token(what, of) == [what |-> what, of |-> of]
Newline == Token("newline", NoAlias)
Prompt == Token("prompt", NoAlias)
Output(command) == Token("output", command)
AnswerTo(command) == <<Token("echo", command), Newline, Output(command), Newline, Prompt>>
NoOutput(command) == <<Token("echo", command), Newline, Newline, Prompt>>

NoKeyword == [kw |-> "none", command |-> NoAlias, steps |-> <<>>, read |-> <<>>, clean |-> FALSE,
         level |-> TRUE, tries |-> 0, passed |-> TRUE]
Stream == telnet[CurrentConnection]
Running == keyword.steps # <<>>
Step == Head(keyword.steps)

\* The steps of a keyword: texts are sent, and read until one is seen.
SendStep(command) == [do |-> "send", what |-> command]
Until(what) == [do |-> "until", what |-> what]
Try(what) == [do |-> "try", what |-> what]
Write(command) == <<SendStep(command), Until("newline")>>
ReadUntilPrompt == <<Until("prompt")>>
ExecuteCommand(command) == Write(command) \o ReadUntilPrompt
WriteUntilExpectedOutput(command) == <<SendStep(command), Until("echo"), Try("output")>>

StepsOf(kw, command) ==
    CASE kw = "Write" -> Write(command)
      [] kw = "Read Until Prompt" -> ReadUntilPrompt
      [] kw = "Execute Command" -> ExecuteCommand(command)
      [] kw = "Write Until Expected Output" -> WriteUntilExpectedOutput(command)
Keywords == {"Write", "Read Until Prompt", "Execute Command", "Write Until Expected Output"}

Counted == ~Running /\ keywordCount < MaxConnectionKeywords /\ keywordCount' = keywordCount + 1

BeginKeyword(kw, command, level) ==
    /\ Counted /\ HasCurrent
    /\ keyword' = [NoKeyword EXCEPT !.kw = kw, !.command = command, !.level = level, !.steps = StepsOf(kw, command),
                                    !.clean = Stream.unread = <<>>]
    /\ UNCHANGED <<connectionCache, telnet, switched, registered, processes>>

\* The running keyword fails, or goes on or passes after its last step: it
\* returns what that step read, and what others have read is dropped.
Fails == keyword' = [NoKeyword EXCEPT !.passed = FALSE]
GoesOn(read) == keyword' = [keyword EXCEPT !.steps = Tail(@), !.read = read]

\* Nothing can be written to a closed connection. The server may have nothing
\* to answer yet.
SendText ==
    /\ Running /\ Step.do = "send"
    /\ IF Stream.open
       THEN \E answer \in {AnswerTo(Step.what), NoOutput(Step.what)}:
                /\ telnet' = [telnet EXCEPT ![CurrentConnection].unread = @ \o answer]
                /\ keyword' = [keyword EXCEPT !.steps = Tail(@), !.tries = @ + 1]
       ELSE Fails /\ UNCHANGED telnet
    /\ UNCHANGED <<connectionCache, keywordCount, switched, registered, processes>>

\* There is no reading until a prompt that has not been set; what Execute
\* Command has sent is sent.
Reads == Running /\ Step.do # "send" /\ (Step.what = "prompt" => Stream.prompt)
PromptIsNotSet ==
    /\ Running /\ Step.what = "prompt" /\ Step.do = "until" /\ ~Stream.prompt
    /\ Fails /\ UNCHANGED <<connectionCache, telnet, keywordCount, switched, registered, processes>>

Sees(what, tokens) == {i \in DOMAIN tokens: tokens[i].what = what}
ReadMatch ==
    /\ Reads /\ Sees(Step.what, Stream.unread) # {}
    /\ LET seen == Sees(Step.what, Stream.unread)
           end == CHOOSE i \in seen: \A j \in seen: i <= j
       IN  /\ telnet' = [telnet EXCEPT ![CurrentConnection].unread = SubSeq(@, end + 1, Len(@))]
           /\ IF keyword.level THEN GoesOn(SubSeq(Stream.unread, 1, end)) ELSE Fails
    /\ UNCHANGED <<connectionCache, keywordCount, switched, registered, processes>>

\* When the time is up what has arrived is gone. Write Until Expected Output
\* writes again if it has time.
\* Mutant: what was read is returned whether the text was seen or not.
ReturnAnyway == GoesOn(<<>>)
GiveUp == Fails
RetryAgain == keyword.tries < MaxTries
Retried == [keyword EXCEPT !.steps = WriteUntilExpectedOutput(keyword.command), !.read = <<>>]
ReadTimeout ==
    /\ Reads
    /\ \E n \in 0..Len(Stream.unread):
           /\ Sees(Step.what, SubSeq(Stream.unread, 1, n)) = {}
           /\ telnet' = [telnet EXCEPT ![CurrentConnection].unread = SubSeq(@, n + 1, Len(@))]
    /\ \/ Step.do = "try" /\ keyword.level /\ RetryAgain /\ keyword' = Retried
       \/ GiveUp
    /\ UNCHANGED <<connectionCache, keywordCount, switched, registered, processes>>

\* Read returns what is there. Close Connection, too, but the connection stays
\* in the cache.
Read ==
    /\ Counted /\ HasCurrent /\ Stream.open
    /\ \E n \in 0..Len(Stream.unread):
           telnet' = [telnet EXCEPT ![CurrentConnection].unread = SubSeq(@, n + 1, Len(@))]
    /\ keyword' = NoKeyword /\ UNCHANGED <<connectionCache, switched, registered, processes>>
CloseConnection ==
    /\ Counted /\ HasCurrent /\ Stream.open
    /\ telnet' = [telnet EXCEPT ![CurrentConnection].open = FALSE, ![CurrentConnection].unread = <<>>]
    /\ keyword' = NoKeyword /\ UNCHANGED <<connectionCache, switched, registered, processes>>

SetPrompt ==
    /\ Counted /\ HasCurrent
    /\ telnet' = [telnet EXCEPT ![CurrentConnection].prompt = ~@]
    /\ keyword' = NoKeyword /\ UNCHANGED <<connectionCache, switched, registered, processes>>

------------------------------------------------------------------------------
(***************************************************************************)
(* Opening, switching and closing.                                         *)
(***************************************************************************)
Remember(alias, connection) ==
    registered' = IF alias = NoAlias THEN registered
                  ELSE [a \in DOMAIN registered \cup {alias} |->
                           IF a = alias THEN connection ELSE registered[a]]

OpenConnection(alias) ==
    LET new == Len(telnet) + 1
    IN  /\ ~Running /\ new <= MaxConnections
        /\ telnet' = Append(telnet, [unread |-> <<Prompt>>, open |-> TRUE, prompt |-> TRUE])
        /\ connectionCache' = RegisterIn(connectionCache, new, alias) /\ Remember(alias, new)
        /\ UNCHANGED <<keyword, keywordCount, switched, processes>>

OldIndex(name) == [index |-> connectionCache.current, connection |-> IF HasCurrent THEN CurrentConnection ELSE NoConnection]
SwitchConnection(name) ==
    /\ ~Running /\ GetIndex(connectionCache, name) # NoConnection
    /\ connectionCache' = Switched(connectionCache, GetIndex(connectionCache, name)) /\ switched' = OldIndex(name)
    /\ UNCHANGED <<telnet, keyword, keywordCount, registered, processes>>

CloseAllConnections ==
    /\ ~Running
    /\ telnet' = [c \in DOMAIN telnet |-> IF c \in Range(connectionCache.connections)
                      THEN [telnet[c] EXCEPT !.open = FALSE, !.unread = <<>>] ELSE telnet[c]]
    /\ connectionCache' = Emptied(connectionCache) /\ registered' = <<>>
    /\ switched' = [index |-> NoConnection, connection |-> NoConnection]
    /\ UNCHANGED <<keyword, keywordCount, processes>>

TelnetNext ==
    \/ \E alias \in {NoAlias} \cup {n.alias: n \in ConnectionNames}: OpenConnection(alias)
    \/ \E name \in ConnectionNames: SwitchConnection(name)
    \/ \E kw \in Keywords, command \in Commands, level \in BOOLEAN: BeginKeyword(kw, command, level)
    \/ SendText \/ PromptIsNotSet \/ ReadMatch \/ ReadTimeout
    \/ Read \/ CloseConnection \/ SetPrompt \/ CloseAllConnections

------------------------------------------------------------------------------
(***************************************************************************)
(* Background processes. Stopping one only closes the pipe its output is   *)
(* read from; it ends when it likes.                                       *)
(***************************************************************************)
StartProcess(alias) ==
    LET new == Len(processes) + 1
    IN  /\ new <= MaxConnections
        /\ processes' = Append(processes, [closed |-> FALSE, ended |-> FALSE, read |-> 0])
        /\ connectionCache' = RegisterIn(connectionCache, new, alias) /\ Remember(alias, new)
        /\ UNCHANGED <<telnet, keyword, keywordCount, switched>>

SwitchProcess(name) ==
    /\ GetIndex(connectionCache, name) # NoConnection
    /\ connectionCache' = Switched(connectionCache, GetIndex(connectionCache, name))
    /\ UNCHANGED <<telnet, keyword, keywordCount, switched, registered, processes>>

ProcessRead(p) == [p EXCEPT !.read = @ + 1, !.closed = TRUE]
ReadProcessOutput ==
    /\ HasCurrent /\ ~processes[CurrentConnection].closed /\ processes[CurrentConnection].ended
    /\ processes' = [processes EXCEPT ![CurrentConnection] = ProcessRead(@)]
    /\ UNCHANGED <<connectionCache, telnet, keyword, keywordCount, switched, registered>>

StopProcess ==
    /\ HasCurrent
    /\ processes' = [processes EXCEPT ![CurrentConnection].closed = TRUE]
    /\ UNCHANGED <<connectionCache, telnet, keyword, keywordCount, switched, registered>>
StopAllProcesses ==
    /\ processes' = [p \in DOMAIN processes |-> IF p \in Range(connectionCache.connections)
                        THEN [processes[p] EXCEPT !.closed = TRUE] ELSE processes[p]]
    /\ connectionCache' = Emptied(connectionCache) /\ registered' = <<>>
    /\ UNCHANGED <<telnet, keyword, keywordCount, switched>>

ProcessEnds ==
    /\ \E p \in DOMAIN processes: processes' = [processes EXCEPT ![p].ended = TRUE]
    /\ UNCHANGED <<connectionCache, telnet, keyword, keywordCount, switched, registered>>

ProcessesNext ==
    \/ \E alias \in {NoAlias} \cup {n.alias: n \in ConnectionNames}: StartProcess(alias)
    \/ \E name \in ConnectionNames: SwitchProcess(name)
    \/ ReadProcessOutput \/ StopProcess \/ StopAllProcesses \/ ProcessEnds

\* Only one of the libraries is used in a behavior.
UsesProcesses == processes # <<>>
UsesTelnet == telnet # <<>>
ConnectionsInit ==
    /\ connectionCache = EmptyCache /\ telnet = <<>> /\ keyword = NoKeyword /\ keywordCount = 0
    /\ switched = [index |-> NoConnection, connection |-> NoConnection] /\ registered = <<>> /\ processes = <<>>
ConnectionsNext ==
    \/ ~UsesProcesses /\ TelnetNext
    \/ ~UsesTelnet /\ ProcessesNext
ConnectionsFairness == WF_connectionVars(SendText \/ PromptIsNotSet \/ ReadMatch \/ ReadTimeout)
ConnectionsSpec == ConnectionsInit /\ [][ConnectionsNext]_connectionVars /\ ConnectionsFairness

------------------------------------------------------------------------------
\* A name leads where its user expects: an alias to the connection that was
\* opened with it last since the cache was emptied, even if it is spelled like
\* an index, any other name that can be switched to to an index in use, and
\* the index Switch Connection returned back to the connection that was left.
NamesLeadToConnections ==
    /\ \A name \in ConnectionNames:
           LET index == GetIndex(connectionCache, name)
           IN  /\ index # NoConnection => index \in DOMAIN connectionCache.connections
               /\ name.alias \in DOMAIN registered => connectionCache.connections[index] = registered[name.alias]
               /\ name.alias = NoAlias => index \in {name.number, NoConnection}
    /\ switched.index # NoConnection => connectionCache.connections[GetIndex(connectionCache, IntName(switched.index))] = switched.connection

\* Execute Command returns all of the answer to its own command, without the
\* line of the command itself, and nothing else if everything the server had
\* sent before was read. (A read that timed out leaves a late answer, which is
\* read as that of the next command.)
AfterEcho(answer) == SubSeq(answer, 3, Len(answer))
AnswersBelongToCommands ==
    keyword.kw = "Execute Command" /\ ~Running /\ keyword.passed /\ keyword.clean =>
        keyword.read \in {AfterEcho(AnswerTo(keyword.command)), AfterEcho(NoOutput(keyword.command))}

\* Write, as its documentation says, "consumes the written text (until the
\* appended newline) from the output and returns it".
WriteReturnsTheText ==
    keyword.kw = "Write" /\ ~Running /\ keyword.passed =>
        keyword.read = <<Token("echo", keyword.command), Newline>>

\* The output of a process is read once, and by a reader that still had the
\* process in its list.
OutputIsReadOnce ==
    /\ \A p \in DOMAIN processes: processes[p].read <= 1
    /\ \A p \in DOMAIN processes: p \notin Range(connectionCache.connections) => processes[p].closed

\* What a user can rely on: names, answers and outputs are those that were meant.
ConnectionsAreKept == NamesLeadToConnections /\ AnswersBelongToCommands /\ OutputIsReadOnce

\* Stop All Processes, as its documentation says, "stops all the processes":
\* no process that is not in the list runs.
StoppedProcessesEnd ==
    \A p \in DOMAIN processes: p \notin Range(connectionCache.connections) => processes[p].ended

\* Keywords that wait for output end: a read matches or gives up after its
\* timeout, and the text is not written forever.
ReadsEnd == Running ~> ~Running
=============================================================================
