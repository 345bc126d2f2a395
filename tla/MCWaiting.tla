----------------------------- MODULE MCWaiting ------------------------------
(***************************************************************************)
(* Keywords that wait, for TLC: in threads with timeouts, for files, for   *)
(* the output of Telnet connections and for the server of a remote         *)
(* library.  One of the four components runs in each behavior, while the   *)
(* others keep an initial state, in which nobody waits.                    *)
(***************************************************************************)
EXTENDS KeywordThreads, OperatingSystem, Connections, RemoteLibrary, TLC

VARIABLE active    \* the component that runs

------------------------------------------------------------------------------
(***************************************************************************)
(* What becomes of values on their way to and from the server of a remote  *)
(* library: texts, numbers and truth values go as they are, and so do      *)
(* lists and dictionaries of them. A dictionary is a function.             *)
(***************************************************************************)
Base == {"text", "number", "long number", "boolean"}
Text(t) == [type |-> "text", is |-> t]
TextOf(item) == CASE item.type = "none" -> Text("") [] item.type = "text" -> item [] OTHER -> Text(ToString(item.is))
RECURSIVE SentAs(_), CanBeSent(_)
SentAs(v) ==
    CASE v.type \in Base -> v
      [] v.type \in {"tuple", "list"} -> [type |-> "list", is |-> [i \in DOMAIN v.is |-> SentAs(v.is[i])]]
      [] v.type = "dict" -> [type |-> "dict", is |-> [key \in {TextOf(k): k \in DOMAIN v.is} |->
                                                          SentAs(v.is[CHOOSE k \in DOMAIN v.is: TextOf(k) = key])]]
      [] OTHER -> TextOf(v)
HandleArgument(v) == SentAs(v)
HandleReturnValue(v) == SentAs(v)
CanBeSent(v) ==
    CASE v.type \in {"text", "number", "boolean"} -> TRUE
      [] v.type = "list" -> \A i \in DOMAIN v.is: CanBeSent(v.is[i])
      [] v.type = "dict" -> \A key \in DOMAIN v.is: key.type = "text" /\ CanBeSent(v.is[key])
      [] OTHER -> FALSE

------------------------------------------------------------------------------

\* KeywordThreads: two user keywords, one with a timeout that may be shorter or
\* longer than what is left of the test's, and one without.
CONSTANTS timed, plain

TwoHandlers == {timed, plain}
TwoSecs == [h \in TwoHandlers |-> IF h = timed THEN 2 ELSE NoTimeout]

\* OperatingSystem: waits for a file in a directory that may or may not be there.
MCWatched == {<<"b", "a">>}
MCTimeouts == {-1, 0, 2}
MCFirstFiles == {(<<>> :> Dir), (<<>> :> Dir) @@ (<<"b">> :> Dir)}

\* Connections: one, without a name.
MCNames == {IntName(1)}

\* RemoteLibrary: two libraries with the same keyword, sent by an import.
MCKeywordsOf == [lib \in {"first", "second"} |-> <<"a">>]
MCImports == {<<"first", "second">>}
MCNone == [type |-> "none"]
MCNumber == [type |-> "number", is |-> 1]
MCValues ==
    {Text("t"),
     [type |-> "tuple", is |-> <<MCNone, [type |-> "list", is |-> <<[type |-> "object", is |-> "o"]>>]>>],
     [type |-> "dict", is |-> (MCNumber :> MCNone) @@ (Text("k") :> Text("t"))]}
MCLongNumber == {[type |-> "long number", is |-> "l"]}

WaitingInit ==
    /\ active \in {"threads", "files", "connections", "remote"}
    /\ active # "files" => fs = CHOOSE f \in FirstFiles: TRUE
    /\ Init /\ (active # "threads" => ~nests /\ ~recurs)
    /\ FilesInit /\ ConnectionsInit /\ RemoteInit

Others(component) ==
    /\ UNCHANGED active
    /\ component # "threads" => UNCHANGED vars
    /\ component # "files" => UNCHANGED fileVars
    /\ component # "connections" => UNCHANGED connectionVars
    /\ component # "remote" => UNCHANGED remoteVars

WaitingNext ==
    \/ active = "threads" /\ Next /\ Others("threads")
    \/ active = "files" /\ FilesNext /\ Others("files")
    \/ active = "connections" /\ ConnectionsNext /\ Others("connections")
    \/ active = "remote" /\ RemoteNext /\ Others("remote")

\* The fairness of the four components.
WaitingSpec ==
    /\ WaitingInit
    /\ [][WaitingNext]_<<active, vars, fileVars, connectionVars, remoteVars>>
    /\ WF_vars(active = "threads" /\ Tick) /\ WF_vars(TimeoutExpires)
    /\ WF_fileVars(Waits) /\ ConnectionsFairness /\ RemoteFairness

\* All that is waited for ends: hanging keywords, waits for files, reads of output
\* and requests to servers.
WaitingEnds == HangingKeywordsAreLeft /\ WaitsEnd /\ ReadsEnd /\ RequestsEnd
=============================================================================
