---------------------------- MODULE LoggerProofs ----------------------------
(***************************************************************************)
(* Messages reach every logger, once and in their order, the output file   *)
(* encloses what listeners cause, and failures of listeners are contained, *)
(* for any number of listeners and failures.                               *)
(***************************************************************************)
EXTENDS Loggers, FiniteSetTheorems, SequenceTheorems, TLAPS

-----------------------------------------------------------------------------
(* The inductive invariant *)

RegularLoggers == {"auto", "file", "console", "debug", "listeners"}
Methods == {"message", "log_message", "start", "end", "output_file", "close"}
Items == {"", "suite", "test", "kw", "INFO", "WARN", "FAIL", "debug",
          "Debug", "SplitOutput", "Output", "Log"}
Failures == Receivers \X (Methods \cup {"import"}) \X {"error", "exit"}
RelayTargets == {"file", "xml", "listeners"}
FrameType ==
  [method: Methods, item: Items, message: Nat, todo: Seq(Receivers),
   next: {"", "info", "relay"}, to: {""} \cup RelayTargets, number: Nat]

\* What the main program does before all loggers are registered, and at all.
BeforeConsole == {"start", "syslog", "sources", "console"}
BeforeListeners == BeforeConsole \cup {"output"}
Early == BeforeListeners \cup {"listeners", "register", "registered"}
Places == Early \cup {"running", "executed", "log", "close", "closing", "exit", "ended"}

\* Nothing is registered, or called, twice.
Distinct(s) == \A i, j \in DOMAIN s : s[i] = s[j] => i = j
RegistrationType ==
  /\ contextChanging \in {<<>>, <<"xml">>} /\ regular \in Seq(RegularLoggers)
  /\ imported \in Seq(Range(Listeners)) /\ consoleDisabled \in BOOLEAN
  /\ Distinct(regular) /\ Distinct(imported)
TypeOK ==
  /\ RegistrationType /\ cache \in Seq(Nat) /\ calls \in Seq(FrameType)
  /\ pc \in Places /\ at \in Nat
  /\ open \in [Receivers -> Seq(Items)] /\ active \subseteq Receivers
  /\ got \in [Receivers -> Seq(Nat)] /\ sent \in Seq({"INFO", "WARN", "ERROR"})
  /\ failures \in Seq(Failures) /\ causes \in Nat
  /\ escaped \in {"no", "keyword"} \cup Uncaught

DistinctOK ==
  /\ \A k \in DOMAIN calls : Distinct(calls[k].todo)
  /\ pc \in Early => /\ at <= Len(Listeners)
                     /\ \A i \in DOMAIN imported : \E j \in 1 .. at : Listeners[j] = imported[i]


\* Which loggers are registered.
Registered == Range(Expand(AllLoggers))
RegistrationOK ==
  /\ pc \in {"start", "syslog"} => Range(regular) = {"auto"}
  /\ pc \in BeforeConsole => regular # <<>> /\ Head(regular) = "auto" /\ Range(regular) \subseteq {"auto", "file"}
  /\ pc \in BeforeConsole => ~consoleDisabled
  /\ pc \notin BeforeConsole => "auto" \notin Range(regular)
  /\ pc \in {"output", "listeners", "register"} => Range(regular) \subseteq {"file", "console"}
  /\ pc = "registered" => Range(regular) \subseteq {"file", "console", "listeners"}
  /\ pc \in Early \cup {"running"} => contextChanging = IF pc \in BeforeListeners THEN <<>> ELSE <<"xml">>
  /\ pc \in BeforeListeners => at = 0 /\ imported = <<>>
  /\ pc \in Early => escaped = "no"
  /\ pc \in {"exit", "ended"} /\ escaped \notin Uncaught => contextChanging = <<>> /\ regular = <<>>

RelayedTo(to, imp) == IF to = "listeners" THEN Range(imp) ELSE {to}

\* The calls of the main program, and those that follow from them.
MainCall ==
  calls # <<>> =>
    LET method == calls[1].method
    IN  /\ pc = "closing" => method = "close"
        /\ pc = "running" =>
             /\ at \in 1 .. 10
             /\ at \in 1 .. 4 => method = "start" /\ calls[1].item = Events[at][2]
             /\ at = 5 => method \in {"message", "log_message"}
             /\ at \in {6, 7, 8, 10} => method = "end"
             /\ at = 9 => method = "output_file"
FrameOK(k) ==
  LET f == calls[k]
  IN  /\ Range(f.todo) \subseteq Registered
      /\ f.method = "message" => f.message \in DOMAIN sent
      /\ f.method \in {"start", "end", "log_message"} => k = 1 /\ pc = "running"
      /\ f.method = "close" => Range(f.todo) \subseteq {"debug"} \/ (k = 1 /\ pc = "closing")
      /\ f.next # "" => f.method = "message"
      /\ f.next = "relay" =>
           /\ k = 1 /\ pc \in {"sources", "listeners", "registered"}
           /\ f.number \in DOMAIN cache /\ f.message = cache[f.number]
           /\ f.to \in RelayTargets /\ f.to \in Range(AllLoggers)
           /\ Range(f.todo) \subseteq RelayedTo(f.to, imported)
FramesOK == \A k \in DOMAIN calls : FrameOK(k)

\* What is open when the first n events have been sent, and what a logger has
\* been told of them.
Opened ==
  << <<"suite">>, <<"suite", "suite">>, <<"suite", "suite", "test">>,
     <<"suite", "suite", "test", "kw">>, <<"suite", "suite", "test", "kw">>,
     <<"suite", "suite", "test">>, <<"suite", "suite">>, <<"suite">>, <<"suite">>, <<>> >>
OpenedBy(n) == IF n = 0 THEN <<>> ELSE Opened[n]
Followers == {"console", "xml", "debug"} \cup Range(imported)
IsTold(l) == calls # <<>> /\ calls[1].method \in {"start", "end"} /\ l \in Range(calls[1].todo)
EventsOK ==
  /\ pc \in Early => \A l \in Receivers : open[l] = <<>>
  /\ pc = "running" =>
       /\ at \in 0 .. 10
       /\ \A l \in Receivers :
            open[l] = IF l \notin Registered \cap Followers THEN <<>>
                      ELSE IF IsTold(l) THEN OpenedBy(at - 1) ELSE OpenedBy(at)
       /\ calls # <<>> /\ calls[1].method = "start" /\ "xml" \in Range(calls[1].todo) =>
            /\ Head(calls[1].todo) = "xml"
            /\ \A l \in Registered : l \in Range(calls[1].todo)
       /\ calls # <<>> /\ calls[1].method = "end" /\ calls[1].todo # <<>> => Last(calls[1].todo) = "xml"

\* Files that loggers write to are open.
FilesOK ==
  /\ "file" \in Range(regular) /\ "file" \notin active => pc = "closing" \/ escaped \in Uncaught
  /\ "debug" \in Range(regular) => pc \notin Early
  /\ "debug" \in Range(regular) /\ "debug" \notin active =>
       /\ pc = "running" => at = 10
       /\ \A k \in DOMAIN calls :
            calls[k].method \in {"start", "end", "log_message"} => "debug" \notin Range(calls[k].todo)
  /\ \A k \in DOMAIN calls : calls[k].method = "close" /\ k > 1 =>
       pc = "running" /\ at = 10 /\ "debug" \notin Range(calls[1].todo)

\* Where failures go.
FileLost == "file" \in Range(regular) /\ "file" \notin active
FailuresOK ==
  /\ escaped = "keyword" => FailedIn("message")
  /\ escaped \in Uncaught =>
       /\ pc \in {"exit", "ended"}
       /\ FileLost => FailedIn("message") \/ FailedIn("close")
  /\ escaped = "run" => FailedIn("message") \/ FileLost
  /\ escaped = "exit" => Exited
  /\ escaped = "output" => at <= 2
  /\ Exited => escaped \in Uncaught
  /\ pc = "closing" /\ Len(calls) > 1 => FailedIn("message") \/ FailedIn("close")
  /\ \A k \in DOMAIN calls : calls[k].method = "message" => k = Len(calls) \/ FailedIn("message")

\* Messages are kept for loggers that are registered later: in the cache ch, or
\* when they have been sent to all loggers by a call of cs.
Kept(cs, ch, m) ==
  \/ m \in Range(ch)
  \/ \E k \in DOMAIN cs : cs[k].method = "message" /\ cs[k].message = m /\ cs[k].next # "relay"
AllKept(cs, ch, ss) == Range(ch) \subseteq DOMAIN ss /\ \A m \in DOMAIN ss : Kept(cs, ch, m)
CacheOK == pc \in Early => AllKept(calls, cache, sent)

\* A message of ss has come to each logger of reg that wants it, or it will.
SeenIn(g, l) == IF l = "console" THEN g["auto"] \o g["console"] ELSE g[l]
OnItsWay(cs, ch, imp, l, m) ==
  \/ \E k \in DOMAIN cs : cs[k].method = "message" /\ cs[k].message = m /\ l \in Range(cs[k].todo)
  \/ /\ cs # <<>> /\ cs[1].next = "relay" /\ l \in RelayedTo(cs[1].to, imp)
     /\ \E j \in DOMAIN ch : cs[1].number < j /\ ch[j] = m
Reach(cs, g, ch, ss, imp, reg) ==
  \A l \in reg, m \in DOMAIN ss :
    WantsMessage(l, ss[m]) => m \in Range(SeenIn(g, l)) \/ OnItsWay(cs, ch, imp, l, m)
ReachOK == escaped = "no" => Reach(calls, got, cache, sent, imported, Registered)

\* What was got was sent, and who is not yet registered has got nothing.
GotOK ==
  /\ \A l \in Receivers : Range(got[l]) \subseteq DOMAIN sent
  /\ pc \in Early => \A l \in Receivers : l \notin Registered /\ l # "auto" => got[l] = <<>>

\* Messages are got in their order, if no listener fails on one.
Sorted(s) == \A i, j \in DOMAIN s : i < j => s[i] < s[j]
Before(s, m) == \A i \in DOMAIN s : s[i] < m
SendingInOrder(f, g, ch, ss, early) ==
  /\ f.message = Len(ss) /\ (early => Before(ch, f.message))
  /\ \A l \in Range(f.todo) : Before(SeenIn(g, l), f.message)
RelayingInOrder(f, g, imp) ==
  \A l \in RelayedTo(f.to, imp) :
    Before(SeenIn(g, l), IF l \in Range(f.todo) THEN f.message ELSE f.message + 1)
InOrder(cs, g, ch, ss, imp, early) ==
  /\ \A l \in Receivers : Sorted(SeenIn(g, l))
  /\ early => Sorted(ch)
  /\ cs # <<>> /\ Last(cs).method = "message" =>
       IF Last(cs).next = "relay" THEN RelayingInOrder(Last(cs), g, imp)
       ELSE SendingInOrder(Last(cs), g, ch, ss, early)
OrderOK == ~FailedIn("message") => InOrder(calls, got, cache, sent, imported, pc \in Early)

\* Errors that were sent.
ErrorsIn(ss) == {m \in DOMAIN ss : ss[m] = "ERROR"}
Errors == ErrorsIn(sent)
ErrorsOK ==
  /\ (pc = "ended" /\ Registered = {}) \/ Cardinality(Errors) <= Len(failures) + causes
  /\ \A l \in Receivers : Cardinality(Errors \cap Range(got[l])) <= Len(failures) + causes

LoggerBookkeeping ==
  /\ TypeOK /\ DistinctOK /\ RegistrationOK /\ MainCall /\ FramesOK /\ EventsOK
  /\ FilesOK /\ FailuresOK /\ CacheOK /\ ReachOK /\ GotOK /\ OrderOK /\ ErrorsOK
  /\ XmlEnclosesListeners
-----------------------------------------------------------------------------
(* Sequences without repetitions *)

\* What is left when the first element is taken off.
LEMMA TailRange ==
  ASSUME NEW S, NEW s \in Seq(S), s # <<>>, Distinct(s)
  PROVE  /\ Tail(s) \in Seq(S) /\ Distinct(Tail(s))
         /\ Range(Tail(s)) = Range(s) \ {Head(s)}
<1>1. /\ Tail(s) \in Seq(S) /\ Len(Tail(s)) = Len(s) - 1 /\ Len(s) > 0
      /\ \A i \in 1 .. Len(Tail(s)) : Tail(s)[i] = s[i + 1]
  OBVIOUS
<1>2. Distinct(Tail(s))
  BY <1>1 DEF Distinct
<1>3. Range(Tail(s)) \subseteq Range(s) \ {Head(s)}
  BY <1>1 DEF Range, Distinct
<1>4. ASSUME NEW x \in Range(s) \ {Head(s)} PROVE x \in Range(Tail(s))
  <2>1. PICK i \in DOMAIN s : s[i] = x
    BY DEF Range
  <2>2. i # 1
    BY <2>1
  <2>3. i - 1 \in 1 .. Len(Tail(s)) /\ Tail(s)[i - 1] = x
    BY <1>1, <2>1, <2>2
  <2> QED BY <1>1, <2>3 DEF Range
<1> QED BY <1>1, <1>2, <1>3, <1>4

\* The empty sequence has no elements.
LEMMA EmptyRange == ASSUME NEW S, NEW s \in Seq(S) PROVE Range(s) = {} <=> s = <<>>
BY DEF Range

\* A sequence of one.
LEMMA OneRange == ASSUME NEW x PROVE Range(<<x>>) = {x} /\ Distinct(<<x>>)
BY DEF Range, Distinct

\* One more element.
LEMMA AppendRange ==
  ASSUME NEW S, NEW s \in Seq(S), NEW x \in S
  PROVE  /\ Append(s, x) \in Seq(S) /\ Range(Append(s, x)) = Range(s) \cup {x}
         /\ Distinct(s) /\ x \notin Range(s) => Distinct(Append(s, x))
<1>1. /\ Append(s, x) \in Seq(S) /\ Len(Append(s, x)) = Len(s) + 1
      /\ \A i \in 1 .. Len(s) : Append(s, x)[i] = s[i]
      /\ Append(s, x)[Len(s) + 1] = x
  OBVIOUS
<1>2. Range(Append(s, x)) \subseteq Range(s) \cup {x}
  BY <1>1 DEF Range
<1>3. Range(s) \cup {x} \subseteq Range(Append(s, x))
  BY <1>1 DEF Range
<1>4. Distinct(s) /\ x \notin Range(s) => Distinct(Append(s, x))
  BY <1>1 DEF Range, Distinct
<1> QED BY <1>1, <1>2, <1>3, <1>4

\* Two sequences one after the other.
LEMMA ConcatRange ==
  ASSUME NEW S, NEW s \in Seq(S), NEW t \in Seq(S)
  PROVE  /\ s \o t \in Seq(S) /\ Range(s \o t) = Range(s) \cup Range(t)
         /\ Distinct(s) /\ Distinct(t) /\ Range(s) \cap Range(t) = {} => Distinct(s \o t)
<1>1. /\ s \o t \in Seq(S) /\ Len(s \o t) = Len(s) + Len(t)
      /\ \A i \in 1 .. Len(s) + Len(t) : (s \o t)[i] = IF i <= Len(s) THEN s[i] ELSE t[i - Len(s)]
  OBVIOUS
<1>2. Range(s \o t) \subseteq Range(s) \cup Range(t)
  BY <1>1 DEF Range
<1>3. ASSUME NEW x \in Range(s) PROVE x \in Range(s \o t)
  BY <1>1 DEF Range
<1>4. ASSUME NEW x \in Range(t) PROVE x \in Range(s \o t)
  <2>1. PICK i \in 1 .. Len(t) : t[i] = x
    BY DEF Range
  <2>2. (s \o t)[i + Len(s)] = x /\ i + Len(s) \in 1 .. Len(s \o t)
    BY <1>1, <2>1
  <2> QED BY <1>1, <2>2 DEF Range
<1>5. ASSUME Distinct(s), Distinct(t), Range(s) \cap Range(t) = {} PROVE Distinct(s \o t)
  <2>1. \A i \in DOMAIN s, j \in DOMAIN t : s[i] # t[j]
    BY <1>5 DEF Range
  <2>2. \A i, j \in DOMAIN (s \o t) : (s \o t)[i] = (s \o t)[j] => i = j
    BY <1>1, <1>5, <2>1 DEF Distinct
  <2> QED BY <2>2 DEF Distinct
<1> QED BY <1>1, <1>2, <1>3, <1>4, <1>5

\* The elements before and after one of them.
LEMMA SplitRange ==
  ASSUME NEW S, NEW s \in Seq(S), Distinct(s), NEW i \in DOMAIN s
  PROVE  /\ SubSeq(s, 1, i - 1) \in Seq(S) /\ SubSeq(s, i + 1, Len(s)) \in Seq(S)
         /\ Distinct(SubSeq(s, 1, i - 1)) /\ Distinct(SubSeq(s, i + 1, Len(s)))
         /\ Range(SubSeq(s, 1, i - 1)) \cap Range(SubSeq(s, i + 1, Len(s))) = {}
         /\ Range(SubSeq(s, 1, i - 1)) \cup Range(SubSeq(s, i + 1, Len(s))) = Range(s) \ {s[i]}
<1> DEFINE a == SubSeq(s, 1, i - 1)
           b == SubSeq(s, i + 1, Len(s))
<1>1. /\ a \in Seq(S) /\ Len(a) = i - 1
      /\ \A j \in 1 .. i - 1 : a[j] = s[j]
  OBVIOUS
<1>2. /\ b \in Seq(S) /\ Len(b) = Len(s) - i
      /\ \A j \in 1 .. Len(s) - i : b[j] = s[j + i]
  OBVIOUS
<1>0. DOMAIN s = 1 .. Len(s) /\ Len(s) \in Nat /\ i \in 1 .. Len(s) /\ DOMAIN a = 1 .. Len(a) /\ DOMAIN b = 1 .. Len(b)
  BY <1>1, <1>2
<1> HIDE DEF a, b
<1>7. \A p, q \in 1 .. Len(s) : s[p] = s[q] => p = q
  BY <1>0 DEF Distinct
<1>3. Distinct(a) /\ Distinct(b)
  <2>1. \A p, q \in 1 .. Len(a) : a[p] = a[q] => p = q
    BY <1>0, <1>1, <1>7
  <2>2. ASSUME NEW p \in 1 .. Len(b), NEW q \in 1 .. Len(b), b[p] = b[q] PROVE p = q
    <3>1. b[p] = s[p + i] /\ b[q] = s[q + i]
      BY <1>0, <1>2
    <3>2. p + i \in 1 .. Len(s) /\ q + i \in 1 .. Len(s)
      BY <1>0, <1>2
    <3>3. s[p + i] = s[q + i]
      BY <2>2, <3>1
    <3>4. p + i = q + i
      BY <1>7, <3>2, <3>3
    <3> QED BY <1>0, <3>4
  <2> QED BY <1>0, <2>1, <2>2 DEF Distinct
<1>8. \A p \in 1 .. Len(b) : p + i \in 1 .. Len(s) /\ p + i > i /\ b[p] = s[p + i]
  BY <1>0, <1>2
<1>9. \A p \in 1 .. Len(a) : p \in 1 .. Len(s) /\ p < i /\ a[p] = s[p]
  BY <1>0, <1>1
<1>4. Range(a) \cap Range(b) = {}
  <2> SUFFICES ASSUME NEW p \in 1 .. Len(a), NEW q \in 1 .. Len(b), a[p] = b[q] PROVE FALSE
    BY <1>0 DEF Range
  <2>1. p = q + i
    BY ZenonT(60), <1>7, <1>8, <1>9
  <2> QED BY <1>0, <1>8, <1>9, <2>1
<1>5. Range(a) \cup Range(b) \subseteq Range(s) \ {s[i]}
  <2>1. \A p \in 1 .. Len(a) : a[p] \in Range(s) /\ a[p] # s[i]
    BY <1>0, <1>7, <1>9 DEF Range
  <2>2. \A p \in 1 .. Len(b) : b[p] \in Range(s) /\ b[p] # s[i]
    <3> SUFFICES ASSUME NEW p \in 1 .. Len(b) PROVE b[p] \in Range(s) /\ b[p] # s[i]
      OBVIOUS
    <3>1. p + i \in 1 .. Len(s) /\ p + i # i /\ b[p] = s[p + i]
      BY <1>0, <1>8
    <3> QED BY <1>0, <1>7, <3>1 DEF Range
  <2> QED BY <1>0, <2>1, <2>2 DEF Range
<1>6. ASSUME NEW x \in Range(s) \ {s[i]} PROVE x \in Range(a) \cup Range(b)
  <2>1. PICK j \in DOMAIN s : s[j] = x /\ j # i
    BY DEF Range
  <2>2. CASE j < i
    BY <1>0, <1>1, <2>1, <2>2 DEF Range
  <2>3. CASE j > i
    <3>2. j - i \in 1 .. Len(b) /\ (j - i) + i = j
      BY <1>0, <1>2, <2>1, <2>3
    <3>1. b[j - i] = x
      BY <1>8, <2>1, <3>2
    <3> QED BY <1>0, <3>1, <3>2 DEF Range
  <2> QED BY <2>1, <2>2, <2>3
<1> QED BY <1>1, <1>2, <1>3, <1>4, <1>5, <1>6 DEF a, b

-----------------------------------------------------------------------------
(* The loggers that are called *)

\* Which loggers are called, and each of them once.
LEMMA ExpandRange ==
  ASSUME RegistrationType,
         NEW s \in Seq(RegularLoggers \cup {"xml"}), Distinct(s)
  PROVE  /\ Expand(s) \in Seq(Receivers) /\ Distinct(Expand(s))
         /\ Range(Expand(s)) = (Range(s) \ {"listeners"})
                                 \cup IF "listeners" \in Range(s) THEN Range(imported) ELSE {}
<1> DEFINE S == Receivers \cup {"listeners"}
<1>1. s \in Seq(S)
  BY DEF RegularLoggers, Receivers, Others
<1>2. /\ imported \in Seq(S) /\ imported \in Seq(Range(Listeners)) /\ Range(imported) \subseteq Range(Listeners)
      /\ Distinct(imported)
  BY DEF RegistrationType, Receivers, Range
<1>6. Range(s) \subseteq Others
  BY DEF Others, RegularLoggers, Range
<1>3. Range(imported) \cap Others = {} /\ Range(s) \subseteq Others
  BY <1>2, <1>6, ListenersAssumption
<1>4. CASE "listeners" \notin Range(s)
  <2>1. Expand(s) = s
    BY <1>4 DEF Expand, Range
  <2>2. \A i \in DOMAIN s : s[i] \in Receivers
    BY <1>1, <1>4 DEF Range
  <2>3. s \in Seq(Receivers)
    BY <1>1, <2>2
  <2> QED BY <1>4, <2>1, <2>3
<1>5. CASE "listeners" \in Range(s)
  <2> DEFINE i == CHOOSE i \in DOMAIN s : s[i] = "listeners"
             a == SubSeq(s, 1, i - 1)
             b == SubSeq(s, i + 1, Len(s))
  <2>1. i \in DOMAIN s /\ s[i] = "listeners"
    BY <1>5 DEF Range
  <2>2. Expand(s) = a \o imported \o b
    BY <2>1 DEF Expand
  <2> HIDE DEF i
  <2>3. /\ a \in Seq(S) /\ b \in Seq(S) /\ Distinct(a) /\ Distinct(b)
        /\ Range(a) \cap Range(b) = {} /\ Range(a) \cup Range(b) = Range(s) \ {"listeners"}
    BY <1>1, <2>1, SplitRange
  <2> HIDE DEF a, b, S
  <2>4. /\ a \o imported \in Seq(S) /\ Range(a \o imported) = Range(a) \cup Range(imported)
        /\ Distinct(a \o imported)
    BY <1>2, <1>3, <2>3, ConcatRange
  <2> DEFINE c == a \o imported
  <2>12. c \in Seq(S) /\ Distinct(c)
    BY <2>4
  <2>10. Range(c) \cap Range(b) = {}
    BY <1>3, <2>3, <2>4
  <2> HIDE DEF c
  <2>11. /\ c \o b \in Seq(S) /\ Range(c \o b) = Range(c) \cup Range(b) /\ Distinct(c \o b)
    BY <2>3, <2>10, <2>12, ConcatRange
  <2>5. /\ a \o imported \o b \in Seq(S)
        /\ Range(a \o imported \o b) = Range(a) \cup Range(imported) \cup Range(b)
        /\ Distinct(a \o imported \o b)
    BY <2>4, <2>11 DEF c
  <2>6. Range(Expand(s)) = (Range(s) \ {"listeners"}) \cup Range(imported)
    BY <2>2, <2>3, <2>5
  <2>7. Expand(s) \in Seq(S) /\ Distinct(Expand(s))
    BY <2>2, <2>5
  <2>8. \A j \in DOMAIN Expand(s) : Expand(s)[j] \in Receivers
    <3>1. Range(Expand(s)) \subseteq Receivers
      BY <1>2, <1>3, <2>6 DEF Receivers, Others
    <3> QED BY <3>1 DEF Range
  <2>9. Expand(s) \in Seq(Receivers)
    BY <2>7, <2>8
  <2> QED BY <1>5, <2>6, <2>7, <2>9
<1> QED BY <1>4, <1>5

\* All loggers, in both orders.
LEMMA AllLoggersRange ==
  ASSUME RegistrationType
  PROVE  /\ AllLoggers \in Seq(RegularLoggers \cup {"xml"}) /\ Distinct(AllLoggers)
         /\ EndingLoggers \in Seq(RegularLoggers \cup {"xml"}) /\ Distinct(EndingLoggers)
         /\ Range(AllLoggers) = Range(contextChanging) \cup Range(regular)
         /\ Range(EndingLoggers) = Range(contextChanging) \cup Range(regular)
         /\ Range(contextChanging) = IF contextChanging = <<>> THEN {} ELSE {"xml"}
<1> DEFINE S == RegularLoggers \cup {"xml"}
<1>6. contextChanging \in Seq(S)
  <2>1. <<>> \in Seq(S) /\ <<"xml">> \in Seq(S)
    OBVIOUS
  <2> QED BY <2>1 DEF RegistrationType
<1>7. regular \in Seq(RegularLoggers) /\ Distinct(regular)
  BY DEF RegistrationType
<1>8. regular \in Seq(S)
  BY <1>7
<1>9. Range(regular) \subseteq RegularLoggers
  BY <1>7 DEF Range
<1>1. contextChanging \in Seq(S) /\ regular \in Seq(S) /\ Range(regular) \subseteq RegularLoggers
  BY <1>6, <1>8, <1>9
<1>2. Distinct(regular) /\ Distinct(contextChanging) /\ Range(contextChanging) = IF contextChanging = <<>> THEN {} ELSE {"xml"}
  BY OneRange DEF RegistrationType, Range, Distinct
<1>3. Range(contextChanging) \cap Range(regular) = {}
  BY <1>1, <1>2 DEF RegularLoggers
<1> HIDE DEF S
<1>4. /\ contextChanging \o regular \in Seq(S) /\ Distinct(contextChanging \o regular)
      /\ Range(contextChanging \o regular) = Range(contextChanging) \cup Range(regular)
  BY <1>1, <1>2, <1>3, ConcatRange
<1>5. /\ regular \o contextChanging \in Seq(S) /\ Distinct(regular \o contextChanging)
      /\ Range(regular \o contextChanging) = Range(contextChanging) \cup Range(regular)
  BY <1>1, <1>2, <1>3, ConcatRange
<1> QED BY <1>2, <1>4, <1>5 DEF S, AllLoggers, EndingLoggers

RegisteredNow ==
  LET all == Range(contextChanging) \cup Range(regular)
  IN  (all \ {"listeners"}) \cup IF "listeners" \in all THEN Range(imported) ELSE {}

\* All of them are called, or one.
LEMMA RegisteredRange ==
  ASSUME RegistrationType
  PROVE  /\ Registered = RegisteredNow /\ Registered \subseteq Receivers
         /\ Expand(AllLoggers) \in Seq(Receivers) /\ Distinct(Expand(AllLoggers))
         /\ Expand(EndingLoggers) \in Seq(Receivers) /\ Distinct(Expand(EndingLoggers))
         /\ Range(Expand(EndingLoggers)) = Registered
<1>1. /\ Expand(AllLoggers) \in Seq(Receivers) /\ Distinct(Expand(AllLoggers))
      /\ Expand(EndingLoggers) \in Seq(Receivers) /\ Distinct(Expand(EndingLoggers))
      /\ Range(Expand(EndingLoggers)) = RegisteredNow
      /\ Range(Expand(AllLoggers)) = RegisteredNow
  BY AllLoggersRange, ExpandRange DEF RegisteredNow
<1>2. Range(Expand(AllLoggers)) \subseteq Receivers
  BY <1>1 DEF Range
<1> QED BY <1>1, <1>2 DEF Registered

LEMMA RelayedRange ==
  ASSUME RegistrationType, NEW to \in RegularLoggers \cup {"xml"}
  PROVE  /\ Expand(<<to>>) \in Seq(Receivers) /\ Distinct(Expand(<<to>>))
         /\ Range(Expand(<<to>>)) = RelayedTo(to, imported)
<1>1. <<to>> \in Seq(RegularLoggers \cup {"xml"}) /\ Range(<<to>>) = {to} /\ Distinct(<<to>>)
  BY OneRange
<1> QED BY <1>1, ExpandRange DEF RelayedTo

-----------------------------------------------------------------------------
(* Calls in progress *)

\* The last call of a stack, and what is below it.
LEMMA StackParts ==
  ASSUME NEW S, NEW cs \in Seq(S), cs # <<>>
  PROVE  /\ Len(cs) \in Nat \ {0} /\ Last(cs) = cs[Len(cs)] /\ Last(cs) \in S
         /\ Front(cs) \in Seq(S) /\ Len(Front(cs)) = Len(cs) - 1
         /\ \A k \in 1 .. Len(cs) - 1 : Front(cs)[k] = cs[k]
<1>1. Len(cs) \in Nat \ {0} /\ DOMAIN cs = 1 .. Len(cs)
  OBVIOUS
<1>2. Last(cs) = cs[Len(cs)] /\ Last(cs) \in S
  BY <1>1 DEF Last
<1>3. Front(cs) = SubSeq(cs, 1, Len(cs) - 1)
  BY DEF Front
<1>4. /\ SubSeq(cs, 1, Len(cs) - 1) \in Seq(S)
      /\ Len(SubSeq(cs, 1, Len(cs) - 1)) = Len(cs) - 1
      /\ \A k \in 1 .. Len(cs) - 1 : SubSeq(cs, 1, Len(cs) - 1)[k] = cs[k]
  BY <1>1
<1> QED BY <1>1, <1>2, <1>3, <1>4

\* One call more.
LEMMA StackPush ==
  ASSUME NEW S, NEW cs \in Seq(S), NEW x \in S
  PROVE  /\ Append(cs, x) \in Seq(S) /\ Append(cs, x) # <<>> /\ Len(Append(cs, x)) = Len(cs) + 1
         /\ Last(Append(cs, x)) = x
         /\ \A k \in 1 .. Len(cs) : Append(cs, x)[k] = cs[k]
         /\ Append(cs, x)[Len(cs) + 1] = x
BY DEF Last

\* The last call comes on.
LEMMA StackReplace ==
  ASSUME NEW S, NEW cs \in Seq(S), cs # <<>>, NEW x \in S
  PROVE  LET new == Append(Front(cs), x)
         IN  /\ new \in Seq(S) /\ new # <<>> /\ Len(new) = Len(cs) /\ Last(new) = x
             /\ \A k \in 1 .. Len(cs) - 1 : new[k] = cs[k]
             /\ new[Len(cs)] = x
<1>1. Len(cs) \in Nat \ {0} /\ Front(cs) \in Seq(S) /\ Len(Front(cs)) = Len(cs) - 1
  BY StackParts
<1>2. \A k \in 1 .. Len(cs) - 1 : Front(cs)[k] = cs[k]
  BY StackParts
<1> HIDE DEF Front
<1>3. LET new == Append(Front(cs), x)
      IN  /\ new \in Seq(S) /\ new # <<>> /\ Len(new) = Len(Front(cs)) + 1 /\ Last(new) = x
          /\ \A k \in 1 .. Len(Front(cs)) : new[k] = Front(cs)[k]
          /\ new[Len(Front(cs)) + 1] = x
  BY <1>1, StackPush
<1> QED BY <1>1, <1>2, <1>3

\* A call that has reached one more logger.
After(f) == [f EXCEPT !.todo = Tail(@)]
LEMMA AfterType ==
  ASSUME NEW f \in FrameType, f.todo # <<>>, Distinct(f.todo)
  PROVE  /\ After(f) \in FrameType /\ Head(f.todo) \in Receivers
         /\ After(f).method = f.method /\ After(f).item = f.item /\ After(f).message = f.message
         /\ After(f).next = f.next /\ After(f).to = f.to /\ After(f).number = f.number
         /\ After(f).todo = Tail(f.todo) /\ Distinct(After(f).todo)
         /\ Head(f.todo) \in Range(f.todo) /\ Range(f.todo) \subseteq Receivers
         /\ Range(After(f).todo) = Range(f.todo) \ {Head(f.todo)}
<1>1. f.todo \in Seq(Receivers)
  BY DEF FrameType
<1>2. /\ Tail(f.todo) \in Seq(Receivers) /\ Distinct(Tail(f.todo)) /\ Head(f.todo) \in Receivers
      /\ Range(Tail(f.todo)) = Range(f.todo) \ {Head(f.todo)}
  BY <1>1, TailRange
<1>3. Head(f.todo) \in Range(f.todo) /\ Range(f.todo) \subseteq Receivers
  BY <1>1 DEF Range
<1>4. After(f) \in FrameType /\ After(f).todo = Tail(f.todo)
  BY <1>2 DEF After, FrameType
<1> QED BY <1>2, <1>3, <1>4 DEF After, FrameType

-----------------------------------------------------------------------------
(* What has been seen *)

Got(g, f, l, ss) ==
  IF f.method = "message" /\ WantsMessage(l, ss[f.message])
  THEN [g EXCEPT ![l] = Append(@, f.message)] ELSE g

LEMMA SeenType ==
  ASSUME NEW g \in [Receivers -> Seq(Nat)], NEW x \in Receivers
  PROVE  /\ SeenIn(g, x) \in Seq(Nat) /\ Seq(Nat) # {}
         /\ Range(SeenIn(g, x)) = IF x = "console" THEN Range(g["auto"]) \cup Range(g["console"])
                                  ELSE Range(g[x])
<1>1. g["auto"] \in Seq(Nat) /\ g["console"] \in Seq(Nat) /\ g[x] \in Seq(Nat)
  BY DEF Receivers, Others
<1>2. /\ g["auto"] \o g["console"] \in Seq(Nat)
      /\ Range(g["auto"] \o g["console"]) = Range(g["auto"]) \cup Range(g["console"])
  BY <1>1, ConcatRange
<1> QED BY <1>1, <1>2 DEF SeenIn

\* A logger that wants a message has seen it when it has been called.
LEMMA GotSeen ==
  ASSUME NEW g \in [Receivers -> Seq(Nat)], NEW f \in FrameType, NEW l \in Receivers, NEW ss
  PROVE  /\ Got(g, f, l, ss) \in [Receivers -> Seq(Nat)]
         /\ \A x \in Receivers : Range(SeenIn(g, x)) \subseteq Range(SeenIn(Got(g, f, l, ss), x))
         /\ f.method = "message" /\ WantsMessage(l, ss[f.message]) =>
              f.message \in Range(SeenIn(Got(g, f, l, ss), l))
<1>1. CASE ~(f.method = "message" /\ WantsMessage(l, ss[f.message]))
  BY <1>1 DEF Got
<1>2. CASE f.method = "message" /\ WantsMessage(l, ss[f.message])
  <2> DEFINE h == [g EXCEPT ![l] = Append(@, f.message)]
  <2>1. Got(g, f, l, ss) = h /\ f.message \in Nat
    BY <1>2 DEF Got, FrameType
  <2>2. h \in [Receivers -> Seq(Nat)] /\ h[l] = Append(g[l], f.message)
        /\ \A x \in Receivers : x # l => h[x] = g[x]
    BY <2>1
  <2>3. Range(h[l]) = Range(g[l]) \cup {f.message}
    BY <2>1, <2>2, AppendRange
  <2> HIDE DEF h
  <2>4. \A x \in Receivers : Range(g[x]) \subseteq Range(h[x])
    BY <2>2, <2>3
  <2>5. "auto" \in Receivers /\ "console" \in Receivers
    BY DEF Receivers, Others
  <2>6. \A x \in Receivers : Range(SeenIn(g, x)) \subseteq Range(SeenIn(h, x)) /\ Range(h[x]) \subseteq Range(SeenIn(h, x))
    <3> SUFFICES ASSUME NEW x \in Receivers
                 PROVE  Range(SeenIn(g, x)) \subseteq Range(SeenIn(h, x)) /\ Range(h[x]) \subseteq Range(SeenIn(h, x))
      OBVIOUS
    <3>1. Range(SeenIn(g, x)) = IF x = "console" THEN Range(g["auto"]) \cup Range(g["console"]) ELSE Range(g[x])
      BY SeenType
    <3>2. Range(SeenIn(h, x)) = IF x = "console" THEN Range(h["auto"]) \cup Range(h["console"]) ELSE Range(h[x])
      BY <2>2, SeenType
    <3> QED BY <2>4, <2>5, <3>1, <3>2
  <2> QED BY <2>1, <2>2, <2>3, <2>6
<1> QED BY <1>1, <1>2

-----------------------------------------------------------------------------
(* A message that is sent *)

Levels == {"INFO", "WARN", "ERROR"}
IsNew(f, ss) == f.method = "message" /\ f.message = Len(ss) + 1 /\ f.next # "relay"

LEMMA SentMore ==
  ASSUME NEW ss \in Seq(Levels), NEW level \in Levels
  PROVE  /\ Append(ss, level) \in Seq(Levels)
         /\ DOMAIN Append(ss, level) = DOMAIN ss \cup {Len(ss) + 1}
         /\ \A m \in DOMAIN ss : m \in 1 .. Len(ss) /\ Append(ss, level)[m] = ss[m]
         /\ Append(ss, level)[Len(ss) + 1] = level
         /\ Len(ss) + 1 \notin DOMAIN ss /\ Len(ss) + 1 \in Nat
OBVIOUS

\* A new message is on its way to all loggers, and the others still are.
LEMMA SendReach ==
  ASSUME NEW cs \in Seq(FrameType), NEW g, NEW ch, NEW ss \in Seq(Levels), NEW imp, NEW reg,
         NEW level \in Levels, NEW f \in FrameType, IsNew(f, ss), reg \subseteq Range(f.todo),
         Reach(cs, g, ch, ss, imp, reg)
  PROVE  Reach(Append(cs, f), g, ch, Append(ss, level), imp, reg)
<1> DEFINE new == Append(cs, f)
<1>1. /\ new # <<>> /\ Len(new) = Len(cs) + 1 /\ new[Len(cs) + 1] = f
      /\ \A k \in 1 .. Len(cs) : new[k] = cs[k]
      /\ DOMAIN new = 1 .. Len(cs) + 1 /\ DOMAIN cs = 1 .. Len(cs) /\ Len(cs) \in Nat
  BY StackPush
<1> HIDE DEF new
<1> SUFFICES ASSUME NEW l \in reg, NEW m \in DOMAIN Append(ss, level),
                    WantsMessage(l, Append(ss, level)[m])
             PROVE  m \in Range(SeenIn(g, l)) \/ OnItsWay(new, ch, imp, l, m)
  BY DEF Reach, new
<1>2. CASE m = Len(ss) + 1
  <2>1. new[Len(cs) + 1].method = "message" /\ new[Len(cs) + 1].message = m /\ l \in Range(new[Len(cs) + 1].todo)
    BY <1>1, <1>2 DEF IsNew
  <2> QED BY <1>1, <2>1 DEF OnItsWay
<1>3. CASE m # Len(ss) + 1
  <2>1. m \in DOMAIN ss /\ Append(ss, level)[m] = ss[m]
    BY <1>3, SentMore
  <2>2. m \in Range(SeenIn(g, l)) \/ OnItsWay(cs, ch, imp, l, m)
    BY <2>1 DEF Reach
  <2>3. ASSUME OnItsWay(cs, ch, imp, l, m) PROVE OnItsWay(new, ch, imp, l, m)
    <3>1. CASE \E k \in DOMAIN cs : cs[k].method = "message" /\ cs[k].message = m /\ l \in Range(cs[k].todo)
      BY <1>1, <3>1 DEF OnItsWay
    <3>2. CASE /\ cs # <<>> /\ cs[1].next = "relay" /\ l \in RelayedTo(cs[1].to, imp)
               /\ \E j \in DOMAIN ch : cs[1].number < j /\ ch[j] = m
      <4>1. new[1] = cs[1]
        BY <1>1, <3>2
      <4> QED BY <1>1, <3>2, <4>1 DEF OnItsWay
    <3> QED BY <2>3, <3>1, <3>2 DEF OnItsWay
  <2> QED BY <2>2, <2>3
<1> QED BY <1>2, <1>3

\* It will be kept.
LEMMA SendKept ==
  ASSUME NEW cs \in Seq(FrameType), NEW ch, NEW ss \in Seq(Levels),
         NEW level \in Levels, NEW f \in FrameType, IsNew(f, ss), AllKept(cs, ch, ss)
  PROVE  AllKept(Append(cs, f), ch, Append(ss, level))
<1> DEFINE new == Append(cs, f)
<1>1. /\ new[Len(cs) + 1] = f /\ \A k \in 1 .. Len(cs) : new[k] = cs[k]
      /\ DOMAIN new = 1 .. Len(cs) + 1 /\ DOMAIN cs = 1 .. Len(cs) /\ Len(cs) \in Nat
  BY StackPush
<1> HIDE DEF new
<1>2. Range(ch) \subseteq DOMAIN Append(ss, level)
  BY SentMore DEF AllKept
<1>3. ASSUME NEW m \in DOMAIN Append(ss, level) PROVE Kept(new, ch, m)
  <2>1. CASE m = Len(ss) + 1
    BY <1>1, <2>1 DEF Kept, IsNew
  <2>2. CASE m # Len(ss) + 1
    <3>1. m \in DOMAIN ss
      BY <2>2, SentMore
    <3> QED BY <1>1, <3>1 DEF Kept, AllKept
  <2> QED BY <2>1, <2>2
<1> QED BY <1>2, <1>3 DEF AllKept, new

LEMMA BeforeRange ==
  ASSUME NEW s \in Seq(Nat), NEW m \in Nat
  PROVE  Before(s, m) <=> \A x \in Range(s) : x < m
BY DEF Before, Range

LEMMA BeforeLess ==
  ASSUME NEW s \in Seq(Nat), NEW m \in Nat, NEW n \in Nat, m < n, Before(s, m + 1)
  PROVE  Before(s, n)
BY DEF Before

LEMMA TodoRange == ASSUME NEW f \in FrameType PROVE f.todo \in Seq(Receivers) /\ Range(f.todo) \subseteq Receivers
<1>1. f.todo \in Seq(Receivers)
  BY DEF FrameType
<1> QED BY <1>1 DEF Range

\* Everyone has got earlier messages only.
LEMMA SendInOrder ==
  ASSUME NEW cs \in Seq(FrameType), NEW g \in [Receivers -> Seq(Nat)], NEW ch \in Seq(Nat), NEW ss \in Seq(Levels),
         NEW imp, NEW early \in BOOLEAN,
         NEW level \in Levels, NEW f \in FrameType, IsNew(f, ss),
         \A l \in Receivers : Range(g[l]) \subseteq DOMAIN ss,
         early => Range(ch) \subseteq DOMAIN ss,
         InOrder(cs, g, ch, ss, imp, early)
  PROVE  InOrder(Append(cs, f), g, ch, Append(ss, level), imp, early)
<1>1. Append(cs, f) # <<>> /\ Last(Append(cs, f)) = f /\ f.message = Len(ss) + 1
  BY StackPush DEF IsNew
<1>2. Len(Append(ss, level)) = Len(ss) + 1 /\ DOMAIN ss = 1 .. Len(ss) /\ Len(ss) \in Nat
  OBVIOUS
<1>7. \A x \in DOMAIN ss : x < f.message
  BY <1>1, <1>2
<1>8. Before(ch, f.message) <=> \A x \in Range(ch) : x < f.message
  BY <1>1, <1>2, BeforeRange
<1>3. early => Before(ch, f.message)
  <2> SUFFICES ASSUME early = TRUE PROVE Before(ch, f.message)
    OBVIOUS
  <2>1. Range(ch) \subseteq DOMAIN ss
    OBVIOUS
  <2> QED BY <1>7, <1>8, <2>1
<1>4. ASSUME NEW l \in Range(f.todo) PROVE Before(SeenIn(g, l), f.message)
  <2>1. l \in Receivers
    BY TodoRange
  <2>2. SeenIn(g, l) \in Seq(Nat) /\ Range(SeenIn(g, l)) \subseteq DOMAIN ss
    <3>1. "auto" \in Receivers /\ "console" \in Receivers
      BY DEF Receivers, Others
    <3> QED BY <2>1, <3>1, SeenType
  <2> QED BY <1>1, <1>2, <1>7, <2>2, BeforeRange
<1>5. SendingInOrder(f, g, ch, Append(ss, level), early)
  BY <1>1, <1>2, <1>3, <1>4 DEF SendingInOrder
<1>6. f.next # "relay"
  BY DEF IsNew
<1> QED BY <1>1, <1>5, <1>6 DEF InOrder

-----------------------------------------------------------------------------
(* A logger that is called *)

Called1(cs) == Append(Front(cs), After(Last(cs)))
GotBy(cs, g, ss) == Got(g, Last(cs), Head(Last(cs).todo), ss)
CanCall(cs) == cs # <<>> /\ Last(cs).todo # <<>> /\ Distinct(Last(cs).todo)

\* Only the loggers still to be called are others.
LEMMA CalledParts ==
  ASSUME NEW cs \in Seq(FrameType), CanCall(cs)
  PROVE  LET f == Last(cs)
             new == Called1(cs)
         IN  /\ f \in FrameType /\ new \in Seq(FrameType) /\ new # <<>> /\ Last(new) = After(f)
             /\ Len(cs) \in Nat \ {0} /\ Len(new) = Len(cs)
             /\ DOMAIN new = 1 .. Len(cs) /\ DOMAIN cs = 1 .. Len(cs)
             /\ f = cs[Len(cs)] /\ new[Len(cs)] = After(f)
             /\ \A k \in 1 .. Len(cs) - 1 : new[k] = cs[k]
             /\ \A k \in 1 .. Len(cs) :
                  /\ new[k].method = cs[k].method /\ new[k].item = cs[k].item /\ new[k].message = cs[k].message
                  /\ new[k].next = cs[k].next /\ new[k].to = cs[k].to /\ new[k].number = cs[k].number
                  /\ Distinct(cs[k].todo) => Distinct(new[k].todo)
                  /\ Range(new[k].todo) = IF k = Len(cs) THEN Range(cs[k].todo) \ {Head(f.todo)}
                                          ELSE Range(cs[k].todo)
<1> DEFINE f == Last(cs)
           new == Called1(cs)
<1>1. Len(cs) \in Nat \ {0} /\ f \in FrameType /\ f = cs[Len(cs)] /\ DOMAIN cs = 1 .. Len(cs)
  BY StackParts DEF CanCall
<1>2. f.todo # <<>> /\ Distinct(f.todo) /\ cs # <<>>
  BY DEF CanCall
<1> HIDE DEF f
<1>3. /\ After(f) \in FrameType
      /\ After(f).method = f.method /\ After(f).item = f.item /\ After(f).message = f.message
      /\ After(f).next = f.next /\ After(f).to = f.to /\ After(f).number = f.number
      /\ Distinct(After(f).todo)
      /\ Range(After(f).todo) = Range(f.todo) \ {Head(f.todo)}
  BY <1>1, <1>2, AfterType
<1>4. new = Append(Front(cs), After(f))
  BY DEF f, Called1
<1> HIDE DEF new
<1>5. /\ new \in Seq(FrameType) /\ new # <<>> /\ Len(new) = Len(cs) /\ Last(new) = After(f)
      /\ \A k \in 1 .. Len(cs) - 1 : new[k] = cs[k]
      /\ new[Len(cs)] = After(f)
  BY <1>2, <1>3, <1>4, StackReplace
<1>6. DOMAIN new = 1 .. Len(cs)
  BY <1>1, <1>5
<1>7. ASSUME NEW k \in 1 .. Len(cs)
      PROVE  /\ new[k].method = cs[k].method /\ new[k].item = cs[k].item /\ new[k].message = cs[k].message
             /\ new[k].next = cs[k].next /\ new[k].to = cs[k].to /\ new[k].number = cs[k].number
             /\ Distinct(cs[k].todo) => Distinct(new[k].todo)
             /\ Range(new[k].todo) = IF k = Len(cs) THEN Range(cs[k].todo) \ {Head(f.todo)}
                                     ELSE Range(cs[k].todo)
  <2>1. CASE k = Len(cs)
    BY <1>1, <1>3, <1>5, <2>1
  <2>2. CASE k # Len(cs)
    <3>1. k \in 1 .. Len(cs) - 1
      <4>1. Len(cs) \in Nat
        BY <1>1
      <4> QED BY <2>2, <4>1
    <3> QED BY <1>5, <2>2, <3>1
  <2> QED BY <2>1, <2>2
<1> QED BY <1>1, <1>5, <1>6, <1>7 DEF f, new

\* It has seen the message then.
LEMMA CallReach ==
  ASSUME NEW cs \in Seq(FrameType), CanCall(cs), NEW g \in [Receivers -> Seq(Nat)],
         NEW ch, NEW ss, NEW imp, NEW reg \in SUBSET Receivers, Reach(cs, g, ch, ss, imp, reg)
  PROVE  Reach(Called1(cs), GotBy(cs, g, ss), ch, ss, imp, reg)
<1> DEFINE f == Last(cs)
           l == Head(f.todo)
           new == Called1(cs)
           h == GotBy(cs, g, ss)
<1>1. /\ f \in FrameType /\ new # <<>> /\ Len(cs) \in Nat \ {0}
      /\ DOMAIN new = 1 .. Len(cs) /\ DOMAIN cs = 1 .. Len(cs) /\ f = cs[Len(cs)]
      /\ \A k \in 1 .. Len(cs) :
           /\ new[k].method = cs[k].method /\ new[k].message = cs[k].message
           /\ new[k].next = cs[k].next /\ new[k].to = cs[k].to /\ new[k].number = cs[k].number
           /\ Range(new[k].todo) = IF k = Len(cs) THEN Range(cs[k].todo) \ {l} ELSE Range(cs[k].todo)
  BY ZenonT(60), CalledParts
<1>2. l \in Receivers
  BY <1>1, AfterType DEF CanCall
<1>3. /\ \A x \in Receivers : Range(SeenIn(g, x)) \subseteq Range(SeenIn(h, x))
      /\ f.method = "message" /\ WantsMessage(l, ss[f.message]) => f.message \in Range(SeenIn(h, l))
  BY <1>1, <1>2, GotSeen DEF GotBy
<1> HIDE DEF f, l, new, h
<1> SUFFICES ASSUME NEW x \in reg, NEW m \in DOMAIN ss, WantsMessage(x, ss[m])
             PROVE  m \in Range(SeenIn(h, x)) \/ OnItsWay(new, ch, imp, x, m)
  BY DEF Reach, new, h
<1>4. m \in Range(SeenIn(g, x)) \/ OnItsWay(cs, ch, imp, x, m)
  BY DEF Reach
<1>5. ASSUME NEW k \in DOMAIN cs, cs[k].method = "message", cs[k].message = m, x \in Range(cs[k].todo)
      PROVE  m \in Range(SeenIn(h, x)) \/ OnItsWay(new, ch, imp, x, m)
  <2>1. CASE k = Len(cs) /\ x = l
    BY ZenonT(60), <1>1, <1>3, <1>5, <2>1
  <2>2. CASE ~(k = Len(cs) /\ x = l)
    <3>1. x \in Range(new[k].todo)
      BY <1>1, <1>5, <2>2
    <3> QED BY <1>1, <1>5, <3>1 DEF OnItsWay
  <2> QED BY SMTT(60), <2>1, <2>2
<1>6. ASSUME cs # <<>>, cs[1].next = "relay", x \in RelayedTo(cs[1].to, imp),
             \E j \in DOMAIN ch : cs[1].number < j /\ ch[j] = m
      PROVE  OnItsWay(new, ch, imp, x, m)
  <2>1. new[1].next = cs[1].next /\ new[1].to = cs[1].to /\ new[1].number = cs[1].number
    <3>1. 1 \in 1 .. Len(cs)
      <4>1. Len(cs) \in Nat \ {0}
        BY <1>1
      <4> QED BY SMTT(60), <4>1
    <3> QED BY <1>1, <3>1
  <2> QED BY <1>1, <1>6, <2>1 DEF OnItsWay
<1> QED BY <1>3, <1>4, <1>5, <1>6 DEF OnItsWay

\* Messages are kept as they were.
LEMMA CallKept ==
  ASSUME NEW cs \in Seq(FrameType), CanCall(cs), NEW ch, NEW ss, AllKept(cs, ch, ss)
  PROVE  AllKept(Called1(cs), ch, ss)
<1>1. /\ DOMAIN Called1(cs) = 1 .. Len(cs) /\ DOMAIN cs = 1 .. Len(cs)
      /\ \A k \in 1 .. Len(cs) :
           /\ Called1(cs)[k].method = cs[k].method /\ Called1(cs)[k].message = cs[k].message
           /\ Called1(cs)[k].next = cs[k].next
  BY CalledParts
<1> QED BY <1>1 DEF AllKept, Kept

LEMMA ConcatAppend ==
  ASSUME NEW s \in Seq(Nat), NEW t \in Seq(Nat), NEW m \in Nat
  PROVE  s \o Append(t, m) = Append(s \o t, m) /\ s \o <<>> = s
OBVIOUS

\* What the logger has seen is one message longer.
LEMMA SeenAfter ==
  ASSUME NEW g \in [Receivers -> Seq(Nat)], NEW f \in FrameType, NEW l \in Receivers, NEW ss,
         l = "auto" => g["console"] = <<>>,
         f.method = "message", WantsMessage(l, ss[f.message]), NEW x \in Receivers
  PROVE  SeenIn(Got(g, f, l, ss), x) =
           IF x = l \/ (x = "console" /\ l = "auto") THEN Append(SeenIn(g, x), f.message)
           ELSE SeenIn(g, x)
<1> DEFINE h == Got(g, f, l, ss)
<1>1. /\ h[l] = Append(g[l], f.message) /\ \A y \in Receivers : y # l => h[y] = g[y]
      /\ f.message \in Nat /\ g[x] \in Seq(Nat)
  BY DEF Got, FrameType
<1>2. "auto" \in Receivers /\ "console" \in Receivers
  BY DEF Receivers, Others
<1>3. g["auto"] \in Seq(Nat) /\ g["console"] \in Seq(Nat)
  BY <1>2
<1> HIDE DEF h
<1>4. CASE x # "console"
  BY <1>1, <1>4 DEF SeenIn, h
<1>5. CASE x = "console" /\ l = "console"
  <2>1. h["auto"] = g["auto"] /\ h["console"] = Append(g["console"], f.message) /\ l # "auto"
    BY <1>1, <1>2, <1>5
  <2>2. g["auto"] \o h["console"] = Append(g["auto"] \o g["console"], f.message)
    <3>1. f.message \in Nat
      BY <1>1
    <3>2. g["auto"] \o Append(g["console"], f.message) = Append(g["auto"] \o g["console"], f.message)
      BY <1>3, <3>1, ConcatAppend
    <3> QED BY <2>1, <3>2
  <2>3. SeenIn(h, x) = g["auto"] \o h["console"] /\ SeenIn(g, x) = g["auto"] \o g["console"]
    BY <1>5, <2>1 DEF SeenIn
  <2> QED BY <1>5, <2>2, <2>3 DEF h
<1>6. CASE x = "console" /\ l = "auto"
  <2>1. h["auto"] = Append(g["auto"], f.message) /\ h["console"] = <<>> /\ g["console"] = <<>>
    BY <1>1, <1>2, <1>6
  <2>2. h["auto"] \o <<>> = h["auto"] /\ g["auto"] \o <<>> = g["auto"]
    <3>1. h["auto"] \in Seq(Nat)
      BY <1>1, <1>3, <2>1
    <3> QED BY <1>1, <1>3, <3>1, ConcatAppend
  <2>3. SeenIn(h, x) = h["auto"] /\ SeenIn(g, x) = g["auto"]
    BY <1>6, <2>1, <2>2 DEF SeenIn
  <2> QED BY <1>6, <2>1, <2>3 DEF h
<1>7. CASE x = "console" /\ l # "auto" /\ l # "console"
  BY <1>1, <1>2, <1>7 DEF SeenIn, h
<1> QED BY <1>4, <1>5, <1>6, <1>7

\* A sequence that is in its order stays so when something greater follows.
LEMMA SortedAppend ==
  ASSUME NEW s \in Seq(Nat), Sorted(s), NEW m \in Nat
  PROVE  /\ Before(s, m) => Sorted(Append(s, m))
         /\ Before(s, m) => Before(Append(s, m), m + 1) /\ Before(s, m + 1)
BY DEF Sorted, Before

\* Who gets a message gets it after all earlier ones.
LEMMA CallInOrder ==
  ASSUME NEW cs \in Seq(FrameType), CanCall(cs), NEW g \in [Receivers -> Seq(Nat)], NEW ch, NEW ss,
         NEW imp \in Seq(Range(Listeners)), NEW early \in BOOLEAN,
         Head(Last(cs).todo) = "auto" => g["console"] = <<>> /\ "console" \notin Range(Last(cs).todo),
         Last(cs).next = "relay" => /\ Last(cs).to \in RelayTargets
                                    /\ Range(Last(cs).todo) \subseteq RelayedTo(Last(cs).to, imp),
         InOrder(cs, g, ch, ss, imp, early)
  PROVE  InOrder(Called1(cs), GotBy(cs, g, ss), ch, ss, imp, early)
<1> DEFINE f == Last(cs)
           l == Head(f.todo)
           m == f.message
           h == GotBy(cs, g, ss)
<1>1. /\ f \in FrameType /\ cs # <<>> /\ Called1(cs) # <<>> /\ Last(Called1(cs)) = After(f)
      /\ f.todo # <<>> /\ Distinct(f.todo)
  BY CalledParts DEF CanCall
<1> HIDE DEF f
<1>2. /\ l \in Receivers /\ l \in Range(f.todo) /\ Range(f.todo) \subseteq Receivers
      /\ Range(After(f).todo) = Range(f.todo) \ {l}
      /\ After(f).method = f.method /\ After(f).message = m
      /\ After(f).next = f.next /\ After(f).to = f.to
  BY <1>1, AfterType
<1>3. m \in Nat
  BY <1>1 DEF FrameType
<1>4. /\ \A x \in Receivers : SeenIn(g, x) \in Seq(Nat) /\ Sorted(SeenIn(g, x))
      /\ "auto" \in Receivers /\ "console" \in Receivers
  BY SeenType DEF InOrder, Receivers, Others
<1>5. h = Got(g, f, l, ss)
  BY DEF GotBy, f
<1>6. l = "auto" => g["console"] = <<>> /\ "console" \notin Range(f.todo)
  BY DEF f
<1> HIDE DEF l, m, h
<1>7. ASSUME f.method = "message", f.next = "relay"
      PROVE  \A x \in RelayedTo(f.to, imp) :
               /\ x \in Receivers /\ x # "console" /\ x # "auto"
               /\ Before(SeenIn(g, x), IF x \in Range(f.todo) THEN m ELSE m + 1)
  <2>1. f.to \in {"file", "xml", "listeners"}
    BY <1>7 DEF f, RelayTargets
  <2>2. Range(imp) \subseteq Range(Listeners)
    BY DEF Range
  <2>3. RelayedTo(f.to, imp) \subseteq Receivers \ {"auto", "console"}
    BY <2>1, <2>2, ListenersAssumption DEF RelayedTo, Receivers, Others
  <2>4. RelayingInOrder(f, g, imp)
    BY <1>1, <1>7 DEF InOrder, f
  <2> QED BY <2>3, <2>4 DEF RelayingInOrder, m
<1>8. ASSUME f.method = "message", f.next # "relay"
      PROVE  f.message = Len(ss) /\ (early => Before(ch, m)) /\ \A x \in Range(f.todo) : Before(SeenIn(g, x), m)
  <2>1. SendingInOrder(f, g, ch, ss, early)
    BY <1>1, <1>8 DEF InOrder, f
  <2> QED BY <2>1 DEF SendingInOrder, m
<1>9. f.method = "message" => Before(SeenIn(g, l), m)
  <2>1. CASE f.method = "message" /\ f.next = "relay"
    <3>1. l \in RelayedTo(f.to, imp)
      BY <1>2, <2>1 DEF f
    <3> QED BY <1>2, <1>7, <2>1, <3>1
  <2>2. CASE f.method = "message" /\ f.next # "relay"
    BY <1>2, <1>8, <2>2
  <2> QED BY <2>1, <2>2
<1>10. ASSUME NEW x \in Receivers
       PROVE  /\ Sorted(SeenIn(h, x))
              /\ f.method = "message" /\ x # l /\ ~(x = "console" /\ l = "auto") => SeenIn(h, x) = SeenIn(g, x)
              /\ f.method = "message" => Before(SeenIn(h, l), m + 1)
  <2>1. CASE ~(f.method = "message" /\ WantsMessage(l, ss[m]))
    <3>1. h = g
      BY <1>5, <2>1 DEF Got, m
    <3> QED BY <1>2, <1>3, <1>4, <1>9, <3>1, SortedAppend
  <2>2. CASE f.method = "message" /\ WantsMessage(l, ss[m])
    <3>1. \A y \in Receivers :
            SeenIn(h, y) = IF y = l \/ (y = "console" /\ l = "auto") THEN Append(SeenIn(g, y), m) ELSE SeenIn(g, y)
      BY SMTT(60), <1>1, <1>2, <1>5, <1>6, <2>2, SeenAfter DEF m
    <3>2. Before(SeenIn(g, l), m) /\ SeenIn(g, l) \in Seq(Nat) /\ Sorted(SeenIn(g, l))
      BY <1>2, <1>4, <1>9, <2>2
    <3>3. Sorted(Append(SeenIn(g, l), m)) /\ Before(Append(SeenIn(g, l), m), m + 1)
      BY <1>3, <3>2, SortedAppend
    <3>4. l = "auto" => SeenIn(g, "console") = SeenIn(g, l)
      <4>1. g["auto"] \in Seq(Nat)
        BY <1>4
      <4> QED BY <1>3, <1>6, <4>1, ConcatAppend DEF SeenIn
    <3>5. CASE x = l
      BY <1>2, <3>1, <3>3, <3>5
    <3>6. CASE x # l /\ x = "console" /\ l = "auto"
      <4>1. SeenIn(h, x) = Append(SeenIn(g, l), m) /\ SeenIn(h, l) = Append(SeenIn(g, l), m)
        BY <1>2, <3>1, <3>4, <3>6
      <4> QED BY <3>3, <3>6, <4>1
    <3>7. CASE x # l /\ ~(x = "console" /\ l = "auto")
      <4>1. SeenIn(h, x) = SeenIn(g, x) /\ SeenIn(h, l) = Append(SeenIn(g, l), m)
        BY <1>2, <3>1, <3>7
      <4> QED BY <1>4, <3>3, <4>1
    <3> QED BY <3>5, <3>6, <3>7
  <2> QED BY <2>1, <2>2
<1>11. early => Sorted(ch)
  BY DEF InOrder
<1>12. ASSUME f.method = "message", f.next = "relay" PROVE RelayingInOrder(After(f), h, imp)
  <2> SUFFICES ASSUME NEW x \in RelayedTo(f.to, imp)
               PROVE  Before(SeenIn(h, x), IF x \in Range(After(f).todo) THEN m ELSE m + 1)
    BY <1>2 DEF RelayingInOrder
  <2>1. /\ x \in Receivers /\ x # "console" /\ x # "auto"
        /\ Before(SeenIn(g, x), IF x \in Range(f.todo) THEN m ELSE m + 1)
    BY <1>7, <1>12
  <2>2. CASE x = l
    BY <1>2, <1>10, <1>12, <2>2
  <2>3. CASE x # l
    <3>1. SeenIn(h, x) = SeenIn(g, x)
      BY <1>10, <1>12, <2>1, <2>3
    <3>2. x \in Range(After(f).todo) <=> x \in Range(f.todo)
      BY <1>2, <2>3
    <3> QED BY <2>1, <3>1, <3>2
  <2> QED BY <2>2, <2>3
<1>13. ASSUME f.method = "message", f.next # "relay" PROVE SendingInOrder(After(f), h, ch, ss, early)
  <2>1. ASSUME NEW x \in Range(After(f).todo) PROVE Before(SeenIn(h, x), m)
    <3>1. x \in Range(f.todo) /\ x # l /\ x \in Receivers /\ ~(x = "console" /\ l = "auto")
      BY <1>2, <1>6, <2>1
    <3> QED BY <1>8, <1>10, <1>13, <3>1
  <2> QED BY <1>2, <1>8, <1>13, <2>1 DEF SendingInOrder, m
<1> QED BY <1>1, <1>2, <1>10, <1>11, <1>12, <1>13 DEF InOrder, h

-----------------------------------------------------------------------------
(* A call that returns *)

IsDone(cs) == cs # <<>> /\ Last(cs).todo = <<>>
IsSending(f) == f.method = "message" /\ f.next # "relay"
KeptAfter(f, ch) == IF IsSending(f) THEN Append(ch, f.message) ELSE ch
Extends(new, ch) == \A j \in DOMAIN ch : j \in DOMAIN new /\ new[j] = ch[j]

LEMMA FrontParts ==
  ASSUME NEW cs \in Seq(FrameType), cs # <<>>
  PROVE  /\ Len(cs) \in Nat \ {0} /\ DOMAIN cs = 1 .. Len(cs) /\ DOMAIN Front(cs) = 1 .. Len(cs) - 1
         /\ Front(cs) \in Seq(FrameType) /\ Len(Front(cs)) = Len(cs) - 1
         /\ Last(cs) = cs[Len(cs)] /\ Last(cs) \in FrameType
         /\ \A k \in 1 .. Len(cs) - 1 : k \in 1 .. Len(cs) /\ Front(cs)[k] = cs[k]
         /\ Front(cs) = <<>> <=> Len(cs) = 1
<1>1. /\ Len(cs) \in Nat \ {0} /\ Last(cs) = cs[Len(cs)] /\ Last(cs) \in FrameType
      /\ Front(cs) \in Seq(FrameType) /\ Len(Front(cs)) = Len(cs) - 1
      /\ \A k \in 1 .. Len(cs) - 1 : Front(cs)[k] = cs[k]
  BY StackParts
<1> HIDE DEF Front
<1>2. DOMAIN cs = 1 .. Len(cs) /\ DOMAIN Front(cs) = 1 .. Len(cs) - 1
  BY <1>1
<1>3. Front(cs) = <<>> <=> Len(cs) = 1
  BY <1>1
<1> QED BY <1>1, <1>2, <1>3

\* It has reached everyone.
LEMMA ReturnReach ==
  ASSUME NEW cs \in Seq(FrameType), IsDone(cs), ~(Len(cs) = 1 /\ cs[1].next = "relay"),
         NEW g, NEW ch, NEW new, Extends(new, ch), NEW ss, NEW imp, NEW reg,
         Reach(cs, g, ch, ss, imp, reg)
  PROVE  Reach(Front(cs), g, new, ss, imp, reg)
<1>1. /\ Len(cs) \in Nat \ {0} /\ DOMAIN cs = 1 .. Len(cs) /\ DOMAIN Front(cs) = 1 .. Len(cs) - 1
      /\ Last(cs) = cs[Len(cs)]
      /\ \A k \in 1 .. Len(cs) - 1 : k \in 1 .. Len(cs) /\ Front(cs)[k] = cs[k]
      /\ Front(cs) = <<>> <=> Len(cs) = 1
  BY FrontParts DEF IsDone
<1> HIDE DEF Front, Last
<1> SUFFICES ASSUME NEW l \in reg, NEW m \in DOMAIN ss, WantsMessage(l, ss[m])
             PROVE  m \in Range(SeenIn(g, l)) \/ OnItsWay(Front(cs), new, imp, l, m)
  BY DEF Reach
<1>2. m \in Range(SeenIn(g, l)) \/ OnItsWay(cs, ch, imp, l, m)
  BY DEF Reach
<1>3. ASSUME NEW k \in DOMAIN cs, cs[k].method = "message", cs[k].message = m, l \in Range(cs[k].todo)
      PROVE  OnItsWay(Front(cs), new, imp, l, m)
  <2>1. k # Len(cs)
    <3>1. Range(<<>>) = {}
      BY DEF Range
    <3> QED BY <1>1, <1>3, <3>1 DEF IsDone
  <2>2. k \in 1 .. Len(cs) - 1
    <3>1. Len(cs) \in Nat
      BY <1>1
    <3> QED BY <1>1, <2>1, <3>1
  <2> QED BY <1>1, <1>3, <2>2 DEF OnItsWay
<1>4. ASSUME cs # <<>>, cs[1].next = "relay", l \in RelayedTo(cs[1].to, imp),
             \E j \in DOMAIN ch : cs[1].number < j /\ ch[j] = m
      PROVE  OnItsWay(Front(cs), new, imp, l, m)
  <2>1. Len(cs) # 1
    BY <1>4
  <2>2. 1 \in 1 .. Len(cs) - 1
    <3>1. Len(cs) \in Nat \ {0}
      BY <1>1
    <3>2. \A n \in Nat \ {0} : n # 1 => 1 \in 1 .. n - 1
      OBVIOUS
    <3> QED BY <2>1, <3>1, <3>2
  <2>3. Front(cs) # <<>> /\ Front(cs)[1] = cs[1]
    BY <1>1, <2>1, <2>2
  <2>4. \E j \in DOMAIN new : cs[1].number < j /\ new[j] = m
    BY <1>4 DEF Extends
  <2> QED BY <1>4, <2>3, <2>4 DEF OnItsWay
<1> QED BY <1>2, <1>3, <1>4 DEF OnItsWay

\* It is in the cache then.
LEMMA ReturnKept ==
  ASSUME NEW cs \in Seq(FrameType), IsDone(cs), NEW ch \in Seq(Nat), NEW ss,
         Last(cs).method = "message" => Last(cs).message \in DOMAIN ss, AllKept(cs, ch, ss)
  PROVE  AllKept(Front(cs), KeptAfter(Last(cs), ch), ss)
<1> DEFINE f == Last(cs)
           new == KeptAfter(f, ch)
<1>1. /\ Len(cs) \in Nat \ {0} /\ DOMAIN cs = 1 .. Len(cs) /\ DOMAIN Front(cs) = 1 .. Len(cs) - 1
      /\ f = cs[Len(cs)] /\ f \in FrameType
      /\ \A k \in 1 .. Len(cs) - 1 : k \in 1 .. Len(cs) /\ Front(cs)[k] = cs[k]
  BY FrontParts DEF IsDone
<1> HIDE DEF f
<1>2. f.message \in Nat
  BY <1>1 DEF FrameType
<1>3. Range(new) = IF IsSending(f) THEN Range(ch) \cup {f.message} ELSE Range(ch)
  <2>1. Range(Append(ch, f.message)) = Range(ch) \cup {f.message}
    BY <1>2, AppendRange
  <2> QED BY <2>1 DEF KeptAfter
<1> HIDE DEF new
<1>4. Range(new) \subseteq DOMAIN ss
  BY <1>3 DEF AllKept, IsSending, f
<1>5. ASSUME NEW m \in DOMAIN ss PROVE Kept(Front(cs), new, m)
  <2>1. Kept(cs, ch, m)
    BY DEF AllKept
  <2>2. ASSUME NEW k \in DOMAIN cs, cs[k].method = "message", cs[k].message = m, cs[k].next # "relay"
        PROVE  Kept(Front(cs), new, m)
    <3>1. CASE k = Len(cs)
      BY <1>1, <1>3, <2>2, <3>1 DEF Kept, IsSending
    <3>2. CASE k # Len(cs)
      <4>1. k \in 1 .. Len(cs) - 1
        <5>1. Len(cs) \in Nat /\ k \in 1 .. Len(cs)
          BY <1>1
        <5> QED BY <3>2, <5>1
      <4> QED BY <1>1, <2>2, <4>1 DEF Kept
    <3> QED BY <3>1, <3>2
  <2> QED BY <1>3, <2>1, <2>2 DEF Kept
<1> QED BY <1>4, <1>5 DEF AllKept, new, f

\* The cache is in the order of sending.
LEMMA ReturnInOrder ==
  ASSUME NEW cs \in Seq(FrameType), IsDone(cs), NEW g, NEW ch \in Seq(Nat), NEW new, NEW ss, NEW imp,
         NEW early \in BOOLEAN, early => new = KeptAfter(Last(cs), ch),
         Front(cs) # <<>> => Last(Front(cs)).method # "message",
         InOrder(cs, g, ch, ss, imp, early)
  PROVE  InOrder(Front(cs), g, new, ss, imp, early)
<1>1. Last(cs) \in FrameType /\ cs # <<>>
  BY FrontParts DEF IsDone
<1>2. Last(cs).message \in Nat
  BY <1>1 DEF FrameType
<1>3. ASSUME early = TRUE PROVE Sorted(new)
  <2>1. Sorted(ch) /\ new = KeptAfter(Last(cs), ch)
    BY <1>3 DEF InOrder
  <2>2. IsSending(Last(cs)) => Before(ch, Last(cs).message)
    BY <1>1, <1>3 DEF InOrder, IsSending, SendingInOrder
  <2> QED BY <1>2, <2>1, <2>2, SortedAppend DEF KeptAfter
<1> QED BY <1>1, <1>3 DEF InOrder

-----------------------------------------------------------------------------
(* Messages that are relayed *)

\* A new call.
IsCall(f, method, item, todo) ==
  /\ f \in FrameType /\ f.method = method /\ f.item = item /\ f.todo = todo
  /\ f.message = 0 /\ f.next = "" /\ f.to = "" /\ f.number = 0
LEMMA FrameParts ==
  ASSUME NEW method \in Methods, NEW item \in Items, NEW todo \in Seq(Receivers)
  PROVE  IsCall(Frame(method, item, todo), method, item, todo)
BY DEF Frame, FrameType, IsCall

IsMessage(f, m, todo) ==
  /\ f \in FrameType /\ f.method = "message" /\ f.item = "" /\ f.todo = todo
  /\ f.message = m /\ f.next = "" /\ f.to = "" /\ f.number = 0
LEMMA MessageParts ==
  ASSUME NEW m \in Nat, NEW loggers, Expand(loggers) \in Seq(Receivers)
  PROVE  IsMessage(Message(m, loggers), m, Expand(loggers))
<1> DEFINE todo == Expand(loggers)
           f == Frame("message", "", todo)
<1>1. todo \in Seq(Receivers)
  OBVIOUS
<1> HIDE DEF todo
<1>2. /\ f \in FrameType /\ f.method = "message" /\ f.item = "" /\ f.todo = todo
      /\ f.message = 0 /\ f.next = "" /\ f.to = "" /\ f.number = 0
  BY <1>1 DEF Frame, FrameType, Methods, Items
<1>3. Message(m, loggers) = [f EXCEPT !.message = m]
  BY DEF todo, Message
<1> HIDE DEF f
<1> QED BY <1>2, <1>3 DEF FrameType, todo, IsMessage

\* The call for one cached message.
LEMMA RelayFrame ==
  ASSUME RegistrationType, NEW to \in RelayTargets,
         NEW ch \in Seq(Nat), ch # NoCache, NEW i \in Nat \ {0}
  PROVE  LET new == RelayFrom(to, i, ch)
         IN  /\ new \in Seq(FrameType)
             /\ i > Len(ch) => new = <<>>
             /\ i <= Len(ch) =>
                  /\ new # <<>> /\ Len(new) = 1 /\ DOMAIN new = {1} /\ Last(new) = new[1] /\ new[1] \in FrameType
                  /\ new[1].method = "message" /\ new[1].item = "" /\ new[1].message = ch[i]
                  /\ new[1].next = "relay" /\ new[1].to = to /\ new[1].number = i
                  /\ Distinct(new[1].todo) /\ Range(new[1].todo) = RelayedTo(to, imported)
                  /\ i \in DOMAIN ch
<1>1. CASE i > Len(ch)
  BY <1>1 DEF RelayFrom
<1>2. CASE i <= Len(ch)
  <2> DEFINE f == [Message(ch[i], <<to>>) EXCEPT !.next = "relay", !.to = to, !.number = i]
             new == RelayFrom(to, i, ch)
  <2>1. /\ Expand(<<to>>) \in Seq(Receivers) /\ Distinct(Expand(<<to>>))
        /\ Range(Expand(<<to>>)) = RelayedTo(to, imported)
    BY RelayedRange DEF RegularLoggers, RelayTargets
  <2>2. i \in DOMAIN ch /\ ch[i] \in Nat /\ Len(ch) \in Nat
    BY <1>2
  <2>3. new = <<f>>
    BY <1>2, <2>2 DEF RelayFrom
  <2> HIDE DEF new
  <2> DEFINE message == ch[i]
             loggers == <<to>>
             call == Message(message, loggers)
  <2>4. /\ call \in FrameType /\ call.method = "message" /\ call.item = "" /\ call.todo = Expand(<<to>>)
        /\ call.message = ch[i]
    <3>1. message \in Nat /\ Expand(loggers) \in Seq(Receivers)
      BY <2>1, <2>2
    <3>2. IsMessage(call, message, Expand(loggers))
      BY <3>1, MessageParts
    <3> HIDE DEF call
    <3> QED BY <3>2 DEF IsMessage
  <2> HIDE DEF call
  <2>9. f = [call EXCEPT !.next = "relay", !.to = to, !.number = i]
    BY DEF call
  <2>5. f \in FrameType
    BY <2>2, <2>4, <2>9 DEF FrameType
  <2>8. /\ f.method = "message" /\ f.item = "" /\ f.message = ch[i] /\ f.todo = Expand(<<to>>)
        /\ f.next = "relay" /\ f.to = to /\ f.number = i
    BY <2>2, <2>4, <2>9 DEF FrameType
  <2> HIDE DEF f
  <2>6. new \in Seq(FrameType) /\ new # <<>> /\ Len(new) = 1 /\ DOMAIN new = {1} /\ Last(new) = f /\ new[1] = f
    BY <2>3, <2>5 DEF Last
  <2>7. Len(ch) \in Nat /\ ~(i > Len(ch))
    BY <1>2, <2>2
  <2> QED BY <2>1, <2>2, <2>5, <2>6, <2>7, <2>8 DEF new
<1>3. i > Len(ch) \/ i <= Len(ch)
  OBVIOUS
<1> QED BY <1>1, <1>2, <1>3

\* Those from message i on are on their way.
LEMMA RelayReach ==
  ASSUME RegistrationType, NEW to \in RelayTargets,
         NEW ch \in Seq(Nat), ch # NoCache, NEW i \in Nat \ {0}, NEW g, NEW ss, NEW reg,
         \A l \in reg, m \in DOMAIN ss : WantsMessage(l, ss[m]) =>
            \/ m \in Range(SeenIn(g, l))
            \/ l \in RelayedTo(to, imported) /\ \E j \in DOMAIN ch : i <= j /\ ch[j] = m
  PROVE  Reach(RelayFrom(to, i, ch), g, ch, ss, imported, reg)
<1> DEFINE new == RelayFrom(to, i, ch)
<1> SUFFICES ASSUME NEW l \in reg, NEW m \in DOMAIN ss, WantsMessage(l, ss[m]), m \notin Range(SeenIn(g, l))
             PROVE  OnItsWay(new, ch, imported, l, m)
  BY DEF Reach
<1>1. PICK j \in DOMAIN ch : i <= j /\ ch[j] = m
  OBVIOUS
<1>2. l \in RelayedTo(to, imported) /\ j \in Nat /\ j <= Len(ch) /\ Len(ch) \in Nat /\ i <= Len(ch)
  BY <1>1
<1>3. /\ new # <<>> /\ DOMAIN new = {1}
      /\ new[1].method = "message" /\ new[1].message = ch[i]
      /\ new[1].next = "relay" /\ new[1].to = to /\ new[1].number = i
      /\ Range(new[1].todo) = RelayedTo(to, imported)
  BY <1>2, RelayFrame
<1> HIDE DEF new
<1>4. CASE j = i
  BY <1>1, <1>2, <1>3, <1>4 DEF OnItsWay
<1>5. CASE j # i
  <2>1. i < j
    BY <1>1, <1>2, <1>5
  <2> QED BY <1>1, <1>2, <1>3, <2>1 DEF OnItsWay
<1> QED BY <1>4, <1>5

\* None of them is there yet.
LEMMA RelayInOrder ==
  ASSUME RegistrationType, NEW to \in RelayTargets,
         NEW ch \in Seq(Nat), ch # NoCache, NEW i \in Nat \ {0}, NEW g, NEW ss, NEW early \in BOOLEAN,
         \A l \in Receivers : Sorted(SeenIn(g, l)), early => Sorted(ch),
         i <= Len(ch) => \A l \in RelayedTo(to, imported) : Before(SeenIn(g, l), ch[i])
  PROVE  InOrder(RelayFrom(to, i, ch), g, ch, ss, imported, early)
<1> DEFINE new == RelayFrom(to, i, ch)
<1>1. CASE i > Len(ch)
  <2>1. new = <<>>
    BY <1>1, RelayFrame
  <2> QED BY <2>1 DEF InOrder
<1>2. CASE i <= Len(ch)
  <2>1. /\ Last(new) = new[1] /\ new[1].method = "message" /\ new[1].message = ch[i]
        /\ new[1].next = "relay" /\ new[1].to = to
        /\ Range(new[1].todo) = RelayedTo(to, imported)
    BY <1>2, RelayFrame
  <2> HIDE DEF new
  <2>2. RelayingInOrder(new[1], g, imported)
    BY <1>2, <2>1 DEF RelayingInOrder
  <2> QED BY <2>1, <2>2 DEF InOrder, new
<1>3. Len(ch) \in Nat
  OBVIOUS
<1> QED BY <1>1, <1>2, <1>3

\* In the cache they stay.
LEMMA CacheKept ==
  ASSUME NEW cs, NEW ch, NEW ss, AllKept(<<>>, ch, ss)
  PROVE  AllKept(cs, ch, ss)
BY DEF AllKept, Kept

LEMMA RelayedReceivers ==
  ASSUME RegistrationType, NEW to \in RelayTargets
  PROVE  RelayedTo(to, imported) \subseteq Receivers \ {"auto", "console"}
<1>1. Range(imported) \subseteq Range(Listeners)
  BY DEF RegistrationType, Range
<1> QED BY <1>1, ListenersAssumption DEF RelayedTo, RelayTargets, Receivers, Others

\* The call for the next cached message follows that for one.
LEMMA RelayNext ==
  ASSUME RegistrationType, NEW f \in FrameType,
         f.todo = <<>>, f.method = "message", f.next = "relay", f.to \in RelayTargets,
         NEW ch \in Seq(Nat), ch # NoCache, f.number \in DOMAIN ch, f.message = ch[f.number],
         NEW g \in [Receivers -> Seq(Nat)], NEW ss, NEW reg
  PROVE  LET new == RelayFrom(f.to, f.number + 1, ch)
         IN  /\ f.number + 1 \in Nat \ {0}
             /\ Reach(<<f>>, g, ch, ss, imported, reg) => Reach(new, g, ch, ss, imported, reg)
             /\ InOrder(<<f>>, g, ch, ss, imported, TRUE) => InOrder(new, g, ch, ss, imported, TRUE)
<1> DEFINE cs == <<f>>
           i == f.number
           new == RelayFrom(f.to, i + 1, ch)
<1>1. /\ cs # <<>> /\ DOMAIN cs = {1} /\ cs[1] = f /\ Last(cs) = f /\ Range(f.todo) = {}
      /\ i \in Nat /\ i + 1 \in Nat \ {0} /\ Len(ch) \in Nat /\ DOMAIN ch = 1 .. Len(ch)
  <2>1. cs # <<>> /\ DOMAIN cs = {1} /\ cs[1] = f /\ Last(cs) = f
    BY DEF Last
  <2>2. Range(f.todo) = {}
    BY DEF Range
  <2>3. Len(ch) \in Nat /\ DOMAIN ch = 1 .. Len(ch)
    OBVIOUS
  <2>4. i \in Nat /\ i + 1 \in Nat \ {0}
    BY <2>3
  <2> QED BY <2>1, <2>2, <2>3, <2>4
<1> HIDE DEF cs
<1>2. ASSUME Reach(cs, g, ch, ss, imported, reg) PROVE Reach(new, g, ch, ss, imported, reg)
  <2>1. ASSUME NEW l \in reg, NEW m \in DOMAIN ss, WantsMessage(l, ss[m]), m \notin Range(SeenIn(g, l))
        PROVE  l \in RelayedTo(f.to, imported) /\ \E j \in DOMAIN ch : i + 1 <= j /\ ch[j] = m
    <3>1. OnItsWay(cs, ch, imported, l, m)
      BY <1>2, <2>1 DEF Reach
    <3>2. l \in RelayedTo(f.to, imported) /\ \E j \in DOMAIN ch : i < j /\ ch[j] = m
      BY <1>1, <3>1 DEF OnItsWay
    <3>3. \A j \in DOMAIN ch : i < j => i + 1 <= j
      BY <1>1
    <3> QED BY <3>2, <3>3
  <2> HIDE DEF i
  <2>2. \A l \in reg, m \in DOMAIN ss : WantsMessage(l, ss[m]) =>
            \/ m \in Range(SeenIn(g, l))
            \/ l \in RelayedTo(f.to, imported) /\ \E j \in DOMAIN ch : i + 1 <= j /\ ch[j] = m
    BY <2>1
  <2> QED BY <1>1, <2>2, RelayReach
<1>3. ASSUME InOrder(cs, g, ch, ss, imported, TRUE) PROVE InOrder(new, g, ch, ss, imported, TRUE)
  <2>1. (\A l \in Receivers : Sorted(SeenIn(g, l))) /\ Sorted(ch)
    BY <1>3 DEF InOrder
  <2>2. \A l \in RelayedTo(f.to, imported) : Before(SeenIn(g, l), f.message + 1)
    BY <1>1, <1>3 DEF InOrder, RelayingInOrder
  <2>3. ASSUME i + 1 <= Len(ch), NEW l \in RelayedTo(f.to, imported) PROVE Before(SeenIn(g, l), ch[i + 1])
    <3>1. i + 1 \in DOMAIN ch /\ i \in DOMAIN ch /\ i < i + 1
      BY <1>1, <2>3
    <3>2. ch[i] \in Nat /\ ch[i + 1] \in Nat /\ ch[i] < ch[i + 1]
      BY <2>1, <3>1 DEF Sorted
    <3>3. Before(SeenIn(g, l), ch[i] + 1)
      BY <2>2, <2>3
    <3>4. SeenIn(g, l) \in Seq(Nat)
      BY RelayedReceivers, SeenType
    <3> QED BY <3>2, <3>3, <3>4, BeforeLess
  <2> QED BY <1>1, <2>1, <2>3, RelayInOrder
<1> QED BY <1>1, <1>2, <1>3 DEF cs

-----------------------------------------------------------------------------
(* New calls *)

\* A message to all loggers, and another call of them.
IsSent(f) ==
  /\ f \in FrameType /\ IsNew(f, sent) /\ f.next \in {"", "info"}
  /\ Distinct(f.todo) /\ Range(f.todo) = Registered
IsAnnounced(f, method, item) ==
  /\ f \in FrameType /\ f.method = method /\ f.item = item /\ f.next = ""
  /\ Distinct(f.todo) /\ Range(f.todo) = Registered

LEMMA NewMessageParts ==
  ASSUME RegistrationType
  PROVE  IsSent(NewMessage) /\ IsSent(ErrorThenInfo) /\ NewMessage.next = ""
<1> DEFINE m == Len(sent) + 1
           loggers == AllLoggers
           f == Message(m, loggers)
           e == [f EXCEPT !.next = "info"]
<1>1. /\ Expand(loggers) \in Seq(Receivers) /\ Distinct(Expand(loggers)) /\ Range(Expand(loggers)) = Registered
      /\ m \in Nat
  BY RegisteredRange DEF TypeOK, Registered
<1>2. IsMessage(f, m, Expand(loggers))
  BY <1>1, MessageParts
<1>3. f = NewMessage /\ e = ErrorThenInfo
  BY DEF NewMessage, ErrorThenInfo
<1> HIDE DEF loggers, f
<1>4. /\ f \in FrameType /\ f.method = "message" /\ f.item = "" /\ f.message = m /\ f.next = ""
      /\ f.todo = Expand(loggers)
  BY <1>2 DEF IsMessage
<1>5. /\ e \in FrameType /\ e.method = "message" /\ e.item = "" /\ e.message = m /\ e.next = "info"
      /\ e.todo = Expand(loggers)
  BY <1>4 DEF FrameType
<1> HIDE DEF e
<1> QED BY <1>1, <1>3, <1>4, <1>5 DEF IsSent, IsNew

LEMMA CallParts ==
  ASSUME RegistrationType, TypeOK, NEW method \in Methods, NEW item \in Items
  PROVE  IsAnnounced(Call(method, item), method, item)
<1> DEFINE todo == Expand(IF method = "end" THEN EndingLoggers ELSE AllLoggers)
           f == Frame(method, item, todo)
<1>1. todo \in Seq(Receivers) /\ Distinct(todo) /\ Range(todo) = Registered
  BY RegisteredRange DEF Registered
<1>2. f = Call(method, item)
  BY DEF Call
<1> HIDE DEF todo
<1>3. IsCall(f, method, item, todo)
  BY <1>1, FrameParts
<1> HIDE DEF f
<1> QED BY <1>1, <1>2, <1>3 DEF IsCall, IsAnnounced

\* Errors that are sent, and those that have been got.
LEMMA ErrorsSent ==
  ASSUME NEW ss \in Seq(Levels), NEW level \in Levels
  PROVE  LET old == ErrorsIn(ss)
             new == ErrorsIn(Append(ss, level))
         IN  /\ IsFiniteSet(old) /\ Cardinality(old) \in Nat
             /\ IsFiniteSet(new) /\ Cardinality(new) \in Nat
             /\ old \subseteq new /\ new \cap DOMAIN ss = old
             /\ level = "ERROR" => Cardinality(new) = Cardinality(old) + 1
             /\ level # "ERROR" => new = old
<1> DEFINE old == {m \in DOMAIN ss : ss[m] = "ERROR"}
           new == {m \in DOMAIN Append(ss, level) : Append(ss, level)[m] = "ERROR"}
<1>9. old = ErrorsIn(ss) /\ new = ErrorsIn(Append(ss, level))
  BY DEF ErrorsIn
<1>1. /\ DOMAIN Append(ss, level) = DOMAIN ss \cup {Len(ss) + 1}
      /\ \A m \in DOMAIN ss : Append(ss, level)[m] = ss[m]
      /\ Append(ss, level)[Len(ss) + 1] = level /\ Len(ss) + 1 \notin DOMAIN ss
  BY SentMore
<1>2. new = IF level = "ERROR" THEN old \cup {Len(ss) + 1} ELSE old
  BY <1>1
<1>3. IsFiniteSet(old)
  <2>1. IsFiniteSet(1 .. Len(ss)) /\ old \subseteq 1 .. Len(ss)
    BY FS_Interval
  <2> QED BY <2>1, FS_Subset
<1>4. Cardinality(old) \in Nat
  BY <1>3, FS_CardinalityType
<1>5. Len(ss) + 1 \notin old
  BY <1>1
<1>6. old \subseteq new /\ new \cap DOMAIN ss = old
  BY <1>1, <1>2
<1> HIDE DEF old, new
<1>7. /\ IsFiniteSet(old \cup {Len(ss) + 1})
      /\ Cardinality(old \cup {Len(ss) + 1}) = Cardinality(old) + 1
  BY <1>3, <1>5, FS_AddElement
<1>8. /\ IsFiniteSet(new) /\ Cardinality(new) \in Nat
      /\ level = "ERROR" => Cardinality(new) = Cardinality(old) + 1
      /\ level # "ERROR" => new = old
  BY <1>2, <1>3, <1>4, <1>7
<1> QED BY <1>3, <1>4, <1>6, <1>8, <1>9

-----------------------------------------------------------------------------
(* The main program *)

LEMMA OneCall ==
  ASSUME NEW f \in FrameType
  PROVE  /\ <<f>> \in Seq(FrameType) /\ <<f>> # <<>> /\ Len(<<f>>) = 1 /\ DOMAIN <<f>> = {1}
         /\ <<f>>[1] = f /\ Last(<<f>>) = f /\ <<f>> = Append(<<>>, f) /\ <<>> \in Seq(FrameType)
BY DEF Last

\* What LOGGER does not change when the main program calls it.
Unchanged == got' = got /\ failures' = failures /\ escaped' = escaped /\ pc # "ended"
\* What a step has to establish of calls and messages.
MessagesOK ==
  /\ calls \in Seq(FrameType) /\ sent \in Seq(Levels)
  /\ \A k \in DOMAIN calls : Distinct(calls[k].todo)
  /\ FramesOK /\ CacheOK /\ ReachOK /\ GotOK /\ OrderOK /\ ErrorsOK

\* A message is sent.
LEMMA SayStep ==
  ASSUME LoggerBookkeeping, calls = <<>>, Unchanged, cache' = cache, Registered' = Registered,
         pc' \in Early => pc \in Early,
         NEW level \in Levels, sent' = Append(sent, level),
         NEW f, IsSent(f), calls' = <<f>>,
         causes' \in {causes, causes + 1},
         level = "ERROR" => causes' = causes + 1 \/ (pc' = "ended" /\ Registered = {})
  PROVE  MessagesOK'
<1> USE DEF Unchanged
<1>1. /\ f \in FrameType /\ IsNew(f, sent) /\ f.next # "relay" /\ f.next \in {"", "info"}
      /\ f.method = "message" /\ f.message = Len(sent) + 1
      /\ Distinct(f.todo) /\ Range(f.todo) = Registered
      /\ sent \in Seq(Levels) /\ cache \in Seq(Nat) /\ got \in [Receivers -> Seq(Nat)]
  BY DEF IsSent, IsNew, LoggerBookkeeping, TypeOK, Levels
<1>2. /\ calls' \in Seq(FrameType) /\ calls' = Append(calls, f) /\ calls \in Seq(FrameType)
      /\ DOMAIN calls' = {1} /\ calls'[1] = f
  BY <1>1, OneCall
<1>3. /\ sent' \in Seq(Levels) /\ DOMAIN sent' = DOMAIN sent \cup {Len(sent) + 1}
      /\ \A m \in DOMAIN sent : sent'[m] = sent[m]
  BY ZenonT(60), <1>1, SentMore
<1>4. FramesOK'
  BY <1>1, <1>2, <1>3 DEF FramesOK, FrameOK
<1>5. CacheOK'
  <2> SUFFICES ASSUME pc \in Early PROVE AllKept(calls', cache', sent')
    BY DEF CacheOK
  <2>1. AllKept(calls, cache, sent)
    BY DEF LoggerBookkeeping, CacheOK
  <2>2. AllKept(Append(calls, f), cache, Append(sent, level))
    BY <1>1, <1>2, <2>1, SendKept
  <2> QED BY <1>2, <2>2
<1>6. ReachOK'
  <2> SUFFICES ASSUME escaped = "no" PROVE Reach(calls', got, cache, sent', imported', Registered)
    BY DEF ReachOK
  <2>1. Reach(calls, got, cache, sent, imported, Registered)
    BY DEF LoggerBookkeeping, ReachOK
  <2>2. Reach(calls, got, cache, sent, imported', Registered)
    BY <2>1 DEF Reach, OnItsWay
  <2>3. Reach(Append(calls, f), got, cache, Append(sent, level), imported', Registered)
    BY <1>1, <1>2, <2>2, SendReach
  <2> QED BY <1>2, <2>3
<1>7. GotOK /\ GotOK'
  BY <1>3 DEF LoggerBookkeeping, GotOK
<1>8. OrderOK'
  <2> SUFFICES ASSUME ~FailedIn("message")
               PROVE  InOrder(calls', got, cache, sent', imported', pc' \in Early)
    BY DEF OrderOK, FailedIn
  <2>1. InOrder(calls, got, cache, sent, imported, pc \in Early)
    BY DEF LoggerBookkeeping, OrderOK
  <2> DEFINE early == pc' \in Early
  <2>2. InOrder(calls, got, cache, sent, imported', early)
    BY <2>1 DEF InOrder
  <2>3. early => Range(cache) \subseteq DOMAIN sent
    BY DEF LoggerBookkeeping, CacheOK, AllKept
  <2>4. early \in BOOLEAN
    OBVIOUS
  <2> HIDE DEF early
  <2>5. InOrder(Append(calls, f), got, cache, Append(sent, level), imported', early)
    BY ZenonT(60), <1>1, <1>2, <1>7, <2>2, <2>3, <2>4, SendInOrder DEF GotOK
  <2> QED BY <1>2, <2>5 DEF early
<1>9. ErrorsOK'
  <2>1. /\ IsFiniteSet(Errors) /\ Cardinality(Errors) \in Nat /\ IsFiniteSet(Errors') /\ Cardinality(Errors') \in Nat
        /\ Errors \subseteq Errors' /\ Errors' \cap DOMAIN sent = Errors
        /\ level = "ERROR" => Cardinality(Errors') = Cardinality(Errors) + 1
        /\ level # "ERROR" => Errors' = Errors
    <3>1. Errors = ErrorsIn(sent) /\ Errors' = ErrorsIn(Append(sent, level))
      BY DEF Errors
    <3> HIDE DEF Errors
    <3> QED BY <1>1, <3>1, ErrorsSent
  <2>2. \A l \in Receivers : Errors' \cap Range(got'[l]) = Errors \cap Range(got[l])
    BY <1>7, <2>1 DEF GotOK
  <2>3. /\ \A l \in Receivers : Cardinality(Errors \cap Range(got[l])) <= Len(failures) + causes
        /\ Cardinality(Errors) <= Len(failures) + causes
    BY DEF LoggerBookkeeping, ErrorsOK
  <2>4. causes \in Nat /\ Len(failures) \in Nat
    BY DEF LoggerBookkeeping, TypeOK
  <2>5. \A l \in Receivers : Cardinality(Errors \cap Range(got[l])) \in Nat
    <3> SUFFICES ASSUME NEW l \in Receivers PROVE Cardinality(Errors \cap Range(got[l])) \in Nat
      OBVIOUS
    <3>1. IsFiniteSet(Errors \cap Range(got[l]))
      BY <2>1, FS_Subset
    <3> QED BY <3>1, FS_CardinalityType
  <2> HIDE DEF Errors
  <2>6. (pc' = "ended" /\ Registered' = {}) \/ Cardinality(Errors') <= Len(failures') + causes'
    BY <2>1, <2>3, <2>4
  <2>7. ASSUME NEW l \in Receivers
        PROVE  Cardinality(Errors' \cap Range(got'[l])) <= Len(failures') + causes'
    BY <2>2, <2>3, <2>4, <2>5
  <2> QED BY <2>6, <2>7 DEF ErrorsOK
<1> QED BY <1>1, <1>2, <1>3, <1>4, <1>5, <1>6, <1>7, <1>8, <1>9 DEF MessagesOK

LEMMA NothingOnItsWay == \A ch, imp, l, m : ~OnItsWay(<<>>, ch, imp, l, m)
BY DEF OnItsWay

\* Other calls, or none: loggers that are registered want no message, or have got
\* it already.
LEMMA CallStep ==
  ASSUME LoggerBookkeeping, calls = <<>>, Unchanged, sent' = sent, causes' = causes,
         pc' \in Early => pc \in Early /\ cache' = cache /\ Registered \subseteq Registered' \cup {"auto"},
         \A l \in Registered' : l \in Registered \/ l = "debug" \/ (l = "console" /\ "auto" \in Registered),
         \/ calls' = <<>>
         \/ \E f : /\ calls' = <<f>> /\ f \in FrameType /\ f.method # "message" /\ f.next = ""
                   /\ Distinct(f.todo) /\ Range(f.todo) \subseteq Registered'
                   /\ f.method \in {"start", "end", "log_message"} => pc' = "running"
                   /\ f.method = "close" => pc' = "closing"
  PROVE  MessagesOK'
<1> USE DEF Unchanged
<1>0. /\ calls' \in Seq(FrameType)
      /\ calls' # <<>> => Last(calls') = calls'[1] /\ 1 \in DOMAIN calls'
      /\ \A k \in DOMAIN calls' :
           /\ k = 1 /\ calls'[1].method # "message" /\ calls'[1].next = ""
           /\ Distinct(calls'[1].todo) /\ Range(calls'[1].todo) \subseteq Registered'
           /\ calls'[1].method \in {"start", "end", "log_message"} => pc' = "running"
           /\ calls'[1].method = "close" => pc' = "closing"
  <2>1. CASE calls' = <<>>
    BY <2>1
  <2>2. ASSUME NEW f, calls' = <<f>>, f \in FrameType, f.method # "message", f.next = "",
               Distinct(f.todo), Range(f.todo) \subseteq Registered',
               f.method \in {"start", "end", "log_message"} => pc' = "running",
               f.method = "close" => pc' = "closing"
        PROVE  /\ calls' \in Seq(FrameType)
               /\ calls' # <<>> => Last(calls') = calls'[1] /\ 1 \in DOMAIN calls'
               /\ \A k \in DOMAIN calls' :
                    /\ k = 1 /\ calls'[1].method # "message" /\ calls'[1].next = ""
                    /\ Distinct(calls'[1].todo) /\ Range(calls'[1].todo) \subseteq Registered'
                    /\ calls'[1].method \in {"start", "end", "log_message"} => pc' = "running"
                    /\ calls'[1].method = "close" => pc' = "closing"
    <3>1. calls' \in Seq(FrameType) /\ calls'[1] = f /\ Last(calls') = f /\ DOMAIN calls' = {1}
      BY <2>2, OneCall DEF Last
    <3> QED BY <2>2, <3>1
  <2> QED BY <2>1, <2>2
<1>1. sent \in Seq(Levels) /\ calls' \in Seq(FrameType) /\ \A k \in DOMAIN calls' : Distinct(calls'[k].todo)
  <2>1. sent \in Seq(Levels)
    BY DEF LoggerBookkeeping, TypeOK, Levels
  <2> QED BY <1>0, <2>1
<1>2. \A k \in DOMAIN calls' : calls'[k].method # "message" /\ calls'[k].next = "" /\ k = 1
  BY <1>0
<1>3. FramesOK'
  BY <1>0 DEF FramesOK, FrameOK
<1>4. CacheOK'
  <2> SUFFICES ASSUME pc \in Early, cache' = cache PROVE AllKept(calls', cache, sent)
    BY DEF CacheOK
  <2>1. AllKept(<<>>, cache, sent)
    BY DEF LoggerBookkeeping, CacheOK
  <2> QED BY <2>1, CacheKept
<1>5. ReachOK'
  <2> SUFFICES ASSUME escaped = "no", NEW l \in Registered', NEW m \in DOMAIN sent, WantsMessage(l, sent[m])
               PROVE  m \in Range(SeenIn(got, l))
    BY DEF ReachOK, Reach
  <2>1. \A x \in Registered : WantsMessage(x, sent[m]) => m \in Range(SeenIn(got, x))
    BY NothingOnItsWay DEF LoggerBookkeeping, ReachOK, Reach
  <2>2. l # "debug"
    BY DEF WantsMessage
  <2>3. CASE l \in Registered
    BY <2>1, <2>3
  <2>4. CASE l = "console" /\ "auto" \in Registered
    <3>1. m \in Range(SeenIn(got, "auto"))
      <4>1. WantsMessage("auto", sent[m])
        BY <2>4 DEF WantsMessage
      <4> QED BY <2>1, <2>4, <4>1
    <3>2. got \in [Receivers -> Seq(Nat)] /\ "auto" \in Receivers /\ "console" \in Receivers
      BY DEF LoggerBookkeeping, TypeOK, Receivers, Others
    <3>3. Range(SeenIn(got, "auto")) \subseteq Range(SeenIn(got, "console"))
      BY <3>2, SeenType
    <3> QED BY <2>4, <3>1, <3>3
  <2> QED BY <2>2, <2>3, <2>4
<1>6. GotOK'
  BY DEF LoggerBookkeeping, GotOK
<1>7. OrderOK'
  <2> SUFFICES ASSUME ~FailedIn("message")
               PROVE  InOrder(calls', got, cache', sent, imported', pc' \in Early)
    BY DEF OrderOK, FailedIn
  <2>1. InOrder(calls, got, cache, sent, imported, pc \in Early)
    BY DEF LoggerBookkeeping, OrderOK
  <2>2. calls' # <<>> => Last(calls').method # "message"
    BY <1>0
  <2> QED BY <2>1, <2>2 DEF InOrder
<1>8. ErrorsOK'
  <2>1. Errors' = Errors
    BY DEF Errors
  <2>2. (pc = "ended" /\ Registered = {}) \/ Cardinality(Errors) <= Len(failures) + causes
    BY DEF LoggerBookkeeping, ErrorsOK
  <2>3. \A l \in Receivers : Cardinality(Errors \cap Range(got[l])) <= Len(failures) + causes
    BY DEF LoggerBookkeeping, ErrorsOK
  <2> HIDE DEF Errors
  <2> QED BY <2>1, <2>2, <2>3 DEF ErrorsOK
<1> QED BY <1>1, <1>3, <1>4, <1>5, <1>6, <1>7, <1>8 DEF MessagesOK

\* A logger is registered, and the cached messages are relayed to it.
LEMMA RelayStep ==
  ASSUME LoggerBookkeeping, calls = <<>>, Unchanged, sent' = sent, causes' = causes, cache' = cache,
         imported' = imported, pc \in Early, pc' \in {"sources", "listeners", "registered"},
         NEW to \in RelayTargets, calls' = RelayFrom(to, 1, cache),
         Registered' = Registered \cup RelayedTo(to, imported),
         RelayedTo(to, imported) \cap Registered = {}, to \in Range(AllLoggers)'
  PROVE  MessagesOK'
<1> USE DEF Unchanged
<1>1. /\ RegistrationType /\ sent \in Seq(Levels) /\ cache \in Seq(Nat)
      /\ got \in [Receivers -> Seq(Nat)]
  BY DEF LoggerBookkeeping, TypeOK, Levels
<1>2. AllKept(<<>>, cache, sent)
  BY DEF LoggerBookkeeping, CacheOK
<1>3. Range(cache) = DOMAIN sent
  <2>1. Range(cache) \subseteq DOMAIN sent /\ \A m \in DOMAIN sent : Kept(<<>>, cache, m)
    BY <1>2 DEF AllKept
  <2>2. \A m : Kept(<<>>, cache, m) => m \in Range(cache)
    BY DEF Kept
  <2> QED BY <2>1, <2>2
<1>4. cache # NoCache
  <2>1. 0 \notin DOMAIN sent
    BY <1>1
  <2>2. 0 \in Range(NoCache)
    BY DEF NoCache, Range
  <2> QED BY <1>3, <2>1, <2>2
<1>5. 1 \in Nat \ {0} /\ Len(cache) \in Nat
  BY <1>1
<1>6. /\ calls' \in Seq(FrameType)
      /\ 1 > Len(cache) => calls' = <<>>
      /\ 1 <= Len(cache) =>
           /\ DOMAIN calls' = {1}
           /\ calls'[1].method = "message" /\ calls'[1].message = cache[1]
           /\ calls'[1].next = "relay" /\ calls'[1].to = to /\ calls'[1].number = 1
           /\ Distinct(calls'[1].todo) /\ Range(calls'[1].todo) = RelayedTo(to, imported)
           /\ 1 \in DOMAIN cache
  BY <1>1, <1>4, <1>5, RelayFrame
<1>7. \A k \in DOMAIN calls' :
           /\ k = 1
           /\ calls'[1].method = "message" /\ calls'[1].message = cache[1]
           /\ calls'[1].next = "relay" /\ calls'[1].to = to /\ calls'[1].number = 1
           /\ Distinct(calls'[1].todo) /\ Range(calls'[1].todo) = RelayedTo(to, imported)
           /\ 1 \in DOMAIN cache
  <2>1. 1 > Len(cache) \/ 1 <= Len(cache)
    BY <1>5
  <2> QED BY <1>6, <2>1
<1>8. FramesOK'
  <2>1. cache[1] \in Range(cache) \/ 1 \notin DOMAIN cache
    BY DEF Range
  <2> QED BY ZenonT(60), <1>3, <1>7, <2>1 DEF FramesOK, FrameOK
<1>9. CacheOK'
  BY <1>2, CacheKept DEF CacheOK
<1>10. ReachOK'
  <2> SUFFICES ASSUME escaped = "no" PROVE Reach(RelayFrom(to, 1, cache), got, cache, sent, imported, Registered')
    BY DEF ReachOK
  <2>1. \A l \in Registered, m \in DOMAIN sent : WantsMessage(l, sent[m]) => m \in Range(SeenIn(got, l))
    BY NothingOnItsWay DEF LoggerBookkeeping, ReachOK, Reach
  <2>2. \A m \in DOMAIN sent : \E j \in DOMAIN cache : 1 <= j /\ cache[j] = m
    BY <1>1, <1>3 DEF Range
  <2>3. \A l \in Registered', m \in DOMAIN sent : WantsMessage(l, sent[m]) =>
            \/ m \in Range(SeenIn(got, l))
            \/ l \in RelayedTo(to, imported) /\ \E j \in DOMAIN cache : 1 <= j /\ cache[j] = m
    BY <2>1, <2>2
  <2> QED BY <1>1, <1>4, <1>5, <2>3, RelayReach
<1>11. GotOK'
  BY DEF LoggerBookkeeping, GotOK, Early, BeforeListeners, BeforeConsole
<1>12. OrderOK'
  <2> SUFFICES ASSUME ~FailedIn("message")
               PROVE  InOrder(RelayFrom(to, 1, cache), got, cache, sent, imported, TRUE)
    <3>1. (pc' \in Early) = TRUE
      BY DEF Early, BeforeListeners, BeforeConsole
    <3> QED BY <3>1 DEF OrderOK, FailedIn
  <2>1. InOrder(calls, got, cache, sent, imported, TRUE)
    BY DEF LoggerBookkeeping, OrderOK
  <2>2. Sorted(cache) /\ \A l \in Receivers : Sorted(SeenIn(got, l))
    BY <2>1 DEF InOrder
  <2>3. \A l \in RelayedTo(to, imported) : SeenIn(got, l) = <<>>
    <3>1. RelayedTo(to, imported) \subseteq Receivers \ {"auto", "console"}
      BY <1>1, RelayedReceivers
    <3>2. \A l \in RelayedTo(to, imported) : got[l] = <<>>
      BY <3>1 DEF LoggerBookkeeping, GotOK
    <3> QED BY <3>1, <3>2 DEF SeenIn
  <2>4. \A l \in RelayedTo(to, imported) : Before(SeenIn(got, l), cache[1])
    BY <2>3 DEF Before
  <2> QED BY <1>1, <1>4, <1>5, <2>2, <2>4, RelayInOrder
<1>13. ErrorsOK'
  <2>1. Errors' = Errors
    BY DEF Errors
  <2>2. (pc = "ended" /\ Registered = {}) \/ Cardinality(Errors) <= Len(failures) + causes
    BY DEF LoggerBookkeeping, ErrorsOK
  <2>3. \A l \in Receivers : Cardinality(Errors \cap Range(got[l])) <= Len(failures) + causes
    BY DEF LoggerBookkeeping, ErrorsOK
  <2> HIDE DEF Errors
  <2> QED BY <2>1, <2>2, <2>3 DEF ErrorsOK
<1> QED BY <1>1, <1>6, <1>7, <1>8, <1>9, <1>10, <1>11, <1>12, <1>13 DEF MessagesOK

Imports ==
  pc \in Early => /\ at <= Len(Listeners)
                  /\ \A i \in DOMAIN imported : \E j \in 1 .. at : Listeners[j] = imported[i]

\* The output file is the only logger of its kind.
LEMMA XmlUnregistered ==
  ASSUME NEW s \in {<<>>, <<"xml">>}
  PROVE  Unregistered(s, "xml") = <<>>
<1>1. CASE s = <<>>
  BY <1>1 DEF Unregistered, Range
<1>2. CASE s = <<"xml">>
  <2>1. "xml" \in Range(s) /\ (CHOOSE i \in DOMAIN s : s[i] = "xml") = 1
    BY <1>2 DEF Range
  <2>2. RemoveAt(s, 1) = <<>>
    BY <1>2 DEF RemoveAt
  <2> QED BY <2>1, <2>2 DEF Unregistered
<1> QED BY <1>1, <1>2

LEMMA RegistrationMain ==
  ASSUME LoggerBookkeeping, Main
  PROVE  RegistrationType' /\ Imports' /\ RegistrationOK'
<1> USE DEF Step, registration, observed
<1>1. /\ RegistrationType /\ Imports /\ RegistrationOK /\ pc \in Places /\ at \in Nat
      /\ Range(regular) \subseteq RegularLoggers
  <2>1. RegistrationType /\ pc \in Places /\ at \in Nat
    BY DEF LoggerBookkeeping, TypeOK
  <2>2. RegistrationOK /\ Imports
    BY DEF LoggerBookkeeping, DistinctOK, Imports
  <2>3. regular \in Seq(RegularLoggers)
    BY <2>1 DEF RegistrationType
  <2>4. Range(regular) \subseteq RegularLoggers
    BY <2>3 DEF Range
  <2> QED BY <2>1, <2>2, <2>4
<1> USE DEF Early, BeforeListeners, BeforeConsole, Places
<1>2. ASSUME UNCHANGED registration,
             \/ RunFromCli \/ LogSources \/ OpenDebugFile \/ RunSuite \/ ExecutionEnded \/ WriteLog \/ Close \/ Exit
      PROVE  RegistrationType' /\ Imports' /\ RegistrationOK'
  <2>1. RegistrationType'
    BY <1>1, <1>2 DEF RegistrationType
  <2>2. CASE RunFromCli
    BY <1>1, <1>2, <2>1, <2>2 DEF RunFromCli, Imports, RegistrationOK
  <2>3. CASE LogSources
    BY <1>1, <1>2, <2>1, <2>3 DEF LogSources, Imports, RegistrationOK
  <2>4. CASE OpenDebugFile
    BY <1>1, <1>2, <2>1, <2>4 DEF OpenDebugFile, Imports, RegistrationOK
  <2>5. CASE RunSuite
    BY <1>1, <1>2, <2>1, <2>5 DEF RunSuite, Imports, RegistrationOK
  <2>6. CASE ExecutionEnded
    BY <1>1, <1>2, <2>1, <2>6 DEF ExecutionEnded, Imports, RegistrationOK
  <2>7. CASE WriteLog
    BY <1>1, <1>2, <2>1, <2>7 DEF WriteLog, Imports, RegistrationOK
  <2>8. CASE Close
    BY <1>1, <1>2, <2>1, <2>8 DEF Close, Imports, RegistrationOK
  <2>9. CASE Exit
    BY <1>1, <1>2, <2>1, <2>9 DEF Exit, Imports, RegistrationOK
  <2> QED BY <1>2, <2>2, <2>3, <2>4, <2>5, <2>6, <2>7, <2>8, <2>9
<1>3. CASE RegisterFileLogger
  <2>1. /\ regular # <<>> /\ Head(regular) = "auto" /\ Range(regular) = {"auto"}
        /\ pc = "syslog" /\ pc' = "sources"
        /\ UNCHANGED <<contextChanging, consoleDisabled, imported, at, escaped>>
        /\ regular' = regular \/ regular' = Append(regular, "file")
    BY <1>1, <1>3 DEF RegistrationOK, RegisterFileLogger, Register
  <2>2. regular \in Seq(RegularLoggers) /\ Distinct(regular) /\ "file" \in RegularLoggers /\ "file" \notin Range(regular)
    BY <1>1, <2>1 DEF RegistrationType, RegularLoggers
  <2>3. /\ Append(regular, "file") \in Seq(RegularLoggers) /\ Distinct(Append(regular, "file"))
        /\ Range(Append(regular, "file")) = Range(regular) \cup {"file"}
        /\ Append(regular, "file") # <<>> /\ Head(Append(regular, "file")) = Head(regular)
    BY <2>1, <2>2, AppendRange
  <2>4. /\ regular' \in Seq(RegularLoggers) /\ Distinct(regular') /\ Range(regular') \subseteq {"auto", "file"}
        /\ regular' # <<>> /\ Head(regular') = "auto"
    BY <2>1, <2>2, <2>3
  <2>5. RegistrationOK'
    BY <1>1, <2>1, <2>4 DEF RegistrationOK
  <2> QED BY <1>1, <2>1, <2>4, <2>5 DEF RegistrationType, Imports
<1>4. CASE RegisterConsoleLogger
  <2>1. /\ regular # <<>> /\ Head(regular) = "auto" /\ Range(regular) \subseteq {"auto", "file"}
        /\ ~consoleDisabled /\ pc = "console" /\ pc' = "output"
        /\ consoleDisabled' = TRUE /\ UNCHANGED <<contextChanging, imported, at, escaped>>
    BY <1>1, <1>4 DEF RegistrationOK, RegisterConsoleLogger
  <2>2. regular' = Append(Tail(regular), "console")
    BY <1>4, <2>1 DEF RegisterConsoleLogger
  <2>3. regular \in Seq(RegularLoggers) /\ Distinct(regular) /\ "console" \in RegularLoggers
    BY <1>1 DEF RegistrationType, RegularLoggers
  <2>4. Tail(regular) \in Seq(RegularLoggers) /\ Distinct(Tail(regular)) /\ Range(Tail(regular)) \subseteq {"file"}
    BY <2>1, <2>3, TailRange
  <2>5. regular' \in Seq(RegularLoggers) /\ Distinct(regular') /\ Range(regular') \subseteq {"file", "console"}
    <3> DEFINE t == Tail(regular)
    <3>1. t \in Seq(RegularLoggers) /\ Distinct(t) /\ Range(t) \subseteq {"file"}
      BY <2>4
    <3> HIDE DEF t
    <3>2. /\ Append(t, "console") \in Seq(RegularLoggers) /\ Distinct(Append(t, "console"))
          /\ Range(Append(t, "console")) = Range(t) \cup {"console"}
      BY <2>3, <3>1, AppendRange
    <3> QED BY <2>2, <3>1, <3>2 DEF t
  <2>6. RegistrationOK'
    BY <1>1, <2>1, <2>5 DEF RegistrationOK
  <2> QED BY <1>1, <2>1, <2>5, <2>6 DEF RegistrationType, Imports
<1>5. CASE RegisterXmlLogger
  <2>1. /\ contextChanging = <<>> /\ pc = "output" /\ pc' = "listeners" /\ contextChanging' = <<"xml">>
        /\ UNCHANGED <<regular, consoleDisabled, imported, at, escaped>>
    BY <1>1, <1>5 DEF RegistrationOK, RegisterXmlLogger
  <2>2. RegistrationOK'
    BY <1>1, <2>1 DEF RegistrationOK
  <2> QED BY <1>1, <2>1, <2>2 DEF RegistrationType, Imports
<1>6. CASE ImportListener
  <2>1. /\ pc = "listeners" /\ pc' = "listeners" /\ at < Len(Listeners) /\ at' = at + 1
        /\ UNCHANGED <<contextChanging, regular, consoleDisabled, escaped>>
        /\ imported' = IF Listeners[at + 1] \in Broken THEN imported ELSE Append(imported, Listeners[at + 1])
    BY <1>6 DEF ImportListener
  <2>2. RegistrationOK'
    BY <1>1, <2>1 DEF RegistrationOK
  <2>3. /\ Len(Listeners) \in Nat /\ at + 1 \in 1 .. Len(Listeners) /\ DOMAIN Listeners = 1 .. Len(Listeners)
        /\ \A i, j \in DOMAIN Listeners : Listeners[i] = Listeners[j] => i = j
    BY <1>1, <2>1, ListenersAssumption
  <2>4. Listeners[at + 1] \in Range(Listeners) /\ imported \in Seq(Range(Listeners)) /\ Distinct(imported)
    BY <1>1, <2>3 DEF Range, RegistrationType
  <2>5. \A i \in DOMAIN imported : \E j \in 1 .. at : Listeners[j] = imported[i]
    BY <1>1, <2>1 DEF Imports
  <2>6. Listeners[at + 1] \notin Range(imported)
    <3> SUFFICES ASSUME NEW i \in DOMAIN imported, Listeners[at + 1] = imported[i] PROVE FALSE
      BY DEF Range
    <3>1. PICK j \in 1 .. at : Listeners[j] = imported[i]
      BY <2>5
    <3>2. j \in 1 .. Len(Listeners) /\ j # at + 1
      BY <1>1, <2>3, <3>1
    <3> QED BY <2>3, <3>1, <3>2
  <2>7. imported' \in Seq(Range(Listeners)) /\ Distinct(imported') /\ Range(imported') \subseteq Range(imported) \cup {Listeners[at + 1]}
    BY <2>1, <2>4, <2>6, AppendRange
  <2>8. \A x \in Range(imported) \cup {Listeners[at + 1]} : \E j \in 1 .. at + 1 : Listeners[j] = x
    BY <1>1, <2>5 DEF Range
  <2>9. at + 1 <= Len(Listeners) /\ \A i \in DOMAIN imported' : \E j \in 1 .. at + 1 : Listeners[j] = imported'[i]
    <3>1. at + 1 <= Len(Listeners)
      BY <2>3
    <3>2. \A i \in DOMAIN imported' : imported'[i] \in Range(imported) \cup {Listeners[at + 1]}
      BY <2>7 DEF Range
    <3> QED BY <2>8, <3>1, <3>2
  <2> QED BY <1>1, <2>1, <2>2, <2>7, <2>9 DEF RegistrationType, Imports
<1>7. CASE RegisterListeners
  <2>1. /\ pc = "register" /\ pc' = "registered" /\ UNCHANGED <<contextChanging, consoleDisabled, imported, at, escaped>>
        /\ regular' = regular \/ regular' = Append(regular, "listeners")
        /\ Range(regular) \subseteq {"file", "console"}
    BY <1>1, <1>7 DEF RegisterListeners, Register, RegistrationOK
  <2>2. /\ regular' \in Seq(RegularLoggers) /\ Distinct(regular')
        /\ Range(regular') \subseteq Range(regular) \cup {"listeners"}
    <3>1. regular \in Seq(RegularLoggers) /\ Distinct(regular)
      BY <1>1 DEF RegistrationType
    <3>2. "listeners" \in RegularLoggers /\ "listeners" \notin Range(regular)
      BY <2>1 DEF RegularLoggers
    <3>3. /\ Append(regular, "listeners") \in Seq(RegularLoggers) /\ Distinct(Append(regular, "listeners"))
          /\ Range(Append(regular, "listeners")) = Range(regular) \cup {"listeners"}
      BY <3>1, <3>2, AppendRange
    <3> QED BY <2>1, <3>1, <3>3
  <2>3. RegistrationOK'
    BY <1>1, <2>1, <2>2 DEF RegistrationOK
  <2> QED BY <1>1, <2>1, <2>2, <2>3 DEF RegistrationType, Imports
<1>8. CASE RegisterDebugFile
  <2>1. /\ pc = "registered" /\ pc' = "running" /\ UNCHANGED <<contextChanging, consoleDisabled, imported, escaped>>
        /\ regular' = regular \/ regular' = Append(regular, "debug")
        /\ Range(regular) \subseteq {"file", "console", "listeners"}
    BY <1>1, <1>8 DEF RegisterDebugFile, RegistrationOK
  <2>2. /\ regular' \in Seq(RegularLoggers) /\ Distinct(regular')
        /\ Range(regular') \subseteq Range(regular) \cup {"debug"}
    <3>1. regular \in Seq(RegularLoggers) /\ Distinct(regular)
      BY <1>1 DEF RegistrationType
    <3>2. "debug" \in RegularLoggers /\ "debug" \notin Range(regular)
      BY <2>1 DEF RegularLoggers
    <3>3. /\ Append(regular, "debug") \in Seq(RegularLoggers) /\ Distinct(Append(regular, "debug"))
          /\ Range(Append(regular, "debug")) = Range(regular) \cup {"debug"}
      BY <3>1, <3>2, AppendRange
    <3> QED BY <2>1, <3>1, <3>3
  <2>3. RegistrationOK'
    BY <1>1, <2>1, <2>2 DEF RegistrationOK
  <2> QED BY <1>1, <2>1, <2>2, <2>3 DEF RegistrationType, Imports
<1>9. CASE CloseOutput
  <2>1. /\ pc = "executed" /\ pc' = "log" /\ UNCHANGED <<regular, consoleDisabled, imported, at, escaped>>
        /\ contextChanging' = Unregistered(contextChanging, "xml")
    BY <1>9 DEF CloseOutput
  <2>2. contextChanging' = <<>>
    BY <1>1, <2>1, XmlUnregistered DEF RegistrationType
  <2>3. RegistrationOK'
    BY <1>1, <2>1, <2>2 DEF RegistrationOK
  <2> QED BY <1>1, <2>1, <2>2, <2>3 DEF RegistrationType, Imports
<1>10. CASE Closed
  <2>1. /\ pc = "closing" /\ pc' = "exit" /\ contextChanging' = <<>> /\ regular' = <<>>
        /\ UNCHANGED <<imported, consoleDisabled, at, escaped>>
    BY <1>10 DEF Closed
  <2>2. regular' \in Seq(RegularLoggers) /\ Distinct(regular') /\ Range(regular') = {}
    BY <2>1 DEF Distinct, Range
  <2>3. RegistrationOK'
    BY <1>1, <2>1, <2>2 DEF RegistrationOK
  <2> QED BY <1>1, <2>1, <2>2, <2>3 DEF RegistrationType, Imports
<1>11. RunFromCli \/ LogSources \/ OpenDebugFile \/ RunSuite \/ ExecutionEnded \/ WriteLog \/ Close \/ Exit
         => UNCHANGED registration
  BY DEF RunFromCli, LogSources, OpenDebugFile, RunSuite, ExecutionEnded, WriteLog, Close, Exit
<1> HIDE DEF Step, registration, observed, Early, BeforeListeners, BeforeConsole, Places
<1> QED BY <1>2, <1>3, <1>4, <1>5, <1>6, <1>7, <1>8, <1>9, <1>10, <1>11 DEF Main

-----------------------------------------------------------------------------
(* What a step of the main program does to messages *)

RegisteredOK ==
  /\ Registered = RegisteredNow /\ Registered \subseteq Receivers
  /\ Range(AllLoggers) = Range(contextChanging) \cup Range(regular)
LEMMA RegisteredType == RegistrationType => RegisteredOK
BY RegisteredRange, AllLoggersRange DEF RegisteredOK

\* Which loggers are registered after a step.
LEMMA RegisteredAfter == RegistrationType' => RegisteredOK'
BY RegisteredType, PTL

\* The events one by one.
LEMMA EventsParts ==
  /\ Len(Events) = 10
  /\ Events[1] = <<"start", "suite">> /\ Events[2] = <<"start", "suite">> /\ Events[3] = <<"start", "test">>
  /\ Events[4] = <<"start", "kw">> /\ Events[5] = <<"log", "">> /\ Events[6] = <<"end", "kw">>
  /\ Events[7] = <<"end", "test">> /\ Events[8] = <<"end", "suite">> /\ Events[9] = <<"split", "">>
  /\ Events[10] = <<"end", "suite">>
BY DEF Events

LEMMA EventsItems ==
  ASSUME NEW n \in 1 .. Len(Events)
  PROVE  Events[n][1] \in {"start", "end", "log", "split"} /\ Events[n][2] \in Items
<1>1. n \in 1 .. 10
  BY EventsParts
<1>2. n = 1 \/ n = 2 \/ n = 3 \/ n = 4 \/ n = 5 \/ n = 6 \/ n = 7 \/ n = 8 \/ n = 9 \/ n = 10
  BY <1>1
<1>3. /\ Events[1][1] = "start" /\ Events[2][1] = "start" /\ Events[3][1] = "start" /\ Events[4][1] = "start"
      /\ Events[5][1] = "log" /\ Events[6][1] = "end" /\ Events[7][1] = "end" /\ Events[8][1] = "end"
      /\ Events[9][1] = "split" /\ Events[10][1] = "end"
  BY DEF Events
<1>4. /\ Events[1][2] = "suite" /\ Events[2][2] = "suite" /\ Events[3][2] = "test" /\ Events[4][2] = "kw"
      /\ Events[5][2] = "" /\ Events[6][2] = "kw" /\ Events[7][2] = "test" /\ Events[8][2] = "suite"
      /\ Events[9][2] = "" /\ Events[10][2] = "suite"
  BY DEF Events
<1>5. Events[n][1] \in {"start", "end", "log", "split"}
  BY <1>2, <1>3
<1>6. Events[n][2] \in Items
  BY <1>2, <1>4 DEF Items
<1> QED BY <1>5, <1>6

\* Messages and calls after a step of the main program.
LEMMA MessagesMain ==
  ASSUME LoggerBookkeeping, Main
  PROVE  MessagesOK'
<1> USE DEF Step, registration, observed
<1>1. /\ RegistrationType /\ RegistrationOK /\ TypeOK /\ CacheOK
      /\ RegisteredOK /\ RegisteredOK'
  BY RegistrationMain, RegisteredType, RegisteredAfter DEF LoggerBookkeeping, TypeOK
<1>2. Registered = RegisteredNow /\ Registered' = RegisteredNow' /\ Registered \subseteq Receivers
  BY <1>1 DEF RegisteredOK
<1>20. Range(AllLoggers)' = Range(contextChanging') \cup Range(regular')
  BY <1>1 DEF RegisteredOK
<1>3. /\ IsSent(NewMessage) /\ IsSent(ErrorThenInfo)
      /\ \A method \in Methods, item \in Items : IsAnnounced(Call(method, item), method, item)
  BY <1>1, NewMessageParts, CallParts
<1>4. ASSUME UNCHANGED <<contextChanging, regular, imported>> PROVE Registered' = Registered
  BY <1>2, <1>4 DEF RegisteredNow
<1>5. ASSUME NEW level \in {"INFO", "ERROR"}, Say(level)
      PROVE  /\ level \in Levels /\ sent' = Append(sent, level) /\ causes' \in {causes, causes + 1}
             /\ level = "ERROR" => causes' = causes + 1
             /\ \E f : IsSent(f) /\ calls' = <<f>>
  BY <1>3, <1>5 DEF Say, Levels
<1>6. ASSUME calls = <<>>, Unchanged, cache' = cache, Registered' = Registered, pc' \in Early => pc \in Early,
             NEW level \in {"INFO", "ERROR"}, Say(level)
      PROVE  MessagesOK'
  BY <1>5, <1>6, SayStep
<1> USE DEF Unchanged
<1>7. CASE RunFromCli
  BY <1>4, <1>6, <1>7 DEF RunFromCli, Early, BeforeListeners, BeforeConsole
<1>8. CASE LogSources
  BY <1>4, <1>6, <1>8 DEF LogSources, Early, BeforeListeners, BeforeConsole
<1>9. CASE ExecutionEnded
  BY <1>4, <1>6, <1>9 DEF ExecutionEnded, Early, BeforeListeners, BeforeConsole
<1>10. CASE OpenDebugFile
  BY <1>4, <1>6, <1>10 DEF OpenDebugFile, Early, BeforeListeners, BeforeConsole
<1>11. CASE ImportListener
  <2>1. "listeners" \notin Range(regular) /\ contextChanging = <<"xml">>
    BY <1>1, <1>11 DEF RegistrationOK, ImportListener, Early, BeforeListeners, BeforeConsole
  <2>2. Registered' = Registered
    BY <1>2, <1>11, <2>1, OneRange DEF RegisteredNow, ImportListener
  <2> QED BY <1>6, <1>11, <2>2 DEF ImportListener, Early, BeforeListeners, BeforeConsole
<1>12. CASE Exit
  <2>1. escaped \notin Uncaught => Registered = {}
    <3>1. Range(<<>>) = {}
      BY DEF Range
    <3> QED BY <1>1, <1>2, <1>12, <3>1 DEF RegistrationOK, RegisteredNow, Exit
  <2>2. PICK f : IsSent(f) /\ calls' = <<f>>
    BY <1>3, <1>12 DEF Exit
  <2>3. "ERROR" \in Levels /\ sent' = Append(sent, "ERROR") /\ causes' \in {causes, causes + 1}
        /\ (causes' = causes + 1 \/ (pc' = "ended" /\ Registered = {}))
        /\ calls = <<>> /\ got' = got /\ failures' = failures /\ escaped' = escaped /\ pc # "ended"
        /\ cache' = cache /\ Registered' = Registered /\ ~(pc' \in Early)
    BY <1>4, <1>12, <2>1 DEF Exit, Levels, Early, BeforeListeners, BeforeConsole
  <2> QED BY <2>2, <2>3, SayStep
<1>13. CASE RegisterFileLogger
  <2>1. /\ pc = "syslog" /\ pc' = "sources" /\ Range(regular) = {"auto"} /\ regular \in Seq(RegularLoggers)
        /\ contextChanging = <<>> /\ calls = <<>> /\ imported' = imported /\ cache' = cache
        /\ contextChanging' = contextChanging
        /\ got' = got /\ failures' = failures /\ escaped' = escaped
    BY <1>1, <1>13 DEF RegistrationOK, RegisterFileLogger, Early, BeforeListeners, BeforeConsole, RegistrationType
  <2>2. pc \in Early /\ pc' \in Early
    BY <2>1 DEF Early, BeforeListeners, BeforeConsole
  <2>3. CASE calls' = <<>> /\ UNCHANGED <<regular, sent, causes>>
    BY <1>4, <2>1, <2>2, <2>3, CallStep
  <2>4. CASE Register("file") /\ UNCHANGED <<sent, causes>>
    <3>1. regular' = Append(regular, "file") /\ calls' = RelayFrom("file", 1, cache)
      BY <2>4 DEF Register
    <3>2. Range(regular') = {"auto", "file"}
      BY <2>1, <3>1, AppendRange DEF RegularLoggers
    <3>3. Registered = {"auto"} /\ Registered' = {"auto", "file"} /\ RelayedTo("file", imported) = {"file"}
      <4>1. Range(<<>>) = {}
        BY DEF Range
      <4> QED BY <1>2, <2>1, <3>2, <4>1 DEF RegisteredNow, RelayedTo
    <3>4. "file" \in Range(AllLoggers)'
      BY <1>20, <3>2
    <3>5. "file" \in RelayTargets
      BY DEF RelayTargets
    <3> QED BY <2>1, <2>2, <2>4, <3>1, <3>3, <3>4, <3>5, RelayStep
  <2>5. CASE Say("ERROR") /\ UNCHANGED <<regular>>
    BY <1>4, <1>6, <2>1, <2>2, <2>5
  <2> QED BY <1>13, <2>3, <2>4, <2>5 DEF RegisterFileLogger
<1>14. CASE RegisterConsoleLogger
  <2>1. /\ regular # <<>> /\ Head(regular) = "auto" /\ Range(regular) \subseteq {"auto", "file"}
        /\ ~consoleDisabled /\ pc = "console" /\ pc' = "output"
        /\ UNCHANGED <<contextChanging, imported, calls, cache, sent, causes, got, failures, escaped>>
    BY <1>1, <1>14 DEF RegistrationOK, RegisterConsoleLogger, Early, BeforeListeners, BeforeConsole
  <2>2. regular' = Append(Tail(regular), "console") /\ calls = <<>>
    BY <1>14, <2>1 DEF RegisterConsoleLogger
  <2>3. regular \in Seq(RegularLoggers) /\ Distinct(regular) /\ "console" \in RegularLoggers
    BY <1>1 DEF RegistrationType, RegularLoggers
  <2>4. Tail(regular) \in Seq(RegularLoggers) /\ Range(Tail(regular)) = Range(regular) \ {"auto"}
    BY <2>1, <2>3, TailRange
  <2>5. Range(regular') = (Range(regular) \ {"auto"}) \cup {"console"}
    <3> DEFINE t == Tail(regular)
    <3>1. t \in Seq(RegularLoggers) /\ Range(t) = Range(regular) \ {"auto"}
      BY <2>4
    <3> HIDE DEF t
    <3>2. Range(Append(t, "console")) = Range(t) \cup {"console"}
      BY <2>3, <3>1, AppendRange
    <3> QED BY <2>2, <3>1, <3>2 DEF t
  <2>6. "auto" \in Range(regular)
    BY <2>1, <2>3 DEF Range
  <2>7. contextChanging = <<>>
    BY <1>1, <2>1 DEF RegistrationOK, Early, BeforeListeners, BeforeConsole
  <2>8. Registered = Range(regular) /\ Registered' = Range(regular')
    <3>1. Range(<<>>) = {}
      BY DEF Range
    <3> QED BY <1>2, <2>1, <2>5, <2>7, <3>1 DEF RegisteredNow
  <2>9. pc \in Early /\ calls' = <<>> /\ pc # "ended"
    BY <2>1, <2>2 DEF Early, BeforeListeners, BeforeConsole
  <2>10. /\ Registered \subseteq Registered' \cup {"auto"}
         /\ \A l \in Registered' : l \in Registered \/ l = "debug" \/ (l = "console" /\ "auto" \in Registered)
    BY <2>5, <2>6, <2>8
  <2> QED BY <2>1, <2>2, <2>9, <2>10, CallStep
<1>15. CASE RegisterXmlLogger
  <2>1. /\ pc = "output" /\ pc' = "listeners" /\ Range(regular) \subseteq {"file", "console"}
        /\ contextChanging = <<>> /\ calls = <<>> /\ imported' = imported /\ cache' = cache
        /\ contextChanging' = <<"xml">> /\ regular' = regular /\ calls' = RelayFrom("xml", 1, cache)
        /\ got' = got /\ failures' = failures /\ escaped' = escaped /\ sent' = sent /\ causes' = causes
    BY <1>1, <1>15 DEF RegistrationOK, RegisterXmlLogger, Early, BeforeListeners, BeforeConsole
  <2>2. Range(<<>>) = {} /\ Range(<<"xml">>) = {"xml"}
    BY DEF Range
  <2>3. /\ RelayedTo("xml", imported) = {"xml"} /\ Registered = Range(regular)
        /\ Registered' = Range(regular) \cup {"xml"}
    BY <1>2, <2>1, <2>2 DEF RegisteredNow, RelayedTo
  <2>4. pc \in Early /\ "xml" \in RelayTargets /\ "xml" \in Range(AllLoggers)' /\ pc # "ended"
    BY <1>20, <2>1, <2>2 DEF RelayTargets, Early, BeforeListeners, BeforeConsole
  <2> QED BY <2>1, <2>3, <2>4, RelayStep
<1>16. CASE RegisterListeners
  <2>1. /\ pc = "register" /\ pc' = "registered" /\ Range(regular) \subseteq {"file", "console"}
        /\ contextChanging = <<"xml">> /\ calls = <<>> /\ imported' = imported /\ cache' = cache
        /\ contextChanging' = contextChanging /\ pc \in Early
        /\ got' = got /\ failures' = failures /\ escaped' = escaped /\ sent' = sent /\ causes' = causes
    BY <1>1, <1>16 DEF RegistrationOK, RegisterListeners, Early, BeforeListeners, BeforeConsole
  <2>2. CASE UNCHANGED <<regular, calls>>
    BY <1>4, <2>1, <2>2, CallStep
  <2>3. CASE Register("listeners")
    <3>1. regular' = Append(regular, "listeners") /\ calls' = RelayFrom("listeners", 1, cache)
      BY <2>3 DEF Register
    <3>2. Range(regular') = Range(regular) \cup {"listeners"}
      BY <1>1, <3>1, AppendRange DEF RegularLoggers, RegistrationType
    <3>3. Range(<<"xml">>) = {"xml"}
      BY DEF Range
    <3>4. /\ RelayedTo("listeners", imported) = Range(imported) /\ Registered = Range(regular) \cup {"xml"}
          /\ Registered' = Registered \cup Range(imported)
      BY <1>2, <2>1, <3>2, <3>3 DEF RegisteredNow, RelayedTo
    <3>5. Range(imported) \cap Registered = {}
      <4>1. Range(imported) \subseteq Range(Listeners)
        BY <1>1 DEF RegistrationType, Range
      <4> QED BY <2>1, <3>4, <4>1, ListenersAssumption DEF Others
    <3>6. "listeners" \in RelayTargets /\ "listeners" \in Range(AllLoggers)' /\ pc # "ended"
      BY <1>20, <2>1, <3>2 DEF RelayTargets
    <3> QED BY <2>1, <3>1, <3>4, <3>5, <3>6, RelayStep
  <2> QED BY <1>16, <2>2, <2>3 DEF RegisterListeners
<1>17. CASE RegisterDebugFile
  <2>1. /\ pc = "registered" /\ pc' = "running"
        /\ UNCHANGED <<contextChanging, imported, calls, sent, causes, got, failures, escaped>>
        /\ regular' = regular \/ regular' = Append(regular, "debug")
    BY <1>17 DEF RegisterDebugFile
  <2>2. Range(regular') \subseteq Range(regular) \cup {"debug"}
    <3>1. regular \in Seq(RegularLoggers) /\ "debug" \in RegularLoggers
      BY <1>1 DEF RegularLoggers, RegistrationType
    <3>2. Range(Append(regular, "debug")) = Range(regular) \cup {"debug"}
      BY <3>1, AppendRange
    <3> QED BY <2>1, <3>2
  <2>3. Registered' \subseteq Registered \cup {"debug"}
    BY <1>2, <2>1, <2>2 DEF RegisteredNow
  <2>4. ~(pc' \in Early) /\ calls = <<>> /\ calls' = <<>> /\ pc # "ended"
    BY <1>17, <2>1 DEF RegisterDebugFile, Early, BeforeListeners, BeforeConsole
  <2> QED BY <2>1, <2>3, <2>4, CallStep
<1>18. CASE RunSuite
  <2>1. /\ pc = "running" /\ pc' = "running" /\ calls = <<>> /\ Registered' = Registered /\ ~(pc' \in Early)
        /\ UNCHANGED <<cache, got, failures, escaped>>
    BY <1>4, <1>18 DEF RunSuite, Early, BeforeListeners, BeforeConsole
  <2>2. CASE Say("INFO")
    BY <1>6, <2>1, <2>2
  <2>3. ASSUME NEW method \in {"start", "end", "log_message", "output_file"}, NEW item \in Items,
               calls' = <<Call(method, item)>>, UNCHANGED <<sent, causes>>
        PROVE  MessagesOK'
    <3> DEFINE f == Call(method, item)
    <3>1. IsAnnounced(f, method, item)
      BY <1>3 DEF Methods
    <3>2. calls' = <<f>>
      BY <2>3
    <3> HIDE DEF f
    <3>3. /\ f \in FrameType /\ f.method # "message" /\ f.next = ""
          /\ Distinct(f.todo) /\ Range(f.todo) \subseteq Registered' /\ f.method # "close"
      BY <2>1, <3>1 DEF IsAnnounced
    <3> QED BY <2>1, <2>3, <3>2, <3>3, CallStep
  <2>4. CASE calls' = <<>> /\ UNCHANGED <<sent, causes>>
    BY <2>1, <2>4, CallStep
  <2>5. \A n \in 1 .. Len(Events) : Events[n][1] \in {"start", "end"} => Events[n][2] \in Items
    BY EventsItems
  <2>6. at + 1 \in 1 .. Len(Events)
    <3>1. at \in Nat /\ at < 10 /\ Len(Events) = 10
      BY <1>1, <1>18, EventsParts DEF RunSuite, TypeOK
    <3> QED BY <3>1
  <2>7. CASE Events[at + 1][1] \in {"start", "end"} /\ calls' = <<Call(Events[at + 1][1], Events[at + 1][2])>>
             /\ UNCHANGED <<sent, causes>>
    BY <2>3, <2>5, <2>6, <2>7
  <2>8. CASE \E level \in {"INFO", "WARN"} : calls' = <<Call("log_message", level)>> /\ UNCHANGED <<sent, causes>>
    BY <2>3, <2>8 DEF Items
  <2>9. CASE calls' = <<Call("output_file", "SplitOutput")>> /\ UNCHANGED <<sent, causes>>
    BY <2>3, <2>9 DEF Items
  <2> QED BY <1>18, <2>2, <2>4, <2>7, <2>8, <2>9 DEF RunSuite
<1>19. CASE CloseOutput
  <2>1. /\ pc = "executed" /\ pc' = "log" /\ calls = <<>> /\ ~(pc' \in Early)
        /\ UNCHANGED <<regular, imported, cache, sent, causes, got, failures, escaped>>
        /\ contextChanging' = Unregistered(contextChanging, "xml")
        /\ calls' = <<Frame("output_file", "Output", Expand(regular))>>
    BY <1>19 DEF CloseOutput, Early, BeforeListeners, BeforeConsole
  <2>2. contextChanging' = <<>>
    BY <1>1, <2>1, XmlUnregistered DEF RegistrationType
  <2>3. regular \in Seq(RegularLoggers \cup {"xml"}) /\ Distinct(regular)
    BY <1>1 DEF RegistrationType
  <2>4. /\ Expand(regular) \in Seq(Receivers) /\ Distinct(Expand(regular))
        /\ Range(Expand(regular)) = (Range(regular) \ {"listeners"})
                                       \cup IF "listeners" \in Range(regular) THEN Range(imported) ELSE {}
    BY <1>1, <2>3, ExpandRange
  <2>5. Registered' = Range(Expand(regular)) /\ Registered' \subseteq Registered
    <3>1. Range(<<>>) = {} /\ "listeners" \notin Range(contextChanging)
      BY <1>1, OneRange DEF Range, RegistrationType
    <3> QED BY <1>2, <2>1, <2>2, <2>4, <3>1 DEF RegisteredNow
  <2> DEFINE f == Frame("output_file", "Output", Expand(regular))
  <2>6. IsCall(f, "output_file", "Output", Expand(regular))
    BY <2>4, FrameParts DEF Methods, Items
  <2>7. calls' = <<f>>
    BY <2>1
  <2> HIDE DEF f
  <2>8. /\ f \in FrameType /\ f.method # "message" /\ f.next = "" /\ f.method = "output_file"
        /\ Distinct(f.todo) /\ Range(f.todo) \subseteq Registered'
    BY <2>4, <2>5, <2>6 DEF IsCall
  <2>9. pc # "ended"
    BY <2>1
  <2> QED BY <2>1, <2>5, <2>7, <2>8, <2>9, CallStep
<1>21. ASSUME NEW method \in {"output_file", "close"}, NEW item \in Items, calls' = <<Call(method, item)>>,
              method = "close" => pc' = "closing",
              calls = <<>>, ~(pc' \in Early), pc # "ended",
              UNCHANGED <<registration, cache, sent, causes, got, failures, escaped>>
       PROVE  MessagesOK'
  <2> DEFINE f == Call(method, item)
  <2>1. IsAnnounced(f, method, item)
    BY <1>3 DEF Methods
  <2>2. calls' = <<f>> /\ Registered' = Registered
    BY <1>4, <1>21
  <2> HIDE DEF f
  <2>3. /\ f \in FrameType /\ f.method # "message" /\ f.next = "" /\ f.method = method
        /\ Distinct(f.todo) /\ Range(f.todo) \subseteq Registered'
    BY <2>1, <2>2 DEF IsAnnounced
  <2> QED BY <1>21, <2>2, <2>3, CallStep
<1>22. CASE WriteLog
  BY <1>21, <1>22 DEF WriteLog, Items, Early, BeforeListeners, BeforeConsole
<1>23. CASE Close
  BY <1>21, <1>23 DEF Close, Items, Early, BeforeListeners, BeforeConsole
<1>24. CASE Closed
  <2>1. Range(<<>>) = {}
    BY DEF Range
  <2>2. Registered' = {}
    BY <1>2, <1>24, <2>1 DEF RegisteredNow, Closed
  <2>3. calls = <<>> /\ calls' = <<>> /\ ~(pc' \in Early) /\ pc # "ended"
        /\ UNCHANGED <<sent, causes, got, failures, escaped>>
    BY <1>24 DEF Closed, Early, BeforeListeners, BeforeConsole
  <2> QED BY <2>2, <2>3, CallStep
<1> QED BY <1>7, <1>8, <1>9, <1>10, <1>11, <1>12, <1>13, <1>14, <1>15, <1>16, <1>17, <1>18, <1>19,
           <1>22, <1>23, <1>24 DEF Main

-----------------------------------------------------------------------------
(* The events, and what is open then *)

LEMMA SameSequence ==
  ASSUME NEW S, NEW s \in Seq(S), NEW t \in Seq(S), Len(s) = Len(t), \A i \in 1 .. Len(s) : s[i] = t[i]
  PROVE  s = t
OBVIOUS

\* t is s with one element more.
OneMore(s, t, x) ==
  /\ s \in Seq(Items) /\ t \in Seq(Items) /\ x \in Items /\ Len(t) = Len(s) + 1
  /\ \A i \in 1 .. Len(s) : t[i] = s[i]
  /\ t[Len(s) + 1] = x
LEMMA OneMoreParts ==
  ASSUME NEW s, NEW t, NEW x, OneMore(s, t, x)
  PROVE  /\ s \in Seq(Items) /\ t \in Seq(Items) /\ Append(s, x) = t /\ Front(t) = s
         /\ IsPrefix(s, t) /\ IsPrefix(s, s) /\ IsPrefix(t, t) /\ IsPrefix(<<>>, s) /\ IsPrefix(<<>>, t)
<1>1. /\ s \in Seq(Items) /\ t \in Seq(Items) /\ x \in Items /\ Len(t) = Len(s) + 1 /\ Len(s) \in Nat
      /\ \A i \in 1 .. Len(s) : t[i] = s[i]
      /\ t[Len(s) + 1] = x
  BY DEF OneMore
<1>2. Append(s, x) = t
  <2>1. /\ Append(s, x) \in Seq(Items) /\ Len(Append(s, x)) = Len(t)
        /\ \A i \in 1 .. Len(t) : Append(s, x)[i] = t[i]
    BY <1>1
  <2> QED BY <1>1, <2>1, SameSequence
<1>3. /\ SubSeq(t, 1, Len(s)) \in Seq(Items) /\ Len(SubSeq(t, 1, Len(s))) = Len(s)
      /\ \A i \in 1 .. Len(s) : SubSeq(t, 1, Len(s))[i] = s[i]
  BY <1>1
<1>4. SubSeq(t, 1, Len(s)) = s
  BY <1>1, <1>3, SameSequence
<1>5. Front(t) = s
  BY <1>1, <1>4 DEF Front
<1>6. \A u \in Seq(Items) : IsPrefix(u, u) /\ IsPrefix(<<>>, u)
  BY DEF IsPrefix
<1>7. IsPrefix(s, t)
  BY <1>1, <1>4 DEF IsPrefix
<1> QED BY <1>1, <1>2, <1>5, <1>6, <1>7

LEMMA OpenedParts ==
  /\ OpenedBy(0) = <<>> /\ OpenedBy(1) = <<"suite">> /\ OpenedBy(2) = <<"suite", "suite">>
  /\ OpenedBy(3) = <<"suite", "suite", "test">> /\ OpenedBy(4) = <<"suite", "suite", "test", "kw">>
  /\ OpenedBy(5) = <<"suite", "suite", "test", "kw">> /\ OpenedBy(6) = <<"suite", "suite", "test">>
  /\ OpenedBy(7) = <<"suite", "suite">> /\ OpenedBy(8) = <<"suite">>
  /\ OpenedBy(9) = <<"suite">> /\ OpenedBy(10) = <<>>
BY DEF OpenedBy, Opened

\* One more is open after each start and one less after each end.
LEMMA OpenedSteps ==
  /\ OneMore(OpenedBy(0), OpenedBy(1), "suite") /\ OneMore(OpenedBy(1), OpenedBy(2), "suite")
  /\ OneMore(OpenedBy(2), OpenedBy(3), "test") /\ OneMore(OpenedBy(3), OpenedBy(4), "kw")
  /\ OneMore(OpenedBy(6), OpenedBy(5), "kw") /\ OneMore(OpenedBy(7), OpenedBy(6), "test")
  /\ OneMore(OpenedBy(8), OpenedBy(7), "suite") /\ OneMore(OpenedBy(10), OpenedBy(9), "suite")
<1>1. \A a, b, c, d \in Items :
        /\ OneMore(<<>>, <<a>>, a) /\ OneMore(<<a>>, <<a, b>>, b)
        /\ OneMore(<<a, b>>, <<a, b, c>>, c) /\ OneMore(<<a, b, c>>, <<a, b, c, d>>, d)
  <2> SUFFICES ASSUME NEW a \in Items, NEW b \in Items, NEW c \in Items, NEW d \in Items
               PROVE  /\ OneMore(<<>>, <<a>>, a) /\ OneMore(<<a>>, <<a, b>>, b)
                      /\ OneMore(<<a, b>>, <<a, b, c>>, c) /\ OneMore(<<a, b, c>>, <<a, b, c, d>>, d)
    OBVIOUS
  <2> QED BY DEF OneMore
<1>2. "suite" \in Items /\ "test" \in Items /\ "kw" \in Items
  BY DEF Items
<1> QED BY <1>1, <1>2, OpenedParts

LEMMA Started ==
  ASSUME NEW n \in 1 .. 4
  PROVE  n - 1 \in 0 .. 10 /\ OneMore(OpenedBy(n - 1), OpenedBy(n), Events[n][2])
<1>1. n = 1 \/ n = 2 \/ n = 3 \/ n = 4
  OBVIOUS
<1>2. Events[1][2] = "suite" /\ Events[2][2] = "suite" /\ Events[3][2] = "test" /\ Events[4][2] = "kw"
  BY DEF Events
<1> QED BY <1>1, <1>2, OpenedSteps

LEMMA AfterEnd ==
  ASSUME NEW n \in {6, 7, 8, 10}
  PROVE  /\ n - 1 \in 0 .. 10 /\ \E x : OneMore(OpenedBy(n), OpenedBy(n - 1), x)
         /\ Len(OpenedBy(n - 1)) = 1 => n = 10
<1>1. Len(OpenedBy(5)) = 4 /\ Len(OpenedBy(6)) = 3 /\ Len(OpenedBy(7)) = 2
  BY OpenedParts
<1> QED BY <1>1, OpenedSteps

LEMMA OpenedTypes == ASSUME NEW n \in 0 .. 10 PROVE OpenedBy(n) \in Seq(Items)
<1>1. n = 9 \/ n = 0 \/ n = 1 \/ n = 2 \/ n = 3 \/ n = 4 \/ n = 5 \/ n = 6 \/ n = 7 \/ n = 8 \/ n = 10
  OBVIOUS
<1> QED BY <1>1, OpenedSteps, OneMoreParts

-----------------------------------------------------------------------------
(* The output file is told first of what starts and last of what ends *)

LEMMA XmlAround ==
  ASSUME RegistrationType, contextChanging = <<"xml">>
  PROVE  /\ Expand(AllLoggers) # <<>> /\ Head(Expand(AllLoggers)) = "xml"
         /\ Expand(EndingLoggers) # <<>> /\ Last(Expand(EndingLoggers)) = "xml"
<1> DEFINE S == RegularLoggers \cup {"xml"}
           all == AllLoggers
           ending == EndingLoggers
           n == Len(regular)
<1>1. regular \in Seq(RegularLoggers) /\ imported \in Seq(Range(Listeners)) /\ n \in Nat
  BY DEF RegistrationType
<1>2. /\ all \in Seq(S) /\ Len(all) = n + 1 /\ all[1] = "xml"
      /\ ending \in Seq(S) /\ Len(ending) = n + 1 /\ ending[n + 1] = "xml"
  <2>1. regular \in Seq(S) /\ <<"xml">> \in Seq(S) /\ Len(<<"xml">>) = 1 /\ <<"xml">>[1] = "xml"
    BY <1>1
  <2>2. all = <<"xml">> \o regular /\ ending = regular \o <<"xml">>
    BY DEF AllLoggers, EndingLoggers
  <2>3. ASSUME NEW s \in Seq(S), NEW t \in Seq(S), Len(t) = 1, t[1] = "xml"
        PROVE  /\ t \o s \in Seq(S) /\ Len(t \o s) = Len(s) + 1 /\ (t \o s)[1] = "xml"
               /\ s \o t \in Seq(S) /\ Len(s \o t) = Len(s) + 1 /\ (s \o t)[Len(s) + 1] = "xml"
    <3>1. /\ t \o s \in Seq(S) /\ Len(t \o s) = Len(t) + Len(s)
          /\ \A i \in 1 .. Len(t) : (t \o s)[i] = t[i]
      OBVIOUS
    <3>2. /\ s \o t \in Seq(S) /\ Len(s \o t) = Len(s) + Len(t)
          /\ \A i \in 1 .. Len(t) : (s \o t)[Len(s) + i] = t[i]
      OBVIOUS
    <3>3. 1 \in 1 .. Len(t) /\ Len(s) \in Nat
      BY <2>3
    <3> QED BY <2>3, <3>1, <3>2, <3>3
  <2> HIDE DEF all, ending, S
  <2> QED BY <2>1, <2>2, <2>3
<1> HIDE DEF all, ending, S
<1>3. Expand(all) # <<>> /\ Head(Expand(all)) = "xml"
  <2>1. CASE ~\E i \in DOMAIN all : all[i] = "listeners"
    BY <1>1, <1>2, <2>1 DEF Expand
  <2>2. CASE \E i \in DOMAIN all : all[i] = "listeners"
    <3> DEFINE i == CHOOSE i \in DOMAIN all : all[i] = "listeners"
               a == SubSeq(all, 1, i - 1)
               b == SubSeq(all, i + 1, Len(all))
    <3>1. i \in 1 .. n + 1 /\ all[i] = "listeners"
      BY <1>2, <2>2
    <3>2. Expand(all) = a \o imported \o b
      BY <2>2 DEF Expand
    <3> HIDE DEF i
    <3>3. i # 1
      BY <1>2, <3>1
    <3>4. i - 1 \in Nat \ {0}
      BY <1>1, <3>1, <3>3
    <3>5. a \in Seq(S) /\ Len(a) = i - 1 /\ b \in Seq(S) /\ a[1] = all[1]
      BY <1>1, <1>2, <3>1, <3>4
    <3> DEFINE T == S \cup Range(Listeners)
    <3> HIDE DEF a, b
    <3>6. a \in Seq(T) /\ b \in Seq(T) /\ imported \in Seq(T) /\ Len(a) \in Nat \ {0} /\ a[1] = "xml"
      BY <1>1, <1>2, <3>4, <3>5
    <3> HIDE DEF T
    <3>7. a \o imported \o b # <<>> /\ Head(a \o imported \o b) = a[1]
      BY <3>6
    <3> QED BY <3>2, <3>6, <3>7
  <2> QED BY <2>1, <2>2
<1>4. Expand(ending) # <<>> /\ Last(Expand(ending)) = "xml"
  <2>1. CASE ~\E i \in DOMAIN ending : ending[i] = "listeners"
    BY <1>1, <1>2, <2>1 DEF Expand, Last
  <2>2. CASE \E i \in DOMAIN ending : ending[i] = "listeners"
    <3> DEFINE i == CHOOSE i \in DOMAIN ending : ending[i] = "listeners"
               a == SubSeq(ending, 1, i - 1)
               b == SubSeq(ending, i + 1, Len(ending))
    <3>1. i \in 1 .. n + 1 /\ ending[i] = "listeners"
      BY <1>2, <2>2
    <3>2. Expand(ending) = a \o imported \o b
      BY <2>2 DEF Expand
    <3> HIDE DEF i
    <3>3. i # n + 1
      BY <1>2, <3>1
    <3>4. n + 1 - i \in Nat \ {0} /\ i - 1 \in Nat
      BY <1>1, <3>1, <3>3
    <3>5. a \in Seq(S) /\ b \in Seq(S) /\ Len(b) = n + 1 - i /\ b[Len(b)] = ending[n + 1]
      <4>1. a \in Seq(S)
        BY <1>1, <1>2, <3>1, <3>4
      <4>2. b \in Seq(S) /\ Len(b) = n + 1 - i /\ \A k \in 1 .. n + 1 - i : b[k] = ending[k + i]
        BY <1>1, <1>2, <3>1, <3>4
      <4>3. Len(b) \in 1 .. n + 1 - i /\ Len(b) + i = n + 1
        BY <1>1, <3>1, <3>4, <4>2
      <4> HIDE DEF a, b
      <4> QED BY <4>1, <4>2, <4>3
    <3> DEFINE T == S \cup Range(Listeners)
    <3> HIDE DEF a, b
    <3>6. a \in Seq(T) /\ b \in Seq(T) /\ imported \in Seq(T) /\ Len(b) \in Nat \ {0} /\ b[Len(b)] = "xml"
      BY <1>1, <1>2, <3>4, <3>5
    <3> HIDE DEF T
    <3>7. a \o imported \in Seq(T)
      BY <3>6
    <3> DEFINE c == a \o imported
    <3> HIDE DEF c
    <3>8. c \in Seq(T)
      BY <3>7 DEF c
    <3>9. /\ c \o b # <<>> /\ Len(c \o b) = Len(c) + Len(b) /\ Len(c) \in Nat
          /\ (c \o b)[Len(c) + Len(b)] = b[Len(b)]
      BY <3>6, <3>8
    <3> QED BY <3>2, <3>6, <3>9 DEF c, Last
  <2> QED BY <2>1, <2>2
<1> QED BY <1>3, <1>4 DEF all, ending
-----------------------------------------------------------------------------
(* While the suite runs, the output file encloses what everyone is told *)

EventsType ==
  /\ RegistrationOK /\ RegisteredOK /\ MainCall /\ EventsOK
  /\ calls \in Seq(FrameType) /\ RegistrationType /\ pc = "running"
LEMMA EventsEnclose == EventsType => XmlEnclosesListeners
<1> SUFFICES ASSUME EventsType, NEW l \in Receivers PROVE IsPrefix(open[l], open["xml"])
  BY DEF XmlEnclosesListeners
<1>1. /\ RegistrationOK /\ RegisteredOK /\ MainCall /\ EventsOK
      /\ calls \in Seq(FrameType) /\ pc = "running"
  BY DEF EventsType
<1>2. contextChanging = <<"xml">>
  BY <1>1 DEF RegistrationOK, BeforeListeners, BeforeConsole
<1>3. "xml" \in Registered \cap Followers /\ "xml" \in Receivers
  BY <1>1, <1>2, OneRange DEF RegisteredOK, RegisteredNow, Followers, Receivers, Others
<1>4. /\ at \in 0 .. 10
      /\ \A x \in Receivers :
           open[x] = IF x \notin Registered \cap Followers THEN <<>>
                     ELSE IF IsTold(x) THEN OpenedBy(at - 1) ELSE OpenedBy(at)
  BY <1>1 DEF EventsOK
<1>5. calls # <<>> => calls[1].todo \in Seq(Receivers) /\ Len(calls) \in Nat \ {0}
  <2> SUFFICES ASSUME calls # <<>> PROVE calls[1].todo \in Seq(Receivers) /\ Len(calls) \in Nat \ {0}
    OBVIOUS
  <2>1. calls[1] \in FrameType /\ Len(calls) \in Nat \ {0}
    BY <1>1
  <2> QED BY <2>1, TodoRange
<1>6. \A n \in 0 .. 10 : IsPrefix(OpenedBy(n), OpenedBy(n)) /\ IsPrefix(<<>>, OpenedBy(n))
  <2> SUFFICES ASSUME NEW n \in 0 .. 10 PROVE IsPrefix(OpenedBy(n), OpenedBy(n)) /\ IsPrefix(<<>>, OpenedBy(n))
    OBVIOUS
  <2>1. n = 9 \/ n = 0 \/ n = 1 \/ n = 2 \/ n = 3 \/ n = 4 \/ n = 5 \/ n = 6 \/ n = 7 \/ n = 8 \/ n = 10
    OBVIOUS
  <2> QED BY <2>1, OpenedSteps, OneMoreParts
<1>7. IsTold(l) \/ IsTold("xml") => calls # <<>> /\ at \in 1 .. 10
  BY <1>1 DEF IsTold, MainCall
<1>8. calls # <<>> /\ calls[1].method = "start" => at \in 1 .. 4
  <2> SUFFICES ASSUME calls # <<>>, calls[1].method = "start" PROVE at \in 1 .. 4
    OBVIOUS
  <2>1. /\ at \in 1 .. 10 /\ at # 5 /\ at \notin {6, 7, 8, 10} /\ at # 9
    BY <1>1 DEF MainCall
  <2> QED BY <2>1
<1>9. calls # <<>> /\ calls[1].method = "end" => at \in {6, 7, 8, 10}
  <2> SUFFICES ASSUME calls # <<>>, calls[1].method = "end" PROVE at \in {6, 7, 8, 10}
    OBVIOUS
  <2>1. /\ at \in 1 .. 10 /\ at # 5 /\ at \notin 1 .. 4 /\ at # 9
    BY <1>1 DEF MainCall
  <2> QED BY <2>1
<1>10. CASE ~IsTold("xml")
  <2>1. open["xml"] = OpenedBy(at)
    BY <1>3, <1>4, <1>10
  <2>2. CASE IsTold(l)
    <3>1. calls[1].method = "start"
      <4> SUFFICES ASSUME calls[1].method = "end" PROVE FALSE
        BY <2>2 DEF IsTold
      <4>1. calls[1].todo # <<>>
        <5>1. Range(<<>>) = {}
          BY DEF Range
        <5> QED BY <2>2, <5>1 DEF IsTold
      <4>2. Last(calls[1].todo) = "xml"
        BY <1>1, <1>7, <2>2, <4>1 DEF EventsOK
      <4>3. Last(calls[1].todo) \in Range(calls[1].todo)
        BY <1>5, <1>7, <2>2, <4>1 DEF Last, Range
      <4> QED BY <1>7, <1>10, <2>2, <4>2, <4>3 DEF IsTold
    <3>2. at \in 1 .. 4
      BY <1>7, <1>8, <2>2, <3>1
    <3>3. IsPrefix(OpenedBy(at - 1), OpenedBy(at)) /\ IsPrefix(<<>>, OpenedBy(at))
      BY <3>2, Started, OneMoreParts
    <3> QED BY <1>4, <2>1, <2>2, <3>3
  <2> QED BY <1>4, <1>6, <2>1, <2>2
<1>11. CASE IsTold("xml")
  <2>1. open["xml"] = OpenedBy(at - 1) /\ at - 1 \in 0 .. 10
    BY <1>3, <1>4, <1>7, <1>11
  <2>2. CASE l \in Registered \cap Followers /\ ~IsTold(l)
    <3>1. calls[1].method = "end"
      <4> SUFFICES ASSUME calls[1].method = "start" PROVE FALSE
        BY <1>11 DEF IsTold
      <4>1. l \in Range(calls[1].todo)
        BY <1>1, <1>11, <2>2 DEF EventsOK, IsTold
      <4> QED BY <1>11, <2>2, <4>1 DEF IsTold
    <3>2. at \in {6, 7, 8, 10}
      BY <1>7, <1>9, <1>11, <3>1
    <3>3. IsPrefix(OpenedBy(at), OpenedBy(at - 1))
      BY <3>2, AfterEnd, OneMoreParts
    <3> QED BY <1>4, <2>1, <2>2, <3>3
  <2> QED BY <1>4, <1>6, <2>1, <2>2
<1> QED BY <1>10, <1>11

LEMMA EventsEncloseAfter == EventsType' => XmlEnclosesListeners'
BY EventsEnclose, PTL

-----------------------------------------------------------------------------
(* What a step of the main program does to everything else *)

\* At most one call is made, and only what is registered is told anything later.
LEMMA MainCalls ==
  ASSUME Main
  PROVE  /\ calls = <<>> /\ pc # "ended"
         /\ calls' = <<>> \/ \E f : calls' = <<f>>
         /\ UNCHANGED <<open, got, failures, escaped>>
         /\ pc' \in Early => pc \in Early
         /\ pc' \in Places
         /\ pc = "exit" => pc' = "ended" /\ UNCHANGED <<registration, active, at>>
         /\ pc' = "closing" => Close
         /\ pc' = "running" => RegisterDebugFile \/ RunSuite
<1> USE DEF Step, registration, observed, Say, Register, RelayFrom, Places, Early, BeforeListeners, BeforeConsole
<1>1. CASE RunFromCli
  BY <1>1 DEF RunFromCli
<1>2. CASE RegisterFileLogger
  BY <1>2 DEF RegisterFileLogger
<1>3. CASE LogSources
  BY <1>3 DEF LogSources
<1>4. CASE RegisterConsoleLogger
  BY <1>4 DEF RegisterConsoleLogger
<1>5. CASE RegisterXmlLogger
  BY <1>5 DEF RegisterXmlLogger
<1>6. CASE ImportListener
  BY <1>6 DEF ImportListener
<1>7. CASE OpenDebugFile
  BY <1>7 DEF OpenDebugFile
<1>8. CASE RegisterListeners
  BY <1>8 DEF RegisterListeners
<1>9. CASE RegisterDebugFile
  BY <1>9 DEF RegisterDebugFile
<1>10. CASE RunSuite
  BY <1>10 DEF RunSuite
<1>11. CASE ExecutionEnded
  BY <1>11 DEF ExecutionEnded
<1>12. CASE CloseOutput
  BY <1>12 DEF CloseOutput
<1>13. CASE WriteLog
  BY <1>13 DEF WriteLog
<1>14. CASE Close
  BY <1>14 DEF Close
<1>15. CASE Closed
  BY <1>15 DEF Closed
<1>16. CASE Exit
  BY <1>16 DEF Exit
<1> QED BY <1>1, <1>2, <1>3, <1>4, <1>5, <1>6, <1>7, <1>8, <1>9, <1>10, <1>11, <1>12, <1>13, <1>14, <1>15, <1>16
        DEF Main

\* Which files are open and registered then.
LEMMA MainFiles ==
  ASSUME LoggerBookkeeping, Main
  PROVE  /\ active \subseteq active' /\ active' \subseteq Receivers
         /\ cache' \in Seq(Nat) /\ at' \in Nat /\ causes' \in Nat
         /\ "file" \in Range(regular') => "file" \in Range(regular) \/ "file" \in active'
         /\ "debug" \in Range(regular') => "debug" \in Range(regular) \/ ("debug" \in active' /\ pc' = "running")
         /\ pc = "closing" => regular' = <<>>
<1> USE DEF Step, registration, observed, Say, Register
<1>0. /\ RegistrationType /\ active \subseteq Receivers /\ cache \in Seq(Nat) /\ at \in Nat /\ causes \in Nat
      /\ regular \in Seq(RegularLoggers)
      /\ \A x \in RegularLoggers : Range(Append(regular, x)) = Range(regular) \cup {x}
  BY AppendRange DEF LoggerBookkeeping, TypeOK, RegistrationType
<1>17. "file" \in Receivers /\ "debug" \in Receivers /\ Range(Listeners) \subseteq Receivers
       /\ {"file", "debug", "listeners", "console"} \subseteq RegularLoggers
  BY DEF Receivers, Others, RegularLoggers
<1>18. RunFromCli \/ LogSources \/ RunSuite \/ ExecutionEnded \/ WriteLog \/ Close \/ Exit \/ RegisterXmlLogger \/ CloseOutput
         => UNCHANGED <<active, cache, regular>>
  BY DEF RunFromCli, LogSources, RunSuite, ExecutionEnded, WriteLog, Close, Exit, RegisterXmlLogger, CloseOutput
<1>19. RunFromCli \/ LogSources \/ RunSuite \/ ExecutionEnded \/ WriteLog \/ Close \/ Exit \/ RegisterXmlLogger \/ CloseOutput
         => at' \in {at, at + 1} /\ causes' \in {causes, causes + 1} /\ pc # "closing"
  BY DEF RunFromCli, LogSources, RunSuite, ExecutionEnded, WriteLog, Close, Exit, RegisterXmlLogger, CloseOutput
<1>20. at + 1 \in Nat /\ causes + 1 \in Nat
  BY <1>0
<1>1. CASE RunFromCli \/ LogSources \/ RunSuite \/ ExecutionEnded \/ WriteLog \/ Close \/ Exit \/ RegisterXmlLogger \/ CloseOutput
  BY <1>0, <1>1, <1>18, <1>19, <1>20
<1>2. CASE RegisterFileLogger
  BY <1>0, <1>2, <1>17, <1>20 DEF RegisterFileLogger
<1>4. CASE RegisterConsoleLogger
  <2>1. /\ regular # <<>> /\ Distinct(regular) /\ pc = "console" /\ UNCHANGED <<active, cache, at, causes>>
        /\ regular' = Append(IF consoleDisabled THEN regular ELSE Tail(regular), "console")
    BY <1>0, <1>4 DEF RegisterConsoleLogger, LoggerBookkeeping, RegistrationOK, BeforeConsole, RegistrationType
  <2> DEFINE t == IF consoleDisabled THEN regular ELSE Tail(regular)
  <2>2. t \in Seq(RegularLoggers) /\ Range(t) \subseteq Range(regular)
    BY <1>0, <2>1, TailRange
  <2>3. regular' = Append(t, "console")
    BY <2>1
  <2> HIDE DEF t
  <2>4. Range(regular') = Range(t) \cup {"console"}
    BY <1>17, <2>2, <2>3, AppendRange
  <2> QED BY <1>0, <2>1, <2>2, <2>4
<1>6. CASE ImportListener
  <2>1. Listeners[at + 1] \in Range(Listeners)
    <3>1. Len(Listeners) \in Nat /\ DOMAIN Listeners = 1 .. Len(Listeners) /\ at < Len(Listeners)
      BY <1>6, ListenersAssumption DEF ImportListener
    <3>2. at + 1 \in DOMAIN Listeners
      BY <1>0, <3>1
    <3> QED BY <3>2 DEF Range
  <2> QED BY <1>0, <1>6, <1>17, <1>20, <2>1 DEF ImportListener
<1>7. CASE OpenDebugFile
  BY <1>0, <1>7, <1>17, <1>20 DEF OpenDebugFile
<1>8. CASE RegisterListeners
  BY <1>0, <1>8, <1>17, <1>20 DEF RegisterListeners
<1>9. CASE RegisterDebugFile
  <2>1. <<0>> \in Seq(Nat)
    OBVIOUS
  <2> QED BY <1>0, <1>9, <1>17, <1>20, <2>1 DEF RegisterDebugFile, NoCache
<1>15. CASE Closed
  <2>1. <<>> \in Seq(Nat) /\ Range(<<>>) = {}
    BY DEF Range
  <2> QED BY <1>0, <1>15, <1>20, <2>1 DEF Closed
<1> QED BY <1>1, <1>2, <1>4, <1>6, <1>7, <1>8, <1>9, <1>15 DEF Main

\* What the call of an event says.
IsCallOf(f, method, item, loggers) == f.method = method /\ f.item = item /\ f.todo = Expand(loggers)
LEMMA CallIs ==
  ASSUME RegistrationType, NEW method \in Methods, NEW item \in Items
  PROVE  IsCallOf(Call(method, item), method, item, IF method = "end" THEN EndingLoggers ELSE AllLoggers)
<1> DEFINE loggers == IF method = "end" THEN EndingLoggers ELSE AllLoggers
           todo == Expand(loggers)
           f == Frame(method, item, todo)
<1>1. todo \in Seq(Receivers)
  BY RegisteredRange
<1>2. f = Call(method, item)
  BY DEF Call
<1> HIDE DEF todo
<1>3. IsCall(f, method, item, todo)
  BY <1>1, FrameParts
<1> HIDE DEF f
<1> QED BY <1>2, <1>3 DEF IsCall, IsCallOf, todo

LEMMA EventsMain ==
  ASSUME LoggerBookkeeping, Main
  PROVE  MainCall' /\ EventsOK'
<1>1. /\ calls = <<>> /\ open' = open /\ (pc' \in Early => pc \in Early)
      /\ RegistrationType /\ RegistrationOK /\ EventsOK /\ RegisteredOK /\ at \in Nat
  BY MainCalls, RegisteredType DEF LoggerBookkeeping, TypeOK
<1>2. CASE pc' # "running"
  <2>1. EventsOK'
    BY <1>1, <1>2, MainCalls DEF EventsOK
  <2>2. CASE pc' # "closing"
    BY <1>2, <2>1, <2>2 DEF MainCall
  <2>3. CASE Close
    <3>1. calls' = <<Call("close", "")>>
      BY <2>3 DEF Close
    <3>2. IsCallOf(Call("close", ""), "close", "", AllLoggers)
      BY <1>1, CallIs DEF Methods, Items
    <3> QED BY <1>2, <2>1, <3>1, <3>2 DEF MainCall, IsCallOf
  <2> QED BY <2>2, <2>3, MainCalls
<1>3. CASE RegisterDebugFile
  <2>1. calls' = <<>> /\ at' = 0 /\ pc = "registered" /\ pc' = "running"
    BY <1>3 DEF RegisterDebugFile, Step
  <2>2. \A l \in Receivers : open'[l] = <<>>
    BY <1>1, <2>1 DEF EventsOK, Early
  <2>3. OpenedBy(0) = <<>>
    BY OpenedParts
  <2>4. \A l : ~IsTold(l)'
    BY <2>1 DEF IsTold
  <2>5. at' \in 0 .. 10 /\ pc' \notin Early
    BY <2>1 DEF Early, BeforeListeners, BeforeConsole
  <2>6. EventsOK'
    BY <2>1, <2>2, <2>3, <2>4, <2>5 DEF EventsOK
  <2> QED BY <2>1, <2>6 DEF MainCall
<1>4. CASE RunSuite
  <2> DEFINE n == at + 1
             event == Events[n]
  <2>1. /\ pc = "running" /\ pc' = "running" /\ at' = n /\ at \in 0 .. 9 /\ n \in 1 .. 10 /\ n - 1 = at
        /\ UNCHANGED <<contextChanging, regular, imported>>
    <3>1. /\ pc = "running" /\ pc' = "running" /\ at' = n /\ at < Len(Events)
          /\ UNCHANGED <<contextChanging, regular, imported>>
      BY <1>4 DEF RunSuite, Step, registration
    <3>2. at \in Nat /\ at < 10
      BY <1>1, <3>1, EventsParts
    <3>3. at \in 0 .. 9 /\ n \in 1 .. 10 /\ n - 1 = at
      BY <3>2
    <3> QED BY <3>1, <3>3
  <2>2. Registered' = Registered /\ contextChanging = <<"xml">>
    BY <1>1, <2>1 DEF Registered, AllLoggers, Expand, RegistrationOK, BeforeListeners, BeforeConsole
  <2>3. Followers' = Followers
    BY <2>1 DEF Followers
  <2>4. \A l \in Receivers : open'[l] = IF l \notin Registered \cap Followers THEN <<>> ELSE OpenedBy(at)
    <3>1. \A l : ~IsTold(l)
      BY <1>1 DEF IsTold
    <3> QED BY <1>1, <2>1, <3>1 DEF EventsOK
  <2>5. /\ event[1] \in {"start", "end"} => calls' = <<Call(event[1], event[2])>>
        /\ event[1] = "log" => \/ calls' = <<NewMessage>>
                               \/ \E level \in {"INFO", "WARN"} : calls' = <<Call("log_message", level)>>
        /\ event[1] = "split" => calls' = <<Call("output_file", "SplitOutput")>> \/ calls' = <<>>
    BY <1>4, <2>1, EventsItems, EventsParts DEF RunSuite, Say
  <2> HIDE DEF n, event
  <2>6. event[1] \in {"start", "end", "log", "split"} /\ event[2] \in Items
    BY <2>1, EventsItems, EventsParts DEF n, event
  <2>7. /\ event[1] = "start" <=> n \in 1 .. 4
        /\ event[1] = "start" => event[2] = Events[n][2]
        /\ event[1] = "log" <=> n = 5
        /\ event[1] = "end" <=> n \in {6, 7, 8, 10}
        /\ event[1] = "split" <=> n = 9
    <3>1. n = 1 \/ n = 2 \/ n = 3 \/ n = 4 \/ n = 5 \/ n = 6 \/ n = 7 \/ n = 8 \/ n = 9 \/ n = 10
      BY <2>1
    <3>2. /\ Events[1][1] = "start" /\ Events[2][1] = "start" /\ Events[3][1] = "start" /\ Events[4][1] = "start"
          /\ Events[5][1] = "log" /\ Events[6][1] = "end" /\ Events[7][1] = "end" /\ Events[8][1] = "end"
          /\ Events[9][1] = "split" /\ Events[10][1] = "end"
      BY DEF Events
    <3> QED BY <3>1, <3>2 DEF event
  <2>8. CASE event[1] \in {"start", "end"}
    <3> DEFINE f == Call(event[1], event[2])
    <3>1. /\ IsCallOf(f, event[1], event[2], IF event[1] = "end" THEN EndingLoggers ELSE AllLoggers)
          /\ IsAnnounced(f, event[1], event[2])
      BY <1>1, <2>6, <2>8, CallIs, CallParts DEF Methods, LoggerBookkeeping
    <3>2. calls' = <<f>>
      BY <2>5, <2>8
    <3> HIDE DEF f
    <3>3. /\ f.method = event[1] /\ f.item = event[2] /\ Range(f.todo) = Registered
          /\ f.todo = Expand(IF event[1] = "end" THEN EndingLoggers ELSE AllLoggers)
      BY <3>1 DEF IsCallOf, IsAnnounced
    <3>4. calls' # <<>> /\ calls'[1] = f
      BY <3>2
    <3>5. \A l \in Registered : IsTold(l)'
      BY <2>8, <3>3, <3>4 DEF IsTold
    <3>6. \A l \in Receivers : open'[l] = IF l \notin Registered' \cap Followers' THEN <<>>
                                          ELSE IF IsTold(l)' THEN OpenedBy(at' - 1) ELSE OpenedBy(at')
      BY <2>1, <2>2, <2>3, <2>4, <3>5
    <3>7. /\ f.method = "start" => Head(f.todo) = "xml"
          /\ f.method = "end" => Last(f.todo) = "xml"
      BY <1>1, <2>2, <3>3, XmlAround
    <3>8. EventsOK'
      BY <2>1, <2>2, <3>3, <3>4, <3>6, <3>7 DEF EventsOK, Early, BeforeListeners, BeforeConsole
    <3>9. MainCall'
      BY <2>1, <2>7, <2>8, <3>3, <3>4 DEF MainCall
    <3> QED BY <3>8, <3>9
  <2>9. CASE event[1] \in {"log", "split"}
    <3>1. calls' # <<>> => \/ event[1] = "log" /\ calls'[1].method \in {"message", "log_message"}
                           \/ event[1] = "split" /\ calls'[1].method = "output_file"
      <4>1. NewMessage.method = "message"
        BY <1>1, NewMessageParts DEF IsSent, IsNew
      <4>2. \A method \in Methods, item \in Items :
              IsAnnounced(Call(method, item), method, item)
        BY <1>1, CallParts DEF LoggerBookkeeping
      <4>3. \A method \in Methods, item \in Items : Call(method, item).method = method
        BY <4>2 DEF IsAnnounced
      <4>4. /\ \A level \in {"INFO", "WARN"} : Call("log_message", level).method = "log_message"
            /\ Call("output_file", "SplitOutput").method = "output_file"
        BY ZenonT(60), <4>3 DEF Methods, Items
      <4>5. CASE event[1] = "log"
        BY <2>5, <4>1, <4>4, <4>5
      <4>6. CASE event[1] = "split"
        BY <2>5, <4>4, <4>6
      <4> QED BY <2>9, <4>5, <4>6
    <3>2. \A l : ~IsTold(l)'
      BY <3>1 DEF IsTold
    <3>3. OpenedBy(at') = OpenedBy(at)
      <4>1. (n = 5 /\ at = 4) \/ (n = 9 /\ at = 8)
        BY <2>1, <2>7, <2>9
      <4> QED BY <2>1, <4>1, OpenedParts
    <3>4. EventsOK'
      BY <2>1, <2>2, <2>3, <2>4, <3>1, <3>2, <3>3 DEF EventsOK, Early, BeforeListeners, BeforeConsole
    <3>5. MainCall'
      BY <2>1, <2>7, <2>9, <3>1 DEF MainCall
    <3> QED BY <3>4, <3>5
  <2> QED BY <2>6, <2>8, <2>9
<1> QED BY <1>2, <1>3, <1>4, MainCalls

LEMMA FilesMain ==
  ASSUME LoggerBookkeeping, Main
  PROVE  FilesOK' /\ FailuresOK' /\ XmlEnclosesListeners'
<1>1. /\ FilesOK /\ FailuresOK /\ EventsOK /\ XmlEnclosesListeners /\ at \in Nat /\ active \subseteq active'
      /\ UNCHANGED <<open, got, failures, escaped>>
      /\ (pc' \in Early => pc \in Early) /\ pc # "ended"
  BY MainCalls, MainFiles DEF LoggerBookkeeping, TypeOK
<1>2. \A k \in DOMAIN calls' : k = 1 /\ Len(calls') = 1
  BY MainCalls
<1>3. \A k \in DOMAIN calls' : calls'[k].method \in {"start", "end", "log_message"} => pc' = "running"
  BY MessagesMain DEF MessagesOK, FramesOK, FrameOK
<1>4. escaped \in Uncaught => pc = "exit"
  BY <1>1 DEF FailuresOK
<1>5. "debug" \in Range(regular') /\ "debug" \notin active' => pc' # "running"
  <2> SUFFICES ASSUME "debug" \in Range(regular'), "debug" \notin active', pc' = "running" PROVE FALSE
    OBVIOUS
  <2>1. "debug" \in Range(regular) /\ "debug" \notin active
    BY <1>1, MainFiles
  <2>2. pc \notin Early
    BY <1>1, <2>1 DEF FilesOK
  <2>3. CASE RegisterDebugFile
    BY <2>2, <2>3 DEF RegisterDebugFile, Step, Early
  <2>4. CASE RunSuite
    <3>1. at = 10
      BY <1>1, <2>1, <2>4 DEF RunSuite, Step, FilesOK
    <3>2. at < 10
      BY <2>4, EventsParts DEF RunSuite
    <3> QED BY <3>1, <3>2
  <2> QED BY <2>3, <2>4, MainCalls
<1>6. FilesOK'
  <2>1. "file" \in Range(regular') /\ "file" \notin active' => pc' = "closing" \/ escaped' \in Uncaught
    <3> SUFFICES ASSUME "file" \in Range(regular'), "file" \notin active' PROVE escaped \in Uncaught
      BY <1>1
    <3>1. "file" \in Range(regular) /\ "file" \notin active
      BY <1>1, MainFiles
    <3>2. pc # "closing"
      <4>1. Range(<<>>) = {}
        BY DEF Range
      <4> QED BY <4>1, MainFiles
    <3> QED BY <1>1, <3>1, <3>2 DEF FilesOK
  <2>2. "debug" \in Range(regular') => pc' \notin Early
    BY <1>1, MainFiles DEF FilesOK, Early, BeforeListeners, BeforeConsole
  <2>3. \A k \in DOMAIN calls' : ~(calls'[k].method = "close" /\ k > 1)
    BY <1>2
  <2> QED BY <1>3, <1>5, <2>1, <2>2, <2>3 DEF FilesOK
<1>7. FailuresOK'
  <2>1. ASSUME escaped \in Uncaught
        PROVE  pc' = "ended" /\ at' = at /\ (FileLost' <=> FileLost)
    <3>1. pc' = "ended" /\ UNCHANGED <<registration, active, at>>
      BY <1>4, <2>1, MainCalls
    <3> QED BY <3>1 DEF FileLost, registration
  <2>5. (\A m : FailedIn(m)' <=> FailedIn(m)) /\ (Exited' <=> Exited)
    BY <1>1 DEF FailedIn, Exited
  <2>2. escaped' = "keyword" => FailedIn("message")'
    BY <1>1 DEF FailuresOK, FailedIn
  <2>3. ~(Len(calls') > 1)
    <3>1. CASE calls' = <<>>
      BY <3>1
    <3>2. CASE calls' # <<>>
      <4>1. \E f : calls' = <<f>>
        BY <3>2, MainCalls
      <4> QED BY <4>1
    <3> QED BY <3>1, <3>2
  <2>4. \A k \in DOMAIN calls' : k = Len(calls')
    BY <1>2
  <2> HIDE DEF FailedIn, Exited, FileLost
  <2>6. escaped \in {"run", "exit", "output"} => escaped \in Uncaught
    BY DEF Uncaught
  <2> QED BY <1>1, <2>1, <2>2, <2>3, <2>4, <2>5, <2>6 DEF FailuresOK
<1>8. XmlEnclosesListeners'
  <2>1. CASE RegisterXmlLogger
    <3>1. pc \in Early
      BY <2>1 DEF RegisterXmlLogger, Step, Early, BeforeListeners
    <3>2. \A l \in Receivers : open'[l] = <<>>
      BY <1>1, <3>1 DEF EventsOK
    <3>3. IsPrefix(<<>>, <<>>)
      BY DEF IsPrefix
    <3>4. "xml" \in Receivers
      BY DEF Receivers, Others
    <3> QED BY <3>2, <3>3, <3>4 DEF XmlEnclosesListeners
  <2>2. CASE ~RegisterXmlLogger
    <3>1. contextChanging' = contextChanging \/ contextChanging' = <<>>
      <4>1. CloseOutput => contextChanging' = <<>>
        BY XmlUnregistered DEF CloseOutput, LoggerBookkeeping, TypeOK, RegistrationType
      <4>2. RunFromCli \/ LogSources \/ OpenDebugFile \/ RunSuite \/ ExecutionEnded \/ WriteLog \/ Close \/ Exit
              => contextChanging' = contextChanging
        BY DEF RunFromCli, LogSources, OpenDebugFile, RunSuite, ExecutionEnded, WriteLog, Close, Exit, registration
      <4>3. RegisterFileLogger \/ RegisterConsoleLogger \/ ImportListener \/ RegisterListeners \/ RegisterDebugFile
              => contextChanging' = contextChanging
        BY DEF RegisterFileLogger, RegisterConsoleLogger, ImportListener, RegisterListeners, RegisterDebugFile
      <4>4. Closed => contextChanging' = <<>>
        BY DEF Closed
      <4> QED BY <2>2, <4>1, <4>2, <4>3, <4>4 DEF Main
    <3> QED BY <1>1, <3>1 DEF XmlEnclosesListeners
  <2> QED BY <2>1, <2>2
<1> QED BY <1>6, <1>7, <1>8

\* A step of the main program keeps the books.
LEMMA MainStep ==
  ASSUME LoggerBookkeeping, Main
  PROVE  LoggerBookkeeping'
<1>1. MessagesOK'
  BY MessagesMain
<1>2. RegistrationType' /\ Imports' /\ RegistrationOK'
  BY RegistrationMain
<1>3. MainCall' /\ EventsOK' /\ FilesOK' /\ FailuresOK' /\ XmlEnclosesListeners'
  BY EventsMain, FilesMain
<1>4. TypeOK'
  <2>1. /\ UNCHANGED <<open, got, failures, escaped>> /\ pc' \in Places
        /\ active' \subseteq Receivers /\ cache' \in Seq(Nat) /\ at' \in Nat /\ causes' \in Nat
    BY MainCalls, MainFiles
  <2> QED BY <1>1, <1>2, <2>1 DEF LoggerBookkeeping, TypeOK, MessagesOK, Levels
<1>5. DistinctOK'
  BY <1>1, <1>2 DEF DistinctOK, Imports, MessagesOK
<1> QED BY <1>1, <1>2, <1>3, <1>4, <1>5 DEF LoggerBookkeeping, MessagesOK

-----------------------------------------------------------------------------
(* The beginning *)

LEMMA BookkeepingInit == Init => LoggerBookkeeping
<1> SUFFICES ASSUME Init PROVE LoggerBookkeeping
  OBVIOUS
<1> USE DEF Init
<1>1. /\ Range(<<>>) = {} /\ Range(<<"auto">>) = {"auto"} /\ Distinct(<<"auto">>) /\ Distinct(<<>>)
      /\ "auto" \in RegularLoggers /\ "xml" \in Receivers
  BY OneRange DEF Range, Distinct, RegularLoggers, Receivers, Others
<1>2. RegistrationType
  <2>1. <<"auto">> \in Seq(RegularLoggers) /\ <<>> \in Seq(Range(Listeners))
    BY <1>1
  <2> QED BY <1>1, <2>1 DEF RegistrationType
<1>3. TypeOK
  <2>1. <<>> \in Seq(Nat) /\ <<>> \in Seq(FrameType) /\ <<>> \in Seq(Items) /\ <<>> \in Seq({"INFO", "WARN", "ERROR"})
        /\ <<>> \in Seq(Failures) /\ 0 \in Nat
    OBVIOUS
  <2> QED BY <1>2, <2>1 DEF TypeOK, Places, Early, BeforeListeners, BeforeConsole
<1>4. DistinctOK
  <2>1. Len(Listeners) \in Nat
    BY ListenersAssumption
  <2> QED BY <2>1 DEF DistinctOK
<1>5. RegistrationOK
  BY <1>1 DEF RegistrationOK, BeforeConsole, BeforeListeners, Early
<1>6. MainCall /\ FramesOK
  BY DEF MainCall, FramesOK, FrameOK
<1>7. EventsOK
  BY DEF EventsOK
<1>8. FilesOK /\ FailuresOK
  BY <1>1 DEF FilesOK, FailuresOK, Exited, Uncaught
<1>9. CacheOK /\ ReachOK /\ GotOK
  BY <1>1 DEF CacheOK, AllKept, Kept, ReachOK, Reach, GotOK
<1>10. OrderOK
  <2>1. \A l \in Receivers : SeenIn(got, l) = <<>>
    BY DEF SeenIn, Receivers, Others
  <2>2. Sorted(<<>>)
    BY DEF Sorted
  <2> QED BY <2>1, <2>2 DEF OrderOK, InOrder
<1>11. ErrorsOK
  <2>1. Errors = {}
    BY DEF Errors, ErrorsIn
  <2>2. Cardinality({}) = 0 /\ Len(failures) = 0
    BY FS_EmptySet
  <2> QED BY <2>1, <2>2 DEF ErrorsOK
<1>12. XmlEnclosesListeners
  BY DEF XmlEnclosesListeners
<1> QED BY <1>3, <1>4, <1>5, <1>6, <1>7, <1>8, <1>9, <1>10, <1>11, <1>12 DEF LoggerBookkeeping

-----------------------------------------------------------------------------
(* What a call that returns does to messages *)

LEMMA CacheIsKept ==
  ASSUME LoggerBookkeeping, pc \in Early
  PROVE  cache # NoCache /\ AllKept(calls, cache, sent)
<1>1. AllKept(calls, cache, sent) /\ sent \in Seq(Levels)
  BY DEF LoggerBookkeeping, CacheOK, TypeOK, Levels
<1>2. 0 \notin DOMAIN sent
  BY <1>1
<1>3. 0 \in Range(NoCache)
  BY DEF NoCache, Range
<1> QED BY <1>1, <1>2, <1>3 DEF AllKept

LEMMA ExtendsAppend ==
  ASSUME NEW ch \in Seq(Nat), NEW m \in Nat
  PROVE  Extends(Append(ch, m), ch) /\ Extends(ch, ch) /\ Append(ch, m) \in Seq(Nat)
BY DEF Extends

\* What a call leaves behind when it is off the stack.
LEMMA Popped ==
  ASSUME LoggerBookkeeping, IsDone(calls), calls[Len(calls)].next # "relay",
         NEW kept, kept = KeptAfter(Last(calls), cache) \/ (kept = cache /\ pc \notin Early)
  PROVE  /\ kept \in Seq(Nat) /\ Extends(kept, cache)
         /\ pc \in Early => AllKept(Front(calls), kept, sent)
         /\ escaped = "no" => Reach(Front(calls), got, kept, sent, imported, Registered)
         /\ ~FailedIn("message") => InOrder(Front(calls), got, kept, sent, imported, pc \in Early)
<1>1. /\ calls \in Seq(FrameType) /\ cache \in Seq(Nat) /\ FramesOK /\ FailuresOK /\ OrderOK /\ ReachOK
  BY DEF LoggerBookkeeping, TypeOK
<1>2. /\ Len(calls) \in Nat \ {0} /\ DOMAIN calls = 1 .. Len(calls) /\ DOMAIN Front(calls) = 1 .. Len(calls) - 1
      /\ Front(calls) \in Seq(FrameType) /\ Len(Front(calls)) = Len(calls) - 1
      /\ Last(calls) = calls[Len(calls)] /\ Last(calls) \in FrameType
      /\ \A k \in 1 .. Len(calls) - 1 : k \in 1 .. Len(calls) /\ Front(calls)[k] = calls[k]
      /\ Front(calls) = <<>> <=> Len(calls) = 1
  BY <1>1, FrontParts DEF IsDone
<1>3. Last(calls).message \in Nat
  BY <1>2 DEF FrameType
<1>4. Len(calls) \in DOMAIN calls
  BY <1>2
<1>5. Last(calls).method = "message" => Last(calls).message \in DOMAIN sent
  BY <1>1, <1>2, <1>4 DEF FramesOK, FrameOK
<1>6. kept \in Seq(Nat) /\ Extends(kept, cache)
  BY <1>1, <1>3, ExtendsAppend DEF KeptAfter
<1>7. ASSUME pc \in Early PROVE AllKept(Front(calls), kept, sent)
  BY <1>1, <1>5, <1>7, CacheIsKept, ReturnKept
<1>8. ASSUME escaped = "no" PROVE Reach(Front(calls), got, kept, sent, imported, Registered)
  <2>1. Reach(calls, got, cache, sent, imported, Registered)
    BY <1>1, <1>8 DEF ReachOK
  <2>2. ~(Len(calls) = 1 /\ calls[1].next = "relay")
    OBVIOUS
  <2> HIDE DEF IsDone
  <2> QED BY <1>1, <1>6, <2>1, <2>2, ReturnReach
<1>9. ASSUME ~FailedIn("message") PROVE InOrder(Front(calls), got, kept, sent, imported, pc \in Early)
  <2> DEFINE early == pc \in Early
  <2>1. InOrder(calls, got, cache, sent, imported, early)
    BY <1>1, <1>9 DEF OrderOK
  <2>2. early \in BOOLEAN /\ (early => kept = KeptAfter(Last(calls), cache))
    OBVIOUS
  <2>3. Front(calls) # <<>> => Last(Front(calls)).method # "message"
    <3> SUFFICES ASSUME Front(calls) # <<>> PROVE Last(Front(calls)).method # "message"
      OBVIOUS
    <3>1. Last(Front(calls)) = Front(calls)[Len(calls) - 1]
      BY <1>2 DEF Last
    <3>2. Len(calls) # 1
      BY SMTT(60), <1>2
    <3>3. Len(calls) - 1 \in 1 .. Len(calls) - 1 /\ Len(calls) - 1 # Len(calls)
      <4>1. \A n \in Nat \ {0} : n # 1 => n - 1 \in 1 .. n - 1 /\ n - 1 # n
        BY SMTT(60)
      <4> QED BY <1>2, <3>2, <4>1
    <3>4. Front(calls)[Len(calls) - 1] = calls[Len(calls) - 1] /\ Len(calls) - 1 \in DOMAIN calls
      BY <1>2, <3>3
    <3> QED BY <1>1, <1>9, <3>1, <3>3, <3>4 DEF FailuresOK
  <2> HIDE DEF early, IsDone
  <2> QED BY <1>1, <2>1, <2>2, <2>3, ReturnInOrder DEF early
<1> QED BY <1>6, <1>7, <1>8, <1>9

\* What Return keeps for later loggers.
Kept1 == IF Top.method = "message" /\ Top.next # "relay" /\ cache # NoCache THEN Append(cache, Top.message) ELSE cache
LEMMA Kept1Is ==
  ASSUME LoggerBookkeeping
  PROVE  Kept1 = KeptAfter(Last(calls), cache) \/ (Kept1 = cache /\ pc \notin Early)
BY CacheIsKept DEF Kept1, KeptAfter, IsSending, Top

\* Nothing is got; no error is sent.
LEMMA NothingGot ==
  ASSUME LoggerBookkeeping, UNCHANGED <<pc, registration, got, failures, causes>>,
         sent' = sent \/ \E level \in {"INFO", "WARN"} : sent' = Append(sent, level)
  PROVE  GotOK' /\ ErrorsOK' /\ sent' \in Seq(Levels) /\ DOMAIN sent \subseteq DOMAIN sent'
<1>1. /\ sent \in Seq(Levels) /\ GotOK /\ ErrorsOK
      /\ Registered' = Registered
  BY DEF LoggerBookkeeping, TypeOK, Levels, Registered, AllLoggers, Expand, registration
<1>2. sent' \in Seq(Levels) /\ DOMAIN sent \subseteq DOMAIN sent' /\ Errors' = Errors
  <2>1. CASE sent' = sent
    BY <1>1, <2>1 DEF Errors
  <2>2. ASSUME NEW level \in {"INFO", "WARN"}, sent' = Append(sent, level)
        PROVE  sent' \in Seq(Levels) /\ DOMAIN sent \subseteq DOMAIN sent' /\ Errors' = Errors
    <3>1. level \in Levels /\ level # "ERROR"
      BY DEF Levels
    <3>2. ErrorsIn(Append(sent, level)) = ErrorsIn(sent)
      BY <1>1, <3>1, ErrorsSent
    <3>3. Append(sent, level) \in Seq(Levels) /\ DOMAIN sent \subseteq DOMAIN Append(sent, level)
      BY <1>1, <3>1, SentMore
    <3> QED BY <2>2, <3>2, <3>3 DEF Errors
  <2> QED BY <2>1, <2>2
<1>3. GotOK'
  BY <1>1, <1>2 DEF GotOK
<1>4. ErrorsOK'
  <2>1. Len(failures') = Len(failures)
    OBVIOUS
  <2> HIDE DEF Errors
  <2> QED BY <1>1, <1>2, <2>1 DEF ErrorsOK
<1> QED BY <1>2, <1>3, <1>4

\* Frames that stay on the stack stay as they are.
LEMMA FramesStay ==
  ASSUME LoggerBookkeeping, UNCHANGED <<pc, registration>>, Registered' = Registered,
         NEW k \in DOMAIN calls, k \in DOMAIN calls', calls'[k] = calls[k],
         Extends(cache', cache), DOMAIN sent \subseteq DOMAIN sent'
  PROVE  FrameOK(k)' /\ Distinct(calls'[k].todo)
<1>1. FramesOK /\ DistinctOK /\ AllLoggers' = AllLoggers /\ imported' = imported
  BY DEF LoggerBookkeeping, AllLoggers, registration
<1>2. Range(AllLoggers)' = Range(AllLoggers)
  BY <1>1
<1>3. calls[k].next = "relay" => /\ calls[k].number \in DOMAIN cache /\ calls[k].message = cache[calls[k].number]
                                 /\ calls[k].number \in DOMAIN cache' /\ calls[k].message = cache'[calls[k].number]
  BY <1>1 DEF FramesOK, FrameOK, Extends
<1> QED BY ZenonT(60), <1>1, <1>2, <1>3 DEF FramesOK, FrameOK, DistinctOK

\* A message follows the call: LOGGER.info after an error, or a logged warning.
LEMMA ReturnSends ==
  ASSUME LoggerBookkeeping, IsDone(calls), calls[Len(calls)].next # "relay",
         UNCHANGED <<registration, pc, at, observed, failures, causes, escaped>>,
         cache' = Kept1, NEW level \in {"INFO", "WARN"}, sent' = Append(sent, level),
         calls' = Append(Front(calls), NewMessage)
  PROVE  MessagesOK'
<1> DEFINE f == NewMessage
<1>1. IsSent(f) /\ f.next = "" /\ RegistrationType
  BY NewMessageParts DEF LoggerBookkeeping, TypeOK
<1> HIDE DEF f
<1>2. f \in FrameType /\ IsNew(f, sent) /\ Distinct(f.todo) /\ Range(f.todo) = Registered /\ f.method = "message"
      /\ f.message = Len(sent) + 1
  BY <1>1 DEF IsSent, IsNew
<1>3. /\ calls \in Seq(FrameType) /\ sent \in Seq(Levels) /\ cache \in Seq(Nat) /\ got \in [Receivers -> Seq(Nat)]
      /\ level \in Levels /\ GotOK /\ Registered' = Registered /\ imported' = imported
  BY DEF LoggerBookkeeping, TypeOK, Levels, Registered, AllLoggers, Expand, registration
<1>4. /\ cache' \in Seq(Nat) /\ Extends(cache', cache)
      /\ pc \in Early => AllKept(Front(calls), cache', sent)
      /\ escaped = "no" => Reach(Front(calls), got, cache', sent, imported, Registered)
      /\ ~FailedIn("message") => InOrder(Front(calls), got, cache', sent, imported, pc \in Early)
  BY Kept1Is, Popped
<1>5. Front(calls) \in Seq(FrameType) /\ calls' = Append(Front(calls), f)
  BY <1>3, FrontParts DEF f, IsDone
<1>6. /\ calls' \in Seq(FrameType) /\ DOMAIN calls' = 1 .. Len(calls)
      /\ calls'[Len(calls)] = f /\ \A k \in 1 .. Len(calls) : k # Len(calls) => calls'[k] = calls[k]
      /\ DOMAIN calls = 1 .. Len(calls)
  <2>1. /\ calls' \in Seq(FrameType) /\ Len(calls') = Len(calls)
        /\ \A k \in 1 .. Len(calls) - 1 : calls'[k] = calls[k]
        /\ calls'[Len(calls)] = f
    <3>1. calls # <<>>
      BY DEF IsDone
    <3>2. calls \in Seq(FrameType) /\ f \in FrameType
      BY <1>2, <1>3
    <3>3. /\ Append(Front(calls), f) \in Seq(FrameType)
          /\ Len(Append(Front(calls), f)) = Len(calls)
          /\ \A k \in 1 .. Len(calls) - 1 : Append(Front(calls), f)[k] = calls[k]
          /\ Append(Front(calls), f)[Len(calls)] = f
      <4> HIDE DEF Front, FrameType
      <4> QED BY ZenonT(60), <3>1, <3>2, StackReplace
    <3> QED BY ZenonT(60), <1>5, <3>3
  <2>2. Len(calls) \in Nat /\ \A k \in 1 .. Len(calls) : k # Len(calls) => k \in 1 .. Len(calls) - 1
    BY <1>3
  <2>3. DOMAIN calls' = 1 .. Len(calls)
    <3>1. DOMAIN calls' = 1 .. Len(calls')
      BY <2>1, LenProperties
    <3> QED BY ZenonT(60), <2>1, <3>1
  <2>4. DOMAIN calls = 1 .. Len(calls)
    BY <1>3, LenProperties
  <2> QED BY ZenonT(60), <2>1, <2>2, <2>3, <2>4
<1>7. GotOK' /\ ErrorsOK' /\ sent' \in Seq(Levels) /\ DOMAIN sent \subseteq DOMAIN sent'
  <2>1. UNCHANGED <<pc, registration, got, failures, causes>>
    BY DEF observed
  <2> QED BY <2>1, NothingGot
<1>8. Len(sent) + 1 \in DOMAIN sent'
  BY SMTT(60), <1>3, SentMore
<1>9. FramesOK' /\ \A k \in DOMAIN calls' : Distinct(calls'[k].todo)
  <2>1. ASSUME NEW k \in DOMAIN calls', k # Len(calls)
        PROVE  FrameOK(k)' /\ Distinct(calls'[k].todo)
    BY ZenonT(60), <1>3, <1>4, <1>6, <1>7, <2>1, FramesStay
  <2>2. FramesOK'
    BY ZenonT(60), <1>1, <1>2, <1>3, <1>6, <1>8, <2>1 DEF FramesOK, FrameOK
  <2> QED BY ZenonT(60), <1>2, <1>6, <2>1, <2>2
<1>10. CacheOK'
  <2> SUFFICES ASSUME pc \in Early PROVE AllKept(calls', cache', sent')
    BY DEF CacheOK
  <2> QED BY <1>2, <1>3, <1>4, <1>5, SendKept
<1>11. ReachOK'
  <2> SUFFICES ASSUME escaped = "no" PROVE Reach(calls', got, cache', sent', imported, Registered)
    BY <1>3 DEF ReachOK, observed
  <2> QED BY <1>2, <1>3, <1>4, <1>5, SendReach
<1>12. OrderOK'
  <2> SUFFICES ASSUME ~FailedIn("message") PROVE InOrder(calls', got, cache', sent', imported, pc \in Early)
    BY <1>3 DEF OrderOK, FailedIn, observed
  <2> DEFINE early == pc \in Early
  <2>1. early \in BOOLEAN /\ (early => Range(cache') \subseteq DOMAIN sent) /\ InOrder(Front(calls), got, cache', sent, imported, early)
    BY <1>4 DEF AllKept
  <2> HIDE DEF early
  <2>2. \A l \in Receivers : Range(got[l]) \subseteq DOMAIN sent
    BY <1>3 DEF GotOK
  <2>3. InOrder(Append(Front(calls), f), got, cache', Append(sent, level), imported, early)
    BY <1>2, <1>3, <1>4, <1>5, <2>1, <2>2, SendInOrder
  <2> QED BY <1>5, <2>3 DEF early
<1> QED BY <1>6, <1>7, <1>9, <1>10, <1>11, <1>12 DEF MessagesOK

\* Nothing follows.
LEMMA ReturnEnds ==
  ASSUME LoggerBookkeeping, IsDone(calls), calls[Len(calls)].next # "relay",
         UNCHANGED <<registration, pc, at, observed, sent, failures, causes, escaped>>,
         cache' = Kept1, calls' = Front(calls)
  PROVE  MessagesOK'
<1>3. /\ calls \in Seq(FrameType) /\ Registered' = Registered /\ imported' = imported
  BY DEF LoggerBookkeeping, TypeOK, Registered, AllLoggers, Expand, registration
<1>4. /\ cache' \in Seq(Nat) /\ Extends(cache', cache)
      /\ pc \in Early => AllKept(Front(calls), cache', sent)
      /\ escaped = "no" => Reach(Front(calls), got, cache', sent, imported, Registered)
      /\ ~FailedIn("message") => InOrder(Front(calls), got, cache', sent, imported, pc \in Early)
  BY Kept1Is, Popped
<1>6. /\ calls' \in Seq(FrameType) /\ DOMAIN calls' = 1 .. Len(calls) - 1
      /\ \A k \in 1 .. Len(calls) - 1 : k \in 1 .. Len(calls) /\ calls'[k] = calls[k]
      /\ DOMAIN calls = 1 .. Len(calls)
  BY <1>3, FrontParts DEF IsDone
<1>7. GotOK' /\ ErrorsOK' /\ sent' \in Seq(Levels) /\ DOMAIN sent \subseteq DOMAIN sent'
  <2>1. UNCHANGED <<pc, registration, got, failures, causes>> /\ sent' = sent
    BY DEF observed
  <2> QED BY <2>1, NothingGot
<1>9. FramesOK' /\ \A k \in DOMAIN calls' : Distinct(calls'[k].todo)
  <2>1. ASSUME NEW k \in DOMAIN calls'
        PROVE  FrameOK(k)' /\ Distinct(calls'[k].todo)
    <3>1. k \in DOMAIN calls /\ calls'[k] = calls[k]
      BY <1>6
    <3> QED BY <1>3, <1>4, <1>7, <3>1, FramesStay
  <2>2. FramesOK'
    BY <2>1 DEF FramesOK, FrameOK
  <2> QED BY <2>1, <2>2
<1>10. CacheOK' /\ ReachOK' /\ OrderOK'
  BY <1>3, <1>4 DEF CacheOK, ReachOK, OrderOK, FailedIn, observed
<1> QED BY <1>6, <1>7, <1>9, <1>10 DEF MessagesOK

\* The next cached message follows.
LEMMA ReturnRelays ==
  ASSUME LoggerBookkeeping, IsDone(calls), Top.next = "relay",
         UNCHANGED <<registration, pc, at, observed, sent, failures, causes, escaped>>,
         cache' = Kept1, calls' = Below \o RelayFrom(Top.to, Top.number + 1, Kept1)
  PROVE  /\ MessagesOK' /\ cache' = cache /\ pc \in Early /\ Len(calls) = 1
         /\ \A k \in DOMAIN calls' : k = Len(calls') /\ k = 1 /\ calls'[k].method = "message"
<1> DEFINE f == Top
<1>1. /\ RegistrationType /\ calls \in Seq(FrameType) /\ sent \in Seq(Levels) /\ cache \in Seq(Nat)
      /\ got \in [Receivers -> Seq(Nat)] /\ Registered' = Registered /\ imported' = imported
      /\ Range(AllLoggers)' = Range(AllLoggers)
      /\ FramesOK /\ ReachOK /\ OrderOK
  BY DEF LoggerBookkeeping, TypeOK, Levels, Registered, AllLoggers, Expand, registration
<1>2. /\ Len(calls) \in Nat \ {0} /\ DOMAIN calls = 1 .. Len(calls)
      /\ f = calls[Len(calls)] /\ f \in FrameType
      /\ Below = <<>> <=> Len(calls) = 1
  BY <1>1, FrontParts DEF IsDone, Top, Below
<1>3. Len(calls) \in DOMAIN calls
  BY <1>2
<1>4. /\ Len(calls) = 1 /\ pc \in {"sources", "listeners", "registered"} /\ f.todo = <<>> /\ f.method = "message"
      /\ f.to \in RelayTargets /\ f.to \in Range(AllLoggers)
      /\ f.number \in DOMAIN cache /\ f.message = cache[f.number]
  <2>1. FrameOK(Len(calls)) /\ calls[Len(calls)].next = "relay"
    BY <1>1, <1>2, <1>3 DEF FramesOK
  <2>2. calls[Len(calls)].next # ""
    BY <2>1
  <2> QED BY <1>2, <2>1, <2>2 DEF FrameOK, IsDone, Top
<1>5. pc \in Early
  BY <1>4 DEF Early, BeforeListeners, BeforeConsole
<1>6. cache # NoCache /\ AllKept(calls, cache, sent)
  BY <1>5, CacheIsKept
<1>7. Kept1 = cache
  BY DEF Kept1
<1>8. calls = <<f>>
  BY <1>1, <1>2, <1>4
<1> DEFINE i == f.number + 1
           new == RelayFrom(f.to, i, cache)
<1>9. f.next = "relay"
  OBVIOUS
<1> HIDE DEF f
<1>10. /\ i \in Nat \ {0}
       /\ Reach(<<f>>, got, cache, sent, imported, Registered) => Reach(new, got, cache, sent, imported, Registered)
       /\ InOrder(<<f>>, got, cache, sent, imported, TRUE) => InOrder(new, got, cache, sent, imported, TRUE)
  BY <1>1, <1>2, <1>4, <1>6, <1>9, RelayNext
<1> HIDE DEF i
<1>11. /\ new \in Seq(FrameType)
       /\ i > Len(cache) => new = <<>>
       /\ i <= Len(cache) =>
            /\ Len(new) = 1 /\ DOMAIN new = {1}
            /\ new[1].method = "message" /\ new[1].message = cache[i]
            /\ new[1].next = "relay" /\ new[1].to = f.to /\ new[1].number = i
            /\ Distinct(new[1].todo) /\ Range(new[1].todo) = RelayedTo(f.to, imported)
            /\ i \in DOMAIN cache
  BY <1>1, <1>4, <1>6, <1>10, RelayFrame
<1>12. Len(cache) \in Nat
  BY <1>1
<1>17. \A k \in DOMAIN new :
            /\ k = Len(new) /\ k = 1
            /\ new[1].method = "message" /\ new[1].message = cache[i]
            /\ new[1].next = "relay" /\ new[1].to = f.to /\ new[1].number = i
            /\ Distinct(new[1].todo) /\ Range(new[1].todo) = RelayedTo(f.to, imported)
            /\ i \in DOMAIN cache
  <2>1. CASE i > Len(cache)
    BY <1>11, <2>1
  <2>2. CASE i <= Len(cache)
    BY <1>11, <2>2
  <2> QED BY <1>10, <1>12, <2>1, <2>2
<1>13. calls' = new
  <2>1. Below = <<>> /\ calls' = Below \o new
    BY <1>2, <1>4, <1>7 DEF f, i
  <2> HIDE DEF new
  <2>2. <<>> \o new = new
    BY <1>11
  <2> QED BY <2>1, <2>2
<1> HIDE DEF new
<1>14. GotOK' /\ ErrorsOK' /\ sent' \in Seq(Levels) /\ DOMAIN sent \subseteq DOMAIN sent'
  <2>1. UNCHANGED <<pc, registration, got, failures, causes>> /\ sent' = sent
    BY DEF observed
  <2> QED BY <2>1, NothingGot
<1>15. FramesOK' /\ \A k \in DOMAIN calls' : Distinct(calls'[k].todo)
  <2>1. ASSUME NEW k \in DOMAIN new PROVE FrameOK(k)' /\ Distinct(new[k].todo)
    <3>1. k = 1 /\ i \in DOMAIN cache
      BY <1>17
    <3>2. cache[i] \in Range(cache)
      BY <3>1 DEF Range
    <3>3. cache[i] \in DOMAIN sent
      BY <1>6, <3>2 DEF AllKept
    <3>4. RelayedTo(f.to, imported) \subseteq Registered
      <4>1. RegisteredOK
        BY <1>1, RegisteredType
      <4> QED BY <1>4, <4>1 DEF RegisteredOK, RegisteredNow, RelayedTo, RelayTargets
    <3> QED BY <1>1, <1>4, <1>7, <1>13, <1>17, <3>1, <3>3, <3>4 DEF FrameOK
  <2> QED BY <1>13, <2>1 DEF FramesOK
<1>16. CacheOK' /\ ReachOK' /\ OrderOK'
  <2>1. CacheOK'
    <3>1. AllKept(new, cache, sent)
      <4>1. \A m : Kept(calls, cache, m) => Kept(new, cache, m)
        BY <1>2, <1>4, <1>8, <1>9 DEF Kept
      <4> QED BY <1>6, <4>1 DEF AllKept
    <3> QED BY <1>7, <1>13, <3>1 DEF CacheOK
  <2>2. ReachOK'
    BY <1>1, <1>7, <1>8, <1>10, <1>13 DEF ReachOK, observed
  <2>3. OrderOK'
    <3> SUFFICES ASSUME ~FailedIn("message") PROVE InOrder(new, got, cache, sent, imported, TRUE)
      <4>1. (pc \in Early) = TRUE
        BY <1>5
      <4> QED BY <1>1, <1>7, <1>13, <4>1 DEF OrderOK, FailedIn, observed
    <3>1. (pc \in Early) = TRUE
      BY <1>5
    <3>2. InOrder(calls, got, cache, sent, imported, TRUE)
      BY <1>1, <3>1 DEF OrderOK
    <3> QED BY <1>8, <1>10, <3>2
  <2> QED BY <2>1, <2>2, <2>3
<1> QED BY <1>4, <1>5, <1>7, <1>11, <1>13, <1>14, <1>15, <1>16, <1>17 DEF MessagesOK

-----------------------------------------------------------------------------
(* What a call that returns does to everything else *)

\* Calls below stay; a message may take the place of another, or of a log message.
StaysOrFollows(k) ==
  \/ k \in DOMAIN calls /\ k # Len(calls) /\ calls'[k] = calls[k]
  \/ /\ k = Len(calls) /\ k = Len(calls') /\ calls'[k].method = "message"
     /\ calls[k].method \in {"message", "log_message"}

LEMMA ReturnCalls ==
  ASSUME LoggerBookkeeping, Return
  PROVE  /\ MessagesOK' /\ cache' \in Seq(Nat) /\ IsDone(calls)
         /\ UNCHANGED <<registration, pc, at, observed, failures, causes, escaped>>
         /\ \A k \in DOMAIN calls' : StaysOrFollows(k)
         /\ Len(calls) # 1 => calls' # <<>>
<1>1. /\ calls \in Seq(FrameType) /\ cache \in Seq(Nat) /\ IsDone(calls) /\ FramesOK
  BY DEF LoggerBookkeeping, TypeOK, Return, IsDone, Top
<1>2. /\ Len(calls) \in Nat \ {0} /\ DOMAIN calls = 1 .. Len(calls)
      /\ Front(calls) \in Seq(FrameType)
      /\ Top = calls[Len(calls)] /\ Top \in FrameType /\ Below = Front(calls)
      /\ \A k \in 1 .. Len(calls) - 1 : k \in 1 .. Len(calls) /\ Front(calls)[k] = calls[k]
  BY <1>1, FrontParts DEF IsDone, Top, Below
<1>3. Kept1 \in Seq(Nat)
  <2>1. Top.message \in Nat
    BY <1>2 DEF FrameType
  <2> HIDE DEF Top
  <2>2. Append(cache, Top.message) \in Seq(Nat)
    BY <1>1, <2>1
  <2> QED BY <1>1, <2>2 DEF Kept1
<1>4. Top.next \in {"", "info", "relay"} /\ Top.method \in Methods
  BY <1>2 DEF FrameType
<1>5. FrameOK(Len(calls))
  <2>1. Len(calls) \in DOMAIN calls
    BY <1>2
  <2> QED BY <1>1, <2>1 DEF FramesOK
<1>6. Top.next # "" => Top.method = "message"
  BY <1>2, <1>5 DEF FrameOK
<1>7. UNCHANGED <<registration, pc, at, observed, failures, causes, escaped>> /\ cache' = Kept1
  BY DEF Return, Kept1
<1> DEFINE level == IF Top.next = "info" THEN "INFO"
                    ELSE IF Top.method = "log_message" /\ Top.item = "WARN" THEN "WARN"
                    ELSE "NONE"
<1>8. IF level # "NONE"
      THEN sent' = Append(sent, level) /\ calls' = Append(Below, NewMessage)
      ELSE /\ calls' = IF Top.next = "relay" THEN Below \o RelayFrom(Top.to, Top.number + 1, Kept1) ELSE Below
           /\ sent' = sent
  BY DEF Return, Kept1
<1>9. CASE level # "NONE"
  <2>1. /\ Top.next # "relay" /\ Top.method \in {"message", "log_message"} /\ level \in {"INFO", "WARN"}
    BY <1>6, <1>9
  <2> HIDE DEF level
  <2>2. calls' = Append(Front(calls), NewMessage) /\ sent' = Append(sent, level)
    BY <1>2, <1>8, <1>9
  <2>3. MessagesOK'
    BY <1>1, <1>2, <1>7, <2>1, <2>2, ReturnSends
  <2>4. NewMessage \in FrameType /\ NewMessage.method = "message"
    BY NewMessageParts DEF IsSent, IsNew, LoggerBookkeeping, TypeOK
  <2>5. /\ Len(calls') = Len(calls) /\ DOMAIN calls' = 1 .. Len(calls)
        /\ \A k \in 1 .. Len(calls) - 1 : calls'[k] = calls[k]
        /\ calls'[Len(calls)] = NewMessage
    <3> DEFINE f == NewMessage
    <3>1. f \in FrameType /\ calls # <<>> /\ calls' = Append(Front(calls), f)
      BY <1>1, <2>2, <2>4 DEF IsDone
    <3> HIDE DEF f
    <3>2. /\ calls' \in Seq(FrameType) /\ Len(calls') = Len(calls)
          /\ \A k \in 1 .. Len(calls) - 1 : calls'[k] = calls[k]
          /\ calls'[Len(calls)] = f
      BY <1>1, <3>1, StackReplace
    <3>3. DOMAIN calls' = 1 .. Len(calls)
      BY <3>2
    <3> QED BY <3>2, <3>3 DEF f
  <2>6. ASSUME NEW k \in DOMAIN calls' PROVE StaysOrFollows(k)
    <3>1. CASE k = Len(calls)
      BY <1>2, <2>1, <2>4, <2>5, <3>1 DEF StaysOrFollows
    <3>2. CASE k # Len(calls)
      <4>1. k \in 1 .. Len(calls) - 1
        BY <1>2, <2>5, <3>2
      <4> QED BY <1>2, <2>5, <3>2, <4>1 DEF StaysOrFollows
    <3> QED BY <3>1, <3>2
  <2>7. calls' # <<>>
    BY <1>2, <2>5
  <2> QED BY <1>1, <1>3, <1>7, <2>3, <2>6, <2>7
<1>10. CASE level = "NONE" /\ Top.next # "relay"
  <2>1. calls' = Front(calls) /\ sent' = sent
    BY <1>2, <1>8, <1>10
  <2>2. MessagesOK'
    BY <1>1, <1>2, <1>7, <1>10, <2>1, ReturnEnds
  <2>3. DOMAIN calls' = 1 .. Len(calls) - 1
    BY <1>1, <2>1, FrontParts DEF IsDone
  <2>4. ASSUME NEW k \in DOMAIN calls' PROVE StaysOrFollows(k)
    <3>1. k \in DOMAIN calls /\ k # Len(calls)
      BY <1>2, <2>3
    <3> QED BY <1>2, <2>1, <2>3, <3>1 DEF StaysOrFollows
  <2>5. Len(calls) # 1 => calls' # <<>>
    BY <1>2, <2>3
  <2> QED BY <1>1, <1>3, <1>7, <2>2, <2>4, <2>5
<1>11. CASE level = "NONE" /\ Top.next = "relay"
  <2>1. calls' = Below \o RelayFrom(Top.to, Top.number + 1, Kept1) /\ sent' = sent
    BY <1>8, <1>11
  <2>2. /\ MessagesOK' /\ Len(calls) = 1
        /\ \A k \in DOMAIN calls' : k = Len(calls') /\ k = 1 /\ calls'[k].method = "message"
    BY <1>1, <1>7, <1>11, <2>1, ReturnRelays
  <2>3. calls[Len(calls)].method = "message"
    BY <1>2, <1>6, <1>11
  <2>4. ASSUME NEW k \in DOMAIN calls' PROVE StaysOrFollows(k)
    BY <2>2, <2>3 DEF StaysOrFollows
  <2> QED BY <1>1, <1>3, <1>7, <2>2, <2>4
<1> QED BY <1>9, <1>10, <1>11

\* A call that returns keeps the books.
LEMMA ReturnStep ==
  ASSUME LoggerBookkeeping, Return
  PROVE  LoggerBookkeeping'
<1>1. /\ MessagesOK' /\ cache' \in Seq(Nat) /\ IsDone(calls)
      /\ UNCHANGED <<registration, pc, at, observed, failures, causes, escaped>>
      /\ \A k \in DOMAIN calls' : StaysOrFollows(k)
      /\ Len(calls) # 1 => calls' # <<>>
  BY ReturnCalls
<1>2. /\ UNCHANGED <<contextChanging, regular, imported, consoleDisabled, pc, at, open, active, got, failures, causes, escaped>>
      /\ Registered' = Registered /\ Followers' = Followers
  BY <1>1 DEF registration, observed, Registered, AllLoggers, Expand, Followers
<1>3. /\ TypeOK /\ DistinctOK /\ RegistrationOK /\ MainCall /\ FramesOK /\ EventsOK /\ FilesOK /\ FailuresOK
      /\ XmlEnclosesListeners /\ calls \in Seq(FrameType) /\ calls' \in Seq(FrameType)
  BY <1>1 DEF LoggerBookkeeping, TypeOK, MessagesOK
<1>4. /\ Len(calls) \in Nat \ {0} /\ DOMAIN calls = 1 .. Len(calls)
      /\ DOMAIN calls' = 1 .. Len(calls') /\ Len(calls') \in Nat
      /\ calls' # <<>> => 1 \in DOMAIN calls'
  BY <1>1, <1>3 DEF IsDone
<1>5. Len(calls') <= Len(calls)
  <2>1. Len(calls') = 0 \/ Len(calls') \in DOMAIN calls'
    BY SMTT(60), <1>4
  <2>2. CASE Len(calls') \in DOMAIN calls'
    <3>1. StaysOrFollows(Len(calls'))
      BY SMTT(60), <1>1, <2>2
    <3>2. Len(calls') \in 1 .. Len(calls) \/ Len(calls') = Len(calls)
      BY <1>4, <3>1 DEF StaysOrFollows
    <3>3. \A m, n \in Nat : m \in 1 .. n \/ m = n => m <= n
      OBVIOUS
    <3> QED BY <1>4, <3>2, <3>3
  <2>3. \A n \in Nat : 0 <= n
    OBVIOUS
  <2> QED BY <1>4, <2>1, <2>2, <2>3
<1>6. \A k \in DOMAIN calls' : k \in DOMAIN calls
  BY <1>1, <1>4 DEF StaysOrFollows
<1>7. \A k \in DOMAIN calls' : \/ (k # Len(calls) /\ calls'[k] = calls[k])
                              \/ (k = Len(calls) /\ k = Len(calls') /\ calls'[k].method = "message")
  BY <1>1 DEF StaysOrFollows
<1>8. MainCall'
  <2> SUFFICES ASSUME calls' # <<>>, pc \in {"closing", "running"} PROVE MainCall'
    BY <1>2 DEF MainCall
  <2>1. 1 \in DOMAIN calls' /\ calls # <<>>
    BY <1>4
  <2>2. StaysOrFollows(1)
    BY <1>1, <2>1
  <2>3. CASE calls'[1] = calls[1]
    BY <1>2, <1>3, <2>1, <2>3 DEF MainCall
  <2>4. CASE calls'[1].method = "message" /\ calls[1].method \in {"message", "log_message"}
    BY <1>2, <1>3, <2>1, <2>4 DEF MainCall
  <2> QED BY <2>2, <2>3, <2>4 DEF StaysOrFollows
<1>9. \A l : IsTold(l)' <=> IsTold(l)
  <2> SUFFICES ASSUME NEW l PROVE IsTold(l)' <=> IsTold(l)
    OBVIOUS
  <2>1. CASE Len(calls) = 1
    <3>1. calls[1].todo = <<>>
      BY <1>1, <2>1 DEF IsDone, Last
    <3>2. Range(<<>>) = {}
      BY DEF Range
    <3>3. ~IsTold(l)
      BY <3>1, <3>2 DEF IsTold
    <3>4. calls' # <<>> => calls'[1].method = "message"
      BY <1>4, <1>7, <2>1
    <3> QED BY <3>3, <3>4 DEF IsTold
  <2>2. CASE Len(calls) # 1
    <3>1. calls' # <<>> /\ calls # <<>> /\ calls'[1] = calls[1]
      <4> calls' # <<>>
        BY <1>1, <2>2
      <4>1. StaysOrFollows(1)
        BY <1>1, <1>4
      <4> QED BY <1>4, <2>2, <4>1 DEF StaysOrFollows
    <3> QED BY <3>1 DEF IsTold
  <2> QED BY <2>1, <2>2
<1>10. calls' # <<>> => calls # <<>> /\ (calls'[1] = calls[1] \/ calls'[1].method = "message")
  BY <1>4, <1>7
<1>11. EventsOK'
  BY <1>2, <1>3, <1>9, <1>10 DEF EventsOK
<1>12. FilesOK'
  <2>1. ASSUME NEW k \in DOMAIN calls', calls'[k].method # "message"
        PROVE  k \in DOMAIN calls /\ calls'[k] = calls[k] /\ (k > 1 => calls'[1] = calls[1])
    <3>1. k \in DOMAIN calls /\ calls'[k] = calls[k] /\ k # Len(calls)
      BY <1>6, <1>7, <2>1
    <3>2. ASSUME k > 1 PROVE calls'[1] = calls[1]
      <4>1. 1 \in DOMAIN calls' /\ Len(calls) # 1
        BY <1>4, <3>1, <3>2
      <4> QED BY <1>7, <4>1
    <3> QED BY <3>1, <3>2
  <2>2. \A k \in DOMAIN calls' : calls'[k].method \in {"start", "end", "log_message"} =>
           k \in DOMAIN calls /\ calls'[k] = calls[k]
    BY <2>1
  <2>3. \A k \in DOMAIN calls' : calls'[k].method = "close" /\ k > 1 =>
           k \in DOMAIN calls /\ calls'[k] = calls[k] /\ calls'[1] = calls[1]
    BY <2>1
  <2> QED BY <1>2, <1>3, <2>2, <2>3 DEF FilesOK
<1>13. FailuresOK'
  <2>1. \A k \in DOMAIN calls' : calls'[k].method = "message" => k = Len(calls') \/ FailedIn("message")
    BY <1>3, <1>6, <1>7 DEF FailuresOK
  <2>2. Len(calls') > 1 => Len(calls) > 1
    BY <1>4, <1>5
  <2>3. (\A m : FailedIn(m)' <=> FailedIn(m)) /\ (Exited' <=> Exited) /\ (FileLost' <=> FileLost)
    BY <1>2 DEF FailedIn, Exited, FileLost
  <2> QED BY <1>2, <1>3, <2>1, <2>2, <2>3 DEF FailuresOK
<1>14. RegistrationType' /\ RegistrationOK' /\ XmlEnclosesListeners'
  <2>1. AllLoggers' = AllLoggers /\ at' = at
    BY <1>1, <1>2 DEF AllLoggers
  <2> QED BY <1>2, <1>3, <2>1 DEF TypeOK, RegistrationType, RegistrationOK, XmlEnclosesListeners
<1>15. TypeOK'
  BY <1>1, <1>2, <1>3, <1>14 DEF TypeOK, MessagesOK, Levels
<1>16. DistinctOK'
  BY <1>1, <1>2, <1>3 DEF DistinctOK, MessagesOK
<1> QED BY <1>1, <1>8, <1>11, <1>12, <1>13, <1>14, <1>15, <1>16 DEF LoggerBookkeeping, MessagesOK

-----------------------------------------------------------------------------
(* The call of a logger *)

Calling(l) ==
  /\ l \in Receivers /\ calls \in Seq(FrameType) /\ calls # <<>> /\ CanCall(calls)
  /\ Top = calls[Len(calls)] /\ Top = Last(calls) /\ Top \in FrameType /\ FrameOK(Len(calls))
  /\ l = Head(Top.todo) /\ l \in Range(Top.todo) /\ l \in Registered
  /\ Len(calls) \in Nat \ {0} /\ DOMAIN calls = 1 .. Len(calls)
  /\ Len(calls) \in DOMAIN calls /\ 1 \in DOMAIN calls
\* The calls when it has been reached.
ReachedOK(l) ==
  /\ Reached = Called1(calls) /\ Reached \in Seq(FrameType) /\ Reached # <<>>
  /\ Len(Reached) = Len(calls) /\ DOMAIN Reached = 1 .. Len(calls)
  /\ Last(Reached) = After(Top) /\ Reached[Len(calls)].todo = Tail(Top.todo)
  /\ \A k \in DOMAIN calls :
       /\ Reached[k].method = calls[k].method /\ Reached[k].item = calls[k].item
       /\ Reached[k].message = calls[k].message /\ Reached[k].next = calls[k].next
       /\ Reached[k].to = calls[k].to /\ Reached[k].number = calls[k].number
       /\ Distinct(Reached[k].todo)
       /\ Range(Reached[k].todo) = IF k = Len(calls) THEN Range(calls[k].todo) \ {l} ELSE Range(calls[k].todo)
       /\ k # Len(calls) => Reached[k] = calls[k]

LEMMA CallingParts ==
  ASSUME LoggerBookkeeping, NEW l \in Receivers, Called(l)
  PROVE  Calling(l) /\ ReachedOK(l)
<1>1. /\ calls \in Seq(FrameType) /\ FramesOK /\ DistinctOK /\ calls # <<>> /\ Top.todo # <<>> /\ l = Head(Top.todo)
  BY DEF LoggerBookkeeping, TypeOK, Called
<1>2. /\ Len(calls) \in Nat \ {0} /\ DOMAIN calls = 1 .. Len(calls)
      /\ Top = calls[Len(calls)] /\ Top \in FrameType /\ Top = Last(calls)
  BY <1>1, FrontParts DEF Top
<1>3. Len(calls) \in DOMAIN calls /\ 1 \in DOMAIN calls
  BY <1>2
<1>4. FrameOK(Len(calls)) /\ Distinct(Top.todo)
  BY <1>1, <1>2, <1>3 DEF FramesOK, DistinctOK
<1>5. CanCall(calls)
  BY <1>1, <1>2, <1>4 DEF CanCall
<1>6. Head(Top.todo) \in Range(Top.todo) /\ After(Top).todo = Tail(Top.todo)
  BY <1>1, <1>2, <1>4, AfterType
<1>7. l \in Registered
  BY <1>1, <1>2, <1>4, <1>6 DEF FrameOK
<1>8. Calling(l)
  BY <1>1, <1>2, <1>3, <1>4, <1>5, <1>6, <1>7 DEF Calling
<1>9. Reached = Called1(calls)
  BY SMTT(60) DEF Reached, Called1, Below, Top, After
<1> DEFINE new == Called1(calls)
<1>10. /\ new \in Seq(FrameType) /\ new # <<>> /\ Last(new) = After(Top)
       /\ Len(new) = Len(calls) /\ DOMAIN new = 1 .. Len(calls) /\ new[Len(calls)] = After(Top)
       /\ \A k \in 1 .. Len(calls) - 1 : new[k] = calls[k]
       /\ \A k \in 1 .. Len(calls) :
            /\ new[k].method = calls[k].method /\ new[k].item = calls[k].item /\ new[k].message = calls[k].message
            /\ new[k].next = calls[k].next /\ new[k].to = calls[k].to /\ new[k].number = calls[k].number
            /\ Distinct(calls[k].todo) => Distinct(new[k].todo)
            /\ Range(new[k].todo) = IF k = Len(calls) THEN Range(calls[k].todo) \ {l} ELSE Range(calls[k].todo)
  BY ZenonT(60), <1>1, <1>2, <1>5, CalledParts
<1> HIDE DEF new
<1>11. \A k \in DOMAIN calls : Distinct(calls[k].todo)
  BY <1>1 DEF DistinctOK
<1>12. \A k \in 1 .. Len(calls) : k # Len(calls) => k \in 1 .. Len(calls) - 1
  <2>1. \A n \in Nat : \A k \in 1 .. n : k # n => k \in 1 .. n - 1
    OBVIOUS
  <2> QED BY <1>2, <2>1
<1>13. ReachedOK(l)
  <2>1. ASSUME NEW k \in DOMAIN calls
        PROVE  /\ new[k].method = calls[k].method /\ new[k].item = calls[k].item
               /\ new[k].message = calls[k].message /\ new[k].next = calls[k].next
               /\ new[k].to = calls[k].to /\ new[k].number = calls[k].number
               /\ Distinct(new[k].todo)
               /\ Range(new[k].todo) = IF k = Len(calls) THEN Range(calls[k].todo) \ {l} ELSE Range(calls[k].todo)
               /\ k # Len(calls) => new[k] = calls[k]
    BY <1>2, <1>10, <1>11, <1>12
  <2>2. new[Len(calls)].todo = Tail(Top.todo) /\ Reached = new
    BY ZenonT(60), <1>6, <1>9, <1>10 DEF new
  <2>3. /\ Reached = Called1(calls) /\ Reached \in Seq(FrameType) /\ Reached # <<>>
        /\ Len(Reached) = Len(calls) /\ DOMAIN Reached = 1 .. Len(calls)
        /\ Last(Reached) = After(Top)
    BY <1>9, <1>10, <2>2
  <2>4. Reached[Len(calls)].todo = Tail(Top.todo)
    BY <2>2
  <2> QED BY ZenonT(60), <2>1, <2>2, <2>3, <2>4 DEF ReachedOK
<1> QED BY <1>8, <1>13

\* What a receiver is told of, opens and closes.
LEMMA ReceiveEffects ==
  ASSUME LoggerBookkeeping, NEW l \in Receivers, Called(l), Receive(l)
  PROVE  /\ got' = GotBy(calls, got, sent)
         /\ l # "file" => Told(l)
         /\ l = "file" => open' = open
         /\ active' \subseteq active /\ active \ active' \subseteq {l}
         /\ Top.method # "close" => active' = active
<1>1. Calling(l) /\ imported \in Seq(Range(Listeners)) /\ active \subseteq Receivers
  BY CallingParts DEF LoggerBookkeeping, TypeOK, RegistrationType
<1>2. Range(imported) \cap Others = {}
  BY <1>1, ListenersAssumption DEF Range
<1>3. GotBy(calls, got, sent) = IF Top.method = "message" /\ WantsMessage(l, sent[Top.message])
                                THEN [got EXCEPT ![l] = Append(@, Top.message)] ELSE got
  BY <1>1 DEF Calling, GotBy, Got
<1>4. CASE ConsoleReceives(l)
  BY <1>3, <1>4 DEF ConsoleReceives, Gets
<1>5. CASE FileLoggerReceives(l)
  BY <1>3, <1>5 DEF FileLoggerReceives, Gets, Closes
<1>6. CASE DebugFileReceives(l)
  <2>1. ~WantsMessage("debug", sent[Top.message])
    BY DEF WantsMessage
  <2> QED BY <1>3, <1>6, <2>1 DEF DebugFileReceives, Closes
<1>7. CASE XmlLoggerReceives(l)
  BY <1>3, <1>7 DEF XmlLoggerReceives, Gets
<1>8. CASE ListenerReceives(l)
  BY <1>2, <1>3, <1>8 DEF ListenerReceives, Gets, Closes, Others
<1> QED BY <1>4, <1>5, <1>6, <1>7, <1>8 DEF Receive

\* A file that is open when a logger is called is open afterwards, but when all are
\* being closed.
LEMMA ReceiveLoses ==
  ASSUME LoggerBookkeeping, NEW l \in Receivers, Called(l), Receive(l), regular' = regular
  PROVE  /\ FileLost => FileLost'
         /\ FileLost' => FileLost \/ (pc = "closing" /\ escaped \notin Uncaught)
<1>1. /\ Calling(l) /\ FailuresOK
      /\ active' \subseteq active /\ active \ active' \subseteq {l} /\ (Top.method # "close" => active' = active)
  BY CallingParts, ReceiveEffects DEF LoggerBookkeeping
<1>2. FrameOK(Len(calls)) /\ Top = calls[Len(calls)] /\ l \in Range(Top.todo)
  BY <1>1 DEF Calling
<1>3. ASSUME "file" \in active, "file" \notin active' PROVE pc = "closing"
  <2>1. l = "file" /\ Top.method = "close"
    BY <1>1, <1>3
  <2> QED BY <1>2, <2>1 DEF FrameOK
<1> QED BY <1>1, <1>3 DEF FileLost, FailuresOK

\* A logger that is not registered gets nothing.
LEMMA ReceiveGot ==
  ASSUME LoggerBookkeeping, NEW l \in Receivers, Called(l), Receive(l)
  PROVE  /\ got' \in [Receivers -> Seq(Nat)]
         /\ \A x \in Receivers : Range(got'[x]) \subseteq DOMAIN sent
         /\ \A x \in Receivers : x # l => got'[x] = got[x]
<1>1. /\ got' = GotBy(calls, got, sent) /\ Calling(l)
      /\ got \in [Receivers -> Seq(Nat)] /\ GotOK
  BY CallingParts, ReceiveEffects DEF LoggerBookkeeping, TypeOK
<1>2. got' = Got(got, Top, l, sent)
  BY <1>1 DEF GotBy, Calling
<1>3. Top \in FrameType /\ Top.message \in Nat /\ (Top.method = "message" => Top.message \in DOMAIN sent)
  BY <1>1 DEF Calling, FrameOK, FrameType
<1>4. got' \in [Receivers -> Seq(Nat)]
  <2>1. \A ss : \A f \in FrameType : Got(got, f, l, ss) \in [Receivers -> Seq(Nat)]
    BY <1>1, GotSeen
  <2> QED BY <1>2, <1>3, <2>1
<1>5. \A x \in Receivers : x # l => got'[x] = got[x]
  <2>1. got' = got \/ got' = [got EXCEPT ![l] = Append(@, Top.message)]
    BY <1>2 DEF Got
  <2>2. got \in [Receivers -> Seq(Nat)]
    BY <1>1
  <2> QED BY <2>1, <2>2
<1>6. ASSUME NEW x \in Receivers PROVE Range(got'[x]) \subseteq DOMAIN sent
  <2>1. got[l] \in Seq(Nat) /\ Range(got[x]) \subseteq DOMAIN sent /\ Range(got[l]) \subseteq DOMAIN sent
    BY <1>1 DEF GotOK
  <2>2. Range(Append(got[l], Top.message)) = Range(got[l]) \cup {Top.message}
    BY <1>3, <2>1, AppendRange
  <2>3. CASE x = l /\ Top.method = "message" /\ WantsMessage(l, sent[Top.message])
    <3>1. got'[l] = Append(got[l], Top.message)
      BY <1>1, <1>2, <2>3 DEF Got
    <3> QED BY <1>3, <2>1, <2>2, <2>3, <3>1
  <2>4. CASE ~(x = l /\ Top.method = "message" /\ WantsMessage(l, sent[Top.message]))
    <3>1. got'[x] = got[x]
      BY <1>1, <1>2, <2>4 DEF Got
    <3> QED BY <2>1, <3>1
  <2> QED BY <2>3, <2>4
<1> QED BY <1>4, <1>5, <1>6

\* What a receiver that is called does to messages.
LEMMA ReceiveMessages ==
  ASSUME LoggerBookkeeping, NEW l \in Receivers, Called(l), Receive(l)
  PROVE  /\ escaped = "no" => Reach(Reached, got', cache, sent, imported, Registered)
         /\ pc \in Early => AllKept(Reached, cache, sent)
         /\ ~FailedIn("message") => InOrder(Reached, got', cache, sent, imported, pc \in Early)
         /\ pc \in Early => \A x \in Receivers : x \notin Registered /\ x # "auto" => got'[x] = <<>>
         /\ IsFiniteSet(Errors) /\ Cardinality(Errors) \in Nat
         /\ Cardinality(Errors) <= Len(failures) + causes
<1>1. /\ got' = GotBy(calls, got, sent) /\ Calling(l) /\ ReachedOK(l)
      /\ got \in [Receivers -> Seq(Nat)] /\ sent \in Seq(Levels) /\ imported \in Seq(Range(Listeners))
      /\ GotOK /\ ErrorsOK /\ ReachOK /\ CacheOK /\ OrderOK /\ RegistrationOK /\ RegistrationType
  BY CallingParts, ReceiveEffects DEF LoggerBookkeeping, TypeOK, RegistrationType, Levels
<1>2. /\ calls \in Seq(FrameType) /\ CanCall(calls) /\ Top = Last(calls) /\ FrameOK(Len(calls)) /\ Top = calls[Len(calls)]
      /\ l = Head(Top.todo) /\ l \in Registered /\ Reached = Called1(calls)
  BY <1>1 DEF Calling, ReachedOK
<1>3. RegisteredOK
  BY <1>1, RegisteredType
<1>4. Registered \in SUBSET Receivers
  BY <1>3 DEF RegisteredOK
<1>5. escaped = "no" => Reach(Reached, got', cache, sent, imported, Registered)
  BY <1>1, <1>2, <1>4, CallReach DEF ReachOK
<1>6. pc \in Early => AllKept(Reached, cache, sent)
  BY <1>1, <1>2, CallKept DEF CacheOK
<1>7. ASSUME l = "auto" PROVE got["console"] = <<>> /\ "console" \notin Registered
  <2>1. pc \in BeforeConsole /\ contextChanging = <<>> /\ imported = <<>> /\ Range(regular) \subseteq {"auto", "file"}
    <3>1. "auto" \notin Range(imported) /\ "auto" \notin Range(contextChanging)
      <4>1. Range(imported) \subseteq Range(Listeners)
        BY <1>1 DEF Range
      <4>2. "auto" \in Others
        BY DEF Others
      <4>3. Range(contextChanging) \subseteq {"xml"}
        BY <1>1 DEF RegistrationType, Range
      <4> QED BY <4>1, <4>2, <4>3, ListenersAssumption
    <3>2. "auto" \in Range(regular)
      BY <1>2, <1>3, <1>7, <3>1 DEF RegisteredOK, RegisteredNow
    <3>3. pc \in BeforeConsole
      BY <1>1, <3>2 DEF RegistrationOK
    <3> QED BY <1>1, <3>3 DEF RegistrationOK, Early, BeforeListeners
  <2>2. "console" \notin Registered
    <3>1. Range(<<>>) = {}
      BY DEF Range
    <3> QED BY <1>3, <2>1, <3>1 DEF RegisteredOK, RegisteredNow
  <2>3. pc \in Early /\ "console" \in Receivers
    BY <2>1 DEF Early, BeforeListeners, Receivers, Others
  <2> QED BY <1>1, <2>2, <2>3 DEF GotOK
<1>8. ASSUME ~FailedIn("message") PROVE InOrder(Reached, got', cache, sent, imported, pc \in Early)
  <2> DEFINE early == pc \in Early
  <2>1. early \in BOOLEAN /\ InOrder(calls, got, cache, sent, imported, early)
    BY <1>1, <1>8 DEF OrderOK
  <2>2. Range(Last(calls).todo) \subseteq Registered
    BY <1>2 DEF FrameOK
  <2>3. Last(calls).next = "relay" => /\ Last(calls).to \in RelayTargets
                                      /\ Range(Last(calls).todo) \subseteq RelayedTo(Last(calls).to, imported)
    BY <1>2 DEF FrameOK
  <2>4. Head(Last(calls).todo) = "auto" => got["console"] = <<>> /\ "console" \notin Range(Last(calls).todo)
    BY <1>2, <1>7, <2>2
  <2> HIDE DEF early
  <2>5. InOrder(Called1(calls), GotBy(calls, got, sent), cache, sent, imported, early)
    BY <1>1, <1>2, <2>1, <2>3, <2>4, CallInOrder
  <2> QED BY <1>1, <1>2, <2>5 DEF early
<1>9. ASSUME pc \in Early, NEW x \in Receivers, x \notin Registered, x # "auto" PROVE got'[x] = <<>>
  BY <1>1, <1>2, <1>9, ReceiveGot DEF GotOK
<1>10. /\ IsFiniteSet(Errors) /\ Cardinality(Errors) \in Nat
       /\ Cardinality(Errors) <= Len(failures) + causes
  <2>1. "INFO" \in Levels
    BY DEF Levels
  <2>2. IsFiniteSet(Errors) /\ Cardinality(Errors) \in Nat
    BY <1>1, <2>1, ErrorsSent DEF Errors
  <2> QED BY <1>1, <1>2, <2>2 DEF ErrorsOK
<1> QED BY <1>5, <1>6, <1>8, <1>9, <1>10

-----------------------------------------------------------------------------
(* What a call does to everything else *)

\* The call goes on with its other loggers, or other calls come first.
Continues ==
  /\ calls' \in Seq(FrameType) /\ DOMAIN calls' = 1 .. Len(calls') /\ Len(calls) <= Len(calls')
  /\ \A k \in DOMAIN calls : k \in DOMAIN calls' /\ calls'[k] = Reached[k]
  /\ UNCHANGED <<registration, pc, at, escaped>>

\* The call of the main program.
FirstCall(l) ==
  /\ calls # <<>> /\ calls' # <<>> /\ calls'[1].method = calls[1].method /\ calls'[1].item = calls[1].item
  /\ Len(calls) = 1 => /\ Top = calls[1] /\ calls'[1].todo = Tail(calls[1].todo)
                       /\ Range(calls'[1].todo) = Range(calls[1].todo) \ {l}
  /\ Len(calls) # 1 => calls'[1] = calls[1]
  /\ Top.method \in {"start", "end", "log_message"} => Len(calls) = 1 /\ pc = "running"
LEMMA FirstCallParts ==
  ASSUME NEW l, Calling(l), ReachedOK(l), Continues
  PROVE  FirstCall(l)
<1>1. /\ 1 \in DOMAIN calls /\ 1 \in DOMAIN calls' /\ calls'[1] = Reached[1] /\ Top = calls[Len(calls)]
      /\ FrameOK(Len(calls)) /\ calls # <<>> /\ calls' # <<>>
  BY DEF Calling, Continues
<1>2. /\ Reached[1].method = calls[1].method /\ Reached[1].item = calls[1].item
      /\ Reached[Len(calls)].todo = Tail(Top.todo)
      /\ Range(Reached[1].todo) = IF 1 = Len(calls) THEN Range(calls[1].todo) \ {l} ELSE Range(calls[1].todo)
      /\ 1 # Len(calls) => Reached[1] = calls[1]
  BY <1>1 DEF ReachedOK
<1>3. Top.method \in {"start", "end", "log_message"} => Len(calls) = 1 /\ pc = "running"
  BY <1>1 DEF FrameOK
<1> QED BY <1>1, <1>2, <1>3 DEF FirstCall

LEMMA ReceiveEvents ==
  ASSUME LoggerBookkeeping, NEW l \in Receivers, Called(l), Receive(l), Continues
  PROVE  MainCall' /\ EventsOK' /\ RegistrationType' /\ RegistrationOK' /\ XmlEnclosesListeners'
<1>1. /\ FirstCall(l) /\ Calling(l) /\ ReachedOK(l)
      /\ MainCall /\ EventsOK /\ RegistrationOK /\ RegistrationType /\ XmlEnclosesListeners
      /\ open \in [Receivers -> Seq(Items)]
  BY CallingParts, FirstCallParts DEF LoggerBookkeeping, TypeOK
<1>2. /\ UNCHANGED <<contextChanging, regular, imported, consoleDisabled, pc, at, escaped>>
      /\ Registered' = Registered /\ Followers' = Followers
  BY DEF Continues, registration, Registered, AllLoggers, Expand, Followers
<1>3. RegisteredOK
  BY <1>1, RegisteredType
<1>4. RegistrationType' /\ RegistrationOK'
  BY <1>1, <1>2 DEF RegistrationType, RegistrationOK
<1>5. MainCall'
  BY <1>1, <1>2 DEF MainCall, FirstCall
<1>6. Top.method \notin {"start", "end"} => open' = open
  BY ReceiveEffects DEF Told
<1>7. \A x : IsTold(x)' <=> IsTold(x) /\ ~(x = l /\ Top.method \in {"start", "end"})
  <2>1. CASE Len(calls) = 1
    BY <1>1, <2>1 DEF IsTold, FirstCall
  <2>2. CASE Len(calls) # 1
    BY <1>1, <2>2 DEF IsTold, FirstCall
  <2> QED BY <2>1, <2>2
<1>8. ASSUME pc = "running", NEW x \in Receivers
      PROVE  open'[x] = IF x \notin Registered \cap Followers THEN <<>>
                        ELSE IF IsTold(x)' THEN OpenedBy(at - 1) ELSE OpenedBy(at)
  <2>1. open[x] = IF x \notin Registered \cap Followers THEN <<>>
                  ELSE IF IsTold(x) THEN OpenedBy(at - 1) ELSE OpenedBy(at)
    BY <1>1, <1>8 DEF EventsOK
  <2>2. CASE Top.method \notin {"start", "end"}
    BY <1>6, <1>7, <2>1, <2>2
  <2>3. CASE Top.method \in {"start", "end"} /\ x # l
    <3>1. open'[x] = open[x]
      <4>1. open' = open \/ \E y : open' = [open EXCEPT ![l] = y]
        BY ReceiveEffects DEF Told
      <4> QED BY <1>1, <2>3, <4>1
    <3> QED BY <1>7, <2>1, <2>3, <3>1
  <2>4. CASE Top.method \in {"start", "end"} /\ x = l
    <3>1. Len(calls) = 1 /\ Top = calls[1] /\ calls # <<>> /\ IsTold(l) /\ ~IsTold(l)'
      BY <1>1, <1>7, <2>4 DEF FirstCall, IsTold, Calling
    <3>2. l \in Registered /\ (l = "file" \/ l \in Followers) /\ (l = "file" => l \notin Followers)
      <4>1. "auto" \notin Range(regular)
        BY <1>1, <1>8 DEF RegistrationOK, BeforeConsole
      <4>2. Range(regular) \subseteq RegularLoggers /\ Range(contextChanging) \subseteq {"xml"} /\ Range(imported) \subseteq Range(Listeners)
        BY <1>1 DEF RegistrationType, Range
      <4>3. l \in Registered /\ Registered = RegisteredNow
        BY <1>1, <1>3 DEF Calling, RegisteredOK
      <4>4. "file" \notin Range(Listeners)
        BY ListenersAssumption DEF Others
      <4> QED BY <4>1, <4>2, <4>3, <4>4 DEF RegisteredNow, RegularLoggers, Followers
    <3>3. CASE l = "file"
      BY <2>1, <2>4, <3>2, <3>3, ReceiveEffects
    <3>4. CASE l # "file"
      <4>1. Told(l) /\ open[l] = OpenedBy(at - 1)
        BY <2>1, <2>4, <3>1, <3>2, <3>4, ReceiveEffects
      <4>2. at \in 1 .. 10
        BY <1>1, <1>8, <3>1 DEF MainCall
      <4>3. CASE Top.method = "start"
        <5>1. at \in 1 .. 4 /\ calls[1].item = Events[at][2]
          <6>1. at \notin {5, 6, 7, 8, 9, 10}
            BY <1>1, <1>8, <3>1, <4>3 DEF MainCall
          <6>2. at \in 1 .. 4
            BY <4>2, <6>1
          <6> QED BY <1>1, <1>8, <3>1, <6>2 DEF MainCall
        <5>2. OneMore(OpenedBy(at - 1), OpenedBy(at), Top.item)
          BY <3>1, <5>1, Started
        <5>3. Append(OpenedBy(at - 1), Top.item) = OpenedBy(at)
          BY <5>2, OneMoreParts
        <5>4. open'[l] = Append(open[l], Top.item)
          BY <1>1, <4>1, <4>3 DEF Told
        <5> QED BY <2>4, <3>1, <3>2, <3>4, <4>1, <5>3, <5>4
      <4>4. CASE Top.method = "end"
        <5>1. at \in {6, 7, 8, 10}
          <6>1. at \notin {1, 2, 3, 4, 5, 9}
            BY <1>1, <1>8, <3>1, <4>4 DEF MainCall
          <6> QED BY <4>2, <6>1
        <5>2. PICK item : OneMore(OpenedBy(at), OpenedBy(at - 1), item)
          BY <5>1, AfterEnd
        <5>3. Front(OpenedBy(at - 1)) = OpenedBy(at)
          BY <5>2, OneMoreParts
        <5>4. open'[l] = Front(open[l])
          BY <1>1, <4>1, <4>4 DEF Told
        <5> QED BY <2>4, <3>1, <3>2, <3>4, <4>1, <5>3, <5>4
      <4> QED BY <2>4, <4>3, <4>4
    <3> QED BY <3>3, <3>4
  <2> QED BY <2>2, <2>3, <2>4
<1>9. pc \in Early => \A x \in Receivers : open'[x] = <<>>
  <2> SUFFICES ASSUME pc \in Early PROVE \A x \in Receivers : open'[x] = <<>>
    OBVIOUS
  <2>1. pc # "running"
    BY DEF Early, BeforeListeners, BeforeConsole
  <2> QED BY <1>1, <1>6, <2>1 DEF EventsOK, FirstCall
<1>10. ASSUME pc = "running", calls'[1].method = "start", "xml" \in Range(calls'[1].todo)
       PROVE  /\ Head(calls'[1].todo) = "xml"
              /\ \A x \in Registered : x \in Range(calls'[1].todo)
  <2>1. Len(calls) # 1
    <3> SUFFICES ASSUME Len(calls) = 1 PROVE FALSE
      OBVIOUS
    <3>1. "xml" \in Range(calls[1].todo) /\ "xml" # l /\ calls[1].method = "start" /\ Top = calls[1]
      BY <1>1, <1>10 DEF FirstCall
    <3>2. Head(calls[1].todo) = "xml"
      BY <1>1, <1>10, <3>1 DEF EventsOK, FirstCall
    <3> QED BY <1>1, <3>1, <3>2 DEF Calling
  <2> QED BY <1>1, <1>10, <2>1 DEF EventsOK, FirstCall
<1>11. ASSUME pc = "running", calls'[1].method = "end", calls'[1].todo # <<>>
       PROVE  Last(calls'[1].todo) = "xml"
  <2>1. CASE Len(calls) # 1
    BY <1>1, <1>11, <2>1 DEF EventsOK, FirstCall
  <2>2. CASE Len(calls) = 1
    <3> DEFINE s == calls[1].todo
    <3>1. /\ s \in Seq(Receivers) /\ s # <<>> /\ Tail(s) # <<>> /\ calls'[1].todo = Tail(s)
          /\ calls # <<>> /\ calls[1].method = "end"
      BY <1>1, <1>11, <2>2 DEF FirstCall, Calling, CanCall, FrameType
    <3>2. Last(s) = "xml"
      BY <1>1, <1>11, <3>1 DEF EventsOK
    <3> HIDE DEF s
    <3>3. Last(Tail(s)) = Last(s)
      BY <3>1 DEF Last
    <3> QED BY <3>1, <3>2, <3>3
  <2> QED BY <2>1, <2>2
<1>12. EventsOK'
  <2>1. pc = "running" => at \in 0 .. 10
    BY <1>1 DEF EventsOK
  <2> QED BY <1>2, <1>8, <1>9, <1>10, <1>11, <2>1 DEF EventsOK
<1>13. XmlEnclosesListeners'
  <2>1. CASE pc = "running"
    <3>1. EventsType'
      <4>1. RegisteredOK'
        BY <1>4, RegisteredAfter
      <4> QED BY <1>2, <1>4, <1>5, <1>12, <2>1, <4>1 DEF EventsType, Continues
    <3> QED BY <3>1, EventsEncloseAfter
  <2>2. CASE pc # "running"
    <3>1. open' = open
      BY <1>1, <1>6, <2>2 DEF FirstCall
    <3> QED BY <1>1, <1>2, <3>1 DEF XmlEnclosesListeners
  <2> QED BY <2>1, <2>2
<1> QED BY <1>4, <1>5, <1>12, <1>13

\* The debug file is closed with the last event.
LEMMA DebugFileLast ==
  ASSUME LoggerBookkeeping, NEW l \in Receivers, Called(l), DebugFileEnds(l)
  PROVE  l = "debug" /\ Len(calls) = 1 /\ pc = "running" /\ at = 10 /\ Top = calls[1] /\ Top.method = "end"
<1>1. Calling(l) /\ MainCall /\ EventsOK /\ l = "debug" /\ Top.method = "end" /\ Len(open[l]) = 1
  BY CallingParts DEF LoggerBookkeeping, DebugFileEnds
<1>2. Len(calls) = 1 /\ pc = "running" /\ Top = calls[1] /\ calls # <<>> /\ l \in Registered /\ l \in Range(calls[1].todo)
  BY <1>1 DEF Calling, FrameOK
<1>3. at \in 1 .. 10 /\ at \notin {1, 2, 3, 4, 5, 9}
  BY <1>1, <1>2 DEF MainCall
<1>4. at \in {6, 7, 8, 10}
  BY <1>3
<1>5. open[l] = OpenedBy(at - 1)
  BY <1>1, <1>2 DEF EventsOK, IsTold, Followers
<1> QED BY <1>1, <1>2, <1>4, <1>5, AfterEnd

LEMMA ReceiveFiles ==
  ASSUME LoggerBookkeeping, NEW l \in Receivers, Called(l), Receive(l), Continues,
         \A k \in DOMAIN calls' : k \notin DOMAIN calls =>
            calls'[k].method \in {"message", "output_file"} \/ (calls'[k].method = "close" /\ DebugFileEnds(l))
  PROVE  FilesOK' /\ active' \subseteq Receivers
<1>1. /\ Calling(l) /\ ReachedOK(l) /\ FilesOK /\ FramesOK /\ MainCall /\ active \subseteq Receivers /\ FirstCall(l)
      /\ active' \subseteq active /\ active \ active' \subseteq {l} /\ (Top.method # "close" => active' = active)
  BY CallingParts, ReceiveEffects, FirstCallParts DEF LoggerBookkeeping, TypeOK
<1>2. UNCHANGED <<regular, pc, at, escaped>>
  BY DEF Continues, registration
<1>3. FrameOK(Len(calls)) /\ Len(calls) \in DOMAIN calls /\ Top = calls[Len(calls)] /\ l \in Range(Top.todo)
      /\ 1 \in DOMAIN calls
  BY <1>1 DEF Calling
<1>4. \A k \in DOMAIN calls : calls'[k].method = calls[k].method /\ Range(calls'[k].todo) \subseteq Range(calls[k].todo)
  BY ZenonT(60), <1>1 DEF Continues, ReachedOK
<1>5. "file" \in Range(regular) /\ "file" \notin active' => pc = "closing" \/ escaped \in Uncaught
  <2> SUFFICES ASSUME "file" \in Range(regular), "file" \notin active', "file" \in active PROVE pc = "closing"
    BY <1>1 DEF FilesOK
  <2>1. l = "file" /\ Top.method = "close"
    BY <1>1
  <2> QED BY <1>3, <2>1 DEF FrameOK
<1>6. ASSUME "debug" \in Range(regular), "debug" \notin active', pc = "running", "debug" \in active
      PROVE  at = 10 /\ "debug" \notin Range(calls[1].todo)
  <2>1. l = "debug" /\ Top.method = "close"
    BY <1>1, <1>6
  <2>2. Len(calls) # 1
    <3>1. Len(calls) = 1 => calls[1].method = "close" /\ calls # <<>>
      BY <1>1, <1>3, <2>1 DEF FirstCall
    <3>2. calls # <<>> => calls[1].method # "close"
      <4>1. calls # <<>> => at \in 1 .. 10
        BY <1>1, <1>6 DEF MainCall
      <4>2. calls # <<>> => at \in 1 .. 4 \/ at = 5 \/ at \in {6, 7, 8, 10} \/ at = 9
        BY <4>1
      <4> QED BY <1>1, <1>6, <4>2 DEF MainCall
    <3> QED BY <3>1, <3>2
  <2>3. Len(calls) > 1 /\ calls[Len(calls)].method = "close"
    <3>1. Len(calls) \in Nat \ {0}
      BY <1>1 DEF Calling
    <3>2. \A n \in Nat \ {0} : n # 1 => n > 1
      OBVIOUS
    <3> QED BY <1>3, <2>1, <2>2, <3>1, <3>2
  <2> QED BY <1>1, <1>3, <2>3 DEF FilesOK
<1>7. ASSUME "debug" \in Range(regular), "debug" \notin active'
      PROVE  /\ pc = "running" => at = 10
             /\ \A k \in DOMAIN calls' :
                  calls'[k].method \in {"start", "end", "log_message"} => "debug" \notin Range(calls'[k].todo)
  <2>1. CASE "debug" \in active
    <3>1. pc = "running" => at = 10 /\ "debug" \notin Range(calls[1].todo)
      BY <1>6, <1>7, <2>1
    <3>2. ASSUME NEW k \in DOMAIN calls', calls'[k].method \in {"start", "end", "log_message"}
          PROVE  "debug" \notin Range(calls'[k].todo)
      <4>1. k \in DOMAIN calls /\ calls[k].method \in {"start", "end", "log_message"}
        BY <1>4, <3>2
      <4>2. k = 1 /\ pc = "running"
        BY <1>1, <4>1 DEF FramesOK, FrameOK
      <4> QED BY <1>4, <3>1, <4>1, <4>2
    <3> QED BY <3>1, <3>2
  <2>2. CASE "debug" \notin active
    <3>1. ASSUME NEW k \in DOMAIN calls', calls'[k].method \in {"start", "end", "log_message"}
          PROVE  "debug" \notin Range(calls'[k].todo)
      <4>1. k \in DOMAIN calls /\ calls[k].method \in {"start", "end", "log_message"}
        BY <1>4, <3>1
      <4> QED BY <1>1, <1>4, <1>7, <2>2, <4>1 DEF FilesOK
    <3> QED BY <1>1, <1>7, <2>2, <3>1 DEF FilesOK
  <2> QED BY <2>1, <2>2
<1>8. ASSUME NEW k \in DOMAIN calls', calls'[k].method = "close", k > 1
      PROVE  pc = "running" /\ at = 10 /\ "debug" \notin Range(calls'[1].todo)
  <2>1. CASE k \in DOMAIN calls
    BY <1>1, <1>3, <1>4, <1>8, <2>1 DEF FilesOK
  <2>2. CASE k \notin DOMAIN calls
    <3>1. DebugFileEnds(l)
      BY <1>8, <2>2
    <3> QED BY <1>1, <3>1, DebugFileLast DEF FirstCall
  <2> QED BY <2>1, <2>2
<1>9. "debug" \in Range(regular) => pc \notin Early
  BY <1>1 DEF FilesOK
<1> QED BY <1>1, <1>2, <1>5, <1>7, <1>8, <1>9 DEF FilesOK

-----------------------------------------------------------------------------
(* A call that reaches a logger, which may fail *)

\* Frames that go on stay as they have to be.
LEMMA FramesContinue ==
  ASSUME LoggerBookkeeping, NEW l, Calling(l), ReachedOK(l), Continues,
         cache' = cache, DOMAIN sent \subseteq DOMAIN sent'
  PROVE  \A k \in DOMAIN calls : FrameOK(k)' /\ Distinct(calls'[k].todo)
<1> SUFFICES ASSUME NEW k \in DOMAIN calls PROVE FrameOK(k)' /\ Distinct(calls'[k].todo)
  OBVIOUS
<1>1. /\ FrameOK(k) /\ UNCHANGED <<pc, imported>> /\ Registered' = Registered
      /\ Range(AllLoggers)' = Range(AllLoggers)
  BY DEF LoggerBookkeeping, FramesOK, Continues, registration, Registered, AllLoggers, Expand
<1>2. calls'[k] = Reached[k]
  BY DEF Continues
<1>3. /\ calls'[k].method = calls[k].method /\ calls'[k].item = calls[k].item
      /\ calls'[k].message = calls[k].message /\ calls'[k].next = calls[k].next
      /\ calls'[k].to = calls[k].to /\ calls'[k].number = calls[k].number
      /\ Distinct(calls'[k].todo) /\ Range(calls'[k].todo) \subseteq Range(calls[k].todo)
  BY ZenonT(60), <1>2 DEF ReachedOK
<1> QED BY <1>1, <1>3 DEF FrameOK

LEMMA ReceiveTypes ==
  ASSUME LoggerBookkeeping, NEW l \in Receivers, Called(l), Receive(l)
  PROVE  open' \in [Receivers -> Seq(Items)]
<1>1. open \in [Receivers -> Seq(Items)] /\ Top \in FrameType /\ Top.item \in Items
  BY CallingParts DEF LoggerBookkeeping, TypeOK, Calling, FrameType
<1>2. ASSUME NEW s \in Seq(Items) PROVE Front(s) \in Seq(Items)
  <2>1. CASE s = <<>>
    BY <2>1 DEF Front
  <2>2. CASE s # <<>>
    BY <2>2, StackParts
  <2> QED BY <2>1, <2>2
<1>3. Append(open[l], Top.item) \in Seq(Items) /\ Front(open[l]) \in Seq(Items)
  <2>1. open[l] \in Seq(Items)
    BY <1>1
  <2> QED BY <1>1, <1>2, <2>1
<1>4. \/ open' = open \/ open' = [open EXCEPT ![l] = Append(@, Top.item)] \/ open' = [open EXCEPT ![l] = Front(@)]
  BY ReceiveEffects DEF Told
<1> QED BY <1>1, <1>3, <1>4

LEMMA FewerOf ==
  ASSUME NEW S, IsFiniteSet(S), NEW T, NEW n \in Nat, Cardinality(S) <= n
  PROVE  Cardinality(S \cap T) <= n
<1>1. S \cap T \in SUBSET S
  OBVIOUS
<1>2. IsFiniteSet(S \cap T) /\ Cardinality(S \cap T) <= Cardinality(S)
  BY <1>1, FS_Subset
<1>3. Cardinality(S) \in Nat /\ Cardinality(S \cap T) \in Nat
  BY <1>2, FS_CardinalityType
<1> QED BY <1>2, <1>3

\* The books of a step that has done what has to be done for messages.
LEMMA ReceiveBooks ==
  ASSUME LoggerBookkeeping, NEW l \in Receivers, Called(l), Receive(l), Continues,
         \A k \in DOMAIN calls' : k \notin DOMAIN calls =>
            calls'[k].method \in {"message", "output_file"} \/ (calls'[k].method = "close" /\ DebugFileEnds(l)),
         MessagesOK', FailuresOK', cache' \in Seq(Nat), causes' \in Nat, failures' \in Seq(Failures)
  PROVE  LoggerBookkeeping'
<1>1. /\ MainCall' /\ EventsOK' /\ RegistrationType' /\ RegistrationOK' /\ XmlEnclosesListeners'
      /\ FilesOK' /\ active' \subseteq Receivers /\ open' \in [Receivers -> Seq(Items)] /\ got' \in [Receivers -> Seq(Nat)]
  BY ReceiveEvents, ReceiveFiles, ReceiveTypes, ReceiveGot
<1>2. TypeOK /\ DistinctOK /\ UNCHANGED <<pc, at, escaped, imported>>
  BY DEF LoggerBookkeeping, Continues, registration
<1>3. TypeOK'
  BY <1>1, <1>2 DEF TypeOK, MessagesOK, Levels
<1>4. DistinctOK'
  BY <1>2 DEF DistinctOK, MessagesOK
<1> QED BY <1>1, <1>3, <1>4 DEF LoggerBookkeeping, MessagesOK

LEMMA ReceiveErrors ==
  ASSUME LoggerBookkeeping, NEW l \in Receivers, Called(l), Receive(l), UNCHANGED <<sent, failures, causes>>
  PROVE  ErrorsOK'
<1>1. /\ IsFiniteSet(Errors) /\ Cardinality(Errors) <= Len(failures) + causes /\ Errors' = Errors
      /\ Len(failures') + causes' = Len(failures) + causes /\ Len(failures) + causes \in Nat
  BY ReceiveMessages DEF LoggerBookkeeping, TypeOK, Errors
<1>2. \A T : Cardinality(Errors \cap T) <= Len(failures) + causes
  BY <1>1, FewerOf
<1> QED BY <1>1, <1>2 DEF ErrorsOK

\* The next logger is called.
LEMMA DeliverStep ==
  ASSUME LoggerBookkeeping, NEW l \in Receivers, Deliver(l), ~DebugFileEnds(l)
  PROVE  LoggerBookkeeping'
<1>1. /\ Called(l) /\ Receive(l) /\ calls' = Reached
      /\ UNCHANGED <<registration, cache, pc, at, sent, failures, causes, escaped>>
  BY DEF Deliver
<1>2. Calling(l) /\ ReachedOK(l)
  BY <1>1, CallingParts
<1>3. Continues
  BY <1>1, <1>2 DEF Calling, ReachedOK, Continues
<1>4. /\ UNCHANGED <<contextChanging, regular, imported>> /\ Registered' = Registered
      /\ TypeOK /\ FailuresOK
  BY <1>1 DEF LoggerBookkeeping, registration, Registered, AllLoggers, Expand
<1>5. DOMAIN calls' = DOMAIN calls /\ Len(calls') = Len(calls) /\ calls' \in Seq(FrameType)
  BY <1>1, <1>2 DEF Calling, ReachedOK
<1>6. FramesOK' /\ \A k \in DOMAIN calls' : Distinct(calls'[k].todo)
  <2>1. \A k \in DOMAIN calls : FrameOK(k)' /\ Distinct(calls'[k].todo)
    BY <1>1, <1>2, <1>3, FramesContinue
  <2> QED BY <1>5, <2>1 DEF FramesOK, FrameOK
<1>7. CacheOK' /\ ReachOK' /\ OrderOK'
  BY <1>1, <1>4, ReceiveMessages DEF CacheOK, ReachOK, OrderOK, FailedIn
<1>8. GotOK'
  BY <1>1, <1>4, ReceiveMessages, ReceiveGot DEF GotOK
<1>9. ErrorsOK'
  BY <1>1, ReceiveErrors
<1>10. MessagesOK'
  <2>1. sent' \in Seq(Levels)
    BY <1>1, <1>4 DEF TypeOK, Levels
  <2> QED BY <1>5, <1>6, <1>7, <1>8, <1>9, <2>1 DEF MessagesOK
<1>11. FailuresOK'
  <2>1. \A k \in DOMAIN calls' : calls'[k].method = calls[k].method
    BY <1>1, <1>2, <1>5 DEF ReachedOK
  <2>2. (FileLost => FileLost') /\ (FileLost' => FileLost \/ escaped \notin Uncaught)
    BY <1>1, ReceiveLoses DEF registration
  <2>3. (\A m : FailedIn(m)' <=> FailedIn(m)) /\ (Exited' <=> Exited)
    BY <1>1 DEF FailedIn, Exited
  <2> QED BY <1>1, <1>4, <1>5, <2>1, <2>2, <2>3 DEF FailuresOK
<1> QED BY <1>1, <1>3, <1>4, <1>5, <1>10, <1>11, ReceiveBooks DEF TypeOK

\* More calls on the stack do not keep messages from anyone.
LEMMA ReachMore ==
  ASSUME NEW cs, cs # <<>>, NEW new, new # <<>>, \A k \in DOMAIN cs : k \in DOMAIN new /\ new[k] = cs[k],
         1 \in DOMAIN cs,
         NEW g, NEW ch, NEW ss, NEW imp, NEW reg, Reach(cs, g, ch, ss, imp, reg)
  PROVE  Reach(new, g, ch, ss, imp, reg)
<1>1. \A x, m : OnItsWay(cs, ch, imp, x, m) => OnItsWay(new, ch, imp, x, m)
  BY DEF OnItsWay
<1> QED BY <1>1 DEF Reach

LEMMA ConcatParts ==
  ASSUME NEW S, NEW s \in Seq(S), NEW t \in Seq(S)
  PROVE  /\ s \o t \in Seq(S) /\ Len(s \o t) = Len(s) + Len(t)
         /\ \A i \in 1 .. Len(s) + Len(t) : (s \o t)[i] = IF i <= Len(s) THEN s[i] ELSE t[i - Len(s)]
OBVIOUS

\* Two more calls.
TwoMore(S, new, cs, a, b) ==
  /\ new \in Seq(S) /\ Len(new) = Len(cs) + 2 /\ DOMAIN new = 1 .. Len(cs) + 2
  /\ \A k \in DOMAIN cs : k \in DOMAIN new /\ new[k] = cs[k]
  /\ new[Len(cs) + 1] = a /\ new[Len(cs) + 2] = b /\ Last(new) = b /\ new # <<>>
LEMMA StackTwo ==
  ASSUME NEW S, NEW cs \in Seq(S), NEW a \in S, NEW b \in S
  PROVE  TwoMore(S, cs \o <<a, b>>, cs, a, b)
<1> DEFINE t == <<a, b>>
           new == cs \o t
<1>1. t \in Seq(S) /\ Len(t) = 2 /\ t[1] = a /\ t[2] = b
  OBVIOUS
<1> HIDE DEF t
<1>2. /\ new \in Seq(S) /\ Len(new) = Len(cs) + 2 /\ Len(cs) \in Nat
      /\ \A k \in 1 .. Len(cs) : new[k] = cs[k]
      /\ new[Len(cs) + 1] = t[1] /\ new[Len(cs) + 2] = t[2]
  <2>1. /\ new \in Seq(S) /\ Len(new) = Len(cs) + Len(t) /\ Len(cs) \in Nat
        /\ \A i \in 1 .. Len(cs) + Len(t) : new[i] = IF i <= Len(cs) THEN cs[i] ELSE t[i - Len(cs)]
    <3>1. t \in Seq(S) /\ Len(cs) \in Nat
      BY <1>1
    <3>2. \A u \in Seq(S) : /\ cs \o u \in Seq(S) /\ Len(cs \o u) = Len(cs) + Len(u)
                           /\ \A i \in 1 .. Len(cs) + Len(u) : (cs \o u)[i] = IF i <= Len(cs) THEN cs[i] ELSE u[i - Len(cs)]
      BY ConcatParts
    <3> QED BY <3>1, <3>2
  <2> HIDE DEF new
  <2>2. \A n \in Nat : /\ n + 1 \in 1 .. n + 2 /\ n + 2 \in 1 .. n + 2 /\ ~(n + 1 <= n) /\ ~(n + 2 <= n)
                      /\ (n + 1) - n = 1 /\ (n + 2) - n = 2
                      /\ \A k \in 1 .. n : k \in 1 .. n + 2 /\ k <= n
    OBVIOUS
  <2> QED BY <1>1, <2>1, <2>2
<1>3. DOMAIN cs = 1 .. Len(cs) /\ DOMAIN new = 1 .. Len(new)
  BY <1>2
<1> HIDE DEF new
<1>4. \A k \in DOMAIN cs : k \in DOMAIN new
  BY <1>2, <1>3
<1>5. Last(new) = new[Len(cs) + 2] /\ new # <<>>
  BY <1>2 DEF Last
<1>6. TwoMore(S, new, cs, a, b)
  BY <1>1, <1>2, <1>3, <1>4, <1>5 DEF TwoMore
<1> QED BY <1>6 DEF new, t

\* The debug file is closed.
LEMMA DeliverLast ==
  ASSUME LoggerBookkeeping, NEW l \in Receivers, Deliver(l), DebugFileEnds(l)
  PROVE  LoggerBookkeeping'
<1> DEFINE a == Frame("close", "debug", <<"debug">>)
           b == Call("output_file", "Debug")
<1>1. /\ Called(l) /\ Receive(l) /\ calls' = Reached \o <<a, b>>
      /\ UNCHANGED <<registration, cache, pc, at, sent, failures, causes, escaped>>
  BY DEF Deliver
<1>2. Calling(l) /\ ReachedOK(l)
  BY <1>1, CallingParts
<1>3. l = "debug" /\ Len(calls) = 1 /\ pc = "running" /\ at = 10 /\ Top = calls[1] /\ Top.method = "end"
  BY <1>1, DebugFileLast
<1>4. /\ UNCHANGED <<contextChanging, regular, imported>> /\ Registered' = Registered
      /\ TypeOK /\ FailuresOK /\ l \in Registered
  BY <1>1, <1>2 DEF LoggerBookkeeping, registration, Registered, AllLoggers, Expand, Calling
<1>5. a \in FrameType /\ a.method = "close" /\ a.next = "" /\ Range(a.todo) = {"debug"} /\ Distinct(a.todo)
  <2>1. "close" \in Methods /\ "debug" \in Items /\ <<"debug">> \in Seq(Receivers)
    BY <1>3 DEF Methods, Items
  <2>2. IsCall(a, "close", "debug", <<"debug">>)
    BY <2>1, FrameParts
  <2> QED BY <2>2, OneRange DEF IsCall
<1>6. b \in FrameType /\ b.method = "output_file" /\ b.next = "" /\ Range(b.todo) = Registered /\ Distinct(b.todo)
  <2>1. "output_file" \in Methods /\ "Debug" \in Items /\ RegistrationType
    BY <1>4 DEF Methods, Items, TypeOK
  <2>2. IsAnnounced(b, "output_file", "Debug")
    BY <1>4, <2>1, CallParts
  <2> QED BY <2>2 DEF IsAnnounced
<1> HIDE DEF a, b
<1>7. /\ calls' \in Seq(FrameType) /\ Len(calls') = 3 /\ DOMAIN calls' = {1, 2, 3}
      /\ calls'[1] = Reached[1] /\ calls'[2] = a /\ calls'[3] = b /\ Last(calls') = b /\ calls' # <<>>
  <2>1. Reached \in Seq(FrameType) /\ Len(Reached) = 1 /\ DOMAIN Reached = {1}
    BY <1>2, <1>3 DEF ReachedOK
  <2>3. TwoMore(FrameType, Reached \o <<a, b>>, Reached, a, b)
    BY <1>5, <1>6, <2>1, StackTwo
  <2> DEFINE new == calls'
  <2>2. /\ new \in Seq(FrameType) /\ Len(new) = Len(Reached) + 2 /\ DOMAIN new = 1 .. Len(Reached) + 2
        /\ \A k \in DOMAIN Reached : k \in DOMAIN new /\ new[k] = Reached[k]
        /\ new[Len(Reached) + 1] = a /\ new[Len(Reached) + 2] = b /\ Last(new) = b /\ new # <<>>
    BY <1>1, <2>3 DEF TwoMore
  <2> QED BY <2>1, <2>2
<1>8. DOMAIN calls = {1}
  BY <1>2, <1>3 DEF Calling
<1>9. Continues
  BY <1>1, <1>3, <1>7, <1>8 DEF Continues
<1>10. FramesOK' /\ \A k \in DOMAIN calls' : Distinct(calls'[k].todo)
  <2>1. \A k \in DOMAIN calls : FrameOK(k)' /\ Distinct(calls'[k].todo)
    BY <1>1, <1>2, <1>9, FramesContinue
  <2>2. FrameOK(1)' /\ Distinct(calls'[1].todo)
    BY <1>8, <2>1
  <2>3. FrameOK(2)'
    BY <1>3, <1>4, <1>5, <1>7 DEF FrameOK
  <2>4. FrameOK(3)'
    BY <1>4, <1>6, <1>7 DEF FrameOK
  <2>5. \A k \in DOMAIN calls' : Distinct(calls'[k].todo)
    BY <1>5, <1>6, <1>7, <2>2
  <2>6. FramesOK'
    BY ZenonT(60), <1>7, <2>2, <2>3, <2>4 DEF FramesOK, FrameOK
  <2> QED BY <2>5, <2>6
<1>11. pc \notin Early
  BY <1>3 DEF Early, BeforeListeners, BeforeConsole
<1>12. CacheOK'
  BY <1>1, <1>11 DEF CacheOK
<1>13. ReachOK'
  <2> SUFFICES ASSUME escaped = "no" PROVE Reach(calls', got', cache, sent, imported, Registered)
    BY <1>1, <1>4 DEF ReachOK
  <2>1. Reach(Reached, got', cache, sent, imported, Registered)
    BY <1>1, ReceiveMessages
  <2>2. Reached # <<>> /\ DOMAIN Reached = {1}
    BY <1>2, <1>3 DEF ReachedOK
  <2> QED BY <1>7, <2>1, <2>2, ReachMore
<1>14. OrderOK'
  <2> SUFFICES ASSUME ~FailedIn("message") PROVE InOrder(calls', got', cache, sent, imported, FALSE)
    <3>1. (pc \in Early) = FALSE
      BY <1>11
    <3> QED BY <1>1, <1>4, <3>1 DEF OrderOK, FailedIn
  <2>1. InOrder(Reached, got', cache, sent, imported, pc \in Early)
    BY <1>1, ReceiveMessages
  <2> QED BY <1>6, <1>7, <2>1 DEF InOrder
<1>15. GotOK'
  BY <1>1, <1>4, <1>11, ReceiveGot DEF GotOK
<1>16. ErrorsOK'
  BY <1>1, ReceiveErrors
<1>17. MessagesOK'
  <2>1. sent' \in Seq(Levels)
    BY <1>1, <1>4 DEF TypeOK, Levels
  <2> QED BY <1>7, <1>10, <1>12, <1>13, <1>14, <1>15, <1>16, <2>1 DEF MessagesOK
<1>18. FailuresOK'
  <2>1. \A k \in DOMAIN calls' : calls'[k].method # "message"
    <3>1. Reached[1].method = "end"
      BY <1>2, <1>3, <1>8 DEF ReachedOK
    <3> QED BY <1>5, <1>6, <1>7, <3>1
  <2>2. escaped \notin Uncaught /\ escaped \notin {"run", "exit", "output"}
    BY <1>3, <1>4 DEF FailuresOK, Uncaught
  <2>3. pc' # "closing"
    BY <1>1, <1>3
  <2>4. (\A m : FailedIn(m)' <=> FailedIn(m)) /\ (Exited' <=> Exited)
    BY <1>1 DEF FailedIn, Exited
  <2> QED BY <1>1, <1>4, <2>1, <2>2, <2>3, <2>4 DEF FailuresOK
<1>19. \A k \in DOMAIN calls' : k \notin DOMAIN calls =>
            calls'[k].method \in {"message", "output_file"} \/ (calls'[k].method = "close" /\ DebugFileEnds(l))
  BY <1>5, <1>6, <1>7, <1>8
<1> QED BY <1>1, <1>4, <1>9, <1>17, <1>18, <1>19, ReceiveBooks DEF TypeOK

\* One more failure.
LEMMA FailedMore ==
  ASSUME failures \in Seq(Failures), NEW l \in Receivers, NEW method \in Methods \cup {"import"},
         NEW kind \in {"error", "exit"}, failures' = Append(failures, <<l, method, kind>>)
  PROVE  /\ failures' \in Seq(Failures) /\ Len(failures') = Len(failures) + 1
         /\ \A m : FailedIn(m) => FailedIn(m)'
         /\ FailedIn(method)'
         /\ Exited' <=> Exited \/ kind = "exit"
<1> DEFINE x == <<l, method, kind>>
<1>1. x \in Failures /\ x[2] = method /\ x[3] = kind /\ failures' = Append(failures, x)
  BY DEF Failures
<1> HIDE DEF x
<1>2. /\ failures' \in Seq(Failures) /\ Len(failures') = Len(failures) + 1 /\ Len(failures) \in Nat
      /\ \A i \in 1 .. Len(failures) : failures'[i] = failures[i]
      /\ failures'[Len(failures) + 1] = x
  BY <1>1
<1>3. DOMAIN failures = 1 .. Len(failures) /\ DOMAIN failures' = 1 .. Len(failures')
  BY <1>2
<1>4. \A i \in DOMAIN failures : i \in DOMAIN failures' /\ failures'[i] = failures[i]
  <2>1. \A n \in Nat : \A i \in 1 .. n : i \in 1 .. n + 1
    OBVIOUS
  <2> QED BY <1>2, <1>3, <2>1
<1>5. Len(failures) + 1 \in DOMAIN failures'
  BY <1>2, <1>3
<1>6. \A m : FailedIn(m) => FailedIn(m)'
  BY <1>4 DEF FailedIn
<1>7. FailedIn(method)'
  BY <1>1, <1>2, <1>5 DEF FailedIn
<1>8. Exited' <=> Exited \/ kind = "exit"
  <2>1. \A i \in DOMAIN failures' : i \in DOMAIN failures \/ i = Len(failures) + 1
    BY <1>2, <1>3
  <2> QED BY <1>1, <1>2, <1>4, <1>5, <2>1 DEF Exited
<1> QED BY <1>2, <1>6, <1>7, <1>8

\* The failure of a listener is reported.
LEMMA FailStep ==
  ASSUME LoggerBookkeeping, NEW l \in Receivers, Fail(l)
  PROVE  LoggerBookkeeping'
<1> DEFINE f == ErrorThenInfo
<1>1. /\ Called(l) /\ Receive(l) /\ calls' = Append(Reached, f)
      /\ failures' = Append(failures, <<l, Top.method, "error">>) /\ sent' = Append(sent, "ERROR")
      /\ UNCHANGED <<registration, cache, pc, at, causes, escaped>>
  BY DEF Fail
<1>2. Calling(l) /\ ReachedOK(l)
  BY <1>1, CallingParts
<1>3. /\ UNCHANGED <<contextChanging, regular, imported>> /\ Registered' = Registered
      /\ TypeOK /\ FailuresOK /\ GotOK /\ MainCall /\ RegistrationType
      /\ Top \in FrameType /\ Top.method \in Methods
  BY <1>1, <1>2 DEF LoggerBookkeeping, registration, Registered, AllLoggers, Expand, Calling, TypeOK, FrameType
<1>4. /\ f \in FrameType /\ IsNew(f, sent) /\ f.next \in {"", "info"} /\ Distinct(f.todo) /\ Range(f.todo) = Registered
      /\ f.method = "message" /\ f.message = Len(sent) + 1
  BY <1>3, NewMessageParts DEF IsSent, IsNew
<1> HIDE DEF f
<1>5. /\ sent \in Seq(Levels) /\ "ERROR" \in Levels /\ cache \in Seq(Nat)
      /\ failures \in Seq(Failures) /\ causes \in Nat
  BY <1>3 DEF TypeOK, Levels
<1>6. /\ sent' \in Seq(Levels) /\ DOMAIN sent \subseteq DOMAIN sent' /\ Len(sent) + 1 \in DOMAIN sent'
  BY <1>1, <1>5, SentMore
<1>m. PICK method \in Methods : method = Top.method
  BY <1>3
<1>7. /\ failures' \in Seq(Failures) /\ Len(failures') = Len(failures) + 1
      /\ \A m : FailedIn(m) => FailedIn(m)'
      /\ FailedIn(method)' /\ (Exited' <=> Exited)
  BY <1>1, <1>m, <1>5, FailedMore
<1>8. /\ Reached \in Seq(FrameType) /\ Len(Reached) = Len(calls) /\ DOMAIN Reached = 1 .. Len(calls)
      /\ Len(calls) \in Nat \ {0} /\ DOMAIN calls = 1 .. Len(calls)
  BY <1>2 DEF ReachedOK, Calling
<1>9. /\ calls' \in Seq(FrameType) /\ Len(calls') = Len(calls) + 1 /\ calls' # <<>> /\ Last(calls') = f
      /\ DOMAIN calls' = 1 .. Len(calls')
      /\ \A k \in DOMAIN calls : k \in DOMAIN calls' /\ calls'[k] = Reached[k]
      /\ calls'[Len(calls) + 1] = f
      /\ \A k \in DOMAIN calls' : k \notin DOMAIN calls => k = Len(calls) + 1
  <2>1. /\ calls' \in Seq(FrameType) /\ Len(calls') = Len(calls) + 1 /\ calls' # <<>> /\ Last(calls') = f
        /\ \A k \in 1 .. Len(calls) : calls'[k] = Reached[k]
        /\ calls'[Len(calls) + 1] = f
    <3>0. f \in FrameType
      BY <1>4
    <3>1. \A cs \in Seq(FrameType) :
            /\ Append(cs, f) \in Seq(FrameType) /\ Append(cs, f) # <<>> /\ Len(Append(cs, f)) = Len(cs) + 1
            /\ Last(Append(cs, f)) = f
            /\ \A k \in 1 .. Len(cs) : Append(cs, f)[k] = cs[k]
            /\ Append(cs, f)[Len(cs) + 1] = f
      BY <3>0, StackPush
    <3> QED BY <1>1, <1>8, <3>1
  <2>2. DOMAIN calls' = 1 .. Len(calls')
    BY <2>1
  <2>3. \A n \in Nat : /\ \A k \in 1 .. n : k \in 1 .. n + 1
                       /\ \A k \in 1 .. n + 1 : k \notin 1 .. n => k = n + 1
    OBVIOUS
  <2> QED BY <1>8, <2>1, <2>2, <2>3
<1>10. Continues
  <2>1. \A n \in Nat : n <= n + 1
    OBVIOUS
  <2> QED BY <1>1, <1>8, <1>9, <2>1 DEF Continues
<1>11. FramesOK' /\ \A k \in DOMAIN calls' : Distinct(calls'[k].todo)
  <2>1. \A k \in DOMAIN calls : FrameOK(k)' /\ Distinct(calls'[k].todo)
    BY <1>1, <1>2, <1>6, <1>10, FramesContinue
  <2>2. FramesOK'
    BY <1>3, <1>4, <1>6, <1>9, <2>1 DEF FramesOK, FrameOK
  <2> QED BY <1>4, <1>9, <2>1, <2>2
<1>12. CacheOK'
  <2> SUFFICES ASSUME pc \in Early PROVE AllKept(calls', cache, sent')
    BY <1>1 DEF CacheOK
  <2>1. AllKept(Reached, cache, sent)
    BY <1>1, ReceiveMessages
  <2> QED BY <1>1, <1>4, <1>5, <1>8, <2>1, SendKept
<1>13. ReachOK'
  <2> SUFFICES ASSUME escaped = "no" PROVE Reach(calls', got', cache, sent', imported, Registered)
    BY <1>1, <1>3 DEF ReachOK
  <2>1. Reach(Reached, got', cache, sent, imported, Registered)
    BY <1>1, ReceiveMessages
  <2> QED BY <1>1, <1>4, <1>5, <1>8, <2>1, SendReach
<1>14. OrderOK'
  <2> SUFFICES ASSUME ~FailedIn("message") PROVE InOrder(calls', got', cache, sent', imported, pc \in Early)
    BY <1>1, <1>3, <1>7 DEF OrderOK
  <2> DEFINE early == pc \in Early
  <2>1. InOrder(Reached, got', cache, sent, imported, early)
    BY <1>1, ReceiveMessages
  <2>2. early \in BOOLEAN /\ (early => Range(cache) \subseteq DOMAIN sent)
    BY DEF LoggerBookkeeping, CacheOK, AllKept
  <2>3. got' \in [Receivers -> Seq(Nat)] /\ \A x \in Receivers : Range(got'[x]) \subseteq DOMAIN sent
    BY <1>1, ReceiveGot
  <2> HIDE DEF early
  <2>4. InOrder(Append(Reached, f), got', cache, Append(sent, "ERROR"), imported, early)
    BY <1>4, <1>5, <1>8, <2>1, <2>2, <2>3, SendInOrder
  <2> QED BY <1>1, <2>4 DEF early
<1>15. GotOK'
  <2>1. \A x \in Receivers : Range(got'[x]) \subseteq DOMAIN sent
    BY <1>1, ReceiveGot
  <2>2. pc \in Early => \A x \in Receivers : x \notin Registered /\ x # "auto" => got'[x] = <<>>
    BY <1>1, ReceiveMessages
  <2> QED BY <1>1, <1>3, <1>6, <2>1, <2>2 DEF GotOK
<1>16. ErrorsOK'
  <2>1. IsFiniteSet(Errors') /\ Cardinality(Errors') = Cardinality(Errors) + 1 /\ Cardinality(Errors) \in Nat
    BY <1>1, <1>5, ErrorsSent DEF Errors
  <2>2. Cardinality(Errors) <= Len(failures) + causes /\ Len(failures) \in Nat
    BY <1>1, <1>5, ReceiveMessages
  <2>3. Cardinality(Errors') <= Len(failures') + causes /\ Len(failures') + causes \in Nat
    BY <1>5, <1>7, <2>1, <2>2
  <2>4. \A T : Cardinality(Errors' \cap T) <= Len(failures') + causes
    BY <2>1, <2>3, FewerOf
  <2> HIDE DEF Errors
  <2> QED BY <1>1, <2>3, <2>4 DEF ErrorsOK
<1>17. MessagesOK'
  BY <1>6, <1>9, <1>11, <1>12, <1>13, <1>14, <1>15, <1>16 DEF MessagesOK
<1>18. FailuresOK'
  <2>1. Top = calls[Len(calls)] /\ Len(calls) \in DOMAIN calls /\ calls # <<>>
    BY <1>2 DEF Calling
  <2>2. ASSUME NEW k \in DOMAIN calls', calls'[k].method = "message", k # Len(calls') PROVE FailedIn("message")'
    <3>1. k \in DOMAIN calls
      BY <1>9, <2>2
    <3>2. calls[k].method = "message"
      BY ZenonT(60), <1>2, <1>9, <2>2, <3>1 DEF ReachedOK
    <3>3. k = Len(calls) => Top.method = "message"
      BY <2>1, <3>2
    <3>4. k = Len(calls) => method = "message"
      BY <1>m, <3>3
    <3> HIDE DEF FailedIn
    <3>5. k # Len(calls) => FailedIn("message")
      BY <1>3, <3>1, <3>2 DEF FailuresOK
    <3> QED BY <1>7, <3>4, <3>5
  <2>3. ASSUME pc = "closing" PROVE FailedIn("message")' \/ FailedIn("close")'
    <3>1. CASE Len(calls) = 1
      <4>1. Top.method = "close"
        BY <1>3, <2>1, <2>3, <3>1 DEF MainCall
      <4>2. method = "close"
        BY <1>m, <4>1
      <4> HIDE DEF FailedIn
      <4> QED BY <1>7, <4>2
    <3>2. CASE Len(calls) # 1
      <4>1. \A n \in Nat \ {0} : n # 1 => n > 1
        OBVIOUS
      <4>2. Len(calls) > 1
        BY <1>8, <3>2, <4>1
      <4> QED BY <1>3, <1>7, <2>3, <4>2 DEF FailuresOK
    <3> QED BY <3>1, <3>2
  <2>4. (FileLost => FileLost') /\ (FileLost' => FileLost \/ escaped \notin Uncaught)
    BY <1>1, <1>3, ReceiveLoses
  <2> HIDE DEF FailedIn, Exited, FileLost
  <2> QED BY <1>1, <1>3, <1>7, <2>2, <2>3, <2>4 DEF FailuresOK
<1>19. \A k \in DOMAIN calls' : k \notin DOMAIN calls => calls'[k].method \in {"message", "output_file"}
  BY <1>4, <1>9
<1>20. cache' \in Seq(Nat) /\ causes' \in Nat
  BY <1>1, <1>5
<1> QED BY <1>1, <1>7, <1>10, <1>17, <1>18, <1>19, <1>20, ReceiveBooks

-----------------------------------------------------------------------------
(* An exception that gets out *)

\* What it may be: a file has been closed too early, or too much recursion.
RaisedByFile(l) ==
  /\ IF l = "file" THEN FileLoggerWrites ELSE l = "debug" /\ DebugFileWrites
  /\ l \notin active /\ failures' = failures
RaisedByListener(l) ==
  /\ MayFail(l) /\ Nesting = MaxNesting
  /\ failures' = Append(failures, <<l, Top.method, "error">>)

\* Some message is being sent when messages are nested.
LEMMA NestedMessage ==
  ASSUME Nesting = MaxNesting
  PROVE  \E k \in DOMAIN calls : calls[k].method = "message"
<1> SUFFICES ASSUME {i \in DOMAIN calls : calls[i].method = "message"} = {} PROVE FALSE
  OBVIOUS
<1>1. Nesting = 0
  BY FS_EmptySet DEF Nesting
<1> QED BY <1>1, ListenersAssumption

LEMMA RaiseFailures ==
  ASSUME LoggerBookkeeping, NEW l \in Receivers, Called(l), RaisedByFile(l) \/ RaisedByListener(l)
  PROVE  /\ failures' \in Seq(Failures) /\ Len(failures') \in Nat /\ Len(failures) <= Len(failures')
         /\ \A m : FailedIn(m) => FailedIn(m)'
         /\ pc \notin BeforeConsole
         /\ Exited' <=> Exited
         /\ FailedIn("message")' \/ (pc \in {"closing", "exit", "ended"} /\ FailedIn("close")' /\ FileLost)
<1>1. /\ Calling(l) /\ TypeOK /\ FailuresOK /\ FilesOK /\ RegistrationOK /\ MainCall /\ RegistrationType
  BY CallingParts DEF LoggerBookkeeping, TypeOK
<1>2. /\ failures \in Seq(Failures) /\ Len(failures) \in Nat
      /\ Top = calls[Len(calls)] /\ Len(calls) \in Nat \ {0} /\ Len(calls) \in DOMAIN calls /\ calls # <<>>
      /\ l \in Registered /\ l \in Range(calls[Len(calls)].todo) /\ Top.method \in Methods /\ FrameOK(Len(calls))
  <2>1. failures \in Seq(Failures) /\ Len(failures) \in Nat
    BY <1>1 DEF TypeOK
  <2>2. /\ Top = calls[Len(calls)] /\ Len(calls) \in Nat \ {0} /\ Len(calls) \in DOMAIN calls /\ calls # <<>>
        /\ l \in Registered /\ l \in Range(Top.todo) /\ Top \in FrameType /\ FrameOK(Len(calls))
    BY <1>1 DEF Calling
  <2>3. Top.method \in Methods
    BY <2>2 DEF FrameType
  <2> HIDE DEF Top
  <2> QED BY <2>1, <2>2, <2>3
<1>3. /\ Registered = RegisteredNow /\ Range(contextChanging) \subseteq {"xml"}
      /\ Range(regular) \subseteq RegularLoggers
      /\ Range(imported) \cap Others = {} /\ {"file", "debug", "auto", "xml", "console", "listeners"} \subseteq Others
  <2>1. Registered = RegisteredNow
    BY <1>1, RegisteredType DEF RegisteredOK
  <2>2. Range(contextChanging) \subseteq {"xml"} /\ Range(imported) \subseteq Range(Listeners)
        /\ Range(regular) \subseteq RegularLoggers
    BY <1>1 DEF RegistrationType, Range
  <2> QED BY <2>1, <2>2, ListenersAssumption DEF Others
<1>4. CASE RaisedByFile(l)
  <2>1. failures' = failures /\ l \in {"file", "debug"} /\ l \notin active
    BY <1>4 DEF RaisedByFile
  <2>2. l \in Range(regular)
    BY <1>2, <1>3, <2>1 DEF RegisteredNow
  <2>3. l # "debug"
    <3> SUFFICES ASSUME l = "debug" PROVE FALSE
      OBVIOUS
    <3>1. calls[Len(calls)].method \in {"start", "end", "log_message"}
      BY <1>2, <1>4 DEF RaisedByFile, DebugFileWrites
    <3> QED BY <1>1, <1>2, <2>1, <2>2, <3>1 DEF FilesOK
  <2>4. l = "file" /\ Top.method # "close" /\ (pc = "closing" \/ escaped \in Uncaught)
    BY <1>1, <1>4, <2>1, <2>2, <2>3 DEF FilesOK, RaisedByFile, FileLoggerWrites
  <2>5. FailedIn("message") \/ (pc \in {"closing", "exit", "ended"} /\ FailedIn("close"))
    <3>1. CASE escaped \in Uncaught
      BY <1>1, <2>1, <2>2, <2>4, <3>1 DEF FailuresOK, FileLost
    <3>2. CASE pc = "closing"
      <4>1. Len(calls) # 1
        BY <1>1, <1>2, <2>4, <3>2 DEF MainCall
      <4>2. \A n \in Nat \ {0} : n # 1 => n > 1
        OBVIOUS
      <4>3. Len(calls) > 1
        BY <1>2, <4>1, <4>2
      <4> QED BY <1>1, <3>2, <4>3 DEF FailuresOK
    <3> QED BY <2>4, <3>1, <3>2
  <2>6. (\A m : FailedIn(m)' <=> FailedIn(m)) /\ (Exited' <=> Exited) /\ FileLost
    BY <2>1, <2>2, <2>4 DEF FailedIn, Exited, FileLost
  <2>7. pc \notin Early
    BY <1>1, <2>4 DEF FailuresOK, Early, BeforeListeners, BeforeConsole
  <2>8. Early = BeforeListeners \cup {"listeners", "register", "registered"} /\ BeforeConsole \subseteq Early
    BY DEF Early, BeforeListeners
  <2> HIDE DEF FailedIn
  <2>9. FailedIn("message")' \/ (pc \in {"closing", "exit", "ended"} /\ FailedIn("close")')
    BY <2>5, <2>6
  <2>10. Len(failures') = Len(failures) /\ Len(failures) <= Len(failures)
    BY <1>2, <2>1
  <2> QED BY <1>2, <2>1, <2>2, <2>4, <2>6, <2>7, <2>8, <2>9, <2>10
<1>5. CASE RaisedByListener(l)
  <2>m. PICK method \in Methods : method = Top.method
    BY <1>2
  <2>1. /\ failures' \in Seq(Failures) /\ Len(failures') = Len(failures) + 1
        /\ \A m : FailedIn(m) => FailedIn(m)'
        /\ FailedIn(method)' /\ (Exited' <=> Exited)
    BY <1>2, <1>5, <2>m, FailedMore DEF RaisedByListener
  <2>2. PICK k \in DOMAIN calls : calls[k].method = "message"
    BY <1>5, NestedMessage DEF RaisedByListener
  <2> HIDE DEF FailedIn
  <2>3. FailedIn("message")'
    <3>1. CASE k = Len(calls)
      <4>1. method = "message"
        BY <1>2, <2>m, <2>2, <3>1
      <4> QED BY <2>1, <4>1
    <3>2. CASE k # Len(calls)
      <4>1. FailedIn("message")
        BY <1>1, <2>2, <3>2 DEF FailuresOK
      <4> QED BY <2>1, <4>1
    <3> QED BY <3>1, <3>2
  <2>4. l \in Range(imported)
    BY <1>5 DEF RaisedByListener, MayFail
  <2>5. pc \notin BeforeListeners
    <3>1. Range(<<>>) = {}
      BY DEF Range
    <3> QED BY <1>1, <2>4, <3>1 DEF RegistrationOK
  <2>7. pc \notin BeforeConsole
    BY <2>5 DEF BeforeListeners
  <2>8. \A n \in Nat : n <= n + 1 /\ n + 1 \in Nat
    OBVIOUS
  <2>9. Len(failures') \in Nat /\ Len(failures) <= Len(failures')
    BY <1>2, <2>1, <2>8
  <2> QED BY <2>1, <2>3, <2>7, <2>9
<1> QED BY <1>4, <1>5

\* The exception ends the keyword that logs, or the run.
Escapes ==
  /\ \/ /\ CalledByKeyword /\ calls # <<>> /\ calls' = <<Call("log_message", "FAIL")>>
        /\ escaped' = "keyword" /\ pc' = pc
     \/ calls' = <<>> /\ pc' \in {"exit", "ended"} /\ escaped' \in Uncaught
  /\ CalledByKeyword => calls # <<>>
  /\ UNCHANGED <<registration, cache, at, observed, sent, causes>>
  /\ pc \notin BeforeConsole /\ (pc = "ended" => Registered # {})
\* What is known of the failures then.
Reported ==
  /\ failures' \in Seq(Failures) /\ Len(failures') \in Nat /\ Len(failures) <= Len(failures')
  /\ \A m : FailedIn(m) => FailedIn(m)'
  /\ escaped' = "keyword" => FailedIn("message")'
  /\ escaped' \in Uncaught /\ FileLost => FailedIn("message")' \/ FailedIn("close")'
  /\ escaped' = "run" => FailedIn("message")' \/ FileLost
  /\ escaped' = "exit" => Exited'
  /\ escaped' = "output" => at <= 2
  /\ Exited' => escaped' \in Uncaught

LEMMA EscapeStep ==
  ASSUME LoggerBookkeeping, Escapes, Reported
  PROVE  LoggerBookkeeping'
<1>1. UNCHANGED <<registration, cache, at, observed, sent, causes>>
  BY DEF Escapes
<1>2. \/ /\ CalledByKeyword /\ calls' = <<Call("log_message", "FAIL")>> /\ escaped' = "keyword" /\ pc' = pc
      \/ calls' = <<>> /\ pc' \in {"exit", "ended"} /\ escaped' \in Uncaught
  BY DEF Escapes
<1>3. /\ failures' \in Seq(Failures) /\ Len(failures') \in Nat /\ Len(failures) <= Len(failures')
      /\ \A m : FailedIn(m) => FailedIn(m)'
      /\ pc \notin BeforeConsole
  BY DEF Escapes, Reported
<1>4. /\ TypeOK /\ DistinctOK /\ RegistrationOK /\ MainCall /\ EventsOK /\ FilesOK /\ FailuresOK /\ GotOK /\ OrderOK
      /\ ErrorsOK /\ XmlEnclosesListeners /\ RegistrationType
  BY DEF LoggerBookkeeping, TypeOK
<1>5. /\ UNCHANGED <<contextChanging, regular, imported, consoleDisabled, open, active, got, cache, at, sent, causes>>
      /\ Registered' = Registered /\ AllLoggers' = AllLoggers /\ Followers' = Followers
  BY <1>1 DEF registration, observed, Registered, AllLoggers, Expand, Followers
<1> DEFINE f == Call("log_message", "FAIL")
<1>6. f \in FrameType /\ f.method = "log_message" /\ f.next = "" /\ Range(f.todo) = Registered /\ Distinct(f.todo)
  <2>1. "log_message" \in Methods /\ "FAIL" \in Items
    BY DEF Methods, Items
  <2>2. IsAnnounced(f, "log_message", "FAIL")
    BY <1>4, <2>1, CallParts
  <2> QED BY <2>2 DEF IsAnnounced
<1>7. CalledByKeyword => /\ pc = "running" /\ calls # <<>> /\ calls[1].method \in {"message", "log_message"} /\ at = 5
  <2> SUFFICES ASSUME CalledByKeyword
               PROVE  pc = "running" /\ calls # <<>> /\ calls[1].method \in {"message", "log_message"} /\ at = 5
    OBVIOUS
  <2>1. pc = "running" /\ calls # <<>> /\ calls[1].method \in {"message", "log_message"}
    BY DEF CalledByKeyword, Escapes, Uncaught
  <2>2. at \in 1 .. 10 /\ at \notin {1, 2, 3, 4, 6, 7, 8, 9, 10}
    BY <1>4, <2>1 DEF MainCall
  <2> QED BY <2>1, <2>2
<1> HIDE DEF f
<1>8. \/ /\ pc = "running" /\ pc' = pc /\ at = 5 /\ escaped' = "keyword"
         /\ calls # <<>> /\ calls[1].method \in {"message", "log_message"} /\ calls' = <<f>>
      \/ pc' \in {"exit", "ended"} /\ escaped' \in Uncaught /\ calls' = <<>>
  BY <1>2, <1>7 DEF f
<1>9. /\ calls' \in Seq(FrameType) /\ ~(Len(calls') > 1)
      /\ \A k \in DOMAIN calls' : k = 1 /\ calls'[k] = f /\ pc' = "running"
      /\ calls' # <<>> => pc' = "running" /\ at = 5 /\ calls'[1] = f /\ Last(calls') = f
  <2>1. CASE calls' = <<>>
    BY <2>1
  <2>2. CASE calls' = <<f>> /\ pc' = "running" /\ at = 5
    <3>1. f \in FrameType
      BY <1>6
    <3>2. /\ <<f>> \in Seq(FrameType) /\ Len(<<f>>) = 1 /\ DOMAIN <<f>> = {1}
          /\ <<f>>[1] = f /\ Last(<<f>>) = f
      BY <3>1, OneCall
    <3>3. /\ calls' \in Seq(FrameType) /\ Len(calls') = 1 /\ DOMAIN calls' = {1}
          /\ calls'[1] = f /\ Last(calls') = f
      BY <2>2, <3>2
    <3> QED BY <2>2, <3>3
  <2> QED BY <1>8, <2>1, <2>2
<1>10. pc' \notin Early /\ pc' # "closing" /\ pc' \notin BeforeConsole /\ pc' \in Places
  BY <1>4, <1>8 DEF TypeOK, Places, Early, BeforeListeners, BeforeConsole
<1>11. RegistrationType' /\ RegistrationOK'
  <2>1. RegistrationType'
    BY <1>4, <1>5 DEF RegistrationType
  <2>2. "auto" \notin Range(regular)
    BY <1>3, <1>4 DEF RegistrationOK
  <2>3. pc' \notin {"start", "syslog", "output", "listeners", "register", "registered"} /\ pc' \notin BeforeListeners
    BY <1>8 DEF BeforeListeners, BeforeConsole
  <2>4. pc' = "running" => pc = "running"
    BY <1>8
  <2>5. ~(pc' \in {"exit", "ended"} /\ escaped' \notin Uncaught)
    BY <1>8
  <2> QED BY <1>4, <1>5, <1>10, <2>1, <2>2, <2>3, <2>4, <2>5 DEF RegistrationOK
<1>12. MainCall'
  <2> SUFFICES ASSUME calls' # <<>> PROVE MainCall'
    BY DEF MainCall
  <2>1. pc' = "running" /\ at' = 5 /\ calls'[1].method = "log_message"
    BY <1>5, <1>6, <1>9
  <2> QED BY <2>1 DEF MainCall
<1>13. EventsOK'
  <2>1. ASSUME pc' = "running" PROVE (\A x : ~IsTold(x)) /\ (\A x : ~IsTold(x)') /\ pc = "running" /\ calls'[1] = f
    <3>1. pc = "running" /\ calls' = <<f>> /\ calls # <<>> /\ calls[1].method \in {"message", "log_message"}
      BY <1>8, <2>1
    <3>2. calls' # <<>> /\ calls'[1] = f
      BY <1>9, <3>1
    <3>3. calls'[1].method = "log_message"
      BY <1>6, <3>2
    <3> QED BY <3>1, <3>2, <3>3 DEF IsTold
  <2>2. calls' # <<>> => calls'[1].method = "log_message"
    BY <1>6, <1>9
  <2> QED BY <1>4, <1>5, <1>10, <2>1, <2>2 DEF EventsOK
<1>14. FramesOK' /\ \A k \in DOMAIN calls' : Distinct(calls'[k].todo)
  BY <1>5, <1>6, <1>9 DEF FramesOK, FrameOK
<1>15. FilesOK'
  <2>1. escaped' = "keyword" => pc = "running" /\ escaped \notin Uncaught /\ at # 10
    BY <1>4, <1>8 DEF FailuresOK, Uncaught
  <2>2. "file" \in Range(regular) /\ "file" \notin active => escaped' \in Uncaught
    BY <1>4, <1>8, <2>1 DEF FilesOK
  <2>3. "debug" \in Range(regular) /\ "debug" \notin active => pc' # "running" /\ calls' = <<>>
    <3>1. "debug" \in Range(regular) /\ "debug" \notin active /\ pc = "running" => at = 10
      BY <1>4 DEF FilesOK
    <3> QED BY <1>8, <2>1, <3>1
  <2>4. \A k \in DOMAIN calls' : calls'[k].method # "close" /\ k \in {1}
    BY <1>6, <1>9
  <2>5. calls' = <<>> => DOMAIN calls' = {}
    OBVIOUS
  <2> QED BY <1>5, <1>10, <2>2, <2>3, <2>4, <2>5 DEF FilesOK
<1>16. FailuresOK'
  <2>1. \A k \in DOMAIN calls' : calls'[k].method # "message"
    BY <1>6, <1>9
  <2>2. FileLost' <=> FileLost
    BY <1>5 DEF FileLost
  <2>3. escaped' \in Uncaught => pc' \in {"exit", "ended"}
    BY <1>8 DEF Uncaught
  <2>4. Reported
    OBVIOUS
  <2> QED BY <1>5, <1>9, <1>10, <2>1, <2>2, <2>3, <2>4 DEF FailuresOK, Reported
<1>17. CacheOK' /\ ReachOK'
  BY <1>8, <1>10 DEF CacheOK, ReachOK, Uncaught
<1>18. GotOK'
  BY <1>4, <1>5, <1>10 DEF GotOK
<1>19. OrderOK'
  <2> SUFFICES ASSUME ~FailedIn("message")' PROVE InOrder(calls', got, cache, sent, imported, FALSE)
    <3>1. (pc' \in Early) = FALSE
      BY <1>10
    <3> QED BY <1>5, <3>1 DEF OrderOK
  <2>1. ~FailedIn("message")
    BY <1>3
  <2>2. \A x \in Receivers : Sorted(SeenIn(got, x))
    BY <1>4, <2>1 DEF OrderOK, InOrder
  <2> QED BY <1>6, <1>9, <2>2 DEF InOrder
<1>20. ErrorsOK'
  <2>2. pc = "ended" => Registered # {}
    BY DEF Escapes
  <2>3. Errors' = Errors
    BY <1>5 DEF Errors
  <2> DEFINE n == Len(failures) + causes
  <2>4. Cardinality(Errors) <= n /\ \A x \in Receivers : Cardinality(Errors \cap Range(got[x])) <= n
    BY <1>4, <2>2 DEF ErrorsOK
  <2>5. IsFiniteSet(Errors) /\ Cardinality(Errors) \in Nat
    <3>1. sent \in Seq(Levels) /\ "INFO" \in Levels
      BY <1>4 DEF TypeOK, Levels
    <3> QED BY <3>1, ErrorsSent DEF Errors
  <2>6. n <= Len(failures') + causes /\ n \in Nat /\ Len(failures') + causes \in Nat
    <3>1. Len(failures) \in Nat /\ causes \in Nat
      BY <1>4 DEF TypeOK
    <3> QED BY <1>3, <3>1
  <2>7. Cardinality(Errors) <= Len(failures') + causes
    BY <2>4, <2>5, <2>6
  <2>8. \A T : Cardinality(Errors \cap T) <= Len(failures') + causes
    BY <2>5, <2>6, <2>7, FewerOf
  <2> HIDE DEF Errors
  <2> QED BY <1>5, <2>3, <2>7, <2>8 DEF ErrorsOK
<1>21. TypeOK'
  BY <1>3, <1>4, <1>5, <1>8, <1>9, <1>10, <1>11 DEF TypeOK, Uncaught
<1>22. DistinctOK'
  BY <1>10, <1>14 DEF DistinctOK
<1>23. XmlEnclosesListeners'
  BY <1>4, <1>5 DEF XmlEnclosesListeners
<1> QED BY <1>11, <1>12, <1>13, <1>14, <1>15, <1>16, <1>17, <1>18, <1>19, <1>20, <1>21, <1>22, <1>23 DEF LoggerBookkeeping

\* Who raises it is registered.
LEMMA RaisedWhileCalled ==
  ASSUME LoggerBookkeeping, NEW l \in Receivers, Called(l)
  PROVE  /\ calls # <<>> /\ Registered # {} /\ Top.method \in Methods /\ FrameOK(Len(calls))
         /\ failures \in Seq(Failures) /\ Len(failures) \in Nat /\ Top = calls[Len(calls)]
<1>1. Calling(l) /\ TypeOK
  BY CallingParts DEF LoggerBookkeeping
<1>2. /\ Top = calls[Len(calls)] /\ calls # <<>> /\ l \in Registered
      /\ Top \in FrameType /\ FrameOK(Len(calls))
  BY <1>1 DEF Calling
<1>3. Top.method \in Methods
  BY <1>2 DEF FrameType
<1>4. failures \in Seq(Failures)
  BY <1>1 DEF TypeOK
<1> QED BY <1>2, <1>3, <1>4

LEMMA RaiseStep ==
  ASSUME LoggerBookkeeping, NEW l \in Receivers, Raise(l)
  PROVE  LoggerBookkeeping'
<1>1. /\ Called(l) /\ (RaisedByFile(l) \/ RaisedByListener(l))
      /\ UNCHANGED <<registration, cache, at, observed, sent, causes>>
      /\ \/ /\ CalledByKeyword /\ calls' = <<Call("log_message", "FAIL")>>
            /\ escaped' = "keyword" /\ pc' = pc
         \/ calls' = <<>> /\ pc' \in {"exit", "ended"} /\ escaped' = "run"
  BY DEF Raise, RaisedByFile, RaisedByListener, LeavesRun
<1>2. /\ failures' \in Seq(Failures) /\ Len(failures') \in Nat /\ Len(failures) <= Len(failures')
      /\ \A m : FailedIn(m) => FailedIn(m)'
      /\ pc \notin BeforeConsole
      /\ Exited' <=> Exited
      /\ FailedIn("message")' \/ (pc \in {"closing", "exit", "ended"} /\ FailedIn("close")' /\ FileLost)
  BY <1>1, RaiseFailures
<1>3. calls # <<>> /\ Registered # {}
  BY <1>1, RaisedWhileCalled
<1>4. Escapes
  BY <1>1, <1>2, <1>3 DEF Escapes, Uncaught
<1>5. CalledByKeyword => pc = "running"
  BY DEF CalledByKeyword
<1>6. FailuresOK
  BY DEF LoggerBookkeeping
<1>7. Exited => pc \in {"exit", "ended"}
  BY <1>6 DEF FailuresOK
<1>8. Reported
  BY <1>1, <1>2, <1>5, <1>7 DEF Reported, Uncaught
<1> QED BY <1>4, <1>8, EscapeStep

\* A listener exits. If the file logger has been closed, LOGGER.close has been called
\* and calls the listener, or sends the message about the failure of one.
LEMMA ExitStep ==
  ASSUME LoggerBookkeeping, NEW l \in Receivers, RaiseExit(l)
  PROVE  LoggerBookkeeping'
<1>1. /\ Called(l) /\ l \in Range(imported) /\ failures' = Append(failures, <<l, Top.method, "exit">>)
      /\ calls' = <<>> /\ pc' \in {"exit", "ended"} /\ escaped' = "exit"
      /\ UNCHANGED <<registration, cache, at, observed, sent, causes>>
  BY DEF RaiseExit, MayFail, LeavesAtOnce, LeavesRun
<1>2. /\ calls # <<>> /\ Registered # {} /\ Top.method \in Methods /\ Top = calls[Len(calls)]
      /\ failures \in Seq(Failures) /\ Len(failures) \in Nat
  BY <1>1, RaisedWhileCalled
<1>3. /\ RegistrationOK /\ MainCall /\ FilesOK /\ FailuresOK /\ calls \in Seq(FrameType)
  BY DEF LoggerBookkeeping, TypeOK
<1>4. PICK method \in Methods : method = Top.method
  BY <1>2
<1>5. /\ failures' \in Seq(Failures) /\ Len(failures') = Len(failures) + 1
      /\ \A m : FailedIn(m) => FailedIn(m)'
      /\ FailedIn(method)' /\ Exited'
  BY <1>1, <1>2, <1>4, FailedMore
<1>6. pc \notin BeforeConsole
  <2>1. Range(<<>>) = {}
    BY DEF Range
  <2> QED BY <1>1, <1>3, <2>1 DEF RegistrationOK, BeforeListeners
<1>7. Escapes
  BY <1>1, <1>2, <1>6 DEF Escapes, Uncaught
<1>8. ASSUME FileLost PROVE FailedIn("message")' \/ FailedIn("close")'
  <2>1. pc = "closing" \/ escaped \in Uncaught
    BY <1>3, <1>8 DEF FilesOK, FileLost
  <2>2. CASE escaped \in Uncaught
    <3>1. FailedIn("message") \/ FailedIn("close")
      BY <1>3, <1>8, <2>2 DEF FailuresOK
    <3> QED BY <1>5, <3>1
  <2>3. CASE pc = "closing" /\ Len(calls) = 1
    <3>1. method = "close"
      BY <1>2, <1>3, <1>4, <2>3 DEF MainCall
    <3> QED BY <1>5, <3>1
  <2>4. CASE pc = "closing" /\ Len(calls) # 1
    <3>1. \A n \in Nat : n # 0 /\ n # 1 => n > 1
      OBVIOUS
    <3>2. Len(calls) \in Nat /\ Len(calls) # 0
      BY <1>2, <1>3
    <3>3. FailedIn("message") \/ FailedIn("close")
      BY <1>3, <2>4, <3>1, <3>2 DEF FailuresOK
    <3> QED BY <1>5, <3>3
  <2> QED BY <2>1, <2>2, <2>3, <2>4
<1>9. Len(failures') \in Nat /\ Len(failures) <= Len(failures')
  BY <1>2, <1>5
<1>10. Reported
  BY <1>1, <1>5, <1>8, <1>9 DEF Reported, Uncaught
<1> QED BY <1>7, <1>10, EscapeStep

\* An output file cannot be opened: one of the first two events starts a suite.
LEMMA DataErrorStep ==
  ASSUME LoggerBookkeeping, NEW l \in Receivers, RaiseDataError(l)
  PROVE  LoggerBookkeeping'
<1>1. /\ Called(l) /\ Top.method = "start" /\ Top.item = "suite" /\ failures' = failures
      /\ calls' = <<>> /\ pc' \in {"exit", "ended"} /\ escaped' = "output"
      /\ UNCHANGED <<registration, cache, at, observed, sent, causes>>
  BY DEF RaiseDataError, OpensOutput, LeavesRun
<1>2. /\ calls # <<>> /\ Registered # {} /\ Top = calls[Len(calls)] /\ FrameOK(Len(calls))
      /\ failures \in Seq(Failures) /\ Len(failures) \in Nat
  BY <1>1, RaisedWhileCalled
<1>3. MainCall /\ FilesOK /\ FailuresOK
  BY DEF LoggerBookkeeping
<1>4. Len(calls) = 1 /\ pc = "running"
  BY <1>1, <1>2 DEF FrameOK
<1>5. calls[1].method = "start" /\ calls[1].item = "suite"
  BY <1>1, <1>2, <1>4
<1>6. at \in 1 .. 10 /\ at \notin {5, 6, 7, 8, 9, 10} /\ calls[1].item = Events[at][2]
  <2>1. at \in 1 .. 10 /\ at \notin {5, 6, 7, 8, 9, 10}
    BY <1>2, <1>3, <1>4, <1>5 DEF MainCall
  <2>2. at \in 1 .. 4
    BY <2>1
  <2> QED BY <1>2, <1>3, <1>4, <2>1, <2>2 DEF MainCall
<1>7. Events[3][2] = "test" /\ Events[4][2] = "kw"
  BY DEF Events
<1>8. at # 3 /\ at # 4
  BY <1>5, <1>6, <1>7
<1>9. at <= 2
  BY <1>6, <1>8
<1>10. (\A m : FailedIn(m)' <=> FailedIn(m)) /\ (Exited' <=> Exited)
  BY <1>1 DEF FailedIn, Exited
<1>11. ~FileLost /\ pc \notin BeforeConsole /\ pc # "ended"
  BY <1>3, <1>4 DEF FileLost, FilesOK, FailuresOK, BeforeConsole
<1>12. Escapes
  BY <1>1, <1>2, <1>11 DEF Escapes, Uncaught
<1>13. Len(failures') \in Nat /\ Len(failures) <= Len(failures')
  BY <1>1, <1>2
<1>14. Reported
  BY <1>1, <1>2, <1>9, <1>10, <1>11, <1>13 DEF Reported, Uncaught
<1> QED BY <1>12, <1>14, EscapeStep

\* A listener exits while it is imported.
LEMMA ImportExitsStep ==
  ASSUME LoggerBookkeeping, ImportExits
  PROVE  LoggerBookkeeping'
<1>1. /\ at < Len(Listeners) /\ calls = <<>> /\ pc = "listeners"
      /\ failures' = Append(failures, <<Listeners[at + 1], "import", "exit">>)
      /\ calls' = <<>> /\ pc' \in {"exit", "ended"} /\ escaped' = "exit"
      /\ UNCHANGED <<registration, cache, at, observed, sent, causes>>
  BY DEF ImportExits, LeavesAtOnce, LeavesRun
<1>2. /\ RegistrationOK /\ FilesOK /\ FailuresOK /\ failures \in Seq(Failures) /\ Len(failures) \in Nat /\ at \in Nat
  BY DEF LoggerBookkeeping, TypeOK
<1>3. pc \in Early /\ pc \notin BeforeConsole
  BY <1>1 DEF Early, BeforeConsole
<1>4. Listeners[at + 1] \in Receivers
  <2>1. Len(Listeners) \in Nat /\ DOMAIN Listeners = 1 .. Len(Listeners)
    BY ListenersAssumption
  <2>2. at + 1 \in DOMAIN Listeners
    BY <1>1, <1>2, <2>1
  <2> QED BY <2>2 DEF Receivers, Range
<1>5. /\ failures' \in Seq(Failures) /\ Len(failures') = Len(failures) + 1
      /\ \A m : FailedIn(m) => FailedIn(m)'
      /\ Exited'
  <2>1. "import" \in Methods \cup {"import"}
    OBVIOUS
  <2> QED BY <1>1, <1>2, <1>4, <2>1, FailedMore
<1>6. escaped = "no"
  BY <1>2, <1>3 DEF RegistrationOK
<1>7. ~FileLost
  BY <1>1, <1>2, <1>6 DEF FileLost, FilesOK, Uncaught
<1>8. Escapes
  BY <1>1, <1>3 DEF Escapes, Uncaught, CalledByKeyword
<1>9. Len(failures') \in Nat /\ Len(failures) <= Len(failures')
  BY <1>2, <1>5
<1>10. Reported
  BY <1>1, <1>5, <1>7, <1>9 DEF Reported, Uncaught
<1> QED BY <1>8, <1>10, EscapeStep

-----------------------------------------------------------------------------
(* The invariant, and what it says *)

\* The books are kept by every step.
LEMMA BookkeepingStep ==
  ASSUME LoggerBookkeeping, [Next]_vars
  PROVE  LoggerBookkeeping'
<1>1. CASE UNCHANGED vars
  <2>1. LoggerBookkeeping /\ UNCHANGED vars
    BY <1>1
  <2>2. /\ UNCHANGED <<contextChanging, regular, consoleDisabled, imported, cache, calls, pc, at,
                       open, active, shown, got, sent, failures, causes, escaped>>
    BY <1>1 DEF vars, registration, observed
  <2>3. /\ Registered' = Registered /\ Followers' = Followers /\ AllLoggers' = AllLoggers /\ Errors' = Errors
    BY <2>2 DEF Registered, Followers, AllLoggers, Expand, Errors
  <2>4. /\ TypeOK' /\ DistinctOK' /\ RegistrationOK' /\ MainCall' /\ FilesOK' /\ FailuresOK'
    <3>1. TypeOK'
      BY <2>1, <2>2 DEF LoggerBookkeeping, TypeOK, RegistrationType
    <3>2. DistinctOK' /\ MainCall' /\ FilesOK'
      BY <2>1, <2>2 DEF LoggerBookkeeping, DistinctOK, MainCall, FilesOK
    <3>3. RegistrationOK'
      BY <2>1, <2>2 DEF LoggerBookkeeping, RegistrationOK
    <3>4. FailuresOK'
      BY <2>1, <2>2 DEF LoggerBookkeeping, FailuresOK, FailedIn, Exited, FileLost
    <3> QED BY <3>1, <3>2, <3>3, <3>4
  <2>5. FramesOK' /\ EventsOK' /\ XmlEnclosesListeners'
    BY <2>1, <2>2, <2>3 DEF LoggerBookkeeping, FramesOK, FrameOK, EventsOK, IsTold, XmlEnclosesListeners
  <2>6. CacheOK' /\ ReachOK' /\ GotOK' /\ OrderOK' /\ ErrorsOK'
    BY <2>1, <2>2, <2>3 DEF LoggerBookkeeping, CacheOK, ReachOK, GotOK, OrderOK, ErrorsOK, FailedIn
  <2> QED BY <2>4, <2>5, <2>6 DEF LoggerBookkeeping
<1>2. CASE Main
  BY <1>2, MainStep
<1>3. CASE Return
  BY <1>3, ReturnStep
<1>4. CASE Ended
  BY <1>1, <1>4 DEF Ended
<1>5. ASSUME NEW l \in Receivers, Deliver(l) \/ Fail(l) \/ Raise(l) \/ RaiseExit(l) \/ RaiseDataError(l)
      PROVE  LoggerBookkeeping'
  BY <1>5, DeliverStep, DeliverLast, FailStep, RaiseStep, ExitStep, DataErrorStep
<1>6. CASE ImportExits
  BY <1>6, ImportExitsStep
<1> QED BY <1>1, <1>2, <1>3, <1>4, <1>5, <1>6 DEF Next

\* As many errors were got as different ones.
LEMMA ErrorsGot ==
  ASSUME NEW s \in Seq(Nat), Sorted(s), NEW E, IsFiniteSet(E),
         NEW S, S = {i \in DOMAIN s : s[i] \in E}
  PROVE  Cardinality(S) <= Cardinality(E \cap Range(s))
<1> DEFINE T == E \cap Range(s)
           f == [i \in S |-> s[i]]
<1>1. IsFiniteSet(T)
  <2>1. T \in SUBSET E
    OBVIOUS
  <2> QED BY <2>1, FS_Subset
<1>2. f \in [S -> T]
  BY DEF Range
<1>3. \A i, j \in S : f[i] = f[j] => i = j
  <2> SUFFICES ASSUME NEW i \in S, NEW j \in S, s[i] = s[j] PROVE i = j
    OBVIOUS
  <2>1. i \in Nat /\ j \in Nat /\ i \in DOMAIN s /\ j \in DOMAIN s /\ s[i] \in Nat
    OBVIOUS
  <2>2. ~(i < j) /\ ~(j < i)
    BY <2>1 DEF Sorted
  <2> QED BY <2>1, <2>2
<1>4. f \in Injection(S, T)
  BY <1>2, <1>3 DEF Injection, IsInjective
<1> HIDE DEF f, T
<1>5. Cardinality(S) <= Cardinality(T)
  BY <1>1, <1>4, FS_Injection
<1> QED BY <1>5 DEF T

LEMMA SortedParts ==
  ASSUME NEW s \in Seq(Nat), NEW t \in Seq(Nat), Sorted(s \o t)
  PROVE  Sorted(s) /\ Sorted(t)
<1>1. /\ Len(s \o t) = Len(s) + Len(t) /\ s \o t \in Seq(Nat)
      /\ \A i \in 1 .. Len(s) + Len(t) : (s \o t)[i] = IF i <= Len(s) THEN s[i] ELSE t[i - Len(s)]
  BY ConcatParts
<1>2. /\ Len(s) \in Nat /\ Len(t) \in Nat /\ DOMAIN s = 1 .. Len(s) /\ DOMAIN t = 1 .. Len(t)
      /\ DOMAIN (s \o t) = 1 .. Len(s) + Len(t)
  BY <1>1
<1>3. \A n, m \in Nat : /\ \A i \in 1 .. n : i \in 1 .. n + m /\ i <= n
                        /\ \A i \in 1 .. m : i + n \in 1 .. n + m /\ ~(i + n <= n) /\ (i + n) - n = i
  OBVIOUS
<1>4. /\ \A i \in DOMAIN s : i \in DOMAIN (s \o t) /\ (s \o t)[i] = s[i]
      /\ \A i \in DOMAIN t : i + Len(s) \in DOMAIN (s \o t) /\ (s \o t)[i + Len(s)] = t[i]
  BY <1>1, <1>2, <1>3
<1> DEFINE u == s \o t
<1>5. \A i, j \in DOMAIN u : i < j => u[i] < u[j]
  BY DEF Sorted
<1> HIDE DEF u
<1>6. Sorted(s)
  BY <1>4, <1>5 DEF Sorted, u
<1>7. Sorted(t)
  <2> SUFFICES ASSUME NEW i \in DOMAIN t, NEW j \in DOMAIN t, i < j PROVE t[i] < t[j]
    BY DEF Sorted
  <2>1. i + Len(s) < j + Len(s)
    BY <1>2
  <2>2. i + Len(s) \in DOMAIN u /\ j + Len(s) \in DOMAIN u /\ u[i + Len(s)] = t[i] /\ u[j + Len(s)] = t[j]
    BY <1>4 DEF u
  <2> QED BY <1>5, <2>1, <2>2
<1> QED BY <1>6, <1>7

\* The books say what LOGGER promises.
LEMMA BookkeepingTells == LoggerBookkeeping => LoggersAreTold
<1> SUFFICES ASSUME LoggerBookkeeping PROVE LoggersAreTold
  OBVIOUS
<1>1. /\ TypeOK /\ ReachOK /\ OrderOK /\ FailuresOK /\ ErrorsOK /\ GotOK /\ XmlEnclosesListeners /\ RegistrationType
  BY DEF LoggerBookkeeping, TypeOK
<1>2. /\ got \in [Receivers -> Seq(Nat)] /\ sent \in Seq(Levels) /\ Len(failures) \in Nat /\ causes \in Nat
      /\ escaped \in {"no", "keyword"} \cup Uncaught
  BY <1>1 DEF TypeOK, Levels
<1>3. \A l : Seen(l) = SeenIn(got, l)
  BY DEF Seen, SeenIn
<1>4. MessagesReachEveryone
  <2> SUFFICES ASSUME calls = <<>>, escaped = "no", NEW l \in Registered, NEW m \in DOMAIN sent, WantsMessage(l, sent[m])
               PROVE  m \in Range(Seen(l))
    BY DEF MessagesReachEveryone, Registered
  <2>1. Reach(<<>>, got, cache, sent, imported, Registered)
    BY <1>1 DEF ReachOK
  <2> QED BY <1>3, <2>1, NothingOnItsWay DEF Reach
<1>5. ASSUME ~FailedIn("message"), NEW l \in Receivers
      PROVE  Sorted(SeenIn(got, l))
  BY <1>1, <1>5 DEF OrderOK, InOrder
<1>6. MessagesInOrder
  <2> SUFFICES ASSUME ~FailedIn("message"),
                      NEW l \in Receivers, NEW i \in DOMAIN Seen(l), NEW j \in DOMAIN Seen(l), i < j
               PROVE  Seen(l)[i] < Seen(l)[j]
    BY DEF MessagesInOrder
  <2>1. Sorted(Seen(l))
    BY <1>3, <1>5
  <2> QED BY <2>1 DEF Sorted
<1>7. FailuresStayContained
  <2>1. "file" \in Range(regular) => "file" \in Range(AllLoggers)
    BY <1>1, RegisteredType DEF RegisteredOK
  <2>2. FileLost => "file" \in Range(AllLoggers) /\ "file" \notin active
    BY <2>1 DEF FileLost
  <2> HIDE DEF FailedIn, Exited
  <2>3. ASSUME escaped # "no"
        PROVE  \/ FailedIn("message")
               \/ FailedIn("close") /\ FileLost
               \/ Exited
               \/ escaped = "output" /\ at <= 2
    BY <1>1, <1>2, <2>3 DEF FailuresOK, Uncaught
  <2>4. Exited => pc \in {"exit", "ended"} /\ escaped \in Uncaught
    BY <1>1 DEF FailuresOK
  <2> QED BY <2>2, <2>3, <2>4 DEF FailuresStayContained
<1>8. ErrorsHaveCauses
  <2> SUFFICES ASSUME ~FailedIn("message"), NEW l \in Receivers
               PROVE  Cardinality({i \in DOMAIN got[l] : sent[got[l][i]] = "ERROR"}) <= Len(failures) + causes
    BY DEF ErrorsHaveCauses
  <2>1. got[l] \in Seq(Nat) /\ got["auto"] \in Seq(Nat) /\ Range(got[l]) \subseteq DOMAIN sent
    <3>1. "auto" \in Receivers
      BY DEF Receivers, Others
    <3> QED BY <1>1, <1>2, <3>1 DEF GotOK
  <2>2. Sorted(got[l])
    <3>1. Sorted(SeenIn(got, l))
      BY <1>5
    <3>2. CASE l = "console"
      <4>1. Sorted(got["auto"] \o got[l])
        BY <3>1, <3>2 DEF SeenIn
      <4> QED BY <2>1, <4>1, SortedParts
    <3>3. CASE l # "console"
      BY <3>1, <3>3 DEF SeenIn
    <3> QED BY <3>2, <3>3
  <2> DEFINE S == {i \in DOMAIN got[l] : sent[got[l][i]] = "ERROR"}
             T == Errors \cap Range(got[l])
  <2>3. S = {i \in DOMAIN got[l] : got[l][i] \in Errors}
    <3>1. \A i \in DOMAIN got[l] : got[l][i] \in DOMAIN sent
      BY <2>1 DEF Range
    <3> QED BY <3>1 DEF Errors, ErrorsIn
  <2>4. IsFiniteSet(Errors)
    <3>1. "INFO" \in Levels
      BY DEF Levels
    <3> QED BY <1>2, <3>1, ErrorsSent DEF Errors
  <2>5. Cardinality(T) <= Len(failures) + causes
    BY <1>1 DEF ErrorsOK
  <2> HIDE DEF S
  <2>6. Cardinality(S) <= Cardinality(T)
    <3> HIDE DEF Errors
    <3> QED BY <2>1, <2>2, <2>3, <2>4, ErrorsGot
  <2>7. IsFiniteSet(S) /\ IsFiniteSet(T)
    <3>1. T \in SUBSET Errors /\ S \in SUBSET (1 .. Len(got[l]))
      BY <2>1 DEF S
    <3>2. IsFiniteSet(1 .. Len(got[l]))
      <4>1. Len(got[l]) \in Int /\ 1 \in Int
        BY <2>1
      <4> QED BY <4>1, FS_Interval
    <3> QED BY <2>4, <3>1, <3>2, FS_Subset
  <2>8. Cardinality(S) \in Nat /\ Cardinality(T) \in Nat
    BY <2>7, FS_CardinalityType
  <2>9. Cardinality(S) <= Len(failures) + causes
    <3> HIDE DEF T
    <3> QED BY <1>2, <2>5, <2>6, <2>8
  <2> QED BY <2>9 DEF S
<1> QED BY <1>1, <1>4, <1>6, <1>7, <1>8 DEF LoggersAreTold

\* The books of LOGGER are kept: which loggers are registered, what its calls have
\* still to do, what is cached, and what each receiver has been told.
THEOREM LoggerBookkeepingHolds == Spec => []LoggerBookkeeping
<1>1. Init => LoggerBookkeeping
  BY BookkeepingInit
<1>2. LoggerBookkeeping /\ [Next]_vars => LoggerBookkeeping'
  BY BookkeepingStep
<1> QED BY <1>1, <1>2, PTL DEF Spec

\* Every logger gets every message it wants, once and in order, however late it is
\* registered and whatever listeners fail; the output file encloses what is sent
\* meanwhile; failures of listeners stay with LOGGER, but for those on messages, in
\* close after the file logger, and exits, each of which ends the run.
THEOREM LoggersAreToldHolds == Spec => []LoggersAreTold
BY LoggerBookkeepingHolds, BookkeepingTells, PTL
=============================================================================
