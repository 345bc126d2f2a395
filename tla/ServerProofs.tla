---------------------------- MODULE ServerProofs ----------------------------
(***************************************************************************)
(* Proofs about the libraries that talk to others, Connections and         *)
(* RemoteLibrary: names lead to the connections that were meant, answers   *)
(* belong to commands and requests, outputs are read once and keywords are *)
(* run once, however many connections, processes, libraries, names and     *)
(* values there are.                                                       *)
(***************************************************************************)
EXTENDS Connections, RemoteLibrary, SequenceTheorems, WellFoundedInduction, TLAPS

\* The cache and the history of aliases belong together: an alias and the
\* current index are in use, and every connection is one of those opened.
AliasMaps == UNION {[A -> Nat]: A \in SUBSET STRING}
CacheType == [connections: Seq(Nat), aliases: AliasMaps, current: Nat]
CacheOK(c, reg, opened) ==
    /\ c \in CacheType
    /\ c.current \in {NoConnection} \cup DOMAIN c.connections
    /\ NoAlias \notin DOMAIN c.aliases
    /\ DOMAIN reg = DOMAIN c.aliases
    /\ \A a \in DOMAIN c.aliases: /\ c.aliases[a] \in DOMAIN c.connections
                                  /\ reg[a] = c.connections[c.aliases[a]]
    /\ \A i \in DOMAIN c.connections: c.connections[i] \in 1..opened

Texts == {"echo", "newline", "output", "prompt"}
Words == Commands \cup {NoAlias} \cup Texts
Tokens == [what: Texts, of: Words]
Steps == [do: {"send", "until", "try"}, what: Words]
KeywordType == [kw: Keywords \cup {"none"}, command: Commands \cup {NoAlias}, steps: Seq(Steps), read: Seq(Tokens),
                clean: BOOLEAN, level: BOOLEAN, tries: Nat, passed: BOOLEAN]
StreamType == [unread: Seq(Tokens), open: BOOLEAN, prompt: BOOLEAN]
ProcessType == [closed: BOOLEAN, ended: BOOLEAN, read: Nat]

TypeOK ==
    /\ telnet \in Seq(StreamType)
    /\ keyword \in KeywordType
    /\ switched \in [index: Nat, connection: Nat]
    /\ processes \in Seq(ProcessType)

\* Only one of the libraries has opened something.
OneIsUsed == telnet = <<>> \/ processes = <<>>
Opened == IF telnet = <<>> THEN Len(processes) ELSE Len(telnet)
CacheInv == CacheOK(connectionCache, registered, Opened)

SwitchedOK ==
    switched.index # NoConnection =>
        /\ telnet # <<>>
        /\ switched.index \in DOMAIN connectionCache.connections
        /\ connectionCache.connections[switched.index] = switched.connection

ProcessesOK ==
    \A p \in DOMAIN processes:
        /\ processes[p].read <= 1
        /\ ~processes[p].closed => processes[p].read = 0
        /\ p \notin Range(connectionCache.connections) => processes[p].closed

\* How far Execute Command is, when all had been read before: it is to be
\* sent, its answer is on its way, or read to the end of the echo, or read and
\* returned without the echo.
Answers(command) == {AnswerTo(command), NoOutput(command)}
Asked(k, unread) == k.steps = ExecuteCommand(k.command) /\ unread = <<>>
Sent(k, unread) ==
    /\ k.steps = <<Until("newline"), Until("prompt")>>
    /\ unread \in Answers(k.command)
Begun(k, unread) ==
    /\ k.steps = <<Until("prompt")>>
    /\ \E A \in Answers(k.command): unread = AfterEcho(A)
Done(k) == k.steps = <<>> /\ \E A \in Answers(k.command): k.read = AfterEcho(A)
Executed(k, unread) == Asked(k, unread) \/ Sent(k, unread) \/ Begun(k, unread) \/ Done(k)

KeywordOK ==
    /\ Running => telnet # <<>> /\ HasCurrent
    /\ keyword.kw = "Execute Command" /\ keyword.clean => 
          \/ Running /\ Executed(keyword, Stream.unread)
          \/ Done(keyword)

ConnectionInvariant == TypeOK /\ OneIsUsed /\ CacheInv /\ SwitchedOK /\ ProcessesOK /\ KeywordOK

------------------------------------------------------------------------------
(***************************************************************************)
(* The cache.                                                              *)
(***************************************************************************)
\* Registering a new connection keeps the cache in order: connectioncache.py
\* appends it and an alias that was in use now leads to it.
LEMMA RegisterKeeps ==
    ASSUME NEW c, NEW reg, NEW n \in Nat, NEW alias \in STRING \cup {NoAlias}, CacheOK(c, reg, n)
    PROVE  CacheOK(RegisterIn(c, n + 1, alias),
                   IF alias = NoAlias THEN reg
                   ELSE [a \in DOMAIN reg \cup {alias} |-> IF a = alias THEN n + 1 ELSE reg[a]],
                   n + 1)
<1> DEFINE cs == c.connections
           index == Len(cs) + 1
           new == RegisterIn(c, n + 1, alias)
           aliases == IF alias = NoAlias THEN c.aliases
                      ELSE [a \in DOMAIN c.aliases \cup {alias} |->
                               IF a = alias THEN index ELSE c.aliases[a]]
           newReg == IF alias = NoAlias THEN reg
                     ELSE [a \in DOMAIN reg \cup {alias} |-> IF a = alias THEN n + 1 ELSE reg[a]]
<1>1. /\ cs \in Seq(Nat) /\ c.aliases \in AliasMaps /\ c.current \in Nat
      /\ Len(cs) \in Nat /\ DOMAIN cs = 1..Len(cs)
  BY DEF CacheOK, CacheType
<1>2. /\ Append(cs, n + 1) \in Seq(Nat) /\ DOMAIN Append(cs, n + 1) = 1..index
      /\ \A i \in DOMAIN cs: i \in DOMAIN Append(cs, n + 1) /\ Append(cs, n + 1)[i] = cs[i]
      /\ Append(cs, n + 1)[index] = n + 1
  BY <1>1
<1>3. /\ new.connections = Append(cs, n + 1) /\ new.aliases = aliases /\ new.current = index
      /\ new = [connections |-> Append(cs, n + 1), aliases |-> aliases, current |-> index]
  BY DEF RegisterIn
<1>4. PICK A \in SUBSET STRING: c.aliases \in [A -> Nat]
  BY <1>1 DEF AliasMaps
<1>5. aliases \in AliasMaps
  <2>1. CASE alias = NoAlias
    BY <2>1, <1>1
  <2>2. CASE alias # NoAlias
    <3>3. DOMAIN c.aliases = A /\ index \in Nat
      BY <1>4, <1>1
    <3>4. aliases = [a \in A \cup {alias} |-> IF a = alias THEN index ELSE c.aliases[a]]
      BY <2>2, <3>3
    <3>1. aliases \in [A \cup {alias} -> Nat]
      <4> HIDE DEF aliases, index
      <4> QED BY <1>4, <3>3, <3>4
    <3>2. A \cup {alias} \in SUBSET STRING
      BY <2>2
    <3> QED BY <3>1, <3>2 DEF AliasMaps
  <2> QED BY <2>1, <2>2
<1>6. new \in CacheType
  <2>1. index \in Nat
    BY <1>1
  <2> HIDE DEF aliases, index, new
  <2> QED BY <2>1, <1>2, <1>3, <1>5 DEF CacheType
<1>7. new.current \in {NoConnection} \cup DOMAIN new.connections
  BY <1>1, <1>2, <1>3
<1>8. NoAlias \notin DOMAIN new.aliases /\ DOMAIN newReg = DOMAIN new.aliases
  <2>1. NoAlias \notin DOMAIN c.aliases /\ DOMAIN reg = DOMAIN c.aliases
    BY DEF CacheOK
  <2>2. NoAlias \notin DOMAIN aliases /\ DOMAIN newReg = DOMAIN aliases
    <3>1. CASE alias = NoAlias
      BY <3>1, <2>1
    <3>2. CASE alias # NoAlias
      BY <3>2, <2>1
    <3> QED BY <3>1, <3>2
  <2> QED BY <2>2, <1>3
<1>9. \A a \in DOMAIN new.aliases: /\ new.aliases[a] \in DOMAIN new.connections
                                   /\ newReg[a] = new.connections[new.aliases[a]]
  <2> SUFFICES ASSUME NEW a \in DOMAIN aliases
               PROVE  /\ aliases[a] \in DOMAIN Append(cs, n + 1)
                      /\ newReg[a] = Append(cs, n + 1)[aliases[a]]
    BY <1>3
  <2>1. CASE alias # NoAlias /\ a = alias
    <3>1. aliases[a] = index /\ newReg[a] = n + 1
      BY <2>1
    <3> QED BY <3>1, <1>1, <1>2
  <2>2. CASE ~(alias # NoAlias /\ a = alias)
    <3>1. a \in DOMAIN c.aliases /\ aliases[a] = c.aliases[a] /\ newReg[a] = reg[a]
      BY <2>2 DEF CacheOK
    <3>2. c.aliases[a] \in DOMAIN cs /\ reg[a] = cs[c.aliases[a]]
      BY <3>1 DEF CacheOK
    <3> QED BY <3>1, <3>2, <1>2
  <2> QED BY <2>1, <2>2
<1>10. \A i \in DOMAIN new.connections: new.connections[i] \in 1..(n + 1)
  <2> SUFFICES ASSUME NEW i \in 1..index
               PROVE  Append(cs, n + 1)[i] \in 1..(n + 1)
    BY <1>2, <1>3
  <2>1. CASE i = index
    BY <2>1, <1>2
  <2>2. CASE i # index
    <3>1. i \in DOMAIN cs
      BY <2>2, <1>1
    <3>2. cs[i] \in 1..n
      BY <3>1 DEF CacheOK
    <3> QED BY <3>1, <3>2, <1>2
  <2> QED BY <2>1, <2>2
<1> HIDE DEF new, newReg
<1>11. CacheOK(new, newReg, n + 1)
  BY <1>6, <1>7, <1>8, <1>9, <1>10 DEF CacheOK
<1> QED BY <1>11 DEF new, newReg

\* An empty cache is in order.
LEMMA EmptyKeeps ==
    ASSUME NEW n \in Nat
    PROVE  CacheOK(EmptyCache, <<>>, n)
<1>1. EmptyCache.connections = <<>> /\ EmptyCache.aliases = <<>> /\ EmptyCache.current = 0
  BY DEF EmptyCache, NoConnection
<1>2. <<>> \in Seq(Nat) /\ DOMAIN <<>> = {}
  OBVIOUS
<1>3. <<>> \in AliasMaps
  <2>1. <<>> \in [{} -> Nat]
    <3>1. \A s \in Seq(Nat): s \in [1..Len(s) -> Nat]
      OBVIOUS
    <3>2. 1..0 = {} /\ Len(<<>>) = 0
      OBVIOUS
    <3>3. <<>> \in [1..Len(<<>>) -> Nat]
      BY <3>1, <1>2
    <3> QED BY <3>2, <3>3
  <2>2. {} \in SUBSET STRING
    OBVIOUS
  <2> QED BY <2>1, <2>2 DEF AliasMaps
<1>4. EmptyCache \in CacheType
  BY <1>2, <1>3 DEF EmptyCache, CacheType, NoConnection
<1> QED BY <1>1, <1>2, <1>4 DEF CacheOK, NoConnection

\* An index that a name leads to is in use: switching keeps the cache in order.
LEMMA IndexInUse ==
    ASSUME NEW c, NEW reg, NEW n \in Nat, CacheOK(c, reg, n), NEW name \in [alias: STRING, number: Nat]
    PROVE  GetIndex(c, name) \in {NoConnection} \cup DOMAIN c.connections
BY DEF CacheOK, GetIndex

LEMMA SwitchKeeps ==
    ASSUME NEW c, NEW reg, NEW n \in Nat, CacheOK(c, reg, n), NEW i \in DOMAIN c.connections
    PROVE  CacheOK(Switched(c, i), reg, n)
<1> DEFINE new == Switched(c, i)
<1>1. c \in CacheType
  BY DEF CacheOK
<1>2. i \in Nat
  BY <1>1 DEF CacheType
<1>3. /\ new \in CacheType /\ new.connections = c.connections /\ new.aliases = c.aliases
      /\ new.current = i
  BY <1>1, <1>2 DEF Switched, CacheType
<1> HIDE DEF new
<1>4. CacheOK(new, reg, n)
  BY <1>3 DEF CacheOK
<1> QED BY <1>4 DEF new

\* The current connection is one that was opened.
LEMMA CurrentOpened ==
    ASSUME CacheInv, HasCurrent
    PROVE  CurrentConnection \in 1..Opened
BY DEF CacheInv, CacheOK, HasCurrent, CurrentConnection

\* With Telnet connections it has a stream.
LEMMA CurrentStream ==
    ASSUME TypeOK, CacheInv, HasCurrent, telnet # <<>>
    PROVE  /\ CurrentConnection \in DOMAIN telnet
           /\ Stream \in StreamType
<1>1. CurrentConnection \in 1..Len(telnet)
  BY CurrentOpened DEF Opened
<1>2. telnet \in Seq(StreamType)
  BY DEF TypeOK
<1> QED BY <1>1, <1>2 DEF Stream

\* Without processes a current connection is a Telnet connection.
LEMMA CurrentIsTelnet ==
    ASSUME CacheInv, HasCurrent, processes = <<>>
    PROVE  telnet # <<>>
<1>1. CASE telnet = <<>>
  <2>1. Opened = 0
    BY <1>1 DEF Opened
  <2>2. CurrentConnection \in 1..0
    BY <2>1, CurrentOpened
  <2> QED BY <2>2
<1> QED BY <1>1

------------------------------------------------------------------------------
(***************************************************************************)
(* Steps and answers.                                                      *)
(***************************************************************************)
\* The steps of every keyword are texts to send or to read.
LEMMA StepsTyped ==
    ASSUME NEW kw \in Keywords, NEW command \in Commands \cup {NoAlias}
    PROVE  StepsOf(kw, command) \in Seq(Steps) /\ StepsOf(kw, command) # <<>>
<1>1. SendStep(command) \in Steps
  BY DEF SendStep, Steps, Words
<1>2. Try("output") \in Steps
  BY DEF Try, Steps, Words, Texts
<1>3. \A what \in Texts: Until(what) \in Steps
  BY DEF Until, Steps, Words
<1>4. Until("newline") \in Steps /\ Until("prompt") \in Steps /\ Until("echo") \in Steps
  BY <1>3 DEF Texts
<1> HIDE DEF Steps
<1>5. Write(command) \in Seq(Steps) /\ Len(Write(command)) = 2
  BY <1>1, <1>4 DEF Write
<1>6. ReadUntilPrompt \in Seq(Steps) /\ Len(ReadUntilPrompt) = 1
  BY <1>4 DEF ReadUntilPrompt
<1>7. ExecuteCommand(command) \in Seq(Steps) /\ Len(ExecuteCommand(command)) = 3
  <2> DEFINE w == Write(command)
             r == ReadUntilPrompt
  <2>1. w \o r \in Seq(Steps) /\ Len(w \o r) = Len(w) + Len(r)
    <3>1. w \in Seq(Steps) /\ r \in Seq(Steps)
      BY <1>5, <1>6
    <3> HIDE DEF w, r
    <3> QED BY <3>1, ConcatProperties
  <2>2. Len(w) + Len(r) = 3
    <3>1. Len(w) = 2 /\ Len(r) = 1
      BY <1>5, <1>6
    <3> QED BY <3>1
  <2> QED BY <2>1, <2>2 DEF ExecuteCommand
<1>8. WriteUntilExpectedOutput(command) \in Seq(Steps) /\ Len(WriteUntilExpectedOutput(command)) = 3
  BY <1>1, <1>2, <1>4 DEF WriteUntilExpectedOutput
<1>9. \A s \in Seq(Steps): Len(s) > 0 => s # <<>>
  OBVIOUS
<1>10. StepsOf(kw, command) \in {Write(command), ReadUntilPrompt, ExecuteCommand(command),
                                WriteUntilExpectedOutput(command)}
  <2>1. CASE kw = "Write"
    BY <2>1 DEF StepsOf
  <2>2. CASE kw = "Read Until Prompt"
    BY <2>2 DEF StepsOf
  <2>3. CASE kw = "Execute Command"
    BY <2>3 DEF StepsOf
  <2>4. CASE kw = "Write Until Expected Output"
    BY <2>4 DEF StepsOf
  <2> QED BY <2>1, <2>2, <2>3, <2>4 DEF Keywords
<1>11. \A s \in {Write(command), ReadUntilPrompt, ExecuteCommand(command),
                 WriteUntilExpectedOutput(command)}: s \in Seq(Steps) /\ Len(s) > 0
  <2>1. Write(command) \in Seq(Steps) /\ Len(Write(command)) > 0
    BY <1>5
  <2>2. ReadUntilPrompt \in Seq(Steps) /\ Len(ReadUntilPrompt) > 0
    BY <1>6
  <2>3. ExecuteCommand(command) \in Seq(Steps) /\ Len(ExecuteCommand(command)) > 0
    BY <1>7
  <2>4. WriteUntilExpectedOutput(command) \in Seq(Steps) /\ Len(WriteUntilExpectedOutput(command)) > 0
    BY <1>8
  <2> QED BY <2>1, <2>2, <2>3, <2>4
<1> QED BY <1>9, <1>10, <1>11

\* Execute Command sends, reads the echo and reads until the prompt.
LEMMA ExecuteSteps ==
    ASSUME NEW command
    PROVE  ExecuteCommand(command) = <<SendStep(command), Until("newline"), Until("prompt")>>
<1>1. \A a, b, c: <<a, b>> \o <<c>> = <<a, b, c>>
  <2> TAKE a, b, c
  <2> DEFINE S == {a, b, c}
             s == <<a, b>>
             t == <<c>>
             u == <<a, b, c>>
  <2>1. s \in Seq(S) /\ Len(s) = 2 /\ s[1] = a /\ s[2] = b
    OBVIOUS
  <2>2. t \in Seq(S) /\ Len(t) = 1 /\ t[1] = c
    OBVIOUS
  <2>3. u \in Seq(S) /\ Len(u) = 3 /\ u[1] = a /\ u[2] = b /\ u[3] = c
    OBVIOUS
  <2> HIDE DEF S, s, t, u
  <2>4. /\ s \o t \in Seq(S) /\ Len(s \o t) = Len(s) + Len(t)
        /\ \A i \in 1..Len(s) + Len(t): (s \o t)[i] = IF i <= Len(s) THEN s[i] ELSE t[i - Len(s)]
    <3>1. s \in Seq(S) /\ t \in Seq(S)
      BY <2>1, <2>2
    <3> QED BY <3>1, ConcatProperties
  <2>5. Len(s \o t) = 3 /\ (s \o t)[1] = a /\ (s \o t)[2] = b /\ (s \o t)[3] = c
    <3> DEFINE st == s \o t
    <3>1. /\ Len(st) = 2 + 1
          /\ \A i \in 1..2 + 1: st[i] = IF i <= 2 THEN s[i] ELSE t[i - 2]
      BY <2>1, <2>2, <2>4
    <3> HIDE DEF st
    <3>2. Len(st) = 3 /\ st[1] = s[1] /\ st[2] = s[2] /\ st[3] = t[1]
      BY <3>1
    <3> QED BY <3>2, <2>1, <2>2 DEF st
  <2>6. \A i \in 1..3: (s \o t)[i] = u[i]
    <3>1. 1..3 = {1, 2, 3}
      OBVIOUS
    <3> QED BY <3>1, <2>3, <2>5
  <2>7. s \o t = u
    <3>1. s \o t \in Seq(S) /\ u \in Seq(S) /\ Len(s \o t) = Len(u) /\ Len(u) = 3
      BY <2>3, <2>4, <2>5
    <3>2. \A i \in 1..Len(u): (s \o t)[i] = u[i]
      BY <3>1, <2>6
    <3> QED BY <3>1, <3>2, SeqEqual
  <2> QED BY <2>7 DEF s, t, u
<1> QED BY <1>1 DEF ExecuteCommand, Write, ReadUntilPrompt

\* What a server sends is a sequence of tokens, and the echo is its first line.
LEMMA AnswersTyped ==
    ASSUME NEW command \in Words, NEW A \in Answers(command)
    PROVE  /\ A \in Seq(Tokens) /\ Len(A) \in {4, 5}
           /\ A[1].what = "echo" /\ A[2].what = "newline"
           /\ A[Len(A)].what = "prompt"
           /\ \A i \in 3..(Len(A) - 1): A[i].what # "prompt"
<1>1. \A what \in Texts: /\ Token(what, command) \in Tokens
                         /\ Token(what, NoAlias) \in Tokens
                         /\ Token(what, command).what = what
                         /\ Token(what, NoAlias).what = what
  BY DEF Token, Tokens, Words
<1>4. /\ Token("echo", command) \in Tokens /\ Token("echo", command).what = "echo"
      /\ Output(command) \in Tokens /\ Output(command).what = "output"
  BY <1>1 DEF Output, Texts
<1>5. /\ Newline \in Tokens /\ Newline.what = "newline"
      /\ Prompt \in Tokens /\ Prompt.what = "prompt"
  BY <1>1 DEF Newline, Prompt, Texts
<1> HIDE DEF Tokens
<1>2. CASE A = AnswerTo(command)
  <2>1. A = <<Token("echo", command), Newline, Output(command), Newline, Prompt>>
    BY <1>2 DEF AnswerTo
  <2>2. /\ A \in Seq(Tokens) /\ Len(A) = 5
        /\ A[1] = Token("echo", command) /\ A[2] = Newline /\ A[3] = Output(command)
        /\ A[4] = Newline /\ A[5] = Prompt
    BY <2>1, <1>4, <1>5
  <2>3. 3..(5 - 1) = {3, 4}
    OBVIOUS
  <2> QED BY <2>2, <2>3, <1>4, <1>5
<1>3. CASE A = NoOutput(command)
  <2>1. A = <<Token("echo", command), Newline, Newline, Prompt>>
    BY <1>3 DEF NoOutput
  <2>2. /\ A \in Seq(Tokens) /\ Len(A) = 4
        /\ A[1] = Token("echo", command) /\ A[2] = Newline /\ A[3] = Newline /\ A[4] = Prompt
    BY <2>1, <1>4, <1>5
  <2>3. 3..(4 - 1) = {3}
    OBVIOUS
  <2> QED BY <2>2, <2>3, <1>4, <1>5
<1> QED BY <1>2, <1>3 DEF Answers

\* A text is seen in what has arrived: ReadMatch reads to its first position.
First(what, tokens) == CHOOSE i \in Sees(what, tokens): \A j \in Sees(what, tokens): i <= j
LEMMA FirstSeen ==
    ASSUME NEW tokens \in Seq(Tokens), NEW what, Sees(what, tokens) # {}, NEW end, end = First(what, tokens)
    PROVE  /\ end \in 1..Len(tokens) /\ tokens[end].what = what
           /\ \A j \in 1..Len(tokens): tokens[j].what = what => end <= j
<1> DEFINE S == Sees(what, tokens)
<1>1. S \in SUBSET Nat /\ S # {}
  BY DEF Sees
<1>2. \E i \in S: \A j \in S: i <= j
  <2> HIDE DEF S
  <2>1. PICK i \in S: \A j \in S: ~(<<j, i>> \in OpToRel(<, Nat))
    BY <1>1, WFMin, NatLessThanWellFounded
  <2>2. \A j \in S: ~(j < i)
    <3>1. SUFFICES ASSUME NEW j \in S, j < i PROVE <<j, i>> \in OpToRel(<, Nat)
      BY <2>1
    <3>2. <<j, i>> \in {pair \in Nat \X Nat: pair[1] < pair[2]}
      BY <1>1, <3>1
    <3> QED BY <3>2 DEF OpToRel
  <2> QED BY <1>1, <2>2
<1>3. end \in S /\ \A j \in S: end <= j
  <2> HIDE DEF S
  <2>1. end = CHOOSE i \in S: \A j \in S: i <= j
    BY DEF S, First
  <2> QED BY <1>2, <2>1
<1>4. \A i: i \in S <=> i \in DOMAIN tokens /\ tokens[i].what = what
  BY DEF Sees
<1>5. DOMAIN tokens = 1..Len(tokens)
  OBVIOUS
<1> HIDE DEF S
<1> QED BY <1>3, <1>4, <1>5

------------------------------------------------------------------------------
(***************************************************************************)
(* Every step of a Telnet library keeps the invariant ...                  *)
(***************************************************************************)
\* Without processes all that was opened are Telnet connections.
LEMMA TelnetOpened ==
    ASSUME TypeOK, processes = <<>>
    PROVE  Opened = Len(telnet) /\ Len(telnet) \in Nat
BY DEF TypeOK, Opened

\* A step that changes only the stream of the connection and the keyword.
LEMMA StreamStep ==
    ASSUME ConnectionInvariant, processes = <<>>,
           UNCHANGED <<connectionCache, switched, registered, processes>>,
           telnet' \in Seq(StreamType), Len(telnet') = Len(telnet), telnet # <<>>,
           keyword' \in KeywordType, KeywordOK'
    PROVE  ConnectionInvariant'
<1>1. telnet' # <<>>
  <2>1. telnet \in Seq(StreamType)
    BY DEF ConnectionInvariant, TypeOK
  <2> QED BY <2>1
<1>2. TypeOK'
  BY DEF ConnectionInvariant, TypeOK
<1>3. OneIsUsed'
  BY DEF OneIsUsed
<1>4. CacheInv'
  BY <1>1 DEF ConnectionInvariant, CacheInv, Opened
<1>5. SwitchedOK'
  BY <1>1 DEF ConnectionInvariant, SwitchedOK
<1>6. ProcessesOK'
  BY DEF ProcessesOK
<1> QED BY <1>2, <1>3, <1>4, <1>5, <1>6 DEF ConnectionInvariant

\* A step after which no keyword runs, and none has an answer.
LEMMA IdleKeyword ==
    ASSUME keyword' = NoKeyword \/ keyword' = [NoKeyword EXCEPT !.passed = FALSE]
    PROVE  keyword' \in KeywordType /\ KeywordOK'
<1>1. <<>> \in Seq(Steps) /\ <<>> \in Seq(Tokens)
  OBVIOUS
<1>2. \A passed \in BOOLEAN:
          [kw |-> "none", command |-> NoAlias, steps |-> <<>>, read |-> <<>>, clean |-> FALSE,
           level |-> TRUE, tries |-> 0, passed |-> passed] \in KeywordType
  BY <1>1 DEF KeywordType
<1>3. \E passed \in BOOLEAN:
          keyword' = [kw |-> "none", command |-> NoAlias, steps |-> <<>>, read |-> <<>>, clean |-> FALSE,
                      level |-> TRUE, tries |-> 0, passed |-> passed]
  <2>1. CASE keyword' = NoKeyword
    BY <2>1 DEF NoKeyword
  <2>2. CASE keyword' = [NoKeyword EXCEPT !.passed = FALSE]
    BY <2>2 DEF NoKeyword
  <2> QED BY <2>1, <2>2
<1>4. keyword' \in KeywordType
  BY <1>2, <1>3
<1>5. keyword'.steps = <<>> /\ keyword'.kw = "none"
  BY <1>3
<1> QED BY <1>4, <1>5 DEF KeywordOK, Running

LEMMA OpenConnectionStep ==
    ASSUME ConnectionInvariant, processes = <<>>, NEW alias \in STRING \cup {NoAlias}, OpenConnection(alias)
    PROVE  ConnectionInvariant'
<1> DEFINE n == Len(telnet)
<1>1. n \in Nat /\ telnet \in Seq(StreamType) /\ CacheOK(connectionCache, registered, n)
  BY TelnetOpened DEF ConnectionInvariant, TypeOK, CacheInv
<1>2. [unread |-> <<Prompt>>, open |-> TRUE, prompt |-> TRUE] \in StreamType
  <2>1. Prompt \in Tokens
    BY DEF Prompt, Token, Tokens, Words, Texts
  <2> QED BY <2>1 DEF StreamType
<1>3. telnet' \in Seq(StreamType) /\ Len(telnet') = n + 1 /\ telnet' # <<>>
  BY <1>1, <1>2 DEF OpenConnection
<1>4. TypeOK'
  BY <1>3 DEF ConnectionInvariant, TypeOK, OpenConnection
<1>5. OneIsUsed'
  BY DEF OneIsUsed, OpenConnection
<1>6. /\ connectionCache' = RegisterIn(connectionCache, n + 1, alias)
      /\ registered' = IF alias = NoAlias THEN registered
                       ELSE [a \in DOMAIN registered \cup {alias} |->
                                IF a = alias THEN n + 1 ELSE registered[a]]
  BY DEF OpenConnection, Remember
<1>7. CacheOK(connectionCache', registered', n + 1)
  BY <1>1, <1>6, RegisterKeeps
<1>8. CacheInv'
  BY <1>3, <1>7 DEF CacheInv, Opened
<1>9. SwitchedOK'
  <2> DEFINE cs == connectionCache.connections
  <2>1. cs \in Seq(Nat)
    BY <1>1 DEF CacheOK, CacheType
  <2>2. connectionCache'.connections = Append(cs, n + 1)
    BY <1>6 DEF RegisterIn
  <2>3. \A i \in DOMAIN cs: i \in DOMAIN Append(cs, n + 1) /\ Append(cs, n + 1)[i] = cs[i]
    BY <2>1, <1>1
  <2>4. switched' = switched
    BY DEF OpenConnection
  <2> QED BY <1>3, <2>2, <2>3, <2>4 DEF SwitchedOK, ConnectionInvariant
<1>10. ProcessesOK'
  BY DEF ProcessesOK, OpenConnection
<1>11. KeywordOK'
  <2>1. keyword' = keyword /\ ~Running
    BY DEF OpenConnection
  <2> QED BY <2>1 DEF ConnectionInvariant, KeywordOK, Running, Done
<1> QED BY <1>4, <1>5, <1>8, <1>9, <1>10, <1>11 DEF ConnectionInvariant

LEMMA SwitchConnectionStep ==
    ASSUME ConnectionInvariant, processes = <<>>, NEW name \in ConnectionNames, SwitchConnection(name)
    PROVE  ConnectionInvariant'
<1> DEFINE i == GetIndex(connectionCache, name)
<1>1. Opened \in Nat /\ CacheOK(connectionCache, registered, Opened)
  BY TelnetOpened DEF ConnectionInvariant, CacheInv
<1>2. name \in [alias: STRING, number: Nat]
  BY ConnectionsAssumption DEF ConnectionsAssumption
<1>3. i \in DOMAIN connectionCache.connections
  BY <1>1, <1>2, IndexInUse DEF SwitchConnection
<1>4. connectionCache' = Switched(connectionCache, i)
  BY DEF SwitchConnection
<1>5. CacheOK(connectionCache', registered, Opened)
  <2> HIDE DEF i
  <2> QED BY <1>1, <1>3, <1>4, SwitchKeeps
<1>6. connectionCache'.connections = connectionCache.connections
  BY <1>1, <1>4 DEF CacheOK, CacheType, Switched
<1>7. CacheInv'
  BY <1>5 DEF SwitchConnection, CacheInv, Opened
<1>8. switched'.index = connectionCache.current
      /\ switched'.connection = (IF HasCurrent THEN CurrentConnection ELSE NoConnection)
      /\ switched' \in [index: Nat, connection: Nat]
  <2>1. connectionCache.current \in Nat
    BY <1>1 DEF CacheOK, CacheType
  <2>2. CASE HasCurrent
    <3>1. CurrentConnection \in Nat
      BY <2>2, <1>1, CurrentOpened DEF ConnectionInvariant
    <3> QED BY <2>1, <2>2, <3>1 DEF SwitchConnection, OldIndex
  <2>3. CASE ~HasCurrent
    BY <2>1, <2>3 DEF SwitchConnection, OldIndex, NoConnection
  <2> QED BY <2>2, <2>3
<1>9. SwitchedOK'
  <2> SUFFICES ASSUME switched'.index # NoConnection
               PROVE  /\ telnet' # <<>>
                      /\ switched'.index \in DOMAIN connectionCache'.connections
                      /\ connectionCache'.connections[switched'.index] = switched'.connection
    BY DEF SwitchedOK
  <2>1. HasCurrent
    BY <1>8 DEF HasCurrent
  <2>2. telnet' # <<>>
    BY <2>1, CurrentIsTelnet DEF ConnectionInvariant, SwitchConnection
  <2>3. connectionCache.current \in DOMAIN connectionCache.connections
    BY <2>1, <1>1 DEF CacheOK, HasCurrent
  <2> QED BY <2>1, <2>2, <2>3, <1>6, <1>8 DEF CurrentConnection
<1>10. TypeOK'
  BY <1>8 DEF ConnectionInvariant, TypeOK, SwitchConnection
<1>11. OneIsUsed' /\ ProcessesOK'
  BY DEF OneIsUsed, ProcessesOK, SwitchConnection
<1>12. KeywordOK'
  <2>1. keyword' = keyword /\ ~Running
    BY DEF SwitchConnection
  <2> QED BY <2>1 DEF ConnectionInvariant, KeywordOK, Running, Done
<1> QED BY <1>7, <1>9, <1>10, <1>11, <1>12 DEF ConnectionInvariant

LEMMA CloseAllConnectionsStep ==
    ASSUME ConnectionInvariant, processes = <<>>, CloseAllConnections
    PROVE  ConnectionInvariant'
<1>1. telnet \in Seq(StreamType) /\ DOMAIN telnet = 1..Len(telnet) /\ Len(telnet) \in Nat
  BY DEF ConnectionInvariant, TypeOK
<1>2. \A c \in DOMAIN telnet: /\ telnet[c] \in StreamType
                              /\ [telnet[c] EXCEPT !.open = FALSE, !.unread = <<>>] \in StreamType
  <2>1. \A s \in StreamType: [s EXCEPT !.open = FALSE, !.unread = <<>>] \in StreamType
    <3>1. <<>> \in Seq(Tokens)
      OBVIOUS
    <3> QED BY <3>1 DEF StreamType
  <2> TAKE c \in DOMAIN telnet
  <2>2. telnet[c] \in StreamType
    BY <1>1
  <2> QED BY <2>1, <2>2
<1>9. processes' = <<>>
  BY DEF CloseAllConnections
<1>3. telnet' \in Seq(StreamType)
  <2> DEFINE closed(c) == IF c \in Range(connectionCache.connections)
                          THEN [telnet[c] EXCEPT !.open = FALSE, !.unread = <<>>] ELSE telnet[c]
  <2>1. \A c \in 1..Len(telnet): closed(c) \in StreamType
    BY <1>1, <1>2
  <2>2. telnet' = [c \in 1..Len(telnet) |-> closed(c)]
    BY <1>1 DEF CloseAllConnections
  <2> HIDE DEF closed
  <2> QED BY <1>1, <2>1, <2>2
<1>4. TypeOK'
  BY <1>3 DEF ConnectionInvariant, TypeOK, CloseAllConnections, NoConnection
<1>5. CacheInv'
  <2>1. Len(telnet') \in Nat /\ Len(processes') \in Nat
    BY <1>3, <1>9
  <2>2. Opened' \in Nat
    BY <2>1 DEF Opened
  <2>3. CacheOK(EmptyCache, <<>>, Opened')
    BY <2>2, EmptyKeeps
  <2> QED BY <2>3 DEF CacheInv, CloseAllConnections, Emptied
<1>6. SwitchedOK'
  <2>1. switched'.index = NoConnection
    BY DEF CloseAllConnections
  <2> QED BY <2>1 DEF SwitchedOK
<1>8. OneIsUsed' /\ ProcessesOK'
  BY <1>9 DEF OneIsUsed, ProcessesOK
<1>7. KeywordOK'
  <2>1. keyword' = keyword /\ ~Running
    BY DEF CloseAllConnections
  <2> QED BY <2>1 DEF ConnectionInvariant, KeywordOK, Running, Done
<1> QED BY <1>4, <1>5, <1>6, <1>7, <1>8 DEF ConnectionInvariant

\* A step that gives the current connection another stream.
LEMMA StreamChanges ==
    ASSUME TypeOK, CacheInv, HasCurrent, telnet # <<>>, connectionCache' = connectionCache,
           NEW s \in StreamType, telnet' = [telnet EXCEPT ![CurrentConnection] = s]
    PROVE  telnet' \in Seq(StreamType) /\ Len(telnet') = Len(telnet) /\ Stream' = s
<1>1. CurrentConnection \in DOMAIN telnet /\ telnet \in Seq(StreamType)
  BY CurrentStream DEF TypeOK
<1>2. telnet' \in Seq(StreamType) /\ Len(telnet') = Len(telnet)
  <2> DEFINE c == CurrentConnection
  <2>1. telnet' = [telnet EXCEPT ![c] = s] /\ c \in DOMAIN telnet
    BY <1>1
  <2> HIDE DEF c
  <2> QED BY <1>1, <2>1
<1>3. telnet'[CurrentConnection] = s
  BY <1>1
<1>4. Stream' = s
  BY <1>3 DEF Stream, CurrentConnection
<1> QED BY <1>2, <1>4

\* The running keyword has a stream, and its step is one of those it can have.
LEMMA RunningStep ==
    ASSUME ConnectionInvariant, Running
    PROVE  /\ HasCurrent /\ telnet # <<>> /\ Stream \in StreamType
           /\ keyword.steps \in Seq(Steps) /\ Step \in Steps /\ Tail(keyword.steps) \in Seq(Steps)
<1>1. HasCurrent /\ telnet # <<>>
  BY DEF ConnectionInvariant, KeywordOK
<1>2. Stream \in StreamType
  BY <1>1, CurrentStream DEF ConnectionInvariant
<1>3. keyword.steps \in Seq(Steps)
  BY DEF ConnectionInvariant, TypeOK, KeywordType
<1>4. keyword.steps # <<>>
  BY DEF Running
<1> QED BY <1>1, <1>2, <1>3, <1>4 DEF Step

\* What is left of the steps of a keyword.
LEMMA TailIs ==
    ASSUME NEW S, NEW s \in Seq(S), NEW t \in Seq(S), Len(s) = Len(t) + 1,
           \A i \in 1..Len(t): s[i + 1] = t[i]
    PROVE  Tail(s) = t
<1>1. s # <<>>
  OBVIOUS
<1>2. /\ Tail(s) \in Seq(S) /\ Len(Tail(s)) = Len(s) - 1
      /\ \A i \in 1..Len(Tail(s)): Tail(s)[i] = s[i + 1]
  BY <1>1, HeadTailProperties
<1>3. Len(Tail(s)) = Len(t)
  BY <1>2
<1>4. \A i \in 1..Len(Tail(s)): Tail(s)[i] = t[i]
  BY <1>2, <1>3
<1> QED BY <1>2, <1>3, <1>4, SeqEqual

LEMMA ShortTails ==
    /\ \A a: Head(<<a>>) = a /\ Tail(<<a>>) = <<>>
    /\ \A a, b: Head(<<a, b>>) = a /\ Tail(<<a, b>>) = <<b>>
    /\ \A a, b, c: Head(<<a, b, c>>) = a /\ Tail(<<a, b, c>>) = <<b, c>>
<1>1. ASSUME NEW a
      PROVE  Head(<<a>>) = a /\ Tail(<<a>>) = <<>>
  <2>1. <<a>> \in Seq({a}) /\ Len(<<a>>) = 1 /\ <<a>>[1] = a
    OBVIOUS
  <2>2. Tail(<<a>>) \in Seq({a}) /\ Len(Tail(<<a>>)) = 0
    BY <2>1
  <2> QED BY <2>1, <2>2
<1>2. ASSUME NEW a, NEW b
      PROVE  Head(<<a, b>>) = a /\ Tail(<<a, b>>) = <<b>>
  <2> DEFINE s == <<a, b>>
             t == <<b>>
  <2>1. s \in Seq({a, b}) /\ Len(s) = 2 /\ s[1] = a /\ s[2] = b /\ Head(s) = a
    OBVIOUS
  <2>2. t \in Seq({a, b}) /\ Len(t) = 1 /\ t[1] = b
    OBVIOUS
  <2> HIDE DEF s, t
  <2>3. Len(s) = Len(t) + 1
    BY <2>1, <2>2
  <2>4. \A i \in 1..Len(t): s[i + 1] = t[i]
    <3>1. \A i \in 1..1: i = 1 /\ i + 1 = 2
      OBVIOUS
    <3> QED BY <3>1, <2>1, <2>2
  <2>5. Tail(s) = t
    BY <2>1, <2>2, <2>3, <2>4, TailIs
  <2> QED BY <2>1, <2>5 DEF s, t
<1>3. ASSUME NEW a, NEW b, NEW c
      PROVE  Head(<<a, b, c>>) = a /\ Tail(<<a, b, c>>) = <<b, c>>
  <2> DEFINE s == <<a, b, c>>
             t == <<b, c>>
  <2>1. s \in Seq({a, b, c}) /\ Len(s) = 3 /\ s[1] = a /\ s[2] = b /\ s[3] = c /\ Head(s) = a
    OBVIOUS
  <2>2. t \in Seq({a, b, c}) /\ Len(t) = 2 /\ t[1] = b /\ t[2] = c
    OBVIOUS
  <2> HIDE DEF s, t
  <2>3. Len(s) = Len(t) + 1
    BY <2>1, <2>2
  <2>4. \A i \in 1..Len(t): s[i + 1] = t[i]
    <3>1. \A i \in 1..2: (i = 1 /\ i + 1 = 2) \/ (i = 2 /\ i + 1 = 3)
      OBVIOUS
    <3> QED BY <3>1, <2>1, <2>2
  <2>5. Tail(s) = t
    BY <2>1, <2>2, <2>3, <2>4, TailIs
  <2> QED BY <2>1, <2>5 DEF s, t
<1> QED BY <1>1, <1>2, <1>3

\* The step of a keyword that runs is not past its end, so while it runs
\* Execute Command has asked, has been sent its answer or has begun to read it.
LEMMA RunningExecutes ==
    ASSUME ConnectionInvariant, Running, keyword.kw = "Execute Command", keyword.clean
    PROVE  \/ Asked(keyword, Stream.unread) /\ Step = SendStep(keyword.command)
           \/ /\ Sent(keyword, Stream.unread) /\ Step = Until("newline")
              /\ Tail(keyword.steps) = <<Until("prompt")>>
           \/ /\ Begun(keyword, Stream.unread) /\ Step = Until("prompt")
              /\ Tail(keyword.steps) = <<>>
<1>1. ~Done(keyword)
  BY DEF Running, Done
<1>2. Executed(keyword, Stream.unread)
  BY <1>1 DEF ConnectionInvariant, KeywordOK
<1>3. CASE Asked(keyword, Stream.unread)
  <2>1. keyword.steps = <<SendStep(keyword.command), Until("newline"), Until("prompt")>>
    BY <1>3, ExecuteSteps DEF Asked
  <2>2. Step = SendStep(keyword.command)
    <3>1. \A a, b, c: Head(<<a, b, c>>) = a
      BY ShortTails
    <3>2. Head(<<SendStep(keyword.command), Until("newline"), Until("prompt")>>) = SendStep(keyword.command)
      BY ONLY <3>1
    <3> QED BY <2>1, <3>2 DEF Step
  <2> QED BY <1>3, <2>2
<1>4. CASE Sent(keyword, Stream.unread)
  <2>1. keyword.steps = <<Until("newline"), Until("prompt")>>
    BY <1>4 DEF Sent
  <2>2. Head(<<Until("newline"), Until("prompt")>>) = Until("newline")
        /\ Tail(<<Until("newline"), Until("prompt")>>) = <<Until("prompt")>>
    BY ONLY ShortTails
  <2> QED BY <1>4, <2>1, <2>2 DEF Step
<1>5. CASE Begun(keyword, Stream.unread)
  <2>1. keyword.steps = <<Until("prompt")>>
    BY <1>5 DEF Begun
  <2> QED BY <1>5, <2>1, ShortTails DEF Step
<1> QED BY <1>1, <1>2, <1>3, <1>4, <1>5 DEF Executed

LEMMA BeginKeywordStep ==
    ASSUME ConnectionInvariant, processes = <<>>, NEW kw \in Keywords, NEW command \in Commands,
           NEW level \in BOOLEAN, BeginKeyword(kw, command, level)
    PROVE  ConnectionInvariant'
<1>1. HasCurrent /\ HasCurrent' /\ UNCHANGED <<connectionCache, telnet, switched, registered, processes>>
  BY DEF BeginKeyword, HasCurrent
<1>2. telnet # <<>> /\ telnet' \in Seq(StreamType) /\ Len(telnet') = Len(telnet)
  BY <1>1, CurrentIsTelnet DEF ConnectionInvariant, TypeOK
<1>3. Stream \in StreamType /\ Stream' = Stream
  BY <1>1, <1>2, CurrentStream DEF ConnectionInvariant, Stream, CurrentConnection
<1>4. keyword' = [kw |-> kw, command |-> command, steps |-> StepsOf(kw, command), read |-> <<>>,
                  clean |-> Stream.unread = <<>>, level |-> level, tries |-> 0, passed |-> TRUE]
  BY DEF BeginKeyword, NoKeyword
<1>5. StepsOf(kw, command) \in Seq(Steps) /\ StepsOf(kw, command) # <<>>
  BY StepsTyped
<1>6. keyword' \in KeywordType
  <2>1. <<>> \in Seq(Tokens)
    OBVIOUS
  <2> QED BY <1>4, <1>5, <2>1 DEF KeywordType
<1>7. KeywordOK'
  <2>1. Running' /\ telnet' # <<>> /\ HasCurrent'
    BY <1>4, <1>5, <1>1, <1>2 DEF Running
  <2>2. ASSUME keyword'.kw = "Execute Command", keyword'.clean
        PROVE  Asked(keyword', Stream'.unread)
    <3>1. keyword'.steps = StepsOf(kw, command) /\ keyword'.command = command /\ keyword'.kw = kw
          /\ keyword'.clean = (Stream.unread = <<>>)
      BY <1>4
    <3>2. StepsOf("Execute Command", command) = ExecuteCommand(command)
      BY DEF StepsOf
    <3> QED BY <2>2, <3>1, <3>2, <1>3 DEF Asked
  <2> QED BY <2>1, <2>2 DEF KeywordOK, Executed
<1> QED BY <1>1, <1>2, <1>6, <1>7, StreamStep

LEMMA SendTextStep ==
    ASSUME ConnectionInvariant, processes = <<>>, SendText
    PROVE  ConnectionInvariant'
<1>1. /\ Running /\ Step.do = "send" /\ UNCHANGED <<connectionCache, switched, registered, processes>>
  BY DEF SendText
<1>2. /\ HasCurrent /\ telnet # <<>> /\ Stream \in StreamType
      /\ keyword.steps \in Seq(Steps) /\ Step \in Steps /\ Tail(keyword.steps) \in Seq(Steps)
  BY <1>1, RunningStep
<1>3. TypeOK /\ CacheInv /\ telnet \in Seq(StreamType) /\ keyword \in KeywordType
  BY DEF ConnectionInvariant, TypeOK
<1>4. CASE Fails /\ telnet' = telnet
  <2>1. telnet' \in Seq(StreamType) /\ Len(telnet') = Len(telnet)
    BY <1>3, <1>4
  <2>2. keyword' \in KeywordType /\ KeywordOK'
    BY <1>4, IdleKeyword DEF Fails
  <2> QED BY <1>1, <1>2, <2>1, <2>2, StreamStep
<1>5. ASSUME NEW reply \in {AnswerTo(Step.what), NoOutput(Step.what)},
             telnet' = [telnet EXCEPT ![CurrentConnection].unread = @ \o reply],
             keyword' = [keyword EXCEPT !.steps = Tail(@), !.tries = @ + 1]
      PROVE  ConnectionInvariant'
  <2> DEFINE s == [Stream EXCEPT !.unread = Stream.unread \o reply]
  <2>1. telnet' = [telnet EXCEPT ![CurrentConnection] = s]
    BY <1>5 DEF Stream
  <2>2. Stream.unread \in Seq(Tokens)
    BY <1>2 DEF StreamType
  <2>3. Step.what \in Words /\ reply \in Seq(Tokens)
    <3>1. Step.what \in Words
      BY <1>2 DEF Steps
    <3> QED BY <3>1, AnswersTyped DEF Answers
  <2>4. Stream.unread \o reply \in Seq(Tokens)
    BY <2>2, <2>3, ConcatProperties
  <2>5. s \in StreamType /\ s.unread = Stream.unread \o reply
    BY <1>2, <2>4 DEF StreamType
  <2>6. telnet' \in Seq(StreamType) /\ Len(telnet') = Len(telnet) /\ Stream' = s
    <3> HIDE DEF s
    <3> QED BY <1>1, <1>2, <1>3, <2>1, <2>5, StreamChanges
  <2>7. keyword' \in KeywordType
    <3>1. keyword.tries + 1 \in Nat
      BY <1>3 DEF KeywordType
    <3>2. keyword' = [keyword EXCEPT !.steps = Tail(keyword.steps), !.tries = keyword.tries + 1]
      BY <1>5
    <3> QED BY <1>2, <1>3, <3>1, <3>2 DEF KeywordType
  <2>8. /\ keyword'.steps = Tail(keyword.steps) /\ keyword'.kw = keyword.kw
        /\ keyword'.clean = keyword.clean /\ keyword'.command = keyword.command
        /\ keyword'.read = keyword.read
    BY <1>3, <1>5 DEF KeywordType
  <2>9. HasCurrent' /\ telnet' # <<>>
    <3>1. \A t \in Seq(StreamType): Len(t) = Len(telnet) => t # <<>>
      BY <1>2, <1>3
    <3> QED BY <1>1, <1>2, <2>6, <3>1 DEF HasCurrent
  <2>10. ASSUME keyword.kw = "Execute Command", keyword.clean
         PROVE  Running' /\ Sent(keyword', Stream'.unread)
    <3>1. Asked(keyword, Stream.unread) /\ Step = SendStep(keyword.command)
      <4>1. Step # Until("newline") /\ Step # Until("prompt")
        BY <1>1 DEF Until
      <4> QED BY <4>1, <1>1, <2>10, RunningExecutes
    <3>2. reply \in Answers(keyword.command)
      BY <3>1 DEF SendStep, Answers
    <3>3. Stream'.unread = reply
      <4>1. <<>> \o reply = reply
        BY <2>3, ConcatEmptySeq
      <4> QED BY <4>1, <3>1, <2>5, <2>6 DEF Asked
    <3>4. Tail(keyword.steps) = <<Until("newline"), Until("prompt")>>
      <4>1. keyword.steps = <<SendStep(keyword.command), Until("newline"), Until("prompt")>>
        BY <3>1, ExecuteSteps DEF Asked
      <4>2. \A a, b, c: Tail(<<a, b, c>>) = <<b, c>>
        BY ShortTails
      <4>3. Tail(<<SendStep(keyword.command), Until("newline"), Until("prompt")>>) = <<Until("newline"), Until("prompt")>>
        BY ONLY <4>2
      <4> QED BY <4>1, <4>3
    <3>5. Running'
      <4>1. \A a, b: <<a, b>> # <<>>
        OBVIOUS
      <4> QED BY <4>1, <3>4, <2>8 DEF Running
    <3> QED BY <3>1, <3>2, <3>3, <3>4, <3>5, <2>8 DEF Asked, Sent
  <2>11. KeywordOK'
    BY <2>8, <2>9, <2>10 DEF KeywordOK, Executed
  <2> QED BY <1>1, <1>2, <2>6, <2>7, <2>11, StreamStep
<1> QED BY <1>1, <1>4, <1>5 DEF SendText

\* Reading takes tokens from the front of a stream.
LEMMA StreamIsRead ==
    ASSUME NEW s \in StreamType, NEW n \in 0..Len(s.unread)
    PROVE  /\ s.unread \in Seq(Tokens)
           /\ [s EXCEPT !.unread = SubSeq(s.unread, n + 1, Len(s.unread))] \in StreamType
           /\ SubSeq(s.unread, 1, n) \in Seq(Tokens)
<1> DEFINE u == s.unread
<1>1. u \in Seq(Tokens) /\ Len(u) \in Nat /\ n \in Nat
  BY DEF StreamType
<1>2. \A i \in 1..Len(u): u[i] \in Tokens
  BY <1>1
<1>3. SubSeq(u, n + 1, Len(u)) \in Seq(Tokens)
  <2>1. \A i \in (n + 1)..Len(u): u[i] \in Tokens
    BY <1>1, <1>2
  <2> QED BY <2>1, <1>1, SubSeqProperties
<1>4. SubSeq(u, 1, n) \in Seq(Tokens)
  <2>1. \A i \in 1..n: u[i] \in Tokens
    BY <1>1, <1>2
  <2> QED BY <2>1, <1>1, SubSeqProperties
<1> QED BY <1>1, <1>3, <1>4 DEF StreamType

\* The echo of an answer ends at its second token ...
LEMMA EchoEnds ==
    ASSUME NEW command \in Words, NEW A \in Answers(command),
           NEW end, end = First("newline", A)
    PROVE  end = 2
<1>1. A \in Seq(Tokens) /\ Len(A) \in {4, 5} /\ A[1].what = "echo" /\ A[2].what = "newline"
  BY AnswersTyped
<1>2. 2 \in Sees("newline", A)
  BY <1>1 DEF Sees
<1>3. /\ end \in 1..Len(A) /\ A[end].what = "newline"
      /\ \A j \in 1..Len(A): A[j].what = "newline" => end <= j
  <2>1. Sees("newline", A) # {}
    BY <1>2
  <2> QED BY <2>1, <1>1, FirstSeen
<1>4. end <= 2 /\ end # 1
  <2>1. 2 \in 1..Len(A)
    BY <1>1
  <2> QED BY <2>1, <1>1, <1>3
<1> QED BY <1>3, <1>4

\* ... and its prompt at its last.
LEMMA PromptEnds ==
    ASSUME NEW command \in Words, NEW A \in Answers(command), NEW rest, rest = AfterEcho(A),
           NEW end, end = First("prompt", rest)
    PROVE  rest \in Seq(Tokens) /\ end = Len(rest) /\ SubSeq(rest, 1, end) = rest
<1>1. /\ A \in Seq(Tokens) /\ Len(A) \in {4, 5} /\ A[Len(A)].what = "prompt"
      /\ \A i \in 3..(Len(A) - 1): A[i].what # "prompt"
  BY AnswersTyped
<1>2. rest \in Seq(Tokens) /\ Len(rest) = Len(A) - 2 /\ \A i \in 1..(Len(A) - 2): rest[i] = A[i + 2]
  <2>1. \A i \in 3..Len(A): A[i] \in Tokens
    BY <1>1
  <2>2. /\ rest \in Seq(Tokens) /\ Len(rest) = IF 3 <= Len(A) THEN Len(A) - 3 + 1 ELSE 0
        /\ \A i \in 1..(Len(A) - 3 + 1): rest[i] = A[3 + i - 1]
    <3>1. Len(A) \in Int /\ 3 \in Int
      BY <1>1
    <3> QED BY <2>1, <3>1, SubSeqProperties DEF AfterEcho
  <2>3. Len(rest) = Len(A) - 2
    BY <2>2, <1>1
  <2>4. \A i \in 1..(Len(A) - 2): i \in 1..(Len(A) - 3 + 1) /\ 3 + i - 1 = i + 2
    BY <1>1
  <2> QED BY <2>2, <2>3, <2>4
<1>3. Len(rest) \in 1..Len(rest) /\ rest[Len(rest)].what = "prompt"
  BY <1>1, <1>2
<1>4. /\ end \in 1..Len(rest) /\ rest[end].what = "prompt"
      /\ \A j \in 1..Len(rest): rest[j].what = "prompt" => end <= j
  <2>1. Len(rest) \in Sees("prompt", rest)
    BY <1>2, <1>3 DEF Sees
  <2>2. Sees("prompt", rest) # {}
    BY <2>1
  <2>3. ASSUME NEW r \in Seq(Tokens), Sees("prompt", r) # {}
        PROVE  /\ First("prompt", r) \in 1..Len(r) /\ r[First("prompt", r)].what = "prompt"
               /\ \A j \in 1..Len(r): r[j].what = "prompt" => First("prompt", r) <= j
    BY <2>3, FirstSeen
  <2> QED BY <2>2, <2>3, <1>2
<1>5. end = Len(rest)
  <2>1. CASE end < Len(rest)
    <3>1. end + 2 \in 3..(Len(A) - 1) /\ end \in 1..(Len(A) - 2)
      BY <2>1, <1>1, <1>2, <1>4
    <3>2. rest[end] = A[end + 2]
      BY <3>1, <1>2
    <3> QED BY <3>1, <3>2, <1>1, <1>4
  <2>2. Len(rest) \in Nat /\ end \in Nat /\ end <= Len(rest)
    BY <1>2, <1>4
  <2> QED BY <2>1, <2>2
<1>6. SubSeq(rest, 1, Len(rest)) = rest
  BY <1>2, SubSeqFull
<1> QED BY <1>2, <1>5, <1>6

\* A step of a running keyword that takes tokens from its stream.
LEMMA ReadStep ==
    ASSUME ConnectionInvariant, processes = <<>>, Running,
           UNCHANGED <<connectionCache, switched, registered, processes>>,
           NEW n \in 0..Len(Stream.unread),
           telnet' = [telnet EXCEPT ![CurrentConnection].unread = SubSeq(@, n + 1, Len(@))],
           keyword' \in KeywordType,
           HasCurrent' /\ Stream'.unread = SubSeq(Stream.unread, n + 1, Len(Stream.unread))
               /\ telnet' # <<>> => KeywordOK'
    PROVE  ConnectionInvariant'
<1> DEFINE s == [Stream EXCEPT !.unread = SubSeq(Stream.unread, n + 1, Len(Stream.unread))]
<1>1. /\ HasCurrent /\ telnet # <<>> /\ Stream \in StreamType /\ TypeOK /\ CacheInv
      /\ telnet \in Seq(StreamType)
  BY RunningStep DEF ConnectionInvariant, TypeOK
<1>2. telnet' = [telnet EXCEPT ![CurrentConnection] = s]
  BY DEF Stream
<1>3. s \in StreamType /\ s.unread = SubSeq(Stream.unread, n + 1, Len(Stream.unread))
  BY <1>1, StreamIsRead DEF StreamType
<1>4. telnet' \in Seq(StreamType) /\ Len(telnet') = Len(telnet) /\ Stream' = s
  <2> HIDE DEF s
  <2> QED BY <1>1, <1>2, <1>3, StreamChanges
<1>5. telnet' # <<>> /\ HasCurrent'
  <2>1. \A t \in Seq(StreamType): Len(t) = Len(telnet) => t # <<>>
    BY <1>1
  <2> QED BY <1>1, <1>4, <2>1 DEF HasCurrent
<1>6. KeywordOK'
  BY <1>3, <1>4, <1>5
<1> QED BY <1>1, <1>4, <1>6, StreamStep

LEMMA ReadMatchStep ==
    ASSUME ConnectionInvariant, processes = <<>>, ReadMatch
    PROVE  ConnectionInvariant'
<1> DEFINE seen == Sees(Step.what, Stream.unread)
           end == First(Step.what, Stream.unread)
<1>1. /\ Running /\ Step.do # "send" /\ seen # {}
      /\ telnet' = [telnet EXCEPT ![CurrentConnection].unread = SubSeq(@, end + 1, Len(@))]
      /\ IF keyword.level THEN GoesOn(SubSeq(Stream.unread, 1, end)) ELSE Fails
      /\ UNCHANGED <<connectionCache, switched, registered, processes>>
  BY DEF ReadMatch, Reads, First
<1>2. Stream \in StreamType /\ Stream.unread \in Seq(Tokens)
      /\ Tail(keyword.steps) \in Seq(Steps) /\ keyword \in KeywordType
  BY <1>1, RunningStep DEF ConnectionInvariant, TypeOK, StreamType
<1>3. end \in 1..Len(Stream.unread)
  BY <1>1, <1>2, FirstSeen
<1>4. end \in 0..Len(Stream.unread)
  BY <1>2, <1>3
<1>5. CASE Fails
  <2>1. keyword' \in KeywordType /\ KeywordOK'
    BY <1>5, IdleKeyword DEF Fails
  <2> HIDE DEF end
  <2> QED BY <1>1, <1>4, <2>1, ReadStep
<1>6. CASE GoesOn(SubSeq(Stream.unread, 1, end))
  <2> DEFINE read == SubSeq(Stream.unread, 1, end)
             rest == SubSeq(Stream.unread, end + 1, Len(Stream.unread))
  <2>1. read \in Seq(Tokens)
    <3> HIDE DEF end
    <3> QED BY <1>2, <1>4, StreamIsRead
  <2>4. keyword' = [keyword EXCEPT !.steps = Tail(keyword.steps), !.read = read]
    BY <1>6 DEF GoesOn
  <2>5. keyword' \in KeywordType
    <3> HIDE DEF read
    <3> QED BY <1>2, <2>1, <2>4 DEF KeywordType
  <2>6. /\ keyword'.steps = Tail(keyword.steps) /\ keyword'.kw = keyword.kw
        /\ keyword'.clean = keyword.clean /\ keyword'.command = keyword.command
        /\ keyword'.read = read
    <3> HIDE DEF read
    <3> QED BY <1>2, <2>4 DEF KeywordType
  <2>7. ASSUME keyword.kw = "Execute Command", keyword.clean, Stream'.unread = rest
        PROVE  \/ Running' /\ Executed(keyword', Stream'.unread)
               \/ Done(keyword')
    <3>1. keyword.command \in Words
      BY <1>2 DEF KeywordType, Words
    <3>2. Step # SendStep(keyword.command)
      BY <1>1 DEF SendStep
    <3>3. CASE /\ Sent(keyword, Stream.unread) /\ Step = Until("newline")
               /\ Tail(keyword.steps) = <<Until("prompt")>>
      <4> DEFINE A == Stream.unread
      <4>1. A \in Answers(keyword.command)
        BY <3>3 DEF Sent
      <4>2. Step.what = "newline"
        BY <3>3 DEF Until
      <4>3. end = 2
        BY <4>1, <4>2, <3>1, EchoEnds
      <4>5. Stream'.unread = AfterEcho(A)
        <5>1. \A n: n = 2 => n + 1 = 3
          OBVIOUS
        <5>2. end + 1 = 3
          <6> HIDE DEF end
          <6> QED BY <4>3, <5>1
        <5> HIDE DEF end
        <5> QED BY <5>2, <2>7 DEF AfterEcho
      <4>6. keyword'.steps = <<Until("prompt")>>
        BY <3>3, <2>6
      <4>7. Begun(keyword', Stream'.unread)
        BY <4>1, <4>5, <4>6, <2>6 DEF Begun
      <4>8. Running'
        <5>1. \A a: <<a>> # <<>>
          OBVIOUS
        <5> QED BY <5>1, <4>6 DEF Running
      <4> QED BY <4>7, <4>8 DEF Executed
    <3>4. CASE /\ Begun(keyword, Stream.unread) /\ Step = Until("prompt")
               /\ Tail(keyword.steps) = <<>>
      <4>1. PICK A \in Answers(keyword.command): Stream.unread = AfterEcho(A)
        BY <3>4 DEF Begun
      <4>2. Step.what = "prompt"
        BY <3>4 DEF Until
      <4>3. read = AfterEcho(A)
        <5>1. \A r: r = AfterEcho(A) => SubSeq(r, 1, First("prompt", r)) = r
          BY <4>1, <3>1, PromptEnds
        <5>2. end = First("prompt", Stream.unread)
          BY <4>2
        <5> HIDE DEF end
        <5> QED BY <5>1, <5>2, <4>1
      <4>4. keyword'.read = AfterEcho(A) /\ keyword'.steps = <<>>
        BY <4>3, <3>4, <2>6
      <4> QED BY <4>1, <4>4, <2>6 DEF Done
    <3> QED BY <3>2, <3>3, <3>4, <1>1, <2>7, RunningExecutes
  <2>8. HasCurrent' /\ Stream'.unread = rest /\ telnet' # <<>> => KeywordOK'
    BY <2>6, <2>7 DEF KeywordOK
  <2> HIDE DEF end
  <2> QED BY <1>1, <1>4, <2>5, <2>8, ReadStep
<1> QED BY <1>1, <1>5, <1>6

LEMMA ReadTimeoutStep ==
    ASSUME ConnectionInvariant, processes = <<>>, ReadTimeout
    PROVE  ConnectionInvariant'
<1>1. /\ Running /\ Step.do # "send"
      /\ UNCHANGED <<connectionCache, switched, registered, processes>>
  BY DEF ReadTimeout, Reads
<1>2. PICK n \in 0..Len(Stream.unread):
          telnet' = [telnet EXCEPT ![CurrentConnection].unread = SubSeq(@, n + 1, Len(@))]
  BY DEF ReadTimeout
<1>3. CASE GiveUp
  <2>1. keyword' \in KeywordType /\ KeywordOK'
    BY <1>3, IdleKeyword DEF GiveUp, Fails
  <2> QED BY <1>1, <1>2, <2>1, ReadStep
<1>4. CASE Step.do = "try" /\ keyword' = Retried
  <2>1. keyword \in KeywordType
    BY DEF ConnectionInvariant, TypeOK
  <2>2. WriteUntilExpectedOutput(keyword.command) \in Seq(Steps)
        /\ WriteUntilExpectedOutput(keyword.command) # <<>>
    <3>1. keyword.command \in Commands \cup {NoAlias}
      BY <2>1 DEF KeywordType
    <3>2. StepsOf("Write Until Expected Output", keyword.command)
          = WriteUntilExpectedOutput(keyword.command)
      BY DEF StepsOf
    <3>3. "Write Until Expected Output" \in Keywords
      BY DEF Keywords
    <3> QED BY <3>1, <3>2, <3>3, StepsTyped
  <2>3. <<>> \in Seq(Tokens)
    OBVIOUS
  <2>4. /\ keyword' \in KeywordType /\ keyword'.kw = keyword.kw /\ keyword'.clean = keyword.clean
        /\ keyword'.steps = WriteUntilExpectedOutput(keyword.command)
    BY <1>4, <2>1, <2>2, <2>3 DEF Retried, KeywordType
  <2>5. ~(keyword.kw = "Execute Command" /\ keyword.clean)
    <3>1. /\ \A text: SendStep(text).do # "try"
          /\ Until("newline").do # "try" /\ Until("prompt").do # "try"
      BY DEF SendStep, Until
    <3> QED BY <3>1, <1>1, <1>4, RunningExecutes
  <2>6. Running'
    BY <2>2, <2>4 DEF Running
  <2>7. HasCurrent' /\ telnet' # <<>> => KeywordOK'
    BY <2>4, <2>5, <2>6 DEF KeywordOK
  <2> QED BY <1>1, <1>2, <2>4, <2>7, ReadStep
<1> QED BY <1>3, <1>4 DEF ReadTimeout

LEMMA PromptIsNotSetStep ==
    ASSUME ConnectionInvariant, processes = <<>>, PromptIsNotSet
    PROVE  ConnectionInvariant'
<1>1. /\ Running /\ Fails /\ UNCHANGED <<connectionCache, telnet, switched, registered, processes>>
  BY DEF PromptIsNotSet
<1>2. telnet # <<>> /\ telnet' \in Seq(StreamType) /\ Len(telnet') = Len(telnet)
  BY <1>1, RunningStep DEF ConnectionInvariant, TypeOK
<1>3. keyword' \in KeywordType /\ KeywordOK'
  BY <1>1, IdleKeyword DEF Fails
<1> QED BY <1>1, <1>2, <1>3, StreamStep

\* Keywords that are over at once: Read, Close Connection and Set Prompt.
LEMMA ShortKeywordStep ==
    ASSUME ConnectionInvariant, processes = <<>>, Read \/ CloseConnection \/ SetPrompt
    PROVE  ConnectionInvariant'
<1>1. /\ HasCurrent /\ keyword' = NoKeyword
      /\ UNCHANGED <<connectionCache, switched, registered, processes>>
  BY DEF Read, CloseConnection, SetPrompt
<1>2. telnet # <<>> /\ TypeOK /\ CacheInv
  BY <1>1, CurrentIsTelnet DEF ConnectionInvariant
<1>3. Stream \in StreamType
  BY <1>1, <1>2, CurrentStream
<1>4. keyword' \in KeywordType /\ KeywordOK'
  BY <1>1, IdleKeyword
<1>5. ASSUME NEW s \in StreamType, telnet' = [telnet EXCEPT ![CurrentConnection] = s]
      PROVE  ConnectionInvariant'
  <2>1. telnet' \in Seq(StreamType) /\ Len(telnet') = Len(telnet)
    BY <1>1, <1>2, <1>5, StreamChanges
  <2> QED BY <1>1, <1>2, <1>4, <2>1, StreamStep
<1>6. CASE Read
  <2>1. PICK n \in 0..Len(Stream.unread):
            telnet' = [telnet EXCEPT ![CurrentConnection].unread = SubSeq(@, n + 1, Len(@))]
    BY <1>6 DEF Read
  <2> DEFINE s == [Stream EXCEPT !.unread = SubSeq(Stream.unread, n + 1, Len(Stream.unread))]
  <2>2. telnet' = [telnet EXCEPT ![CurrentConnection] = s]
    BY <2>1 DEF Stream
  <2>3. s \in StreamType
    BY <1>3, StreamIsRead
  <2> HIDE DEF s
  <2> QED BY <2>2, <2>3, <1>5
<1>7. CASE CloseConnection
  <2> DEFINE s == [Stream EXCEPT !.open = FALSE, !.unread = <<>>]
  <2>1. telnet' = [telnet EXCEPT ![CurrentConnection] = s]
    <3>1. CurrentConnection \in DOMAIN telnet
      BY <1>1, <1>2, CurrentStream
    <3> QED BY <3>1, <1>7 DEF CloseConnection, Stream
  <2>2. s \in StreamType
    <3>1. <<>> \in Seq(Tokens)
      OBVIOUS
    <3> QED BY <1>3, <3>1 DEF StreamType
  <2> HIDE DEF s
  <2> QED BY <2>1, <2>2, <1>5
<1>8. CASE SetPrompt
  <2> DEFINE s == [Stream EXCEPT !.prompt = ~Stream.prompt]
  <2>1. telnet' = [telnet EXCEPT ![CurrentConnection] = s]
    BY <1>8 DEF SetPrompt, Stream
  <2>2. s \in StreamType
    BY <1>3 DEF StreamType
  <2> HIDE DEF s
  <2> QED BY <2>1, <2>2, <1>5
<1> QED BY <1>6, <1>7, <1>8

------------------------------------------------------------------------------
(***************************************************************************)
(* ... and so does every step with processes.                              *)
(***************************************************************************)
\* Without Telnet connections nothing but processes changes.
LEMMA ProcessesOpened ==
    ASSUME ConnectionInvariant, telnet = <<>>
    PROVE  /\ Opened = Len(processes) /\ Len(processes) \in Nat
           /\ processes \in Seq(ProcessType) /\ DOMAIN processes = 1..Len(processes)
           /\ ~Running /\ switched.index = NoConnection
<1>1. processes \in Seq(ProcessType)
  BY DEF ConnectionInvariant, TypeOK
<1>2. Opened = Len(processes)
  BY DEF Opened
<1>3. ~Running
  BY DEF ConnectionInvariant, KeywordOK
<1>4. switched.index = NoConnection
  BY DEF ConnectionInvariant, SwitchedOK
<1> QED BY <1>1, <1>2, <1>3, <1>4

LEMMA ProcessStep ==
    ASSUME ConnectionInvariant, telnet = <<>>, UNCHANGED <<telnet, keyword, switched>>,
           processes' \in Seq(ProcessType), CacheOK(connectionCache', registered', Len(processes')),
           ProcessesOK'
    PROVE  ConnectionInvariant'
<1>1. TypeOK'
  BY DEF ConnectionInvariant, TypeOK
<1>2. OneIsUsed'
  BY DEF OneIsUsed
<1>3. CacheInv'
  BY DEF CacheInv, Opened
<1>4. SwitchedOK'
  BY ProcessesOpened DEF SwitchedOK
<1>5. KeywordOK'
  <2>1. ~Running
    BY ProcessesOpened
  <2> QED BY <2>1 DEF ConnectionInvariant, KeywordOK, Running, Done
<1> QED BY <1>1, <1>2, <1>3, <1>4, <1>5 DEF ConnectionInvariant

LEMMA StartProcessStep ==
    ASSUME ConnectionInvariant, telnet = <<>>, NEW alias \in STRING \cup {NoAlias}, StartProcess(alias)
    PROVE  ConnectionInvariant'
<1> DEFINE n == Len(processes)
           new == [closed |-> FALSE, ended |-> FALSE, read |-> 0]
           cs == connectionCache.connections
<1>1. n \in Nat /\ processes \in Seq(ProcessType) /\ CacheOK(connectionCache, registered, n)
  BY ProcessesOpened DEF ConnectionInvariant, CacheInv
<1>2. new \in ProcessType
  BY DEF ProcessType
<1>3. processes' = Append(processes, new) /\ UNCHANGED <<telnet, keyword, switched>>
  BY DEF StartProcess
<1>4. /\ processes' \in Seq(ProcessType) /\ Len(processes') = n + 1
      /\ DOMAIN processes' = 1..(n + 1) /\ processes'[n + 1] = new
      /\ \A p \in 1..n: p \in DOMAIN processes /\ processes'[p] = processes[p]
  <2> HIDE DEF new
  <2> QED BY <1>1, <1>2, <1>3
<1>5. /\ connectionCache' = RegisterIn(connectionCache, n + 1, alias)
      /\ registered' = IF alias = NoAlias THEN registered
                       ELSE [a \in DOMAIN registered \cup {alias} |->
                                IF a = alias THEN n + 1 ELSE registered[a]]
  BY DEF StartProcess, Remember
<1>6. CacheOK(connectionCache', registered', n + 1)
  BY <1>1, <1>5, RegisterKeeps
<1>7. ProcessesOK'
  <2>1. cs \in Seq(Nat) /\ connectionCache'.connections = Append(cs, n + 1)
    BY <1>1, <1>5 DEF CacheOK, CacheType, RegisterIn
  <2>2. Range(connectionCache'.connections) = Range(cs) \cup {n + 1}
    <3> DEFINE ds == Append(cs, n + 1)
    <3>1. /\ DOMAIN ds = 1..(Len(cs) + 1) /\ DOMAIN cs = 1..Len(cs) /\ Len(cs) \in Nat
          /\ ds[Len(cs) + 1] = n + 1 /\ \A i \in 1..Len(cs): ds[i] = cs[i]
      BY <2>1, <1>1
    <3> HIDE DEF ds
    <3>2. \A i \in 1..(Len(cs) + 1): i \in 1..Len(cs) \/ i = Len(cs) + 1
      BY <3>1
    <3>3. 1..Len(cs) \subseteq 1..(Len(cs) + 1) /\ Len(cs) + 1 \in 1..(Len(cs) + 1)
      BY <3>1
    <3>4. Range(ds) = Range(cs) \cup {n + 1}
      BY <3>1, <3>2, <3>3 DEF Range
    <3> QED BY <3>4, <2>1 DEF ds
  <2> SUFFICES ASSUME NEW p \in 1..(n + 1)
               PROVE  /\ processes'[p].read <= 1
                      /\ ~processes'[p].closed => processes'[p].read = 0
                      /\ p \notin Range(connectionCache'.connections) => processes'[p].closed
    BY <1>4 DEF ProcessesOK
  <2>3. CASE p = n + 1
    BY <2>2, <2>3, <1>4
  <2>4. CASE p # n + 1
    <3>1. p \in 1..n
      BY <2>4, <1>1
    <3>2. p \in DOMAIN processes /\ processes'[p] = processes[p]
      BY <3>1, <1>4
    <3> HIDE DEF cs
    <3> QED BY <3>2, <2>2 DEF ConnectionInvariant, ProcessesOK, cs
  <2> QED BY <2>3, <2>4
<1> QED BY <1>3, <1>4, <1>6, <1>7, ProcessStep

LEMMA SwitchProcessStep ==
    ASSUME ConnectionInvariant, telnet = <<>>, NEW name \in ConnectionNames, SwitchProcess(name)
    PROVE  ConnectionInvariant'
<1> DEFINE i == GetIndex(connectionCache, name)
           n == Len(processes)
<1>1. n \in Nat /\ processes \in Seq(ProcessType) /\ CacheOK(connectionCache, registered, n)
  BY ProcessesOpened DEF ConnectionInvariant, CacheInv
<1>2. name \in [alias: STRING, number: Nat]
  BY ConnectionsAssumption DEF ConnectionsAssumption
<1>3. i \in DOMAIN connectionCache.connections
  <2> HIDE DEF n
  <2> QED BY <1>1, <1>2, IndexInUse DEF SwitchProcess
<1>4. connectionCache' = Switched(connectionCache, i)
      /\ UNCHANGED <<telnet, keyword, switched, registered, processes>>
  BY DEF SwitchProcess
<1>5. CacheOK(connectionCache', registered, n)
  <2> HIDE DEF i, n
  <2> QED BY <1>1, <1>3, <1>4, SwitchKeeps
<1>6. connectionCache'.connections = connectionCache.connections
  BY <1>1, <1>4 DEF CacheOK, CacheType, Switched
<1>7. ProcessesOK'
  BY <1>4, <1>6 DEF ConnectionInvariant, ProcessesOK
<1> QED BY <1>1, <1>4, <1>5, <1>7, ProcessStep

\* A step that changes one process of those in the list or ends one.
LEMMA OneProcessStep ==
    ASSUME ConnectionInvariant, telnet = <<>>,
           UNCHANGED <<connectionCache, telnet, keyword, switched, registered>>,
           NEW p \in DOMAIN processes, NEW new \in ProcessType,
           processes' = [processes EXCEPT ![p] = new],
           new.read <= 1, ~new.closed => new.read = 0, processes[p].closed => new.closed
    PROVE  ConnectionInvariant'
<1>1. /\ Len(processes) \in Nat /\ processes \in Seq(ProcessType)
      /\ CacheOK(connectionCache, registered, Len(processes))
  BY ProcessesOpened DEF ConnectionInvariant, CacheInv
<1>2. /\ processes' \in Seq(ProcessType) /\ Len(processes') = Len(processes)
      /\ DOMAIN processes' = DOMAIN processes
      /\ \A q \in DOMAIN processes: processes'[q] = IF q = p THEN new ELSE processes[q]
  BY <1>1
<1>3. ProcessesOK'
  <2> SUFFICES ASSUME NEW q \in DOMAIN processes
               PROVE  /\ processes'[q].read <= 1
                      /\ ~processes'[q].closed => processes'[q].read = 0
                      /\ q \notin Range(connectionCache'.connections) => processes'[q].closed
    BY <1>2 DEF ProcessesOK
  <2>1. /\ processes[q].read <= 1
        /\ ~processes[q].closed => processes[q].read = 0
        /\ q \notin Range(connectionCache.connections) => processes[q].closed
    BY DEF ConnectionInvariant, ProcessesOK
  <2>2. processes'[q] = IF q = p THEN new ELSE processes[q]
    BY <1>2
  <2>3. CASE q = p
    BY <2>1, <2>2, <2>3
  <2>4. CASE q # p
    BY <2>1, <2>2, <2>4
  <2> QED BY <2>3, <2>4
<1>4. CacheOK(connectionCache', registered', Len(processes'))
  BY <1>1, <1>2
<1> QED BY <1>2, <1>3, <1>4, ProcessStep

LEMMA ReadProcessOutputStep ==
    ASSUME ConnectionInvariant, telnet = <<>>, ReadProcessOutput
    PROVE  ConnectionInvariant'
<1> DEFINE p == CurrentConnection
           new == [processes[p] EXCEPT !.read = @ + 1, !.closed = TRUE]
<1>1. HasCurrent /\ ~processes[p].closed /\ UNCHANGED <<connectionCache, telnet, keyword, switched, registered>>
  BY DEF ReadProcessOutput
<1>2. p \in DOMAIN processes /\ processes[p] \in ProcessType
  BY <1>1, CurrentOpened, ProcessesOpened DEF ConnectionInvariant
<1>3. processes[p].read = 0
  BY <1>1, <1>2 DEF ConnectionInvariant, ProcessesOK
<1>4. new \in ProcessType /\ new.read = 1 /\ new.closed = TRUE
  <2>1. new = [processes[p] EXCEPT !.read = 1, !.closed = TRUE]
    BY <1>3
  <2> HIDE DEF new, p
  <2> QED BY <1>2, <2>1 DEF ProcessType
<1>5. processes' = [processes EXCEPT ![p] = new]
  BY <1>2 DEF ReadProcessOutput, ProcessRead
<1> HIDE DEF p, new
<1>6. new.read <= 1 /\ (~new.closed => new.read = 0) /\ (processes[p].closed => new.closed)
  BY <1>4
<1> QED BY <1>1, <1>2, <1>4, <1>5, <1>6, OneProcessStep

LEMMA StopProcessStep ==
    ASSUME ConnectionInvariant, telnet = <<>>, StopProcess
    PROVE  ConnectionInvariant'
<1> DEFINE p == CurrentConnection
           new == [processes[p] EXCEPT !.closed = TRUE]
<1>1. HasCurrent /\ UNCHANGED <<connectionCache, telnet, keyword, switched, registered>>
  BY DEF StopProcess
<1>2. p \in DOMAIN processes /\ processes[p] \in ProcessType
  BY <1>1, CurrentOpened, ProcessesOpened DEF ConnectionInvariant
<1>3. processes[p].read <= 1
  BY <1>2 DEF ConnectionInvariant, ProcessesOK
<1>4. new \in ProcessType /\ new.read = processes[p].read /\ new.closed = TRUE
  BY <1>2 DEF ProcessType
<1>5. processes' = [processes EXCEPT ![p] = new]
  BY DEF StopProcess
<1> HIDE DEF p, new
<1>6. new.read <= 1 /\ (~new.closed => new.read = 0) /\ (processes[p].closed => new.closed)
  BY <1>3, <1>4
<1> QED BY <1>1, <1>2, <1>4, <1>5, <1>6, OneProcessStep

LEMMA ProcessEndsStep ==
    ASSUME ConnectionInvariant, telnet = <<>>, ProcessEnds
    PROVE  ConnectionInvariant'
<1>1. PICK p \in DOMAIN processes: processes' = [processes EXCEPT ![p].ended = TRUE]
  BY DEF ProcessEnds
<1> DEFINE new == [processes[p] EXCEPT !.ended = TRUE]
<1>2. UNCHANGED <<connectionCache, telnet, keyword, switched, registered>>
  BY DEF ProcessEnds
<1>3. processes[p] \in ProcessType
  BY ProcessesOpened
<1>4. new \in ProcessType /\ new.read = processes[p].read /\ new.closed = processes[p].closed
  BY <1>3 DEF ProcessType
<1>5. processes' = [processes EXCEPT ![p] = new]
  BY <1>1
<1>6. processes[p].read <= 1 /\ (~processes[p].closed => processes[p].read = 0)
  BY DEF ConnectionInvariant, ProcessesOK
<1> HIDE DEF new
<1>7. new.read <= 1 /\ (~new.closed => new.read = 0) /\ (processes[p].closed => new.closed)
  BY <1>4, <1>6
<1> QED BY <1>2, <1>4, <1>5, <1>7, OneProcessStep

LEMMA StopAllProcessesStep ==
    ASSUME ConnectionInvariant, telnet = <<>>, StopAllProcesses
    PROVE  ConnectionInvariant'
<1> DEFINE n == Len(processes)
           listed == Range(connectionCache.connections)
           stopped(p) == IF p \in listed THEN [processes[p] EXCEPT !.closed = TRUE] ELSE processes[p]
<1>1. n \in Nat /\ processes \in Seq(ProcessType) /\ DOMAIN processes = 1..n
  BY ProcessesOpened
<1>2. \A p \in 1..n: /\ stopped(p) \in ProcessType /\ stopped(p).closed = TRUE
                     /\ stopped(p).read <= 1
  <2> TAKE p \in 1..n
  <2>1. processes[p] \in ProcessType /\ p \in DOMAIN processes
    BY <1>1
  <2>2. processes[p].read <= 1 /\ (p \notin listed => processes[p].closed)
    BY <2>1 DEF ConnectionInvariant, ProcessesOK
  <2>3. CASE p \in listed
    <3>1. stopped(p) = [processes[p] EXCEPT !.closed = TRUE]
      BY <2>3
    <3> HIDE DEF listed, stopped
    <3> QED BY <3>1, <2>1, <2>2 DEF ProcessType
  <2>4. CASE p \notin listed
    <3>1. stopped(p) = processes[p]
      BY <2>4
    <3> HIDE DEF listed, stopped
    <3> QED BY <3>1, <2>1, <2>2, <2>4 DEF ProcessType
  <2> QED BY <2>3, <2>4
<1>3. processes' = [p \in 1..n |-> stopped(p)]
  BY <1>1 DEF StopAllProcesses
<1>4. /\ processes' \in Seq(ProcessType) /\ Len(processes') = n /\ DOMAIN processes' = 1..n
      /\ \A p \in 1..n: processes'[p] = stopped(p)
  <2> HIDE DEF stopped
  <2> QED BY <1>1, <1>2, <1>3
<1>5. connectionCache' = EmptyCache /\ registered' = <<>> /\ UNCHANGED <<telnet, keyword, switched>>
  BY DEF StopAllProcesses, Emptied
<1>6. CacheOK(connectionCache', registered', Len(processes'))
  BY <1>1, <1>4, <1>5, EmptyKeeps
<1>7. ProcessesOK'
  <2> HIDE DEF stopped
  <2> QED BY <1>2, <1>4 DEF ProcessesOK
<1> QED BY <1>4, <1>5, <1>6, <1>7, ProcessStep

------------------------------------------------------------------------------
(***************************************************************************)
(* The invariant and what it says to a user.                               *)
(***************************************************************************)
LEMMA ConnectionInit == ConnectionsInit => ConnectionInvariant
<1> SUFFICES ASSUME ConnectionsInit PROVE ConnectionInvariant
  OBVIOUS
<1>1. /\ connectionCache = EmptyCache /\ telnet = <<>> /\ keyword = NoKeyword
      /\ switched = [index |-> 0, connection |-> 0] /\ registered = <<>> /\ processes = <<>>
  BY DEF ConnectionsInit, NoConnection
<1>2. /\ <<>> \in Seq(StreamType) /\ <<>> \in Seq(ProcessType) /\ <<>> \in Seq(Steps)
      /\ <<>> \in Seq(Tokens) /\ Len(<<>>) = 0 /\ DOMAIN <<>> = {}
  OBVIOUS
<1>3. NoKeyword \in KeywordType /\ NoKeyword.steps = <<>> /\ NoKeyword.kw = "none"
  BY <1>2 DEF NoKeyword, KeywordType
<1>4. TypeOK
  BY <1>1, <1>2, <1>3 DEF TypeOK
<1>5. CacheInv
  BY <1>1, <1>2, EmptyKeeps DEF CacheInv, Opened
<1>6. OneIsUsed /\ SwitchedOK /\ ProcessesOK /\ KeywordOK
  BY <1>1, <1>2, <1>3 DEF OneIsUsed, SwitchedOK, ProcessesOK, KeywordOK, Running, NoConnection
<1> QED BY <1>4, <1>5, <1>6 DEF ConnectionInvariant

LEMMA ConnectionStep ==
    ConnectionInvariant /\ [ConnectionsNext]_connectionVars => ConnectionInvariant'
<1> SUFFICES ASSUME ConnectionInvariant, [ConnectionsNext]_connectionVars
             PROVE  ConnectionInvariant'
  OBVIOUS
<1>1. \A alias \in {NoAlias} \cup {n.alias: n \in ConnectionNames}: alias \in STRING \cup {NoAlias}
  <2>1. \A n \in ConnectionNames: n.alias \in STRING
    BY ConnectionsAssumption DEF ConnectionsAssumption
  <2> QED BY <2>1
<1>2. CASE ~UsesProcesses /\ TelnetNext
  <2>1. processes = <<>>
    BY <1>2 DEF UsesProcesses
  <2>2. ASSUME NEW alias \in {NoAlias} \cup {n.alias: n \in ConnectionNames}, OpenConnection(alias)
        PROVE  ConnectionInvariant'
    BY <1>1, <2>1, <2>2, OpenConnectionStep
  <2>3. ASSUME NEW name \in ConnectionNames, SwitchConnection(name)
        PROVE  ConnectionInvariant'
    BY <2>1, <2>3, SwitchConnectionStep
  <2>4. ASSUME NEW kw \in Keywords, NEW command \in Commands, NEW level \in BOOLEAN,
               BeginKeyword(kw, command, level)
        PROVE  ConnectionInvariant'
    BY <2>1, <2>4, BeginKeywordStep
  <2>5. CASE SendText
    BY <2>1, <2>5, SendTextStep
  <2>6. CASE PromptIsNotSet
    BY <2>1, <2>6, PromptIsNotSetStep
  <2>10. CASE ReadMatch
    BY <2>1, <2>10, ReadMatchStep
  <2>7. CASE ReadTimeout
    BY <2>1, <2>7, ReadTimeoutStep
  <2>8. CASE Read \/ CloseConnection \/ SetPrompt
    BY <2>1, <2>8, ShortKeywordStep
  <2>9. CASE CloseAllConnections
    BY <2>1, <2>9, CloseAllConnectionsStep
  <2> QED BY <1>2, <2>2, <2>3, <2>4, <2>5, <2>6, <2>7, <2>8, <2>9, <2>10 DEF TelnetNext
<1>3. CASE ~UsesTelnet /\ ProcessesNext
  <2>1. telnet = <<>>
    BY <1>3 DEF UsesTelnet
  <2>2. ASSUME NEW alias \in {NoAlias} \cup {n.alias: n \in ConnectionNames}, StartProcess(alias)
        PROVE  ConnectionInvariant'
    BY <1>1, <2>1, <2>2, StartProcessStep
  <2>3. ASSUME NEW name \in ConnectionNames, SwitchProcess(name)
        PROVE  ConnectionInvariant'
    BY <2>1, <2>3, SwitchProcessStep
  <2>4. CASE ReadProcessOutput
    BY <2>1, <2>4, ReadProcessOutputStep
  <2>5. CASE StopProcess
    BY <2>1, <2>5, StopProcessStep
  <2>6. CASE StopAllProcesses
    BY <2>1, <2>6, StopAllProcessesStep
  <2>7. CASE ProcessEnds
    BY <2>1, <2>7, ProcessEndsStep
  <2> QED BY <1>3, <2>2, <2>3, <2>4, <2>5, <2>6, <2>7 DEF ProcessesNext
<1>4. CASE UNCHANGED connectionVars
  BY <1>4 DEF connectionVars, ConnectionInvariant, TypeOK, OneIsUsed, CacheInv, Opened, SwitchedOK,
              ProcessesOK, KeywordOK, Running, HasCurrent, Stream, CurrentConnection
<1> QED BY <1>2, <1>3, <1>4 DEF ConnectionsNext

LEMMA InvariantKeepsConnections == ConnectionInvariant => ConnectionsAreKept
<1> SUFFICES ASSUME ConnectionInvariant PROVE ConnectionsAreKept
  OBVIOUS
<1> DEFINE cs == connectionCache.connections
           aliases == connectionCache.aliases
<1>1. CacheOK(connectionCache, registered, Opened)
  BY DEF ConnectionInvariant, CacheInv
<1>2. cs \in Seq(Nat) /\ DOMAIN cs = 1..Len(cs) /\ NoAlias \notin DOMAIN aliases
  BY <1>1 DEF CacheOK, CacheType
<1>3. NamesLeadToConnections
  <2>1. ASSUME NEW name \in ConnectionNames, NEW index, index = GetIndex(connectionCache, name)
        PROVE  /\ index # NoConnection => index \in DOMAIN cs
               /\ name.alias \in DOMAIN registered => cs[index] = registered[name.alias]
               /\ name.alias = NoAlias => index \in {name.number, NoConnection}
    <3>1. name \in [alias: STRING, number: Nat]
      BY ConnectionsAssumption DEF ConnectionsAssumption
    <3>2. CASE name.alias \in DOMAIN aliases
      <4>1. index = aliases[name.alias]
        BY <2>1, <3>2 DEF GetIndex
      <4>2. /\ DOMAIN registered = DOMAIN aliases /\ index \in DOMAIN cs
            /\ registered[name.alias] = cs[index]
        BY <1>1, <3>2, <4>1 DEF CacheOK
      <4> QED BY <4>2, <3>2, <1>2
    <3>3. CASE name.alias \notin DOMAIN aliases
      <4>1. index = IF name.number \in DOMAIN cs THEN name.number ELSE NoConnection
        BY <2>1, <3>3 DEF GetIndex
      <4>2. DOMAIN registered = DOMAIN aliases
        BY <1>1 DEF CacheOK
      <4> QED BY <4>1, <4>2, <3>3
    <3> QED BY <3>2, <3>3
  <2>2. ASSUME switched.index # NoConnection
        PROVE  cs[GetIndex(connectionCache, IntName(switched.index))] = switched.connection
    <3>1. switched.index \in DOMAIN cs /\ cs[switched.index] = switched.connection
      BY <2>2 DEF ConnectionInvariant, SwitchedOK
    <3>2. GetIndex(connectionCache, IntName(switched.index)) = switched.index
      BY <3>1, <1>2 DEF GetIndex, IntName
    <3> QED BY <3>1, <3>2
  <2> QED BY <2>1, <2>2 DEF NamesLeadToConnections
<1>4. AnswersBelongToCommands
  BY DEF ConnectionInvariant, KeywordOK, AnswersBelongToCommands, Done, Answers
<1>5. OutputIsReadOnce
  BY DEF ConnectionInvariant, ProcessesOK, OutputIsReadOnce
<1> QED BY <1>3, <1>4, <1>5 DEF ConnectionsAreKept

\* The cache, the streams and the processes stay in order, however many there are.
THEOREM ConnectionInvariantHolds == ConnectionsSpec => []ConnectionInvariant
<1>1. ConnectionsInit => ConnectionInvariant
  BY ConnectionInit
<1>2. ConnectionInvariant /\ [ConnectionsNext]_connectionVars => ConnectionInvariant'
  BY ConnectionStep
<1> QED BY <1>1, <1>2, PTL DEF ConnectionsSpec

\* Names lead to the connections that were meant, Execute Command returns the
\* answer to its own command and outputs are read once (connectioncache.py,
\* Telnet.py and the processes of OperatingSystem.py).
THEOREM ConnectionsAreKeptHolds == ConnectionsSpec => []ConnectionsAreKept
<1>1. ConnectionInvariant => ConnectionsAreKept
  BY InvariantKeepsConnections
<1> QED BY <1>1, ConnectionInvariantHolds, PTL


------------------------------------------------------------------------------
(***************************************************************************)
(* Remote libraries: the invariant of the server and its client.           *)
(***************************************************************************)
\* What servers, requests and executions are.
Libraries == DOMAIN KeywordsOf
Names == STRING \cup {Stop}
RemoteHandlers == [name: Names, twin: BOOLEAN]
Kinds == {"import", "names", "documentation", "arguments", "run"}
Requests == [id: Nat, what: Kinds,
             name: Libraries \cup Names \cup {Nothing}, value: RemoteValues \cup {Nothing}]
Operations == {"idle", "ship", "names", "describe", "run"}
ServerType == [up: BOOLEAN, stopping: BOOLEAN, hosted: Seq(Libraries), queue: Seq(Requests),
               serving: Requests \cup {Nothing}, starts: Nat]
Execution == [id: Nat, end: Endings, library: Libraries \cup {Stop, Nothing}]

\* The state of the server and of the client is well-formed.
RemoteTypeOK ==
    /\ server \in ServerType
    /\ client.op \in Operations /\ client.attempts \in Int /\ client.request \in Nat
    /\ handlers \in SUBSET RemoteHandlers
    /\ requests \in Nat /\ imports \in Nat /\ broken \in BOOLEAN
    /\ executed \in Seq(Execution)

\* Requests are handled in the order of their numbers, and none twice.
RequestsInOrder ==
    /\ \A i \in DOMAIN server.queue: server.queue[i].id \in 1..requests
    /\ \A i, j \in DOMAIN server.queue: i < j => server.queue[i].id < server.queue[j].id
    /\ \A i \in DOMAIN executed: executed[i].id <= requests
    /\ \A i, j \in DOMAIN executed: i < j => executed[i].id < executed[j].id
    /\ \A i \in DOMAIN executed, j \in DOMAIN server.queue: executed[i].id < server.queue[j].id
    /\ server.serving # Nothing =>
           /\ server.serving.id \in 1..requests /\ server.serving.what = "run"
           /\ \A i \in DOMAIN executed: executed[i].id < server.serving.id
           /\ \A j \in DOMAIN server.queue: server.serving.id < server.queue[j].id
    /\ client.request <= requests
    /\ client.op # "idle" => client.request # 0

\* The argument of the keyword that is called.
Given == client.left[2]

\* A request on its way is what the client waits for.
Fits(request) ==
    CASE client.op = "idle" -> TRUE
      [] client.op = "ship" -> request.what = "import"
      [] client.op = "names" -> request.what = "names"
      [] client.op = "describe" -> request.what \in {"documentation", "arguments"}
      [] client.op = "run" -> request.what = "run" /\ request.value = Given
RequestsFit ==
    /\ \A i \in DOMAIN server.queue: server.queue[i].id = client.request => Fits(server.queue[i])
    /\ server.serving # Nothing /\ server.serving.id = client.request => Fits(server.serving)
    /\ \A i \in DOMAIN server.queue: server.queue[i].what = "import" => server.queue[i].name \in Libraries
    /\ client.op = "ship" => client.left \in Seq(Libraries)
    /\ client.op = "describe" => client.left \in Seq(Names) /\ client.left # <<>> /\ client.attempts \in 1..4
    /\ client.op = "run" => client.left \in RemoteHandlers \X RemoteValues /\ Sendable(Converted(Given))

\* What a keyword that was run for a request answered.
RunAnswer(id, given, result) ==
    /\ result.id = id
    /\ result.status \in {"PASS", "FAIL"}
    /\ \E e \in Range(executed): e.id = id /\ e.end = IF result.status = "PASS" THEN "pass" ELSE "fail"
    /\ result.status = "PASS" => result.return = Returned(given)
Failures == {SocketError, Fault, ExpatError}
\* The answer is one to what the client does.
AnswerFits ==
    answer # Nothing =>
        /\ client.op = "ship" => answer = SocketError \/ answer.kind = "ok"
        /\ client.op = "names" => answer = SocketError \/ (answer.kind = "ok" /\ answer.value \in Seq(Names))
        /\ client.op = "describe" => answer = SocketError \/ answer.kind \in {"ok", "fault"}
        /\ client.op = "run" => answer \in Failures \/ (answer.kind = "ok" /\ RunAnswer(client.request, Given, answer.value))
\* So is what is said of the last keyword.
LastCallOK ==
    lastCall # Nothing =>
        /\ lastCall.message = "remote" =>
               /\ RunAnswer(lastCall.id, lastCall.given, lastCall.result)
               /\ lastCall.given \in RemoteValues /\ Sendable(Converted(lastCall.given))
        /\ lastCall.status = "PASS" => lastCall.message = "remote" \/ (lastCall.twin /\ lastCall.message # "timeout")

\* Before anything has happened.
NotYet ==
    /\ imports = 0 => /\ client.op = "idle" /\ handlers = {}
                      /\ server.queue = <<>> /\ server.serving = Nothing
    /\ server.starts = 0 => /\ ~server.up /\ server.queue = <<>> /\ server.serving = Nothing
                            /\ client.op \in {"idle", "ship", "names"} /\ handlers = {}
                            /\ client.op # "idle" => answer = SocketError
                            /\ imports > 0 => broken
    /\ client.op \in {"ship", "names"} => handlers = {}

\* The keywords of the server, and what is known while they are imported.
Served == {[name |-> name, twin |-> twin]: name \in Range(KeywordNames), twin \in BOOLEAN}
Importing == client.op \in {"ship", "names", "describe"}
Twins(name) == {[name |-> name, twin |-> twin]: twin \in BOOLEAN}
\* The first import: as long as no connection breaks the server is up, and the
\* libraries are sent, keywords are named and each is described in turn.
FirstImport ==
    imports = 1 =>
        /\ Importing =>
               /\ server.serving = Nothing
               /\ \A i \in DOMAIN server.queue: server.queue[i].what # "run"
               /\ ~broken => server.up /\ (answer # Nothing => answer.kind # "socket error")
        /\ client.op = "ship" =>
               \A i \in DOMAIN server.queue: server.queue[i].id = client.request /\ (answer # Nothing => answer.kind # "ok")
        /\ client.op \in {"names", "describe"} \/ handlers # {} =>
               \A i \in DOMAIN server.queue: server.queue[i].what # "import"
        /\ server.starts = 1 =>
               /\ handlers \subseteq Served
               /\ client.op = "names" /\ answer # Nothing /\ answer.kind = "ok" => answer.value = KeywordNames
               /\ client.op = "describe" =>
                      /\ Range(client.left) \subseteq Range(KeywordNames)
                      /\ ~broken => \A name \in Range(KeywordNames): name \in Range(client.left) \/ Twins(name) \subseteq handlers
                      /\ client.attempts <= 2 => [name |-> Head(client.left), twin |-> FALSE] \in handlers
               /\ client.op \in {"idle", "run"} /\ ~broken => handlers = Served

RemoteInvariant ==
    /\ RemoteTypeOK /\ RequestsInOrder /\ RequestsFit /\ AnswerFits /\ LastCallOK /\ NotYet /\ FirstImport

------------------------------------------------------------------------------
\* Natural numbers have least elements.
LEMMA LeastNumber ==
    ASSUME NEW S \in SUBSET Nat, S # {}
    PROVE  \E i \in S: \A j \in S: i <= j
<1>1. PICK i \in S: \A j \in S: ~(<<j, i>> \in OpToRel(<, Nat))
  BY WFMin, NatLessThanWellFounded
<1>2. \A j \in S: ~(j < i)
  <2>1. SUFFICES ASSUME NEW j \in S, j < i PROVE <<j, i>> \in OpToRel(<, Nat)
    BY <1>1
  <2>2. <<j, i>> \in {pair \in Nat \X Nat: pair[1] < pair[2]}
    BY <2>1
  <2> QED BY <2>2 DEF OpToRel
<1> QED BY <1>2

\* The names of keywords are names, however many libraries there are.
Flattens(f, n, ss) == f = [i \in 1..n |-> IF i = 1 THEN ss[i] ELSE f[i - 1] \o ss[i]]
LEMMA FlatteningExists ==
    ASSUME NEW S, NEW ss \in Seq(Seq(S)), NEW n \in 1..Len(ss)
    PROVE  \E f \in [1..n -> Seq(S)]: Flattens(f, n, ss)
<1> DEFINE Bad == {m \in 1..Len(ss): ~\E f \in [1..m -> Seq(S)]: Flattens(f, m, ss)}
<1>1. SUFFICES ASSUME Bad # {} PROVE FALSE
  OBVIOUS
<1>2. PICK m \in Bad: \A k \in Bad: m <= k
  <2>1. Bad \in SUBSET Nat
    OBVIOUS
  <2> HIDE DEF Bad
  <2> QED BY <1>1, <2>1, LeastNumber
<1>3. m \in 1..Len(ss) /\ ss[m] \in Seq(S) /\ ss[1] \in Seq(S)
  <2>1. m \in 1..Len(ss)
    OBVIOUS
  <2> QED BY <2>1, ElementOfSeq
<1>4. CASE m = 1
  <2> DEFINE f == [i \in 1..1 |-> ss[1]]
  <2>1. f \in [1..m -> Seq(S)]
    BY <1>3, <1>4
  <2>2. Flattens(f, m, ss)
    BY <1>4 DEF Flattens
  <2> QED BY <2>1, <2>2
<1>5. CASE m # 1
  <2>1. m - 1 \in 1..Len(ss) /\ m - 1 \notin Bad
    <3>1. m - 1 \in 1..Len(ss) /\ ~(m <= m - 1)
      BY <1>3, <1>5
    <3> HIDE DEF Bad
    <3> QED BY <1>2, <3>1
  <2>2. PICK g \in [1..(m - 1) -> Seq(S)]: Flattens(g, m - 1, ss)
    BY <2>1
  <2> DEFINE f == [i \in 1..m |-> IF i = m THEN g[m - 1] \o ss[m] ELSE g[i]]
  <2>3. g[m - 1] \o ss[m] \in Seq(S)
    <3>1. g[m - 1] \in Seq(S)
      BY <2>1, <2>2
    <3> QED BY <1>3, <3>1, ConcatProperties
  <2>4. f \in [1..m -> Seq(S)]
    BY <1>3, <2>2, <2>3
  <2>5. \A i \in 1..m: f[i] = IF i = 1 THEN ss[i] ELSE f[i - 1] \o ss[i]
    <3>1. TAKE i \in 1..m
    <3>2. CASE i = m
      <4>1. f[m] = g[m - 1] \o ss[m]
        <5>1. m \in 1..m
          BY <1>3
        <5> QED BY <5>1
      <4>2. m - 1 \in 1..m /\ m - 1 # m
        BY <1>3, <1>5
      <4>3. f[m - 1] = g[m - 1]
        BY <4>2
      <4> QED BY <1>5, <3>2, <4>1, <4>3
    <3>3. CASE i # m
      <4>1. i \in 1..(m - 1)
        BY <1>3, <3>3
      <4>2. g[i] = IF i = 1 THEN ss[i] ELSE g[i - 1] \o ss[i]
        BY <2>2, <4>1 DEF Flattens
      <4>3. f[i] = g[i] /\ (i # 1 => f[i - 1] = g[i - 1])
        BY <1>3, <3>3, <4>1
      <4> QED BY <4>2, <4>3
    <3> QED BY <3>2, <3>3
  <2>6. Flattens(f, m, ss)
    BY <2>4, <2>5 DEF Flattens
  <2> QED BY <2>4, <2>6
<1> QED BY <1>4, <1>5

LEMMA FlatteningTyped ==
    ASSUME NEW S, NEW ss \in Seq(Seq(S)), NEW f, Flattens(f, Len(ss), ss)
    PROVE  \A n \in 1..Len(ss): f[n] \in Seq(S)
<1> DEFINE Bad == {m \in 1..Len(ss): f[m] \notin Seq(S)}
<1>1. SUFFICES ASSUME Bad # {} PROVE FALSE
  OBVIOUS
<1>2. PICK m \in Bad: \A k \in Bad: m <= k
  <2>1. Bad \in SUBSET Nat
    OBVIOUS
  <2> HIDE DEF Bad
  <2> QED BY <1>1, <2>1, LeastNumber
<1>3. m \in 1..Len(ss) /\ ss[m] \in Seq(S)
  <2>1. m \in 1..Len(ss)
    OBVIOUS
  <2> QED BY <2>1, ElementOfSeq
<1>4. f[m] = IF m = 1 THEN ss[m] ELSE f[m - 1] \o ss[m]
  BY <1>3 DEF Flattens
<1>5. m # 1 => f[m - 1] \in Seq(S)
  BY <1>2, <1>3
<1>6. m # 1 => f[m - 1] \o ss[m] \in Seq(S)
  BY <1>3, <1>5, ConcatProperties
<1> QED BY <1>3, <1>4, <1>6

LEMMA FlatSequence ==
    ASSUME NEW S, NEW ss \in Seq(Seq(S))
    PROVE  FlattenSeq(ss) \in Seq(S)
<1>1. CASE Len(ss) = 0
  BY <1>1, EmptySeq DEF FlattenSeq
<1>2. CASE Len(ss) # 0
  <2> DEFINE F == CHOOSE f: f = [i \in 1..Len(ss) |-> IF i = 1 THEN ss[i] ELSE f[i - 1] \o ss[i]]
  <2>1. Len(ss) \in 1..Len(ss)
    BY <1>2
  <2>2. \E f: Flattens(f, Len(ss), ss)
    BY <2>1, FlatteningExists
  <2>3. Flattens(F, Len(ss), ss)
    BY <2>2 DEF Flattens
  <2>4. FlattenSeq(ss) = F[Len(ss)]
    BY <1>2 DEF FlattenSeq
  <2> HIDE DEF F
  <2> QED BY <2>1, <2>3, <2>4, FlatteningTyped
<1> QED BY <1>1, <1>2

LEMMA NamesTyped ==
    ASSUME server.hosted \in Seq(Libraries)
    PROVE  KeywordNames \in Seq(Names) /\ Served # {}
<1> DEFINE ss == [i \in DOMAIN server.hosted |-> KeywordsOf[server.hosted[i]]]
<1>1. ss \in Seq(Seq(Names))
  <2>1. STRING \subseteq Names
    BY DEF Names
  <2>2. \A i \in 1..Len(server.hosted): ss[i] \in Seq(Names)
    <3>1. SUFFICES ASSUME NEW i \in 1..Len(server.hosted) PROVE ss[i] \in Seq(Names)
      OBVIOUS
    <3>2. ss[i] \in Seq(STRING)
      BY RemoteAssumption DEF Libraries
    <3> QED BY <2>1, <3>2, SeqMonotonic
  <2>3. Len(server.hosted) \in Nat /\ DOMAIN ss = 1..Len(server.hosted)
    OBVIOUS
  <2>4. ss = [i \in 1..Len(server.hosted) |-> ss[i]]
    OBVIOUS
  <2> HIDE DEF ss
  <2>5. ss \in [1..Len(server.hosted) -> Seq(Names)]
    BY <2>2, <2>4
  <2> QED BY <2>3, <2>5, SeqDef
<1>2. FlattenSeq(ss) \in Seq(Names)
  <2> HIDE DEF ss
  <2> QED BY <1>1, FlatSequence
<1>3. <<Stop>> \in Seq(Names)
  <2>1. Stop \in Names
    BY DEF Names
  <2> QED BY <2>1
<1>4. KeywordNames = FlattenSeq(ss) \o <<Stop>>
  BY DEF KeywordNames, NamesOf
<1>5. KeywordNames \in Seq(Names) /\ Len(KeywordNames) = Len(FlattenSeq(ss)) + 1
  <2> HIDE DEF ss
  <2>1. Len(<<Stop>>) = 1
    OBVIOUS
  <2> QED BY <1>2, <1>3, <1>4, <2>1, ConcatProperties
<1>6. Len(FlattenSeq(ss)) \in Nat
  <2> HIDE DEF ss
  <2> QED BY <1>2, LenProperties
<1>7. 1 \in DOMAIN KeywordNames
  <2> HIDE DEF ss
  <2> QED BY <1>5, <1>6, LenProperties
<1>8. Served # {}
  <2>1. PICK name \in Range(KeywordNames): TRUE
    BY <1>7 DEF Range
  <2>2. \A n \in Range(KeywordNames), twin \in BOOLEAN: [name |-> n, twin |-> twin] \in Served
    BY DEF Served
  <2> QED BY <2>1, <2>2
<1> QED BY <1>5, <1>8

------------------------------------------------------------------------------
\* The names are those of the libraries that the server has.
LEMMA NamesKept ==
    ASSUME server'.hosted = server.hosted
    PROVE  KeywordNames' = KeywordNames /\ Served' = Served
<1>1. KeywordNames' = KeywordNames
  BY DEF KeywordNames, NamesOf
<1> QED BY <1>1 DEF Served

LEMMA ExecutedNumbers ==
    ASSUME RemoteInvariant
    PROVE  \A i \in DOMAIN executed: executed[i].id \in Nat /\ executed[i].id <= requests
<1>1. SUFFICES ASSUME NEW i \in DOMAIN executed PROVE executed[i].id \in Nat /\ executed[i].id <= requests
  OBVIOUS
<1>2. executed \in Seq(Execution)
  BY DEF RemoteInvariant, RemoteTypeOK
<1>3. executed[i] \in Execution
  BY <1>1, <1>2
<1>4. executed[i].id <= requests
  BY <1>1 DEF RemoteInvariant, RequestsInOrder
<1> QED BY <1>3, <1>4 DEF Execution

\* A request that is sent is the last one, and no other has its number.
LEMMA Sends ==
    ASSUME RemoteInvariant, NEW op \in Operations \ {"idle"}, NEW left, NEW attempts \in Int, NEW doing,
           doing = [op |-> op, left |-> left, attempts |-> attempts, request |-> 0],
           NEW what \in Kinds, NEW name \in Libraries \cup Names \cup {Nothing}, NEW value \in RemoteValues \cup {Nothing},
           SendRequest(doing, what, name, value), executed' = executed
    PROVE  /\ client' = [op |-> op, left |-> left, attempts |-> attempts, request |-> requests + 1]
           /\ requests' = requests + 1 /\ requests' \in Nat
           /\ server' \in ServerType
           /\ server' = [server EXCEPT !.queue = server'.queue]
           /\ \A i \in DOMAIN server'.queue:
                  \/ server'.queue[i] = Request(what, name, value) /\ server.up
                  \/ i \in DOMAIN server.queue /\ server'.queue[i] = server.queue[i]
           /\ \A i \in DOMAIN server'.queue: server'.queue[i].id = client'.request => server'.queue[i] = Request(what, name, value)
           /\ server'.serving # Nothing => server'.serving.id # client'.request
           /\ IF server.up THEN answer' = Nothing ELSE answer' = SocketError /\ server' = server
           /\ RequestsInOrder'
<1> DEFINE r == Request(what, name, value)
<1>1. /\ RemoteTypeOK /\ RequestsInOrder
      /\ server \in ServerType /\ requests \in Nat /\ server.queue \in Seq(Requests)
  BY DEF RemoteInvariant, RemoteTypeOK, ServerType
<1>2. /\ client' = [op |-> op, left |-> left, attempts |-> attempts, request |-> requests + 1]
      /\ requests' = requests + 1 /\ requests' \in Nat
      /\ IF server.up THEN server' = [server EXCEPT !.queue = Append(@, r)] /\ answer' = Nothing
         ELSE answer' = SocketError /\ server' = server
  BY <1>1 DEF SendRequest
<1>3. r \in Requests /\ r.id = requests + 1
  BY <1>1 DEF Requests, Request
<1>4. server' \in ServerType /\ server' = [server EXCEPT !.queue = server'.queue]
  <2>1. CASE server.up
    <3>1. Append(server.queue, r) \in Seq(Requests)
      BY <1>1, <1>3
    <3> QED BY <1>1, <1>2, <2>1, <3>1 DEF ServerType
  <2>2. CASE ~server.up
    BY <1>1, <1>2, <2>2 DEF ServerType
  <2> QED BY <2>1, <2>2
<1>5. /\ server'.serving = server.serving
      /\ server'.queue = IF server.up THEN Append(server.queue, r) ELSE server.queue
  BY <1>1, <1>2 DEF ServerType
<1>6. \A i \in DOMAIN server'.queue:
          \/ server'.queue[i] = r /\ server.up /\ i = Len(server.queue) + 1
          \/ i \in DOMAIN server.queue /\ server'.queue[i] = server.queue[i]
  <2> HIDE DEF r
  <2> QED BY <1>1, <1>3, <1>5
<1>7. \A i \in DOMAIN server.queue: server.queue[i].id \in 1..requests /\ i <= Len(server.queue)
  BY <1>1 DEF RequestsInOrder
<1>8. \A i \in DOMAIN server'.queue: server'.queue[i].id = client'.request => server'.queue[i] = r
  <2> HIDE DEF r
  <2> QED BY <1>1, <1>2, <1>6, <1>7
<1>9. server'.serving # Nothing => server'.serving.id # client'.request
  BY <1>1, <1>2, <1>5 DEF RequestsInOrder
<1>10. RequestsInOrder'
  <2> HIDE DEF r
  <2>1. DOMAIN server.queue = 1..Len(server.queue) /\ Len(server.queue) \in Nat
    BY <1>1
  <2>2. \A i, j \in DOMAIN server'.queue: i < j => server'.queue[i].id < server'.queue[j].id
    <3>1. SUFFICES ASSUME NEW i \in DOMAIN server'.queue, NEW j \in DOMAIN server'.queue, i < j
                   PROVE  server'.queue[i].id < server'.queue[j].id
      OBVIOUS
    <3>2. \A k \in DOMAIN server'.queue: k \in Nat
      BY <1>6, <2>1
    <3>3. i \in DOMAIN server.queue /\ server'.queue[i] = server.queue[i]
      BY <1>6, <2>1, <3>1, <3>2
    <3>4. CASE server'.queue[j] = r
      BY <1>1, <1>3, <1>7, <3>3, <3>4
    <3>5. CASE j \in DOMAIN server.queue /\ server'.queue[j] = server.queue[j]
      BY <1>1, <3>1, <3>3, <3>5 DEF RequestsInOrder
    <3> QED BY <1>6, <3>4, <3>5
  <2>3. \A i \in DOMAIN server'.queue: server'.queue[i].id \in 1..requests'
    BY <1>1, <1>2, <1>3, <1>6, <1>7
  <2>4. \A i \in DOMAIN executed': executed'[i].id <= requests'
    <3>1. \A i \in DOMAIN executed: executed[i].id \in Nat /\ executed[i].id <= requests
      BY ExecutedNumbers
    <3> QED BY <1>1, <1>2, <3>1
  <2>5. \A i, j \in DOMAIN executed': i < j => executed'[i].id < executed'[j].id
    BY <1>1 DEF RequestsInOrder
  <2>6. \A i \in DOMAIN executed', j \in DOMAIN server'.queue: executed'[i].id < server'.queue[j].id
    <3>1. \A i \in DOMAIN executed: executed[i].id \in Nat /\ executed[i].id <= requests
      BY ExecutedNumbers
    <3>2. \A i \in DOMAIN executed: \A j \in DOMAIN server.queue: executed[i].id < server.queue[j].id
      BY <1>1 DEF RequestsInOrder
    <3> QED BY <1>1, <1>3, <1>6, <3>1, <3>2
  <2>7. server'.serving # Nothing =>
           /\ server'.serving.id \in 1..requests' /\ server'.serving.what = "run"
           /\ \A i \in DOMAIN executed': executed'[i].id < server'.serving.id
           /\ \A j \in DOMAIN server'.queue: server'.serving.id < server'.queue[j].id
    <3>1. server.serving # Nothing =>
           /\ server.serving.id \in 1..requests /\ server.serving.what = "run"
           /\ \A i \in DOMAIN executed: executed[i].id < server.serving.id
           /\ \A j \in DOMAIN server.queue: server.serving.id < server.queue[j].id
      BY <1>1 DEF RequestsInOrder
    <3> QED BY <1>1, <1>2, <1>3, <1>5, <1>6, <3>1
  <2>8. client'.request = requests + 1
    BY <1>2
  <2> QED BY <1>1, <1>2, <2>2, <2>3, <2>4, <2>5, <2>6, <2>7, <2>8 DEF RequestsInOrder
<1> QED BY <1>2, <1>4, <1>6, <1>8, <1>9, <1>10

LEMMA AnswerKinds ==
    /\ SocketError.kind = "socket error" /\ Fault.kind = "fault" /\ ExpatError.kind = "expat error"
    /\ \A v: Ok(v).kind = "ok" /\ Ok(v).value = v
BY DEF SocketError, Fault, ExpatError, Ok

LEMMA Facts ==
    ASSUME RemoteInvariant
    PROVE  /\ RemoteTypeOK /\ RequestsInOrder /\ RequestsFit /\ AnswerFits /\ LastCallOK /\ NotYet /\ FirstImport
           /\ server \in ServerType /\ requests \in Nat /\ imports \in Nat /\ broken \in BOOLEAN
           /\ server.queue \in Seq(Requests) /\ server.hosted \in Seq(Libraries) /\ server.starts \in Nat
           /\ executed \in Seq(Execution) /\ handlers \in SUBSET RemoteHandlers
           /\ DOMAIN server.queue = 1..Len(server.queue) /\ Len(server.queue) \in Nat
           /\ client.op \in Operations /\ client.request \in Nat
<1>1. server \in ServerType
  BY DEF RemoteInvariant, RemoteTypeOK
<1>2. server.queue \in Seq(Requests) /\ server.hosted \in Seq(Libraries) /\ server.starts \in Nat
  BY <1>1 DEF ServerType
<1>3. DOMAIN server.queue = 1..Len(server.queue) /\ Len(server.queue) \in Nat
  BY <1>2
<1> QED BY <1>1, <1>2, <1>3 DEF RemoteInvariant, RemoteTypeOK

\* What goes with what is sent.
SentFits(op, left, attempts, what, name, value) ==
    \/ op = "ship" /\ what = "import" /\ name \in Libraries /\ left \in Seq(Libraries)
    \/ op = "names" /\ what = "names"
    \/ op = "describe" /\ what \in {"documentation", "arguments"} /\ left \in Seq(Names) /\ left # <<>> /\ attempts \in 1..4
    \/ /\ op = "run" /\ what = "run" /\ left \in RemoteHandlers \X RemoteValues /\ value = left[2]
       /\ Sendable(Converted(value))
LEMMA SendKeeps ==
    ASSUME RemoteInvariant, NEW op \in Operations \ {"idle"}, NEW left, NEW attempts \in Int, NEW doing,
           doing = [op |-> op, left |-> left, attempts |-> attempts, request |-> 0],
           NEW what \in Kinds, NEW name \in Libraries \cup Names \cup {Nothing}, NEW value \in RemoteValues \cup {Nothing},
           SendRequest(doing, what, name, value), executed' = executed, lastCall' = lastCall,
           SentFits(op, left, attempts, what, name, value),
           handlers' \in SUBSET RemoteHandlers, imports' \in Nat, broken' \in BOOLEAN
    PROVE  RemoteTypeOK' /\ RequestsInOrder' /\ RequestsFit' /\ AnswerFits' /\ LastCallOK'
<1>1. /\ client' = [op |-> op, left |-> left, attempts |-> attempts, request |-> requests + 1]
      /\ requests' \in Nat /\ requests' = requests + 1
      /\ server' \in ServerType
      /\ server' = [server EXCEPT !.queue = server'.queue]
      /\ \A i \in DOMAIN server'.queue:
             \/ server'.queue[i] = Request(what, name, value) /\ server.up
             \/ i \in DOMAIN server.queue /\ server'.queue[i] = server.queue[i]
      /\ \A i \in DOMAIN server'.queue: server'.queue[i].id = client'.request => server'.queue[i] = Request(what, name, value)
      /\ server'.serving # Nothing => server'.serving.id # client'.request
      /\ IF server.up THEN answer' = Nothing ELSE answer' = SocketError /\ server' = server
      /\ RequestsInOrder'
  BY Sends
<1>2. RemoteTypeOK'
  <2>1. client'.op \in Operations /\ client'.attempts \in Int /\ client'.request \in Nat
    BY <1>1, Facts
  <2> QED BY <1>1, <2>1, Facts DEF RemoteTypeOK
<1>3. RequestsFit'
  <2>1. client'.op = op /\ client'.left = left /\ client'.attempts = attempts
    BY <1>1
  <2>2. /\ Request(what, name, value).what = what /\ Request(what, name, value).name = name
        /\ Request(what, name, value).value = value
    BY DEF Request
  <2>3. \A i \in DOMAIN server'.queue: server'.queue[i].id = client'.request => Fits(server.queue[i])'
    <3>1. SUFFICES ASSUME NEW i \in DOMAIN server'.queue, server'.queue[i].id = client'.request
                   PROVE  Fits(server.queue[i])'
      OBVIOUS
    <3>2. server'.queue[i].what = what /\ server'.queue[i].value = value
      BY <1>1, <2>2, <3>1
    <3> QED BY <2>1, <3>2 DEF Fits, Given, SentFits
  <2>4. \A i \in DOMAIN server'.queue: server'.queue[i].what = "import" => server'.queue[i].name \in Libraries
    <3>1. \A i \in DOMAIN server.queue: server.queue[i].what = "import" => server.queue[i].name \in Libraries
      BY Facts DEF RequestsFit
    <3>2. what = "import" => name \in Libraries
      BY DEF SentFits
    <3> QED BY <1>1, <2>2, <3>1, <3>2
  <2>5. /\ client'.op = "ship" => client'.left \in Seq(Libraries)
        /\ client'.op = "describe" => client'.left \in Seq(Names) /\ client'.left # <<>> /\ client'.attempts \in 1..4
        /\ client'.op = "run" => client'.left \in RemoteHandlers \X RemoteValues /\ Sendable(Converted(Given'))
    BY <2>1 DEF SentFits, Given
  <2> QED BY <1>1, <2>3, <2>4, <2>5 DEF RequestsFit
<1>4. AnswerFits'
  <2>1. answer' = Nothing \/ answer' = SocketError
    BY <1>1
  <2> QED BY <2>1 DEF AnswerFits, Failures
<1>5. LastCallOK'
  BY Facts DEF LastCallOK, RunAnswer
<1> QED BY <1>1, <1>2, <1>3, <1>4, <1>5

\* Nobody waits any longer.
LEMMA EndKeeps ==
    ASSUME RemoteInvariant, Ends, executed' = executed, imports' = imports, broken' = broken,
           handlers' \in SUBSET RemoteHandlers
    PROVE  RemoteTypeOK' /\ RequestsInOrder' /\ RequestsFit' /\ AnswerFits'
<1>1. client' = IdleClient /\ answer' = Nothing /\ server' = server /\ requests' = requests
  BY DEF Ends
<1>2. client'.op = "idle" /\ client'.request = 0 /\ client'.attempts = 0
  BY <1>1 DEF IdleClient, Doing
<1>3. RemoteTypeOK'
  BY <1>1, <1>2, Facts DEF RemoteTypeOK, Operations
<1>4. RequestsInOrder'
  BY <1>1, <1>2, Facts DEF RequestsInOrder
<1>5. RequestsFit'
  BY <1>1, <1>2, Facts DEF RequestsFit, Fits
<1>6. AnswerFits'
  BY <1>1 DEF AnswerFits
<1> QED BY <1>3, <1>4, <1>5, <1>6

LEMMA LastCallKept ==
    ASSUME RemoteInvariant, executed' = executed, lastCall' = lastCall
    PROVE  LastCallOK'
BY Facts DEF LastCallOK, RunAnswer

------------------------------------------------------------------------------
(***************************************************************************)
(* Every step of the client keeps the invariant ...                        *)
(***************************************************************************)
LEMMA GetNamesStep ==
    ASSUME RemoteInvariant, NEW attempts \in Int, GetNames(attempts), executed' = executed, lastCall' = lastCall,
           handlers' = {}, imports' \in Nat \ {0}, broken' \in BOOLEAN, server.starts = 0 => broken',
           imports' = 1 => /\ server.serving = Nothing /\ (~broken' => server.up)
                           /\ \A i \in DOMAIN server.queue: server.queue[i].what \notin {"run", "import"}
    PROVE  RemoteInvariant'
<1> DEFINE r == Request("names", Nothing, Nothing)
           doing == [op |-> "names", left |-> <<>>, attempts |-> attempts, request |-> 0]
<1>1. SendRequest(doing, "names", Nothing, Nothing)
  BY DEF GetNames, Doing
<1>2. handlers' \in SUBSET RemoteHandlers /\ "names" \in Operations \ {"idle"} /\ "names" \in Kinds
  BY DEF Operations, Kinds
<1>3. /\ client' = [op |-> "names", left |-> <<>>, attempts |-> attempts, request |-> requests + 1]
      /\ server' = [server EXCEPT !.queue = server'.queue]
      /\ \A i \in DOMAIN server'.queue:
             \/ server'.queue[i] = r /\ server.up
             \/ i \in DOMAIN server.queue /\ server'.queue[i] = server.queue[i]
      /\ IF server.up THEN answer' = Nothing ELSE answer' = SocketError /\ server' = server
  <2>1. PICK none, sent: none = <<>> /\ sent = [op |-> "names", left |-> none, attempts |-> attempts, request |-> 0]
    OBVIOUS
  <2>2. SendRequest(sent, "names", Nothing, Nothing)
    BY <1>1, <2>1
  <2>3. Nothing \in Libraries \cup Names \cup {Nothing} /\ Nothing \in RemoteValues \cup {Nothing}
    OBVIOUS
  <2> HIDE DEF r, doing
  <2>4. /\ client' = [op |-> "names", left |-> none, attempts |-> attempts, request |-> requests + 1]
        /\ server' = [server EXCEPT !.queue = server'.queue]
        /\ \A i \in DOMAIN server'.queue:
               \/ server'.queue[i] = Request("names", Nothing, Nothing) /\ server.up
               \/ i \in DOMAIN server.queue /\ server'.queue[i] = server.queue[i]
        /\ IF server.up THEN answer' = Nothing ELSE answer' = SocketError /\ server' = server
    BY <1>2, <2>1, <2>2, <2>3, Sends
  <2> QED BY <2>1, <2>4 DEF r
<1>4. RemoteTypeOK' /\ RequestsInOrder' /\ RequestsFit' /\ AnswerFits' /\ LastCallOK'
  <2>1. SentFits("names", <<>>, attempts, "names", Nothing, Nothing)
    BY DEF SentFits
  <2> QED BY <1>1, <1>2, <2>1, SendKeeps
<1>5. /\ server'.up = server.up /\ server'.serving = server.serving /\ server'.starts = server.starts
      /\ client'.op = "names" /\ r.what = "names" /\ SocketError.kind = "socket error"
  BY <1>3, Facts DEF ServerType, Request, SocketError
<1>6. NotYet'
  <2>1. server.starts = 0 => ~server.up /\ server.queue = <<>> /\ server.serving = Nothing
    BY Facts DEF NotYet
  <2> QED BY <1>3, <1>5, <2>1 DEF NotYet
<1>7. FirstImport'
  <2>1. SUFFICES ASSUME imports' = 1 PROVE FirstImport'
    BY DEF FirstImport
  <2>2. /\ server'.serving = Nothing
        /\ \A i \in DOMAIN server'.queue: server'.queue[i].what # "run" /\ server'.queue[i].what # "import"
    BY <1>3, <1>5, <2>1
  <2>3. ~broken' => server'.up /\ answer' = Nothing
    BY <1>3, <1>5, <2>1
  <2>4. answer' # Nothing => answer'.kind # "ok"
    BY <1>3, <1>5
  <2> HIDE DEF r, doing
  <2> QED BY <1>5, <2>2, <2>3, <2>4 DEF FirstImport, Importing
<1> QED BY <1>4, <1>6, <1>7 DEF RemoteInvariant

LEMMA ShipStep ==
    ASSUME RemoteInvariant, NEW libraries \in Seq(Libraries), Ship(libraries), executed' = executed, lastCall' = lastCall,
           handlers' = {}, imports' \in Nat \ {0}, broken' \in BOOLEAN, server.starts = 0 => broken',
           imports' = 1 => server.serving = Nothing /\ DOMAIN server.queue = {} /\ (~broken' => server.up)
    PROVE  RemoteInvariant'
<1>1. CASE libraries = <<>>
  <2>1. GetNames(Attempts) /\ Attempts \in Int
    BY <1>1, RemoteAssumption DEF Ship
  <2> QED BY <2>1, GetNamesStep
<1>2. CASE libraries # <<>>
  <2> DEFINE r == Request("import", Head(libraries), Nothing)
             doing == [op |-> "ship", left |-> Tail(libraries), attempts |-> 0, request |-> 0]
  <2>1. /\ Head(libraries) \in Libraries /\ Tail(libraries) \in Seq(Libraries)
        /\ "ship" \in Operations \ {"idle"} /\ "import" \in Kinds
    BY <1>2 DEF Operations, Kinds
  <2>2. SendRequest(doing, "import", Head(libraries), Nothing)
    BY <1>2 DEF Ship, Doing
  <2>3. handlers' \in SUBSET RemoteHandlers
    OBVIOUS
  <2>4. /\ client' = [op |-> "ship", left |-> Tail(libraries), attempts |-> 0, request |-> requests + 1]
        /\ server' = [server EXCEPT !.queue = server'.queue]
        /\ \A i \in DOMAIN server'.queue:
               \/ server'.queue[i] = r /\ server.up
               \/ i \in DOMAIN server.queue /\ server'.queue[i] = server.queue[i]
        /\ IF server.up THEN answer' = Nothing ELSE answer' = SocketError /\ server' = server
    BY <2>1, <2>2, Sends
  <2>5. RemoteTypeOK' /\ RequestsInOrder' /\ RequestsFit' /\ AnswerFits' /\ LastCallOK'
    <3>1. SentFits("ship", Tail(libraries), 0, "import", Head(libraries), Nothing)
      BY <2>1 DEF SentFits
    <3>2. Head(libraries) \in Libraries \cup Names \cup {Nothing} /\ Nothing \in RemoteValues \cup {Nothing}
      BY <2>1
    <3>3. imports' \in Nat /\ 0 \in Int
      OBVIOUS
    <3> HIDE DEF r
    <3> QED BY <2>1, <2>2, <2>3, <3>1, <3>2, <3>3, SendKeeps
  <2>6. /\ server'.up = server.up /\ server'.serving = server.serving /\ server'.starts = server.starts
        /\ client'.op = "ship" /\ client'.request = requests + 1
        /\ r.what = "import" /\ r.id = requests + 1 /\ SocketError.kind = "socket error"
    BY <2>4, Facts DEF ServerType, Request, SocketError
  <2>7. NotYet'
    <3>1. server.starts = 0 => ~server.up /\ server.queue = <<>> /\ server.serving = Nothing
      BY Facts DEF NotYet
    <3> QED BY <2>4, <2>6, <3>1 DEF NotYet
  <2>8. FirstImport'
    <3>1. SUFFICES ASSUME imports' = 1 PROVE FirstImport'
      BY DEF FirstImport
    <3>2. server'.serving = Nothing /\ \A i \in DOMAIN server'.queue: server'.queue[i] = r
      BY <2>4, <2>6, <3>1
    <3>3. ~broken' => server'.up /\ answer' = Nothing
      BY <2>4, <2>6, <3>1
    <3>4. answer' # Nothing => answer'.kind # "ok"
      BY <2>4, <2>6
    <3> HIDE DEF r, doing
    <3> QED BY <2>6, <3>2, <3>3, <3>4 DEF FirstImport, Importing
  <2> QED BY <2>5, <2>7, <2>8 DEF RemoteInvariant
<1> QED BY <1>1, <1>2

LEMMA ImportRemoteStep ==
    ASSUME RemoteInvariant, NEW libraries \in RemoteImports, ImportRemote(libraries)
    PROVE  RemoteInvariant'
<1>1. libraries \in Seq(Libraries)
  BY RemoteAssumption DEF Libraries
<1>2. /\ client.op = "idle" /\ executed' = executed /\ lastCall' = lastCall /\ handlers' = {}
      /\ imports' = imports + 1 /\ imports' \in Nat \ {0} /\ broken' = ~server.up
      /\ IF Shipping THEN Ship(libraries) ELSE GetNames(Attempts)
  BY Facts DEF ImportRemote
<1>3. broken' \in BOOLEAN /\ (~broken' => server.up)
  BY <1>2
<1>4. server.starts = 0 => broken'
  BY <1>2, Facts DEF NotYet
<1>5. imports' = 1 => server.serving = Nothing /\ DOMAIN server.queue = {}
  <2>1. imports' = 1 => imports = 0
    BY <1>2, Facts
  <2>2. imports = 0 => server.serving = Nothing /\ server.queue = <<>>
    BY Facts DEF NotYet
  <2> QED BY <2>1, <2>2
<1>6. CASE Shipping
  BY <1>1, <1>2, <1>3, <1>4, <1>5, <1>6, ShipStep
<1>7. CASE ~Shipping
  <2>1. GetNames(Attempts) /\ Attempts \in Int
    BY <1>2, <1>7, RemoteAssumption
  <2> QED BY <1>2, <1>3, <1>4, <1>5, <2>1, GetNamesStep
<1> QED BY <1>6, <1>7

\* While the client waits something has been imported.
LEMMA SomethingImported ==
    ASSUME RemoteInvariant, client.op # "idle"
    PROVE  imports \in Nat \ {0} /\ (server.starts = 0 => broken)
BY Facts DEF NotYet

LEMMA EndIsKept ==
    ASSUME RemoteInvariant, client.op # "idle", Ends, executed' = executed, imports' = imports, broken' = broken,
           handlers' \in SUBSET RemoteHandlers, server.starts = 0 => handlers' = {},
           imports = 1 =>
               /\ handlers' # {} => \A i \in DOMAIN server.queue: server.queue[i].what # "import"
               /\ server.starts = 1 => handlers' \subseteq Served /\ (~broken => handlers' = Served)
    PROVE  NotYet' /\ FirstImport'
<1>1. client'.op = "idle" /\ answer' = Nothing /\ server' = server
  BY DEF Ends, IdleClient, Doing
<1>2. NotYet'
  BY <1>1, SomethingImported, Facts DEF NotYet
<1>3. FirstImport'
  <2>1. SUFFICES ASSUME imports = 1 PROVE FirstImport'
    BY DEF FirstImport
  <2>2. Served' = Served
    BY <1>1, NamesKept
  <2> QED BY <1>1, <2>1, <2>2 DEF FirstImport, Importing
<1> QED BY <1>2, <1>3

LEMMA LibrarySentStep ==
    ASSUME RemoteInvariant, LibrarySent
    PROVE  RemoteInvariant'
<1>1. /\ client.op = "ship" /\ answer # Nothing /\ client.left \in Seq(Libraries)
      /\ handlers' = handlers /\ imports' = imports /\ executed' = executed /\ lastCall' = lastCall /\ broken' = broken
      /\ imports \in Nat \ {0} /\ (server.starts = 0 => broken) /\ broken \in BOOLEAN
      /\ IF answer.kind = "ok" THEN Ship(client.left) ELSE Ends
  <2>1. client.op = "ship" => client.left \in Seq(Libraries)
    BY Facts DEF RequestsFit
  <2> QED BY <2>1, Facts, SomethingImported DEF LibrarySent
<1>2. (answer = SocketError \/ answer.kind = "ok") /\ handlers \in SUBSET RemoteHandlers /\ handlers = {}
  BY <1>1, Facts DEF AnswerFits, NotYet
<1>3. CASE answer.kind = "ok"
  <2>1. Ship(client.left) /\ imports' \in Nat \ {0} /\ broken' \in BOOLEAN /\ (server.starts = 0 => broken') /\ handlers' = {}
    BY <1>1, <1>2, <1>3
  <2>2. imports' = 1 => server.serving = Nothing /\ DOMAIN server.queue = {} /\ (~broken' => server.up)
    BY <1>1, <1>3, Facts DEF FirstImport, Importing
  <2> QED BY <1>1, <2>1, <2>2, ShipStep
<1>4. CASE answer.kind # "ok"
  <2>1. Ends
    BY <1>1, <1>4
  <2>2. RemoteTypeOK' /\ RequestsInOrder' /\ RequestsFit' /\ AnswerFits'
    BY <1>1, <1>2, <2>1, EndKeeps
  <2>3. LastCallOK'
    BY <1>1, LastCallKept
  <2>4. answer.kind = "socket error"
    BY <1>2, <1>4, AnswerKinds
  <2>5. imports = 1 => handlers = {} /\ broken
    BY <1>1, <1>2, <2>4, Facts DEF FirstImport, Importing
  <2>6. NotYet' /\ FirstImport'
    BY <1>1, <1>2, <2>1, <2>5, EndIsKept
  <2> QED BY <2>2, <2>3, <2>6 DEF RemoteInvariant
<1> QED BY <1>3, <1>4

\* Keywords are described in turn. "added" is what the handlers become.
LEMMA DescribeKeeps ==
    ASSUME RemoteInvariant, NEW names \in Seq(Names), NEW attempts \in 1..4, Describe(names, attempts),
           client.op \in {"names", "describe"}, server.starts # 0,
           imports' = imports, broken' = broken, executed' = executed, lastCall' = lastCall,
           handlers' \in SUBSET RemoteHandlers,
           imports = 1 /\ ~broken => server.up,
           imports = 1 /\ server.starts = 1 =>
               /\ handlers' \subseteq Served /\ Range(names) \subseteq Range(KeywordNames)
               /\ ~broken => \A name \in Range(KeywordNames): name \in Range(names) \/ Twins(name) \subseteq handlers'
               /\ names # <<>> /\ attempts <= 2 => [name |-> Head(names), twin |-> FALSE] \in handlers'
    PROVE  RemoteInvariant'
<1>1. imports \in Nat \ {0}
  BY SomethingImported
<1>2. imports = 1 => /\ server.serving = Nothing
                     /\ \A i \in DOMAIN server.queue: server.queue[i].what # "run" /\ server.queue[i].what # "import"
  BY Facts DEF FirstImport, Importing
<1>3. CASE names = <<>>
  <2>1. Ends
    BY <1>3 DEF Describe
  <2>2. RemoteTypeOK' /\ RequestsInOrder' /\ RequestsFit' /\ AnswerFits'
    BY <2>1, EndKeeps
  <2>3. LastCallOK'
    BY LastCallKept
  <2>4. imports = 1 /\ server.starts = 1 /\ ~broken => handlers' = Served
    <3>1. SUFFICES ASSUME imports = 1, server.starts = 1, ~broken PROVE Served \subseteq handlers'
      OBVIOUS
    <3>2. Range(names) = {}
      BY <1>3 DEF Range
    <3>3. \A name \in Range(KeywordNames): Twins(name) \subseteq handlers'
      BY <3>1, <3>2
    <3> QED BY <3>3 DEF Served, Twins
  <2>5. NotYet' /\ FirstImport'
    BY <1>2, <2>1, <2>4, EndIsKept
  <2> QED BY <2>2, <2>3, <2>5 DEF RemoteInvariant
<1>4. CASE names # <<>>
  <2> DEFINE what == IF attempts % 2 = 0 THEN "documentation" ELSE "arguments"
  <2>1. SendRequest([op |-> "describe", left |-> names, attempts |-> attempts, request |-> 0], what, Head(names), Nothing)
    BY <1>4 DEF Describe, Doing
  <2>2. /\ what \in {"documentation", "arguments"} /\ what \in Kinds /\ "describe" \in Operations \ {"idle"}
        /\ Head(names) \in Libraries \cup Names \cup {Nothing} /\ Nothing \in RemoteValues \cup {Nothing}
        /\ attempts \in Int
    BY <1>4 DEF Operations, Kinds
  <2> HIDE DEF what
  <2>3. PICK doing, name: /\ doing = [op |-> "describe", left |-> names, attempts |-> attempts, request |-> 0]
                          /\ name = Head(names)
    OBVIOUS
  <2>4. SendRequest(doing, what, name, Nothing) /\ name \in Libraries \cup Names \cup {Nothing}
    BY <2>1, <2>2, <2>3
  <2>5. /\ client' = [op |-> "describe", left |-> names, attempts |-> attempts, request |-> requests + 1]
        /\ server' = [server EXCEPT !.queue = server'.queue]
        /\ \A i \in DOMAIN server'.queue:
               \/ server'.queue[i] = Request(what, name, Nothing) /\ server.up
               \/ i \in DOMAIN server.queue /\ server'.queue[i] = server.queue[i]
        /\ IF server.up THEN answer' = Nothing ELSE answer' = SocketError /\ server' = server
    BY <2>2, <2>3, <2>4, Sends
  <2>6. RemoteTypeOK' /\ RequestsInOrder' /\ RequestsFit' /\ AnswerFits' /\ LastCallOK'
    <3>1. SentFits("describe", names, attempts, what, name, Nothing)
      BY <1>4, <2>2 DEF SentFits
    <3>2. imports' \in Nat /\ broken' \in BOOLEAN
      BY Facts
    <3> QED BY <2>2, <2>3, <2>4, <3>1, <3>2, SendKeeps
  <2>7. /\ server'.up = server.up /\ server'.serving = server.serving /\ server'.starts = server.starts
        /\ server'.hosted = server.hosted
        /\ client'.op = "describe" /\ client'.left = names /\ client'.attempts = attempts
        /\ Request(what, name, Nothing).what = what
    BY <2>5, Facts DEF ServerType, Request
  <2>8. NotYet'
    BY <1>1, <2>7 DEF NotYet
  <2>9. FirstImport'
    <3>1. SUFFICES ASSUME imports = 1 PROVE FirstImport'
      BY DEF FirstImport
    <3>2. server'.serving = Nothing /\ \A i \in DOMAIN server'.queue: server'.queue[i].what # "run" /\ server'.queue[i].what # "import"
      BY <1>2, <2>2, <2>5, <2>7, <3>1
    <3>3. ~broken => server'.up /\ answer' = Nothing
      BY <2>5, <2>7, <3>1
    <3>4. KeywordNames' = KeywordNames /\ Served' = Served
      BY <2>7, NamesKept
    <3>5. server.starts = 1 =>
               /\ handlers' \subseteq Served' /\ Range(client'.left) \subseteq Range(KeywordNames')
               /\ ~broken' => \A n \in Range(KeywordNames'): n \in Range(client'.left) \/ Twins(n) \subseteq handlers'
               /\ client'.attempts <= 2 => [name |-> Head(client'.left), twin |-> FALSE] \in handlers'
      BY <1>4, <2>7, <3>1, <3>4
    <3>6. Importing'
      BY <2>7 DEF Importing
    <3> QED BY <2>7, <3>1, <3>2, <3>3, <3>5, <3>6 DEF FirstImport
  <2> QED BY <2>6, <2>8, <2>9 DEF RemoteInvariant
<1> QED BY <1>3, <1>4

LEMMA GotNamesStep ==
    ASSUME RemoteInvariant, GotNames
    PROVE  RemoteInvariant'
<1>1. /\ client.op = "names" /\ answer # Nothing /\ handlers = {}
      /\ handlers' = handlers /\ imports' = imports /\ executed' = executed /\ lastCall' = lastCall /\ broken' = broken
      /\ imports \in Nat \ {0} /\ (server.starts = 0 => broken) /\ broken \in BOOLEAN
      /\ answer = SocketError \/ (answer.kind = "ok" /\ answer.value \in Seq(Names))
  BY Facts, SomethingImported DEF GotNames, AnswerFits, NotYet
<1>2. imports = 1 => /\ server.serving = Nothing /\ (~broken => server.up)
                     /\ \A i \in DOMAIN server.queue: server.queue[i].what \notin {"run", "import"}
                     /\ ~broken => answer.kind # "socket error"
  BY <1>1, Facts DEF FirstImport, Importing
<1>3. handlers' \in SUBSET RemoteHandlers
  BY <1>1, Facts
<1>4. CASE answer.kind = "ok"
  <2>1. Describe(answer.value, 4) /\ 4 \in 1..4
    BY <1>4 DEF GotNames
  <2>2. answer.value \in Seq(Names) /\ server.starts # 0
    <3>1. server.starts = 0 => answer = SocketError
      BY <1>1, Facts DEF NotYet
    <3> QED BY <1>1, <1>4, <3>1, AnswerKinds
  <2>3. imports = 1 /\ server.starts = 1 => answer.value = KeywordNames
    BY <1>1, <1>4, Facts DEF FirstImport
  <2>4. ~(4 <= 2)
    OBVIOUS
  <2> QED BY <1>1, <1>2, <1>3, <2>1, <2>2, <2>3, <2>4, DescribeKeeps
<1>5. CASE answer.kind # "ok" /\ client.attempts > 1
  <2>1. GetNames(client.attempts - 1) /\ client.attempts - 1 \in Int
    BY <1>5, Facts DEF GotNames, RemoteTypeOK
  <2>2. handlers' = {} /\ imports' \in Nat \ {0} /\ broken' \in BOOLEAN /\ (server.starts = 0 => broken')
    BY <1>1
  <2> QED BY <1>1, <1>2, <2>1, <2>2, GetNamesStep
<1>6. CASE answer.kind # "ok" /\ ~(client.attempts > 1)
  <2>1. Ends
    BY <1>6 DEF GotNames
  <2>2. RemoteTypeOK' /\ RequestsInOrder' /\ RequestsFit' /\ AnswerFits'
    BY <1>1, <1>3, <2>1, EndKeeps
  <2>3. LastCallOK'
    BY <1>1, LastCallKept
  <2>4. imports = 1 => broken
    BY <1>1, <1>2, <1>6, AnswerKinds
  <2>5. NotYet' /\ FirstImport'
    BY <1>1, <1>3, <2>1, <2>4, EndIsKept
  <2> QED BY <2>2, <2>3, <2>5 DEF RemoteInvariant
<1> QED BY <1>4, <1>5, <1>6

LEMMA DescribedStep ==
    ASSUME RemoteInvariant, Described
    PROVE  RemoteInvariant'
<1> DEFINE head == Head(client.left)
           rest == Tail(client.left)
           n == client.attempts - 1
<1>1. /\ client.op = "describe" /\ answer # Nothing
      /\ imports' = imports /\ executed' = executed /\ lastCall' = lastCall /\ broken' = broken
      /\ client.left \in Seq(Names) /\ client.left # <<>> /\ client.attempts \in 1..4
      /\ answer = SocketError \/ answer.kind \in {"ok", "fault"}
  BY Facts DEF Described, AnswerFits, RequestsFit
<1>2. server.starts # 0
  BY <1>1, Facts DEF NotYet
<1>3. imports = 1 => /\ ~broken => server.up /\ answer.kind # "socket error"
  BY <1>1, Facts DEF FirstImport, Importing
<1>4. head \in Names /\ rest \in Seq(Names) /\ n \in 0..3
  BY <1>1
<1>5. Range(client.left) = {head} \cup Range(rest)
  <2>1. DOMAIN client.left = 1..Len(client.left) /\ Len(client.left) \in Nat \ {0}
    BY <1>1
  <2>2. /\ rest \in Seq(Names) /\ Len(rest) = Len(client.left) - 1 /\ DOMAIN rest = 1..(Len(client.left) - 1)
        /\ \A i \in 1..(Len(client.left) - 1): rest[i] = client.left[i + 1]
        /\ head = client.left[1]
    BY <1>1
  <2> HIDE DEF head, rest
  <2>3. \A i \in DOMAIN client.left: client.left[i] = head \/ client.left[i] \in Range(rest)
    <3>1. SUFFICES ASSUME NEW i \in DOMAIN client.left, i # 1 PROVE client.left[i] \in Range(rest)
      BY <2>2
    <3>2. i - 1 \in DOMAIN rest /\ rest[i - 1] = client.left[i]
      BY <2>1, <2>2, <3>1
    <3> QED BY <3>2 DEF Range
  <2>4. \A i \in DOMAIN rest: rest[i] \in Range(client.left)
    <3>1. SUFFICES ASSUME NEW i \in DOMAIN rest PROVE rest[i] \in Range(client.left)
      OBVIOUS
    <3>2. i + 1 \in DOMAIN client.left /\ rest[i] = client.left[i + 1]
      BY <2>1, <2>2, <3>1
    <3> QED BY <3>2 DEF Range
  <2>5. head \in Range(client.left)
    BY <2>1, <2>2 DEF Range
  <2> QED BY <2>3, <2>4, <2>5 DEF Range
<1>6. imports = 1 /\ server.starts = 1 =>
          /\ handlers \subseteq Served /\ Range(client.left) \subseteq Range(KeywordNames)
          /\ ~broken => \A name \in Range(KeywordNames): name \in Range(client.left) \/ Twins(name) \subseteq handlers
          /\ client.attempts <= 2 => [name |-> head, twin |-> FALSE] \in handlers
  BY <1>1, Facts DEF FirstImport
<1> HIDE DEF head, rest, n
<1>7. CASE answer.kind = "socket error"
  <2>1. Describe(rest, 4) /\ handlers' = handlers /\ 4 \in 1..4 /\ ~(4 <= 2)
    <3>1. Described => (answer.kind = "socket error" => Describe(rest, 4) /\ handlers' = handlers)
      BY DEF Described, rest
    <3>2. 4 \in 1..4 /\ ~(4 <= 2)
      OBVIOUS
    <3> QED BY <1>7, <3>1, <3>2
  <2>2. imports = 1 => broken
    BY <1>1, <1>3, <1>7, Facts
  <2>3. handlers' \in SUBSET RemoteHandlers
    BY <2>1, Facts
  <2> QED BY <1>1, <1>2, <1>4, <1>5, <1>6, <2>1, <2>2, <2>3, DescribeKeeps
<1>8. CASE answer.kind # "socket error"
  <2>1. handlers' = handlers \cup (CASE n = 2 -> {[name |-> head, twin |-> FALSE]}
                                     [] n = 0 -> {[name |-> head, twin |-> TRUE]}
                                     [] OTHER -> {})
    BY <1>8 DEF Described, head, n
  <2>2. IF n = 0 THEN Describe(rest, 4) ELSE Describe(client.left, n)
    BY <1>8 DEF Described, rest, n
  <2>3. /\ n = 2 => handlers' = handlers \cup {[name |-> head, twin |-> FALSE]}
        /\ n = 0 => handlers' = handlers \cup {[name |-> head, twin |-> TRUE]}
        /\ n \in {1, 3} => handlers' = handlers
    BY <2>1
  <2>4. handlers' \in SUBSET RemoteHandlers /\ handlers \subseteq handlers'
    <3>1. \A twin \in BOOLEAN: [name |-> head, twin |-> twin] \in RemoteHandlers
      BY <1>4 DEF RemoteHandlers
    <3>2. [name |-> head, twin |-> FALSE] \in RemoteHandlers /\ [name |-> head, twin |-> TRUE] \in RemoteHandlers
      BY <3>1
    <3>3. PICK own, twin: own = [name |-> head, twin |-> FALSE] /\ twin = [name |-> head, twin |-> TRUE]
      OBVIOUS
    <3>4. own \in RemoteHandlers /\ twin \in RemoteHandlers
      BY <3>2, <3>3
    <3>5. handlers' \in {handlers, handlers \cup {own}, handlers \cup {twin}}
      <4>1. n \in {0, 1, 2, 3}
        BY <1>4
      <4> QED BY <2>3, <3>3, <4>1
    <3>6. handlers \in SUBSET RemoteHandlers
      BY Facts
    <3> QED BY <3>4, <3>5, <3>6
  <2>5. imports = 1 /\ server.starts = 1 => handlers' \subseteq Served
    <3>1. SUFFICES ASSUME imports = 1, server.starts = 1 PROVE handlers' \subseteq Served
      OBVIOUS
    <3>2. head \in Range(KeywordNames)
      BY <1>5, <1>6, <3>1
    <3>3. [name |-> head, twin |-> FALSE] \in Served /\ [name |-> head, twin |-> TRUE] \in Served
      <4>1. \A twin \in BOOLEAN: [name |-> head, twin |-> twin] \in Served
        BY <3>2 DEF Served
      <4> QED BY <4>1
    <3>4. PICK own, twin: own = [name |-> head, twin |-> FALSE] /\ twin = [name |-> head, twin |-> TRUE]
      OBVIOUS
    <3>5. own \in Served /\ twin \in Served
      BY <3>3, <3>4
    <3>6. handlers' \in {handlers, handlers \cup {own}, handlers \cup {twin}}
      <4>1. n \in {0, 1, 2, 3}
        BY <1>4
      <4> QED BY <2>3, <3>4, <4>1
    <3>7. handlers \subseteq Served
      BY <1>6, <3>1
    <3> QED BY <3>5, <3>6, <3>7
  <2>6. CASE n = 0
    <3>1. imports = 1 /\ server.starts = 1 => Twins(head) \subseteq handlers'
      <4>1. SUFFICES ASSUME imports = 1, server.starts = 1 PROVE Twins(head) \subseteq handlers'
        OBVIOUS
      <4>2. client.attempts <= 2
        BY <1>1, <2>6 DEF n
      <4> QED BY <1>6, <2>3, <2>6, <4>1, <4>2 DEF Twins
    <3>2. imports = 1 /\ server.starts = 1 /\ ~broken =>
              \A name \in Range(KeywordNames): name \in Range(rest) \/ Twins(name) \subseteq handlers'
      BY <1>5, <1>6, <2>4, <3>1
    <3>3. Describe(rest, 4) /\ 4 \in 1..4 /\ ~(4 <= 2)
      BY <2>2, <2>6
    <3> QED BY <1>1, <1>2, <1>3, <1>4, <1>5, <1>6, <2>4, <2>5, <3>2, <3>3, DescribeKeeps
  <2>7. CASE n # 0
    <3>1. imports = 1 /\ server.starts = 1 /\ n <= 2 => [name |-> head, twin |-> FALSE] \in handlers'
      <4>1. CASE n = 2
        BY <2>3, <4>1
      <4>2. CASE n = 1
        <5>1. client.attempts <= 2
          BY <1>1, <4>2 DEF n
        <5> QED BY <1>6, <2>4, <5>1
      <4> QED BY <1>4, <2>7, <4>1, <4>2
    <3>2. Describe(client.left, n) /\ n \in 1..4
      BY <1>4, <2>2, <2>7
    <3>3. imports = 1 /\ server.starts = 1 /\ ~broken =>
              \A name \in Range(KeywordNames): name \in Range(client.left) \/ Twins(name) \subseteq handlers'
      BY <1>6, <2>4
    <3> QED BY <1>1, <1>2, <1>3, <1>6, <2>4, <2>5, <3>1, <3>2, <3>3, DescribeKeeps DEF head
  <2> QED BY <2>6, <2>7
<1> QED BY <1>7, <1>8

\* A keyword that failed without an answer from the server.
LEMMA CallFails ==
    ASSUME NEW handler \in RemoteHandlers, NEW message, message # "remote", NEW given, NEW result,
           \/ CallEnded(handler, "FAIL", message, given, result)
           \/ message # "timeout" /\ CallEnded(handler, Inverted(handler, "FAIL"), message, given, result)
    PROVE  LastCallOK'
<1>1. /\ lastCall'.message = message /\ lastCall'.twin = handler.twin
      /\ lastCall'.status = "PASS" => handler.twin /\ message # "timeout"
  BY DEF CallEnded, Inverted
<1> QED BY <1>1 DEF LastCallOK

LEMMA CallKeywordStep ==
    ASSUME RemoteInvariant, NEW handler \in handlers, NEW value \in RemoteValues, CallKeyword(handler, value)
    PROVE  RemoteInvariant'
<1>1. /\ client.op = "idle" /\ handlers' = handlers /\ imports' = imports /\ executed' = executed /\ broken' = broken
      /\ handler \in RemoteHandlers /\ server.starts # 0 /\ imports # 0
  BY Facts DEF CallKeyword, NotYet
<1>2. CASE Sendable(Converted(value))
  <2>1. /\ "run" \in Operations \ {"idle"} /\ "run" \in Kinds /\ 0 \in Int
        /\ handler.name \in Libraries \cup Names \cup {Nothing} /\ value \in RemoteValues \cup {Nothing}
        /\ imports' \in Nat /\ broken' \in BOOLEAN /\ handlers' \in SUBSET RemoteHandlers
    BY <1>1, Facts DEF Operations, Kinds, RemoteHandlers
  <2>2. PICK left, doing, name: /\ left = <<handler, value>> /\ name = handler.name
                                /\ doing = [op |-> "run", left |-> left, attempts |-> 0, request |-> 0]
    OBVIOUS
  <2>3. /\ SendRequest(doing, "run", name, value) /\ lastCall' = lastCall
        /\ name \in Libraries \cup Names \cup {Nothing}
    BY <1>2, <2>1, <2>2 DEF CallKeyword, Doing
  <2>4. SentFits("run", left, 0, "run", name, value)
    BY <1>1, <1>2, <2>2 DEF SentFits
  <2>5. /\ client' = [op |-> "run", left |-> left, attempts |-> 0, request |-> requests + 1]
        /\ server' = [server EXCEPT !.queue = server'.queue]
        /\ \A i \in DOMAIN server'.queue:
               \/ server'.queue[i] = Request("run", name, value) /\ server.up
               \/ i \in DOMAIN server.queue /\ server'.queue[i] = server.queue[i]
    BY <1>1, <2>1, <2>2, <2>3, Sends
  <2>6. RemoteTypeOK' /\ RequestsInOrder' /\ RequestsFit' /\ AnswerFits' /\ LastCallOK'
    BY <1>1, <2>1, <2>2, <2>3, <2>4, SendKeeps
  <2>7. /\ server'.starts = server.starts /\ server'.hosted = server.hosted
        /\ client'.op = "run" /\ Request("run", name, value).what = "run"
    BY <2>5, Facts DEF ServerType, Request
  <2>8. NotYet'
    BY <1>1, <2>7 DEF NotYet
  <2>9. FirstImport'
    <3>1. SUFFICES ASSUME imports = 1 PROVE FirstImport'
      BY <1>1 DEF FirstImport
    <3>2. handlers # {}
      OBVIOUS
    <3>3. \A i \in DOMAIN server.queue: server.queue[i].what # "import"
      BY <3>1, <3>2, Facts DEF FirstImport
    <3>4. \A i \in DOMAIN server'.queue: server'.queue[i].what # "import"
      BY <2>5, <2>7, <3>3
    <3>5. Served' = Served
      BY <2>7, NamesKept
    <3>6. server.starts = 1 => handlers \subseteq Served /\ (~broken => handlers = Served)
      BY <1>1, <3>1, Facts DEF FirstImport
    <3> QED BY <1>1, <2>7, <3>1, <3>4, <3>5, <3>6 DEF FirstImport, Importing
  <2> QED BY <2>6, <2>8, <2>9 DEF RemoteInvariant
<1>3. CASE ~Sendable(Converted(value))
  <2>1. CallEnded(handler, Inverted(handler, "FAIL"), "overflow", value, Nothing) /\ UNCHANGED <<server, client, answer, requests>>
    BY <1>3 DEF CallKeyword
  <2>2. LastCallOK'
    <3>1. PICK message: message = "overflow"
      OBVIOUS
    <3>2. CallEnded(handler, Inverted(handler, "FAIL"), message, value, Nothing) /\ message \notin {"remote", "timeout"}
      BY <2>1, <3>1
    <3> QED BY <1>1, <3>2, CallFails
  <2>3. KeywordNames' = KeywordNames /\ Served' = Served
    BY <2>1, NamesKept
  <2>4. RemoteTypeOK'
    BY <1>1, <2>1, Facts DEF RemoteTypeOK
  <2>5. RequestsInOrder'
    BY <1>1, <2>1, Facts DEF RequestsInOrder
  <2>6. RequestsFit'
    BY <1>1, <2>1, Facts DEF RequestsFit, Fits, Given
  <2>7. AnswerFits'
    BY <1>1, <2>1, Facts DEF AnswerFits, RunAnswer, Given
  <2>8. NotYet'
    BY <1>1, <2>1, Facts DEF NotYet
  <2>9. FirstImport'
    BY <1>1, <2>1, <2>3, Facts DEF FirstImport, Importing
  <2> QED BY <2>2, <2>4, <2>5, <2>6, <2>7, <2>8, <2>9 DEF RemoteInvariant
<1> QED BY <1>2, <1>3

\* A keyword has ended: the client has all it had after the import.
LEMMA KeywordEnds ==
    ASSUME RemoteInvariant, client.op = "run", Ends, UNCHANGED <<handlers, imports, executed, broken>>, LastCallOK'
    PROVE  RemoteInvariant'
<1>1. handlers' = handlers /\ imports' = imports /\ executed' = executed /\ broken' = broken
  OBVIOUS
<1>2. handlers' \in SUBSET RemoteHandlers
  BY <1>1, Facts
<1>3. RemoteTypeOK' /\ RequestsInOrder' /\ RequestsFit' /\ AnswerFits'
  BY <1>1, <1>2, EndKeeps
<1>4. server.starts = 0 => handlers' = {}
  BY <1>1, Facts DEF NotYet
<1>5. imports = 1 =>
               /\ handlers' # {} => \A i \in DOMAIN server.queue: server.queue[i].what # "import"
               /\ server.starts = 1 => handlers' \subseteq Served /\ (~broken => handlers' = Served)
  BY <1>1, Facts DEF FirstImport
<1>6. NotYet' /\ FirstImport'
  BY <1>1, <1>2, <1>4, <1>5, EndIsKept
<1> QED BY <1>3, <1>6 DEF RemoteInvariant

LEMMA KeywordAnsweredStep ==
    ASSUME RemoteInvariant, KeywordAnswered
    PROVE  RemoteInvariant'
<1> DEFINE handler == client.left[1]
<1>1. /\ client.op = "run" /\ answer # Nothing /\ Ends /\ UNCHANGED <<handlers, imports, executed, broken>>
      /\ IF answer.kind = "ok"
         THEN CallEnded(handler, Inverted(handler, answer.value.status), "remote", client.left[2], answer.value)
         ELSE CallEnded(handler, Inverted(handler, "FAIL"), answer.kind, client.left[2], Nothing)
  BY DEF KeywordAnswered
<1>2. client.left \in RemoteHandlers \X RemoteValues /\ Sendable(Converted(Given))
  BY <1>1, Facts DEF RequestsFit
<1>3. handler \in RemoteHandlers /\ Given \in RemoteValues /\ Given = client.left[2]
  BY <1>2 DEF Given
<1>4. answer \in Failures \/ (answer.kind = "ok" /\ RunAnswer(client.request, Given, answer.value))
  BY <1>1, Facts DEF AnswerFits
<1> HIDE DEF handler
<1>5. CASE answer.kind = "ok"
  <2>1. RunAnswer(client.request, Given, answer.value)
    BY <1>4, <1>5, AnswerKinds DEF Failures
  <2>2. /\ lastCall'.message = "remote" /\ lastCall'.id = client.request
        /\ lastCall'.given = Given /\ lastCall'.result = answer.value
    BY <1>1, <1>3, <1>5 DEF CallEnded
  <2>3. LastCallOK'
    BY <1>1, <1>2, <1>3, <2>1, <2>2 DEF LastCallOK, RunAnswer
  <2> QED BY <1>1, <2>3, KeywordEnds
<1>6. CASE answer.kind # "ok"
  <2>1. answer.kind \notin {"remote", "timeout"}
    BY <1>4, <1>6, AnswerKinds DEF Failures
  <2>2. PICK message, given: message = answer.kind /\ given = client.left[2]
    OBVIOUS
  <2>3. CallEnded(handler, Inverted(handler, "FAIL"), message, given, Nothing) /\ message \notin {"remote", "timeout"}
    BY <1>1, <1>6, <2>1, <2>2
  <2>4. LastCallOK'
    BY <1>3, <2>3, CallFails
  <2> QED BY <1>1, <2>4, KeywordEnds
<1> QED BY <1>5, <1>6

LEMMA KeywordTimeoutStep ==
    ASSUME RemoteInvariant, KeywordTimeout
    PROVE  RemoteInvariant'
<1>1. /\ client.op = "run" /\ Ends /\ UNCHANGED <<handlers, imports, executed, broken>>
      /\ CallEnded(client.left[1], "FAIL", "timeout", client.left[2], Nothing)
  BY DEF KeywordTimeout
<1>2. client.left \in RemoteHandlers \X RemoteValues
  BY <1>1, Facts DEF RequestsFit
<1>3. PICK handler, message, given: handler = client.left[1] /\ message = "timeout" /\ given = client.left[2]
  OBVIOUS
<1>4. handler \in RemoteHandlers /\ message # "remote" /\ CallEnded(handler, "FAIL", message, given, Nothing)
  BY <1>1, <1>2, <1>3
<1>5. LastCallOK'
  BY <1>4, CallFails
<1> QED BY <1>1, <1>5, KeywordEnds

------------------------------------------------------------------------------
(***************************************************************************)
(* ... and so does every step of the server and of the network.            *)
(***************************************************************************)
\* Requests are taken from the queue at one of its ends, or all of them.
LEMMA QueueShrinks ==
    ASSUME RemoteInvariant, NEW d \in Nat,
           \A i \in DOMAIN server'.queue: i + d \in DOMAIN server.queue /\ server'.queue[i] = server.queue[i + d],
           server' \in ServerType,
           \/ server'.serving \in {server.serving, Nothing}
           \/ d \in DOMAIN server.queue /\ server'.serving = server.queue[d] /\ server.queue[d].what = "run",
           UNCHANGED <<client, handlers, requests, imports, lastCall, executed>>, broken' \in BOOLEAN
    PROVE  /\ RemoteTypeOK' /\ RequestsInOrder' /\ RequestsFit' /\ LastCallOK'
           /\ \A i \in DOMAIN server'.queue: \E j \in DOMAIN server.queue: server'.queue[i] = server.queue[j]
<1>1. \A i \in DOMAIN server'.queue: \E j \in DOMAIN server.queue: server'.queue[i] = server.queue[j]
  OBVIOUS
<1>2. RemoteTypeOK'
  BY Facts DEF RemoteTypeOK
<1>3. \A i \in DOMAIN server'.queue: i \in Nat
  <2>1. server'.queue \in Seq(Requests)
    BY DEF ServerType
  <2> QED BY <2>1
<1>4. RequestsInOrder'
  <2>1. \A i, j \in DOMAIN server'.queue: i < j => server'.queue[i].id < server'.queue[j].id
    <3>1. \A i, j \in DOMAIN server.queue: i < j => server.queue[i].id < server.queue[j].id
      BY Facts DEF RequestsInOrder
    <3>2. SUFFICES ASSUME NEW i \in DOMAIN server'.queue, NEW j \in DOMAIN server'.queue, i < j
                   PROVE  server'.queue[i].id < server'.queue[j].id
      OBVIOUS
    <3>3. i + d < j + d
      BY <1>3, <3>2
    <3> QED BY <3>1, <3>3
  <2>2. /\ \A i \in DOMAIN server'.queue: server'.queue[i].id \in 1..requests
        /\ \A i \in DOMAIN executed, j \in DOMAIN server'.queue: executed[i].id < server'.queue[j].id
    BY <1>1, Facts DEF RequestsInOrder
  <2>3. server'.serving # Nothing =>
           /\ server'.serving.id \in 1..requests /\ server'.serving.what = "run"
           /\ \A i \in DOMAIN executed: executed[i].id < server'.serving.id
           /\ \A j \in DOMAIN server'.queue: server'.serving.id < server'.queue[j].id
    <3>1. CASE server'.serving \in {server.serving, Nothing}
      BY <1>1, <3>1, Facts DEF RequestsInOrder
    <3>2. CASE d \in DOMAIN server.queue /\ server'.serving = server.queue[d] /\ server.queue[d].what = "run"
      <4>1. \A j \in DOMAIN server'.queue: j \in 1..Len(server'.queue) /\ d < j + d
        <5>1. server'.queue \in Seq(Requests)
          BY DEF ServerType
        <5> QED BY <5>1
      <4> QED BY <3>2, <4>1, Facts DEF RequestsInOrder
    <3> QED BY <3>1, <3>2
  <2>4. /\ \A i \in DOMAIN executed: executed[i].id <= requests
        /\ \A i, j \in DOMAIN executed: i < j => executed[i].id < executed[j].id
        /\ client.request <= requests
        /\ client.op # "idle" => client.request # 0
    BY Facts DEF RequestsInOrder
  <2> QED BY <2>1, <2>2, <2>3, <2>4 DEF RequestsInOrder
<1>5. RequestsFit'
  <2>1. \A r: Fits(r)' <=> Fits(r)
    BY DEF Fits, Given
  <2>2. \A i \in DOMAIN server'.queue: server'.queue[i].id = client.request => Fits(server'.queue[i])
    BY <1>1, Facts DEF RequestsFit
  <2>3. server'.serving # Nothing /\ server'.serving.id = client.request => Fits(server'.serving)
    BY Facts DEF RequestsFit
  <2>4. \A i \in DOMAIN server'.queue: server'.queue[i].what = "import" => server'.queue[i].name \in Libraries
    BY <1>1, Facts DEF RequestsFit
  <2> QED BY <2>2, <2>3, <2>4, Facts DEF RequestsFit, Fits, Given
<1>6. LastCallOK'
  BY LastCallKept
<1> QED BY <1>1, <1>2, <1>4, <1>5, <1>6

\* The answer is the same, or an error, for what the client waits.
LEMMA AnswerKept ==
    ASSUME RemoteInvariant, UNCHANGED <<client, executed>>, answer' \in {answer, SocketError}
    PROVE  AnswerFits'
BY Facts DEF AnswerFits, RunAnswer, Given, Failures

LEMMA StartServerStep ==
    ASSUME RemoteInvariant, StartServer
    PROVE  RemoteInvariant'
<1>1. /\ ~server.up /\ UNCHANGED <<client, handlers, requests, imports, lastCall, executed>>
      /\ answer' = answer /\ broken' = broken
  BY DEF StartServer
<1>2. PICK hosted \in Seq(Libraries):
          server' = [up |-> TRUE, stopping |-> FALSE, hosted |-> hosted, queue |-> <<>>, serving |-> Nothing, starts |-> server.starts + 1]
  <2>1. RemoteImports \subseteq Seq(Libraries) /\ <<>> \in Seq(Libraries)
    BY RemoteAssumption DEF Libraries
  <2> QED BY <2>1 DEF StartServer
<1>3. /\ server'.queue = <<>> /\ server'.serving = Nothing /\ server'.up
      /\ server'.starts = server.starts + 1 /\ server'.starts # 0 /\ server' \in ServerType
  <2>1. server.starts + 1 \in Nat /\ server.starts + 1 # 0 /\ <<>> \in Seq(Requests)
    BY Facts
  <2> QED BY <1>2, <2>1 DEF ServerType
<1>4. /\ RemoteTypeOK' /\ RequestsInOrder' /\ RequestsFit' /\ LastCallOK'
  <2>1. DOMAIN server'.queue = {} /\ 0 \in Nat /\ broken' \in BOOLEAN
    BY <1>1, <1>3, Facts
  <2> QED BY <1>1, <1>3, <2>1, QueueShrinks
<1>5. AnswerFits'
  BY <1>1, AnswerKept
<1>6. NotYet'
  BY <1>1, <1>3, Facts DEF NotYet
<1>7. FirstImport'
  <2>1. SUFFICES ASSUME imports = 1 PROVE FirstImport'
    BY <1>1 DEF FirstImport
  <2>2. Importing' => Importing /\ broken
    BY <1>1, <2>1, Facts DEF FirstImport, Importing
  <2>3. server'.starts = 1 => server.starts = 0
    BY <1>3, Facts
  <2>4. server.starts = 0 => handlers = {} /\ broken /\ client.op \in {"idle", "ship", "names"} /\ (client.op # "idle" => answer = SocketError)
    BY <2>1, Facts DEF NotYet
  <2>5. DOMAIN server'.queue = {}
    BY <1>3
  <2> QED BY <1>1, <1>3, <2>1, <2>2, <2>3, <2>4, <2>5, AnswerKinds DEF FirstImport
<1> QED BY <1>4, <1>5, <1>6, <1>7 DEF RemoteInvariant

\* A connection breaks, for those who wait or the whole server.
LEMMA Breaks ==
    ASSUME RemoteInvariant, UNCHANGED <<client, handlers, requests, imports, lastCall, executed>>, broken' = TRUE,
           answer' \in {answer, SocketError}, server' \in ServerType, server'.serving \in {server.serving, Nothing},
           server'.hosted = server.hosted, server'.starts = server.starts, server'.up => server.up,
           \A i \in DOMAIN server'.queue: i \in DOMAIN server.queue /\ server'.queue[i] = server.queue[i],
           imports = 1 /\ Importing => server'.serving = Nothing,
           imports = 0 \/ server.starts = 0 => server'.queue = <<>> /\ server'.serving = Nothing
    PROVE  RemoteInvariant'
<1>1. \A i \in DOMAIN server'.queue: i + 0 \in DOMAIN server.queue /\ server'.queue[i] = server.queue[i + 0]
  <2>1. \A i \in DOMAIN server'.queue: i + 0 = i
    BY Facts
  <2> QED BY <2>1
<1>2. /\ RemoteTypeOK' /\ RequestsInOrder' /\ RequestsFit' /\ LastCallOK'
  BY <1>1, QueueShrinks
<1>3. AnswerFits'
  BY AnswerKept
<1>4. NotYet'
  BY Facts DEF NotYet
<1>5. FirstImport'
  <2>1. SUFFICES ASSUME imports = 1 PROVE FirstImport'
    BY DEF FirstImport
  <2>2. KeywordNames' = KeywordNames /\ Served' = Served
    BY NamesKept
  <2>3. Importing' = Importing
    BY DEF Importing
  <2>4. Importing => \A i \in DOMAIN server'.queue: server'.queue[i].what # "run"
    BY <2>1, Facts DEF FirstImport
  <2>5. answer' # Nothing /\ answer'.kind = "ok" => answer' = answer
    BY AnswerKinds
  <2>6. client.op = "ship" =>
               \A i \in DOMAIN server'.queue: server'.queue[i].id = client.request /\ (answer' # Nothing => answer'.kind # "ok")
    BY <2>1, <2>5, Facts DEF FirstImport
  <2>7. client.op \in {"names", "describe"} \/ handlers # {} =>
               \A i \in DOMAIN server'.queue: server'.queue[i].what # "import"
    BY <2>1, Facts DEF FirstImport
  <2>8. server.starts = 1 =>
               /\ handlers \subseteq Served
               /\ client.op = "names" /\ answer' # Nothing /\ answer'.kind = "ok" => answer'.value = KeywordNames
               /\ client.op = "describe" =>
                      /\ Range(client.left) \subseteq Range(KeywordNames)
                      /\ client.attempts <= 2 => [name |-> Head(client.left), twin |-> FALSE] \in handlers
    BY <2>1, <2>5, Facts DEF FirstImport
  <2> QED BY <2>1, <2>2, <2>3, <2>4, <2>6, <2>7, <2>8 DEF FirstImport
<1> QED BY <1>2, <1>3, <1>4, <1>5 DEF RemoteInvariant

LEMMA Stopped ==
    ASSUME RemoteInvariant
    PROVE  LET s == ServerStopped(server)
           IN  /\ s \in ServerType /\ s.queue = <<>> /\ s.serving = Nothing /\ ~s.up
               /\ s.hosted = server.hosted /\ s.starts = server.starts
<1>1. server \in ServerType /\ <<>> \in Seq(Requests)
  BY Facts
<1> QED BY <1>1 DEF ServerStopped, ServerType

LEMMA InterruptServerStep ==
    ASSUME RemoteInvariant, InterruptServer
    PROVE  RemoteInvariant'
<1>1. /\ UNCHANGED <<client, handlers, requests, imports, lastCall, executed>> /\ broken' = TRUE
      /\ answer' \in {answer, SocketError} /\ server.up
      /\ server' = IF server.serving = Nothing THEN ServerStopped(server) ELSE [server EXCEPT !.stopping = TRUE]
  BY DEF InterruptServer
<1>2. CASE server.serving = Nothing
  <2>1. server' = ServerStopped(server)
    BY <1>1, <1>2
  <2>2. /\ server' \in ServerType /\ server'.queue = <<>> /\ server'.serving = Nothing /\ ~server'.up
        /\ server'.hosted = server.hosted /\ server'.starts = server.starts
    BY <2>1, Stopped
  <2>3. DOMAIN server'.queue = {}
    BY <2>2
  <2> QED BY <1>1, <2>2, <2>3, Breaks
<1>3. CASE server.serving # Nothing
  <2>1. server' = [server EXCEPT !.stopping = TRUE]
    BY <1>1, <1>3
  <2>2. /\ server' \in ServerType /\ server'.queue = server.queue /\ server'.serving = server.serving /\ server'.up = server.up
        /\ server'.hosted = server.hosted /\ server'.starts = server.starts
    BY <2>1, Facts DEF ServerType
  <2>3. imports = 1 /\ Importing => server'.serving = Nothing
    BY <2>2, Facts DEF FirstImport
  <2>4. imports = 0 \/ server.starts = 0 => server'.queue = <<>> /\ server'.serving = Nothing
    BY <2>2, Facts DEF NotYet
  <2> QED BY <1>1, <2>2, <2>3, <2>4, Breaks
<1> QED BY <1>2, <1>3

LEMMA BreakConnectionStep ==
    ASSUME RemoteInvariant, BreakConnection
    PROVE  RemoteInvariant'
<1>1. /\ UNCHANGED <<client, handlers, requests, imports, lastCall, executed>> /\ broken' = TRUE
      /\ answer' \in {answer, SocketError}
      /\ server' \in {server, IF InQueue(client.request) THEN [server EXCEPT !.queue = Front(@)] ELSE server}
  BY DEF BreakConnection
<1>2. imports = 1 /\ Importing => server.serving = Nothing
  BY Facts DEF FirstImport
<1>3. imports = 0 \/ server.starts = 0 => server.queue = <<>> /\ server.serving = Nothing
  BY Facts DEF NotYet
<1>4. CASE server' = server
  BY <1>1, <1>2, <1>3, <1>4, Facts, Breaks
<1>5. CASE InQueue(client.request) /\ server' = [server EXCEPT !.queue = Front(@)]
  <2>1. DOMAIN server.queue # {}
    BY <1>5 DEF InQueue
  <2>2. Len(server.queue) - 1 \in Nat /\ Len(server.queue) - 1 <= Len(server.queue)
    BY <2>1, Facts
  <2>3. /\ Front(server.queue) \in Seq(Requests)
        /\ \A i \in DOMAIN Front(server.queue): i \in DOMAIN server.queue /\ Front(server.queue)[i] = server.queue[i]
    <3>1. PICK s, n: s = server.queue /\ n = Len(s) - 1
      OBVIOUS
    <3>2. s \in Seq(Requests) /\ n \in 0..Len(s)
      BY <2>2, <3>1, Facts
    <3>3. /\ SubSeq(s, 1, n) \in Seq(Requests) /\ Len(SubSeq(s, 1, n)) = n
          /\ \A i \in 1..n: i \in 1..Len(s) /\ SubSeq(s, 1, n)[i] = s[i]
      BY <3>2
    <3>4. DOMAIN SubSeq(s, 1, n) = 1..n /\ DOMAIN s = 1..Len(s)
      BY <3>2, <3>3
    <3>5. Front(server.queue) = SubSeq(s, 1, n)
      BY <3>1 DEF Front
    <3> QED BY <3>1, <3>3, <3>4, <3>5
  <2>4. /\ server' \in ServerType /\ server'.queue = Front(server.queue) /\ server'.serving = server.serving /\ server'.up = server.up
        /\ server'.hosted = server.hosted /\ server'.starts = server.starts
    BY <1>5, <2>3, Facts DEF ServerType
  <2>5. ~(imports = 0 \/ server.starts = 0)
    BY <1>3, <2>1
  <2> QED BY <1>1, <1>2, <2>3, <2>4, <2>5, Breaks
<1> QED BY <1>1, <1>4, <1>5


LEMMA HandleRequestStep ==
    ASSUME RemoteInvariant, HandleRequest
    PROVE  RemoteInvariant'
<1> DEFINE request == Head(server.queue)
           rest == [server EXCEPT !.queue = Tail(@)]
<1>1. /\ UNCHANGED <<client, handlers, requests, imports, lastCall, executed>> /\ broken' = broken
      /\ server.serving = Nothing /\ server.queue # <<>> /\ server.up
      /\ IF request.what = "run" THEN server' = [rest EXCEPT !.serving = request] /\ answer' = answer
         ELSE /\ server' = IF request.what = "import" THEN [rest EXCEPT !.hosted = Append(@, request.name)] ELSE rest
              /\ Answered(request, Result(request))
  BY DEF HandleRequest
<1>2. /\ 1 \in DOMAIN server.queue /\ request = server.queue[1] /\ request \in Requests
      /\ Tail(server.queue) \in Seq(Requests)
      /\ \A i \in DOMAIN Tail(server.queue): i + 1 \in DOMAIN server.queue /\ Tail(server.queue)[i] = server.queue[i + 1]
  <2>1. PICK s: s = server.queue
    OBVIOUS
  <2>2. s \in Seq(Requests) /\ s # <<>>
    BY <1>1, <2>1, Facts
  <2>3. /\ 1 \in DOMAIN s /\ Head(s) = s[1] /\ s[1] \in Requests
        /\ Tail(s) \in Seq(Requests)
        /\ \A i \in DOMAIN Tail(s): i + 1 \in DOMAIN s /\ Tail(s)[i] = s[i + 1]
    BY <2>2
  <2> QED BY <2>1, <2>3
<1>3. request.what = "import" => request.name \in Libraries
  BY <1>2, Facts DEF RequestsFit
<1>4. /\ server' \in ServerType /\ server'.queue = Tail(server.queue)
      /\ server'.up = server.up /\ server'.starts = server.starts
      /\ server'.hosted = IF request.what = "import" THEN Append(server.hosted, request.name) ELSE server.hosted
      /\ server'.serving = IF request.what = "run" THEN request ELSE Nothing
  <2>1. PICK r, tail: r = request /\ tail = Tail(server.queue)
    OBVIOUS
  <2>2. server' = IF r.what = "run" THEN [[server EXCEPT !.queue = tail] EXCEPT !.serving = r]
                  ELSE IF r.what = "import" THEN [[server EXCEPT !.queue = tail] EXCEPT !.hosted = Append(@, r.name)]
                  ELSE [server EXCEPT !.queue = tail]
    BY <1>1, <2>1
  <2>3. r \in Requests /\ tail \in Seq(Requests) /\ (r.what = "import" => r.name \in Libraries)
    BY <1>2, <1>3, <2>1
  <2>4. r.what = "import" => Append(server.hosted, r.name) \in Seq(Libraries)
    BY <2>3, Facts
  <2> HIDE DEF request, rest
  <2>5. server \in ServerType
    BY Facts
  <2> QED BY <1>1, <2>1, <2>2, <2>3, <2>4, <2>5 DEF ServerType
<1>5. /\ RemoteTypeOK' /\ RequestsInOrder' /\ RequestsFit' /\ LastCallOK'
      /\ \A i \in DOMAIN server'.queue: \E j \in DOMAIN server.queue: server'.queue[i] = server.queue[j]
  <2>1. \A i \in DOMAIN server'.queue: i + 1 \in DOMAIN server.queue /\ server'.queue[i] = server.queue[i + 1]
    BY <1>2, <1>4
  <2>2. \/ server'.serving \in {server.serving, Nothing}
        \/ 1 \in DOMAIN server.queue /\ server'.serving = server.queue[1] /\ server.queue[1].what = "run"
    BY <1>2, <1>4
  <2>3. broken' \in BOOLEAN /\ 1 \in Nat
    BY <1>1, Facts
  <2> HIDE DEF request, rest
  <2> QED BY <1>1, <1>4, <2>1, <2>2, <2>3, QueueShrinks
<1>6. KeywordNames \in Seq(Names) /\ Served # {}
  BY Facts, NamesTyped
<1>7. \/ answer' = answer
      \/ /\ answer' = Result(request) /\ request.what # "run" /\ Fits(request)
         /\ client.op # "idle" /\ client.request = request.id
  <2> HIDE DEF request, rest
  <2> QED BY <1>1, <1>2, Facts DEF Answered, Waiting, RequestsFit
<1>8. /\ request.what = "names" => Result(request) = Ok(KeywordNames)
      /\ request.what = "import" => Result(request) = Ok(TRUE)
      /\ request.what \in {"documentation", "arguments"} => Result(request) = Fault \/ Result(request) = Ok(request.name)
  <2> HIDE DEF request
  <2> QED BY DEF Result
<1> HIDE DEF request, rest
<1>9. AnswerFits'
  <2>1. CASE answer' = answer
    BY <1>1, <2>1, AnswerKept
  <2>2. CASE answer' = Result(request) /\ request.what # "run" /\ Fits(request) /\ client.op # "idle"
    <3>1. CASE client.op = "ship"
      <4>1. answer'.kind = "ok"
        BY <1>8, <2>2, <3>1, AnswerKinds DEF Fits
      <4> QED BY <1>1, <3>1, <4>1 DEF AnswerFits
    <3>2. CASE client.op = "names"
      <4>1. answer'.kind = "ok" /\ answer'.value = KeywordNames
        BY <1>8, <2>2, <3>2, AnswerKinds DEF Fits
      <4> QED BY <1>1, <1>6, <3>2, <4>1 DEF AnswerFits
    <3>3. CASE client.op = "describe"
      <4>1. answer'.kind \in {"ok", "fault"}
        BY <1>8, <2>2, <3>3, AnswerKinds DEF Fits
      <4> QED BY <1>1, <3>3, <4>1 DEF AnswerFits
    <3>4. client.op # "run"
      BY <2>2 DEF Fits
    <3> QED BY <2>2, <3>1, <3>2, <3>3, <3>4, Facts DEF Operations
  <2> QED BY <1>7, <2>1, <2>2
<1>10. NotYet'
  <2>1. imports # 0 /\ server.starts # 0
    BY <1>1, Facts DEF NotYet
  <2>2. client.op \in {"ship", "names"} => handlers = {}
    BY Facts DEF NotYet
  <2> QED BY <1>1, <1>4, <2>1, <2>2 DEF NotYet
<1>11. FirstImport'
  <2>1. SUFFICES ASSUME imports = 1 PROVE FirstImport'
    BY <1>1 DEF FirstImport
  <2>2. Importing' = Importing
    BY <1>1 DEF Importing
  <2>3. Importing =>
            /\ server'.serving = Nothing /\ request.what # "run"
            /\ \A i \in DOMAIN server'.queue: server'.queue[i].what # "run"
    BY <1>2, <1>4, <1>5, <2>1, Facts DEF FirstImport
  <2>4. Importing /\ ~broken => server'.up /\ (answer' # Nothing => answer'.kind # "socket error")
    <3>1. Importing /\ ~broken => server.up /\ (answer # Nothing => answer.kind # "socket error")
      BY <2>1, Facts DEF FirstImport
    <3>2. answer' # answer => answer'.kind # "socket error"
      <4>1. answer' # answer => request.what \in {"names", "import", "documentation", "arguments"}
        BY <1>2, <1>7 DEF Requests, Kinds
      <4> QED BY <1>7, <1>8, <4>1, AnswerKinds
    <3> QED BY <1>4, <3>1, <3>2
  <2>5. client.op = "ship" => DOMAIN server'.queue = {}
    <3>1. SUFFICES ASSUME client.op = "ship", NEW i \in DOMAIN server'.queue PROVE FALSE
      OBVIOUS
    <3>2. i + 1 \in DOMAIN server.queue /\ 1 \in DOMAIN server.queue /\ 1 < i + 1
      <4>1. i \in 1..Len(server'.queue) /\ Len(server'.queue) \in Nat
        BY <1>2, <1>4, <3>1
      <4> QED BY <1>2, <1>4, <3>1, <4>1
    <3>3. server.queue[1].id = client.request /\ server.queue[i + 1].id = client.request
      BY <2>1, <3>1, <3>2, Facts DEF FirstImport
    <3>4. server.queue[1].id < server.queue[i + 1].id
      BY <3>2, Facts DEF RequestsInOrder
    <3> QED BY <3>3, <3>4, Facts
  <2>6. client.op \in {"names", "describe"} \/ handlers # {} =>
            /\ request.what # "import" /\ \A i \in DOMAIN server'.queue: server'.queue[i].what # "import"
            /\ KeywordNames' = KeywordNames /\ Served' = Served
    <3>1. SUFFICES ASSUME client.op \in {"names", "describe"} \/ handlers # {}
                   PROVE  /\ request.what # "import" /\ \A i \in DOMAIN server'.queue: server'.queue[i].what # "import"
                          /\ KeywordNames' = KeywordNames /\ Served' = Served
      OBVIOUS
    <3>2. \A i \in DOMAIN server.queue: server.queue[i].what # "import"
      BY <2>1, <3>1, Facts DEF FirstImport
    <3>3. server'.hosted = server.hosted
      BY <1>2, <1>4, <3>2
    <3> QED BY <1>2, <1>5, <3>2, <3>3, NamesKept
  <2>7. SUFFICES ASSUME server.starts = 1
                 PROVE  /\ handlers \subseteq Served'
                        /\ client.op = "names" /\ answer' # Nothing /\ answer'.kind = "ok" => answer'.value = KeywordNames'
                        /\ client.op = "describe" =>
                               /\ Range(client.left) \subseteq Range(KeywordNames')
                               /\ ~broken => \A name \in Range(KeywordNames'): name \in Range(client.left) \/ Twins(name) \subseteq handlers
                               /\ client.attempts <= 2 => [name |-> Head(client.left), twin |-> FALSE] \in handlers
                        /\ client.op \in {"idle", "run"} /\ ~broken => handlers = Served'
    <3>1. /\ client' = client /\ handlers' = handlers /\ imports' = imports /\ broken' = broken /\ server'.starts = server.starts
      BY <1>1, <1>4
    <3> QED BY <2>2, <2>3, <2>4, <2>5, <2>6, <2>7, <3>1 DEF FirstImport, Twins
  <2>8. handlers \subseteq Served'
    <3>1. handlers # {} => handlers \subseteq Served
      BY <2>1, <2>7, Facts DEF FirstImport
    <3> QED BY <2>6, <3>1
  <2>9. client.op = "names" /\ answer' # Nothing /\ answer'.kind = "ok" => answer'.value = KeywordNames'
    <3>1. SUFFICES ASSUME client.op = "names", answer' # Nothing, answer'.kind = "ok" PROVE answer'.value = KeywordNames
      BY <2>6
    <3>2. CASE answer' = answer
      BY <2>1, <2>7, <3>1, <3>2, Facts DEF FirstImport
    <3>3. CASE answer' = Result(request) /\ Fits(request)
      BY <1>8, <3>1, <3>3, AnswerKinds DEF Fits
    <3> QED BY <1>7, <3>2, <3>3
  <2>10. client.op = "describe" =>
             /\ Range(client.left) \subseteq Range(KeywordNames')
             /\ ~broken => \A name \in Range(KeywordNames'): name \in Range(client.left) \/ Twins(name) \subseteq handlers
             /\ client.attempts <= 2 => [name |-> Head(client.left), twin |-> FALSE] \in handlers
    BY <2>1, <2>6, <2>7, Facts DEF FirstImport
  <2>11. client.op \in {"idle", "run"} /\ ~broken => handlers = Served'
    <3>1. client.op \in {"idle", "run"} /\ ~broken => handlers = Served
      BY <2>1, <2>7, Facts DEF FirstImport
    <3> QED BY <1>6, <2>6, <3>1
  <2> QED BY <2>8, <2>9, <2>10, <2>11
<1> QED BY <1>5, <1>9, <1>10, <1>11 DEF RemoteInvariant

\* What is known of keywords that were run stays known.
LEMMA MoreExecuted ==
    ASSUME executed \in Seq(Execution), NEW e \in Execution, executed' = Append(executed, e)
    PROVE  /\ executed' \in Seq(Execution) /\ e \in Range(executed')
           /\ \A i \in DOMAIN executed': (i \in DOMAIN executed /\ executed'[i] = executed[i]) \/ (i = Len(executed) + 1 /\ executed'[i] = e)
           /\ \A id, given, result: RunAnswer(id, given, result) => RunAnswer(id, given, result)'
<1>1. PICK s, t: s = executed /\ t = executed'
  OBVIOUS
<1>2. s \in Seq(Execution) /\ t = Append(s, e)
  BY <1>1
<1>3. /\ t \in Seq(Execution) /\ Len(s) + 1 \in DOMAIN t /\ t[Len(s) + 1] = e
      /\ \A i \in DOMAIN t: (i \in DOMAIN s /\ t[i] = s[i]) \/ (i = Len(s) + 1 /\ t[i] = e)
      /\ \A i \in DOMAIN s: i \in DOMAIN t /\ t[i] = s[i]
  BY <1>2
<1>4. Range(s) \subseteq Range(t) /\ e \in Range(t)
  BY <1>3 DEF Range
<1>5. \A id, given, result: RunAnswer(id, given, result) => RunAnswer(id, given, result)'
  BY <1>1, <1>4 DEF RunAnswer
<1> QED BY <1>1, <1>3, <1>4, <1>5

\* The library that has a keyword is one that the server has.
LEMMA GotKeyword ==
    ASSUME server.hosted \in Seq(Libraries), NEW name
    PROVE  GetKeyword(name) \in Libraries \cup {Stop, Nothing}
<1> DEFINE having == {i \in DOMAIN server.hosted: name \in Range(KeywordsOf[server.hosted[i]])}
<1>1. CASE having # {} /\ name # Stop
  <2>1. having \in SUBSET Nat
    OBVIOUS
  <2>2. \E i \in having: \A j \in having: i <= j
    <3> HIDE DEF having
    <3> QED BY <1>1, <2>1, LeastNumber
  <2>3. (CHOOSE i \in having: \A j \in having: i <= j) \in having
    <3> HIDE DEF having
    <3> QED BY <2>2
  <2>4. \A i \in having: server.hosted[i] \in Libraries
    OBVIOUS
  <2>5. GetKeyword(name) = server.hosted[CHOOSE i \in having: \A j \in having: i <= j]
    BY <1>1 DEF GetKeyword
  <2> HIDE DEF having
  <2> QED BY <2>3, <2>4, <2>5
<1>2. CASE having = {} \/ name = Stop
  BY <1>2 DEF GetKeyword
<1> QED BY <1>1, <1>2

LEMMA RunRemoteKeywordStep ==
    ASSUME RemoteInvariant, NEW ending \in Endings, RunRemoteKeyword(ending)
    PROVE  RemoteInvariant'
<1> DEFINE request == server.serving
           found == GetKeyword(request.name)
           end == IF found = Nothing THEN "fail" ELSE IF found = Stop THEN "pass" ELSE ending
           stops == server.stopping \/ found = Stop
           result == CASE end = "pass" -> Ok([status |-> "PASS", return |-> Returned(request.value), id |-> request.id])
                       [] end = "fail" -> Ok([status |-> "FAIL", return |-> Nothing, id |-> request.id])
                       [] end \in {"exit", "no text"} -> Fault
                       [] end = "invalid" -> ExpatError
           e == [id |-> request.id, end |-> end, library |-> found]
<1>1. /\ UNCHANGED <<client, handlers, requests, imports, lastCall>> /\ broken' = broken
      /\ server.serving # Nothing /\ executed' = Append(executed, e)
      /\ server' = IF stops THEN ServerStopped(server) ELSE [server EXCEPT !.serving = Nothing]
      /\ answer' \in {answer, SocketError} \/ Answered(request, result)
  BY DEF RunRemoteKeyword
<1>2. /\ request \in Requests /\ request.id \in 1..requests /\ request.what = "run"
      /\ \A i \in DOMAIN executed: executed[i].id < request.id
      /\ \A j \in DOMAIN server.queue: request.id < server.queue[j].id
      /\ request.id = client.request => Fits(request)
  BY <1>1, Facts DEF ServerType, RequestsInOrder, RequestsFit
<1>3. found \in Libraries \cup {Stop, Nothing} /\ end \in Endings
  <2>1. found \in Libraries \cup {Stop, Nothing}
    BY Facts, GotKeyword
  <2> HIDE DEF found
  <2> QED BY <2>1 DEF Endings
<1>4. e \in Execution /\ e.id = request.id /\ e.end = end
  <2> HIDE DEF found, end, request
  <2>1. request.id \in Nat
    BY <1>2, Facts
  <2> QED BY <1>3, <2>1 DEF Execution
<1>5. /\ server' \in ServerType /\ server'.serving = Nothing
      /\ server'.hosted = server.hosted /\ server'.starts = server.starts /\ (server'.up => server.up)
      /\ server'.queue = <<>> \/ server'.queue = server.queue
  <2>1. CASE stops
    BY <1>1, <2>1, Stopped
  <2>2. CASE ~stops
    BY <1>1, <2>2, Facts DEF ServerType
  <2> QED BY <2>1, <2>2
<1>6. \A i \in DOMAIN server'.queue: i \in DOMAIN server.queue /\ server'.queue[i] = server.queue[i]
  <2>1. DOMAIN <<>> = {}
    OBVIOUS
  <2> QED BY <1>5, <2>1
<1> HIDE DEF e
<1>7. /\ executed' \in Seq(Execution) /\ e \in Range(executed')
      /\ \A i \in DOMAIN executed': (i \in DOMAIN executed /\ executed'[i] = executed[i]) \/ (i = Len(executed) + 1 /\ executed'[i] = e)
      /\ \A id, given, res: RunAnswer(id, given, res) => RunAnswer(id, given, res)'
  BY <1>1, <1>4, Facts, MoreExecuted
<1> HIDE DEF found, end, request, stops, result
<1>8. RemoteTypeOK'
  BY <1>1, <1>5, <1>7, Facts DEF RemoteTypeOK
<1>9. RequestsInOrder'
  <2>1. \A i, j \in DOMAIN executed': i < j => executed'[i].id < executed'[j].id
    <3>1. SUFFICES ASSUME NEW i \in DOMAIN executed', NEW j \in DOMAIN executed', i < j
                   PROVE  executed'[i].id < executed'[j].id
      OBVIOUS
    <3>2. DOMAIN executed = 1..Len(executed) /\ Len(executed) \in Nat
      BY Facts
    <3>3. i \in DOMAIN executed /\ executed'[i] = executed[i]
      BY <1>7, <3>1, <3>2
    <3>4. CASE j \in DOMAIN executed /\ executed'[j] = executed[j]
      BY <3>1, <3>3, <3>4, Facts DEF RequestsInOrder
    <3>5. CASE executed'[j] = e
      BY <1>2, <1>4, <3>3, <3>5
    <3> QED BY <1>7, <3>4, <3>5
  <2>2. \A i \in DOMAIN executed': executed'[i].id <= requests
    <3>1. \A i \in DOMAIN executed: executed[i].id <= requests
      BY Facts DEF RequestsInOrder
    <3>2. e.id <= requests
      BY <1>2, <1>4, Facts
    <3> QED BY <1>7, <3>1, <3>2
  <2>3. \A i \in DOMAIN executed', j \in DOMAIN server'.queue: executed'[i].id < server'.queue[j].id
    <3>1. \A i \in DOMAIN executed, j \in DOMAIN server.queue: executed[i].id < server.queue[j].id
      BY Facts DEF RequestsInOrder
    <3> QED BY <1>2, <1>4, <1>6, <1>7, <3>1
  <2>4. /\ \A i \in DOMAIN server'.queue: server'.queue[i].id \in 1..requests
        /\ \A i, j \in DOMAIN server'.queue: i < j => server'.queue[i].id < server'.queue[j].id
    BY <1>6, Facts DEF RequestsInOrder
  <2>5. client.request <= requests /\ (client.op # "idle" => client.request # 0)
    BY Facts DEF RequestsInOrder
  <2> QED BY <1>1, <1>5, <2>1, <2>2, <2>3, <2>4, <2>5 DEF RequestsInOrder
<1>10. RequestsFit'
  <2>1. \A i \in DOMAIN server'.queue: server'.queue[i].id = client.request => Fits(server'.queue[i])
    BY <1>6, Facts DEF RequestsFit
  <2>2. \A i \in DOMAIN server'.queue: server'.queue[i].what = "import" => server'.queue[i].name \in Libraries
    BY <1>6, Facts DEF RequestsFit
  <2>4. /\ client.op = "ship" => client.left \in Seq(Libraries)
        /\ client.op = "describe" => client.left \in Seq(Names) /\ client.left # <<>> /\ client.attempts \in 1..4
        /\ client.op = "run" => client.left \in RemoteHandlers \X RemoteValues /\ Sendable(Converted(Given))
    BY Facts DEF RequestsFit
  <2>5. \A i \in DOMAIN server'.queue: server'.queue[i].id = client'.request => Fits(server.queue[i])'
    BY <1>1, <1>6, <2>1 DEF Fits, Given
  <2> QED BY <1>1, <1>5, <2>2, <2>4, <2>5 DEF RequestsFit, Given
<1>11. LastCallOK'
  BY <1>1, <1>7, Facts DEF LastCallOK
<1>12. AnswerFits'
  <2>1. CASE answer' = answer
    BY <1>1, <1>7, <2>1, Facts DEF AnswerFits, Given, Failures
  <2>2. CASE answer' = SocketError
    BY <2>2 DEF AnswerFits, Failures
  <2>3. CASE Waiting /\ client.request = request.id /\ answer' = result
    <3>1. client.op = "run" /\ request.value = Given
      <4>1. client.op # "idle" /\ Fits(request)
        BY <1>2, <2>3 DEF Waiting
      <4> QED BY <1>2, <4>1, Facts DEF Fits, Operations
    <3>2. /\ end = "pass" => result = Ok([status |-> "PASS", return |-> Returned(request.value), id |-> request.id])
          /\ end = "fail" => result = Ok([status |-> "FAIL", return |-> Nothing, id |-> request.id])
          /\ end \notin {"pass", "fail"} => result \in {Fault, ExpatError}
      BY <1>3 DEF result, Endings
    <3>3. CASE end = "pass"
      <4>1. answer'.kind = "ok" /\ answer'.value = [status |-> "PASS", return |-> Returned(request.value), id |-> request.id]
        BY <2>3, <3>2, <3>3, AnswerKinds
      <4>2. RunAnswer(client.request, Given, answer.value)'
        BY <1>1, <1>4, <1>7, <2>3, <3>1, <3>3, <4>1 DEF RunAnswer, Given
      <4> QED BY <1>1, <3>1, <4>1, <4>2 DEF AnswerFits
    <3>4. CASE end = "fail"
      <4>1. answer'.kind = "ok" /\ answer'.value = [status |-> "FAIL", return |-> Nothing, id |-> request.id]
        BY <2>3, <3>2, <3>4, AnswerKinds
      <4>2. RunAnswer(client.request, Given, answer.value)'
        BY <1>1, <1>4, <1>7, <2>3, <3>1, <3>4, <4>1 DEF RunAnswer, Given
      <4> QED BY <1>1, <3>1, <4>1, <4>2 DEF AnswerFits
    <3>5. CASE end \notin {"pass", "fail"}
      BY <1>1, <2>3, <3>1, <3>2, <3>5 DEF AnswerFits, Failures
    <3> QED BY <3>3, <3>4, <3>5
  <2> QED BY <1>1, <2>1, <2>2, <2>3 DEF Answered
<1>13. NotYet'
  <2>1. imports # 0 /\ server.starts # 0
    BY <1>1, Facts DEF NotYet
  <2>2. client.op \in {"ship", "names"} => handlers = {}
    BY Facts DEF NotYet
  <2> QED BY <1>1, <1>5, <2>1, <2>2 DEF NotYet
<1>14. FirstImport'
  <2>1. SUFFICES ASSUME imports = 1 PROVE FirstImport'
    BY <1>1 DEF FirstImport
  <2>2. ~Importing
    BY <1>1, <2>1, Facts DEF FirstImport
  <2>3. client.op \notin {"ship", "names", "describe"}
    BY <2>2 DEF Importing
  <2>4. Served' = Served
    BY <1>5, NamesKept
  <2>5. handlers # {} => \A i \in DOMAIN server'.queue: server'.queue[i].what # "import"
    BY <1>6, <2>1, Facts DEF FirstImport
  <2>6. server.starts = 1 => handlers \subseteq Served /\ (client.op \in {"idle", "run"} /\ ~broken => handlers = Served)
    BY <2>1, Facts DEF FirstImport
  <2> QED BY <1>1, <1>5, <2>1, <2>3, <2>4, <2>5, <2>6 DEF FirstImport, Importing
<1> QED BY <1>8, <1>9, <1>10, <1>11, <1>12, <1>13, <1>14 DEF RemoteInvariant

------------------------------------------------------------------------------
(***************************************************************************)
(* Hence the invariant, and what the client may believe.                   *)
(***************************************************************************)
LEMMA RemoteStarts ==
    ASSUME RemoteInit
    PROVE  RemoteInvariant
<1>1. /\ server = [up |-> FALSE, stopping |-> FALSE, hosted |-> <<>>, queue |-> <<>>, serving |-> Nothing, starts |-> 0]
      /\ client = IdleClient /\ answer = Nothing /\ handlers = {} /\ executed = <<>> /\ lastCall = Nothing
      /\ requests = 0 /\ imports = 0 /\ broken = FALSE
  BY DEF RemoteInit
<1>2. client.op = "idle" /\ client.attempts = 0 /\ client.request = 0
  BY <1>1 DEF IdleClient, Doing
<1>3. /\ server.queue = <<>> /\ server.serving = Nothing /\ server.starts = 0 /\ ~server.up
      /\ server \in ServerType
  <2>1. <<>> \in Seq(Requests) /\ <<>> \in Seq(Libraries)
    OBVIOUS
  <2> QED BY <1>1, <2>1 DEF ServerType
<1>4. DOMAIN server.queue = {} /\ DOMAIN executed = {} /\ executed \in Seq(Execution)
  BY <1>1, <1>3
<1>5. RemoteTypeOK
  <2>1. client.op \in Operations /\ client.attempts \in Int /\ client.request \in Nat
    BY <1>2 DEF Operations
  <2>2. handlers \in SUBSET RemoteHandlers /\ requests \in Nat /\ imports \in Nat /\ broken \in BOOLEAN
    BY <1>1
  <2> QED BY <1>3, <1>4, <2>1, <2>2 DEF RemoteTypeOK
<1>6. RequestsInOrder
  BY <1>1, <1>2, <1>3, <1>4 DEF RequestsInOrder
<1>7. RequestsFit
  BY <1>1, <1>2, <1>3, <1>4 DEF RequestsFit
<1>8. AnswerFits /\ LastCallOK
  BY <1>1 DEF AnswerFits, LastCallOK
<1>9. NotYet
  BY <1>1, <1>2, <1>3 DEF NotYet
<1>10. FirstImport
  BY <1>1 DEF FirstImport
<1> QED BY <1>5, <1>6, <1>7, <1>8, <1>9, <1>10 DEF RemoteInvariant

LEMMA RemoteStutters ==
    ASSUME RemoteInvariant, UNCHANGED remoteVars
    PROVE  RemoteInvariant'
<1>1. UNCHANGED <<server, client, answer, handlers, requests, imports, executed, lastCall, broken>>
  BY DEF remoteVars
<1>2. RemoteTypeOK' /\ RequestsInOrder'
  BY <1>1, Facts DEF RemoteTypeOK, RequestsInOrder
<1>3. RequestsFit'
  BY <1>1, Facts DEF RequestsFit, Fits, Given
<1>4. AnswerFits' /\ LastCallOK'
  BY <1>1, Facts DEF AnswerFits, LastCallOK, RunAnswer, Given
<1>5. NotYet'
  BY <1>1, Facts DEF NotYet
<1>6. FirstImport'
  <2>1. KeywordNames' = KeywordNames /\ Served' = Served
    BY <1>1, NamesKept
  <2> QED BY <1>1, <2>1, Facts DEF FirstImport, Importing
<1> QED BY <1>2, <1>3, <1>4, <1>5, <1>6 DEF RemoteInvariant

\* What the server and the client know of each other in every state: see
\* RemoteInvariant.
THEOREM RemoteInvariantHolds == RemoteSpec => []RemoteInvariant
<1>1. RemoteInit => RemoteInvariant
  BY RemoteStarts
<1>2. RemoteInvariant /\ [RemoteNext]_remoteVars => RemoteInvariant'
  <2>1. SUFFICES ASSUME RemoteInvariant, [RemoteNext]_remoteVars PROVE RemoteInvariant'
    OBVIOUS
  <2>2. CASE StartServer
    BY <2>1, <2>2, StartServerStep
  <2>3. CASE InterruptServer
    BY <2>1, <2>3, InterruptServerStep
  <2>4. CASE HandleRequest
    BY <2>1, <2>4, HandleRequestStep
  <2>5. CASE RunAny
    <3>1. PICK ending \in Endings: RunRemoteKeyword(ending)
      BY <2>5 DEF RunAny
    <3> QED BY <2>1, <3>1, RunRemoteKeywordStep
  <2>6. CASE BreakConnection
    BY <2>1, <2>6, BreakConnectionStep
  <2>7. CASE LibrarySent
    BY <2>1, <2>7, LibrarySentStep
  <2>8. CASE GotNames
    BY <2>1, <2>8, GotNamesStep
  <2>9. CASE Described
    BY <2>1, <2>9, DescribedStep
  <2>10. CASE KeywordAnswered
    BY <2>1, <2>10, KeywordAnsweredStep
  <2>11. CASE KeywordTimeout
    BY <2>1, <2>11, KeywordTimeoutStep
  <2>12. CASE \E libraries \in RemoteImports: ImportRemote(libraries)
    <3>1. PICK libraries \in RemoteImports: ImportRemote(libraries)
      BY <2>12
    <3> QED BY <2>1, <3>1, ImportRemoteStep
  <2>13. CASE \E handler \in handlers, value \in RemoteValues: CallKeyword(handler, value)
    <3>1. PICK handler \in handlers, value \in RemoteValues: CallKeyword(handler, value)
      BY <2>13
    <3> QED BY <2>1, <3>1, CallKeywordStep
  <2>14. CASE UNCHANGED remoteVars
    BY <2>1, <2>14, RemoteStutters
  <2> QED BY <2>1, <2>2, <2>3, <2>4, <2>5, <2>6, <2>7, <2>8, <2>9, <2>10, <2>11, <2>12, <2>13, <2>14 DEF RemoteNext
<1> QED BY <1>1, <1>2, PTL DEF RemoteSpec

\* Whatever the libraries, the values and the connections that break, no
\* keyword is run twice for one request, what is said of it is true of it, an
\* import that nothing disturbs is whole, and values are converted once.
THEOREM AnswersAreTrueHolds == RemoteSpec => []AnswersAreTrue
<1>1. RemoteInvariant => AnswersAreTrue
  <2>1. SUFFICES ASSUME RemoteInvariant PROVE AnswersAreTrue
    OBVIOUS
  <2>2. lastCall # Nothing /\ lastCall.message = "remote" =>
            /\ RunAnswer(lastCall.id, lastCall.given, lastCall.result)
            /\ lastCall.given \in RemoteValues /\ Sendable(Converted(lastCall.given))
    BY <2>1, Facts DEF LastCallOK
  <2>3. AnswersAreOwn
    <3>1. \A i, j \in DOMAIN executed: executed[i].id = executed[j].id => i = j
      <4>1. SUFFICES ASSUME NEW i \in DOMAIN executed, NEW j \in DOMAIN executed, executed[i].id = executed[j].id, i # j
                     PROVE  FALSE
        OBVIOUS
      <4>2. i \in Nat /\ j \in Nat /\ executed[i].id \in Nat
        BY <2>1, <4>1, Facts, ExecutedNumbers
      <4>3. executed[i].id < executed[j].id \/ executed[j].id < executed[i].id
        <5>1. i < j \/ j < i
          BY <4>1, <4>2
        <5> QED BY <2>1, <4>1, <5>1, Facts DEF RequestsInOrder
      <4> QED BY <4>1, <4>2, <4>3
    <3>2. lastCall # Nothing /\ lastCall.message = "remote" =>
              /\ lastCall.result.id = lastCall.id
              /\ \E e \in Range(executed): /\ e.id = lastCall.id
                                          /\ e.end = IF lastCall.result.status = "PASS" THEN "pass" ELSE "fail"
      BY <2>2 DEF RunAnswer
    <3>3. lastCall # Nothing /\ lastCall.status = "PASS" =>
              lastCall.message = "remote" \/ (lastCall.twin /\ lastCall.message # "timeout")
      BY <2>1, Facts DEF LastCallOK
    <3> QED BY <3>1, <3>2, <3>3 DEF AnswersAreOwn
  <2>4. ImportsAreWhole
    <3>1. client.op = "idle" /\ server.starts = 1 /\ imports = 1 => handlers \subseteq Served /\ (~broken => handlers = Served)
      BY <2>1, Facts DEF FirstImport
    <3> QED BY <3>1 DEF ImportsAreWhole, Served
  <2>5. ValuesAreConverted
    BY <2>2, ConversionAssumption DEF ValuesAreConverted, RunAnswer
  <2> QED BY <2>3, <2>4, <2>5 DEF AnswersAreTrue
<1> QED BY <1>1, RemoteInvariantHolds, PTL
=============================================================================
