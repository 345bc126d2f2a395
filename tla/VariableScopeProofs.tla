------------------------- MODULE VariableScopeProofs -------------------------
(***************************************************************************)
(* For nested suites with any number of tests, user keywords and           *)
(* assignments: a keyword sees the value assigned last of those whose      *)
(* scope has not ended, and a test knows the test before it.               *)
(*                                                                         *)
(* The inductive invariant says of every store of every suite that is      *)
(* being run, also of those no keyword reads before others have ended,     *)
(* which assignments it has seen, and that it holds the latest of them.    *)
(***************************************************************************)
EXTENDS VariableScopes, SequenceTheorems, TLAPS

\* The value a store has that has seen these assignments.
HoldsLatest(value, entries) ==
  \/ entries = {} /\ value = Undefined
  \/ \E e \in entries : IsLatest(e, entries) /\ e.value = value

\* The assignments seen by the store of a suite, and by the one of its test
\* (level 0) or of the user keywords in it.
SuiteSees(d) ==
  {e \in log : /\ e.scope = "global" \/ e.depth = d
               /\ e.scope # "local"
               /\ namespaces[d].inTest => e.scope # "test"}
LevelSees(d, i) ==
  {e \in log : /\ e.scope = "global" \/ e.depth = d
               /\ e.time \notin deferred
               /\ e.scope = "local" => e.level <= i}
GlobalEntries == {e \in log : e.scope = "global"}

StoreOK(d) ==
  /\ HoldsLatest(namespaces[d].suite, SuiteSees(d))
  /\ namespaces[d].inTest => HoldsLatest(namespaces[d].test, LevelSees(d, 0))
  /\ \A i \in 1..Len(namespaces[d].locals) :
       HoldsLatest(namespaces[d].locals[i], LevelSees(d, i))
StoresOK ==
  /\ \A d \in 1..Depth : StoreOK(d)
  /\ HoldsLatest(global, GlobalEntries)

\* An assignment is in force only while what it was made in is running.
EntryOK(e) ==
  /\ e.time <= writes
  /\ e.scope # "global" => e.depth <= Depth
  /\ e.scope = "test" => namespaces[e.depth].inTest \/ namespaces[e.depth].phase = "teardown"
  /\ e.scope = "local" => /\ e.level <= Len(namespaces[e.depth].locals)
                          /\ e.level = 0 => namespaces[e.depth].inTest
LogOK ==
  /\ \A e \in log : EntryOK(e)
  /\ \A e, f \in log : e.time = f.time => e = f

\* Only what the innermost suite runs now can be before a deferred assignment.
DeferredOK ==
  /\ \A t \in deferred : t <= writes
  /\ deferred # {} => Running /\ (Top.inTest \/ Top.locals # <<>>)

PhaseOK(ns) ==
  /\ ns.phase = "setup" => ~ns.tested
  /\ ns.phase = "teardown" => ~ns.inTest
  /\ ns.phase = "body" /\ ~ns.inTest => ns.locals = <<>>
  /\ ns.subs => ~ns.tested
PhasesOK ==
  /\ \A d \in 1..Depth : PhaseOK(namespaces[d])
  /\ \A d \in 1..(Depth - 1) :
       namespaces[d].locals = <<>> /\ ~namespaces[d].inTest /\ namespaces[d].subs

\* What is known of the previous test, in the innermost suite and outside.
PrevOK ==
  ~forgotten =>
    /\ Running /\ ~Top.subs => Top.prev = IF Top.inTest THEN tests - 1 ELSE tests
    /\ (Running => ~Top.tested) => globalPrev = tests

ScopesInvariant == TypeOK /\ StoresOK /\ LogOK /\ DeferredOK /\ PhasesOK /\ PrevOK

-----------------------------------------------------------------------------
(* Sequences and the innermost suite. *)

\* What running suites are made of.
LEMMA SuitesType ==
  ASSUME TypeOK
  PROVE  /\ Depth \in Nat
         /\ DOMAIN namespaces = 1..Depth
         /\ \A d \in 1..Depth : namespaces[d] \in NamespaceRecord
         /\ Running => Depth \in 1..Depth /\ Top \in NamespaceRecord
         /\ ~Running => Depth = 0
<1>1. namespaces \in Seq(NamespaceRecord)
  BY DEF TypeOK
<1>2. /\ Depth \in Nat /\ DOMAIN namespaces = 1..Depth
      /\ \A d \in 1..Depth : namespaces[d] \in NamespaceRecord
  BY <1>1, ElementOfSeq, LenProperties DEF Depth
<1>3. /\ Running => Depth # 0
      /\ ~Running => Depth = 0
  BY <1>1, EmptySeq DEF Running, Depth
<1>4. Running => Depth \in 1..Depth
  BY <1>2, <1>3, SMT
<1> QED BY <1>2, <1>3, <1>4 DEF Top

\* The user keywords of a suite that is being run.
LEMMA LocalsType ==
  ASSUME NEW ns \in NamespaceRecord
  PROVE  /\ ns.locals \in Seq(Values) /\ Len(ns.locals) \in Nat
         /\ DOMAIN ns.locals = 1..Len(ns.locals)
         /\ ns.locals = <<>> <=> Len(ns.locals) = 0
         /\ \A i \in 1..Len(ns.locals) : ns.locals[i] \in Values
<1>1. ns.locals \in Seq(Values)
  BY DEF NamespaceRecord
<1> QED BY <1>1, ElementOfSeq, LenProperties, EmptySeq

\* Changing the innermost suite changes no other.
LEMMA Updated ==
  ASSUME TypeOK, Running, NEW ns \in NamespaceRecord, UpdateTop(ns)
  PROVE  /\ namespaces' \in Seq(NamespaceRecord)
         /\ Depth' = Depth /\ Running' /\ Top' = ns
         /\ namespaces'[Depth] = ns
         /\ \A d \in 1..Depth : d # Depth => namespaces'[d] = namespaces[d]
<1>1. namespaces \in Seq(NamespaceRecord)
  BY DEF TypeOK
<1>2. Depth \in 1..Depth /\ Depth \in Nat /\ DOMAIN namespaces = 1..Depth
  BY SuitesType
<1>3. namespaces' = [namespaces EXCEPT ![Depth] = ns]
  BY DEF UpdateTop
<1>4. namespaces' \in Seq(NamespaceRecord) /\ Len(namespaces') = Len(namespaces)
  BY <1>1, <1>2, <1>3, ExceptSeq DEF Depth
<1>5. Depth' = Depth
  BY <1>4 DEF Depth
<1>6. /\ namespaces'[Depth] = ns
      /\ \A d \in 1..Depth : d # Depth => namespaces'[d] = namespaces[d]
  BY <1>2, <1>3
<1>7. Running'
  <2>1. Len(namespaces') # 0
    BY <1>2, <1>4, SMT DEF Depth
  <2> QED BY <2>1, <1>4, EmptySeq DEF Running
<1>8. Top' = namespaces'[Depth']
  BY DEF Top
<1> QED BY <1>4, <1>5, <1>6, <1>7, <1>8

-----------------------------------------------------------------------------
(* What the operators that store a value keep of a suite. *)

Keeps(r, ns) ==
  /\ r \in NamespaceRecord
  /\ r.prev = ns.prev /\ r.phase = ns.phase /\ r.subs = ns.subs
  /\ r.tested = ns.tested /\ r.inTest = ns.inTest
  /\ Len(r.locals) = Len(ns.locals)

\* The stores of user keywords, one of them or all with another value.
LEMMA LocalsSet ==
  ASSUME NEW ns \in NamespaceRecord, NEW value \in Values
  PROVE  /\ [i \in DOMAIN ns.locals |-> value] \in Seq(Values)
         /\ Len([i \in DOMAIN ns.locals |-> value]) = Len(ns.locals)
         /\ \A i \in 1..Len(ns.locals) : [j \in DOMAIN ns.locals |-> value][i] = value
         /\ ns.locals # <<>> =>
              LET set == [ns.locals EXCEPT ![Len(ns.locals)] = value] IN
              /\ set \in Seq(Values) /\ Len(set) = Len(ns.locals)
              /\ set[Len(ns.locals)] = value
              /\ \A i \in 1..Len(ns.locals) : i # Len(ns.locals) => set[i] = ns.locals[i]
<1> DEFINE n == Len(ns.locals)
           all == [i \in 1..n |-> value]
           set == [ns.locals EXCEPT ![n] = value]
<1>1. /\ ns.locals \in Seq(Values) /\ n \in Nat /\ DOMAIN ns.locals = 1..n
      /\ ns.locals = <<>> <=> n = 0
  BY LocalsType
<1>2. all \in Seq(Values) /\ Len(all) = n /\ \A i \in 1..n : all[i] = value
  <2> HIDE DEF n
  <2> QED BY <1>1
<1>3. ASSUME ns.locals # <<>>
      PROVE  /\ set \in Seq(Values) /\ Len(set) = n
             /\ set[n] = value
             /\ \A i \in 1..n : i # n => set[i] = ns.locals[i]
  <2>1. n \in 1..n
    BY <1>1, <1>3, SMT
  <2> QED BY <1>1, <2>1, ExceptSeq
<1> QED BY <1>1, <1>2, <1>3

LEMMA StoredLocally ==
  ASSUME NEW ns \in NamespaceRecord, NEW value \in Values
  PROVE  LET r == StoreLocally(ns, value) IN
         /\ Keeps(r, ns)
         /\ ns.locals # <<>> =>
              /\ r.locals[Len(ns.locals)] = value
              /\ r.suite = ns.suite /\ r.test = ns.test
         /\ \A i \in 1..Len(ns.locals) : i # Len(ns.locals) => r.locals[i] = ns.locals[i]
         /\ ns.locals = <<>> /\ ns.inTest => r.test = value /\ r.suite = ns.suite
<1> DEFINE n == Len(ns.locals)
           set == [ns.locals EXCEPT ![n] = value]
<1>1. CASE ns.locals # <<>>
  <2>1. StoreLocally(ns, value) = [ns EXCEPT !.locals = set]
    BY <1>1 DEF StoreLocally
  <2>2. /\ set \in Seq(Values) /\ Len(set) = n /\ set[n] = value
        /\ \A i \in 1..n : i # n => set[i] = ns.locals[i]
    BY <1>1, LocalsSet
  <2> HIDE DEF set
  <2> QED BY <1>1, <2>1, <2>2 DEF Keeps, NamespaceRecord
<1>2. CASE ns.locals = <<>>
  <2>1. n = 0
    BY <1>2, LocalsType
  <2>2. CASE ns.inTest
    <3>1. StoreLocally(ns, value) = [ns EXCEPT !.test = value]
      BY <1>2, <2>2 DEF StoreLocally
    <3> QED BY <1>2, <2>1, <2>2, <3>1 DEF Keeps, NamespaceRecord
  <2>3. CASE ~ns.inTest
    <3>1. StoreLocally(ns, value) = [ns EXCEPT !.suite = value]
      BY <1>2, <2>3 DEF StoreLocally
    <3> QED BY <1>2, <2>1, <2>3, <3>1 DEF Keeps, NamespaceRecord
  <2> QED BY <2>2, <2>3
<1> QED BY <1>1, <1>2

LEMMA TestSet ==
  ASSUME NEW ns \in NamespaceRecord, NEW value \in Values
  PROVE  LET r == SetTest(ns, value) IN
         /\ Keeps(r, ns)
         /\ \A i \in 1..Len(ns.locals) : r.locals[i] = value
         /\ ns.tested => r.test = value
         /\ ns.inTest => r.suite = ns.suite
         /\ ~ns.inTest => r.suite = value
<1> DEFINE all == [i \in DOMAIN ns.locals |-> value]
           t == IF ns.tested THEN value ELSE ns.test
           s == IF ns.inTest THEN ns.suite ELSE value
<1>1. /\ all \in Seq(Values) /\ Len(all) = Len(ns.locals)
      /\ \A i \in 1..Len(ns.locals) : all[i] = value
  BY LocalsSet
<1>2. t \in Values /\ s \in Values
  BY DEF NamespaceRecord
<1>3. SetTest(ns, value) = [ns EXCEPT !.test = t, !.locals = all, !.suite = s]
  BY DEF SetTest, NamespaceRecord
<1>4. (ns.tested => t = value) /\ (ns.inTest => s = ns.suite) /\ (~ns.inTest => s = value)
  OBVIOUS
<1> HIDE DEF all, t, s
<1> QED BY <1>1, <1>2, <1>3, <1>4 DEF Keeps, NamespaceRecord

LEMMA SuiteSet ==
  ASSUME NEW ns \in NamespaceRecord, NEW value \in Values
  PROVE  LET r == SetSuite(ns, value) IN
         /\ Keeps(r, ns)
         /\ \A i \in 1..Len(ns.locals) : r.locals[i] = value
         /\ ns.tested => r.test = value
         /\ r.suite = value
<1> DEFINE r == SetTest(ns, value)
<1>1. SetSuite(ns, value) = [r EXCEPT !.suite = value]
  BY DEF SetSuite
<1>2. /\ Keeps(r, ns) /\ \A i \in 1..Len(ns.locals) : r.locals[i] = value
      /\ ns.tested => r.test = value
  BY TestSet
<1> HIDE DEF r
<1> QED BY <1>1, <1>2 DEF Keeps, NamespaceRecord

-----------------------------------------------------------------------------
(* The latest of a set of assignments. *)

LEMMA LogType ==
  ASSUME TypeOK, NEW e \in log
  PROVE  /\ e.time \in Nat /\ e.level \in Nat /\ e.depth \in Nat \ {0}
         /\ e.value \in Values /\ e.scope \in {"local", "test", "suite", "global"}
<1>1. e \in EntryRecord
  BY DEF TypeOK
<1>2. 1..MaxWrites \subseteq Nat \cap Values /\ 0..MaxKeywords \subseteq Nat
      /\ 1..(MaxDepth + 1) \subseteq Nat \ {0}
  BY VariableAssumption DEF Values
<1> QED BY <1>1, <1>2 DEF EntryRecord

\* An assignment later than all others is the latest.
LEMMA LatestAdded ==
  ASSUME NEW entries, NEW e, e.time \in Nat, \A f \in entries : f.time <= e.time
  PROVE  HoldsLatest(e.value, entries \cup {e})
<1>1. IsLatest(e, entries \cup {e})
  BY SMT DEF IsLatest
<1> QED BY <1>1 DEF HoldsLatest

\* There is one latest assignment.
LEMMA LatestIsOne ==
  ASSUME TypeOK, LogOK, NEW entries \in SUBSET log, NEW value, HoldsLatest(value, entries)
  PROVE  value = IF entries = {} THEN Undefined
                 ELSE (CHOOSE e \in entries : IsLatest(e, entries)).value
<1>1. CASE entries = {}
  BY <1>1 DEF HoldsLatest
<1>2. CASE entries # {}
  <2>1. PICK l \in entries : IsLatest(l, entries) /\ l.value = value
    BY <1>2 DEF HoldsLatest
  <2> DEFINE c == CHOOSE e \in entries : IsLatest(e, entries)
  <2>2. c \in entries /\ IsLatest(c, entries)
    BY <2>1
  <2> HIDE DEF c
  <2>3. c.time <= l.time /\ l.time <= c.time
    BY <2>1, <2>2 DEF IsLatest
  <2>4. l \in log /\ c \in log
    BY <2>1, <2>2
  <2>5. l.time \in Nat /\ c.time \in Nat
    BY <2>4, LogType
  <2>6. c.time = l.time
    BY <2>3, <2>5
  <2>7. c = l
    BY <2>4, <2>6 DEF LogOK
  <2>8. value = c.value
    BY <2>1, <2>7
  <2> QED BY <1>2, <2>8 DEF c
<1> QED BY <1>1, <1>2

\* The current store of the innermost suite has seen what is visible.
LEMMA CurrentHoldsLatest ==
  ASSUME ScopesInvariant, Running
  PROVE  HoldsLatest(Current(Top), {e \in log : Visible(e)})
<1> DEFINE n == Len(Top.locals)
           visible == {e \in log : Visible(e)}
<1>1. /\ TypeOK /\ LogOK /\ DeferredOK /\ StoreOK(Depth)
      /\ Depth \in 1..Depth /\ Top \in NamespaceRecord /\ Top = namespaces[Depth]
  BY SuitesType DEF ScopesInvariant, StoresOK, Top
<1>2. /\ n \in Nat /\ DOMAIN Top.locals = 1..n /\ (Top.locals = <<>> <=> n = 0)
  BY <1>1, LocalsType
<1>3. \A e \in log : e.scope = "local" /\ e.depth = Depth => e.level <= n /\ (e.level = 0 => Top.inTest)
  BY <1>1 DEF LogOK, EntryOK
<1>4. visible = LevelSees(Depth, n)
  <2>1. \A e \in log : e.scope = "local" /\ e.scope # "global" => (e.depth = Depth => e.level <= n)
    BY <1>3
  <2> HIDE DEF n
  <2> QED BY <2>1 DEF Visible, LevelSees
<1>5. CASE Top.locals # <<>>
  <2>1. n \in 1..n
    BY <1>2, <1>5, SMT
  <2>2. HoldsLatest(Top.locals[n], LevelSees(Depth, n))
    BY <1>1, <2>1 DEF StoreOK
  <2>3. Current(Top) = Top.locals[n]
    BY <1>5 DEF Current, Last
  <2> QED BY <1>4, <2>2, <2>3
<1>6. CASE Top.locals = <<>> /\ Top.inTest
  <2>1. HoldsLatest(Top.test, LevelSees(Depth, 0))
    BY <1>1, <1>6 DEF StoreOK
  <2> QED BY <1>2, <1>4, <1>6, <2>1 DEF Current
<1>7. CASE Top.locals = <<>> /\ ~Top.inTest
  <2>1. deferred = {}
    BY <1>1, <1>7 DEF DeferredOK
  <2>2. \A e \in log : ~(e.scope = "local" /\ e.depth = Depth)
    <3> SUFFICES ASSUME NEW e \in log, e.scope = "local", e.depth = Depth PROVE FALSE
      OBVIOUS
    <3>1. e.level <= 0 /\ e.level \in Nat
      BY <1>1, <1>2, <1>3, <1>7, LogType
    <3>2. e.level = 0
      BY <3>1
    <3> QED BY <1>3, <1>7, <3>2
  <2>3. visible = SuiteSees(Depth)
    BY <1>1, <1>7, <2>1, <2>2 DEF SuiteSees, Visible
  <2>4. HoldsLatest(Top.suite, SuiteSees(Depth))
    BY <1>1 DEF StoreOK
  <2> QED BY <1>7, <2>3, <2>4 DEF Current
<1> QED BY <1>5, <1>6, <1>7

\* The invariant implies what is promised.
LEMMA InvariantImpliesVariablesAreKnown ==
  ASSUME ScopesInvariant
  PROVE  VariablesAreKnown
<1>1. TypeOK /\ LogOK
  BY DEF ScopesInvariant
<1>2. LatestWriteIsVisible
  <2> SUFFICES ASSUME Running PROVE Current(Top) = Latest
    BY DEF LatestWriteIsVisible
  <2> DEFINE visible == {e \in log : Visible(e)}
  <2>1. HoldsLatest(Current(Top), visible)
    BY CurrentHoldsLatest
  <2>2. visible \in SUBSET log
    OBVIOUS
  <2> HIDE DEF visible
  <2>3. Current(Top) = IF visible = {} THEN Undefined
                       ELSE (CHOOSE e \in visible : IsLatest(e, visible)).value
    BY <1>1, <2>1, <2>2, LatestIsOne
  <2> QED BY <2>3 DEF Latest, visible
<1>3. PrevTestIsKnown
  <2> SUFFICES ASSUME Running, Top.inTest, ~forgotten PROVE Top.prev = tests - 1
    BY DEF PrevTestIsKnown
  <2>1. ~Top.subs
    BY <1>1, SuitesType DEF TypeOK, Top
  <2> QED BY <2>1 DEF ScopesInvariant, PrevOK
<1> QED BY <1>1, <1>2, <1>3 DEF VariablesAreKnown

-----------------------------------------------------------------------------
(* The initial states. *)

LEMMA InitEstablishesInvariant == Init => ScopesInvariant
<1> SUFFICES ASSUME Init PROVE ScopesInvariant
  OBVIOUS
<1> USE DEF Init, Undefined
<1>1. namespaces = <<>> /\ Depth = 0 /\ ~Running
  BY EmptySeq DEF Depth, Running
<1>2. 0 \in Nat /\ MaxWrites \in Nat /\ MaxDepth \in Nat
  BY VariableAssumption
<1>3. \/ global = 0 /\ writes = 0 /\ log = {}
      \/ /\ MaxWrites > 0 /\ global = 1 /\ writes = 1
         /\ log = {[scope |-> "global", depth |-> 1, level |-> 0, value |-> 1, time |-> 1]}
  OBVIOUS
<1>4. TypeOK
  <2>1. /\ globalPrev = 0 /\ globalPrev \in 0..tests
        /\ suites \in 0..MaxSuites /\ tests \in 0..MaxTests
        /\ deferred \subseteq 1..MaxWrites /\ forgotten \in BOOLEAN
    <3>1. /\ globalPrev = 0 /\ suites = 0 /\ tests = 0 /\ deferred = {}
          /\ forgotten \in BOOLEAN
      OBVIOUS
    <3>2. 0 \in 0..MaxSuites /\ 0 \in 0..MaxTests /\ 0 \in 0..0
      BY VariableAssumption
    <3> QED BY <3>1, <3>2
  <2>2. global \in Values /\ writes \in Values
    BY <1>2, <1>3 DEF Values
  <2>3. log \subseteq EntryRecord
    <3>1. CASE log = {}
      BY <3>1
    <3>2. CASE log # {}
      <4>1. 1 \in 1..MaxWrites /\ 1 \in 1..(MaxDepth + 1) /\ 0 \in 0..MaxKeywords
        BY <1>2, <1>3, <3>2, VariableAssumption
      <4> QED BY <1>3, <3>2, <4>1 DEF EntryRecord
    <3> QED BY <3>1, <3>2
  <2>4. namespaces \in Seq(NamespaceRecord) /\ Depth <= MaxDepth /\ 1..Depth = {}
    BY <1>1, <1>2, EmptySeq
  <2> QED BY <2>1, <2>2, <2>3, <2>4 DEF TypeOK
<1>5. LogOK
  BY <1>3 DEF LogOK, EntryOK
<1>6. StoresOK
  <2>1. HoldsLatest(global, GlobalEntries)
    <3>1. CASE log = {}
      BY <1>3, <3>1 DEF GlobalEntries, HoldsLatest
    <3>2. CASE log # {}
      <4>1. PICK e : log = {e} /\ e.scope = "global" /\ e.value = global /\ e.time = 1
        BY <1>3, <3>2
      <4>2. GlobalEntries = {} \cup {e}
        BY <4>1 DEF GlobalEntries
      <4>3. HoldsLatest(e.value, {} \cup {e})
        BY <4>1, LatestAdded
      <4> QED BY <4>1, <4>2, <4>3
    <3> QED BY <3>1, <3>2
  <2> QED BY <1>1, <2>1 DEF StoresOK
<1>7. DeferredOK /\ PhasesOK /\ PrevOK
  BY <1>1 DEF DeferredOK, PhasesOK, PrevOK
<1> QED BY <1>4, <1>5, <1>6, <1>7 DEF ScopesInvariant

-----------------------------------------------------------------------------
(* Steps that set the variable. *)

\* The variable is set with this scope, in some of the stores, and the
\* assignment is in force from now on, or was not made.
SetStep(scope, value) ==
  /\ Running /\ writes < MaxWrites /\ writes' = writes + 1 /\ value \in 1..writes'
  /\ scope = "local" => Top.inTest \/ Top.locals # <<>>
  /\ scope = "test" => Top.inTest \/ Top.phase = "teardown"
  /\ namespaces' \in Seq(NamespaceRecord) /\ Depth' = Depth
  /\ \A d \in 1..Depth : Keeps(namespaces'[d], namespaces[d])
  /\ log' = log \/ log' = log \cup {Entry(scope, value)}
  /\ \/ deferred' = deferred
     \/ deferred' = deferred \cup {writes'} /\ (Top.inTest \/ Top.locals # <<>>)
  /\ global' \in Values
  /\ UNCHANGED <<globalPrev, suites, tests, forgotten>>

Scopes == {"local", "test", "suite", "global"}

\* The new assignment is later than those before.
LEMMA EntryIsNew ==
  ASSUME TypeOK, LogOK, NEW scope \in Scopes, NEW value, SetStep(scope, value)
  PROVE  /\ Entry(scope, value) \in EntryRecord
         /\ Entry(scope, value).scope = scope /\ Entry(scope, value).depth = Depth
         /\ Entry(scope, value).level = Len(Top.locals)
         /\ Entry(scope, value).value = value
         /\ Entry(scope, value).time = writes' /\ writes' \in Nat /\ writes' <= MaxWrites
         /\ \A e \in log : e.time < writes' /\ e.time <= writes' /\ e.time # writes'
         /\ value \in Values
<1>1. /\ writes \in Nat /\ MaxWrites \in Nat /\ Depth \in 1..Depth /\ Depth \in Nat /\ Top \in NamespaceRecord
      /\ Depth <= MaxDepth /\ MaxDepth \in Nat
      /\ Len(Top.locals) <= MaxKeywords /\ MaxKeywords \in Nat
  BY VariableAssumption, SuitesType DEF TypeOK, Values, Top, SetStep
<1>2. Len(Top.locals) \in 0..MaxKeywords
  BY <1>1, LocalsType
<1>3. writes' \in 1..MaxWrites /\ writes' \in Nat /\ writes' <= MaxWrites
  BY <1>1 DEF SetStep
<1>4. value \in 1..MaxWrites /\ value \in Values
  <2>1. value \in 1..writes'
    BY DEF SetStep
  <2> QED BY <1>1, <1>3, <2>1 DEF Values
<1>5. Depth \in 1..(MaxDepth + 1)
  BY <1>1
<1>6. Entry(scope, value) \in EntryRecord
  BY <1>2, <1>3, <1>4, <1>5 DEF Entry, EntryRecord, Scopes
<1>7. \A e \in log : e.time < writes' /\ e.time <= writes' /\ e.time # writes'
  <2> SUFFICES ASSUME NEW e \in log PROVE e.time < writes' /\ e.time <= writes' /\ e.time # writes'
    OBVIOUS
  <2>1. e.time \in Nat /\ e.time <= writes
    BY LogType DEF LogOK, EntryOK
  <2> QED BY <1>1, <2>1 DEF SetStep
<1> QED BY <1>3, <1>4, <1>6, <1>7 DEF Entry

LEMMA SetStepKeepsTypes ==
  ASSUME TypeOK, LogOK, NEW scope \in Scopes, NEW value, SetStep(scope, value)
  PROVE  /\ TypeOK' /\ Running'
         /\ Depth \in 1..Depth /\ Top' = namespaces'[Depth]
         /\ Keeps(Top', Top)
<1> USE DEF SetStep
<1>1. /\ Depth \in Nat /\ Depth \in 1..Depth
      /\ \A d \in 1..Depth : namespaces[d] \in NamespaceRecord
  BY SuitesType
<1>2. Top' = namespaces'[Depth] /\ Keeps(Top', Top)
  BY <1>1 DEF Top
<1>3. Running'
  <2>1. Len(namespaces') # 0
    BY <1>1, SMT DEF Depth
  <2> QED BY <2>1, EmptySeq DEF Running
<1>4. writes' \in Values
  <2>1. writes \in Nat /\ MaxWrites \in Nat
    BY VariableAssumption DEF TypeOK, Values
  <2> QED BY <2>1 DEF Values
<1>5. log' \subseteq EntryRecord /\ deferred' \subseteq 1..MaxWrites
  <2>1. Entry(scope, value) \in EntryRecord /\ log \subseteq EntryRecord
    BY EntryIsNew DEF TypeOK
  <2>2. writes' \in 1..MaxWrites
    <3>1. writes \in Nat /\ MaxWrites \in Nat
      BY VariableAssumption DEF TypeOK, Values
    <3> QED BY <3>1
  <2>3. log' \subseteq EntryRecord
    BY <2>1
  <2>4. deferred' \subseteq 1..MaxWrites
    BY <2>2 DEF TypeOK
  <2> QED BY <2>3, <2>4
<1>6. ASSUME NEW d \in 1..Depth
      PROVE  /\ namespaces'[d].prev <= tests'
             /\ namespaces'[d].inTest => namespaces'[d].tested /\ ~namespaces'[d].subs
             /\ Len(namespaces'[d].locals) <= MaxKeywords
  <2>1. Keeps(namespaces'[d], namespaces[d]) /\ tests' = tests
    OBVIOUS
  <2>2. /\ namespaces[d].prev <= tests /\ Len(namespaces[d].locals) <= MaxKeywords
        /\ namespaces[d].inTest => namespaces[d].tested /\ ~namespaces[d].subs
    BY DEF TypeOK
  <2> QED BY <2>1, <2>2 DEF Keeps
<1>7. UNCHANGED <<globalPrev, suites, tests, forgotten>> /\ Depth' = Depth
  OBVIOUS
<1>8. TypeOK'
  <2>1. /\ globalPrev \in 0..tests /\ suites \in 0..MaxSuites /\ tests \in 0..MaxTests
        /\ Depth <= MaxDepth /\ forgotten \in BOOLEAN
    BY DEF TypeOK
  <2>2. namespaces' \in Seq(NamespaceRecord) /\ global' \in Values
    OBVIOUS
  <2> QED BY <1>4, <1>5, <1>6, <1>7, <2>1, <2>2 DEF TypeOK
<1> QED BY <1>1, <1>2, <1>3, <1>8

\* It stays with what it was made in, as do all others.
LEMMA SetStepKeepsLog ==
  ASSUME ScopesInvariant, NEW scope \in Scopes, NEW value, SetStep(scope, value)
  PROVE  LogOK'
<1> DEFINE n == Entry(scope, value)
<1>1. TypeOK /\ LogOK
  BY DEF ScopesInvariant
<1>2. /\ n.scope = scope /\ n.depth = Depth /\ n.level = Len(Top.locals)
      /\ n.time = writes' /\ writes' \in Nat
      /\ \A e \in log : e.time < writes' /\ e.time <= writes' /\ e.time # writes'
  BY <1>1, EntryIsNew
<1>3. /\ Depth \in 1..Depth /\ Depth \in Nat /\ Depth' = Depth /\ Top' = namespaces'[Depth] /\ Keeps(Top', Top)
      /\ log' = log \/ log' = log \cup {n}
      /\ \A d \in 1..Depth : Keeps(namespaces'[d], namespaces[d])
  BY <1>1, SetStepKeepsTypes, SuitesType DEF SetStep
<1>4. ASSUME NEW e \in log PROVE EntryOK(e)'
  <2>1. EntryOK(e)
    BY <1>1 DEF LogOK
  <2>2. e.depth \in Nat \ {0}
    BY <1>1, LogType
  <2>3. e.time <= writes'
    BY <1>2
  <2>4. CASE e.scope = "global"
    BY <2>3, <2>4 DEF EntryOK
  <2>5. CASE e.scope # "global"
    <3>1. e.depth \in 1..Depth /\ e.depth <= Depth'
      BY <1>3, <2>1, <2>2, <2>5 DEF EntryOK
    <3>2. Keeps(namespaces'[e.depth], namespaces[e.depth])
      BY <1>3, <3>1
    <3> QED BY <2>1, <2>3, <3>1, <3>2 DEF EntryOK, Keeps
  <2> QED BY <2>4, <2>5
<1>5. ASSUME NEW e, e = n PROVE EntryOK(e)'
  <2>0. e.scope = scope /\ e.depth = Depth /\ e.level = Len(Top.locals) /\ e.time = writes'
    BY <1>2, <1>5
  <2>1. Keeps(Top', Top) /\ Top' = namespaces'[Depth] /\ Top \in NamespaceRecord
    BY <1>1, <1>3, SuitesType DEF SetStep
  <2>2. e.time <= writes'
    BY <1>2, <2>0
  <2>3. e.depth <= Depth'
    BY <1>3, <2>0
  <2>4. scope = "test" => namespaces'[Depth].inTest \/ namespaces'[Depth].phase = "teardown"
    BY <2>1 DEF SetStep, Keeps
  <2>5. /\ Len(Top.locals) <= Len(namespaces'[Depth].locals)
        /\ scope = "local" /\ Len(Top.locals) = 0 => namespaces'[Depth].inTest
    <3>1. Len(Top.locals) \in Nat /\ (Top.locals = <<>> <=> Len(Top.locals) = 0)
      BY <2>1, LocalsType
    <3> QED BY <2>1, <3>1 DEF SetStep, Keeps
  <2> QED BY <2>0, <2>2, <2>3, <2>4, <2>5 DEF EntryOK
<1>6. \A e \in log' : e \in log \/ e = n
  BY <1>3
<1>7. ASSUME NEW e \in log', NEW f \in log', e.time = f.time
      PROVE  e = f
  <2>1. CASE e \in log /\ f \in log
    BY <1>1, <1>7, <2>1 DEF LogOK
  <2>2. CASE ~(e \in log /\ f \in log)
    <3> HIDE DEF n
    <3> QED BY <1>2, <1>6, <1>7, <2>2
  <2> QED BY <2>1, <2>2
<1>8. \A e \in log' : EntryOK(e)'
  <2> HIDE DEF n
  <2> QED BY <1>4, <1>5, <1>6
<1> QED BY <1>7, <1>8 DEF LogOK

LEMMA SetStepKeepsRest ==
  ASSUME ScopesInvariant, NEW scope \in Scopes, NEW value, SetStep(scope, value)
  PROVE  DeferredOK' /\ PhasesOK' /\ PrevOK'
<1>1. TypeOK /\ LogOK /\ DeferredOK /\ PhasesOK /\ PrevOK
  BY DEF ScopesInvariant
<1>2. /\ Depth \in 1..Depth /\ Depth' = Depth /\ Top' = namespaces'[Depth] /\ Keeps(Top', Top)
      /\ Running' /\ Running
      /\ \A d \in 1..Depth : Keeps(namespaces'[d], namespaces[d]) /\ namespaces[d] \in NamespaceRecord
      /\ Top \in NamespaceRecord /\ Depth \in Nat
  BY <1>1, SetStepKeepsTypes, SuitesType DEF SetStep
<1>3. ASSUME NEW r, NEW ns \in NamespaceRecord, Keeps(r, ns)
      PROVE  r.locals = <<>> <=> ns.locals = <<>>
  <2>1. r \in NamespaceRecord /\ Len(r.locals) = Len(ns.locals)
    BY <1>3 DEF Keeps
  <2> QED BY <2>1, LocalsType
<1>4. DeferredOK'
  <2>1. writes \in Nat /\ writes' = writes + 1
    BY <1>1 DEF SetStep, TypeOK, Values
  <2>2. \A t \in deferred : t <= writes /\ t \in Nat
    BY <1>1, VariableAssumption DEF DeferredOK, TypeOK
  <2>3. \A t \in deferred' : t <= writes'
    BY <2>1, <2>2 DEF SetStep
  <2>4. deferred' # {} => Top.inTest \/ Top.locals # <<>>
    BY <1>1 DEF DeferredOK, SetStep
  <2>5. (Top.inTest \/ Top.locals # <<>>) => (Top.inTest \/ Top.locals # <<>>)'
    BY <1>2, <1>3 DEF Keeps
  <2> QED BY <1>2, <2>3, <2>4, <2>5 DEF DeferredOK
<1>5. PhasesOK'
  <2>1. ASSUME NEW d \in 1..Depth PROVE PhaseOK(namespaces[d])'
    <3>1. PhaseOK(namespaces[d]) /\ Keeps(namespaces'[d], namespaces[d])
      BY <1>1, <1>2 DEF PhasesOK
    <3>2. namespaces'[d].locals = <<>> <=> namespaces[d].locals = <<>>
      BY <1>2, <1>3
    <3> QED BY <3>1, <3>2 DEF PhaseOK, Keeps
  <2>2. ASSUME NEW d \in 1..(Depth - 1)
        PROVE  (namespaces[d].locals = <<>> /\ ~namespaces[d].inTest /\ namespaces[d].subs)'
    <3>1. d \in 1..Depth
      BY <1>2
    <3>2. namespaces'[d].locals = <<>> <=> namespaces[d].locals = <<>>
      BY <1>2, <1>3, <3>1
    <3>3. Keeps(namespaces'[d], namespaces[d])
      BY <1>2, <3>1
    <3> QED BY <1>1, <3>2, <3>3 DEF PhasesOK, Keeps
  <2> QED BY <1>2, <2>1, <2>2 DEF PhasesOK
<1>6. PrevOK'
  BY <1>1, <1>2 DEF PrevOK, Keeps, SetStep
<1> QED BY <1>4, <1>5, <1>6

\* Which stores see the new assignment.
LEMMA SetStepSees ==
  ASSUME ScopesInvariant, NEW scope \in Scopes, NEW value, SetStep(scope, value),
         NEW n, n = Entry(scope, value), log' = log \cup {n}
  PROVE  /\ \A d \in 1..Depth :
              SuiteSees(d)' =
                IF \/ scope = "global"
                   \/ d = Depth /\ scope = "suite"
                   \/ d = Depth /\ scope = "test" /\ ~Top.inTest
                THEN SuiteSees(d) \cup {n} ELSE SuiteSees(d)
         /\ \A i \in Nat :
              LevelSees(Depth, i)' =
                IF \/ scope = "local" /\ Len(Top.locals) > i
                   \/ writes' \in deferred'
                THEN LevelSees(Depth, i) ELSE LevelSees(Depth, i) \cup {n}
         /\ GlobalEntries' = IF scope = "global" THEN GlobalEntries \cup {n} ELSE GlobalEntries
<1>1. TypeOK /\ LogOK /\ DeferredOK
  BY DEF ScopesInvariant
<1>2. /\ n.scope = scope /\ n.depth = Depth /\ n.level = Len(Top.locals) /\ n.time = writes'
      /\ \A e \in log : e.time # writes'
  BY <1>1, EntryIsNew
<1>3. /\ Depth \in 1..Depth /\ Depth' = Depth /\ Keeps(Top', Top) /\ Top \in NamespaceRecord
      /\ \A d \in 1..Depth : Keeps(namespaces'[d], namespaces[d])
  BY <1>1, SetStepKeepsTypes, SuitesType DEF SetStep
<1>4. Len(Top.locals) \in Nat
  BY <1>3, LocalsType
<1>5. writes' \notin deferred
  <2>1. writes \in Nat /\ writes' = writes + 1
    BY <1>1 DEF SetStep, TypeOK, Values
  <2>2. \A t \in deferred : t <= writes
    BY <1>1 DEF DeferredOK
  <2> QED BY <2>1, <2>2
<1>6. \A e \in log : e.time \in deferred' <=> e.time \in deferred
  BY <1>2 DEF SetStep
<1>7. ASSUME NEW d \in 1..Depth
      PROVE  SuiteSees(d)' =
                IF \/ scope = "global"
                   \/ d = Depth /\ scope = "suite"
                   \/ d = Depth /\ scope = "test" /\ ~Top.inTest
                THEN SuiteSees(d) \cup {n} ELSE SuiteSees(d)
  <2>1. namespaces'[d].inTest = namespaces[d].inTest
    BY <1>3 DEF Keeps
  <2>2. d = Depth => namespaces[d] = Top
    BY DEF Top
  <2>3. scope \in {"local", "test", "suite", "global"}
    BY DEF Scopes
  <2> QED BY <1>2, <2>1, <2>2, <2>3 DEF SuiteSees
<1>8. ASSUME NEW i \in Nat
      PROVE  LevelSees(Depth, i)' =
                IF \/ scope = "local" /\ Len(Top.locals) > i
                   \/ writes' \in deferred'
                THEN LevelSees(Depth, i) ELSE LevelSees(Depth, i) \cup {n}
  <2>1. LevelSees(Depth, i)' = {e \in log' : /\ e.scope = "global" \/ e.depth = Depth
                                             /\ e.time \notin deferred'
                                             /\ e.scope = "local" => e.level <= i}
    BY <1>3 DEF LevelSees
  <2>2. {e \in log : /\ e.scope = "global" \/ e.depth = Depth
                     /\ e.time \notin deferred'
                     /\ e.scope = "local" => e.level <= i} = LevelSees(Depth, i)
    BY <1>6 DEF LevelSees
  <2>3. (scope = "local" => n.level <= i) <=> ~(scope = "local" /\ Len(Top.locals) > i)
    BY <1>2, <1>4
  <2>4. n.scope = "global" \/ n.depth = Depth
    BY <1>2
  <2> QED BY <1>2, <2>1, <2>2, <2>3, <2>4
<1>9. GlobalEntries' = IF scope = "global" THEN GlobalEntries \cup {n} ELSE GlobalEntries
  BY <1>2 DEF GlobalEntries
<1> QED BY <1>7, <1>8, <1>9

\* What the stores have seen with it is latest, if they hold its value.
LEMMA EntryIsLatest ==
  ASSUME TypeOK, LogOK, NEW scope \in Scopes, NEW value, SetStep(scope, value),
         NEW n, n = Entry(scope, value), NEW entries \in SUBSET log
  PROVE  HoldsLatest(value, entries \cup {n})
<1>1. n.value = value /\ n.time \in Nat /\ \A e \in log : e.time <= n.time
  BY EntryIsNew
<1> QED BY <1>1, LatestAdded

\* Outer suites have a store of their own only.
LEMMA OuterStores ==
  ASSUME PhasesOK, TypeOK, NEW d \in 1..Depth, d # Depth, Keeps(namespaces'[d], namespaces[d]),
         HoldsLatest(namespaces'[d].suite, SuiteSees(d)')
  PROVE  StoreOK(d)'
<1>1. d \in 1..(Depth - 1) /\ namespaces[d] \in NamespaceRecord
  BY SuitesType
<1>2. namespaces[d].locals = <<>> /\ ~namespaces[d].inTest
  BY <1>1 DEF PhasesOK
<1>3. ~namespaces'[d].inTest /\ Len(namespaces'[d].locals) = 0
  BY <1>1, <1>2, LocalsType DEF Keeps
<1>4. 1..Len(namespaces'[d].locals) = {}
  BY <1>3
<1> QED BY <1>3, <1>4 DEF StoreOK

\* A step of the innermost suite.
LEMMA InnerStep ==
  ASSUME ScopesInvariant, Depth' = Depth, StoreOK(Depth)',
         \A d \in 1..Depth : d # Depth =>
            namespaces'[d] = namespaces[d] /\ SuiteSees(d)' = SuiteSees(d),
         global' = global, GlobalEntries' = GlobalEntries
  PROVE  StoresOK'
<1>1. TypeOK /\ StoresOK /\ PhasesOK
  BY DEF ScopesInvariant
<1>2. ASSUME NEW d \in 1..Depth, d # Depth PROVE StoreOK(d)'
  <2>1. StoreOK(d) /\ namespaces[d] \in NamespaceRecord
    BY <1>1, SuitesType DEF StoresOK
  <2>2. Keeps(namespaces'[d], namespaces[d])
    BY <1>2, <2>1 DEF Keeps
  <2>3. HoldsLatest(namespaces'[d].suite, SuiteSees(d)')
    BY <1>2, <2>1 DEF StoreOK
  <2> QED BY <1>1, <1>2, <2>2, <2>3, OuterStores
<1>3. ASSUME NEW d \in 1..Depth PROVE StoreOK(d)'
  <2>1. CASE d # Depth
    BY <1>2, <2>1
  <2>2. CASE d = Depth
    <3>1. d = Depth'
      BY <2>2
    <3> QED BY <3>1 DEF StoreOK, SuiteSees, LevelSees
  <2> QED BY <2>1, <2>2
<1>4. HoldsLatest(global, GlobalEntries)'
  BY <1>1 DEF StoresOK
<1> QED BY <1>3, <1>4 DEF StoresOK

\* What the innermost suite is before a step that changes it.
LEMMA Innermost ==
  ASSUME ScopesInvariant, Running
  PROVE  /\ TypeOK /\ LogOK /\ StoresOK /\ DeferredOK /\ PhasesOK /\ PrevOK
         /\ Depth \in 1..Depth /\ Depth \in Nat /\ Top \in NamespaceRecord
         /\ StoreOK(Depth) /\ PhaseOK(Top)
         /\ Len(Top.locals) \in Nat /\ (Top.locals = <<>> <=> Len(Top.locals) = 0)
         /\ writes \in Nat
<1>1. TypeOK /\ StoresOK /\ PhasesOK
  BY DEF ScopesInvariant
<1>2. Depth \in 1..Depth /\ Depth \in Nat /\ Top \in NamespaceRecord
  BY <1>1, SuitesType
<1>3. Len(Top.locals) \in Nat /\ (Top.locals = <<>> <=> Len(Top.locals) = 0)
  BY <1>2, LocalsType
<1>4. StoreOK(Depth) /\ PhaseOK(Top)
  BY <1>1, <1>2 DEF StoresOK, PhasesOK, Top
<1>5. writes \in Nat
  BY <1>1 DEF TypeOK, Values
<1> QED BY <1>1, <1>2, <1>3, <1>4, <1>5 DEF ScopesInvariant

\* A keyword of the innermost suite that sets the variable in this scope.
InnerSetStep(scope, value, ns) ==
  /\ Running /\ writes < MaxWrites /\ writes' = writes + 1 /\ value \in 1..writes'
  /\ UpdateTop(ns)
  /\ log' = log \cup {Entry(scope, value)} /\ deferred' = deferred
  /\ UNCHANGED <<global, globalPrev, suites, tests, forgotten>>

\* What the stores see after it.
InnerSetStepSees(scope, value, ns, n) ==
  /\ Depth' = Depth /\ namespaces'[Depth] = ns
  /\ \A d \in 1..Depth : d # Depth =>
       namespaces'[d] = namespaces[d] /\ SuiteSees(d)' = SuiteSees(d)
  /\ SuiteSees(Depth)' = IF scope = "suite" \/ (scope = "test" /\ ~Top.inTest)
                         THEN SuiteSees(Depth) \cup {n} ELSE SuiteSees(Depth)
  /\ \A i \in Nat :
       LevelSees(Depth, i)' = IF scope = "local" /\ Len(Top.locals) > i
                              THEN LevelSees(Depth, i) ELSE LevelSees(Depth, i) \cup {n}
  /\ \A entries \in SUBSET log : HoldsLatest(value, entries \cup {n})
  /\ GlobalEntries' = GlobalEntries /\ global' = global

LEMMA InnerSetStepIsSetStep ==
  ASSUME ScopesInvariant, NEW scope \in {"local", "test", "suite"}, NEW value, NEW ns,
         InnerSetStep(scope, value, ns), Keeps(ns, Top),
         scope = "local" => Top.inTest \/ Top.locals # <<>>,
         scope = "test" => Top.inTest \/ Top.phase = "teardown",
         NEW n, n = Entry(scope, value)
  PROVE  SetStep(scope, value) /\ InnerSetStepSees(scope, value, ns, n)
<1>1. Running /\ UpdateTop(ns) /\ ns \in NamespaceRecord
  BY DEF InnerSetStep, Keeps
<1>2. TypeOK /\ LogOK /\ DeferredOK /\ Depth \in 1..Depth /\ Top \in NamespaceRecord /\ writes \in Nat
  BY <1>1, Innermost
<1>3. /\ namespaces' \in Seq(NamespaceRecord) /\ Depth' = Depth /\ namespaces'[Depth] = ns
      /\ \A d \in 1..Depth : d # Depth => namespaces'[d] = namespaces[d]
  BY <1>1, <1>2, Updated
<1>4. \A d \in 1..Depth : Keeps(namespaces'[d], namespaces[d])
  <2>1. \A d \in 1..Depth : namespaces[d] \in NamespaceRecord
    BY <1>2, SuitesType
  <2> QED BY <1>3, <2>1 DEF Keeps, Top
<1>5. SetStep(scope, value)
  <2>1. global' \in Values
    BY <1>2 DEF InnerSetStep, TypeOK
  <2> QED BY <1>3, <1>4, <2>1 DEF InnerSetStep, SetStep
<1>6. writes' \notin deferred'
  <2>1. \A t \in deferred : t <= writes
    BY <1>2 DEF DeferredOK
  <2> QED BY <1>2, <2>1 DEF InnerSetStep
<1>7. scope \in Scopes /\ log' = log \cup {n}
  BY DEF Scopes, InnerSetStep
<1>8. /\ \A d \in 1..Depth :
           SuiteSees(d)' =
                IF \/ scope = "global"
                   \/ d = Depth /\ scope = "suite"
                   \/ d = Depth /\ scope = "test" /\ ~Top.inTest
                THEN SuiteSees(d) \cup {n} ELSE SuiteSees(d)
      /\ \A i \in Nat :
              LevelSees(Depth, i)' =
                IF \/ scope = "local" /\ Len(Top.locals) > i
                   \/ writes' \in deferred'
                THEN LevelSees(Depth, i) ELSE LevelSees(Depth, i) \cup {n}
      /\ GlobalEntries' = IF scope = "global" THEN GlobalEntries \cup {n} ELSE GlobalEntries
  BY <1>5, <1>7, SetStepSees
<1>9. \A entries \in SUBSET log : HoldsLatest(value, entries \cup {n})
  BY <1>2, <1>5, <1>7, EntryIsLatest
<1>10. /\ \A d \in 1..Depth : d # Depth => SuiteSees(d)' = SuiteSees(d)
       /\ SuiteSees(Depth)' =
              IF scope = "suite" \/ (scope = "test" /\ ~Top.inTest)
              THEN SuiteSees(Depth) \cup {n} ELSE SuiteSees(Depth)
  <2>1. PICK d \in 1..Depth : d = Depth
    BY <1>2
  <2>2. SuiteSees(Depth)' = SuiteSees(d)'
    BY <1>3, <2>1 DEF SuiteSees
  <2>3. d = Depth /\ scope # "global" /\ SuiteSees(d) = SuiteSees(Depth)
    BY <2>1
  <2>4. SuiteSees(d)' = IF scope = "suite" \/ (scope = "test" /\ ~Top.inTest)
                        THEN SuiteSees(d) \cup {n} ELSE SuiteSees(d)
    BY <1>8, <2>3
  <2> QED BY <1>8, <2>2, <2>3, <2>4
<1>11. \A i \in Nat :
              LevelSees(Depth, i)' =
                IF scope = "local" /\ Len(Top.locals) > i
                THEN LevelSees(Depth, i) ELSE LevelSees(Depth, i) \cup {n}
  BY <1>6, <1>8
<1>12. GlobalEntries' = GlobalEntries /\ global' = global
  BY <1>8 DEF InnerSetStep
<1> QED BY <1>3, <1>5, <1>9, <1>10, <1>11, <1>12 DEF InnerSetStepSees

\* A step that sets the variable keeps the invariant, if the stores are right.
LEMMA SetStepKeeps ==
  ASSUME ScopesInvariant, NEW scope \in Scopes, NEW value, SetStep(scope, value), StoresOK'
  PROVE  ScopesInvariant'
<1>1. TypeOK /\ LogOK
  BY DEF ScopesInvariant
<1> QED BY <1>1, SetStepKeepsTypes, SetStepKeepsLog, SetStepKeepsRest DEF ScopesInvariant

-----------------------------------------------------------------------------
(* The keywords that set the variable. *)

\* A step of the innermost suite keeps the invariant if the stores of that
\* suite hold what they have seen.
LEMMA InnerSetStepKeeps ==
  ASSUME ScopesInvariant, NEW scope \in {"local", "test", "suite"}, NEW value, NEW ns,
         InnerSetStep(scope, value, ns), Keeps(ns, Top),
         scope = "local" => Top.inTest \/ Top.locals # <<>>,
         scope = "test" => Top.inTest \/ Top.phase = "teardown",
         ns.suite = IF scope = "suite" \/ (scope = "test" /\ ~Top.inTest)
                    THEN value ELSE Top.suite,
         Top.inTest => ns.test = IF scope = "local" /\ Len(Top.locals) > 0
                                 THEN Top.test ELSE value,
         \A i \in 1..Len(Top.locals) :
           ns.locals[i] = IF scope = "local" /\ Len(Top.locals) > i
                          THEN Top.locals[i] ELSE value
  PROVE  ScopesInvariant'
<1>1. PICK n : n = Entry(scope, value)
  OBVIOUS
<1>0. SetStep(scope, value) /\ InnerSetStepSees(scope, value, ns, n)
  BY <1>1, InnerSetStepIsSetStep
<1>2. /\ SetStep(scope, value) /\ Depth' = Depth /\ namespaces'[Depth] = ns
      /\ \A d \in 1..Depth : d # Depth =>
           namespaces'[d] = namespaces[d] /\ SuiteSees(d)' = SuiteSees(d)
      /\ SuiteSees(Depth)' =
           IF scope = "suite" \/ (scope = "test" /\ ~Top.inTest)
           THEN SuiteSees(Depth) \cup {n} ELSE SuiteSees(Depth)
      /\ \A i \in Nat :
           LevelSees(Depth, i)' =
             IF scope = "local" /\ Len(Top.locals) > i
             THEN LevelSees(Depth, i) ELSE LevelSees(Depth, i) \cup {n}
      /\ \A entries \in SUBSET log : HoldsLatest(value, entries \cup {n})
      /\ GlobalEntries' = GlobalEntries /\ global' = global
  BY <1>0 DEF InnerSetStepSees
<1>3. /\ StoreOK(Depth) /\ Top = namespaces[Depth] /\ Len(Top.locals) \in Nat
      /\ ns.inTest = Top.inTest /\ Len(ns.locals) = Len(Top.locals)
  BY Innermost DEF Top, Keeps, InnerSetStep
<1>4. SuiteSees(Depth) \in SUBSET log /\ \A i \in Nat : LevelSees(Depth, i) \in SUBSET log
  BY DEF SuiteSees, LevelSees
<1>5. HoldsLatest(ns.suite, SuiteSees(Depth)')
  BY <1>2, <1>3, <1>4 DEF StoreOK
<1>6. ASSUME NEW i \in Nat
      PROVE  /\ scope = "local" /\ Len(Top.locals) > i => LevelSees(Depth, i)' = LevelSees(Depth, i)
             /\ ~(scope = "local" /\ Len(Top.locals) > i) => HoldsLatest(value, LevelSees(Depth, i)')
  BY <1>2, <1>4
<1>7. Top.inTest => HoldsLatest(ns.test, LevelSees(Depth, 0)')
  <2>1. 0 \in Nat
    OBVIOUS
  <2>2. Top.inTest => HoldsLatest(Top.test, LevelSees(Depth, 0))
    BY <1>3 DEF StoreOK
  <2> QED BY <1>6, <2>1, <2>2
<1>8. ASSUME NEW i \in 1..Len(Top.locals)
      PROVE  HoldsLatest(ns.locals[i], LevelSees(Depth, i)')
  <2>1. i \in Nat
    BY <1>3
  <2>2. HoldsLatest(Top.locals[i], LevelSees(Depth, i))
    BY <1>3 DEF StoreOK
  <2> QED BY <1>6, <2>1, <2>2
<1>9. StoreOK(Depth)'
  <2>1. /\ HoldsLatest(namespaces'[Depth'].suite, SuiteSees(Depth)')
        /\ namespaces'[Depth'].inTest => HoldsLatest(namespaces'[Depth'].test, LevelSees(Depth, 0)')
    BY <1>2, <1>3, <1>5, <1>7
  <2>2. \A i \in 1..Len(namespaces'[Depth'].locals) :
          HoldsLatest(namespaces'[Depth'].locals[i], LevelSees(Depth, i)')
    BY <1>2, <1>3, <1>8
  <2> QED BY <2>1, <2>2 DEF StoreOK
<1>10. StoresOK'
  BY <1>2, <1>9, InnerStep
<1>11. scope \in Scopes
  BY DEF Scopes
<1> QED BY <1>2, <1>10, <1>11, SetStepKeeps

LEMMA AssignKeeps == ScopesInvariant /\ Assign => ScopesInvariant'
<1> SUFFICES ASSUME ScopesInvariant, Assign PROVE ScopesInvariant'
  OBVIOUS
<1>1. PICK value : value = writes'
  OBVIOUS
<1>2. PICK ns : ns = StoreLocally(Top, value)
  OBVIOUS
<1>3. /\ Running /\ writes < MaxWrites /\ writes' = writes + 1
      /\ Top.inTest \/ Top.locals # <<>>
  BY DEF Assign, CanSet
<1>4. /\ Top \in NamespaceRecord /\ writes \in Nat /\ Len(Top.locals) \in Nat
      /\ (Top.locals = <<>> <=> Len(Top.locals) = 0)
  BY <1>3, Innermost
<1>5. value \in Values /\ value \in 1..writes'
  BY <1>1, <1>3, <1>4, VariableAssumption DEF Values
<1>6. InnerSetStep("local", value, ns)
  BY <1>1, <1>2, <1>3, <1>5 DEF Assign, InnerSetStep
<1>7. /\ Keeps(ns, Top)
      /\ Top.locals # <<>> =>
           ns.locals[Len(Top.locals)] = value /\ ns.suite = Top.suite /\ ns.test = Top.test
      /\ \A i \in 1..Len(Top.locals) : i # Len(Top.locals) => ns.locals[i] = Top.locals[i]
      /\ Top.locals = <<>> /\ Top.inTest => ns.test = value /\ ns.suite = Top.suite
  BY <1>2, <1>4, <1>5, StoredLocally
<1>8. ns.suite = Top.suite
  BY <1>3, <1>7
<1>9. Top.inTest => ns.test = IF Len(Top.locals) > 0 THEN Top.test ELSE value
  BY <1>4, <1>7
<1>10. ASSUME NEW i \in 1..Len(Top.locals)
       PROVE  ns.locals[i] = IF Len(Top.locals) > i THEN Top.locals[i] ELSE value
  <2>1. Len(Top.locals) > i <=> i # Len(Top.locals)
    BY <1>4
  <2>2. i = Len(Top.locals) => Top.locals # <<>>
    BY <1>4
  <2> QED BY <1>7, <2>1, <2>2
<1> QED BY <1>3, <1>6, <1>7, <1>8, <1>9, <1>10, InnerSetStepKeeps

LEMMA SetTestVariableKeeps == ScopesInvariant /\ SetTestVariable => ScopesInvariant'
<1> SUFFICES ASSUME ScopesInvariant, SetTestVariable PROVE ScopesInvariant'
  OBVIOUS
<1>1. PICK value \in 1..writes' :
        UpdateTop(SetTest(Top, value)) /\ log' = log \cup {Entry("test", value)}
  BY DEF SetTestVariable
<1>2. PICK ns : ns = SetTest(Top, value)
  OBVIOUS
<1>3. /\ Running /\ writes < MaxWrites /\ writes' = writes + 1
      /\ RunsKeywords(Top) /\ Top.tested
  BY DEF SetTestVariable, CanSet
<1>4. Top \in NamespaceRecord /\ writes \in Nat /\ PhaseOK(Top) /\ TypeOK
  BY <1>3, Innermost
<1>5. value \in Values
  BY <1>3, <1>4, VariableAssumption DEF Values
<1>6. InnerSetStep("test", value, ns)
  BY <1>1, <1>2, <1>3 DEF SetTestVariable, InnerSetStep
<1>7. /\ Keeps(ns, Top)
      /\ \A i \in 1..Len(Top.locals) : ns.locals[i] = value
      /\ ns.test = value
      /\ Top.inTest => ns.suite = Top.suite
      /\ ~Top.inTest => ns.suite = value
  BY <1>2, <1>3, <1>4, <1>5, TestSet
<1>8. Top.inTest \/ Top.phase = "teardown"
  <2>1. Top.phase \in {"setup", "body", "teardown"}
    BY <1>4 DEF NamespaceRecord
  <2> QED BY <1>3, <1>4, <2>1 DEF PhaseOK, RunsKeywords
<1> QED BY <1>6, <1>7, <1>8, InnerSetStepKeeps

LEMMA SetSuiteVariableKeeps == ScopesInvariant /\ SetSuiteVariable => ScopesInvariant'
<1> SUFFICES ASSUME ScopesInvariant, SetSuiteVariable PROVE ScopesInvariant'
  OBVIOUS
<1>1. PICK value \in 1..writes' :
        UpdateTop(SetSuite(Top, value)) /\ log' = log \cup {Entry("suite", value)}
  BY DEF SetSuiteVariable
<1>2. PICK ns : ns = SetSuite(Top, value)
  OBVIOUS
<1>3. Running /\ writes < MaxWrites /\ writes' = writes + 1
  BY DEF SetSuiteVariable, CanSet
<1>4. Top \in NamespaceRecord /\ writes \in Nat /\ TypeOK /\ Depth \in 1..Depth
  BY <1>3, Innermost
<1>5. value \in Values
  BY <1>3, <1>4, VariableAssumption DEF Values
<1>6. InnerSetStep("suite", value, ns)
  BY <1>1, <1>2, <1>3 DEF SetSuiteVariable, InnerSetStep
<1>7. /\ Keeps(ns, Top)
      /\ \A i \in 1..Len(Top.locals) : ns.locals[i] = value
      /\ Top.tested => ns.test = value
      /\ ns.suite = value
  BY <1>2, <1>4, <1>5, SuiteSet
<1>8. Top.inTest => Top.tested
  BY <1>4 DEF TypeOK, Top
<1> QED BY <1>6, <1>7, <1>8, InnerSetStepKeeps

LEMMA ImportVariablesKeeps == ScopesInvariant /\ ImportVariables => ScopesInvariant'
<1> SUFFICES ASSUME ScopesInvariant, ImportVariables PROVE ScopesInvariant'
  OBVIOUS
<1>1. PICK value : value = writes'
  OBVIOUS
<1>2. PICK ns : ns = [SetSuite(Top, value) EXCEPT !.imported = TRUE]
  OBVIOUS
<1>3. Running /\ writes < MaxWrites /\ writes' = writes + 1
  BY DEF ImportVariables, CanSet
<1>4. Top \in NamespaceRecord /\ writes \in Nat /\ TypeOK /\ Depth \in 1..Depth
  BY <1>3, Innermost
<1>5. value \in Values /\ value \in 1..writes'
  BY <1>1, <1>3, <1>4, VariableAssumption DEF Values
<1>6. InnerSetStep("suite", value, ns)
  BY <1>1, <1>2, <1>3, <1>5 DEF ImportVariables, InnerSetStep, SetFromFile
<1>7. /\ Keeps(ns, Top)
      /\ \A i \in 1..Len(Top.locals) : ns.locals[i] = value
      /\ Top.tested => ns.test = value
      /\ ns.suite = value
  <2> DEFINE r == SetSuite(Top, value)
  <2>1. /\ Keeps(r, Top)
        /\ \A i \in 1..Len(Top.locals) : r.locals[i] = value
        /\ Top.tested => r.test = value
        /\ r.suite = value
    BY <1>4, <1>5, SuiteSet
  <2>2. ns = [r EXCEPT !.imported = TRUE]
    BY <1>2
  <2> HIDE DEF r
  <2> QED BY <2>1, <2>2 DEF Keeps, NamespaceRecord
<1>8. Top.inTest => Top.tested
  BY <1>4 DEF TypeOK, Top
<1> QED BY <1>6, <1>7, <1>8, InnerSetStepKeeps

LEMMA SetGlobalVariableKeeps == ScopesInvariant /\ SetGlobalVariable => ScopesInvariant'
<1> SUFFICES ASSUME ScopesInvariant, SetGlobalVariable PROVE ScopesInvariant'
  OBVIOUS
<1>1. PICK value \in 1..writes' :
        global' = value /\ namespaces' = SetGlobal(value) /\ log' = log \cup {Entry("global", value)}
  BY DEF SetGlobalVariable
<1>2. PICK n : n = Entry("global", value)
  OBVIOUS
<1>3. /\ Running /\ writes < MaxWrites /\ writes' = writes + 1 /\ deferred' = deferred
      /\ UNCHANGED <<globalPrev, suites, tests, forgotten>>
  BY DEF SetGlobalVariable, CanSet
<1>4. /\ TypeOK /\ LogOK /\ DeferredOK /\ PhasesOK /\ writes \in Nat
      /\ Depth \in 1..Depth /\ Depth \in Nat /\ Top \in NamespaceRecord
      /\ Len(Top.locals) \in Nat
  BY <1>3, Innermost
<1>5. value \in Values
  BY <1>3, <1>4, VariableAssumption DEF Values
<1>6. ASSUME NEW d \in 1..Depth
      PROVE  /\ Keeps(SetSuite(namespaces[d], value), namespaces[d])
             /\ namespaces'[d] = SetSuite(namespaces[d], value)
             /\ \A i \in 1..Len(namespaces[d].locals) : namespaces'[d].locals[i] = value
             /\ namespaces[d].tested => namespaces'[d].test = value
             /\ namespaces'[d].suite = value
  <2>1. namespaces[d] \in NamespaceRecord
    BY <1>4, SuitesType
  <2>2. namespaces'[d] = SetSuite(namespaces[d], value)
    BY <1>1 DEF SetGlobal
  <2> QED BY <1>5, <2>1, <2>2, SuiteSet
<1>7. namespaces' \in Seq(NamespaceRecord) /\ Len(namespaces') = Depth
  <2>1. \A d \in 1..Depth : SetSuite(namespaces[d], value) \in NamespaceRecord
    BY <1>6 DEF Keeps
  <2> DEFINE S == [d \in 1..Depth |-> SetSuite(namespaces[d], value)]
             m == Depth
  <2>2. S \in [1..m -> NamespaceRecord] /\ m \in Nat
    BY <1>4, <2>1
  <2>3. namespaces' = S
    BY <1>1 DEF SetGlobal
  <2> HIDE DEF S, m
  <2>4. S \in Seq(NamespaceRecord) /\ Len(S) = m
    BY <2>2
  <2> QED BY <2>3, <2>4 DEF m
<1>8. Depth' = Depth
  BY <1>7 DEF Depth
<1>9. SetStep("global", value)
  BY <1>1, <1>3, <1>5, <1>6, <1>7, <1>8 DEF SetStep
<1>10. log' = log \cup {n} /\ "global" \in Scopes
  BY <1>1, <1>2 DEF Scopes
<1>11. \A entries \in SUBSET log : HoldsLatest(value, entries \cup {n})
  BY <1>2, <1>4, <1>9, <1>10, EntryIsLatest
<1>12. /\ \A d \in 1..Depth : SuiteSees(d)' = SuiteSees(d) \cup {n}
       /\ \A i \in Nat : LevelSees(Depth, i)' = LevelSees(Depth, i) \cup {n}
       /\ GlobalEntries' = GlobalEntries \cup {n}
  <2>1. writes' \notin deferred'
    <3>1. \A t \in deferred : t <= writes
      BY <1>4 DEF DeferredOK
    <3> QED BY <1>3, <1>4, <3>1
  <2> QED BY <1>2, <1>9, <1>10, <2>1, SetStepSees
<1>13. ASSUME NEW d \in 1..Depth PROVE HoldsLatest(namespaces'[d].suite, SuiteSees(d)')
  <2>1. SuiteSees(d) \in SUBSET log
    BY DEF SuiteSees
  <2> QED BY <1>6, <1>11, <1>12, <2>1
<1>14. ASSUME NEW i \in Nat PROVE HoldsLatest(value, LevelSees(Depth, i)')
  <2>1. LevelSees(Depth, i) \in SUBSET log
    BY DEF LevelSees
  <2> QED BY <1>11, <1>12, <2>1
<1>15. ASSUME NEW d \in 1..Depth PROVE StoreOK(d)'
  <2>1. CASE d # Depth
    <3>1. Keeps(namespaces'[d], namespaces[d])
      BY <1>6
    <3> QED BY <1>4, <1>13, <2>1, <3>1, OuterStores
  <2>2. CASE d = Depth
    <3>1. namespaces[d] = Top /\ d = Depth'
      BY <1>8, <2>2 DEF Top
    <3>2. namespaces'[d].inTest => namespaces'[d].test = value
      BY <1>4, <1>6 DEF Keeps, TypeOK
    <3>3. \A i \in 1..Len(namespaces'[d].locals) : namespaces'[d].locals[i] = value /\ i \in Nat
      BY <1>4, <1>6, <3>1 DEF Keeps
    <3>4. \A i \in Nat : HoldsLatest(value, LevelSees(d, i)')
      BY <1>8, <1>14, <3>1 DEF LevelSees
    <3>5. 0 \in Nat
      OBVIOUS
    <3>6. namespaces'[d].inTest => HoldsLatest(namespaces'[d].test, LevelSees(d, 0)')
      BY <3>2, <3>4, <3>5
    <3>7. \A i \in 1..Len(namespaces'[d].locals) : HoldsLatest(namespaces'[d].locals[i], LevelSees(d, i)')
      BY <3>3, <3>4
    <3> QED BY <1>13, <3>6, <3>7 DEF StoreOK
  <2> QED BY <2>1, <2>2
<1>16. HoldsLatest(global', GlobalEntries')
  <2>1. GlobalEntries \in SUBSET log
    BY DEF GlobalEntries
  <2> QED BY <1>1, <1>11, <1>12, <2>1
<1>17. StoresOK'
  BY <1>8, <1>15, <1>16 DEF StoresOK
<1> QED BY <1>9, <1>10, <1>17, SetStepKeeps

LEMMA TableSet ==
  ASSUME NEW ns \in NamespaceRecord, NEW value \in Values
  PROVE  LET r == [SetFromTable(ns, value) EXCEPT !.imported = TRUE] IN
         /\ Keeps(r, ns) /\ r.test = ns.test /\ r.locals = ns.locals
         /\ r.suite = IF ns.suite = Undefined THEN value ELSE ns.suite
<1> DEFINE s == IF ns.suite = Undefined THEN value ELSE ns.suite
<1>1. SetFromTable(ns, value) = [ns EXCEPT !.suite = s]
  BY DEF SetFromTable, NamespaceRecord
<1>2. s \in Values
  BY DEF NamespaceRecord
<1> HIDE DEF s
<1>3. /\ Keeps([[ns EXCEPT !.suite = s] EXCEPT !.imported = TRUE], ns)
      /\ [[ns EXCEPT !.suite = s] EXCEPT !.imported = TRUE].suite = s
      /\ [[ns EXCEPT !.suite = s] EXCEPT !.imported = TRUE].test = ns.test
      /\ [[ns EXCEPT !.suite = s] EXCEPT !.imported = TRUE].locals = ns.locals
  BY <1>2 DEF Keeps, NamespaceRecord
<1> QED BY <1>1, <1>3 DEF s

LEMMA ImportResourceKeeps == ScopesInvariant /\ ImportResource => ScopesInvariant'
<1> SUFFICES ASSUME ScopesInvariant, ImportResource PROVE ScopesInvariant'
  OBVIOUS
<1>1. PICK value : value = writes'
  OBVIOUS
<1>2. PICK n : n = Entry("suite", value)
  OBVIOUS
<1>3. PICK ns : ns = [SetFromTable(Top, value) EXCEPT !.imported = TRUE]
  OBVIOUS
<1>4. /\ Running /\ writes < MaxWrites /\ writes' = writes + 1 /\ UpdateTop(ns)
      /\ UNCHANGED <<global, globalPrev, suites, tests, forgotten>>
      /\ log' = IF Top.suite # Undefined THEN log ELSE log \cup {n}
      /\ deferred' = IF Top.suite = Undefined /\ (Top.inTest \/ Top.locals # <<>>)
                     THEN deferred \cup {writes'} ELSE deferred
  BY <1>1, <1>2, <1>3 DEF ImportResource, CanSet
<1>5. /\ TypeOK /\ LogOK /\ DeferredOK /\ StoresOK /\ writes \in Nat
      /\ Depth \in 1..Depth /\ Top \in NamespaceRecord /\ StoreOK(Depth) /\ Top = namespaces[Depth]
      /\ Len(Top.locals) \in Nat /\ (Top.locals = <<>> <=> Len(Top.locals) = 0)
  BY <1>4, Innermost DEF Top
<1>6. value \in Values /\ value \in 1..writes'
  BY <1>1, <1>4, <1>5, VariableAssumption DEF Values
<1>7. /\ Keeps(ns, Top) /\ ns.test = Top.test /\ ns.locals = Top.locals
      /\ ns.suite = IF Top.suite = Undefined THEN value ELSE Top.suite
      /\ ns \in NamespaceRecord
  BY <1>3, <1>5, <1>6, TableSet DEF Keeps
<1>8. /\ namespaces' \in Seq(NamespaceRecord) /\ Depth' = Depth /\ namespaces'[Depth] = ns
      /\ \A d \in 1..Depth : d # Depth => namespaces'[d] = namespaces[d]
  BY <1>4, <1>5, <1>7, Updated
<1>9. \A d \in 1..Depth : Keeps(namespaces'[d], namespaces[d])
  <2>1. \A d \in 1..Depth : namespaces[d] \in NamespaceRecord
    BY <1>5, SuitesType
  <2> QED BY <1>5, <1>7, <1>8, <2>1 DEF Keeps
<1>10. SetStep("suite", value)
  <2>1. global' \in Values
    BY <1>4, <1>5 DEF TypeOK
  <2>2. log' = log \/ log' = log \cup {Entry("suite", value)}
    BY <1>2, <1>4
  <2> QED BY <1>4, <1>6, <1>8, <1>9, <2>1, <2>2 DEF SetStep
<1>11. "suite" \in Scopes
  BY DEF Scopes
<1>12. StoresOK'
  <2>1. CASE Top.suite # Undefined
    <3>1. log' = log /\ deferred' = deferred
      BY <1>4, <2>1
    <3>2. /\ \A d \in 1..Depth : SuiteSees(d)' = SuiteSees(d)
          /\ \A i \in Nat : LevelSees(Depth, i)' = LevelSees(Depth, i)
          /\ GlobalEntries' = GlobalEntries
      BY <1>8, <1>9, <3>1 DEF SuiteSees, LevelSees, GlobalEntries, Keeps
    <3>3. SuiteSees(Depth)' = SuiteSees(Depth)
      BY <1>7, <1>8, <1>5, <3>1 DEF SuiteSees, Keeps
    <3>4. LevelSees(Depth, 0)' = LevelSees(Depth, 0)
          /\ \A i \in 1..Len(Top.locals) : LevelSees(Depth, i)' = LevelSees(Depth, i)
      BY <1>5, <3>2
    <3>5. StoreOK(Depth)'
      BY <1>5, <1>7, <1>8, <2>1, <3>3, <3>4 DEF StoreOK, Keeps
    <3> QED BY <1>4, <1>8, <3>2, <3>5, InnerStep
  <2>2. CASE Top.suite = Undefined
    <3>1. log' = log \cup {n}
      BY <1>4, <2>2
    <3>2. /\ \A d \in 1..Depth :
              SuiteSees(d)' = IF d = Depth THEN SuiteSees(d) \cup {n} ELSE SuiteSees(d)
          /\ \A i \in Nat :
              LevelSees(Depth, i)' = IF writes' \in deferred' THEN LevelSees(Depth, i)
                                     ELSE LevelSees(Depth, i) \cup {n}
          /\ GlobalEntries' = GlobalEntries
      BY <1>2, <1>10, <1>11, <3>1, SetStepSees
    <3>3. \A entries \in SUBSET log : HoldsLatest(value, entries \cup {n})
      BY <1>2, <1>5, <1>10, <1>11, EntryIsLatest
    <3>4. HoldsLatest(ns.suite, SuiteSees(Depth)')
      <4>1. PICK d \in 1..Depth : d = Depth
        BY <1>5
      <4>2. SuiteSees(Depth)' = SuiteSees(d)'
        BY <1>8, <4>1 DEF SuiteSees
      <4>3. SuiteSees(d) \in SUBSET log
        BY DEF SuiteSees
      <4>4. SuiteSees(d)' = SuiteSees(d) \cup {n}
        BY <3>2, <4>1
      <4> QED BY <1>7, <2>2, <3>3, <4>2, <4>3, <4>4
    <3>5. Top.inTest \/ Top.locals # <<>> => \A i \in Nat : LevelSees(Depth, i)' = LevelSees(Depth, i)
      <4>1. Top.inTest \/ Top.locals # <<>> => writes' \in deferred'
        BY <1>4, <2>2
      <4> QED BY <3>2, <4>1
    <3>6. Top.inTest => HoldsLatest(ns.test, LevelSees(Depth, 0)')
      BY <1>5, <1>7, <3>5 DEF StoreOK
    <3>7. \A i \in 1..Len(ns.locals) : HoldsLatest(ns.locals[i], LevelSees(Depth, i)')
      <4> SUFFICES ASSUME NEW i \in 1..Len(Top.locals) PROVE HoldsLatest(Top.locals[i], LevelSees(Depth, i)')
        BY <1>7
      <4>1. Top.locals # <<>> /\ i \in Nat
        BY <1>5
      <4>2. HoldsLatest(Top.locals[i], LevelSees(Depth, i))
        BY <1>5 DEF StoreOK
      <4> QED BY <3>5, <4>1, <4>2
    <3>8. StoreOK(Depth)'
      BY <1>7, <1>8, <3>4, <3>6, <3>7 DEF StoreOK, Keeps
    <3>9. \A d \in 1..Depth : d # Depth => SuiteSees(d)' = SuiteSees(d)
      BY <3>2
    <3> QED BY <1>4, <1>8, <3>2, <3>8, <3>9, InnerStep
  <2> QED BY <2>1, <2>2
<1> QED BY <1>10, <1>11, <1>12, SetStepKeeps

-----------------------------------------------------------------------------
(* Tests, teardowns and user keywords of the innermost suite. *)

\* The innermost suite goes on; assignments to what has ended are not in force.
MoveStep(ns) ==
  /\ Running /\ UpdateTop(ns) /\ ns \in NamespaceRecord
  /\ log' \subseteq log /\ deferred' \subseteq deferred
  /\ \A e \in log : e \notin log' => e.depth = Depth /\ e.scope # "global"
  /\ forgotten' \in BOOLEAN
  /\ tests' \in 0..MaxTests /\ tests <= tests'
  /\ UNCHANGED <<global, globalPrev, suites, writes>>

LEMMA MoveStepIsInner ==
  ASSUME ScopesInvariant, NEW ns, MoveStep(ns)
  PROVE  /\ Depth' = Depth /\ namespaces'[Depth] = ns /\ Top' = ns /\ Running'
         /\ namespaces' \in Seq(NamespaceRecord)
         /\ \A d \in 1..Depth : d # Depth =>
              namespaces'[d] = namespaces[d] /\ SuiteSees(d)' = SuiteSees(d)
         /\ GlobalEntries' = GlobalEntries
<1>1. TypeOK /\ Running /\ UpdateTop(ns) /\ ns \in NamespaceRecord
  BY DEF ScopesInvariant, MoveStep
<1>2. /\ Depth' = Depth /\ namespaces'[Depth] = ns /\ Top' = ns /\ Running'
      /\ namespaces' \in Seq(NamespaceRecord)
      /\ \A d \in 1..Depth : d # Depth => namespaces'[d] = namespaces[d]
  BY <1>1, Updated
<1>3. \A d \in 1..Depth : d # Depth => SuiteSees(d)' = SuiteSees(d)
  BY <1>2 DEF SuiteSees, MoveStep
<1>4. GlobalEntries' = GlobalEntries
  BY DEF GlobalEntries, MoveStep
<1> QED BY <1>2, <1>3, <1>4

LEMMA MoveStepKeeps ==
  ASSUME ScopesInvariant, NEW ns, MoveStep(ns), PhaseOK(ns),
         ns.prev <= tests',
         ns.inTest => ns.tested /\ ~ns.subs,
         Len(ns.locals) <= MaxKeywords,
         \A e \in log' : e.depth = Depth =>
           /\ e.scope = "test" => ns.inTest \/ ns.phase = "teardown"
           /\ e.scope = "local" => e.level <= Len(ns.locals) /\ (e.level = 0 => ns.inTest),
         deferred' # {} => ns.inTest \/ ns.locals # <<>>,
         StoreOK(Depth)', PrevOK'
  PROVE  ScopesInvariant'
<1>1. /\ TypeOK /\ LogOK /\ DeferredOK /\ PhasesOK
      /\ Depth \in 1..Depth /\ Depth \in Nat
  BY Innermost DEF MoveStep
<1>2. /\ Depth' = Depth /\ namespaces'[Depth] = ns /\ Top' = ns /\ Running'
      /\ namespaces' \in Seq(NamespaceRecord)
      /\ \A d \in 1..Depth : d # Depth =>
           namespaces'[d] = namespaces[d] /\ SuiteSees(d)' = SuiteSees(d)
      /\ GlobalEntries' = GlobalEntries
  BY MoveStepIsInner
<1>3. TypeOK'
  <2>1. /\ global' \in Values /\ suites' \in 0..MaxSuites /\ writes' \in Values
        /\ tests' \in 0..MaxTests /\ forgotten' \in BOOLEAN /\ Depth' <= MaxDepth
        /\ log' \subseteq EntryRecord /\ deferred' \subseteq 1..MaxWrites
    BY <1>1, <1>2 DEF TypeOK, MoveStep
  <2>2. tests \in Nat /\ tests' \in Nat /\ tests <= tests'
    BY <1>1, VariableAssumption DEF TypeOK, MoveStep
  <2>3. globalPrev' \in 0..tests'
    <3>1. globalPrev \in 0..tests /\ globalPrev' = globalPrev
      BY <1>1 DEF TypeOK, MoveStep
    <3> QED BY <2>2, <3>1
  <2>4. ASSUME NEW d \in 1..Depth
        PROVE  /\ namespaces'[d].prev <= tests'
               /\ namespaces'[d].inTest => namespaces'[d].tested /\ ~namespaces'[d].subs
               /\ Len(namespaces'[d].locals) <= MaxKeywords
    <3>1. CASE d = Depth
      BY <1>2, <3>1
    <3>2. CASE d # Depth
      <4>1. namespaces'[d] = namespaces[d]
        BY <1>2, <3>2
      <4>2. /\ namespaces[d].prev <= tests
            /\ namespaces[d].inTest => namespaces[d].tested /\ ~namespaces[d].subs
            /\ Len(namespaces[d].locals) <= MaxKeywords
        BY <1>1 DEF TypeOK
      <4>3. namespaces[d].prev \in Nat
        <5>1. namespaces[d] \in NamespaceRecord
          BY <1>1, SuitesType
        <5> QED BY <5>1, VariableAssumption DEF NamespaceRecord
      <4> QED BY <2>2, <4>1, <4>2, <4>3
    <3> QED BY <3>1, <3>2
  <2> QED BY <1>2, <2>1, <2>3, <2>4 DEF TypeOK
<1>4. LogOK'
  <2>1. ASSUME NEW e \in log' PROVE EntryOK(e)'
    <3>1. e \in log
      BY DEF MoveStep
    <3>2. EntryOK(e) /\ e.depth \in Nat \ {0} /\ writes' = writes
      BY <1>1, <3>1, LogType DEF LogOK, MoveStep
    <3>3. CASE e.scope = "global"
      BY <3>2, <3>3 DEF EntryOK
    <3>4. CASE e.scope # "global" /\ e.depth = Depth
      BY <1>2, <3>2, <3>4 DEF EntryOK
    <3>5. CASE e.scope # "global" /\ e.depth # Depth
      <4>1. e.depth \in 1..Depth /\ e.depth <= Depth
        BY <1>1, <3>2, <3>5 DEF EntryOK
      <4>2. namespaces'[e.depth] = namespaces[e.depth]
        BY <1>2, <3>5, <4>1
      <4> QED BY <1>2, <3>2, <4>1, <4>2 DEF EntryOK
    <3> QED BY <3>3, <3>4, <3>5
  <2>2. \A e, f \in log' : e.time = f.time => e = f
    BY <1>1 DEF LogOK, MoveStep
  <2> QED BY <2>1, <2>2 DEF LogOK
<1>5. DeferredOK'
  BY <1>1, <1>2 DEF DeferredOK, MoveStep
<1>6. PhasesOK'
  <2>1. ASSUME NEW d \in 1..Depth PROVE PhaseOK(namespaces[d])'
    <3>1. CASE d = Depth
      BY <1>2, <3>1 DEF PhaseOK
    <3>2. CASE d # Depth
      BY <1>1, <1>2, <3>2 DEF PhaseOK, PhasesOK
    <3> QED BY <3>1, <3>2
  <2>2. ASSUME NEW d \in 1..(Depth - 1)
        PROVE  (namespaces[d].locals = <<>> /\ ~namespaces[d].inTest /\ namespaces[d].subs)'
    <3>1. d \in 1..Depth /\ d # Depth
      BY <1>1
    <3> QED BY <1>1, <1>2, <3>1 DEF PhasesOK
  <2> QED BY <1>2, <2>1, <2>2 DEF PhasesOK
<1>7. StoresOK'
  BY <1>2, InnerStep DEF MoveStep
<1> QED BY <1>3, <1>4, <1>5, <1>6, <1>7 DEF ScopesInvariant

\* Where a suite runs nothing now, its log has nothing of a test or a keyword.
LEMMA NothingRuns ==
  ASSUME ScopesInvariant, Running, Top.locals = <<>>, ~Top.inTest
  PROVE  /\ deferred = {}
         /\ \A e \in log : e.depth = Depth => e.scope # "local"
         /\ Top.phase # "teardown" => \A e \in log : e.depth = Depth => e.scope # "test"
<1>1. TypeOK /\ LogOK /\ DeferredOK /\ Len(Top.locals) = 0
  BY Innermost
<1>2. ASSUME NEW e \in log, e.depth = Depth, e.scope = "local" PROVE FALSE
  <2>1. e.level <= 0 /\ e.level \in Nat /\ (e.level = 0 => Top.inTest)
    BY <1>1, <1>2, LogType DEF LogOK, EntryOK, Top
  <2>2. e.level = 0
    BY <2>1
  <2> QED BY <2>1, <2>2
<1>3. deferred = {}
  BY <1>1 DEF DeferredOK
<1>4. \A e \in log : e.depth = Depth /\ e.scope = "test" => Top.phase = "teardown"
  BY <1>1 DEF LogOK, EntryOK, Top
<1> QED BY <1>2, <1>3, <1>4

LEMMA StartTestKeeps == ScopesInvariant /\ StartTest => ScopesInvariant'
<1> SUFFICES ASSUME ScopesInvariant, StartTest PROVE ScopesInvariant'
  OBVIOUS
<1>1. PICK ns : ns = [Top EXCEPT !.phase = "body", !.test = Top.suite, !.tested = TRUE, !.inTest = TRUE]
  OBVIOUS
<1>2. /\ Running /\ UpdateTop(ns) /\ Top.locals = <<>> /\ ~Top.inTest /\ ~Top.subs
      /\ Top.phase # "teardown" /\ tests < MaxTests /\ tests' = tests + 1
      /\ UNCHANGED <<global, globalPrev, suites, writes, log, deferred, forgotten>>
  BY <1>1 DEF StartTest, MayStartTest, auxiliaryVars
<1>3. /\ TypeOK /\ PhasesOK /\ PrevOK /\ LogOK /\ Top \in NamespaceRecord /\ StoreOK(Depth) /\ PhaseOK(Top)
      /\ Depth \in 1..Depth /\ Top = namespaces[Depth] /\ Len(Top.locals) = 0
  BY <1>2, Innermost DEF Top
<1>4. /\ ns \in NamespaceRecord /\ ns.phase = "body" /\ ns.inTest /\ ns.tested
      /\ ns.subs = Top.subs /\ ns.locals = Top.locals /\ ns.prev = Top.prev
      /\ ns.test = Top.suite /\ ns.suite = Top.suite
  BY <1>1, <1>3 DEF NamespaceRecord
<1>5. tests \in Nat /\ tests' \in 0..MaxTests /\ tests <= tests' /\ Top.prev <= tests /\ Top.prev \in Nat
  <2>1. tests \in 0..MaxTests /\ Top.prev \in 0..MaxTests /\ Top.prev <= tests
    BY <1>3 DEF TypeOK, NamespaceRecord
  <2> QED BY <1>2, <2>1, VariableAssumption
<1>6. MoveStep(ns)
  BY <1>2, <1>3, <1>4, <1>5 DEF MoveStep, TypeOK
<1>7. /\ Depth' = Depth /\ namespaces'[Depth] = ns /\ Top' = ns /\ Running'
  BY <1>6, MoveStepIsInner
<1>8. /\ deferred = {}
      /\ \A e \in log : e.depth = Depth => e.scope # "local" /\ e.scope # "test"
  BY <1>2, NothingRuns
<1>9. StoreOK(Depth)'
  <2>1. SuiteSees(Depth)' = SuiteSees(Depth)
    BY <1>2, <1>3, <1>4, <1>7, <1>8 DEF SuiteSees
  <2>2. LevelSees(Depth, 0)' = SuiteSees(Depth)
    BY <1>2, <1>3, <1>7, <1>8 DEF SuiteSees, LevelSees
  <2>3. HoldsLatest(Top.suite, SuiteSees(Depth))
    BY <1>3 DEF StoreOK
  <2>4. 1..Len(ns.locals) = {}
    BY <1>3, <1>4
  <2> QED BY <1>4, <1>7, <2>1, <2>2, <2>3, <2>4 DEF StoreOK
<1>10. PrevOK'
  <2>1. ~forgotten => Top.prev = tests
    BY <1>2, <1>3 DEF PrevOK
  <2> QED BY <1>2, <1>4, <1>5, <1>7, <2>1 DEF PrevOK
<1>11. PhaseOK(ns) /\ ns.prev <= tests' /\ Len(ns.locals) <= MaxKeywords
  <2>1. ns.prev <= tests'
    BY <1>2, <1>4, <1>5
  <2>2. 0 <= MaxKeywords
    BY VariableAssumption
  <2> QED BY <1>2, <1>3, <1>4, <2>1, <2>2 DEF PhaseOK
<1>12. \A e \in log' : e.depth = Depth => e.scope # "local" /\ e.scope # "test"
  BY <1>2, <1>8
<1> QED BY <1>2, <1>4, <1>6, <1>8, <1>9, <1>10, <1>11, <1>12, MoveStepKeeps

LEMMA EndTestKeeps == ScopesInvariant /\ EndTest => ScopesInvariant'
<1> SUFFICES ASSUME ScopesInvariant, EndTest PROVE ScopesInvariant'
  OBVIOUS
<1>1. PICK ns : ns = [Top EXCEPT !.inTest = FALSE, !.prev = tests]
  OBVIOUS
<1>2. /\ Running /\ UpdateTop(ns) /\ Top.locals = <<>> /\ Top.inTest
      /\ log' = {e \in log : ~InTest(e)} /\ deferred' = {} /\ forgotten' = FALSE
      /\ UNCHANGED <<global, globalPrev, suites, tests, writes>>
  BY <1>1 DEF EndTest
<1>3. /\ TypeOK /\ PhasesOK /\ PrevOK /\ LogOK /\ Top \in NamespaceRecord /\ StoreOK(Depth) /\ PhaseOK(Top)
      /\ Depth \in 1..Depth /\ Top = namespaces[Depth] /\ Len(Top.locals) = 0
  BY <1>2, Innermost DEF Top
<1>4. tests \in 0..MaxTests /\ tests \in Nat
  BY <1>3, VariableAssumption DEF TypeOK
<1>5. /\ ns \in NamespaceRecord /\ ns.phase = Top.phase /\ ~ns.inTest /\ ns.tested = Top.tested
      /\ ns.subs = Top.subs /\ ns.locals = Top.locals /\ ns.prev = tests
      /\ ns.suite = Top.suite
  BY <1>1, <1>3, <1>4 DEF NamespaceRecord
<1>6. MoveStep(ns)
  <2>1. log' \subseteq log /\ \A e \in log : e \notin log' => e.depth = Depth /\ e.scope # "global"
    BY <1>2 DEF InTest
  <2>2. forgotten' \in BOOLEAN /\ deferred' \subseteq deferred
    BY <1>2
  <2>3. tests' \in 0..MaxTests /\ tests <= tests'
    BY <1>2, <1>4
  <2> QED BY <1>2, <1>5, <2>1, <2>2, <2>3 DEF MoveStep
<1>7. /\ Depth' = Depth /\ namespaces'[Depth] = ns /\ Top' = ns /\ Running'
  BY <1>6, MoveStepIsInner
<1>8. Top.tested /\ ~Top.subs
  BY <1>2, <1>3 DEF TypeOK
<1>9. StoreOK(Depth)'
  <2>1. SuiteSees(Depth)' = SuiteSees(Depth)
    BY <1>2, <1>3, <1>5, <1>7 DEF SuiteSees, InTest
  <2>2. HoldsLatest(Top.suite, SuiteSees(Depth))
    BY <1>3 DEF StoreOK
  <2>3. 1..Len(ns.locals) = {}
    BY <1>3, <1>5
  <2> QED BY <1>5, <1>7, <2>1, <2>2, <2>3 DEF StoreOK
<1>10. PrevOK'
  BY <1>2, <1>5, <1>7, <1>8 DEF PrevOK
<1>11. PhaseOK(ns) /\ ns.prev <= tests' /\ Len(ns.locals) <= MaxKeywords
  <2>1. ns.prev <= tests'
    BY <1>2, <1>4, <1>5
  <2>2. Len(Top.locals) <= MaxKeywords
    BY <1>3 DEF TypeOK
  <2> QED BY <1>2, <1>3, <1>5, <1>8, <2>1, <2>2 DEF PhaseOK
<1>12. \A e \in log' : e.depth = Depth => e.scope # "local" /\ e.scope # "test"
  BY <1>2 DEF InTest
<1> QED BY <1>2, <1>5, <1>6, <1>9, <1>10, <1>11, <1>12, MoveStepKeeps

LEMMA StartTeardownKeeps == ScopesInvariant /\ StartTeardown => ScopesInvariant'
<1> SUFFICES ASSUME ScopesInvariant, StartTeardown PROVE ScopesInvariant'
  OBVIOUS
<1>1. PICK ns : ns = [Top EXCEPT !.phase = "teardown"]
  OBVIOUS
<1>2. /\ Running /\ UpdateTop(ns) /\ Top.locals = <<>> /\ ~Top.inTest /\ Top.phase = "body"
      /\ UNCHANGED <<global, globalPrev, suites, tests, writes, log, deferred, forgotten>>
  BY <1>1 DEF StartTeardown, auxiliaryVars
<1>3. /\ TypeOK /\ PhasesOK /\ PrevOK /\ LogOK /\ Top \in NamespaceRecord /\ StoreOK(Depth) /\ PhaseOK(Top)
      /\ Depth \in 1..Depth /\ Top = namespaces[Depth] /\ Len(Top.locals) = 0
  BY <1>2, Innermost DEF Top
<1>4. tests \in 0..MaxTests /\ tests \in Nat /\ Top.prev <= tests /\ forgotten \in BOOLEAN
  BY <1>3, VariableAssumption DEF TypeOK
<1>5. /\ ns \in NamespaceRecord /\ ns.phase = "teardown" /\ ns.inTest = Top.inTest /\ ns.tested = Top.tested
      /\ ns.subs = Top.subs /\ ns.locals = Top.locals /\ ns.prev = Top.prev
      /\ ns.suite = Top.suite
  BY <1>1, <1>3 DEF NamespaceRecord
<1>6. MoveStep(ns)
  BY <1>2, <1>4, <1>5 DEF MoveStep
<1>7. /\ Depth' = Depth /\ namespaces'[Depth] = ns /\ Top' = ns /\ Running'
  BY <1>6, MoveStepIsInner
<1>8. /\ deferred = {}
      /\ \A e \in log : e.depth = Depth => e.scope # "local"
  BY <1>2, NothingRuns
<1>9. StoreOK(Depth)'
  <2>1. SuiteSees(Depth)' = SuiteSees(Depth)
    BY <1>2, <1>3, <1>5, <1>7 DEF SuiteSees
  <2>2. HoldsLatest(Top.suite, SuiteSees(Depth))
    BY <1>3 DEF StoreOK
  <2>3. 1..Len(ns.locals) = {}
    BY <1>3, <1>5
  <2> QED BY <1>2, <1>5, <1>7, <2>1, <2>2, <2>3 DEF StoreOK
<1>10. PrevOK'
  BY <1>2, <1>3, <1>5, <1>7 DEF PrevOK
<1>11. PhaseOK(ns) /\ ns.prev <= tests' /\ Len(ns.locals) <= MaxKeywords
  <2>1. Len(Top.locals) <= MaxKeywords
    BY <1>3 DEF TypeOK
  <2> QED BY <1>2, <1>3, <1>4, <1>5, <2>1 DEF PhaseOK
<1>12. \A e \in log' : e.depth = Depth => e.scope # "local"
  BY <1>2, <1>8
<1> QED BY <1>2, <1>5, <1>6, <1>8, <1>9, <1>10, <1>11, <1>12, MoveStepKeeps

LEMMA StartUserKeywordKeeps == ScopesInvariant /\ StartUserKeyword => ScopesInvariant'
<1> SUFFICES ASSUME ScopesInvariant, StartUserKeyword PROVE ScopesInvariant'
  OBVIOUS
<1>1. PICK locals : locals = Append(Top.locals, Current(Top))
  OBVIOUS
<1>2. PICK ns : ns = [Top EXCEPT !.locals = locals]
  OBVIOUS
<1>3. /\ Running /\ UpdateTop(ns) /\ Len(Top.locals) < MaxKeywords
      /\ Top.inTest \/ Top.phase # "body"
      /\ UNCHANGED <<global, globalPrev, suites, tests, writes, log, deferred, forgotten>>
  BY <1>1, <1>2 DEF StartUserKeyword, auxiliaryVars
<1>4. /\ TypeOK /\ PhasesOK /\ PrevOK /\ LogOK /\ Top \in NamespaceRecord /\ StoreOK(Depth) /\ PhaseOK(Top)
      /\ Depth \in 1..Depth /\ Top = namespaces[Depth] /\ Len(Top.locals) \in Nat
  BY <1>3, Innermost DEF Top
<1>5. tests \in 0..MaxTests /\ tests \in Nat /\ Top.prev <= tests /\ forgotten \in BOOLEAN
  BY <1>4, VariableAssumption DEF TypeOK
<1> DEFINE n == Len(Top.locals)
<1>6. /\ locals \in Seq(Values) /\ Len(locals) = n + 1 /\ locals # <<>>
      /\ locals[n + 1] = Current(Top)
      /\ \A i \in 1..n : locals[i] = Top.locals[i]
  <2>1. Top.locals \in Seq(Values) /\ DOMAIN Top.locals = 1..n
        /\ \A i \in 1..n : Top.locals[i] \in Values
        /\ (Top.locals # <<>> => n \in 1..n)
    BY <1>4, LocalsType
  <2>2. Current(Top) \in Values
    BY <1>4, <2>1 DEF Current, Last, NamespaceRecord
  <2>3. /\ locals \in Seq(Values) /\ Len(locals) = n + 1
        /\ locals[n + 1] = Current(Top)
        /\ \A i \in 1..n : locals[i] = Top.locals[i]
    BY <1>1, <2>1, <2>2, AppendProperties
  <2>4. locals # <<>>
    BY <1>4, <2>3, EmptySeq
  <2> QED BY <2>3, <2>4
<1>7. /\ ns \in NamespaceRecord /\ ns.phase = Top.phase /\ ns.inTest = Top.inTest /\ ns.tested = Top.tested
      /\ ns.subs = Top.subs /\ ns.locals = locals /\ ns.prev = Top.prev
      /\ ns.suite = Top.suite /\ ns.test = Top.test
  BY <1>2, <1>4, <1>6 DEF NamespaceRecord
<1>8. MoveStep(ns)
  BY <1>3, <1>5, <1>7 DEF MoveStep
<1>9. Depth' = Depth /\ namespaces'[Depth] = ns /\ Top' = ns /\ Running'
  BY <1>8, MoveStepIsInner
<1>10. \A e \in log : e.scope = "local" /\ e.depth = Depth =>
          e.level \in Nat /\ e.level <= n /\ (e.level = 0 => Top.inTest)
  BY <1>4, LogType DEF LogOK, EntryOK
<1> HIDE DEF n
<1>11. n \in Nat /\ Len(ns.locals) = n + 1
  BY <1>4, <1>6, <1>7 DEF n
<1>12. StoreOK(Depth)'
  <2>1. SuiteSees(Depth)' = SuiteSees(Depth)
    BY <1>3, <1>4, <1>7, <1>9 DEF SuiteSees
  <2>2. \A i : LevelSees(Depth, i)' = LevelSees(Depth, i)
    BY <1>3, <1>9 DEF LevelSees
  <2>3. LevelSees(Depth, n + 1) = {e \in log : Visible(e)}
    <3>1. \A e \in log : e.scope = "local" /\ e.depth = Depth => e.level <= n + 1
      BY <1>10, <1>11
    <3>2. \A e \in log : e.scope = "local" /\ (e.scope = "global" \/ e.depth = Depth) => e.level <= n + 1
      BY <3>1
    <3> DEFINE m == n + 1
    <3> HIDE DEF m
    <3>3. \A e \in log : e.scope = "local" /\ (e.scope = "global" \/ e.depth = Depth) => e.level <= m
      BY <3>2 DEF m
    <3>4. LevelSees(Depth, m) = {e \in log : Visible(e)}
      BY <3>3 DEF LevelSees, Visible
    <3> QED BY <3>4 DEF m
  <2>4. HoldsLatest(locals[n + 1], LevelSees(Depth, n + 1))
    BY <1>3, <1>6, <2>3, CurrentHoldsLatest DEF n
  <2>5. ASSUME NEW i \in 1..(n + 1) PROVE HoldsLatest(locals[i], LevelSees(Depth, i))
    <3>1. CASE i = n + 1
      BY <2>4, <3>1
    <3>2. CASE i # n + 1
      <4>1. i \in 1..n
        BY <1>11, <3>2
      <4>2. HoldsLatest(Top.locals[i], LevelSees(Depth, i)) /\ locals[i] = Top.locals[i]
        BY <1>4, <1>6, <4>1 DEF StoreOK, n
      <4> QED BY <4>2
    <3> QED BY <3>1, <3>2
  <2>6. \A i \in 1..Len(ns.locals) : HoldsLatest(ns.locals[i], LevelSees(Depth, i)')
    BY <1>7, <1>11, <2>2, <2>5
  <2>7. HoldsLatest(ns.suite, SuiteSees(Depth)')
        /\ (ns.inTest => HoldsLatest(ns.test, LevelSees(Depth, 0)'))
    BY <1>4, <1>7, <2>1, <2>2 DEF StoreOK
  <2> QED BY <1>9, <2>6, <2>7 DEF StoreOK
<1>13. PrevOK'
  BY <1>3, <1>4, <1>7, <1>9 DEF PrevOK
<1>14. PhaseOK(ns) /\ ns.prev <= tests' /\ Len(ns.locals) <= MaxKeywords
  <2>1. Len(ns.locals) <= MaxKeywords
    <3>1. n < MaxKeywords /\ MaxKeywords \in Nat
      BY <1>3, VariableAssumption DEF n
    <3> QED BY <1>11, <3>1
  <2>2. PhaseOK(ns)
    BY <1>3, <1>4, <1>7 DEF PhaseOK
  <2> QED BY <1>3, <1>5, <1>7, <2>1, <2>2
<1>15. ASSUME NEW e \in log', e.depth = Depth
       PROVE  /\ e.scope = "test" => ns.inTest \/ ns.phase = "teardown"
              /\ e.scope = "local" => e.level <= Len(ns.locals) /\ (e.level = 0 => ns.inTest)
  <2>1. e \in log /\ EntryOK(e)
    BY <1>3, <1>4 DEF LogOK
  <2>2. e.scope = "test" => ns.inTest \/ ns.phase = "teardown"
    BY <1>4, <1>7, <1>15, <2>1 DEF EntryOK
  <2>3. e.scope = "local" => e.level <= Len(ns.locals) /\ (e.level = 0 => ns.inTest)
    <3>1. e.scope = "local" => e.level \in Nat /\ e.level <= n /\ (e.level = 0 => Top.inTest)
      BY <1>10, <1>15, <2>1
    <3> QED BY <1>7, <1>11, <3>1
  <2> QED BY <2>2, <2>3
<1>16. /\ ns.inTest => ns.tested /\ ~ns.subs
       /\ ns.locals # <<>>
  BY <1>4, <1>6, <1>7 DEF TypeOK
<1> QED BY <1>8, <1>12, <1>13, <1>14, <1>15, <1>16, MoveStepKeeps

LEMMA EndUserKeywordKeeps == ScopesInvariant /\ EndUserKeyword => ScopesInvariant'
<1> SUFFICES ASSUME ScopesInvariant, EndUserKeyword PROVE ScopesInvariant'
  OBVIOUS
<1>1. PICK locals : locals = Front(Top.locals)
  OBVIOUS
<1>2. PICK ns : ns = [Top EXCEPT !.locals = locals]
  OBVIOUS
<1>3. /\ Running /\ UpdateTop(ns) /\ Top.locals # <<>>
      /\ log' = {e \in log : ~InUserKeyword(e)}
      /\ deferred' = IF Len(Top.locals) = 1 /\ ~Top.inTest THEN {} ELSE deferred
      /\ UNCHANGED <<global, globalPrev, suites, tests, writes, forgotten>>
  BY <1>1, <1>2 DEF EndUserKeyword
<1>4. /\ TypeOK /\ PhasesOK /\ PrevOK /\ LogOK /\ DeferredOK /\ Top \in NamespaceRecord /\ StoreOK(Depth) /\ PhaseOK(Top)
      /\ Depth \in 1..Depth /\ Top = namespaces[Depth] /\ Len(Top.locals) \in Nat
      /\ (Top.locals = <<>> <=> Len(Top.locals) = 0)
  BY <1>3, Innermost DEF Top
<1>5. tests \in 0..MaxTests /\ tests \in Nat /\ Top.prev <= tests /\ forgotten \in BOOLEAN
  BY <1>4, VariableAssumption DEF TypeOK
<1> DEFINE n == Len(Top.locals)
<1>6. /\ locals \in Seq(Values) /\ Len(locals) = n - 1
      /\ \A i \in 1..(n - 1) : locals[i] = Top.locals[i]
      /\ (locals = <<>> <=> n = 1)
  <2>1. Top.locals \in Seq(Values) /\ n \in Nat /\ n # 0
        /\ \A i \in 1..n : Top.locals[i] \in Values
    BY <1>3, <1>4, LocalsType
  <2>2. locals = SubSeq(Top.locals, 1, n - 1)
    BY <1>1 DEF Front
  <2> HIDE DEF n
  <2>3. \A i \in 1..(n - 1) : Top.locals[i] \in Values
    BY <2>1
  <2>4. /\ locals \in Seq(Values) /\ Len(locals) = IF 1 <= n - 1 THEN n - 1 - 1 + 1 ELSE 0
        /\ \A i \in 1..(n - 1 - 1 + 1) : locals[i] = Top.locals[1 + i - 1]
    BY <2>1, <2>2, <2>3, SubSeqProperties
  <2>5. Len(locals) = n - 1
    BY <2>1, <2>4
  <2>6. \A i \in 1..(n - 1) : locals[i] = Top.locals[i]
    BY <2>1, <2>4
  <2>7. locals = <<>> <=> n = 1
    BY <2>1, <2>4, <2>5, EmptySeq
  <2> QED BY <2>4, <2>5, <2>6, <2>7
<1>7. /\ ns \in NamespaceRecord /\ ns.phase = Top.phase /\ ns.inTest = Top.inTest /\ ns.tested = Top.tested
      /\ ns.subs = Top.subs /\ ns.locals = locals /\ ns.prev = Top.prev
      /\ ns.suite = Top.suite /\ ns.test = Top.test
  BY <1>2, <1>4, <1>6 DEF NamespaceRecord
<1>8. MoveStep(ns)
  <2>1. log' \subseteq log /\ \A e \in log : e \notin log' => e.depth = Depth /\ e.scope # "global"
    BY <1>3 DEF InUserKeyword
  <2>2. deferred' \subseteq deferred
    BY <1>3
  <2>3. forgotten' \in BOOLEAN /\ tests' \in 0..MaxTests /\ tests <= tests'
    BY <1>3, <1>5
  <2> QED BY <1>3, <1>7, <2>1, <2>2, <2>3 DEF MoveStep
<1>9. Depth' = Depth /\ namespaces'[Depth] = ns /\ Top' = ns /\ Running'
  BY <1>8, MoveStepIsInner
<1>10. \A e \in log : e.scope = "local" /\ e.depth = Depth =>
          e.level \in Nat /\ e.level <= n /\ (e.level = 0 => Top.inTest)
  BY <1>4, LogType DEF LogOK, EntryOK
<1>11. log' = {e \in log : ~(e.depth = Depth /\ e.scope = "local" /\ e.level = n)}
  BY <1>3 DEF InUserKeyword
<1> HIDE DEF n
<1>12. n \in Nat /\ n # 0 /\ Len(ns.locals) = n - 1
  BY <1>3, <1>4, <1>6, <1>7 DEF n
<1>13. n # 1 \/ Top.inTest => deferred' = deferred
  BY <1>3 DEF n
<1>14. StoreOK(Depth)'
  <2>1. SuiteSees(Depth)' = SuiteSees(Depth)
    BY <1>4, <1>7, <1>9, <1>11 DEF SuiteSees
  <2>2. ASSUME NEW i \in Nat, i < n, deferred' = deferred PROVE LevelSees(Depth, i)' = LevelSees(Depth, i)
    <3>1. ~(n <= i)
      BY <1>12, <2>2
    <3>2. \A e \in log : e.level = n => ~(e.level <= i)
      BY <3>1
    <3> QED BY <1>9, <1>11, <2>2, <3>2 DEF LevelSees
  <2>3. ASSUME NEW i \in 1..(n - 1) PROVE HoldsLatest(locals[i], LevelSees(Depth, i)')
    <3>1. i \in Nat /\ i < n /\ n # 1 /\ i \in 1..n
      BY <1>12
    <3>2. LevelSees(Depth, i)' = LevelSees(Depth, i)
      BY <1>13, <2>2, <3>1
    <3>3. HoldsLatest(Top.locals[i], LevelSees(Depth, i)) /\ locals[i] = Top.locals[i]
      BY <1>4, <1>6, <3>1 DEF StoreOK, n
    <3> QED BY <3>2, <3>3
  <2>4. Top.inTest => HoldsLatest(Top.test, LevelSees(Depth, 0)')
    <3>1. 0 \in Nat /\ 0 < n
      BY <1>12
    <3>2. Top.inTest => LevelSees(Depth, 0)' = LevelSees(Depth, 0)
      BY <1>13, <2>2, <3>1
    <3> QED BY <1>4, <3>2 DEF StoreOK
  <2>5. HoldsLatest(Top.suite, SuiteSees(Depth)')
    BY <1>4, <2>1 DEF StoreOK
  <2>6. \A i \in 1..Len(ns.locals) : HoldsLatest(ns.locals[i], LevelSees(Depth, i)')
    BY <1>7, <1>12, <2>3
  <2> QED BY <1>7, <1>9, <2>4, <2>5, <2>6 DEF StoreOK
<1>15. PrevOK'
  BY <1>3, <1>4, <1>7, <1>9 DEF PrevOK
<1>16. PhaseOK(ns) /\ ns.prev <= tests' /\ Len(ns.locals) <= MaxKeywords
  <2>1. Len(ns.locals) <= MaxKeywords
    <3>1. n <= MaxKeywords /\ MaxKeywords \in Nat
      BY <1>4, VariableAssumption DEF n, TypeOK
    <3> QED BY <1>12, <3>1
  <2>2. PhaseOK(ns)
    BY <1>3, <1>4, <1>7 DEF PhaseOK
  <2> QED BY <1>3, <1>5, <1>7, <2>1, <2>2
<1>17. ASSUME NEW e \in log', e.depth = Depth
       PROVE  /\ e.scope = "test" => ns.inTest \/ ns.phase = "teardown"
              /\ e.scope = "local" => e.level <= Len(ns.locals) /\ (e.level = 0 => ns.inTest)
  <2>1. e \in log /\ EntryOK(e) /\ ~(e.scope = "local" /\ e.level = n)
    BY <1>4, <1>11, <1>17 DEF LogOK
  <2>2. e.scope = "test" => ns.inTest \/ ns.phase = "teardown"
    BY <1>4, <1>7, <1>17, <2>1 DEF EntryOK
  <2>3. e.scope = "local" => e.level <= Len(ns.locals) /\ (e.level = 0 => ns.inTest)
    <3>1. e.scope = "local" => e.level \in Nat /\ e.level <= n /\ (e.level = 0 => Top.inTest) /\ e.level # n
      BY <1>10, <1>17, <2>1
    <3> QED BY <1>7, <1>12, <3>1
  <2> QED BY <2>2, <2>3
<1>18. deferred' # {} => ns.inTest \/ ns.locals # <<>>
  <2>1. deferred' # {} => Top.inTest \/ n # 1
    BY <1>3 DEF n
  <2> QED BY <1>6, <1>7, <2>1 DEF n
<1>19. ns.inTest => ns.tested /\ ~ns.subs
  BY <1>4, <1>7 DEF TypeOK
<1> QED BY <1>8, <1>14, <1>15, <1>16, <1>17, <1>18, <1>19, MoveStepKeeps

-----------------------------------------------------------------------------
(* Suites. *)

LEMMA EndSuiteKeeps == ScopesInvariant /\ EndSuite => ScopesInvariant'
<1> SUFFICES ASSUME ScopesInvariant, EndSuite PROVE ScopesInvariant'
  OBVIOUS
<1>1. /\ Running /\ Top.phase = "teardown" /\ Top.locals = <<>>
      /\ globalPrev' = Top.prev /\ namespaces' = Front(namespaces)
      /\ log' = {e \in log : ~InSuite(e)} /\ forgotten' = (forgotten \/ Top.subs)
      /\ UNCHANGED <<global, suites, tests, writes, deferred>>
  BY DEF EndSuite, PrevAfter
<1>2. /\ TypeOK /\ LogOK /\ StoresOK /\ DeferredOK /\ PhasesOK /\ PrevOK
      /\ Depth \in 1..Depth /\ Depth \in Nat /\ Top \in NamespaceRecord
      /\ PhaseOK(Top) /\ Top = namespaces[Depth]
  BY <1>1, Innermost DEF Top
<1>3. ~Top.inTest
  BY <1>1, <1>2 DEF PhaseOK
<1>4. /\ namespaces' \in Seq(NamespaceRecord) /\ Depth' = Depth - 1 /\ Depth' \in Nat
      /\ \A d \in 1..(Depth - 1) : d \in 1..Depth /\ d # Depth /\ namespaces'[d] = namespaces[d]
  <2> DEFINE n == Depth
  <2>1. n \in Nat /\ n # 0 /\ \A i \in 1..n : namespaces[i] \in NamespaceRecord
    BY <1>2, SuitesType
  <2>2. namespaces' = SubSeq(namespaces, 1, n - 1)
    BY <1>1 DEF Front, Depth
  <2>3. Depth' = Len(namespaces')
    BY DEF Depth
  <2> HIDE DEF n
  <2>4. \A i \in 1..(n - 1) : namespaces[i] \in NamespaceRecord
    BY <2>1
  <2>5. /\ namespaces' \in Seq(NamespaceRecord)
        /\ Len(namespaces') = IF 1 <= n - 1 THEN n - 1 - 1 + 1 ELSE 0
        /\ \A i \in 1..(n - 1 - 1 + 1) : namespaces'[i] = namespaces[1 + i - 1]
    BY <2>1, <2>2, <2>4, SubSeqProperties
  <2>6. Depth' = n - 1 /\ Depth' \in Nat
    BY <2>1, <2>3, <2>5
  <2>7. \A d \in 1..(n - 1) : d \in 1..n /\ d # n /\ namespaces'[d] = namespaces[d]
    BY <2>1, <2>5
  <2> QED BY <2>5, <2>6, <2>7 DEF n
<1>5. TypeOK'
  <2>1. /\ global' \in Values /\ suites' \in 0..MaxSuites /\ writes' \in Values
        /\ tests' \in 0..MaxTests /\ log' \subseteq EntryRecord /\ deferred' \subseteq 1..MaxWrites
    BY <1>1, <1>2 DEF TypeOK
  <2>2. forgotten' \in BOOLEAN
    BY <1>1
  <2>3. globalPrev' \in 0..tests'
    <3>1. Top.prev \in 0..MaxTests /\ Top.prev <= tests /\ tests \in 0..MaxTests
      BY <1>2 DEF TypeOK, NamespaceRecord
    <3> QED BY <1>1, <3>1, VariableAssumption
  <2>4. Depth' <= MaxDepth
    <3>1. Depth <= MaxDepth /\ MaxDepth \in Nat
      BY <1>2, VariableAssumption DEF TypeOK
    <3> QED BY <1>2, <1>4, <3>1
  <2>5. ASSUME NEW d \in 1..Depth'
        PROVE  /\ namespaces'[d].prev <= tests'
               /\ namespaces'[d].inTest => namespaces'[d].tested /\ ~namespaces'[d].subs
               /\ Len(namespaces'[d].locals) <= MaxKeywords
    <3>1. namespaces'[d] = namespaces[d] /\ d \in 1..Depth
      BY <1>4
    <3> QED BY <1>1, <1>2, <3>1 DEF TypeOK
  <2> QED BY <1>4, <2>1, <2>2, <2>3, <2>4, <2>5 DEF TypeOK
<1>6. LogOK'
  <2>1. ASSUME NEW e \in log' PROVE EntryOK(e)'
    <3>1. e \in log /\ (e.depth # Depth \/ e.scope = "global")
      BY <1>1 DEF InSuite
    <3>2. EntryOK(e) /\ e.depth \in Nat \ {0}
      BY <1>2, <3>1, LogType DEF LogOK
    <3>3. CASE e.scope = "global"
      BY <1>1, <3>2, <3>3 DEF EntryOK
    <3>4. CASE e.scope # "global"
      <4>1. e.depth \in 1..(Depth - 1) /\ e.depth <= Depth'
        BY <1>2, <1>4, <3>1, <3>2, <3>4 DEF EntryOK
      <4>2. namespaces'[e.depth] = namespaces[e.depth]
        BY <1>4, <4>1
      <4> QED BY <1>1, <3>2, <3>4, <4>1, <4>2 DEF EntryOK
    <3> QED BY <3>3, <3>4
  <2>2. \A e, f \in log' : e.time = f.time => e = f
    BY <1>1, <1>2 DEF LogOK
  <2> QED BY <2>1, <2>2 DEF LogOK
<1>7. DeferredOK'
  <2>1. deferred = {}
    BY <1>1, <1>3, NothingRuns
  <2> QED BY <1>1, <2>1 DEF DeferredOK
<1>8. PhasesOK'
  <2>1. ASSUME NEW d \in 1..Depth' PROVE PhaseOK(namespaces[d])'
    <3>1. namespaces'[d] = namespaces[d] /\ d \in 1..Depth
      BY <1>4
    <3> QED BY <1>2, <3>1 DEF PhaseOK, PhasesOK
  <2>2. ASSUME NEW d \in 1..(Depth' - 1)
        PROVE  (namespaces[d].locals = <<>> /\ ~namespaces[d].inTest /\ namespaces[d].subs)'
    <3>1. d \in 1..(Depth - 1)
      BY <1>2, <1>4
    <3>2. namespaces'[d] = namespaces[d]
      BY <1>4, <3>1
    <3> QED BY <1>2, <3>1, <3>2 DEF PhasesOK
  <2> QED BY <2>1, <2>2 DEF PhasesOK
<1>9. StoresOK'
  <2>1. ASSUME NEW d \in 1..Depth' PROVE StoreOK(d)'
    <3>1. d \in 1..Depth /\ d # Depth /\ namespaces'[d] = namespaces[d] /\ namespaces[d] \in NamespaceRecord
      BY <1>2, <1>4, SuitesType
    <3>2. SuiteSees(d)' = SuiteSees(d)
      BY <1>1, <3>1 DEF SuiteSees, InSuite
    <3>3. Keeps(namespaces'[d], namespaces[d])
      BY <3>1 DEF Keeps
    <3>4. HoldsLatest(namespaces'[d].suite, SuiteSees(d)')
      BY <1>2, <3>1, <3>2 DEF StoresOK, StoreOK
    <3> QED BY <1>2, <3>1, <3>3, <3>4, OuterStores
  <2>2. GlobalEntries' = GlobalEntries
    BY <1>1 DEF GlobalEntries, InSuite
  <2>3. HoldsLatest(global', GlobalEntries')
    BY <1>1, <1>2, <2>2 DEF StoresOK
  <2> QED BY <2>1, <2>3 DEF StoresOK
<1>10. PrevOK'
  <2>1. SUFFICES ASSUME ~forgotten, ~Top.subs
                 PROVE  /\ (Running /\ ~Top.subs => Top.prev = IF Top.inTest THEN tests - 1 ELSE tests)'
                        /\ globalPrev' = tests'
    BY <1>1 DEF PrevOK
  <2>2. Top.prev = tests
    BY <1>1, <1>2, <1>3, <2>1 DEF PrevOK
  <2>3. Running' => Top'.subs
    <3>1. SUFFICES ASSUME Running' PROVE Top'.subs
      OBVIOUS
    <3>2. Depth' # 0
      BY <1>4, <3>1, EmptySeq DEF Running, Depth
    <3>3. Depth' \in 1..(Depth - 1)
      BY <1>2, <1>4, <3>2
    <3>4. Top' = namespaces[Depth']
      BY <1>4, <3>3 DEF Top
    <3> QED BY <1>2, <3>3, <3>4 DEF PhasesOK
  <2> QED BY <1>1, <2>2, <2>3
<1> QED BY <1>5, <1>6, <1>7, <1>8, <1>9, <1>10 DEF ScopesInvariant

LEMMA StartSuiteKeeps == ScopesInvariant /\ StartSuite => ScopesInvariant'
<1> SUFFICES ASSUME ScopesInvariant, StartSuite PROVE ScopesInvariant'
  OBVIOUS
<1>1. /\ TypeOK /\ LogOK /\ StoresOK /\ DeferredOK /\ PhasesOK /\ PrevOK
      /\ Depth \in Nat /\ DOMAIN namespaces = 1..Depth
      /\ \A d \in 1..Depth : namespaces[d] \in NamespaceRecord
      /\ Running => Depth \in 1..Depth /\ Top \in NamespaceRecord
      /\ ~Running => Depth = 0
  BY SuitesType DEF ScopesInvariant
<1> DEFINE parent == [Top EXCEPT !.phase = "body", !.subs = TRUE]
<1>2. PICK parents : parents = IF Running THEN [namespaces EXCEPT ![Depth] = parent] ELSE <<>>
  OBVIOUS
<1>3. PICK value :
        /\ namespaces' = Append(parents, Namespace(value))
        /\ \/ value = global /\ UNCHANGED <<writes, log>>
           \/ /\ value = writes' /\ writes' = writes + 1 /\ writes < MaxWrites
              /\ log' = log \cup {[scope |-> "suite", depth |-> Depth + 1, level |-> 0,
                                   value |-> value, time |-> value]}
              /\ global = Undefined
  BY <1>2 DEF StartSuite
<1>4. /\ suites < MaxSuites /\ Depth < MaxDepth /\ suites' = suites + 1
      /\ Running => Top.phase # "teardown" /\ Top.locals = <<>> /\ ~Top.tested
      /\ UNCHANGED <<global, globalPrev, tests, deferred, forgotten>>
  BY DEF StartSuite
<1>5. Running => ~Top.inTest /\ Top = namespaces[Depth] /\ PhaseOK(Top)
  BY <1>1, <1>4 DEF TypeOK, Top, PhasesOK
<1>6. Running => /\ parent \in NamespaceRecord /\ parent.subs /\ parent.phase = "body"
                 /\ ~parent.inTest /\ ~parent.tested /\ parent.locals = <<>>
                 /\ parent.prev = Top.prev /\ parent.suite = Top.suite
  BY <1>1, <1>4, <1>5 DEF NamespaceRecord
<1> HIDE DEF parent
<1>7. /\ writes \in Nat /\ writes' \in Nat /\ writes <= writes' /\ writes' \in Values
      /\ value \in Values
  <2>1. writes \in Nat /\ writes \in Values /\ global \in Values /\ MaxWrites \in Nat
    BY <1>1, VariableAssumption DEF TypeOK, Values
  <2>2. CASE value = global /\ UNCHANGED <<writes, log>>
    BY <2>1, <2>2
  <2>3. CASE value = writes' /\ writes' = writes + 1 /\ writes < MaxWrites
    BY <2>1, <2>3 DEF Values
  <2> QED BY <1>3, <2>2, <2>3
<1> DEFINE child == Namespace(value)
<1>8. /\ child \in NamespaceRecord /\ child.suite = value /\ child.locals = <<>> /\ ~child.inTest
      /\ ~child.tested /\ ~child.subs /\ child.prev = globalPrev /\ child.phase = "setup"
  <2>1. globalPrev \in 0..MaxTests /\ Undefined \in Values
    <3>1. globalPrev \in 0..tests /\ tests \in 0..MaxTests
      BY <1>1 DEF TypeOK
    <3> QED BY <3>1, VariableAssumption DEF Undefined, Values
  <2>2. <<>> \in Seq(Values)
    BY EmptySeq
  <2> QED BY <1>7, <2>1, <2>2 DEF Namespace, NamespaceRecord
<1> HIDE DEF child
<1>9. /\ parents \in Seq(NamespaceRecord) /\ Len(parents) = Depth
      /\ \A d \in 1..Depth : parents[d] = IF d = Depth THEN parent ELSE namespaces[d]
  <2>1. CASE Running
    <3>1. namespaces \in Seq(NamespaceRecord) /\ parents = [namespaces EXCEPT ![Depth] = parent]
      BY <1>1, <1>2, <2>1 DEF TypeOK
    <3>2. Depth \in 1..Len(namespaces) /\ parent \in NamespaceRecord
      BY <1>1, <1>6, <2>1 DEF Depth
    <3>3. parents \in Seq(NamespaceRecord) /\ Len(parents) = Depth
      BY <3>1, <3>2, ExceptSeq DEF Depth
    <3>4. \A d \in 1..Depth : parents[d] = IF d = Depth THEN parent ELSE namespaces[d]
      BY <1>1, <3>1
    <3> QED BY <3>3, <3>4
  <2>2. CASE ~Running
    <3>1. parents = <<>> /\ Depth = 0
      BY <1>1, <1>2, <2>2
    <3> QED BY <3>1, EmptySeq
  <2> QED BY <2>1, <2>2
<1>10. /\ namespaces' \in Seq(NamespaceRecord) /\ Depth' = Depth + 1
       /\ namespaces'[Depth'] = child
       /\ \A d \in 1..Depth : namespaces'[d] = IF d = Depth THEN parent ELSE namespaces[d]
       /\ Top' = child /\ Running'
  <2>1. namespaces' = Append(parents, child)
    BY <1>3 DEF child
  <2>2. /\ namespaces' \in Seq(NamespaceRecord) /\ Len(namespaces') = Len(parents) + 1
        /\ namespaces'[Len(parents) + 1] = child
        /\ \A d \in 1..Len(parents) : namespaces'[d] = parents[d]
    BY <1>8, <1>9, <2>1, AppendProperties
  <2>3. Depth' = Len(namespaces') /\ Top' = namespaces'[Depth']
    BY DEF Depth, Top
  <2>4. Running'
    <3>1. Len(namespaces') # 0
      BY <1>1, <1>9, <2>2
    <3> QED BY <3>1, EmptySeq DEF Running
  <2> QED BY <1>9, <2>2, <2>3, <2>4
<1>11. \A d \in 1..Depth' : d \in 1..Depth \/ d = Depth'
  BY <1>1, <1>10
<1>12. \A d \in 1..Depth :
         /\ namespaces'[d].inTest = namespaces[d].inTest /\ namespaces'[d].locals = namespaces[d].locals
         /\ namespaces'[d].tested = namespaces[d].tested /\ namespaces'[d].prev = namespaces[d].prev
         /\ namespaces'[d].suite = namespaces[d].suite
         /\ namespaces'[d].locals = <<>> /\ ~namespaces'[d].inTest /\ namespaces'[d].subs
  <2> SUFFICES ASSUME NEW d \in 1..Depth
               PROVE  /\ namespaces'[d].inTest = namespaces[d].inTest
                      /\ namespaces'[d].locals = namespaces[d].locals
                      /\ namespaces'[d].tested = namespaces[d].tested
                      /\ namespaces'[d].prev = namespaces[d].prev
                      /\ namespaces'[d].suite = namespaces[d].suite
                      /\ namespaces'[d].locals = <<>> /\ ~namespaces'[d].inTest /\ namespaces'[d].subs
    OBVIOUS
  <2>1. Running
    BY <1>1
  <2>2. CASE d = Depth
    <3>1. namespaces'[d] = parent /\ namespaces[d] = Top
      BY <1>5, <1>10, <2>1, <2>2
    <3>2. parent.inTest = Top.inTest /\ parent.tested = Top.tested
      BY <2>1 DEF parent
    <3> QED BY <1>4, <1>6, <2>1, <3>1, <3>2
  <2>3. CASE d # Depth
    <3>1. d \in 1..(Depth - 1)
      BY <1>1, <2>3
    <3>2. namespaces'[d] = namespaces[d]
      BY <1>10, <2>3
    <3> QED BY <1>1, <3>1, <3>2 DEF PhasesOK
  <2> QED BY <2>2, <2>3
<1>13. \A e \in log : /\ e.time \in Nat /\ e.depth \in Nat \ {0} /\ EntryOK(e)
                      /\ e.scope # "global" => e.depth \in 1..Depth /\ e.depth # Depth + 1
  <2> SUFFICES ASSUME NEW e \in log
               PROVE  /\ e.time \in Nat /\ e.depth \in Nat \ {0} /\ EntryOK(e)
                      /\ e.scope # "global" => e.depth \in 1..Depth /\ e.depth # Depth + 1
    OBVIOUS
  <2>1. e.time \in Nat /\ e.depth \in Nat \ {0} /\ EntryOK(e)
    BY <1>1, LogType DEF LogOK
  <2>2. e.scope # "global" => e.depth <= Depth
    BY <2>1 DEF EntryOK
  <2> QED BY <1>1, <2>1, <2>2
<1>14. TypeOK'
  <2>1. /\ global' \in Values /\ writes' \in Values /\ tests' \in 0..MaxTests
        /\ deferred' \subseteq 1..MaxWrites /\ forgotten' \in BOOLEAN /\ globalPrev' \in 0..tests'
    BY <1>1, <1>4, <1>7 DEF TypeOK
  <2>2. suites' \in 0..MaxSuites
    BY <1>1, <1>4, VariableAssumption DEF TypeOK
  <2>3. Depth' <= MaxDepth
    BY <1>1, <1>4, <1>10, VariableAssumption
  <2>4. log' \subseteq EntryRecord
    <3>1. CASE log' = log
      BY <1>1, <3>1 DEF TypeOK
    <3>2. CASE /\ value = writes' /\ writes' = writes + 1 /\ writes < MaxWrites
               /\ log' = log \cup {[scope |-> "suite", depth |-> Depth + 1, level |-> 0,
                                    value |-> value, time |-> value]}
      <4>1. value \in 1..MaxWrites
        BY <1>7, <3>2, VariableAssumption
      <4>2. Depth + 1 \in 1..(MaxDepth + 1) /\ 0 \in 0..MaxKeywords
        BY <1>1, <1>4, VariableAssumption
      <4>3. [scope |-> "suite", depth |-> Depth + 1, level |-> 0,
             value |-> value, time |-> value] \in EntryRecord
        BY <4>1, <4>2 DEF EntryRecord
      <4> QED BY <1>1, <3>2, <4>3 DEF TypeOK
    <3> QED BY <1>3, <3>1, <3>2
  <2>5. ASSUME NEW d \in 1..Depth'
        PROVE  /\ namespaces'[d].prev <= tests'
               /\ namespaces'[d].inTest => namespaces'[d].tested /\ ~namespaces'[d].subs
               /\ Len(namespaces'[d].locals) <= MaxKeywords
    <3>1. CASE d \in 1..Depth
      BY <1>1, <1>4, <1>12, <3>1 DEF TypeOK
    <3>2. CASE d = Depth'
      <4>1. globalPrev <= tests /\ 0 <= MaxKeywords /\ Len(<<>>) = 0
        BY <1>1, VariableAssumption, EmptySeq DEF TypeOK
      <4> QED BY <1>4, <1>8, <1>10, <3>2, <4>1
    <3> QED BY <1>11, <3>1, <3>2
  <2> QED BY <1>10, <2>1, <2>2, <2>3, <2>4, <2>5 DEF TypeOK
<1>15. Running => /\ deferred = {}
                  /\ \A e \in log : e.depth = Depth => e.scope # "local" /\ e.scope # "test"
  BY <1>4, <1>5, NothingRuns
<1>16. LogOK'
  <2>1. ASSUME NEW e \in log PROVE EntryOK(e)'
    <3>1. e.time <= writes'
      BY <1>7, <1>13 DEF EntryOK
    <3>2. CASE e.scope = "global"
      BY <3>1, <3>2 DEF EntryOK
    <3>3. CASE e.scope # "global"
      <4>1. e.depth \in 1..Depth /\ e.depth <= Depth'
        BY <1>1, <1>10, <1>13, <3>3
      <4>2. CASE e.depth = Depth
        BY <1>1, <1>15, <3>1, <4>1, <4>2 DEF EntryOK
      <4>3. CASE e.depth # Depth
        <5>1. namespaces'[e.depth] = namespaces[e.depth]
          BY <1>10, <4>1, <4>3
        <5> QED BY <1>13, <3>1, <4>1, <5>1 DEF EntryOK
      <4> QED BY <4>2, <4>3
    <3> QED BY <3>2, <3>3
  <2>2. CASE log' = log
    BY <1>1, <2>1, <2>2 DEF LogOK
  <2>3. CASE /\ value = writes' /\ writes' = writes + 1
             /\ log' = log \cup {[scope |-> "suite", depth |-> Depth + 1, level |-> 0,
                                  value |-> value, time |-> value]}
    <3>1. PICK n : n = [scope |-> "suite", depth |-> Depth + 1, level |-> 0,
                        value |-> value, time |-> value]
      OBVIOUS
    <3>2. log' = log \cup {n} /\ n.scope = "suite" /\ n.depth = Depth + 1 /\ n.time = writes'
      BY <2>3, <3>1
    <3>3. EntryOK(n)'
      BY <1>7, <1>10, <3>2 DEF EntryOK
    <3>4. \A e \in log : e.time # n.time
      BY <1>7, <1>13, <2>3, <3>2 DEF EntryOK
    <3>5. \A e, f \in log' : e.time = f.time => e = f
      BY <1>1, <3>2, <3>4 DEF LogOK
    <3>6. \A e \in log' : EntryOK(e)'
      BY <2>1, <3>2, <3>3
    <3> QED BY <3>5, <3>6 DEF LogOK
  <2> QED BY <1>3, <2>2, <2>3
<1>17. DeferredOK'
  <2>1. deferred = {}
    BY <1>1, <1>15 DEF DeferredOK
  <2> QED BY <1>4, <2>1 DEF DeferredOK
<1>18. PhasesOK'
  <2>1. ASSUME NEW d \in 1..Depth' PROVE PhaseOK(namespaces[d])'
    <3>1. CASE d = Depth'
      BY <1>8, <1>10, <3>1 DEF PhaseOK
    <3>2. CASE d \in 1..Depth /\ d = Depth
      <4>1. namespaces'[d] = parent /\ Running
        BY <1>1, <1>10, <3>2
      <4> QED BY <1>6, <4>1 DEF PhaseOK
    <3>3. CASE d \in 1..Depth /\ d # Depth
      <4>1. namespaces'[d] = namespaces[d]
        BY <1>10, <3>3
      <4> QED BY <1>1, <3>3, <4>1 DEF PhaseOK, PhasesOK
    <3> QED BY <1>11, <3>1, <3>2, <3>3
  <2>2. ASSUME NEW d \in 1..(Depth' - 1)
        PROVE  (namespaces[d].locals = <<>> /\ ~namespaces[d].inTest /\ namespaces[d].subs)'
    <3>1. d \in 1..Depth
      BY <1>1, <1>10
    <3> QED BY <1>12, <3>1
  <2> QED BY <2>1, <2>2 DEF PhasesOK
<1>19. StoresOK'
  <2>1. /\ \A d \in 1..Depth : SuiteSees(d)' = SuiteSees(d)
        /\ GlobalEntries' = GlobalEntries
    <3>1. CASE log' = log
      BY <1>12, <3>1 DEF SuiteSees, GlobalEntries
    <3>2. CASE log' = log \cup {[scope |-> "suite", depth |-> Depth + 1, level |-> 0,
                                 value |-> value, time |-> value]}
      <4>1. PICK n : n = [scope |-> "suite", depth |-> Depth + 1, level |-> 0,
                          value |-> value, time |-> value]
        OBVIOUS
      <4>2. log' = log \cup {n} /\ n.scope = "suite" /\ n.depth = Depth + 1
        BY <3>2, <4>1
      <4>3. \A d \in 1..Depth : n.depth # d
        BY <1>1, <4>2
      <4> QED BY <1>12, <4>2, <4>3 DEF SuiteSees, GlobalEntries
    <3> QED BY <1>3, <3>1, <3>2
  <2>2. ASSUME NEW d \in 1..Depth PROVE StoreOK(d)'
    <3>1. HoldsLatest(namespaces'[d].suite, SuiteSees(d)')
      BY <1>1, <1>12, <2>1 DEF StoresOK, StoreOK
    <3>2. 1..Len(namespaces'[d].locals) = {} /\ ~namespaces'[d].inTest
      <4>1. namespaces'[d].locals = <<>> /\ ~namespaces'[d].inTest
        BY <1>12
      <4>2. Len(namespaces'[d].locals) = 0
        BY <4>1, EmptySeq
      <4> QED BY <4>1, <4>2
    <3> QED BY <3>1, <3>2 DEF StoreOK
  <2>3. ASSUME NEW d, d = Depth' PROVE StoreOK(d)'
    <3>0. d = Depth + 1 /\ namespaces'[d] = child
      BY <1>10, <2>3
    <3>1. HoldsLatest(value, SuiteSees(d)')
      <4>1. SuiteSees(d)' = {e \in log' : /\ e.scope = "global" \/ e.depth = Depth + 1
                                          /\ e.scope # "local"}
        BY <1>8, <3>0 DEF SuiteSees
      <4>2. {e \in log : (e.scope = "global" \/ e.depth = Depth + 1) /\ e.scope # "local"} = GlobalEntries
        BY <1>13 DEF GlobalEntries
      <4>3. CASE value = global /\ log' = log
        BY <1>1, <4>1, <4>2, <4>3 DEF StoresOK
      <4>4. CASE /\ value = writes' /\ writes' = writes + 1
                 /\ log' = log \cup {[scope |-> "suite", depth |-> Depth + 1, level |-> 0,
                                      value |-> value, time |-> value]}
        <5>1. PICK n : n = [scope |-> "suite", depth |-> Depth + 1, level |-> 0,
                            value |-> value, time |-> value]
          OBVIOUS
        <5>2. log' = log \cup {n} /\ n.scope = "suite" /\ n.depth = Depth + 1
              /\ n.time = writes' /\ n.value = value
          BY <4>4, <5>1
        <5>3. SuiteSees(d)' = GlobalEntries \cup {n}
          BY <4>1, <4>2, <5>2
        <5>4. n.time \in Nat /\ \A e \in GlobalEntries : e.time <= n.time
          <6>1. \A e \in log : e.time <= writes'
            BY <1>7, <1>13 DEF EntryOK
          <6> QED BY <1>7, <5>2, <6>1 DEF GlobalEntries
        <5>5. HoldsLatest(n.value, GlobalEntries \cup {n})
          BY <5>4, LatestAdded
        <5> QED BY <5>2, <5>3, <5>5
      <4> QED BY <1>3, <4>3, <4>4
    <3>2. 1..Len(child.locals) = {}
      BY <1>8, EmptySeq
    <3> QED BY <1>8, <3>0, <3>1, <3>2 DEF StoreOK
  <2>4. HoldsLatest(global', GlobalEntries')
    BY <1>1, <1>4, <2>1 DEF StoresOK
  <2>5. \A d \in 1..Depth' : StoreOK(d)'
    BY <1>11, <2>2, <2>3
  <2> QED BY <2>4, <2>5 DEF StoresOK
<1>20. PrevOK'
  BY <1>1, <1>4, <1>8, <1>10 DEF PrevOK
<1> QED BY <1>14, <1>16, <1>17, <1>18, <1>19, <1>20 DEF ScopesInvariant

-----------------------------------------------------------------------------
(* The theorem. *)

LEMMA NextKeepsInvariant == ScopesInvariant /\ [Next]_vars => ScopesInvariant'
<1> SUFFICES ASSUME ScopesInvariant, [Next]_vars PROVE ScopesInvariant'
  OBVIOUS
<1>1. CASE UNCHANGED vars
  <2>1. UNCHANGED <<global, globalPrev, namespaces, suites, tests, writes, log, deferred, forgotten>>
    BY <1>1 DEF vars, auxiliaryVars
  <2>2. TypeOK' /\ LogOK' /\ PhasesOK'
    BY <2>1 DEF ScopesInvariant, TypeOK, LogOK, EntryOK, PhasesOK, PhaseOK, Depth
  <2>3. StoresOK'
    <3>1. /\ \A d : SuiteSees(d)' = SuiteSees(d)
          /\ \A d, i : LevelSees(d, i)' = LevelSees(d, i)
          /\ GlobalEntries' = GlobalEntries /\ Depth' = Depth
      BY <2>1 DEF SuiteSees, LevelSees, GlobalEntries, Depth
    <3>2. ASSUME NEW d \in 1..Depth PROVE StoreOK(d)'
      <4>1. StoreOK(d)
        BY DEF ScopesInvariant, StoresOK
      <4> QED BY <2>1, <3>1, <4>1 DEF StoreOK
    <3> QED BY <2>1, <3>1, <3>2 DEF ScopesInvariant, StoresOK
  <2>4. DeferredOK' /\ PrevOK'
    BY <2>1 DEF ScopesInvariant, DeferredOK, PrevOK, Depth, Top, Running
  <2> QED BY <2>2, <2>3, <2>4 DEF ScopesInvariant
<1>2. CASE Next
  BY <1>2, StartSuiteKeeps, EndSuiteKeeps, StartTestKeeps, EndTestKeeps, StartTeardownKeeps,
     StartUserKeywordKeeps, EndUserKeywordKeeps, AssignKeeps, SetTestVariableKeeps,
     SetSuiteVariableKeeps, SetGlobalVariableKeeps, ImportVariablesKeeps, ImportResourceKeeps
     DEF Next
<1> QED BY <1>1, <1>2

\* In nested suites of any depth, with any number of tests, user keywords and
\* assignments by whichever keywords, a keyword sees the value assigned last of
\* those whose scope has not ended, and a test knows the test before it unless a
\* suite of suites has ended in between (running/namespace.py, _VariableScopes;
\* running/context.py).
THEOREM VariablesAreKnownHolds == Spec => []VariablesAreKnown
<1>1. Init => ScopesInvariant
  BY InitEstablishesInvariant
<1>2. ScopesInvariant /\ [Next]_vars => ScopesInvariant'
  BY NextKeepsInvariant
<1>3. ScopesInvariant => VariablesAreKnown
  BY InvariantImpliesVariablesAreKnown
<1> QED BY <1>1, <1>2, <1>3, PTL DEF Spec

=============================================================================
