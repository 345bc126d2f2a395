------------------------- MODULE LibraryScopeProofs -------------------------
(***************************************************************************)
(* Every scope has its own instance of a library and gets it back after    *)
(* the scopes inside it, for suites of any depth and any imports, also     *)
(* those made while keywords run, if no suite imports a library under two  *)
(* names and no dynamic library has a scope narrower than the run.         *)
(***************************************************************************)
EXTENDS LibraryScopes, FiniteSetTheorems, SequenceTheorems, TLAPS

-----------------------------------------------------------------------------
(* What the theorems are about *)

\* No suite has a library under two names: the objects would share the list
\* of instances put aside.
OneNamePerSuite ==
  \A s \in Suites : \A i, j \in Range(Imports[s]) \cup Runtime : i.lib = j.lib => i.name = j.name

\* A dynamic library always uses the instance its handlers were created with.
DynamicAreGlobal == \A l \in Dynamic : Scope[l] = "GLOBAL"

-----------------------------------------------------------------------------
(* The inductive invariant *)

IsGlobal(l) == Scope[l] = "GLOBAL"

FrameType == [suite: Suites, phase: Phases, pos: Nat, libs: SUBSET Objects]
UseType == [lib: Libraries, name: Names \cup {NoName},
            scope: [suite: Suites, test: Nat], instance: Nat \ {0}]

\* Only the innermost suite is in another phase than that of its sub suites.
FramesOK ==
  /\ \A n \in DOMAIN running :
       /\ running[n].suite \in started
       /\ n < Len(running) => running[n].phase = "suites"
       /\ running[n].phase \in {"imports", "tests", "starting", "test", "ending"} => running[n].pos > 0
  /\ \A n, m \in DOMAIN running : running[n].suite = running[m].suite => n = m
  /\ todo # {} => running # <<>> /\ Top.phase \in {"starting", "ending", "closing"} /\ todo \subseteq Top.libs

\* What a namespace has was imported.
ObjectsOK ==
  \A n \in DOMAIN running : \A o \in running[n].libs :
    /\ o.lib \in created
    /\ o.name # NoName => o.suite = running[n].suite
    /\ \E i \in Range(Imports[running[n].suite]) \cup Runtime : i.lib = o.lib /\ i.name = o.name

\* Global libraries have one instance for all.
GlobalsOK ==
  \A l \in Libraries : IsGlobal(l) =>
    /\ cache[l] = <<>>
    /\ \A n \in DOMAIN running : \A o \in running[n].libs : o.lib = l => instance[o] = bound[l]
    /\ l \in created => instance[[lib |-> l, name |-> NoName, suite |-> Root]] = bound[l]
    /\ \A u \in uses : u.lib = l =>
         u.instance = bound[l] /\ l \in created /\ u.scope = [suite |-> Root, test |-> 0]

\* A keyword was run where its library had been imported.
UsesOK ==
  /\ uses \subseteq UseType
  /\ \A u \in uses :
       /\ u.instance <= count
       /\ ~IsGlobal(u.lib) => u.scope.suite \in started
       /\ ~IsGlobal(u.lib) => \A n \in DOMAIN running : u.scope.suite = running[n].suite =>
            /\ \E o \in running[n].libs : o.lib = u.lib /\ o.name = u.name
            /\ running[n].phase \in {"imports", "setup", "suites"} => u.scope.test = 0
            /\ running[n].phase \in {"tests", "starting"} => u.scope.test < running[n].pos
            /\ running[n].phase \in {"test", "ending"} => u.scope.test <= running[n].pos

\* Every instance there is, in use or put aside, was used.
InstancesUsed ==
  /\ \A o \in Objects : ~IsGlobal(o.lib) /\ instance[o] # NoInstance =>
       \E u \in uses : u.lib = o.lib /\ u.instance = instance[o]
  /\ \A l \in Libraries : ~IsGlobal(l) => \A k \in 1 .. Len(cache[l]) : cache[l][k] # NoInstance =>
       \E u \in uses : u.lib = l /\ u.instance = cache[l][k]

\* The suites that have a library, as pairs of a place in running and an object,
\* and the test that has.
Held == {x \in (DOMAIN running) \X Objects : x[2] \in HeldBySuite(x[1])}
Tested == {x \in (DOMAIN running) \X Objects : x[2] \in HeldByTest(x[1]) /\ Scope[x[2].lib] = "TESTCASE"}
Of(X, l) == {x \in X : x[2].lib = l}

\* How many of the suites up to the n-th are in H: where the n-th put an instance.
Depth(H, n) == Cardinality({h \in H : h[1] <= n})

\* v is the instance of o in a scope: all keywords there used it, and no others.
IsInstance(us, v, o, scope) ==
  \A u \in us : u.lib = o.lib =>
    /\ u.name = o.name /\ u.scope = scope => u.instance = v
    /\ u.instance = v => u.scope = scope

SuiteScope(run, n) == [suite |-> run[n].suite, test |-> 0]
TestScope(run, n) == [suite |-> run[n].suite, test |-> run[n].pos]

\* The next and the last suite of H that has the same object as h.
Follows(H, h, g) ==
  /\ g[2] = h[2] /\ h[1] < g[1]
  /\ \A f \in H : f[2] = h[2] => f[1] <= h[1] \/ g[1] <= f[1]
IsLast(H, h) == \A g \in H : g[2] = h[2] => g[1] <= h[1]

\* The instance of a suite is where the next suite that has the object, or the
\* test, put it aside, or else it is in use.
InstancesKept(run, H, T, c, inst, us) ==
  \A h \in H :
    /\ \A g \in H : Follows(H, h, g) => IsInstance(us, c[Depth(H, g[1])], h[2], SuiteScope(run, h[1]))
    /\ IsLast(H, h) /\ h \notin T => IsInstance(us, inst[h[2]], h[2], SuiteScope(run, h[1]))
    /\ IsLast(H, h) /\ h \in T => /\ IsInstance(us, c[Len(c)], h[2], SuiteScope(run, h[1]))
                                  /\ IsInstance(us, inst[h[2]], h[2], TestScope(run, h[1]))

\* One instance is put aside for every scope that is open.
ScopesOK ==
  \A l \in Libraries : ~IsGlobal(l) =>
    /\ IsFiniteSet(Of(Held, l)) /\ IsFiniteSet(Of(Tested, l))
    /\ Len(cache[l]) = Cardinality(Of(Held, l)) + Cardinality(Of(Tested, l))
    /\ InstancesKept(running, Of(Held, l), Of(Tested, l), cache[l], instance, uses)

LibraryBookkeeping ==
  /\ TypeOK /\ FramesOK /\ ObjectsOK /\ GlobalsOK /\ UsesOK /\ InstancesUsed /\ ScopesOK
  /\ OneInstancePerScope /\ NoInstanceInTwoScopes

-----------------------------------------------------------------------------
(* Places in a list of instances *)

\* Pairs of which no two are of the same suite.
Places == {H \in SUBSET (Nat \X Objects) : \A g, h \in H : g[1] = h[1] => g = h}

LEMMA DepthFacts ==
  ASSUME NEW H \in SUBSET (Nat \X Objects), IsFiniteSet(H)
  PROVE  /\ Cardinality(H) \in Nat
         /\ \A n \in Nat : Depth(H, n) \in 0 .. Cardinality(H)
         /\ \A h \in H : Depth(H, h[1]) > 0
         /\ \A h \in H : \A n \in Nat : n < h[1] => Depth(H, n) < Cardinality(H)
         /\ \A n \in Nat : (\A h \in H : h[1] <= n) => Depth(H, n) = Cardinality(H)
<1> DEFINE U(n) == {h \in H : h[1] <= n}
<1>1. Cardinality(H) \in Nat
  BY FS_CardinalityType
<1>2. \A n \in Nat : IsFiniteSet(U(n)) /\ Cardinality(U(n)) <= Cardinality(H)
                     /\ (Cardinality(H) = Cardinality(U(n)) => H = U(n))
  BY FS_Subset
<1>3. \A n \in Nat : Cardinality(U(n)) \in Nat
  BY <1>2, FS_CardinalityType
<1>4. \A n \in Nat : Depth(H, n) = Cardinality(U(n))
  BY DEF Depth
<1>5. \A h \in H : h[1] \in Nat
  OBVIOUS
<1>6. ASSUME NEW h \in H PROVE Depth(H, h[1]) > 0
  <2>1. h \in U(h[1])
    BY <1>5
  <2>2. Cardinality(U(h[1])) # 0
    BY <1>2, <1>5, <2>1, FS_EmptySet
  <2> HIDE DEF U
  <2> QED BY <1>3, <1>4, <1>5, <2>2
<1>7. ASSUME NEW h \in H, NEW n \in Nat, n < h[1] PROVE Depth(H, n) < Cardinality(H)
  <2>1. h \notin U(n)
    BY <1>5, <1>7
  <2>2. Cardinality(H) # Cardinality(U(n))
    BY <1>2, <2>1
  <2> HIDE DEF U
  <2> QED BY <1>1, <1>2, <1>3, <1>4, <2>2
<1>8. \A n \in Nat : (\A h \in H : h[1] <= n) => H = U(n)
  OBVIOUS
<1> HIDE DEF U
<1>9. \A n \in Nat : Depth(H, n) \in 0 .. Cardinality(H)
  BY <1>1, <1>2, <1>3, <1>4
<1> QED BY <1>1, <1>4, <1>6, <1>7, <1>8, <1>9

\* A pair that comes after all others.
LEMMA DepthOfNew ==
  ASSUME NEW H \in SUBSET (Nat \X Objects), IsFiniteSet(H),
         NEW k \in Nat, NEW o \in Objects, \A h \in H : h[1] < k
  PROVE  /\ IsFiniteSet(H \cup {<<k, o>>})
         /\ Cardinality(H \cup {<<k, o>>}) = Cardinality(H) + 1
         /\ Depth(H \cup {<<k, o>>}, k) = Cardinality(H) + 1
         /\ \A n \in Nat : n < k => Depth(H \cup {<<k, o>>}, n) = Depth(H, n)
<1> DEFINE x == <<k, o>>
           G == H \cup {x}
<1>1. x \notin H /\ x[1] = k
  OBVIOUS
<1>2. IsFiniteSet(G) /\ Cardinality(G) = Cardinality(H) + 1
  BY <1>1, FS_AddElement
<1>3. G \in SUBSET (Nat \X Objects)
  OBVIOUS
<1>4. \A h \in G : h[1] <= k
  BY <1>1
<1>5. Depth(G, k) = Cardinality(G)
  <2> HIDE DEF G
  <2> QED BY <1>2, <1>3, <1>4, DepthFacts
<1>6. ASSUME NEW n \in Nat, n < k PROVE Depth(G, n) = Depth(H, n)
  <2>1. ~ (x[1] <= n)
    BY <1>1, <1>6
  <2>2. {h \in G : h[1] <= n} = {h \in H : h[1] <= n}
    BY <2>1
  <2> QED BY <2>2 DEF Depth
<1> QED BY <1>2, <1>5, <1>6

LEMMA PlacesFacts ==
  ASSUME NEW H \in Places
  PROVE  /\ H \in SUBSET (Nat \X Objects)
         /\ \A h \in H : h[1] \in Nat /\ h[2] \in Objects /\ h = <<h[1], h[2]>>
         /\ \A g, h \in H : g[1] = h[1] => g = h
BY DEF Places

-----------------------------------------------------------------------------
(* What hooks do to the instances that are kept *)

\* Only what the pairs of H are about matters.
LEMMA SameIsKept ==
  ASSUME NEW run, NEW run2, NEW H \in Places, NEW T \in SUBSET H,
         NEW c, NEW inst, NEW inst2, NEW us, NEW us2,
         InstancesKept(run, H, T, c, inst, us),
         \A h \in H : run2[h[1]].suite = run[h[1]].suite /\ inst2[h[2]] = inst[h[2]],
         \A h \in T : run2[h[1]].pos = run[h[1]].pos,
         \A h \in H : \A u \in us2 \ us : u.lib # h[2].lib
  PROVE  InstancesKept(run2, H, T, c, inst2, us2)
<1>1. \A h \in H : \A v, scope : IsInstance(us, v, h[2], scope) => IsInstance(us2, v, h[2], scope)
  BY DEF IsInstance
<1>2. \A h \in H : SuiteScope(run2, h[1]) = SuiteScope(run, h[1])
  BY DEF SuiteScope
<1>3. \A h \in T : TestScope(run2, h[1]) = TestScope(run, h[1])
  BY DEF TestScope
<1>4. ASSUME NEW h \in H
      PROVE  /\ \A g \in H : Follows(H, h, g) => IsInstance(us2, c[Depth(H, g[1])], h[2], SuiteScope(run2, h[1]))
             /\ IsLast(H, h) /\ h \notin T => IsInstance(us2, inst2[h[2]], h[2], SuiteScope(run2, h[1]))
             /\ IsLast(H, h) /\ h \in T => /\ IsInstance(us2, c[Len(c)], h[2], SuiteScope(run2, h[1]))
                                           /\ IsInstance(us2, inst2[h[2]], h[2], TestScope(run2, h[1]))
  BY <1>1, <1>2, <1>3 DEF InstancesKept
<1> QED BY <1>4 DEF InstancesKept

\* A suite, the innermost, imports the library.
LEMMA PushSuiteKeeps ==
  ASSUME NEW run, NEW H \in Places, IsFiniteSet(H), NEW k \in Nat, NEW o \in Objects,
         \A h \in H : h[1] < k,
         NEW c \in Seq(Nat), Len(c) = Cardinality(H),
         NEW inst, NEW inst2, NEW us,
         InstancesKept(run, H, {}, c, inst, us),
         \A h \in H : h[2] # o => inst2[h[2]] = inst[h[2]],
         IsInstance(us, inst2[o], o, SuiteScope(run, k))
  PROVE  InstancesKept(run, H \cup {<<k, o>>}, {}, Append(c, inst[o]), inst2, us)
<1> DEFINE x == <<k, o>>
           G == H \cup {x}
           d == Append(c, inst[o])
<1>0. x[1] = k /\ x[2] = o /\ x \in G /\ \A h \in G : h \in H \/ h = x
  OBVIOUS
<1>a. H \in SUBSET (Nat \X Objects)
  BY PlacesFacts
<1>1. /\ Cardinality(G) = Cardinality(H) + 1 /\ Depth(G, k) = Cardinality(H) + 1
      /\ \A n \in Nat : n < k => Depth(G, n) = Depth(H, n)
  BY <1>a, DepthOfNew
<1>2. \A h \in H : h[1] \in Nat /\ h[1] < k
  BY PlacesFacts
<1>3. \A h \in H : Depth(H, h[1]) \in 1 .. Len(c)
  BY <1>2, DepthFacts, PlacesFacts
<1>4. d[Len(c) + 1] = inst[o] /\ \A i \in 1 .. Len(c) : d[i] = c[i]
  OBVIOUS
<1> HIDE DEF x, G, d
<1>5. ASSUME NEW h \in G, NEW g \in G, Follows(G, h, g)
      PROVE  IsInstance(us, d[Depth(G, g[1])], h[2], SuiteScope(run, h[1]))
  <2>1. g[2] = h[2] /\ h[1] < g[1] /\ \A f \in G : f[2] = h[2] => f[1] <= h[1] \/ g[1] <= f[1]
    BY <1>5 DEF Follows
  <2>2. h # x /\ h \in H
    BY <1>0, <1>2, <2>1
  <2>3. CASE g = x
    <3>1. \A f \in H : f[2] = h[2] => f[1] <= h[1]
      BY <1>0, <1>2, <2>1, <2>3 DEF G
    <3>2. IsLast(H, h)
      BY <3>1 DEF IsLast
    <3>3. IsInstance(us, inst[h[2]], h[2], SuiteScope(run, h[1]))
      BY <2>2, <3>2 DEF InstancesKept
    <3>4. d[Depth(G, g[1])] = inst[h[2]]
      BY <1>0, <1>1, <1>4, <2>1, <2>3
    <3> QED BY <3>3, <3>4
  <2>4. CASE g # x
    <3>1. g \in H
      BY <1>0, <2>4
    <3>2. Follows(H, h, g)
      BY <2>1 DEF Follows, G
    <3>3. IsInstance(us, c[Depth(H, g[1])], h[2], SuiteScope(run, h[1]))
      BY <2>2, <3>1, <3>2 DEF InstancesKept
    <3>4. d[Depth(G, g[1])] = c[Depth(H, g[1])]
      BY <1>1, <1>2, <1>3, <1>4, <3>1
    <3> QED BY <3>3, <3>4
  <2> QED BY <2>3, <2>4
<1>6. ASSUME NEW h \in G, IsLast(G, h)
      PROVE  IsInstance(us, inst2[h[2]], h[2], SuiteScope(run, h[1]))
  <2>1. CASE h = x
    BY <1>0, <2>1
  <2>2. CASE h # x
    <3>1. h \in H /\ h[2] # o
      BY <1>0, <1>2, <1>6, <2>2 DEF IsLast
    <3>2. IsLast(H, h)
      BY <1>6 DEF IsLast, G
    <3>3. IsInstance(us, inst[h[2]], h[2], SuiteScope(run, h[1]))
      BY <3>1, <3>2 DEF InstancesKept
    <3> QED BY <3>1, <3>3
  <2> QED BY <2>1, <2>2
<1>7. InstancesKept(run, G, {}, d, inst2, us)
  BY <1>5, <1>6 DEF InstancesKept
<1> QED BY <1>7 DEF G, x, d

\* A test starts in the suite, which is the innermost.
LEMMA PushTestKeeps ==
  ASSUME NEW run, NEW H \in Places, IsFiniteSet(H), NEW x \in H,
         \A h \in H : h[1] <= x[1],
         NEW c \in Seq(Nat), Len(c) = Cardinality(H),
         NEW inst, NEW inst2, NEW us,
         InstancesKept(run, H, {}, c, inst, us),
         \A h \in H : h[2] # x[2] => inst2[h[2]] = inst[h[2]],
         IsInstance(us, inst2[x[2]], x[2], TestScope(run, x[1]))
  PROVE  InstancesKept(run, H, {x}, Append(c, inst[x[2]]), inst2, us)
<1> DEFINE d == Append(c, inst[x[2]])
<1>1. \A h \in H : h[1] \in Nat
  BY PlacesFacts
<1>2. \A h \in H : Depth(H, h[1]) \in 1 .. Len(c)
  BY <1>1, DepthFacts, PlacesFacts
<1>3. d[Len(d)] = inst[x[2]] /\ \A i \in 1 .. Len(c) : d[i] = c[i]
  OBVIOUS
<1>4. IsLast(H, x)
  BY DEF IsLast
<1>5. \A h \in H : IsLast(H, h) /\ h # x => h[2] # x[2]
  <2> SUFFICES ASSUME NEW h \in H, IsLast(H, h), h[2] = x[2] PROVE h = x
    OBVIOUS
  <2>1. x[1] <= h[1] /\ h[1] <= x[1]
    BY DEF IsLast
  <2>2. x[1] = h[1]
    BY <1>1, <2>1
  <2> QED BY <2>2, PlacesFacts
<1> HIDE DEF d
<1>6. ASSUME NEW h \in H, NEW g \in H, Follows(H, h, g)
      PROVE  IsInstance(us, d[Depth(H, g[1])], h[2], SuiteScope(run, h[1]))
  <2>1. IsInstance(us, c[Depth(H, g[1])], h[2], SuiteScope(run, h[1]))
    BY <1>6 DEF InstancesKept
  <2> QED BY <1>2, <1>3, <2>1
<1>7. ASSUME NEW h \in H, IsLast(H, h), h # x
      PROVE  IsInstance(us, inst2[h[2]], h[2], SuiteScope(run, h[1]))
  <2>1. IsInstance(us, inst[h[2]], h[2], SuiteScope(run, h[1]))
    BY <1>7 DEF InstancesKept
  <2> QED BY <1>5, <1>7, <2>1
<1>8. IsInstance(us, d[Len(d)], x[2], SuiteScope(run, x[1]))
  <2>1. IsInstance(us, inst[x[2]], x[2], SuiteScope(run, x[1]))
    BY <1>4 DEF InstancesKept
  <2> QED BY <1>3, <2>1
<1>9. InstancesKept(run, H, {x}, d, inst2, us)
  BY <1>6, <1>7, <1>8 DEF InstancesKept
<1> QED BY <1>9 DEF d

\* A test ends in the suite.
LEMMA PopTestKeeps ==
  ASSUME NEW run, NEW H \in Places, IsFiniteSet(H), NEW x \in H,
         \A h \in H : h[1] <= x[1],
         NEW c \in Seq(Nat), Len(c) = Cardinality(H) + 1,
         NEW inst, NEW inst2, NEW us,
         InstancesKept(run, H, {x}, c, inst, us),
         \A h \in H : h[2] # x[2] => inst2[h[2]] = inst[h[2]],
         inst2[x[2]] = c[Len(c)],
         NEW d, \A i \in 1 .. Len(c) - 1 : d[i] = c[i]
  PROVE  InstancesKept(run, H, {}, d, inst2, us)
<1>1. \A h \in H : h[1] \in Nat
  BY PlacesFacts
<1>2. \A h \in H : Depth(H, h[1]) \in 1 .. Len(c) - 1
  BY <1>1, DepthFacts, PlacesFacts
<1>4. IsLast(H, x)
  BY DEF IsLast
<1>5. \A h \in H : IsLast(H, h) /\ h # x => h[2] # x[2]
  <2> SUFFICES ASSUME NEW h \in H, IsLast(H, h), h[2] = x[2] PROVE h = x
    OBVIOUS
  <2>1. x[1] <= h[1] /\ h[1] <= x[1]
    BY DEF IsLast
  <2>2. x[1] = h[1]
    BY <1>1, <2>1
  <2> QED BY <2>2, PlacesFacts
<1>6. ASSUME NEW h \in H, NEW g \in H, Follows(H, h, g)
      PROVE  IsInstance(us, d[Depth(H, g[1])], h[2], SuiteScope(run, h[1]))
  <2>1. IsInstance(us, c[Depth(H, g[1])], h[2], SuiteScope(run, h[1]))
    BY <1>6 DEF InstancesKept
  <2> QED BY <1>2, <2>1
<1>7. ASSUME NEW h \in H, IsLast(H, h), h # x
      PROVE  IsInstance(us, inst2[h[2]], h[2], SuiteScope(run, h[1]))
  <2>1. IsInstance(us, inst[h[2]], h[2], SuiteScope(run, h[1]))
    BY <1>7 DEF InstancesKept
  <2> QED BY <1>5, <1>7, <2>1
<1>8. IsInstance(us, inst2[x[2]], x[2], SuiteScope(run, x[1]))
  <2>1. IsInstance(us, c[Len(c)], x[2], SuiteScope(run, x[1]))
    BY <1>4 DEF InstancesKept
  <2> QED BY <2>1
<1> QED BY <1>6, <1>7, <1>8 DEF InstancesKept

\* The suite ends.
LEMMA PopSuiteKeeps ==
  ASSUME NEW run, NEW H \in Places, IsFiniteSet(H), NEW x \in H,
         \A h \in H : h[1] <= x[1],
         NEW c \in Seq(Nat), Len(c) = Cardinality(H),
         NEW inst, NEW inst2, NEW us,
         InstancesKept(run, H, {}, c, inst, us),
         \A h \in H : h[2] # x[2] => inst2[h[2]] = inst[h[2]],
         inst2[x[2]] = c[Len(c)],
         NEW d, \A i \in 1 .. Len(c) - 1 : d[i] = c[i]
  PROVE  InstancesKept(run, H \ {x}, {}, d, inst2, us)
<1> DEFINE G == H \ {x}
<1>0. G \in SUBSET (Nat \X Objects) /\ \A h \in H : h \in G <=> h # x
  BY PlacesFacts
<1>1. \A h \in H : h[1] \in Nat
  BY PlacesFacts
<1>2. \A h \in G : h[1] < x[1]
  <2> SUFFICES ASSUME NEW h \in G PROVE h[1] # x[1]
    BY <1>1
  <2> QED BY PlacesFacts
<1>3. \A h \in G : Depth(H, h[1]) \in 1 .. Len(c) - 1
  <2> SUFFICES ASSUME NEW h \in G PROVE Depth(H, h[1]) \in 1 .. Len(c) - 1
    OBVIOUS
  <2>1. /\ Cardinality(H) \in Nat /\ Depth(H, h[1]) \in 0 .. Cardinality(H)
        /\ Depth(H, h[1]) > 0 /\ Depth(H, h[1]) < Cardinality(H)
    BY <1>1, <1>2, DepthFacts, PlacesFacts
  <2> QED BY <2>1
<1>4. \A h \in G : Depth(G, h[1]) = Depth(H, h[1])
  <2> SUFFICES ASSUME NEW h \in G PROVE {f \in G : f[1] <= h[1]} = {f \in H : f[1] <= h[1]}
    BY DEF Depth
  <2>1. ~ (x[1] <= h[1])
    BY <1>1, <1>2
  <2> QED BY <2>1
<1>5. Depth(H, x[1]) = Len(c)
  BY <1>1, DepthFacts, PlacesFacts
<1>6. ASSUME NEW h \in G, NEW g \in G, Follows(G, h, g)
      PROVE  IsInstance(us, d[Depth(G, g[1])], h[2], SuiteScope(run, h[1]))
  <2>1. g[1] <= x[1]
    OBVIOUS
  <2>2. Follows(H, h, g)
    BY <1>6, <2>1, <1>0 DEF Follows
  <2>3. IsInstance(us, c[Depth(H, g[1])], h[2], SuiteScope(run, h[1]))
    BY <2>2 DEF InstancesKept
  <2>4. Depth(G, g[1]) = Depth(H, g[1]) /\ Depth(H, g[1]) \in 1 .. Len(c) - 1
    BY <1>3, <1>4
  <2>5. d[Depth(G, g[1])] = c[Depth(H, g[1])]
    BY <2>4
  <2> QED BY <2>3, <2>5
<1>7. ASSUME NEW h \in G, IsLast(G, h)
      PROVE  IsInstance(us, inst2[h[2]], h[2], SuiteScope(run, h[1]))
  <2>1. CASE h[2] = x[2]
    <3>1. \A f \in G : f[2] = h[2] => f[1] <= h[1]
      BY <1>7 DEF IsLast
    <3>2. \A f \in H : f[2] = h[2] => f[1] <= h[1] \/ x[1] <= f[1]
      <4> TAKE f \in H
      <4>1. CASE f = x
        BY <1>1, <4>1
      <4>2. CASE f # x
        BY <1>0, <3>1, <4>2
      <4> QED BY <4>1, <4>2
    <3>3. Follows(H, h, x)
      BY <1>2, <2>1, <3>2 DEF Follows
    <3>4. IsInstance(us, c[Depth(H, x[1])], h[2], SuiteScope(run, h[1]))
      BY <3>3 DEF InstancesKept
    <3> QED BY <1>5, <2>1, <3>4
  <2>2. CASE h[2] # x[2]
    <3>1. IsLast(H, h)
      BY <1>0, <1>7, <2>2 DEF IsLast
    <3>2. IsInstance(us, inst[h[2]], h[2], SuiteScope(run, h[1]))
      BY <3>1 DEF InstancesKept
    <3> QED BY <2>2, <3>2
  <2> QED BY <2>1, <2>2
<1> QED BY <1>6, <1>7 DEF InstancesKept

\* A keyword of the library is run in the innermost suite: it uses the instance of
\* that scope or, if there is none, an instance that nobody has used.
LEMMA UseKeeps ==
  ASSUME NEW run, NEW H \in Places, IsFiniteSet(H), NEW x \in H, NEW T \in SUBSET {x},
         \A h \in H : h[1] <= x[1] /\ h[2].lib = x[2].lib,
         \A h \in H : h # x => run[h[1]].suite # run[x[1]].suite,
         x \in T => run[x[1]].pos # 0,
         NEW c \in Seq(Nat), Len(c) = Cardinality(H) + Cardinality(T),
         NEW inst, NEW inst2, NEW us, NEW w,
         InstancesKept(run, H, T, c, inst, us),
         w.lib = x[2].lib, w.name = x[2].name,
         w.scope = IF x \in T THEN TestScope(run, x[1]) ELSE SuiteScope(run, x[1]),
         IsInstance(us, w.instance, x[2], w.scope),
         \/ \E u \in us : u.lib = x[2].lib /\ u.instance = w.instance
         \/ /\ \A h \in H : inst[h[2]] # w.instance
            /\ \A i \in 1 .. Len(c) : c[i] # w.instance,
         \A h \in H : h[2] # x[2] => inst2[h[2]] = inst[h[2]],
         inst2[x[2]] = w.instance
  PROVE  InstancesKept(run, H, T, c, inst2, us \cup {w})
<1> DEFINE ws == us \cup {w}
<1>1. \A h \in H : h[1] \in Nat
  BY PlacesFacts
<1>2. IsLast(H, x)
  BY DEF IsLast
<1>3. \A h \in H : IsLast(H, h) /\ h # x => h[2] # x[2] /\ h \notin T
  <2> SUFFICES ASSUME NEW h \in H, IsLast(H, h), h[2] = x[2] PROVE h = x
    OBVIOUS
  <2>1. x[1] <= h[1] /\ h[1] <= x[1]
    BY DEF IsLast
  <2>2. x[1] = h[1]
    BY <1>1, <2>1
  <2> QED BY <2>2, PlacesFacts
<1>4. IsFiniteSet(T) /\ Cardinality(T) \in Nat
  <2>1. IsFiniteSet({x})
    BY FS_Singleton
  <2> QED BY <2>1, FS_Subset, FS_CardinalityType
<1>5. \A h \in H : Depth(H, h[1]) \in 1 .. Len(c)
  BY <1>1, <1>4, DepthFacts, PlacesFacts
\* The other scopes have other instances.
<1>6. ASSUME NEW v, NEW o, NEW scope, IsInstance(us, v, o, scope), o.lib = x[2].lib,
             (\E h \in H : v = inst[h[2]]) \/ (\E i \in 1 .. Len(c) : v = c[i]),
             scope # w.scope
      PROVE  IsInstance(ws, v, o, scope)
  <2>1. w.instance # v
    <3> SUFFICES ASSUME NEW u \in us, u.lib = x[2].lib, u.instance = w.instance, w.instance = v
                 PROVE  FALSE
      BY <1>6
    <3>1. u.scope = w.scope
      BY DEF IsInstance
    <3>2. u.scope = scope
      BY <1>6 DEF IsInstance
    <3> QED BY <1>6, <3>1, <3>2
  <2> QED BY <1>6, <2>1 DEF IsInstance
<1>7. IsInstance(ws, w.instance, x[2], w.scope)
  BY DEF IsInstance
<1>8. \A h \in H : h # x => SuiteScope(run, h[1]) # w.scope
  <2> SUFFICES ASSUME NEW h \in H, h # x PROVE SuiteScope(run, h[1]).suite # w.scope.suite
    OBVIOUS
  <2> QED BY DEF SuiteScope, TestScope
<1>9. x \in T => SuiteScope(run, x[1]) # w.scope
  <2> SUFFICES ASSUME x \in T PROVE SuiteScope(run, x[1]).test # w.scope.test
    OBVIOUS
  <2> QED BY DEF SuiteScope, TestScope
<1>10. ASSUME NEW h \in H, NEW g \in H, Follows(H, h, g)
       PROVE  IsInstance(ws, c[Depth(H, g[1])], h[2], SuiteScope(run, h[1]))
  <2>1. IsInstance(us, c[Depth(H, g[1])], h[2], SuiteScope(run, h[1]))
    BY <1>10 DEF InstancesKept
  <2>2. h[1] < g[1] /\ g[1] <= x[1]
    BY <1>10 DEF Follows
  <2>3. h # x
    BY <1>1, <2>2
  <2> HIDE DEF ws
  <2> QED BY <1>5, <1>6, <1>8, <2>1, <2>3
<1>11. ASSUME NEW h \in H, IsLast(H, h), h \notin T
       PROVE  IsInstance(ws, inst2[h[2]], h[2], SuiteScope(run, h[1]))
  <2> HIDE DEF ws
  <2>1. CASE h = x
    BY <1>7, <1>11, <2>1
  <2>2. CASE h # x
    <3>1. IsInstance(us, inst[h[2]], h[2], SuiteScope(run, h[1]))
      BY <1>11 DEF InstancesKept
    <3>2. h[2] # x[2] /\ inst2[h[2]] = inst[h[2]]
      BY <1>3, <1>11, <2>2
    <3> QED BY <1>6, <1>8, <2>2, <3>1, <3>2
  <2> QED BY <2>1, <2>2
<1>12. ASSUME x \in T
       PROVE  /\ IsInstance(ws, c[Len(c)], x[2], SuiteScope(run, x[1]))
              /\ IsInstance(ws, inst2[x[2]], x[2], TestScope(run, x[1]))
  <2>1. IsInstance(us, c[Len(c)], x[2], SuiteScope(run, x[1]))
    BY <1>2, <1>12 DEF InstancesKept
  <2>2. Depth(H, x[1]) \in 1 .. Len(c)
    BY <1>5
  <2>3. Len(c) \in 1 .. Len(c)
    BY <2>2
  <2> HIDE DEF ws
  <2>4. IsInstance(ws, c[Len(c)], x[2], SuiteScope(run, x[1]))
    BY <1>6, <1>9, <1>12, <2>1, <2>3
  <2> QED BY <1>7, <1>12, <2>4
<1> HIDE DEF ws
<1>13. \A h \in H : IsLast(H, h) /\ h \in T => h = x
  BY <1>3
<1>14. InstancesKept(run, H, T, c, inst2, ws)
  BY <1>10, <1>11, <1>12, <1>13 DEF InstancesKept
<1> QED BY <1>14 DEF ws

-----------------------------------------------------------------------------
(* Suites and the objects they have *)

LEMMA ProceedFacts ==
  ASSUME NEW S, NEW seq \in Seq(S), seq # <<>>, NEW x \in S
  PROVE  /\ Append(Front(seq), x) \in Seq(S) /\ Append(Front(seq), x) # <<>>
         /\ Len(Append(Front(seq), x)) = Len(seq) /\ Append(Front(seq), x)[Len(seq)] = x
         /\ \A i \in 1 .. Len(seq) - 1 : Append(Front(seq), x)[i] = seq[i]
<1>1. Len(seq) \in Nat \ {0}
  BY LenProperties, EmptySeq
<1>2. Front(seq) \in Seq(S) /\ Len(Front(seq)) = Len(seq) - 1
      /\ \A i \in 1 .. Len(seq) - 1 : Front(seq)[i] = seq[i]
  BY <1>1 DEF Front
<1> DEFINE f == Front(seq)
<1>3. /\ Append(f, x) \in Seq(S) /\ Len(Append(f, x)) = Len(f) + 1 /\ Append(f, x)[Len(f) + 1] = x
      /\ \A i \in 1 .. Len(f) : Append(f, x)[i] = f[i]
  BY <1>2, AppendProperties
<1> HIDE DEF f
<1>4. Len(Append(f, x)) # 0 /\ Len(Append(f, x)) = Len(seq) /\ Append(f, x)[Len(seq)] = x
      /\ \A i \in 1 .. Len(seq) - 1 : Append(f, x)[i] = seq[i]
  BY <1>1, <1>2, <1>3 DEF f
<1>5. Append(f, x) # <<>>
  BY <1>3, <1>4, EmptySeq
<1> QED BY <1>3, <1>4, <1>5 DEF f

LEMMA FrameFacts ==
  ASSUME TypeOK, running # <<>>
  PROVE  /\ running \in Seq(FrameType) /\ Len(running) \in Nat \ {0} /\ DOMAIN running = 1 .. Len(running)
         /\ \A n \in 1 .. Len(running) : running[n] \in FrameType
         /\ Top = running[Len(running)] /\ Top \in FrameType
<1>1. running \in Seq(FrameType)
  BY DEF TypeOK, FrameType
<1>2. Len(running) \in Nat \ {0} /\ DOMAIN running = 1 .. Len(running)
      /\ \A n \in 1 .. Len(running) : running[n] \in FrameType
  BY <1>1, LenProperties, EmptySeq, ElementOfSeq
<1>3. Len(running) \in 1 .. Len(running)
  BY <1>2
<1> QED BY <1>1, <1>2, <1>3 DEF Top

LEMMA FrameTypes ==
  ASSUME TypeOK, NEW n \in DOMAIN running
  PROVE  running[n] \in FrameType /\ running[n].suite \in Suites /\ running[n].pos \in Nat
         /\ running[n].libs \in SUBSET Objects
<1>1. running # <<>>
  OBVIOUS
<1>2. running[n] \in FrameType
  BY <1>1, FrameFacts
<1> QED BY <1>2 DEF FrameType

LEMMA ObjectFacts ==
  ASSUME NEW o \in Objects
  PROVE  /\ o.lib \in Libraries /\ o.name \in Names \cup {NoName} /\ o.suite \in Suites
         /\ o = [lib |-> o.lib, name |-> o.name, suite |-> o.suite]
         /\ o.name = NoName <=> o = [lib |-> o.lib, name |-> NoName, suite |-> Root]
BY LibraryAssumption DEF Objects

\* No suite has two objects of a library.
LEMMA OneObject ==
  ASSUME TypeOK, ObjectsOK, OneNamePerSuite, NEW n \in DOMAIN running,
         NEW p \in running[n].libs, NEW q \in running[n].libs, p.lib = q.lib
  PROVE  p = q
<1>1. running # <<>>
  BY DEF TypeOK
<1>2. running[n] \in FrameType
  BY <1>1, FrameFacts
<1>3. p \in Objects /\ q \in Objects /\ running[n].suite \in Suites
  BY <1>2 DEF FrameType
<1>4. p.name = q.name
  BY <1>3 DEF ObjectsOK, OneNamePerSuite
<1>5. CASE p.name = NoName
  BY <1>3, <1>4, <1>5, ObjectFacts
<1>6. CASE p.name # NoName
  <2>1. p.suite = running[n].suite /\ q.suite = running[n].suite
    BY <1>4, <1>6 DEF ObjectsOK
  <2> QED BY <1>3, <1>4, <2>1, ObjectFacts
<1> QED BY <1>5, <1>6

LEMMA HeldFacts ==
  ASSUME TypeOK, FramesOK, ObjectsOK, OneNamePerSuite, NEW l \in Libraries
  PROVE  /\ Of(Held, l) \in Places
         /\ Of(Tested, l) \subseteq Of(Held, l)
         /\ \A h \in Of(Held, l) : /\ h[1] \in 1 .. Len(running) /\ h[2] \in Objects /\ h = <<h[1], h[2]>>
                                   /\ h[2] \in running[h[1]].libs /\ h[2].lib = l
         /\ \A h \in Of(Tested, l) : h[1] = Len(running) /\ Top.phase \in {"starting", "test", "ending"}
<1>1. DOMAIN running = 1 .. Len(running) /\ Len(running) \in Nat
  BY LenProperties DEF TypeOK
<1>2. ASSUME NEW h \in Of(Held, l)
      PROVE  /\ h[1] \in 1 .. Len(running) /\ h[2] \in Objects /\ h = <<h[1], h[2]>>
             /\ h[2] \in HeldBySuite(h[1]) /\ h[2].lib = l
  BY <1>1 DEF Of, Held
<1>3. ASSUME NEW h \in Of(Held, l) PROVE h[2] \in running[h[1]].libs
  <2>1. CASE running[h[1]].phase # "closing"
    BY <1>2, <2>1 DEF HeldBySuite
  <2>2. CASE running[h[1]].phase = "closing"
    <3>1. h[1] = Len(running)
      BY <1>1, <1>2, <2>2 DEF FramesOK
    <3> QED BY <1>2, <2>2, <3>1 DEF HeldBySuite, FramesOK, Top
  <2> QED BY <2>1, <2>2
<1>4. ASSUME NEW g \in Of(Held, l), NEW h \in Of(Held, l), g[1] = h[1] PROVE g = h
  <2>1. g[2] = h[2]
    BY <1>1, <1>2, <1>3, <1>4, OneObject
  <2> QED BY <1>2, <1>4, <2>1
<1>5. Of(Held, l) \in SUBSET (Nat \X Objects)
  <2> SUFFICES ASSUME NEW h \in Of(Held, l) PROVE h \in Nat \X Objects
    OBVIOUS
  <2> QED BY <1>2
<1>6. ASSUME NEW h \in Of(Tested, l)
      PROVE  /\ h[1] = Len(running) /\ Top.phase \in {"starting", "test", "ending"}
             /\ h \in Of(Held, l)
  <2>1. h[1] \in 1 .. Len(running) /\ h[2] \in Objects /\ h[2] \in HeldByTest(h[1]) /\ h[2].lib = l
        /\ h = <<h[1], h[2]>>
    BY <1>1 DEF Of, Tested
  <2>2. running[h[1]].phase \in {"starting", "test", "ending"}
    BY <2>1 DEF HeldByTest, InTest
  <2>3. h[1] = Len(running)
    BY <1>1, <2>1, <2>2 DEF FramesOK
  <2>4. h[2] \in running[h[1]].libs
    BY <2>1, <2>3 DEF HeldByTest, FramesOK, Top
  <2>5. h[2] \in HeldBySuite(h[1])
    BY <2>2, <2>4 DEF HeldBySuite
  <2> QED BY <1>1, <2>1, <2>2, <2>3, <2>5 DEF Of, Held, Top
<1>7. Of(Held, l) \in Places
  BY <1>4, <1>5 DEF Places
<1> QED BY <1>2, <1>3, <1>6, <1>7

-----------------------------------------------------------------------------
(* The beginning *)

LEMMA InitBookkeeping ==
  ASSUME Init
  PROVE  LibraryBookkeeping
<1> USE DEF Init
<1>1. TypeOK
  <2>1. running \in Seq([suite: Suites, phase: Phases, pos: Nat, libs: SUBSET Objects])
    OBVIOUS
  <2>2. instance \in [Objects -> 0 .. count] /\ bound \in [Libraries -> 0 .. count] /\ count \in Nat
    BY DEF NoInstance
  <2>3. cache \in [Libraries -> Seq(0 .. count)]
    <3>1. <<>> \in Seq(0 .. count)
      OBVIOUS
    <3> QED BY <3>1
  <2>4. created = {l \in Libraries : bound[l] # NoInstance}
    OBVIOUS
  <2> QED BY <2>1, <2>2, <2>3, <2>4 DEF TypeOK
<1>2. running = <<>> /\ DOMAIN running = {}
  OBVIOUS
<1>3. FramesOK /\ ObjectsOK /\ GlobalsOK /\ UsesOK /\ InstancesUsed
  BY <1>2 DEF FramesOK, ObjectsOK, GlobalsOK, UsesOK, InstancesUsed
<1>4. Held = {} /\ Tested = {}
  BY <1>2 DEF Held, Tested
<1>5. ScopesOK
  <2> SUFFICES ASSUME NEW l \in Libraries
               PROVE  /\ IsFiniteSet({}) /\ Len(cache[l]) = Cardinality({}) + Cardinality({})
                      /\ InstancesKept(running, {}, {}, cache[l], instance, uses)
    BY <1>4 DEF ScopesOK, Of
  <2>1. IsFiniteSet({}) /\ Cardinality({}) = 0
    BY FS_EmptySet
  <2>2. cache[l] = <<>>
    OBVIOUS
  <2> QED BY <2>1, <2>2 DEF InstancesKept
<1>6. OneInstancePerScope /\ NoInstanceInTwoScopes
  BY DEF OneInstancePerScope, NoInstanceInTwoScopes
<1> QED BY <1>1, <1>3, <1>5, <1>6 DEF LibraryBookkeeping

-----------------------------------------------------------------------------
(* Steps between the hooks *)

LEMMA MoveKeeps ==
  ASSUME LibraryBookkeeping, OneNamePerSuite, UNCHANGED <<libState, uses>>,
         Held' = Held, Tested' = Tested,
         \A h \in Held : running'[h[1]].suite = running[h[1]].suite,
         \A h \in Tested : running'[h[1]].pos = running[h[1]].pos
  PROVE  ScopesOK' /\ InstancesUsed' /\ OneInstancePerScope' /\ NoInstanceInTwoScopes'
<1> USE DEF libState
<1>1. ScopesOK'
  <2> SUFFICES ASSUME NEW l \in Libraries, ~IsGlobal(l)
               PROVE  /\ IsFiniteSet(Of(Held, l)) /\ IsFiniteSet(Of(Tested, l))
                      /\ Len(cache[l]) = Cardinality(Of(Held, l)) + Cardinality(Of(Tested, l))
                      /\ InstancesKept(running', Of(Held, l), Of(Tested, l), cache[l], instance, uses)
    BY DEF ScopesOK, Of, IsGlobal
  <2>1. /\ IsFiniteSet(Of(Held, l)) /\ IsFiniteSet(Of(Tested, l))
        /\ Len(cache[l]) = Cardinality(Of(Held, l)) + Cardinality(Of(Tested, l))
        /\ InstancesKept(running, Of(Held, l), Of(Tested, l), cache[l], instance, uses)
    BY DEF LibraryBookkeeping, ScopesOK
  <2>2. Of(Held, l) \in Places /\ Of(Tested, l) \in SUBSET Of(Held, l)
    BY HeldFacts DEF LibraryBookkeeping
  <2>3. Of(Held, l) \subseteq Held /\ Of(Tested, l) \subseteq Tested
    BY DEF Of
  <2>4. /\ \A h \in Of(Held, l) : running'[h[1]].suite = running[h[1]].suite /\ instance[h[2]] = instance[h[2]]
        /\ \A h \in Of(Tested, l) : running'[h[1]].pos = running[h[1]].pos
        /\ \A h \in Of(Held, l) : \A u \in uses \ uses : u.lib # h[2].lib
    BY <2>3
  <2>5. InstancesKept(running', Of(Held, l), Of(Tested, l), cache[l], instance, uses)
    BY <2>1, <2>2, <2>4, SameIsKept
  <2> QED BY <2>1, <2>5
<1>2. InstancesUsed'
  BY DEF LibraryBookkeeping, InstancesUsed, IsGlobal
<1>3. OneInstancePerScope' /\ NoInstanceInTwoScopes'
  BY DEF LibraryBookkeeping, OneInstancePerScope, NoInstanceInTwoScopes
<1> QED BY <1>1, <1>2, <1>3

LEMMA EnterFacts ==
  ASSUME TypeOK, running # <<>>, NEW phase \in Phases, NEW pos \in Nat, Enter(phase, pos)
  PROVE  /\ running' \in Seq(FrameType) /\ Len(running') = Len(running) /\ running' # <<>>
         /\ DOMAIN running' = 1 .. Len(running)
         /\ Top' = running'[Len(running)]
         /\ running'[Len(running)].suite = Top.suite /\ running'[Len(running)].libs = Top.libs
         /\ running'[Len(running)].phase = phase /\ running'[Len(running)].pos = pos
         /\ \A n \in 1 .. Len(running) - 1 : running'[n] = running[n]
<1> DEFINE x == [Top EXCEPT !.phase = phase, !.pos = pos]
<1>1. x \in FrameType /\ x.suite = Top.suite /\ x.libs = Top.libs /\ x.phase = phase /\ x.pos = pos
  BY FrameFacts DEF FrameType
<1>2. running' = Append(Front(running), x)
  BY DEF Enter, Proceed
<1> HIDE DEF x
<1>a. running \in Seq(FrameType)
  BY FrameFacts
<1>3. /\ running' \in Seq(FrameType) /\ running' # <<>> /\ Len(running') = Len(running)
      /\ running'[Len(running)] = x
      /\ \A i \in 1 .. Len(running) - 1 : running'[i] = running[i]
  BY <1>a, <1>1, <1>2, ProceedFacts
<1>4. DOMAIN running' = 1 .. Len(running) /\ Top' = running'[Len(running)]
  BY <1>3, LenProperties DEF Top
<1> QED BY <1>1, <1>3, <1>4

\* The suite goes on, and the libraries have been told as much as before.
LEMMA EnterKeeps ==
  ASSUME LibraryBookkeeping, OneNamePerSuite, UNCHANGED <<started, libState, uses>>,
         running # <<>>, NEW k, k = Len(running), NEW phase \in Phases, NEW pos \in Nat, Enter(phase, pos),
         Top.phase # "closing",
         todo' \subseteq Top.libs, todo' # {} => phase \in {"starting", "ending", "closing"},
         phase = "closing" => todo' = Top.libs,
         HeldByTest(k)' = HeldByTest(k),
         HeldByTest(k) # {} => pos = Top.pos,
         phase \in {"imports", "tests", "starting", "test", "ending"} => pos > 0,
         \A u \in uses : ~IsGlobal(u.lib) /\ u.scope.suite = Top.suite =>
           /\ phase \in {"imports", "setup", "suites"} => u.scope.test = 0
           /\ phase \in {"tests", "starting"} => u.scope.test < pos
           /\ phase \in {"test", "ending"} => u.scope.test <= pos
  PROVE  LibraryBookkeeping'
<1> USE DEF libState
<1>1. TypeOK /\ FramesOK /\ ObjectsOK /\ GlobalsOK /\ UsesOK
  BY DEF LibraryBookkeeping
<1>2. /\ k \in Nat \ {0} /\ DOMAIN running = 1 .. k /\ Top = running[k] /\ Top.libs \subseteq Objects
      /\ \A n \in 1 .. k : running[n] \in FrameType
  BY <1>1, FrameFacts DEF FrameType
<1>3. /\ running' \in Seq(FrameType) /\ Len(running') = k /\ running' # <<>>
      /\ DOMAIN running' = 1 .. k /\ Top' = running'[k]
      /\ running'[k].suite = Top.suite /\ running'[k].libs = Top.libs
      /\ running'[k].phase = phase /\ running'[k].pos = pos
      /\ \A n \in 1 .. k - 1 : running'[n] = running[n]
  BY <1>1, EnterFacts
<1>4. \A n \in 1 .. k : n \in 1 .. k - 1 \/ n = k
  BY <1>2
<1>5. \A n \in 1 .. k : running'[n].suite = running[n].suite /\ running'[n].libs = running[n].libs
  BY <1>2, <1>3, <1>4
<1>6. TypeOK'
  <2>1. todo' \subseteq Objects
    BY <1>2
  <2> QED BY <1>1, <1>3, <2>1 DEF TypeOK, FrameType
<1>7. FramesOK'
  <2>1. ASSUME NEW n \in DOMAIN running'
        PROVE  /\ running'[n].suite \in started' /\ (n < Len(running') => running'[n].phase = "suites")
               /\ running'[n].phase \in {"imports", "tests", "starting", "test", "ending"} => running'[n].pos > 0
    <3>1. CASE n = k
      BY <1>1, <1>2, <1>3, <3>1 DEF FramesOK
    <3>2. CASE n \in 1 .. k - 1
      <4>1. n \in DOMAIN running /\ n < Len(running) /\ running'[n] = running[n]
        BY <1>2, <1>3, <3>2
      <4> QED BY <1>1, <4>1 DEF FramesOK
    <3> QED BY <1>3, <1>4, <3>1, <3>2
  <2>2. \A n, m \in DOMAIN running' : running'[n].suite = running'[m].suite => n = m
    BY <1>1, <1>2, <1>3, <1>5 DEF FramesOK
  <2>3. todo' # {} => running' # <<>> /\ Top'.phase \in {"starting", "ending", "closing"} /\ todo' \subseteq Top'.libs
    BY <1>3
  <2> QED BY <2>1, <2>2, <2>3 DEF FramesOK
<1>8. ObjectsOK' /\ GlobalsOK'
  <2>1. ObjectsOK'
    BY <1>1, <1>2, <1>3, <1>5 DEF ObjectsOK
  <2>2. GlobalsOK'
    BY <1>1, <1>2, <1>3, <1>5 DEF GlobalsOK, IsGlobal
  <2> QED BY <2>1, <2>2
<1>9. UsesOK'
  <2> SUFFICES ASSUME NEW u \in uses, ~IsGlobal(u.lib), NEW n \in 1 .. k, u.scope.suite = running'[n].suite
               PROVE  /\ \E o \in running'[n].libs : o.lib = u.lib /\ o.name = u.name
                      /\ running'[n].phase \in {"imports", "setup", "suites"} => u.scope.test = 0
                      /\ running'[n].phase \in {"tests", "starting"} => u.scope.test < running'[n].pos
                      /\ running'[n].phase \in {"test", "ending"} => u.scope.test <= running'[n].pos
    BY <1>1, <1>3 DEF UsesOK, IsGlobal
  <2>1. \E o \in running'[n].libs : o.lib = u.lib /\ o.name = u.name
    BY <1>1, <1>2, <1>5 DEF UsesOK
  <2>2. CASE n = k
    BY <1>3, <2>1, <2>2
  <2>3. CASE n \in 1 .. k - 1
    <3>1. running'[n] = running[n] /\ n \in DOMAIN running
      BY <1>2, <1>3, <2>3
    <3> QED BY <1>1, <2>1, <3>1 DEF UsesOK
  <2> QED BY <1>4, <2>2, <2>3
<1>10. \A n \in 1 .. k : HeldBySuite(n)' = HeldBySuite(n) /\ HeldByTest(n)' = HeldByTest(n)
  <2> TAKE n \in 1 .. k
  <2>1. CASE n = k
    <3>1. HeldBySuite(n)' = Top.libs
      BY <1>3, <2>1 DEF HeldBySuite
    <3>2. HeldBySuite(n) = Top.libs
      BY <1>2, <2>1 DEF HeldBySuite
    <3> QED BY <2>1, <3>1, <3>2
  <2>2. CASE n \in 1 .. k - 1
    <3>1. running'[n] = running[n] /\ running[n].phase = "suites"
      BY <1>1, <1>2, <1>3, <2>2 DEF FramesOK
    <3> QED BY <3>1 DEF HeldBySuite, HeldByTest, InTest
  <2> QED BY <1>4, <2>1, <2>2
<1>11. Held' = Held /\ Tested' = Tested
  BY <1>2, <1>3, <1>10 DEF Held, Tested
<1>12. \A h \in Held : running'[h[1]].suite = running[h[1]].suite
  BY <1>2, <1>5 DEF Held
<1>13. \A h \in Tested : running'[h[1]].pos = running[h[1]].pos
  <2> SUFFICES ASSUME NEW h \in Tested PROVE running'[h[1]].pos = running[h[1]].pos
    OBVIOUS
  <2>1. h[1] \in 1 .. k /\ h[2] \in HeldByTest(h[1])
    BY <1>2 DEF Tested
  <2>2. CASE h[1] = k
    BY <1>2, <1>3, <2>1, <2>2
  <2>3. CASE h[1] \in 1 .. k - 1
    BY <1>3, <2>3
  <2> QED BY <1>4, <2>1, <2>2, <2>3
<1>14. ScopesOK' /\ InstancesUsed' /\ OneInstancePerScope' /\ NoInstanceInTwoScopes'
  BY <1>11, <1>12, <1>13, MoveKeeps
<1> QED BY <1>6, <1>7, <1>8, <1>9, <1>14 DEF LibraryBookkeeping

LEMMA NextPhaseKeeps ==
  ASSUME LibraryBookkeeping, OneNamePerSuite, NextPhase
  PROVE  LibraryBookkeeping'
<1>1. TypeOK /\ FramesOK /\ UsesOK /\ running # <<>> /\ todo' = todo /\ UNCHANGED <<started, libState, uses>>
  BY DEF LibraryBookkeeping, NextPhase, In
<1>2. PICK k : k = Len(running)
  OBVIOUS
<1>3. /\ k \in Nat \ {0} /\ k \in 1 .. k /\ DOMAIN running = 1 .. k /\ Top = running[k] /\ Top \in FrameType
      /\ Top.pos \in Nat
  BY <1>1, <1>2, FrameFacts DEF FrameType
<1>4. /\ todo # {} => Top.phase \in {"starting", "ending", "closing"}
      /\ Top.phase \in {"imports", "tests", "starting", "test", "ending"} => Top.pos > 0
  BY <1>1, <1>3 DEF FramesOK
<1>5. \A u \in uses : ~IsGlobal(u.lib) /\ u.scope.suite = Top.suite =>
           /\ u.scope.test \in Nat
           /\ Top.phase \in {"imports", "setup", "suites"} => u.scope.test = 0
           /\ Top.phase \in {"tests", "starting"} => u.scope.test < Top.pos
           /\ Top.phase \in {"test", "ending"} => u.scope.test <= Top.pos
  BY <1>1, <1>3 DEF UsesOK, UseType
<1>6. \A phase \in Phases, pos \in Nat : Enter(phase, pos) =>
        Top'.phase = phase /\ Top'.pos = pos /\ Top'.libs = Top.libs /\ running'[k] = Top'
  BY <1>1, <1>2, EnterFacts
<1>7. CASE In("imports") /\ Enter("setup", 0)
  <2>1. Top.phase = "imports" /\ todo = {} /\ "setup" \in Phases /\ 0 \in Nat
    BY <1>4, <1>7 DEF In, Phases
  <2>2. HeldByTest(k) = {} /\ HeldByTest(k)' = {}
    BY <1>3, <1>6, <1>7, <2>1 DEF HeldByTest, InTest
  <2>3. \A u \in uses : ~IsGlobal(u.lib) /\ u.scope.suite = Top.suite => u.scope.test = 0
    BY <1>5, <2>1
  <2>4. todo' \subseteq Top.libs /\ todo' = {} /\ Top.phase # "closing" /\ Enter("setup", 0)
    BY <1>1, <1>7, <2>1
  <2> QED BY <1>1, <1>2, <2>1, <2>2, <2>3, <2>4, EnterKeeps
<1>8. CASE In("setup") /\ Enter("suites", 1)
  <2>1. Top.phase = "setup" /\ todo = {} /\ "suites" \in Phases /\ 1 \in Nat
    BY <1>4, <1>8 DEF In, Phases
  <2>2. HeldByTest(k) = {} /\ HeldByTest(k)' = {}
    BY <1>3, <1>6, <1>8, <2>1 DEF HeldByTest, InTest
  <2> QED BY <1>1, <1>2, <1>5, <1>8, <2>1, <2>2, EnterKeeps
<1>9. CASE In("suites") /\ Enter("tests", 1)
  <2>1. Top.phase = "suites" /\ todo = {} /\ "tests" \in Phases /\ 1 \in Nat
    BY <1>4, <1>9 DEF In, Phases
  <2>2. HeldByTest(k) = {} /\ HeldByTest(k)' = {}
    BY <1>3, <1>6, <1>9, <2>1 DEF HeldByTest, InTest
  <2>3. \A u \in uses : ~IsGlobal(u.lib) /\ u.scope.suite = Top.suite => u.scope.test < 1
    BY <1>5, <2>1
  <2>4. todo' \subseteq Top.libs /\ todo' = {} /\ Top.phase # "closing" /\ Enter("tests", 1) /\ 1 > 0
    BY <1>1, <1>9, <2>1
  <2> QED BY <1>1, <1>2, <2>1, <2>2, <2>3, <2>4, EnterKeeps
<1>10. CASE In("tests") /\ Enter("teardown", Top.pos)
  <2>1. Top.phase = "tests" /\ todo = {} /\ "teardown" \in Phases
    BY <1>4, <1>10 DEF In, Phases
  <2>2. HeldByTest(k) = {} /\ HeldByTest(k)' = {}
    BY <1>3, <1>6, <1>10, <2>1 DEF HeldByTest, InTest
  <2> QED BY <1>1, <1>2, <1>3, <1>5, <1>10, <2>1, <2>2, EnterKeeps
<1>11. CASE In("starting") /\ todo = {} /\ Enter("test", Top.pos)
  <2>1. Top.phase = "starting" /\ todo = {} /\ "test" \in Phases
    BY <1>11 DEF In, Phases
  <2>2. HeldByTest(k) = Top.libs /\ HeldByTest(k)' = Top.libs
    BY <1>3, <1>6, <1>11, <2>1 DEF HeldByTest, InTest
  <2>3. \A u \in uses : ~IsGlobal(u.lib) /\ u.scope.suite = Top.suite => u.scope.test <= Top.pos
    BY <1>3, <1>5, <2>1
  <2> QED BY <1>1, <1>2, <1>3, <1>4, <1>11, <2>1, <2>2, <2>3, EnterKeeps
<1>12. CASE In("ending") /\ todo = {} /\ Enter("tests", Top.pos + 1)
  <2>1. Top.phase = "ending" /\ todo = {} /\ "tests" \in Phases /\ Top.pos + 1 \in Nat /\ Top.pos + 1 > 0
    BY <1>3, <1>12 DEF In, Phases
  <2>2. HeldByTest(k) = {} /\ HeldByTest(k)' = {}
    BY <1>1, <1>3, <1>6, <1>12, <2>1 DEF HeldByTest, InTest
  <2>3. \A u \in uses : ~IsGlobal(u.lib) /\ u.scope.suite = Top.suite => u.scope.test < Top.pos + 1
    BY <1>3, <1>5, <2>1
  <2> QED BY <1>1, <1>2, <1>12, <2>1, <2>2, <2>3, EnterKeeps
<1> QED BY <1>7, <1>8, <1>9, <1>10, <1>11, <1>12 DEF NextPhase

LEMMA CallHooksKeeps ==
  ASSUME LibraryBookkeeping, OneNamePerSuite, CallHooks
  PROVE  LibraryBookkeeping'
<1>1. TypeOK /\ FramesOK /\ UsesOK /\ running # <<>> /\ todo' = Top.libs /\ UNCHANGED <<started, libState, uses>>
  BY DEF LibraryBookkeeping, CallHooks, StartTest, EndTest, EndSuite, In
<1>2. PICK k : k = Len(running)
  OBVIOUS
<1>3. /\ k \in Nat \ {0} /\ k \in 1 .. k /\ DOMAIN running = 1 .. k /\ Top = running[k] /\ Top \in FrameType
      /\ Top.pos \in Nat
  BY <1>1, <1>2, FrameFacts DEF FrameType
<1>4. Top.phase \in {"imports", "tests", "starting", "test", "ending"} => Top.pos > 0
  BY <1>1, <1>3 DEF FramesOK
<1>5. \A u \in uses : ~IsGlobal(u.lib) /\ u.scope.suite = Top.suite =>
           /\ Top.phase \in {"tests", "starting"} => u.scope.test < Top.pos
           /\ Top.phase \in {"test", "ending"} => u.scope.test <= Top.pos
  BY <1>1, <1>3 DEF UsesOK, UseType
<1>6. \A phase \in Phases, pos \in Nat : Enter(phase, pos) =>
        Top'.phase = phase /\ Top'.pos = pos /\ Top'.libs = Top.libs /\ running'[k] = Top'
  BY <1>1, <1>2, EnterFacts
<1>7. CASE StartTest
  <2>1. Top.phase = "tests" /\ "starting" \in Phases /\ Enter("starting", Top.pos)
    BY <1>7 DEF StartTest, In, Phases
  <2>2. HeldByTest(k) = {} /\ HeldByTest(k)' = {}
    BY <1>1, <1>3, <1>6, <2>1 DEF HeldByTest, InTest
  <2> QED BY <1>1, <1>2, <1>3, <1>4, <1>5, <2>1, <2>2, EnterKeeps
<1>8. CASE EndTest
  <2>1. Top.phase = "test" /\ "ending" \in Phases /\ Enter("ending", Top.pos)
    BY <1>8 DEF EndTest, In, Phases
  <2>2. HeldByTest(k) = Top.libs /\ HeldByTest(k)' = Top.libs
    BY <1>1, <1>3, <1>6, <2>1 DEF HeldByTest, InTest
  <2> QED BY <1>1, <1>2, <1>3, <1>4, <1>5, <2>1, <2>2, EnterKeeps
<1>9. CASE EndSuite
  <2>1. Top.phase = "teardown" /\ "closing" \in Phases /\ Enter("closing", Top.pos)
    BY <1>9 DEF EndSuite, In, Phases
  <2>2. HeldByTest(k) = {} /\ HeldByTest(k)' = {}
    BY <1>1, <1>3, <1>6, <2>1 DEF HeldByTest, InTest
  <2> QED BY <1>1, <1>2, <1>3, <2>1, <2>2, EnterKeeps
<1> QED BY <1>7, <1>8, <1>9 DEF CallHooks

LEMMA StartSuiteFacts ==
  ASSUME TypeOK, NEW s \in Suites, StartSuite(s), NEW k, k = Len(running)
  PROVE  /\ k \in Nat /\ DOMAIN running = 1 .. k /\ (k > 0 => running # <<>> /\ Top = running[k])
         /\ running' \in Seq(FrameType) /\ Len(running') = k + 1 /\ DOMAIN running' = 1 .. k + 1
         /\ running' # <<>> /\ Top' = running'[k + 1]
         /\ running'[k + 1] = [suite |-> s, phase |-> "imports", pos |-> 1, libs |-> {}]
         /\ \A n \in 1 .. k : /\ running'[n].suite = running[n].suite /\ running'[n].libs = running[n].libs
                              /\ running'[n].phase = running[n].phase
<1> DEFINE x == [Top EXCEPT !.pos = @ + 1]
           y == [suite |-> s, phase |-> "imports", pos |-> 1, libs |-> {}]
           b == IF running = <<>> THEN <<>> ELSE Append(Front(running), x)
<1>1. running \in Seq(FrameType) /\ k \in Nat /\ DOMAIN running = 1 .. k
  BY LenProperties DEF TypeOK, FrameType
<1>2. y \in FrameType
  BY DEF FrameType, Phases
<1>3. running' = Append(b, y)
  BY DEF StartSuite
<1>4. /\ b \in Seq(FrameType) /\ Len(b) = k /\ (k > 0 => running # <<>> /\ Top = running[k])
      /\ \A n \in 1 .. k : b[n].suite = running[n].suite /\ b[n].libs = running[n].libs
                           /\ b[n].phase = running[n].phase
  <2>1. CASE running = <<>>
    BY <2>1
  <2>2. CASE running # <<>>
    <3>1. Top \in FrameType /\ Top = running[k] /\ k \in Nat \ {0}
      BY <2>2, FrameFacts
    <3>2. x \in FrameType /\ x.suite = Top.suite /\ x.libs = Top.libs /\ x.phase = Top.phase
      BY <3>1 DEF FrameType
    <3> HIDE DEF x
    <3>3. /\ b \in Seq(FrameType) /\ Len(b) = k /\ b[k] = x
          /\ \A i \in 1 .. k - 1 : b[i] = running[i]
      BY <1>1, <2>2, <3>2, ProceedFacts
    <3>4. \A n \in 1 .. k : n \in 1 .. k - 1 \/ n = k
      BY <3>1
    <3> HIDE DEF b
    <3> QED BY <2>2, <3>1, <3>2, <3>3, <3>4
  <2> QED BY <2>1, <2>2
<1> HIDE DEF b, y
<1>5. /\ Append(b, y) \in Seq(FrameType) /\ Len(Append(b, y)) = k + 1 /\ Append(b, y)[k + 1] = y
      /\ \A i \in 1 .. k : Append(b, y)[i] = b[i]
  BY <1>2, <1>4, AppendProperties
<1>6. running' # <<>>
  <2>1. k + 1 # 0
    BY <1>1
  <2> QED BY <1>3, <1>5, <2>1, EmptySeq
<1>7. DOMAIN running' = 1 .. k + 1 /\ Top' = running'[k + 1]
  BY <1>3, <1>5, LenProperties DEF Top
<1> QED BY <1>1, <1>3, <1>4, <1>5, <1>6, <1>7 DEF y

LEMMA StartSuiteKeeps ==
  ASSUME LibraryBookkeeping, OneNamePerSuite, NEW s \in Suites, StartSuite(s)
  PROVE  LibraryBookkeeping'
<1> USE DEF libState
<1>1. TypeOK /\ FramesOK /\ ObjectsOK /\ GlobalsOK /\ UsesOK
  BY DEF LibraryBookkeeping
<1>2. /\ UNCHANGED <<todo, libState, uses>> /\ started' = started \cup {s} /\ s \notin started
      /\ running # <<>> => Top.phase = "suites"
  BY DEF StartSuite
<1>3. PICK k : k = Len(running)
  OBVIOUS
<1>4. /\ k \in Nat /\ DOMAIN running = 1 .. k /\ (k > 0 => running # <<>> /\ Top = running[k])
      /\ running' \in Seq(FrameType) /\ Len(running') = k + 1 /\ DOMAIN running' = 1 .. k + 1
      /\ running' # <<>> /\ Top' = running'[k + 1]
      /\ running'[k + 1] = [suite |-> s, phase |-> "imports", pos |-> 1, libs |-> {}]
      /\ \A n \in 1 .. k : /\ running'[n].suite = running[n].suite /\ running'[n].libs = running[n].libs
                           /\ running'[n].phase = running[n].phase
  BY <1>1, <1>3, StartSuiteFacts
<1>5. \A n \in 1 .. k + 1 : n \in 1 .. k \/ n = k + 1
  BY <1>4
<1>6. \A n \in 1 .. k : running[n].phase = "suites"
  BY <1>1, <1>2, <1>3, <1>4 DEF FramesOK
<1>7. todo = {}
  BY <1>1, <1>2 DEF FramesOK
<1>8. TypeOK'
  BY <1>1, <1>2, <1>4 DEF TypeOK, FrameType
<1>9. FramesOK'
  <2>1. ASSUME NEW n \in 1 .. k + 1
        PROVE  /\ running'[n].suite \in started' /\ (n < k + 1 => running'[n].phase = "suites")
               /\ running'[n].phase \in {"imports", "tests", "starting", "test", "ending"} => running'[n].pos > 0
    <3>1. CASE n = k + 1
      BY <1>2, <1>4, <3>1
    <3>2. CASE n \in 1 .. k
      BY <1>1, <1>2, <1>4, <1>6, <3>2 DEF FramesOK
    <3> QED BY <1>5, <3>1, <3>2
  <2>2. ASSUME NEW n \in 1 .. k + 1, NEW m \in 1 .. k + 1, running'[n].suite = running'[m].suite PROVE n = m
    <3>1. running'[k + 1].suite = s /\ \A i \in 1 .. k : running'[i].suite # s
      BY <1>1, <1>2, <1>4 DEF FramesOK
    <3>2. CASE n = k + 1 \/ m = k + 1
      BY <1>5, <2>2, <3>1, <3>2
    <3>3. CASE n \in 1 .. k /\ m \in 1 .. k
      BY <1>1, <1>4, <2>2, <3>3 DEF FramesOK
    <3> QED BY <1>5, <3>2, <3>3
  <2> QED BY <1>2, <1>4, <1>7, <2>1, <2>2 DEF FramesOK
<1>10. \A n \in 1 .. k + 1 : n \in 1 .. k \/ running'[n].libs = {}
  BY <1>4, <1>5
<1>11. ObjectsOK'
  <2> SUFFICES ASSUME NEW n \in 1 .. k + 1, NEW o \in running'[n].libs
               PROVE  /\ o.lib \in created /\ (o.name # NoName => o.suite = running'[n].suite)
                      /\ \E i \in Range(Imports[running'[n].suite]) \cup Runtime : i.lib = o.lib /\ i.name = o.name
    BY <1>2, <1>4 DEF ObjectsOK
  <2>1. n \in 1 .. k /\ o \in running[n].libs /\ running'[n].suite = running[n].suite
    BY <1>4, <1>10
  <2> QED BY <1>1, <1>4, <2>1 DEF ObjectsOK
<1>12. GlobalsOK'
  <2>1. ASSUME NEW l \in Libraries, IsGlobal(l), NEW n \in 1 .. k + 1, NEW o \in running'[n].libs, o.lib = l
        PROVE  instance[o] = bound[l]
    <3>1. n \in 1 .. k /\ o \in running[n].libs
      BY <1>4, <1>10
    <3> QED BY <1>1, <1>4, <2>1, <3>1 DEF GlobalsOK
  <2> QED BY <1>1, <1>2, <1>4, <2>1 DEF GlobalsOK, IsGlobal
<1>13. UsesOK'
  <2> SUFFICES ASSUME NEW u \in uses, ~IsGlobal(u.lib), NEW n \in 1 .. k + 1, u.scope.suite = running'[n].suite
               PROVE  /\ \E o \in running'[n].libs : o.lib = u.lib /\ o.name = u.name
                      /\ running'[n].phase = "suites" /\ u.scope.test = 0
    BY <1>1, <1>2, <1>4 DEF UsesOK, IsGlobal
  <2>1. running'[n].suite # s
    BY <1>1, <1>2 DEF UsesOK
  <2>2. n \in 1 .. k
    BY <1>4, <1>5, <2>1
  <2>3. u.scope.suite = running[n].suite /\ running[n].phase = "suites" /\ n \in DOMAIN running
    BY <1>4, <1>6, <2>2
  <2>4. u.scope.test = 0 /\ \E o \in running[n].libs : o.lib = u.lib /\ o.name = u.name
    BY <1>1, <2>3 DEF UsesOK
  <2> QED BY <1>4, <2>2, <2>3, <2>4
<1>14. /\ \A n \in 1 .. k : HeldBySuite(n)' = HeldBySuite(n) /\ HeldByTest(n) = {}
       /\ \A n \in 1 .. k + 1 : HeldByTest(n)' = {}
       /\ HeldBySuite(k + 1)' = {}
  <2>1. \A n \in 1 .. k : HeldBySuite(n)' = HeldBySuite(n) /\ HeldByTest(n) = {} /\ HeldByTest(n)' = {}
    BY <1>4, <1>6 DEF HeldBySuite, HeldByTest, InTest
  <2>2. running'[k + 1].phase = "imports" /\ running'[k + 1].libs = {}
    BY <1>4
  <2>3. \A n : n = k + 1 => HeldBySuite(n)' = {} /\ HeldByTest(n)' = {}
    BY <2>2 DEF HeldBySuite, HeldByTest, InTest
  <2>4. HeldBySuite(k + 1)' = {} /\ HeldByTest(k + 1)' = {}
    BY <2>2 DEF HeldBySuite, HeldByTest, InTest
  <2> QED BY <1>5, <2>1, <2>3, <2>4
<1>15. Held' = Held
  <2>1. \A n \in 1 .. k + 1 : HeldBySuite(n)' = IF n \in 1 .. k THEN HeldBySuite(n) ELSE {}
    BY <1>5, <1>14
  <2>2. 1 .. k \subseteq 1 .. k + 1
    BY <1>4
  <2> QED BY <1>4, <2>1, <2>2 DEF Held
<1>16. Tested' = Tested
  BY <1>4, <1>14 DEF Tested
<1>17. /\ \A h \in Held : running'[h[1]].suite = running[h[1]].suite
       /\ \A h \in Tested : running'[h[1]].pos = running[h[1]].pos
  BY <1>4, <1>14 DEF Held, Tested
<1>18. ScopesOK' /\ InstancesUsed' /\ OneInstancePerScope' /\ NoInstanceInTwoScopes'
  BY <1>2, <1>15, <1>16, <1>17, MoveKeeps
<1> QED BY <1>8, <1>9, <1>11, <1>12, <1>13, <1>18 DEF LibraryBookkeeping

LEMMA LeaveSuiteKeeps ==
  ASSUME LibraryBookkeeping, OneNamePerSuite, LeaveSuite
  PROVE  LibraryBookkeeping'
<1> USE DEF libState
<1>1. TypeOK /\ FramesOK /\ ObjectsOK /\ GlobalsOK /\ UsesOK
  BY DEF LibraryBookkeeping
<1>2. /\ UNCHANGED <<todo, started, libState, uses>> /\ todo = {} /\ Top.phase = "closing" /\ running # <<>>
      /\ running' = Front(running)
  BY DEF LeaveSuite, In
<1>3. PICK k : k = Len(running)
  OBVIOUS
<1>4. k \in Nat \ {0} /\ DOMAIN running = 1 .. k /\ Top = running[k] /\ running \in Seq(FrameType)
  BY <1>1, <1>2, <1>3, FrameFacts
<1>5. /\ running' \in Seq(FrameType) /\ Len(running') = k - 1 /\ DOMAIN running' = 1 .. k - 1
      /\ \A n \in 1 .. k - 1 : running'[n] = running[n] /\ n \in 1 .. k
  BY <1>2, <1>3, <1>4, LenProperties DEF Front
<1>6. \A n \in 1 .. k : n \in 1 .. k - 1 \/ n = k
  BY <1>4
<1>7. \A n \in 1 .. k - 1 : running[n].phase = "suites"
  <2>1. \A n \in 1 .. k - 1 : n < k
    BY <1>4
  <2> QED BY <1>1, <1>3, <1>4, <1>5, <2>1 DEF FramesOK
<1>8. TypeOK'
  BY <1>1, <1>2, <1>5 DEF TypeOK, FrameType
<1>9. FramesOK'
  BY <1>1, <1>2, <1>4, <1>5, <1>7 DEF FramesOK
<1>10. ObjectsOK'
  BY <1>1, <1>2, <1>4, <1>5 DEF ObjectsOK
<1>11. GlobalsOK'
  BY <1>1, <1>2, <1>4, <1>5 DEF GlobalsOK, IsGlobal
<1>12. UsesOK'
  BY <1>1, <1>2, <1>4, <1>5 DEF UsesOK, IsGlobal
<1>13. /\ \A n \in 1 .. k - 1 : HeldBySuite(n)' = HeldBySuite(n) /\ HeldByTest(n)' = {} /\ HeldByTest(n) = {}
       /\ HeldBySuite(k) = {} /\ HeldByTest(k) = {}
  BY <1>2, <1>4, <1>5, <1>7 DEF HeldBySuite, HeldByTest, InTest
<1>14. Held' = Held
  <2>1. \A n \in 1 .. k : HeldBySuite(n) # {} => n \in 1 .. k - 1
    BY <1>6, <1>13
  <2> QED BY <1>4, <1>5, <1>13, <2>1 DEF Held
<1>15. Tested' = Tested
  BY <1>4, <1>5, <1>6, <1>13 DEF Tested
<1>16. \A h \in Held : running'[h[1]].suite = running[h[1]].suite
  BY <1>4, <1>5, <1>6, <1>13 DEF Held
<1>17. \A h \in Tested : running'[h[1]].pos = running[h[1]].pos
  BY <1>4, <1>5, <1>6, <1>13 DEF Tested
<1>18. ScopesOK' /\ InstancesUsed' /\ OneInstancePerScope' /\ NoInstanceInTwoScopes'
  BY <1>2, <1>14, <1>15, <1>16, <1>17, MoveKeeps
<1> QED BY <1>8, <1>9, <1>10, <1>11, <1>12, <1>18 DEF LibraryBookkeeping

-----------------------------------------------------------------------------
(* Pairs of places and objects *)

Pairs(k, F, l) == {x \in (1 .. k) \X Objects : x[2] \in F[x[1]] /\ x[2].lib = l}

LEMMA PairsFacts ==
  ASSUME NEW k, NEW F, NEW l
  PROVE  /\ \A n, p : <<n, p>> \in Pairs(k, F, l) <=> n \in 1 .. k /\ p \in Objects /\ p \in F[n] /\ p.lib = l
         /\ \A x \in Pairs(k, F, l) : x = <<x[1], x[2]>>
BY DEF Pairs

\* The test case scoped libraries of a test.
TestLibs(X) == {p \in X : Scope[p.lib] = "TESTCASE"}

LEMMA SetsArePairs ==
  ASSUME NEW k, DOMAIN running = 1 .. k, NEW l
  PROVE  /\ Of(Held, l) = Pairs(k, [n \in 1 .. k |-> HeldBySuite(n)], l)
         /\ Of(Tested, l) = Pairs(k, [n \in 1 .. k |-> TestLibs(HeldByTest(n))], l)
BY DEF Of, Held, Tested, Pairs, TestLibs

LEMMA SetsArePairsAfter ==
  ASSUME NEW k, DOMAIN running' = 1 .. k, NEW l
  PROVE  /\ Of(Held, l)' = Pairs(k, [n \in 1 .. k |-> HeldBySuite(n)'], l)
         /\ Of(Tested, l)' = Pairs(k, [n \in 1 .. k |-> TestLibs(HeldByTest(n)')], l)
BY DEF Of, Held, Tested, Pairs, TestLibs

-----------------------------------------------------------------------------
(* Hooks *)

\* What a step does to the libraries that it is not about.
LEMMA HeldKept ==
  ASSUME LibraryBookkeeping, OneNamePerSuite, NEW l \in Libraries, ~IsGlobal(l),
         Of(Held, l)' = Of(Held, l), Of(Tested, l)' = Of(Tested, l), cache'[l] = cache[l],
         \A u \in uses' \ uses : u.lib # l,
         \A h \in Of(Held, l) : running'[h[1]].suite = running[h[1]].suite /\ instance'[h[2]] = instance[h[2]],
         \A h \in Of(Tested, l) : running'[h[1]].pos = running[h[1]].pos
  PROVE  /\ IsFiniteSet(Of(Held, l)') /\ IsFiniteSet(Of(Tested, l)')
         /\ Len(cache'[l]) = Cardinality(Of(Held, l)') + Cardinality(Of(Tested, l)')
         /\ InstancesKept(running', Of(Held, l)', Of(Tested, l)', cache'[l], instance', uses')
<1>1. /\ IsFiniteSet(Of(Held, l)) /\ IsFiniteSet(Of(Tested, l))
      /\ Len(cache[l]) = Cardinality(Of(Held, l)) + Cardinality(Of(Tested, l))
      /\ InstancesKept(running, Of(Held, l), Of(Tested, l), cache[l], instance, uses)
  BY DEF LibraryBookkeeping, ScopesOK
<1>2. /\ Of(Held, l) \in Places /\ Of(Tested, l) \in SUBSET Of(Held, l)
      /\ \A h \in Of(Held, l) : h[2] \in Objects /\ h[2].lib = l
  BY HeldFacts DEF LibraryBookkeeping
<1>3. PICK H, T, c : H = Of(Held, l) /\ T = Of(Tested, l) /\ c = cache[l]
  OBVIOUS
<1>4. H \in Places /\ T \in SUBSET H /\ InstancesKept(running, H, T, c, instance, uses)
  BY <1>1, <1>2, <1>3
<1>5. /\ \A h \in H : running'[h[1]].suite = running[h[1]].suite /\ instance'[h[2]] = instance[h[2]]
      /\ \A h \in T : running'[h[1]].pos = running[h[1]].pos
      /\ \A h \in H : \A u \in uses' \ uses : u.lib # h[2].lib
  BY <1>2, <1>3
<1>6. InstancesKept(running', H, T, c, instance', uses')
  BY <1>4, <1>5, SameIsKept
<1> QED BY <1>1, <1>3, <1>6

LEMMA OthersKept ==
  ASSUME LibraryBookkeeping, OneNamePerSuite, NEW l \in Libraries, ~IsGlobal(l),
         Of(Held, l)' = Of(Held, l), Of(Tested, l)' = Of(Tested, l), cache'[l] = cache[l],
         \A o \in Objects : o.lib = l => instance'[o] = instance[o],
         \A u \in uses' \ uses : u.lib # l,
         \A h \in Of(Held, l) : running'[h[1]].suite = running[h[1]].suite,
         \A h \in Of(Tested, l) : running'[h[1]].pos = running[h[1]].pos
  PROVE  /\ IsFiniteSet(Of(Held, l)') /\ IsFiniteSet(Of(Tested, l)')
         /\ Len(cache'[l]) = Cardinality(Of(Held, l)') + Cardinality(Of(Tested, l)')
         /\ InstancesKept(running', Of(Held, l)', Of(Tested, l)', cache'[l], instance', uses')
<1>1. \A h \in Of(Held, l) : h[2] \in Objects /\ h[2].lib = l
  BY HeldFacts DEF LibraryBookkeeping
<1>2. \A h \in Of(Held, l) : running'[h[1]].suite = running[h[1]].suite /\ instance'[h[2]] = instance[h[2]]
  BY <1>1
<1> QED BY <1>2, HeldKept

LEMMA CachingFacts ==
  ASSUME TypeOK, NEW o \in Objects, SetLibState(CachingStart(LibState, o))
  PROVE  /\ UNCHANGED <<created, bound, swapped, count>>
         /\ instance' = [instance EXCEPT ![o] = NoInstance]
         /\ cache' = [cache EXCEPT ![o.lib] = Append(@, instance[o])]
BY DEF SetLibState, CachingStart, LibState

LEMMA RestoringFacts ==
  ASSUME TypeOK, NEW o \in Objects, SetLibState(RestoringEnd(LibState, o))
  PROVE  /\ UNCHANGED <<created, bound, swapped, count>>
         /\ instance' = [instance EXCEPT ![o] = Last(cache[o.lib])]
         /\ cache' = [cache EXCEPT ![o.lib] = Front(@)]
BY DEF SetLibState, RestoringEnd, LibState

\* Instances are put aside and brought back.
LEMMA InstanceMoves ==
  ASSUME LibraryBookkeeping, UNCHANGED <<running, started, uses, created, bound, swapped, count>>,
         todo' \subseteq todo, NEW o \in Objects, ~IsGlobal(o.lib),
         NEW v \in 0 .. count, NEW c \in Seq(0 .. count),
         instance' = [instance EXCEPT ![o] = v], cache' = [cache EXCEPT ![o.lib] = c],
         v # NoInstance => \E u \in uses : u.lib = o.lib /\ u.instance = v,
         \A i \in 1 .. Len(c) : c[i] # NoInstance => \E u \in uses : u.lib = o.lib /\ u.instance = c[i]
  PROVE  /\ TypeOK' /\ FramesOK' /\ ObjectsOK' /\ GlobalsOK' /\ UsesOK' /\ InstancesUsed'
         /\ OneInstancePerScope' /\ NoInstanceInTwoScopes'
<1>1. TypeOK /\ FramesOK /\ ObjectsOK /\ GlobalsOK /\ UsesOK /\ InstancesUsed
  BY DEF LibraryBookkeeping
<1>2. o.lib \in Libraries
  BY ObjectFacts
<1>3. /\ instance \in [Objects -> 0 .. count] /\ cache \in [Libraries -> Seq(0 .. count)]
      /\ running \in Seq(FrameType)
  BY <1>1 DEF TypeOK, FrameType
<1>4. /\ instance' \in [Objects -> 0 .. count] /\ cache' \in [Libraries -> Seq(0 .. count)]
      /\ \A p \in Objects : instance'[p] = IF p = o THEN v ELSE instance[p]
      /\ \A l \in Libraries : cache'[l] = IF l = o.lib THEN c ELSE cache[l]
  BY <1>2, <1>3
<1>5. TypeOK'
  BY <1>1, <1>4 DEF TypeOK
<1>6. FramesOK' /\ ObjectsOK' /\ UsesOK'
  <2>1. FramesOK'
    BY <1>1 DEF FramesOK, Top
  <2>2. ObjectsOK'
    BY <1>1 DEF ObjectsOK
  <2>3. UsesOK'
    BY <1>1 DEF UsesOK, IsGlobal
  <2> QED BY <2>1, <2>2, <2>3
<1>7. GlobalsOK'
  <2> SUFFICES ASSUME NEW l \in Libraries, IsGlobal(l)
               PROVE  /\ cache'[l] = <<>>
                      /\ \A n \in DOMAIN running : \A p \in running[n].libs : p.lib = l => instance'[p] = bound[l]
                      /\ l \in created => instance'[[lib |-> l, name |-> NoName, suite |-> Root]] = bound[l]
                      /\ \A u \in uses : u.lib = l =>
                           u.instance = bound[l] /\ l \in created /\ u.scope = [suite |-> Root, test |-> 0]
    BY DEF GlobalsOK, IsGlobal
  <2>1. l # o.lib /\ cache'[l] = cache[l]
    BY <1>4
  <2>2. \A p \in Objects : p.lib = l => instance'[p] = instance[p]
    BY <1>4, <2>1
  <2>3. \A n \in DOMAIN running : running[n].libs \subseteq Objects
    BY <1>1, FrameTypes
  <2>4. [lib |-> l, name |-> NoName, suite |-> Root] \in Objects
    BY DEF Objects
  <2>5. \A n \in DOMAIN running : \A p \in running[n].libs : p.lib = l => instance'[p] = bound[l]
    BY <1>1, <2>2, <2>3 DEF GlobalsOK
  <2>6. l \in created => instance'[[lib |-> l, name |-> NoName, suite |-> Root]] = bound[l]
    BY <1>1, <2>2, <2>4 DEF GlobalsOK
  <2> QED BY <1>1, <2>1, <2>5, <2>6 DEF GlobalsOK
<1>8. InstancesUsed'
  <2>1. ASSUME NEW p \in Objects, ~IsGlobal(p.lib), instance'[p] # NoInstance
        PROVE  \E u \in uses : u.lib = p.lib /\ u.instance = instance'[p]
    <3>1. CASE p = o
      BY <1>4, <2>1, <3>1
    <3>2. CASE p # o
      BY <1>1, <1>4, <2>1, <3>2 DEF InstancesUsed
    <3> QED BY <3>1, <3>2
  <2>2. ASSUME NEW l \in Libraries, ~IsGlobal(l), NEW i \in 1 .. Len(cache'[l]), cache'[l][i] # NoInstance
        PROVE  \E u \in uses : u.lib = l /\ u.instance = cache'[l][i]
    <3>1. CASE l = o.lib
      BY <1>4, <2>2, <3>1
    <3>2. CASE l # o.lib
      <4>1. cache'[l] = cache[l]
        BY <1>4, <3>2
      <4> QED BY <1>1, <2>2, <4>1 DEF InstancesUsed
    <3> QED BY <3>1, <3>2
  <2> QED BY <2>1, <2>2 DEF InstancesUsed, IsGlobal
<1>9. OneInstancePerScope' /\ NoInstanceInTwoScopes'
  BY DEF LibraryBookkeeping, OneInstancePerScope, NoInstanceInTwoScopes
<1> QED BY <1>5, <1>6, <1>7, <1>8, <1>9

\* Which suites and tests have been told of, when a library is told.
LEMMA HookSets ==
  ASSUME LibraryBookkeeping, OneNamePerSuite, NEW o \in Objects, Hook(o), NEW k, k = Len(running)
  PROVE  /\ k \in Nat \ {0} /\ o \in Top.libs /\ Top = running[k] /\ o.lib \in Libraries
         /\ UNCHANGED <<running, started, uses>> /\ todo' \subseteq todo
         /\ \A l \in Libraries : /\ l # o.lib => Of(Held, l)' = Of(Held, l) /\ Of(Tested, l)' = Of(Tested, l)
                                 /\ Top.phase # "closing" => Of(Held, l)' = Of(Held, l)
         /\ <<k, o>> \in Of(Held, o.lib) /\ \A h \in Of(Held, o.lib) : h[1] <= k
         /\ Top.phase = "closing" => /\ Of(Held, o.lib)' = Of(Held, o.lib) \ {<<k, o>>}
                                     /\ Of(Tested, o.lib) = {} /\ Of(Tested, o.lib)' = {}
         /\ Top.phase = "starting" /\ Scope[o.lib] = "TESTCASE" =>
              Of(Tested, o.lib) = {} /\ Of(Tested, o.lib)' = {<<k, o>>}
         /\ Top.phase = "ending" /\ Scope[o.lib] = "TESTCASE" =>
              Of(Tested, o.lib) = {<<k, o>>} /\ Of(Tested, o.lib)' = {}
         /\ Scope[o.lib] # "TESTCASE" => Of(Tested, o.lib) = {} /\ Of(Tested, o.lib)' = {}
<1>1. TypeOK /\ FramesOK /\ ObjectsOK
  BY DEF LibraryBookkeeping
<1>2. /\ UNCHANGED <<running, started, uses>> /\ o \in todo /\ todo' = todo \ {o} /\ running # <<>>
      /\ Top.phase \in {"starting", "ending", "closing"} /\ o.lib \in Libraries
  BY ObjectFacts DEF Hook, In
<1>3. /\ k \in Nat \ {0} /\ k \in 1 .. k /\ DOMAIN running = 1 .. k /\ Top = running[k]
      /\ \A n \in 1 .. k : n \in 1 .. k - 1 \/ n = k
  BY <1>1, <1>2, FrameFacts
<1>4. todo \subseteq Top.libs /\ o \in Top.libs
  BY <1>1, <1>2 DEF FramesOK
<1>5. \A n \in 1 .. k - 1 : running[n].phase = "suites"
  <2>1. \A n \in 1 .. k - 1 : n < k /\ n \in 1 .. k
    BY <1>3
  <2> QED BY <1>1, <1>3, <2>1 DEF FramesOK
<1>6. \A n \in 1 .. k - 1 : HeldBySuite(n)' = HeldBySuite(n) /\ HeldByTest(n) = {} /\ HeldByTest(n)' = {}
  BY <1>2, <1>5 DEF HeldBySuite, HeldByTest, InTest
<1>7. \A p \in Top.libs : p.lib = o.lib => p = o
  BY <1>1, <1>3, <1>4, OneObject
<1>8. /\ HeldBySuite(k) = IF Top.phase = "closing" THEN todo ELSE Top.libs
      /\ HeldBySuite(k)' = IF Top.phase = "closing" THEN todo \ {o} ELSE Top.libs
      /\ HeldByTest(k) = IF Top.phase = "starting" THEN Top.libs \ todo
                         ELSE IF Top.phase = "ending" THEN todo ELSE {}
      /\ HeldByTest(k)' = IF Top.phase = "starting" THEN Top.libs \ (todo \ {o})
                          ELSE IF Top.phase = "ending" THEN todo \ {o} ELSE {}
  BY <1>2, <1>3 DEF HeldBySuite, HeldByTest, InTest
<1>9. PICK F, F2, G, G2 : /\ F = [n \in 1 .. k |-> HeldBySuite(n)]
                          /\ F2 = [n \in 1 .. k |-> HeldBySuite(n)']
                          /\ G = [n \in 1 .. k |-> TestLibs(HeldByTest(n))]
                          /\ G2 = [n \in 1 .. k |-> TestLibs(HeldByTest(n)')]
  OBVIOUS
<1>10. \A l : /\ Of(Held, l) = Pairs(k, F, l) /\ Of(Held, l)' = Pairs(k, F2, l)
              /\ Of(Tested, l) = Pairs(k, G, l) /\ Of(Tested, l)' = Pairs(k, G2, l)
  BY <1>2, <1>3, <1>9, SetsArePairs, SetsArePairsAfter
<1>11. /\ \A n \in 1 .. k - 1 : \A p : /\ p \in F2[n] <=> p \in F[n]
                                       /\ p \notin G[n] /\ p \notin G2[n]
       /\ F[k] = (IF Top.phase = "closing" THEN todo ELSE Top.libs)
       /\ F2[k] = (IF Top.phase = "closing" THEN todo \ {o} ELSE Top.libs)
  BY <1>3, <1>6, <1>8, <1>9 DEF TestLibs
<1>12. /\ G[k] = TestLibs(IF Top.phase = "starting" THEN Top.libs \ todo
                          ELSE IF Top.phase = "ending" THEN todo ELSE {})
       /\ G2[k] = TestLibs(IF Top.phase = "starting" THEN Top.libs \ (todo \ {o})
                           ELSE IF Top.phase = "ending" THEN todo \ {o} ELSE {})
  BY <1>3, <1>8, <1>9
<1>13. /\ o.lib \in Libraries /\ \A l : \A x \in Pairs(k, F, l) : x[1] \in 1 .. k
       /\ \A n \in 1 .. k - 1 : n # k
  BY <1>2, <1>3 DEF Pairs
<1>14. ASSUME NEW l \in Libraries
       PROVE  /\ l # o.lib => Pairs(k, F2, l) = Pairs(k, F, l) /\ Pairs(k, G2, l) = Pairs(k, G, l)
              /\ Top.phase # "closing" => Pairs(k, F2, l) = Pairs(k, F, l)
  <2>1. ASSUME l # o.lib \/ Top.phase # "closing" PROVE Pairs(k, F2, l) = Pairs(k, F, l)
    <3>1. \A n \in 1 .. k, p \in Objects : p.lib = l => (p \in F2[n] <=> p \in F[n])
      BY <1>3, <1>11, <2>1
    <3> QED BY <3>1 DEF Pairs
  <2>2. ASSUME l # o.lib PROVE Pairs(k, G2, l) = Pairs(k, G, l)
    <3>1. \A n \in 1 .. k, p \in Objects : p.lib = l => (p \in G2[n] <=> p \in G[n])
      BY <1>3, <1>11, <1>12, <2>2 DEF TestLibs
    <3> QED BY <3>1 DEF Pairs
  <2> QED BY <2>1, <2>2
<1>15. <<k, o>> \in Pairs(k, F, o.lib)
  BY <1>2, <1>3, <1>4, <1>11, PairsFacts
<1>16. \A h \in Pairs(k, F, o.lib) : h[1] <= k
  BY <1>3, <1>13
<1>17. ASSUME Top.phase = "closing"
       PROVE  /\ Pairs(k, F2, o.lib) = Pairs(k, F, o.lib) \ {<<k, o>>}
              /\ Pairs(k, G, o.lib) = {} /\ Pairs(k, G2, o.lib) = {}
  <2>1. \A n \in 1 .. k, p \in Objects : p.lib = o.lib => (p \in F2[n] <=> p \in F[n] /\ ~ (n = k /\ p = o))
    BY <1>3, <1>11, <1>13, <1>17
  <2>2. G[k] = {} /\ G2[k] = {}
    BY <1>12, <1>17 DEF TestLibs
  <2>3. \A n \in 1 .. k, p \in Objects : p.lib = o.lib => p \notin G[n] /\ p \notin G2[n]
    BY <1>3, <1>11, <2>2
  <2>5. Pairs(k, F2, o.lib) = Pairs(k, F, o.lib) \ {<<k, o>>}
    BY <1>3, <2>1 DEF Pairs
  <2>6. Pairs(k, G, o.lib) = {}
    BY <2>3 DEF Pairs
  <2>7. Pairs(k, G2, o.lib) = {}
    BY <2>3 DEF Pairs
  <2> QED BY <2>5, <2>6, <2>7
<1>18. ASSUME Top.phase = "starting", Scope[o.lib] = "TESTCASE"
       PROVE  Pairs(k, G, o.lib) = {} /\ Pairs(k, G2, o.lib) = {<<k, o>>}
  <2>1. G[k] = TestLibs(Top.libs \ todo) /\ G2[k] = TestLibs(Top.libs \ (todo \ {o}))
    BY <1>12, <1>18
  <2>2. \A p \in Objects : p.lib = o.lib => p \notin G[k] /\ (p \in G2[k] <=> p = o)
    BY <1>2, <1>4, <1>7, <1>18, <2>1 DEF TestLibs
  <2>3. \A n \in 1 .. k, p \in Objects : p.lib = o.lib => p \notin G[n]
    BY <1>3, <1>11, <2>2
  <2>4. \A n \in 1 .. k, p \in Objects : p.lib = o.lib => (p \in G2[n] <=> n = k /\ p = o)
    BY <1>3, <1>11, <1>13, <2>2
  <2>5. Pairs(k, G, o.lib) = {}
    BY <2>3 DEF Pairs
  <2>7. Pairs(k, G2, o.lib) = {<<k, o>>}
    BY <1>3, <2>4 DEF Pairs
  <2> QED BY <2>5, <2>7
<1>19. ASSUME Top.phase = "ending", Scope[o.lib] = "TESTCASE"
       PROVE  Pairs(k, G, o.lib) = {<<k, o>>} /\ Pairs(k, G2, o.lib) = {}
  <2>1. G[k] = TestLibs(todo) /\ G2[k] = TestLibs(todo \ {o})
    BY <1>12, <1>19
  <2>2. \A p \in Objects : p.lib = o.lib => p \notin G2[k] /\ (p \in G[k] <=> p = o)
    BY <1>2, <1>4, <1>7, <1>19, <2>1 DEF TestLibs
  <2>3. \A n \in 1 .. k, p \in Objects : p.lib = o.lib => p \notin G2[n]
    BY <1>3, <1>11, <2>2
  <2>4. \A n \in 1 .. k, p \in Objects : p.lib = o.lib => (p \in G[n] <=> n = k /\ p = o)
    BY <1>3, <1>11, <1>13, <2>2
  <2>5. Pairs(k, G2, o.lib) = {}
    BY <2>3 DEF Pairs
  <2>7. Pairs(k, G, o.lib) = {<<k, o>>}
    BY <1>3, <2>4 DEF Pairs
  <2> QED BY <2>5, <2>7
<1>20. ASSUME Scope[o.lib] # "TESTCASE" PROVE Pairs(k, G, o.lib) = {} /\ Pairs(k, G2, o.lib) = {}
  <2>1. \A p \in Objects : p.lib = o.lib => p \notin G[k] /\ p \notin G2[k]
    BY <1>12, <1>20 DEF TestLibs
  <2>2. \A n \in 1 .. k, p \in Objects : p.lib = o.lib => p \notin G[n] /\ p \notin G2[n]
    BY <1>3, <1>11, <2>1
  <2> QED BY <2>2 DEF Pairs
<1> QED BY <1>2, <1>3, <1>4, <1>10, <1>14, <1>15, <1>16, <1>17, <1>18, <1>19, <1>20

LEMMA HookWithoutEffect ==
  ASSUME LibraryBookkeeping, OneNamePerSuite, NEW o \in Objects, Hook(o), UNCHANGED libState,
         Top.phase = "closing" => IsGlobal(o.lib), Top.phase # "closing" => Scope[o.lib] # "TESTCASE"
  PROVE  LibraryBookkeeping'
<1> USE DEF libState
<1>1. TypeOK /\ FramesOK /\ ObjectsOK /\ GlobalsOK /\ UsesOK /\ InstancesUsed
  BY DEF LibraryBookkeeping
<1>2. PICK k : k = Len(running)
  OBVIOUS
<1>3. /\ UNCHANGED <<running, started, uses>> /\ todo' \subseteq todo
      /\ \A l \in Libraries : l # o.lib => Of(Held, l)' = Of(Held, l) /\ Of(Tested, l)' = Of(Tested, l)
  BY <1>2, HookSets
<1>4. /\ Top.phase # "closing" => Of(Held, o.lib)' = Of(Held, o.lib)
      /\ Scope[o.lib] # "TESTCASE" => Of(Tested, o.lib) = {} /\ Of(Tested, o.lib)' = {}
      /\ o.lib \in Libraries
  BY <1>2, HookSets
<1>5. TypeOK'
  BY <1>1, <1>3 DEF TypeOK
<1>6. FramesOK'
  BY <1>1, <1>3 DEF FramesOK, Top
<1>7. ObjectsOK' /\ InstancesUsed'
  BY <1>1, <1>3 DEF ObjectsOK, InstancesUsed, IsGlobal
<1>8. GlobalsOK'
  BY <1>1, <1>3 DEF GlobalsOK, IsGlobal
<1>9. UsesOK'
  BY <1>1, <1>3 DEF UsesOK, IsGlobal
<1>10. OneInstancePerScope' /\ NoInstanceInTwoScopes'
  BY <1>3 DEF LibraryBookkeeping, OneInstancePerScope, NoInstanceInTwoScopes
<1>11. ASSUME NEW l \in Libraries, ~IsGlobal(l)
       PROVE  /\ IsFiniteSet(Of(Held, l)') /\ IsFiniteSet(Of(Tested, l)')
              /\ Len(cache'[l]) = Cardinality(Of(Held, l)') + Cardinality(Of(Tested, l)')
              /\ InstancesKept(running', Of(Held, l)', Of(Tested, l)', cache'[l], instance', uses')
  <2>1. Of(Held, l)' = Of(Held, l) /\ Of(Tested, l)' = Of(Tested, l)
    <3>1. CASE l = o.lib
      <4>1. Top.phase # "closing"
        BY <1>11, <3>1
      <4> QED BY <1>4, <3>1, <4>1
    <3>2. CASE l # o.lib
      BY <1>3, <3>2
    <3> QED BY <3>1, <3>2
  <2>2. /\ cache'[l] = cache[l] /\ \A p \in Objects : p.lib = l => instance'[p] = instance[p]
        /\ \A u \in uses' \ uses : u.lib # l
        /\ \A h \in Of(Held, l) : running'[h[1]].suite = running[h[1]].suite
        /\ \A h \in Of(Tested, l) : running'[h[1]].pos = running[h[1]].pos
    BY <1>3
  <2> QED BY <1>11, <2>1, <2>2, OthersKept
<1>12. ScopesOK'
  BY <1>11 DEF ScopesOK, IsGlobal
<1> QED BY <1>5, <1>6, <1>7, <1>8, <1>9, <1>10, <1>12 DEF LibraryBookkeeping

\* If an instance of one library moves, only that one is to be looked at.
LEMMA ScopesAfterHook ==
  ASSUME LibraryBookkeeping, OneNamePerSuite, NEW o \in Objects, Hook(o), ~IsGlobal(o.lib),
         NEW v, NEW c, instance' = [instance EXCEPT ![o] = v], cache' = [cache EXCEPT ![o.lib] = c],
         IsFiniteSet(Of(Held, o.lib)'), IsFiniteSet(Of(Tested, o.lib)'),
         Len(c) = Cardinality(Of(Held, o.lib)') + Cardinality(Of(Tested, o.lib)'),
         InstancesKept(running, Of(Held, o.lib)', Of(Tested, o.lib)', c, instance', uses)
  PROVE  ScopesOK'
<1>1. PICK k : k = Len(running)
  OBVIOUS
<1>2. /\ UNCHANGED <<running, started, uses>>
      /\ \A l \in Libraries : l # o.lib => Of(Held, l)' = Of(Held, l) /\ Of(Tested, l)' = Of(Tested, l)
  BY <1>1, HookSets
<1>3. instance \in [Objects -> 0 .. count] /\ cache \in [Libraries -> Seq(0 .. count)] /\ o.lib \in Libraries
  BY ObjectFacts DEF LibraryBookkeeping, TypeOK
<1>4. /\ \A p \in Objects : p # o => instance'[p] = instance[p]
      /\ \A l \in Libraries : cache'[l] = IF l = o.lib THEN c ELSE cache[l]
  BY <1>3
<1>5. ASSUME NEW l \in Libraries, ~IsGlobal(l)
      PROVE  /\ IsFiniteSet(Of(Held, l)') /\ IsFiniteSet(Of(Tested, l)')
             /\ Len(cache'[l]) = Cardinality(Of(Held, l)') + Cardinality(Of(Tested, l)')
             /\ InstancesKept(running', Of(Held, l)', Of(Tested, l)', cache'[l], instance', uses')
  <2>1. CASE l = o.lib
    <3>1. cache'[l] = c /\ running' = running /\ uses' = uses
      BY <1>2, <1>4, <2>1
    <3> QED BY <2>1, <3>1
  <2>2. CASE l # o.lib
    <3>1. Of(Held, l)' = Of(Held, l) /\ Of(Tested, l)' = Of(Tested, l) /\ cache'[l] = cache[l]
      BY <1>2, <1>4, <2>2
    <3>2. /\ \A p \in Objects : p.lib = l => instance'[p] = instance[p]
          /\ \A u \in uses' \ uses : u.lib # l
          /\ \A h \in Of(Held, l) : running'[h[1]].suite = running[h[1]].suite
          /\ \A h \in Of(Tested, l) : running'[h[1]].pos = running[h[1]].pos
      BY <1>2, <1>4, <2>2
    <3> QED BY <1>5, <3>1, <3>2, OthersKept
  <2> QED BY <2>1, <2>2
<1> QED BY <1>5 DEF ScopesOK, IsGlobal

\* A test starts.
LEMMA StartTestHookKeeps ==
  ASSUME LibraryBookkeeping, OneNamePerSuite, NEW o \in Objects, Hook(o),
         Top.phase = "starting", Scope[o.lib] = "TESTCASE", SetLibState(CachingStart(LibState, o))
  PROVE  LibraryBookkeeping'
<1>1. TypeOK /\ UsesOK /\ ScopesOK /\ ObjectsOK /\ InstancesUsed /\ running # <<>> /\ ~IsGlobal(o.lib)
  BY DEF LibraryBookkeeping, Hook, In, IsGlobal
<1>2. PICK k, H, T, c, x : k = Len(running) /\ H = Of(Held, o.lib) /\ T = Of(Tested, o.lib)
                           /\ c = cache[o.lib] /\ x = <<k, o>>
  OBVIOUS
<1>3. /\ k \in Nat \ {0} /\ o \in Top.libs /\ Top = running[k] /\ o.lib \in Libraries
      /\ UNCHANGED <<running, started, uses>> /\ todo' \subseteq todo
  BY <1>2, HookSets
<1>4. /\ x \in H /\ \A h \in H : h[1] <= k
      /\ Of(Held, o.lib)' = H /\ T = {} /\ Of(Tested, o.lib)' = {x}
  BY <1>2, <1>3, HookSets
<1>5. /\ UNCHANGED <<created, bound, swapped, count>>
      /\ instance' = [instance EXCEPT ![o] = NoInstance]
      /\ cache' = [cache EXCEPT ![o.lib] = Append(c, instance[o])]
  BY <1>1, <1>2, CachingFacts
<1>6. /\ instance \in [Objects -> 0 .. count] /\ c \in Seq(0 .. count) /\ count \in Nat /\ instance[o] \in 0 .. count
      /\ Len(c) \in Nat
  BY <1>1, <1>2, <1>3 DEF TypeOK
<1>7. /\ IsFiniteSet(H) /\ Len(c) = Cardinality(H) + Cardinality(T)
      /\ InstancesKept(running, H, T, c, instance, uses) /\ H \in Places
  BY <1>1, <1>2, <1>3, HeldFacts DEF ScopesOK, LibraryBookkeeping
<1>8. Len(c) = Cardinality(H) /\ InstancesKept(running, H, {}, c, instance, uses)
  <2>1. Cardinality(T) = 0 /\ Cardinality(H) \in Nat
    BY <1>4, <1>7, FS_EmptySet, FS_CardinalityType
  <2> QED BY <1>4, <1>7, <2>1
<1>9. PICK d : d = Append(c, instance[o])
  OBVIOUS
<1>10. /\ d \in Seq(0 .. count) /\ Len(d) = Len(c) + 1 /\ d[Len(c) + 1] = instance[o]
       /\ \A i \in 1 .. Len(c) : d[i] = c[i]
  BY <1>6, <1>9, AppendProperties
<1>11. IsInstance(uses, NoInstance, o, TestScope(running, k))
  <2> SUFFICES ASSUME NEW u \in uses, u.lib = o.lib
               PROVE  u.scope # TestScope(running, k) /\ u.instance # NoInstance
    BY DEF IsInstance
  <2>1. u.instance # NoInstance /\ u.scope.test \in Nat
    BY <1>1 DEF UsesOK, UseType, NoInstance
  <2>2. u.scope.suite = running[k].suite => u.scope.test < running[k].pos
    BY <1>1, <1>2, <1>3, FrameFacts DEF UsesOK
  <2>3. running[k].pos \in Nat
    BY <1>1, <1>2, <1>3, FrameFacts DEF FrameType
  <2> QED BY <2>1, <2>2, <2>3 DEF TestScope
<1>12. InstancesKept(running, H, {x}, d, instance', uses)
  <2>1. x[1] = k /\ x[2] = o /\ c \in Seq(Nat)
    BY <1>2, <1>6
  <2>2. instance'[x[2]] = NoInstance /\ \A h \in H : h[2] # x[2] => instance'[h[2]] = instance[h[2]]
    <3>1. \A h \in H : h[2] \in Objects
      BY <1>7, PlacesFacts
    <3> QED BY <1>5, <1>6, <2>1, <3>1
  <2>3. \A h \in H : h[1] <= x[1]
    BY <1>4, <2>1
  <2>4. IsInstance(uses, instance'[x[2]], x[2], TestScope(running, x[1]))
    BY <1>11, <2>1, <2>2
  <2>5. d = Append(c, instance[x[2]])
    BY <1>9, <2>1
  <2> QED BY <1>4, <1>7, <1>8, <2>1, <2>2, <2>3, <2>4, <2>5, PushTestKeeps
<1>13. IsFiniteSet({x}) /\ Len(d) = Cardinality(H) + Cardinality({x})
  <2>1. IsFiniteSet({x}) /\ Cardinality({x}) = 1
    BY FS_Singleton
  <2> QED BY <1>8, <1>10, <2>1
<1>14. ScopesOK'
  BY <1>1, <1>4, <1>5, <1>7, <1>9, <1>12, <1>13, ScopesAfterHook
<1>15. \A i \in 1 .. Len(d) : d[i] # NoInstance => \E u \in uses : u.lib = o.lib /\ u.instance = d[i]
  <2> SUFFICES ASSUME NEW i \in 1 .. Len(d), d[i] # NoInstance PROVE \E u \in uses : u.lib = o.lib /\ u.instance = d[i]
    OBVIOUS
  <2>1. CASE i = Len(c) + 1
    BY <1>1, <1>10, <2>1 DEF InstancesUsed
  <2>2. CASE i # Len(c) + 1
    <3>1. i \in 1 .. Len(c)
      BY <1>6, <1>10, <2>2
    <3>2. c[i] # NoInstance => \E u \in uses : u.lib = o.lib /\ u.instance = c[i]
      BY <1>1, <1>2, <1>3, <3>1 DEF InstancesUsed
    <3> QED BY <1>10, <3>1, <3>2
  <2> QED BY <2>1, <2>2
<1>16. /\ TypeOK' /\ FramesOK' /\ ObjectsOK' /\ GlobalsOK' /\ UsesOK' /\ InstancesUsed'
       /\ OneInstancePerScope' /\ NoInstanceInTwoScopes'
  <2>1. NoInstance \in 0 .. count
    BY <1>6 DEF NoInstance
  <2> QED BY <1>1, <1>3, <1>5, <1>9, <1>10, <1>15, <2>1, InstanceMoves
<1> QED BY <1>14, <1>16 DEF LibraryBookkeeping

LEMMA FrontFacts ==
  ASSUME NEW S, NEW seq \in Seq(S), Len(seq) # 0
  PROVE  /\ Front(seq) \in Seq(S) /\ Len(seq) \in Nat \ {0} /\ Len(Front(seq)) = Len(seq) - 1
         /\ \A i \in 1 .. Len(seq) - 1 : Front(seq)[i] = seq[i] /\ i \in 1 .. Len(seq)
         /\ Last(seq) = seq[Len(seq)] /\ Last(seq) \in S
<1>1. Len(seq) \in Nat \ {0}
  BY LenProperties
<1>2. seq[Len(seq)] \in S
  BY <1>1, ElementOfSeq
<1>3. Front(seq) \in Seq(S) /\ Len(Front(seq)) = Len(seq) - 1
      /\ \A i \in 1 .. Len(seq) - 1 : Front(seq)[i] = seq[i]
  BY <1>1 DEF Front
<1>4. \A i \in 1 .. Len(seq) - 1 : i \in 1 .. Len(seq)
  BY <1>1
<1> QED BY <1>1, <1>2, <1>3, <1>4 DEF Last

\* A test ends, or a suite.
LEMMA RestoringKeeps ==
  ASSUME LibraryBookkeeping, OneNamePerSuite, NEW o \in Objects, Hook(o),
         \/ Top.phase = "ending" /\ Scope[o.lib] = "TESTCASE"
         \/ Top.phase = "closing" /\ ~IsGlobal(o.lib),
         SetLibState(RestoringEnd(LibState, o))
  PROVE  LibraryBookkeeping'
<1>1. TypeOK /\ UsesOK /\ ScopesOK /\ InstancesUsed /\ ~IsGlobal(o.lib)
  BY DEF LibraryBookkeeping, IsGlobal
<1>2. PICK k, H, T, c, x : k = Len(running) /\ H = Of(Held, o.lib) /\ T = Of(Tested, o.lib)
                           /\ c = cache[o.lib] /\ x = <<k, o>>
  OBVIOUS
<1>3. /\ k \in Nat \ {0} /\ o \in Top.libs /\ Top = running[k] /\ o.lib \in Libraries
      /\ UNCHANGED <<running, started, uses>> /\ todo' \subseteq todo
  BY <1>2, HookSets
<1>4. /\ x \in H /\ \A h \in H : h[1] <= k
      /\ Top.phase = "ending" => Of(Held, o.lib)' = H /\ T = {x} /\ Of(Tested, o.lib)' = {}
      /\ Top.phase = "closing" => Of(Held, o.lib)' = H \ {x} /\ T = {} /\ Of(Tested, o.lib)' = {}
  BY <1>2, <1>3, HookSets
<1>5. /\ UNCHANGED <<created, bound, swapped, count>>
      /\ instance' = [instance EXCEPT ![o] = Last(c)]
      /\ cache' = [cache EXCEPT ![o.lib] = Front(c)]
  BY <1>1, <1>2, RestoringFacts
<1>6. /\ instance \in [Objects -> 0 .. count] /\ c \in Seq(0 .. count) /\ count \in Nat
  BY <1>1, <1>2, <1>3 DEF TypeOK
<1>7. /\ IsFiniteSet(H) /\ Len(c) = Cardinality(H) + Cardinality(T)
      /\ InstancesKept(running, H, T, c, instance, uses) /\ H \in Places
  BY <1>1, <1>2, <1>3, HeldFacts DEF ScopesOK, LibraryBookkeeping
<1>8. /\ Cardinality(H) \in Nat \ {0} /\ IsFiniteSet({}) /\ Cardinality({}) = 0 /\ Cardinality({x}) = 1
      /\ IsFiniteSet(H \ {x}) /\ Cardinality(H \ {x}) = Cardinality(H) - 1
  BY <1>4, <1>7, FS_EmptySet, FS_CardinalityType, FS_Singleton, FS_RemoveElement
<1>9. /\ Top.phase = "ending" => Len(c) = Cardinality(H) + 1
      /\ Top.phase = "closing" => Len(c) = Cardinality(H)
      /\ Len(c) # 0
  <2>1. CASE Top.phase = "ending"
    <3>1. Cardinality(T) = 1
      BY <1>4, <1>8, <2>1
    <3> QED BY <1>7, <1>8, <2>1, <3>1
  <2>2. CASE Top.phase = "closing"
    <3>1. Cardinality(T) = 0
      BY <1>4, <1>8, <2>2
    <3> QED BY <1>7, <1>8, <2>2, <3>1
  <2> QED BY <2>1, <2>2
<1>10. PICK d : d = Front(c)
  OBVIOUS
<1>11. /\ d \in Seq(0 .. count) /\ Len(d) = Len(c) - 1 /\ Last(c) = c[Len(c)] /\ Last(c) \in 0 .. count
       /\ Len(c) \in 1 .. Len(c) /\ \A i \in 1 .. Len(c) - 1 : d[i] = c[i]
       /\ \A i \in 1 .. Len(c) - 1 : i \in 1 .. Len(c)
  <2>1. PICK S : S = 0 .. count
    OBVIOUS
  <2>2. c \in Seq(S) /\ Len(c) # 0
    BY <1>6, <1>9, <2>1
  <2>3. /\ d \in Seq(S) /\ Len(d) = Len(c) - 1 /\ Last(c) = c[Len(c)] /\ Last(c) \in S /\ Len(c) \in Nat \ {0}
        /\ \A i \in 1 .. Len(c) - 1 : d[i] = c[i] /\ i \in 1 .. Len(c)
    BY <1>10, <2>2, FrontFacts
  <2>4. Len(c) \in 1 .. Len(c)
    BY <2>3
  <2> QED BY <2>1, <2>3, <2>4
<1>12. /\ x[1] = k /\ x[2] = o /\ c \in Seq(Nat) /\ \A h \in H : h[1] <= x[1]
       /\ instance'[x[2]] = c[Len(c)] /\ \A h \in H : h[2] # x[2] => instance'[h[2]] = instance[h[2]]
  <2>1. \A h \in H : h[2] \in Objects
    BY <1>7, PlacesFacts
  <2>2. x[1] = k /\ x[2] = o /\ c \in Seq(Nat)
    BY <1>2, <1>6
  <2>3. instance'[x[2]] = c[Len(c)] /\ \A h \in H : h[2] # x[2] => instance'[h[2]] = instance[h[2]]
    BY <1>5, <1>6, <1>11, <2>1, <2>2
  <2> QED BY <1>4, <2>2, <2>3
<1>13. ASSUME Top.phase = "ending" PROVE ScopesOK'
  <2>1. InstancesKept(running, H, {x}, c, instance, uses) /\ Len(c) = Cardinality(H) + 1
    BY <1>4, <1>7, <1>9, <1>13
  <2>2. InstancesKept(running, H, {}, d, instance', uses)
    <3>1. \A i \in 1 .. Len(c) - 1 : d[i] = c[i]
      BY <1>11
    <3> QED BY <1>4, <1>7, <1>12, <2>1, <3>1, PopTestKeeps
  <2>3. Len(d) = Cardinality(H) + Cardinality({})
    BY <1>8, <1>11, <2>1
  <2> QED BY <1>1, <1>4, <1>5, <1>7, <1>8, <1>10, <1>13, <2>2, <2>3, ScopesAfterHook
<1>14. ASSUME Top.phase = "closing" PROVE ScopesOK'
  <2>1. InstancesKept(running, H, {}, c, instance, uses) /\ Len(c) = Cardinality(H)
    BY <1>4, <1>7, <1>9, <1>14
  <2>2. InstancesKept(running, H \ {x}, {}, d, instance', uses)
    <3>1. \A i \in 1 .. Len(c) - 1 : d[i] = c[i]
      BY <1>11
    <3> QED BY <1>4, <1>7, <1>12, <2>1, <3>1, PopSuiteKeeps
  <2>3. Len(d) = Cardinality(H \ {x}) + Cardinality({})
    BY <1>8, <1>11, <2>1
  <2> QED BY <1>1, <1>4, <1>5, <1>7, <1>8, <1>10, <1>14, <2>2, <2>3, ScopesAfterHook
<1>15. ScopesOK'
  BY <1>13, <1>14
<1>16. \A i \in 1 .. Len(c) : c[i] # NoInstance => \E u \in uses : u.lib = o.lib /\ u.instance = c[i]
  BY <1>1, <1>2, <1>3 DEF InstancesUsed
<1>17. /\ Last(c) # NoInstance => \E u \in uses : u.lib = o.lib /\ u.instance = Last(c)
       /\ \A i \in 1 .. Len(d) : d[i] # NoInstance => \E u \in uses : u.lib = o.lib /\ u.instance = d[i]
  BY <1>11, <1>16
<1>18. /\ TypeOK' /\ FramesOK' /\ ObjectsOK' /\ GlobalsOK' /\ UsesOK' /\ InstancesUsed'
       /\ OneInstancePerScope' /\ NoInstanceInTwoScopes'
  BY <1>1, <1>3, <1>5, <1>10, <1>11, <1>17, InstanceMoves
<1> QED BY <1>15, <1>18 DEF LibraryBookkeeping

LEMMA HookKeeps ==
  ASSUME LibraryBookkeeping, OneNamePerSuite, NEW o \in Objects, Hook(o)
  PROVE  LibraryBookkeeping'
<1>1. SetLibState(LibState) => UNCHANGED libState
  BY DEF SetLibState, LibState, libState
<1>2. CASE In("starting") /\ SetLibState(StartTestHook(LibState, o))
  <2>1. Top.phase = "starting"
    BY <1>2 DEF In
  <2>2. CASE Scope[o.lib] = "TESTCASE"
    BY <1>2, <2>1, <2>2, StartTestHookKeeps DEF StartTestHook
  <2>3. CASE Scope[o.lib] # "TESTCASE"
    BY <1>1, <1>2, <2>1, <2>3, HookWithoutEffect DEF StartTestHook
  <2> QED BY <2>2, <2>3
<1>3. CASE In("ending") /\ SetLibState(EndTestHook(LibState, o))
  <2>1. Top.phase = "ending"
    BY <1>3 DEF In
  <2>2. CASE Scope[o.lib] = "TESTCASE"
    BY <1>3, <2>1, <2>2, RestoringKeeps DEF EndTestHook
  <2>3. CASE Scope[o.lib] # "TESTCASE"
    BY <1>1, <1>3, <2>1, <2>3, HookWithoutEffect DEF EndTestHook
  <2> QED BY <2>2, <2>3
<1>4. CASE In("closing") /\ SetLibState(EndSuiteHook(LibState, o))
  <2>1. Top.phase = "closing"
    BY <1>4 DEF In
  <2>2. CASE ~IsGlobal(o.lib)
    BY <1>4, <2>1, <2>2, RestoringKeeps DEF EndSuiteHook, IsGlobal
  <2>3. CASE IsGlobal(o.lib)
    BY <1>1, <1>4, <2>1, <2>3, HookWithoutEffect DEF EndSuiteHook, IsGlobal
  <2> QED BY <2>2, <2>3
<1> QED BY <1>2, <1>3, <1>4 DEF Hook

-----------------------------------------------------------------------------
(* Imports *)

LEMMA ProceedStep ==
  ASSUME TypeOK, running # <<>>, NEW x \in FrameType, Proceed(x), NEW k, k = Len(running)
  PROVE  /\ running' \in Seq(FrameType) /\ Len(running') = k /\ running' # <<>>
         /\ DOMAIN running' = 1 .. k /\ Top' = x /\ running'[k] = x
         /\ \A n \in 1 .. k - 1 : running'[n] = running[n]
<1>1. running \in Seq(FrameType)
  BY FrameFacts
<1>2. running' = Append(Front(running), x)
  BY DEF Proceed
<1>3. /\ running' \in Seq(FrameType) /\ running' # <<>> /\ Len(running') = k /\ running'[k] = x
      /\ \A i \in 1 .. k - 1 : running'[i] = running[i]
  BY <1>1, <1>2, ProceedFacts
<1>4. DOMAIN running' = 1 .. k /\ Top' = running'[k]
  BY <1>3, LenProperties DEF Top
<1> QED BY <1>3, <1>4

Plain(l) == [lib |-> l, name |-> NoName, suite |-> Root]

LEMMA CreatedFacts ==
  ASSUME TypeOK, NEW l \in Libraries, NEW C, C = Created(LibState, l)
  PROVE  /\ C = [created |-> C.created, instance |-> C.instance, cache |-> C.cache,
                 bound |-> C.bound, swapped |-> C.swapped, count |-> C.count]
         /\ C.created = created \cup {l} /\ C.cache = cache /\ C.swapped = swapped
         /\ C.count \in Nat /\ C.count >= count
         /\ C.bound \in [Libraries -> 0 .. C.count] /\ C.bound[l] # NoInstance
         /\ \A m \in Libraries : m # l \/ m \in created => C.bound[m] = bound[m]
         /\ C.instance \in [Objects -> 0 .. C.count]
         /\ \A p \in Objects : p # Plain(l) \/ l \in created => C.instance[p] = instance[p]
         /\ l \notin created => C.instance[Plain(l)] = IF IsGlobal(l) THEN C.bound[l] ELSE NoInstance
<1>1. CASE l \in created
  <2>1. C = LibState
    BY <1>1 DEF Created, LibState
  <2>2. /\ C.created = created /\ C.instance = instance /\ C.cache = cache
        /\ C.bound = bound /\ C.swapped = swapped /\ C.count = count
        /\ C = [created |-> C.created, instance |-> C.instance, cache |-> C.cache,
                bound |-> C.bound, swapped |-> C.swapped, count |-> C.count]
    BY <2>1 DEF LibState
  <2>3. /\ count \in Nat /\ instance \in [Objects -> 0 .. count] /\ bound \in [Libraries -> 0 .. count]
        /\ created = created \cup {l} /\ bound[l] # NoInstance
    BY <1>1 DEF TypeOK
  <2>4. count >= count
    BY <2>3
  <2> QED BY <1>1, <2>2, <2>3, <2>4
<1>2. CASE l \notin created
  <2>1. /\ count \in Nat /\ instance \in [Objects -> 0 .. count] /\ bound \in [Libraries -> 0 .. count]
        /\ Plain(l) \in Objects /\ count + 1 \in Nat /\ 0 .. count \subseteq 0 .. count + 1
        /\ count + 1 \in 0 .. count + 1 /\ NoInstance \in 0 .. count + 1 /\ count + 1 # NoInstance
    BY DEF TypeOK, Plain, Objects, NoInstance
  <2>2. PICK v : v = IF IsGlobal(l) THEN count + 1 ELSE NoInstance
    OBVIOUS
  <2>3. /\ C.created = created \cup {l} /\ C.cache = cache /\ C.swapped = swapped /\ C.count = count + 1
        /\ C.bound = [bound EXCEPT ![l] = count + 1] /\ C.instance = [instance EXCEPT ![Plain(l)] = v]
        /\ C = [created |-> C.created, instance |-> C.instance, cache |-> C.cache,
                bound |-> C.bound, swapped |-> C.swapped, count |-> C.count]
    BY <1>2, <2>2 DEF Created, LibState, Plain, IsGlobal
  <2>4. C.bound \in [Libraries -> 0 .. count + 1] /\ C.bound[l] = count + 1
        /\ \A m \in Libraries : m # l => C.bound[m] = bound[m]
    BY <2>1, <2>3
  <2>5. C.instance \in [Objects -> 0 .. count + 1] /\ C.instance[Plain(l)] = v
        /\ \A p \in Objects : p # Plain(l) => C.instance[p] = instance[p]
    BY <2>1, <2>2, <2>3
  <2> QED BY <1>2, <2>1, <2>2, <2>3, <2>4, <2>5
<1> QED BY <1>1, <1>2

\* The hooks that are called when a library is imported.
IsLibState(C) ==
  /\ C = [created |-> C.created, instance |-> C.instance, cache |-> C.cache,
          bound |-> C.bound, swapped |-> C.swapped, count |-> C.count]
  /\ C.instance \in [Objects -> 0 .. C.count] /\ C.cache \in [Libraries -> Seq(Nat)] /\ C.swapped \subseteq Objects

Hooked(C, o, inTest, w, B) ==
  /\ B.created = C.created /\ B.bound = C.bound /\ B.count = C.count /\ B.swapped \subseteq Objects
  /\ IsGlobal(o.lib) => B.cache = C.cache /\
       B.instance = IF o.name = NoName THEN C.instance ELSE [C.instance EXCEPT ![o] = C.bound[o.lib]]
  /\ ~IsGlobal(o.lib) => /\ B.instance = [C.instance EXCEPT ![o] = NoInstance]
                         /\ B.cache = [C.cache EXCEPT ![o.lib] =
                              IF inTest /\ Scope[o.lib] = "TESTCASE"
                              THEN Append(Append(@, w), NoInstance) ELSE Append(@, w)]

LEMMA ImportedFacts ==
  ASSUME NEW o \in Objects, NEW swap, NEW inTest \in BOOLEAN, NEW C, NEW A, NEW B, NEW w,
         IsLibState(C),
         A = StartSuiteHook(Copied(C, o, swap), o),
         B = IF inTest THEN StartTestHook(A, o) ELSE A,
         w = IF o.name = NoName THEN C.instance[o] ELSE NoInstance
  PROVE  Hooked(C, o, inTest, w, B)
<1> USE DEF IsLibState, Hooked
<1>1. o.lib \in Libraries
  BY ObjectFacts
<1>2. PICK K : K = Copied(C, o, swap)
  OBVIOUS
<1>3. /\ K.created = C.created /\ K.bound = C.bound /\ K.count = C.count /\ K.cache = C.cache
      /\ K.swapped \subseteq Objects
      /\ K.instance = IF o.name = NoName THEN C.instance
                      ELSE [C.instance EXCEPT ![o] = IF IsGlobal(o.lib) THEN C.bound[o.lib] ELSE NoInstance]
      /\ K = [created |-> K.created, instance |-> K.instance, cache |-> K.cache,
              bound |-> K.bound, swapped |-> K.swapped, count |-> K.count]
  <2>1. CASE o.name = NoName
    BY <1>2, <2>1 DEF Copied
  <2>2. CASE o.name # NoName
    BY <1>2, <2>2 DEF Copied, IsGlobal
  <2> QED BY <2>1, <2>2
<1>4. CASE IsGlobal(o.lib)
  <2>1. A = K /\ B = A
    BY <1>2, <1>4 DEF StartSuiteHook, StartTestHook, IsGlobal
  <2> QED BY <1>3, <1>4, <2>1
<1>5. CASE ~IsGlobal(o.lib)
  <2>1. A = CachingStart(K, o)
    BY <1>2, <1>5 DEF StartSuiteHook, IsGlobal
  <2>2. K.instance[o] = w
    BY <1>3, <1>5
  <2>3. /\ A.created = C.created /\ A.bound = C.bound /\ A.count = C.count /\ A.swapped \subseteq Objects
        /\ A.cache = [C.cache EXCEPT ![o.lib] = Append(@, w)]
        /\ A.instance = [K.instance EXCEPT ![o] = NoInstance]
        /\ A = [created |-> A.created, instance |-> A.instance, cache |-> A.cache,
                bound |-> A.bound, swapped |-> A.swapped, count |-> A.count]
    BY <1>3, <2>1, <2>2 DEF CachingStart
  <2>4. A.instance = [C.instance EXCEPT ![o] = NoInstance]
    BY <1>3, <2>3
  <2>5. A.instance[o] = NoInstance /\ [A.instance EXCEPT ![o] = NoInstance] = A.instance
    BY <2>4
  <2>6. CASE inTest /\ Scope[o.lib] = "TESTCASE"
    <3>1. B = CachingStart(A, o)
      BY <2>6 DEF StartTestHook
    <3>2. /\ B.created = A.created /\ B.bound = A.bound /\ B.count = A.count /\ B.swapped = A.swapped
          /\ B.cache = [A.cache EXCEPT ![o.lib] = Append(@, NoInstance)]
          /\ B.instance = A.instance
      BY <2>3, <2>5, <3>1 DEF CachingStart
    <3>3. B.cache = [C.cache EXCEPT ![o.lib] = Append(Append(@, w), NoInstance)]
      BY <1>1, <2>3, <3>2
    <3> QED BY <1>5, <2>3, <2>4, <2>6, <3>2, <3>3
  <2>7. CASE ~ (inTest /\ Scope[o.lib] = "TESTCASE")
    <3>1. B = A
      BY <2>7 DEF StartTestHook
    <3> QED BY <1>5, <2>3, <2>4, <2>7, <3>1
  <2> QED BY <2>6, <2>7
<1> QED BY <1>4, <1>5

\* What importing l does, if the objects in X, of which there is at most o, are
\* new in the namespace, where w is what is put aside.
Imported(l, o, pos, X, w) ==
  /\ o \in Objects /\ o.lib = l
  /\ X = {} \/ (X = {o} /\ \A p \in Top.libs : p.lib # l)
  /\ Proceed([Top EXCEPT !.pos = pos, !.libs = @ \cup X])
  /\ created' = created \cup {l} /\ swapped' \subseteq Objects
  /\ count' \in Nat /\ count' >= count
  /\ bound' \in [Libraries -> 0 .. count'] /\ bound'[l] # NoInstance
  /\ \A m \in Libraries : m # l \/ m \in created => bound'[m] = bound[m]
  /\ instance' \in [Objects -> 0 .. count']
  /\ \A p \in Objects \ X : p # Plain(l) \/ l \in created => instance'[p] = instance[p]
  /\ IsGlobal(l) => /\ instance'[Plain(l)] = bound'[l] /\ cache' = cache
                    /\ X = {o} => instance'[o] = bound'[l]
  /\ ~IsGlobal(l) =>
       /\ \A p \in Objects : instance'[p] # NoInstance => instance'[p] = instance[p]
       /\ X = {} => cache' = cache
       /\ X = {o} =>
            /\ instance'[o] = NoInstance
            /\ w \in {NoInstance, instance[o]} /\ (o.name = NoName /\ l \in created => w = instance[o])
            /\ cache' = [cache EXCEPT ![l] = IF InTest(Top) /\ Scope[l] = "TESTCASE"
                                             THEN Append(Append(@, w), NoInstance) ELSE Append(@, w)]

LEMMA ImportEffect ==
  ASSUME LibraryBookkeeping, OneNamePerSuite, running # <<>>, NEW i \in Import,
         i \in Range(Imports[Top.suite]) \cup Runtime, NEW pos \in Nat, ImportInto(i, pos)
  PROVE  \E o, X, w : o = Object(i, Top.suite) /\ Imported(i.lib, o, pos, X, w)
<1>1. TypeOK /\ ObjectsOK /\ GlobalsOK
  BY DEF LibraryBookkeeping
<1>2. PICK l, o, k : l = i.lib /\ o = Object(i, Top.suite) /\ k = Len(running)
  OBVIOUS
<1>3. /\ Top \in FrameType /\ Top.suite \in Suites /\ Top.libs \subseteq Objects /\ Top = running[k]
      /\ k \in DOMAIN running
  BY <1>1, <1>2, FrameFacts DEF FrameType
<1>4. /\ l \in Libraries /\ o \in Objects /\ o.lib = l /\ o.name = i.name
      /\ o.name = NoName => o = Plain(l)
      /\ Plain(l) \in Objects /\ Plain(l).lib = l
  BY <1>2, <1>3, LibraryAssumption DEF Object, Objects, Import, Plain
<1>5. PICK C : C = Created(LibState, l)
  OBVIOUS
<1>6. /\ C = [created |-> C.created, instance |-> C.instance, cache |-> C.cache,
              bound |-> C.bound, swapped |-> C.swapped, count |-> C.count]
      /\ C.created = created \cup {l} /\ C.cache = cache /\ C.swapped = swapped
      /\ C.count \in Nat /\ C.count >= count
      /\ C.bound \in [Libraries -> 0 .. C.count] /\ C.bound[l] # NoInstance
      /\ \A m \in Libraries : m # l \/ m \in created => C.bound[m] = bound[m]
      /\ C.instance \in [Objects -> 0 .. C.count]
      /\ \A p \in Objects : p # Plain(l) \/ l \in created => C.instance[p] = instance[p]
      /\ l \notin created => C.instance[Plain(l)] = IF IsGlobal(l) THEN C.bound[l] ELSE NoInstance
  BY <1>1, <1>4, <1>5, CreatedFacts
<1>7. IsGlobal(l) => C.instance[Plain(l)] = C.bound[l]
  <2>1. CASE l \in created
    <3>1. C.instance[Plain(l)] = instance[Plain(l)] /\ C.bound[l] = bound[l]
      BY <1>4, <1>6, <2>1
    <3>2. IsGlobal(l) => instance[Plain(l)] = bound[l]
      BY <1>1, <1>4, <2>1 DEF GlobalsOK, Plain
    <3> QED BY <3>1, <3>2
  <2>2. CASE l \notin created
    BY <1>6, <2>2
  <2> QED BY <2>1, <2>2
<1>8. ~IsGlobal(l) => \A p \in Objects : C.instance[p] # NoInstance => C.instance[p] = instance[p]
  BY <1>6
<1>9. swapped \subseteq Objects /\ C.cache \in [Libraries -> Seq(Nat)]
  <2>1. cache \in [Libraries -> Seq(0 .. count)] /\ 0 .. count \subseteq Nat
    BY <1>1 DEF TypeOK
  <2>2. \A q \in Seq(0 .. count) : q \in Seq(Nat)
    <3> SUFFICES ASSUME NEW q \in Seq(0 .. count) PROVE q \in Seq(Nat)
      OBVIOUS
    <3>1. count \in Nat
      BY <1>1 DEF TypeOK
    <3> QED BY <3>1
  <2> QED BY <1>1, <1>6, <2>1, <2>2 DEF TypeOK
<1>10. CASE Known(Top.libs, o)
  <2>1. SetLibState(C) /\ Proceed([Top EXCEPT !.pos = pos])
    BY <1>2, <1>5, <1>10 DEF ImportInto
  <2>2. [Top EXCEPT !.pos = pos] = [Top EXCEPT !.pos = pos, !.libs = @ \cup {}]
    BY <1>3 DEF FrameType
  <2>3. Imported(l, o, pos, {}, NoInstance)
    <3>1. /\ created' = C.created /\ instance' = C.instance /\ cache' = C.cache
          /\ bound' = C.bound /\ swapped' = C.swapped /\ count' = C.count
      BY <2>1 DEF SetLibState
    <3>2. PICK X, w : X = {} /\ ~ (X = {o}) /\ w = NoInstance
      <4>1. {} # {o}
        OBVIOUS
      <4> QED BY <4>1
    <3>3. /\ \A p \in Objects \ X : p # Plain(l) \/ l \in created => instance'[p] = instance[p]
          /\ X = {} \/ (X = {o} /\ \A p \in Top.libs : p.lib # l)
          /\ Proceed([Top EXCEPT !.pos = pos, !.libs = @ \cup X])
      BY <1>6, <2>1, <2>2, <3>1, <3>2
    <3>4. /\ IsGlobal(l) => instance'[Plain(l)] = bound'[l] /\ cache' = cache
          /\ ~IsGlobal(l) => \A p \in Objects : instance'[p] # NoInstance => instance'[p] = instance[p]
          /\ cache' = cache
      BY <1>6, <1>7, <1>8, <3>1
    <3>5. /\ created' = created \cup {l} /\ swapped' \subseteq Objects
          /\ count' \in Nat /\ count' >= count
          /\ bound' \in [Libraries -> 0 .. count'] /\ bound'[l] # NoInstance
          /\ \A m \in Libraries : m # l \/ m \in created => bound'[m] = bound[m]
          /\ instance' \in [Objects -> 0 .. count']
      BY <1>6, <1>9, <3>1
    <3>6. Imported(l, o, pos, X, w)
      BY <1>4, <3>2, <3>3, <3>4, <3>5 DEF Imported
    <3> QED BY <3>2, <3>6
  <2> QED BY <1>2, <2>3
<1>11. CASE ~Known(Top.libs, o)
  <2>1. PICK swap \in BOOLEAN :
          LET A == StartSuiteHook(Copied(C, o, swap), o)
          IN SetLibState(IF InTest(Top) THEN StartTestHook(A, o) ELSE A)
    BY <1>2, <1>5, <1>11 DEF ImportInto
  <2>2. Proceed([Top EXCEPT !.pos = pos, !.libs = @ \cup {o}])
    BY <1>2, <1>5, <1>11 DEF ImportInto
  <2>3. PICK A, B, w, inTest : /\ A = StartSuiteHook(Copied(C, o, swap), o)
                               /\ B = IF inTest THEN StartTestHook(A, o) ELSE A
                               /\ w = IF o.name = NoName THEN C.instance[o] ELSE NoInstance
                               /\ inTest = InTest(Top)
    OBVIOUS
  <2>4. SetLibState(B) /\ inTest \in BOOLEAN
    BY <2>1, <2>3 DEF InTest
  <2>5. /\ B.created = C.created /\ B.bound = C.bound /\ B.count = C.count /\ B.swapped \subseteq Objects
        /\ IsGlobal(o.lib) => B.cache = C.cache /\
             B.instance = IF o.name = NoName THEN C.instance ELSE [C.instance EXCEPT ![o] = C.bound[o.lib]]
        /\ ~IsGlobal(o.lib) => /\ B.instance = [C.instance EXCEPT ![o] = NoInstance]
                               /\ B.cache = [C.cache EXCEPT ![o.lib] =
                                    IF inTest /\ Scope[o.lib] = "TESTCASE"
                                    THEN Append(Append(@, w), NoInstance) ELSE Append(@, w)]
    <3>1. IsLibState(C)
      BY <1>6, <1>9 DEF IsLibState
    <3>2. /\ A = StartSuiteHook(Copied(C, o, swap), o)
          /\ B = IF inTest THEN StartTestHook(A, o) ELSE A
          /\ w = IF o.name = NoName THEN C.instance[o] ELSE NoInstance
      BY <2>3
    <3>3. Hooked(C, o, inTest, w, B)
      BY <1>4, <2>4, <3>1, <3>2, ImportedFacts
    <3> QED BY <3>3 DEF Hooked
  <2>6. /\ created' = B.created /\ instance' = B.instance /\ cache' = B.cache
        /\ bound' = B.bound /\ swapped' = B.swapped /\ count' = B.count
    BY <2>4 DEF SetLibState
  <2>7. \A p \in Top.libs : p.lib # l
    <3> SUFFICES ASSUME NEW p \in Top.libs, p.lib = l PROVE FALSE
      OBVIOUS
    <3>1. p.name = o.name
      BY <1>1, <1>2, <1>3, <1>4 DEF ObjectsOK, OneNamePerSuite
    <3>2. NameOf(p) = NameOf(o)
      BY <1>4, <3>1 DEF NameOf
    <3> QED BY <1>11, <3>2 DEF Known
  <2>8. ~IsGlobal(l) =>
          w \in {NoInstance, instance[o]} /\ (o.name = NoName /\ l \in created => w = instance[o])
    <3>1. CASE o.name = NoName
      <4>1. w = C.instance[o] /\ o = Plain(l)
        BY <1>4, <2>3, <3>1
      <4> QED BY <1>4, <1>6, <4>1
    <3>2. CASE o.name # NoName
      BY <2>3, <3>2
    <3> QED BY <3>1, <3>2
  <2>9. /\ instance' \in [Objects -> 0 .. count']
        /\ \A p \in Objects \ {o} : instance'[p] = C.instance[p]
        /\ IsGlobal(l) => instance'[o] = bound'[l] /\ instance'[Plain(l)] = bound'[l] /\ cache' = cache
        /\ ~IsGlobal(l) => instance'[o] = NoInstance
    <3>1. CASE IsGlobal(l)
      <4>1. CASE o.name = NoName
        BY <1>4, <1>6, <1>7, <2>5, <2>6, <3>1, <4>1
      <4>2. CASE o.name # NoName
        <5>1. o # Plain(l)
          BY <4>2 DEF Plain
        <5>2. instance' = [C.instance EXCEPT ![o] = C.bound[l]] /\ bound' = C.bound /\ count' = C.count
          BY <1>4, <2>5, <2>6, <3>1, <4>2
        <5>3. C.bound[l] \in 0 .. C.count
          BY <1>4, <1>6
        <5> QED BY <1>4, <1>6, <1>7, <2>5, <2>6, <3>1, <5>1, <5>2, <5>3
      <4> QED BY <4>1, <4>2
    <3>2. CASE ~IsGlobal(l)
      <4>1. instance' = [C.instance EXCEPT ![o] = NoInstance] /\ count' = C.count
        BY <1>4, <2>5, <2>6, <3>2
      <4>2. NoInstance \in 0 .. C.count
        BY <1>6 DEF NoInstance
      <4> QED BY <1>4, <1>6, <3>2, <4>1, <4>2
    <3> QED BY <3>1, <3>2
  <2>10. ~IsGlobal(l) => cache' = [cache EXCEPT ![l] = IF InTest(Top) /\ Scope[l] = "TESTCASE"
                                             THEN Append(Append(@, w), NoInstance) ELSE Append(@, w)]
    BY <1>4, <1>6, <2>3, <2>5, <2>6
  <2>11. ~IsGlobal(l) => \A p \in Objects : instance'[p] # NoInstance => instance'[p] = instance[p]
    BY <1>8, <2>9
  <2>12. \A p \in Objects \ {o} : p # Plain(l) \/ l \in created => instance'[p] = instance[p]
    BY <1>6, <2>9
  <2>13. /\ created' = created \cup {l} /\ swapped' \subseteq Objects
         /\ count' \in Nat /\ count' >= count
         /\ bound' \in [Libraries -> 0 .. count'] /\ bound'[l] # NoInstance
         /\ \A m \in Libraries : m # l \/ m \in created => bound'[m] = bound[m]
    BY <1>6, <2>5, <2>6
  <2>14. Imported(l, o, pos, {o}, w)
    BY <1>4, <2>2, <2>7, <2>8, <2>9, <2>10, <2>11, <2>12, <2>13 DEF Imported
  <2> QED BY <1>2, <2>14
<1> QED BY <1>10, <1>11

\* A step that imports.
ImportStep(i, o, pos, X, w) ==
  /\ running # <<>> /\ Top.phase \in {"imports", "setup", "test", "teardown"}
  /\ i \in Import /\ i \in Range(Imports[Top.suite]) \cup Runtime
  /\ pos \in Nat /\ (IF Top.phase = "imports" THEN pos > 0 ELSE pos = Top.pos)
  /\ o = Object(i, Top.suite) /\ Imported(i.lib, o, pos, X, w)
  /\ UNCHANGED <<todo, started, uses>>

LEMMA ImportFrames ==
  ASSUME LibraryBookkeeping, NEW i, NEW o, NEW pos, NEW X, NEW w, ImportStep(i, o, pos, X, w),
         NEW k, k = Len(running)
  PROVE  /\ k \in Nat \ {0} /\ DOMAIN running = 1 .. k /\ Top = running[k] /\ Top.libs \subseteq Objects
         /\ X \subseteq {o} /\ o \in Objects /\ i.lib \in Libraries /\ o.lib = i.lib /\ o.name = i.name
         /\ running' \in Seq(FrameType) /\ Len(running') = k /\ running' # <<>>
         /\ DOMAIN running' = 1 .. k /\ Top' = running'[k]
         /\ running'[k].suite = Top.suite /\ running'[k].phase = Top.phase /\ running'[k].pos = pos
         /\ running'[k].libs = Top.libs \cup X
         /\ \A n \in 1 .. k - 1 : /\ running'[n] = running[n] /\ n \in 1 .. k /\ n < k
                                  /\ running[n].phase = "suites"
         /\ \A n \in 1 .. k : n \in 1 .. k - 1 \/ n = k
         /\ todo = {}
<1>1. TypeOK /\ FramesOK /\ running # <<>>
  BY DEF LibraryBookkeeping, ImportStep
<1>2. /\ k \in Nat \ {0} /\ DOMAIN running = 1 .. k /\ Top = running[k] /\ Top \in FrameType /\ Top.libs \subseteq Objects
  BY <1>1, FrameFacts DEF FrameType
<1>3. /\ X \subseteq {o} /\ o \in Objects /\ i.lib \in Libraries /\ o.lib = i.lib /\ o.name = i.name
      /\ Proceed([Top EXCEPT !.pos = pos, !.libs = @ \cup X]) /\ pos \in Nat
  BY DEF ImportStep, Imported, Object, Import
<1>4. PICK x : x = [Top EXCEPT !.pos = pos, !.libs = @ \cup X]
  OBVIOUS
<1>5. x \in FrameType /\ x.suite = Top.suite /\ x.phase = Top.phase /\ x.pos = pos /\ x.libs = Top.libs \cup X
  BY <1>2, <1>3, <1>4 DEF FrameType
<1>6. /\ running' \in Seq(FrameType) /\ Len(running') = k /\ running' # <<>>
      /\ DOMAIN running' = 1 .. k /\ Top' = x /\ running'[k] = x
      /\ \A n \in 1 .. k - 1 : running'[n] = running[n]
  BY <1>1, <1>3, <1>4, <1>5, ProceedStep
<1>7. /\ \A n \in 1 .. k - 1 : n \in 1 .. k /\ n < k
      /\ \A n \in 1 .. k : n \in 1 .. k - 1 \/ n = k
  BY <1>2
<1>8. \A n \in 1 .. k - 1 : running[n].phase = "suites"
  BY <1>1, <1>2, <1>7 DEF FramesOK
<1>9. todo = {}
  BY <1>1 DEF FramesOK, ImportStep
<1> QED BY <1>2, <1>3, <1>5, <1>6, <1>7, <1>8, <1>9

LEMMA ImportKeepsFrames ==
  ASSUME LibraryBookkeeping, NEW i, NEW o, NEW pos, NEW X, NEW w, ImportStep(i, o, pos, X, w)
  PROVE  TypeOK' /\ FramesOK' /\ ObjectsOK' /\ UsesOK'
<1>1. TypeOK /\ FramesOK /\ ObjectsOK /\ UsesOK
  BY DEF LibraryBookkeeping
<1>2. PICK k, l : k = Len(running) /\ l = i.lib
  OBVIOUS
<1>3. /\ k \in Nat \ {0} /\ DOMAIN running = 1 .. k /\ Top = running[k] /\ Top.libs \subseteq Objects
      /\ X \subseteq {o} /\ o \in Objects /\ l \in Libraries /\ o.lib = l /\ o.name = i.name
      /\ running' \in Seq(FrameType) /\ Len(running') = k /\ running' # <<>>
      /\ DOMAIN running' = 1 .. k /\ Top' = running'[k]
      /\ running'[k].suite = Top.suite /\ running'[k].phase = Top.phase /\ running'[k].pos = pos
      /\ running'[k].libs = Top.libs \cup X
      /\ \A n \in 1 .. k - 1 : /\ running'[n] = running[n] /\ n \in 1 .. k /\ n < k
                               /\ running[n].phase = "suites"
      /\ \A n \in 1 .. k : n \in 1 .. k - 1 \/ n = k
      /\ todo = {}
  BY <1>2, ImportFrames
<1>4. /\ Top.phase \in {"imports", "setup", "test", "teardown"}
      /\ i \in Range(Imports[Top.suite]) \cup Runtime
      /\ pos \in Nat /\ (Top.phase # "imports" => pos = Top.pos) /\ (Top.phase = "imports" => pos > 0)
      /\ o = Object(i, Top.suite) /\ UNCHANGED <<todo, started, uses>>
  BY DEF ImportStep
<1>5. /\ created' = created \cup {l} /\ swapped' \subseteq Objects
      /\ count' \in Nat /\ count' >= count
      /\ bound' \in [Libraries -> 0 .. count'] /\ bound'[l] # NoInstance
      /\ \A m \in Libraries : m # l \/ m \in created => bound'[m] = bound[m]
      /\ instance' \in [Objects -> 0 .. count']
  BY <1>2 DEF ImportStep, Imported
<1>6. TypeOK'
  <2>1. /\ cache \in [Libraries -> Seq(0 .. count)] /\ count \in Nat
        /\ created = {m \in Libraries : bound[m] # NoInstance} /\ started \subseteq Suites
        /\ instance \in [Objects -> 0 .. count]
    BY <1>1 DEF TypeOK
  <2>2. 0 .. count \subseteq 0 .. count'
    BY <1>5, <2>1
  <2>3. \A q \in Seq(0 .. count) : q \in Seq(0 .. count')
    <3> SUFFICES ASSUME NEW q \in Seq(0 .. count) PROVE q \in Seq(0 .. count')
      OBVIOUS
    <3> QED BY <1>5, <2>1, <2>2
  <2>4. cache' \in [Libraries -> Seq(0 .. count')]
    <3>1. cache \in [Libraries -> Seq(0 .. count')]
      BY <2>1, <2>3
    <3>2. CASE cache' = cache
      BY <3>1, <3>2
    <3>3. CASE cache' # cache
      <4>1. /\ w \in {NoInstance, instance[o]}
            /\ cache' = [cache EXCEPT ![l] = IF InTest(Top) /\ Scope[l] = "TESTCASE"
                                             THEN Append(Append(@, w), NoInstance) ELSE Append(@, w)]
        BY <1>2, <3>3 DEF ImportStep, Imported
      <4>2. w \in 0 .. count' /\ NoInstance \in 0 .. count'
        BY <1>3, <1>5, <2>1, <2>2, <4>1 DEF NoInstance
      <4>3. cache[l] \in Seq(0 .. count')
        BY <1>3, <3>1
      <4>4. Append(cache[l], w) \in Seq(0 .. count')
        BY <4>2, <4>3, AppendProperties
      <4>5. Append(Append(cache[l], w), NoInstance) \in Seq(0 .. count')
        BY <4>2, <4>4, AppendProperties
      <4> QED BY <1>3, <3>1, <4>1, <4>4, <4>5
    <3> QED BY <3>2, <3>3
  <2>5. created' = {m \in Libraries : bound'[m] # NoInstance}
    BY <1>3, <1>5, <2>1
  <2> QED BY <1>3, <1>4, <1>5, <2>1, <2>4, <2>5 DEF TypeOK, FrameType
<1>7. FramesOK'
  <2>1. ASSUME NEW n \in 1 .. k
        PROVE  /\ running'[n].suite = running[n].suite /\ running'[n].phase = running[n].phase
               /\ running[n].phase # "imports" => running'[n].pos = running[n].pos
    BY <1>3, <1>4
  <2>2. \A n \in 1 .. k : /\ running'[n].suite \in started' /\ (n < k => running'[n].phase = "suites")
                          /\ running'[n].phase \in {"imports", "tests", "starting", "test", "ending"} => running'[n].pos > 0
    BY <1>1, <1>2, <1>3, <1>4, <2>1 DEF FramesOK
  <2>3. \A n, m \in 1 .. k : running'[n].suite = running'[m].suite => n = m
    BY <1>1, <1>3, <2>1 DEF FramesOK
  <2> QED BY <1>3, <1>4, <2>2, <2>3 DEF FramesOK
<1>8. ObjectsOK'
  <2> SUFFICES ASSUME NEW n \in 1 .. k, NEW p \in running'[n].libs
               PROVE  /\ p.lib \in created' /\ (p.name # NoName => p.suite = running'[n].suite)
                      /\ \E j \in Range(Imports[running'[n].suite]) \cup Runtime : j.lib = p.lib /\ j.name = p.name
    BY <1>3 DEF ObjectsOK
  <2>1. running'[n].suite = running[n].suite
    BY <1>3
  <2>2. CASE p \in running[n].libs
    BY <1>1, <1>3, <1>5, <2>1, <2>2 DEF ObjectsOK
  <2>3. CASE p \notin running[n].libs
    <3>1. n = k /\ p = o
      BY <1>3, <2>3
    <3>2. o.name # NoName => o.suite = Top.suite
      BY <1>3, <1>4 DEF Object
    <3> QED BY <1>2, <1>3, <1>4, <1>5, <3>1, <3>2
  <2> QED BY <2>2, <2>3
<1>9. UsesOK'
  <2>1. \A u \in uses : u.instance <= count'
    BY <1>1, <1>5 DEF UsesOK, UseType, TypeOK
  <2>2. ASSUME NEW u \in uses, ~IsGlobal(u.lib), NEW n \in 1 .. k, u.scope.suite = running'[n].suite
        PROVE  /\ \E p \in running'[n].libs : p.lib = u.lib /\ p.name = u.name
               /\ running'[n].phase \in {"imports", "setup", "suites"} => u.scope.test = 0
               /\ running'[n].phase \in {"tests", "starting"} => u.scope.test < running'[n].pos
               /\ running'[n].phase \in {"test", "ending"} => u.scope.test <= running'[n].pos
    <3>1. /\ running'[n].suite = running[n].suite /\ running'[n].phase = running[n].phase
          /\ running[n].libs \subseteq running'[n].libs
          /\ running[n].phase # "imports" => running'[n].pos = running[n].pos
      BY <1>3, <1>4
    <3>2. /\ \E p \in running[n].libs : p.lib = u.lib /\ p.name = u.name
          /\ running[n].phase \in {"imports", "setup", "suites"} => u.scope.test = 0
          /\ running[n].phase \in {"tests", "starting"} => u.scope.test < running[n].pos
          /\ running[n].phase \in {"test", "ending"} => u.scope.test <= running[n].pos
      BY <1>1, <1>3, <2>2, <3>1 DEF UsesOK
    <3> QED BY <3>1, <3>2
  <2> QED BY <1>1, <1>3, <1>4, <2>1, <2>2 DEF UsesOK, IsGlobal
<1> QED BY <1>6, <1>7, <1>8, <1>9

LEMMA ImportKeepsInstances ==
  ASSUME LibraryBookkeeping, NEW i, NEW o, NEW pos, NEW X, NEW w, ImportStep(i, o, pos, X, w)
  PROVE  GlobalsOK' /\ InstancesUsed' /\ OneInstancePerScope' /\ NoInstanceInTwoScopes'
<1>1. TypeOK /\ ObjectsOK /\ GlobalsOK /\ InstancesUsed
  BY DEF LibraryBookkeeping
<1>2. PICK k, l : k = Len(running) /\ l = i.lib
  OBVIOUS
<1>3. /\ DOMAIN running = 1 .. k /\ Top = running[k]
      /\ X \subseteq {o} /\ o \in Objects /\ l \in Libraries /\ o.lib = l /\ DOMAIN running' = 1 .. k
      /\ running'[k].libs = Top.libs \cup X
      /\ \A n \in 1 .. k - 1 : running'[n] = running[n]
      /\ \A n \in 1 .. k : n \in 1 .. k - 1 \/ n = k
  BY <1>2, ImportFrames
<1>a. uses' = uses
  BY DEF ImportStep
<1>4. /\ created' = created \cup {l} /\ created \subseteq Libraries
      /\ \A m \in Libraries : m # l \/ m \in created => bound'[m] = bound[m]
      /\ \A p \in Objects \ X : p # Plain(l) \/ l \in created => instance'[p] = instance[p]
      /\ IsGlobal(l) => /\ instance'[Plain(l)] = bound'[l] /\ cache' = cache
                        /\ X = {o} => instance'[o] = bound'[l]
  BY <1>1, <1>2 DEF ImportStep, Imported, TypeOK
<1>5. ~IsGlobal(l) =>
        /\ \A p \in Objects : instance'[p] # NoInstance => instance'[p] = instance[p]
        /\ cache' = cache \/ (w \in {NoInstance, instance[o]} /\
             cache' = [cache EXCEPT ![l] = IF InTest(Top) /\ Scope[l] = "TESTCASE"
                                           THEN Append(Append(@, w), NoInstance) ELSE Append(@, w)])
  BY <1>2 DEF ImportStep, Imported
<1>6. /\ \A m : Plain(m).lib = m /\ (m \in Libraries => Plain(m) \in Objects)
      /\ \A n \in 1 .. k : running[n].libs \subseteq Objects
  BY <1>1, <1>3, FrameTypes, LibraryAssumption DEF Plain, Objects
<1>7. cache \in [Libraries -> Seq(0 .. count)]
  BY <1>1 DEF TypeOK
<1>8. GlobalsOK'
  <2> SUFFICES ASSUME NEW m \in Libraries, IsGlobal(m)
               PROVE  /\ cache'[m] = <<>>
                      /\ \A n \in 1 .. k : \A p \in running'[n].libs : p.lib = m => instance'[p] = bound'[m]
                      /\ m \in created' => instance'[Plain(m)] = bound'[m]
                      /\ \A u \in uses : u.lib = m =>
                           u.instance = bound'[m] /\ m \in created' /\ u.scope = [suite |-> Root, test |-> 0]
    BY <1>3, <1>a DEF GlobalsOK, IsGlobal, Plain
  <2>1. cache'[m] = <<>>
    <3>1. cache[m] = <<>>
      BY <1>1 DEF GlobalsOK
    <3>2. cache'[m] = cache[m]
      <4>1. CASE IsGlobal(l)
        BY <1>4, <4>1
      <4>2. CASE ~IsGlobal(l)
        <5>1. m # l
          BY <4>2
        <5> QED BY <1>5, <1>7, <4>2, <5>1
      <4> QED BY <4>1, <4>2
    <3> QED BY <3>1, <3>2
  <2>2. ASSUME NEW n \in 1 .. k, NEW p \in running'[n].libs, p.lib = m PROVE instance'[p] = bound'[m]
    <3>1. CASE p \in X
      BY <1>3, <1>4, <2>2, <3>1
    <3>2. CASE p \notin X
      <4>1. p \in running[n].libs
        BY <1>3, <3>2
      <4>a. m \in created
        BY <1>1, <1>3, <2>2, <4>1 DEF ObjectsOK
      <4>d. n \in DOMAIN running /\ p.lib = m
        BY <1>3, <2>2
      <4>e. \A q \in running[n].libs : q.lib = m => instance[q] = bound[m]
        BY <1>1, <4>d DEF GlobalsOK
      <4>b. instance[p] = bound[m]
        BY <4>1, <4>d, <4>e
      <4>c. p \in Objects
        BY <1>6, <4>1
      <4>2. m \in created /\ instance[p] = bound[m] /\ p \in Objects
        BY <4>a, <4>b, <4>c
      <4>3. bound'[m] = bound[m]
        BY <1>4, <4>2
      <4>4. p # Plain(l) \/ l \in created
        BY <1>6, <2>2, <4>2
      <4>5. instance'[p] = instance[p]
        BY <1>4, <3>2, <4>2, <4>4
      <4> QED BY <4>2, <4>3, <4>5
    <3> QED BY <3>1, <3>2
  <2>3. ASSUME m \in created' PROVE instance'[Plain(m)] = bound'[m]
    <3>1. CASE m = l
      BY <1>4, <3>1
    <3>2. CASE m # l
      <4>1. m \in created
        BY <1>4, <2>3, <3>2
      <4>2. instance[Plain(m)] = bound[m] /\ bound'[m] = bound[m]
        BY <1>1, <1>4, <4>1 DEF GlobalsOK, Plain
      <4>3. Plain(m) \notin X /\ Plain(m) # Plain(l)
        BY <1>3, <1>6, <3>2
      <4>4. instance'[Plain(m)] = instance[Plain(m)]
        BY <1>4, <1>6, <4>3
      <4> QED BY <4>2, <4>4
    <3> QED BY <3>1, <3>2
  <2>4. ASSUME NEW u \in uses, u.lib = m
        PROVE  u.instance = bound'[m] /\ m \in created' /\ u.scope = [suite |-> Root, test |-> 0]
    <3>1. u.instance = bound[m] /\ m \in created /\ u.scope = [suite |-> Root, test |-> 0]
      BY <1>1, <2>4 DEF GlobalsOK
    <3> QED BY <1>4, <3>1
  <2> QED BY <2>1, <2>2, <2>3, <2>4
<1>9. ASSUME NEW p \in Objects, ~IsGlobal(p.lib), instance'[p] # NoInstance
      PROVE  \E u \in uses : u.lib = p.lib /\ u.instance = instance'[p]
  <2>1. instance'[p] = instance[p]
    <3>1. CASE p.lib = l
      BY <1>5, <1>9, <3>1
    <3>2. CASE p.lib # l
      BY <1>3, <1>4, <1>6, <3>2
    <3> QED BY <3>1, <3>2
  <2> QED BY <1>1, <1>9, <2>1 DEF InstancesUsed
<1>10. ASSUME NEW m \in Libraries, ~IsGlobal(m), NEW j \in 1 .. Len(cache'[m]), cache'[m][j] # NoInstance
       PROVE  \E u \in uses : u.lib = m /\ u.instance = cache'[m][j]
  <2>1. \A n \in 1 .. Len(cache[m]) : cache[m][n] # NoInstance => \E u \in uses : u.lib = m /\ u.instance = cache[m][n]
    BY <1>1, <1>10 DEF InstancesUsed
  <2>2. CASE cache'[m] = cache[m]
    BY <1>10, <2>1, <2>2
  <2>3. CASE cache'[m] # cache[m]
    <3>1. m = l
      BY <1>4, <1>5, <1>7, <2>3
    <3>2. PICK c, d : c = cache[l] /\ d = cache'[l]
      OBVIOUS
    <3>3. /\ c \in Seq(0 .. count) /\ w \in {NoInstance, instance[o]}
          /\ d = Append(c, w) \/ d = Append(Append(c, w), NoInstance)
      BY <1>3, <1>5, <1>7, <1>10, <2>3, <3>1, <3>2
    <3>4. instance[o] \in 0 .. count /\ count \in Nat
      BY <1>1, <1>3 DEF TypeOK
    <3>5. w \in 0 .. count /\ NoInstance \in 0 .. count
      BY <3>3, <3>4 DEF NoInstance
    <3>6. PICK e : e = Append(c, w)
      OBVIOUS
    <3>7. /\ e \in Seq(0 .. count) /\ Len(c) \in Nat /\ Len(e) = Len(c) + 1 /\ e[Len(c) + 1] = w
          /\ \A n \in 1 .. Len(c) : e[n] = c[n]
      BY <3>3, <3>5, <3>6, AppendProperties, LenProperties
    <3>8. w # NoInstance => \E u \in uses : u.lib = l /\ u.instance = w
      BY <1>1, <1>3, <1>10, <3>1, <3>3 DEF InstancesUsed
    <3>9. \A n \in 1 .. Len(e) : n = Len(c) + 1 \/ n \in 1 .. Len(c)
      BY <3>7
    <3>10. \A n \in 1 .. Len(e) : e[n] # NoInstance => \E u \in uses : u.lib = l /\ u.instance = e[n]
      BY <2>1, <3>1, <3>2, <3>7, <3>8, <3>9
    <3>11. CASE d = e
      BY <1>10, <3>1, <3>2, <3>10, <3>11
    <3>12. CASE d = Append(e, NoInstance)
      <4>1. /\ Len(d) = Len(e) + 1 /\ d[Len(e) + 1] = NoInstance /\ Len(e) \in Nat
            /\ \A n \in 1 .. Len(e) : d[n] = e[n]
        BY <3>5, <3>7, <3>12, AppendProperties, LenProperties
      <4>2. j # Len(e) + 1
        BY <1>10, <3>1, <3>2, <4>1
      <4>3. j \in 1 .. Len(e)
        BY <1>10, <3>1, <3>2, <4>1, <4>2
      <4> QED BY <1>10, <3>1, <3>2, <3>10, <4>1, <4>3
    <3> QED BY <3>3, <3>6, <3>11, <3>12
  <2> QED BY <2>2, <2>3
<1>11. InstancesUsed'
  BY <1>a, <1>9, <1>10 DEF InstancesUsed, IsGlobal
<1>12. OneInstancePerScope' /\ NoInstanceInTwoScopes'
  BY <1>a DEF LibraryBookkeeping, OneInstancePerScope, NoInstanceInTwoScopes
<1> QED BY <1>8, <1>11, <1>12

\* Which suites and tests have a library, after one is imported.
LEMMA ImportSets ==
  ASSUME LibraryBookkeeping, OneNamePerSuite, NEW i, NEW o, NEW pos, NEW X, NEW w, ImportStep(i, o, pos, X, w),
         NEW k, k = Len(running), NEW l \in Libraries
  PROVE  /\ l # i.lib \/ X = {} => Of(Held, l)' = Of(Held, l) /\ Of(Tested, l)' = Of(Tested, l)
         /\ l = i.lib /\ X = {o} =>
              /\ Of(Held, l)' = Of(Held, l) \cup {<<k, o>>} /\ Of(Tested, l) = {}
              /\ \A h \in Of(Held, l) : h[1] < k
              /\ (InTest(Top) /\ Scope[l] = "TESTCASE") => Of(Tested, l)' = {<<k, o>>}
              /\ ~ (InTest(Top) /\ Scope[l] = "TESTCASE") => Of(Tested, l)' = {}
<1>1. TypeOK /\ FramesOK
  BY DEF LibraryBookkeeping
<1>2. /\ k \in Nat \ {0} /\ k \in 1 .. k /\ DOMAIN running = 1 .. k /\ Top = running[k] /\ Top.libs \subseteq Objects
      /\ X \subseteq {o} /\ o \in Objects /\ o.lib = i.lib /\ DOMAIN running' = 1 .. k
      /\ running'[k].phase = Top.phase /\ running'[k].libs = Top.libs \cup X
      /\ \A n \in 1 .. k - 1 : running'[n] = running[n] /\ running[n].phase = "suites"
      /\ \A n \in 1 .. k : n \in 1 .. k - 1 \/ n = k
  BY ImportFrames
<1>3. /\ Top.phase \in {"imports", "setup", "test", "teardown"} /\ todo' = todo
      /\ X = {o} => \A p \in Top.libs : p.lib # i.lib
  <2>1. o \notin {}
    OBVIOUS
  <2> QED BY <2>1 DEF ImportStep, Imported
<1>4. /\ \A n \in 1 .. k - 1 : HeldBySuite(n)' = HeldBySuite(n) /\ HeldByTest(n) = {} /\ HeldByTest(n)' = {}
      /\ HeldBySuite(k) = Top.libs /\ HeldBySuite(k)' = Top.libs \cup X
      /\ HeldByTest(k) = (IF InTest(Top) THEN Top.libs ELSE {})
      /\ HeldByTest(k)' = (IF InTest(Top) THEN Top.libs \cup X ELSE {})
  BY <1>2, <1>3 DEF HeldBySuite, HeldByTest, InTest
<1>5. PICK F, F2, G, G2 : /\ F = [n \in 1 .. k |-> HeldBySuite(n)]
                          /\ F2 = [n \in 1 .. k |-> HeldBySuite(n)']
                          /\ G = [n \in 1 .. k |-> TestLibs(HeldByTest(n))]
                          /\ G2 = [n \in 1 .. k |-> TestLibs(HeldByTest(n)')]
  OBVIOUS
<1>6. /\ Of(Held, l) = Pairs(k, F, l) /\ Of(Held, l)' = Pairs(k, F2, l)
      /\ Of(Tested, l) = Pairs(k, G, l) /\ Of(Tested, l)' = Pairs(k, G2, l)
  BY <1>2, <1>5, SetsArePairs, SetsArePairsAfter
<1>7. /\ \A n \in 1 .. k - 1 : \A p : /\ p \in F2[n] <=> p \in F[n]
                                      /\ p \notin G[n] /\ p \notin G2[n]
      /\ F[k] = Top.libs /\ F2[k] = Top.libs \cup X
      /\ G[k] = TestLibs(IF InTest(Top) THEN Top.libs ELSE {})
      /\ G2[k] = TestLibs(IF InTest(Top) THEN Top.libs \cup X ELSE {})
      /\ \A n \in 1 .. k - 1 : n # k /\ n < k
  BY <1>2, <1>4, <1>5 DEF TestLibs
<1>8. ASSUME l # i.lib \/ X = {} PROVE Pairs(k, F2, l) = Pairs(k, F, l) /\ Pairs(k, G2, l) = Pairs(k, G, l)
  <2>1. \A p \in Objects : p.lib = l => (p \in F2[k] <=> p \in F[k]) /\ (p \in G2[k] <=> p \in G[k])
    BY <1>2, <1>7, <1>8 DEF TestLibs
  <2>2. \A n \in 1 .. k, p \in Objects : p.lib = l => (p \in F2[n] <=> p \in F[n]) /\ (p \in G2[n] <=> p \in G[n])
    BY <1>2, <1>7, <2>1
  <2>3. Pairs(k, F2, l) = Pairs(k, F, l)
    BY <2>2 DEF Pairs
  <2>4. Pairs(k, G2, l) = Pairs(k, G, l)
    BY <2>2 DEF Pairs
  <2> QED BY <2>3, <2>4
<1>9. ASSUME l = i.lib, X = {o}
      PROVE  /\ Pairs(k, F2, l) = Pairs(k, F, l) \cup {<<k, o>>} /\ Pairs(k, G, l) = {}
             /\ \A h \in Pairs(k, F, l) : h[1] < k
             /\ (InTest(Top) /\ Scope[l] = "TESTCASE") => Pairs(k, G2, l) = {<<k, o>>}
             /\ ~ (InTest(Top) /\ Scope[l] = "TESTCASE") => Pairs(k, G2, l) = {}
  <2>1. \A p \in Objects : p.lib = l => p \notin F[k] /\ p \notin G[k] /\ (p \in F2[k] <=> p = o)
    BY <1>3, <1>7, <1>9 DEF TestLibs
  <2>2. /\ \A n \in 1 .. k, p \in Objects : p.lib = l => (p \in F2[n] <=> p \in F[n] \/ (n = k /\ p = o))
        /\ \A n \in 1 .. k, p \in Objects : p.lib = l => p \notin G[n]
    BY <1>2, <1>7, <2>1
  <2>3. Pairs(k, F2, l) = Pairs(k, F, l) \cup {<<k, o>>}
    BY <1>2, <1>9, <2>2 DEF Pairs
  <2>4. Pairs(k, G, l) = {}
    BY <2>2 DEF Pairs
  <2>5. \A h \in Pairs(k, F, l) : h[1] < k
    BY <1>2, <1>7, <2>1 DEF Pairs
  <2>6. CASE InTest(Top) /\ Scope[l] = "TESTCASE"
    <3>1. \A p \in Objects : p.lib = l => (p \in G2[k] <=> p = o)
      BY <1>3, <1>7, <1>9, <2>6 DEF TestLibs
    <3>2. \A n \in 1 .. k, p \in Objects : p.lib = l => (p \in G2[n] <=> n = k /\ p = o)
      BY <1>2, <1>7, <3>1
    <3>3. Pairs(k, G2, l) = {<<k, o>>}
      BY <1>2, <1>9, <3>2 DEF Pairs
    <3> QED BY <2>3, <2>4, <2>5, <2>6, <3>3
  <2>7. CASE ~ (InTest(Top) /\ Scope[l] = "TESTCASE")
    <3>1. \A p \in Objects : p.lib = l => p \notin G2[k]
      BY <1>7, <2>7 DEF TestLibs
    <3>2. \A n \in 1 .. k, p \in Objects : p.lib = l => p \notin G2[n]
      BY <1>2, <1>7, <3>1
    <3>3. Pairs(k, G2, l) = {}
      BY <3>2 DEF Pairs
    <3> QED BY <2>3, <2>4, <2>5, <2>7, <3>3
  <2> QED BY <2>6, <2>7
<1> QED BY <1>6, <1>8, <1>9

LEMMA ImportKeepsScopes ==
  ASSUME LibraryBookkeeping, OneNamePerSuite, NEW i, NEW o, NEW pos, NEW X, NEW w, ImportStep(i, o, pos, X, w)
  PROVE  ScopesOK'
<1>1. TypeOK /\ FramesOK /\ ObjectsOK /\ UsesOK /\ ScopesOK /\ uses' = uses
  BY DEF LibraryBookkeeping, ImportStep
<1>2. PICK k : k = Len(running)
  OBVIOUS
<1>3. /\ k \in Nat \ {0} /\ DOMAIN running = 1 .. k /\ Top = running[k] /\ Top.libs \subseteq Objects
      /\ X \subseteq {o} /\ o \in Objects /\ i.lib \in Libraries /\ o.lib = i.lib /\ o.name = i.name
      /\ running' \in Seq(FrameType) /\ Len(running') = k /\ running' # <<>>
      /\ DOMAIN running' = 1 .. k /\ Top' = running'[k]
      /\ running'[k].suite = Top.suite /\ running'[k].phase = Top.phase /\ running'[k].pos = pos
      /\ running'[k].libs = Top.libs \cup X
      /\ \A n \in 1 .. k - 1 : /\ running'[n] = running[n] /\ n \in 1 .. k /\ n < k
                               /\ running[n].phase = "suites"
      /\ \A n \in 1 .. k : n \in 1 .. k - 1 \/ n = k
      /\ todo = {}
  BY <1>2, ImportFrames
<1>4. /\ Top.phase \in {"imports", "setup", "test", "teardown"}
      /\ (Top.phase # "imports" => pos = Top.pos) /\ pos \in Nat
      /\ o = Object(i, Top.suite)
      /\ X = {} \/ (X = {o} /\ \A p \in Top.libs : p.lib # i.lib)
      /\ \A p \in Objects \ X : p # Plain(i.lib) \/ i.lib \in created => instance'[p] = instance[p]
  BY DEF ImportStep, Imported
<1>5. ~IsGlobal(i.lib) =>
        /\ X = {} => cache' = cache
        /\ X = {o} =>
            /\ instance'[o] = NoInstance
            /\ w \in {NoInstance, instance[o]} /\ (o.name = NoName /\ i.lib \in created => w = instance[o])
            /\ cache' = [cache EXCEPT ![i.lib] = IF InTest(Top) /\ Scope[i.lib] = "TESTCASE"
                                                 THEN Append(Append(@, w), NoInstance) ELSE Append(@, w)]
  BY DEF ImportStep, Imported
<1>6. IsGlobal(i.lib) => cache' = cache
  BY DEF ImportStep, Imported
<1>7. cache \in [Libraries -> Seq(0 .. count)] /\ count \in Nat /\ instance \in [Objects -> 0 .. count]
  BY <1>1 DEF TypeOK
<1>8. \A n \in 1 .. k : running'[n].suite = running[n].suite
  BY <1>3
<1> SUFFICES ASSUME NEW l \in Libraries, ~IsGlobal(l)
             PROVE  /\ IsFiniteSet(Of(Held, l)') /\ IsFiniteSet(Of(Tested, l)')
                    /\ Len(cache'[l]) = Cardinality(Of(Held, l)') + Cardinality(Of(Tested, l)')
                    /\ InstancesKept(running', Of(Held, l)', Of(Tested, l)', cache'[l], instance', uses')
  BY DEF ScopesOK, IsGlobal, Of
<1>9. /\ Of(Held, l) \in Places
      /\ \A h \in Of(Held, l) : h[1] \in 1 .. k /\ h[2] \in Objects /\ h[2] \in running[h[1]].libs /\ h[2].lib = l
      /\ \A h \in Of(Tested, l) : h[1] = k /\ Top.phase \in {"starting", "test", "ending"} /\ h \in Of(Held, l)
  BY <1>1, <1>2, HeldFacts
<1>10. \A h \in Of(Held, l) : l \in created
  BY <1>1, <1>3, <1>9 DEF ObjectsOK
<1>11. \A h \in Of(Tested, l) : running'[h[1]].pos = running[h[1]].pos
  BY <1>3, <1>4, <1>9
<1>12. \A h \in Of(Held, l) : running'[h[1]].suite = running[h[1]].suite
  BY <1>8, <1>9
<1>13. \A u \in uses' \ uses : u.lib # l
  BY <1>1
<1>14. Plain(i.lib).lib = i.lib
  BY DEF Plain
<1>15. CASE l # i.lib \/ X = {}
  <2>1. Of(Held, l)' = Of(Held, l) /\ Of(Tested, l)' = Of(Tested, l)
    BY <1>2, <1>15, ImportSets
  <2>2. cache'[l] = cache[l]
    <3>1. CASE cache' = cache
      BY <3>1
    <3>2. CASE cache' # cache
      <4>1. l # i.lib
        BY <1>4, <1>5, <1>6, <1>15, <3>2
      <4> QED BY <1>4, <1>5, <1>6, <1>7, <3>2, <4>1
    <3> QED BY <3>1, <3>2
  <2>3. \A h \in Of(Held, l) : instance'[h[2]] = instance[h[2]]
    <3> SUFFICES ASSUME NEW h \in Of(Held, l) PROVE instance'[h[2]] = instance[h[2]]
      OBVIOUS
    <3>1. h[2] \in Objects /\ h[2].lib = l /\ l \in created
      BY <1>9, <1>10
    <3>2. h[2] \notin X
      BY <1>3, <1>15, <3>1
    <3>3. h[2] # Plain(i.lib) \/ i.lib \in created
      BY <1>14, <3>1
    <3> QED BY <1>4, <3>1, <3>2, <3>3
  <2>4. \A h \in Of(Held, l) : running'[h[1]].suite = running[h[1]].suite /\ instance'[h[2]] = instance[h[2]]
    BY <1>12, <2>3
  <2> QED BY <1>11, <1>13, <2>1, <2>2, <2>4, HeldKept
<1>16. CASE l = i.lib /\ X = {o}
  <2>1. PICK H, c, d, x : /\ H = Of(Held, l) /\ c = cache[l] /\ d = Append(c, w) /\ x = <<k, o>>
    OBVIOUS
  <2>2. /\ Of(Held, l)' = H \cup {x} /\ Of(Tested, l) = {} /\ \A h \in H : h[1] < k
        /\ Of(Tested, l)' = IF InTest(Top) /\ Scope[l] = "TESTCASE" THEN {x} ELSE {}
    <3>1. l = i.lib /\ X = {o} => Of(Held, l)' = Of(Held, l) \cup {<<k, o>>}
      BY <1>2, ImportSets
    <3>2. l = i.lib /\ X = {o} => Of(Tested, l) = {}
      BY <1>2, ImportSets
    <3>3. l = i.lib /\ X = {o} => \A h \in Of(Held, l) : h[1] < k
      BY <1>2, ImportSets
    <3>4. l = i.lib /\ X = {o} => ((InTest(Top) /\ Scope[l] = "TESTCASE") => Of(Tested, l)' = {<<k, o>>})
      BY <1>2, ImportSets
    <3>5. l = i.lib /\ X = {o} => (~ (InTest(Top) /\ Scope[l] = "TESTCASE") => Of(Tested, l)' = {})
      BY <1>2, ImportSets
    <3> QED BY <1>16, <2>1, <3>1, <3>2, <3>3, <3>4, <3>5
  <2>3. /\ IsFiniteSet(H) /\ Len(c) = Cardinality(H) + Cardinality({})
        /\ InstancesKept(running, H, {}, c, instance, uses)
    BY <1>1, <2>1, <2>2 DEF ScopesOK
  <2>4. Cardinality(H) \in Nat /\ Cardinality({}) = 0
    BY <2>3, FS_CardinalityType, FS_EmptySet
  <2>5. /\ H \in Places
        /\ \A h \in H : h[1] \in 1 .. k /\ h[2] \in Objects /\ h[2] \in running[h[1]].libs /\ h[2].lib = l
        /\ \A h \in H : l \in created
    BY <1>9, <1>10, <2>1
  <2>6. \A h \in H : h[2] = o => w = instance[o]
    <3> SUFFICES ASSUME NEW h \in H, h[2] = o PROVE w = instance[o]
      OBVIOUS
    <3>1. h[1] \in 1 .. k /\ h[1] # k /\ l \in created /\ o \in running[h[1]].libs
      BY <1>3, <2>2, <2>5
    <3>2. o.name = NoName
      <4> SUFFICES ASSUME o.name # NoName PROVE FALSE
        OBVIOUS
      <4>1. o.suite = Top.suite
        BY <1>3, <1>4 DEF Object
      <4>2. o.suite = running[h[1]].suite
        BY <1>1, <1>3, <3>1 DEF ObjectsOK
      <4>3. k \in 1 .. k
        BY <1>3
      <4>4. h[1] \in DOMAIN running /\ k \in DOMAIN running /\ running[h[1]].suite = running[k].suite
        BY <1>3, <3>1, <4>1, <4>2, <4>3
      <4>5. \A n, m \in DOMAIN running : running[n].suite = running[m].suite => n = m
        BY <1>1 DEF FramesOK
      <4> QED BY <3>1, <4>4, <4>5
    <3> QED BY <1>5, <1>16, <3>1, <3>2
  <2>7. PICK inst1 : inst1 = [instance EXCEPT ![o] = w]
    OBVIOUS
  <2>8. inst1[o] = w /\ \A p \in Objects : p # o => inst1[p] = instance[p]
    BY <1>3, <1>7, <2>7
  <2>9. \A h \in H : inst1[h[2]] = instance[h[2]]
    BY <2>5, <2>6, <2>8
  <2>10. InstancesKept(running', H, {}, c, inst1, uses)
    <3>1. \A h \in H : running'[h[1]].suite = running[h[1]].suite /\ inst1[h[2]] = instance[h[2]]
      BY <1>8, <2>5, <2>9
    <3>2. /\ \A h \in {} : running'[h[1]].pos = running[h[1]].pos
          /\ \A h \in H : \A u \in uses \ uses : u.lib # h[2].lib
          /\ {} \in SUBSET H
      OBVIOUS
    <3> QED BY <2>3, <2>5, <3>1, <3>2, SameIsKept
  <2>11. \A h \in H : h[2] # o => instance'[h[2]] = inst1[h[2]]
    <3> SUFFICES ASSUME NEW h \in H, h[2] # o PROVE instance'[h[2]] = inst1[h[2]]
      OBVIOUS
    <3>1. h[2] \in Objects /\ h[2] \notin X /\ i.lib \in created
      BY <1>16, <2>5
    <3> QED BY <1>4, <2>8, <3>1
  <2>12. \A u \in uses : u.lib = l => u.scope.suite # Top.suite
    <3> SUFFICES ASSUME NEW u \in uses, u.lib = l, u.scope.suite = Top.suite PROVE FALSE
      OBVIOUS
    <3>1. \E p \in Top.libs : p.lib = l
      BY <1>1, <1>3 DEF UsesOK
    <3>2. X # {}
      BY <1>16
    <3> QED BY <1>4, <1>16, <3>1, <3>2
  <2>13. uses \subseteq UseType
    BY <1>1 DEF UsesOK
  <2>14. /\ IsInstance(uses, instance'[o], o, SuiteScope(running', k))
         /\ IsInstance(uses, instance'[o], o, TestScope(running', k))
    <3>1. instance'[o] = 0
      BY <1>5, <1>16 DEF NoInstance
    <3>2. \A u \in uses : u.instance # 0
      BY <2>13 DEF UseType
    <3>3. \A u \in uses : u.lib = l => u.scope # SuiteScope(running', k) /\ u.scope # TestScope(running', k)
      BY <1>3, <2>12 DEF SuiteScope, TestScope
    <3> QED BY <1>3, <1>16, <3>1, <3>2, <3>3 DEF IsInstance
  <2>15. c \in Seq(Nat) /\ Len(c) = Cardinality(H) /\ w \in Nat
    <3>1. c \in Seq(0 .. count) /\ w \in 0 .. count
      BY <1>3, <1>5, <1>7, <1>16, <2>1 DEF NoInstance
    <3>2. c \in Seq(Nat)
      BY <1>7, <3>1
    <3> QED BY <1>7, <2>3, <2>4, <3>1, <3>2
  <2>16. InstancesKept(running', H \cup {x}, {}, d, instance', uses)
    <3>1. \A h \in H : h[1] < k
      BY <2>2
    <3>2. IsInstance(uses, instance'[o], o, SuiteScope(running', k)) /\ k \in Nat
      BY <1>3, <2>14
    <3>3. InstancesKept(running', H \cup {<<k, o>>}, {}, Append(c, inst1[o]), instance', uses)
      BY <1>3, <2>3, <2>5, <2>10, <2>11, <2>15, <3>1, <3>2, PushSuiteKeeps
    <3> QED BY <2>1, <2>8, <3>3
  <2>17. PICK H2 : H2 = H \cup {x}
    OBVIOUS
  <2>18. IsFiniteSet(H2) /\ Cardinality(H2) = Cardinality(H) + 1
    <3>1. H \in SUBSET (Nat \X Objects) /\ IsFiniteSet(H) /\ k \in Nat /\ o \in Objects
      BY <1>3, <2>3, <2>5, PlacesFacts
    <3>2. \A h \in H : h[1] < k
      BY <2>2
    <3>3. IsFiniteSet(H \cup {<<k, o>>}) /\ Cardinality(H \cup {<<k, o>>}) = Cardinality(H) + 1
      BY <3>1, <3>2, DepthOfNew
    <3> QED BY <2>1, <2>17, <3>3
  <2>19. d \in Seq(Nat) /\ Len(d) = Cardinality(H2)
    <3>1. d \in Seq(Nat) /\ Len(d) = Len(c) + 1
      BY <2>1, <2>15, AppendProperties
    <3> QED BY <2>15, <2>18, <3>1
  <2>20. H2 \in Places
    <3>1. H \in SUBSET (Nat \X Objects) /\ \A g, h \in H : g[1] = h[1] => g = h
      BY <2>5, PlacesFacts
    <3>2. x \in Nat \X Objects /\ x[1] = k
      BY <1>3, <2>1
    <3>3. \A h \in H : h[1] # x[1]
      BY <1>3, <2>2, <2>5, <3>2
    <3>4. H2 \in SUBSET (Nat \X Objects)
      BY <2>17, <3>1, <3>2
    <3>5. \A g, h \in H2 : g[1] = h[1] => g = h
      BY <2>17, <3>1, <3>3
    <3> QED BY <3>4, <3>5 DEF Places
  <2>21. CASE ~ (InTest(Top) /\ Scope[l] = "TESTCASE")
    <3>1. cache'[l] = d
      BY <1>5, <1>7, <1>16, <2>1, <2>21
    <3>2. Of(Held, l)' = H2 /\ Of(Tested, l)' = {}
      BY <2>2, <2>17, <2>21
    <3>3. IsFiniteSet({}) /\ Cardinality(H2) + Cardinality({}) = Cardinality(H2)
      BY <2>4, <2>18, FS_EmptySet
    <3>4. InstancesKept(running', H2, {}, d, instance', uses')
      BY <1>1, <2>16, <2>17
    <3> QED BY <2>18, <2>19, <3>1, <3>2, <3>3, <3>4
  <2>22. CASE InTest(Top) /\ Scope[l] = "TESTCASE"
    <3>1. cache'[l] = Append(d, NoInstance)
      BY <1>5, <1>7, <1>16, <2>1, <2>22
    <3>2. Of(Held, l)' = H2 /\ Of(Tested, l)' = {x}
      BY <2>2, <2>17, <2>22
    <3>3. IsFiniteSet({x}) /\ Cardinality({x}) = 1
      BY FS_Singleton
    <3>4. Len(Append(d, NoInstance)) = Cardinality(H2) + 1
      BY <2>18, <2>19, <2>4, AppendProperties DEF NoInstance
    <3>5. /\ x \in H2 /\ x[1] = k /\ x[2] = o /\ \A h \in H2 : h[1] <= k
      BY <1>3, <2>1, <2>2, <2>5, <2>17
    <3>6. instance'[x[2]] = NoInstance
      BY <1>5, <1>16, <3>5
    <3>7. /\ \A h \in H2 : h[1] <= x[1]
          /\ \A h \in H2 : h[2] # x[2] => instance'[h[2]] = instance'[h[2]]
          /\ IsInstance(uses, instance'[x[2]], x[2], TestScope(running', x[1]))
      BY <2>14, <3>5
    <3>8. InstancesKept(running', H2, {}, d, instance', uses)
      BY <2>16, <2>17
    <3>9. InstancesKept(running', H2, {x}, Append(d, instance'[x[2]]), instance', uses)
      BY <2>18, <2>19, <2>20, <3>5, <3>7, <3>8, PushTestKeeps
    <3>10. InstancesKept(running', H2, {x}, Append(d, NoInstance), instance', uses')
      BY <1>1, <3>6, <3>9
    <3> QED BY <2>18, <3>1, <3>2, <3>3, <3>4, <3>10
  <2> QED BY <2>21, <2>22
<1> QED BY <1>4, <1>15, <1>16

\* The libraries of the settings, and those keywords import.
LEMMA ImportKeeps ==
  ASSUME LibraryBookkeeping, OneNamePerSuite, ImportSetting \/ \E i \in Runtime : ImportLibrary(i)
  PROVE  LibraryBookkeeping'
<1>1. running # <<>> /\ TypeOK
  BY DEF ImportSetting, ImportLibrary, In, LibraryBookkeeping
<1>2. /\ Top \in FrameType /\ Top.pos \in Nat /\ Top.suite \in Suites
  BY <1>1, FrameFacts DEF FrameType
<1>3. \E i, pos : /\ i \in Import /\ i \in Range(Imports[Top.suite]) \cup Runtime
                  /\ pos \in Nat /\ (IF Top.phase = "imports" THEN pos > 0 ELSE pos = Top.pos)
                  /\ Top.phase \in {"imports", "setup", "test", "teardown"}
                  /\ ImportInto(i, pos) /\ UNCHANGED <<todo, started, uses>>
  <2>1. CASE ImportSetting
    <3>1. PICK i, pos : i = Imports[Top.suite][Top.pos] /\ pos = Top.pos + 1
      OBVIOUS
    <3>2. /\ Top.phase = "imports" /\ Top.pos <= Len(Imports[Top.suite])
          /\ ImportInto(i, pos) /\ UNCHANGED <<todo, started, uses>>
      BY <2>1, <3>1 DEF ImportSetting, In
    <3>3. Top.pos > 0
      <4>1. Len(running) \in DOMAIN running
        BY <1>1, FrameFacts
      <4>2. FramesOK
        BY DEF LibraryBookkeeping
      <4> QED BY <3>2, <4>1, <4>2 DEF FramesOK, Top
    <3>4. PICK q : q = Imports[Top.suite]
      OBVIOUS
    <3>5. q \in Seq(Import)
      BY <1>2, <3>4, LibraryAssumption
    <3>6. Top.pos \in 1 .. Len(q) /\ DOMAIN q = 1 .. Len(q)
      BY <1>2, <3>2, <3>3, <3>4, <3>5, LenProperties
    <3>7. i \in Import /\ i \in Range(q)
      BY <3>1, <3>4, <3>5, <3>6 DEF Range
    <3>8. pos \in Nat /\ pos > 0
      BY <1>2, <3>1
    <3> QED BY <3>2, <3>4, <3>7, <3>8
  <2>2. CASE \E i \in Runtime : ImportLibrary(i)
    <3>1. PICK i \in Runtime : ImportLibrary(i)
      BY <2>2
    <3>2. i \in Import
      BY LibraryAssumption
    <3>3. /\ Top.phase \in {"setup", "test", "teardown"} /\ ImportInto(i, Top.pos) /\ UNCHANGED <<todo, started, uses>>
      BY <3>1 DEF ImportLibrary, RunsKeywords
    <3> QED BY <1>2, <3>2, <3>3
  <2> QED BY <2>1, <2>2
<1>4. PICK i, pos : /\ i \in Import /\ i \in Range(Imports[Top.suite]) \cup Runtime
                    /\ pos \in Nat /\ (IF Top.phase = "imports" THEN pos > 0 ELSE pos = Top.pos)
                    /\ Top.phase \in {"imports", "setup", "test", "teardown"}
                    /\ ImportInto(i, pos) /\ UNCHANGED <<todo, started, uses>>
  BY <1>3
<1>5. PICK o, X, w : o = Object(i, Top.suite) /\ Imported(i.lib, o, pos, X, w)
  BY <1>1, <1>4, ImportEffect
<1>6. ImportStep(i, o, pos, X, w)
  BY <1>1, <1>4, <1>5 DEF ImportStep
<1>7. TypeOK' /\ FramesOK' /\ ObjectsOK' /\ UsesOK'
  BY <1>6, ImportKeepsFrames
<1>8. GlobalsOK' /\ InstancesUsed' /\ OneInstancePerScope' /\ NoInstanceInTwoScopes'
  BY <1>6, ImportKeepsInstances
<1>9. ScopesOK'
  BY <1>6, ImportKeepsScopes
<1> QED BY <1>7, <1>8, <1>9 DEF LibraryBookkeeping

-----------------------------------------------------------------------------
(* Keywords *)

\* A library object that keywords use is in the innermost suite, held by it, and by
\* the test if there is one.
LEMMA RunKeywordFacts ==
  ASSUME LibraryBookkeeping, OneNamePerSuite, NEW o \in Objects, RunKeyword(o),
         NEW k, k = Len(running)
  PROVE  /\ k \in Nat \ {0} /\ DOMAIN running = 1 .. k /\ Top = running[k] /\ Top \in FrameType
         /\ o \in Top.libs /\ Top.phase \in {"setup", "test", "teardown"}
         /\ Top.suite \in Suites /\ Top.pos \in Nat /\ (InTest(Top) => Top.pos > 0)
         /\ UNCHANGED <<running, todo, started>>
         /\ <<k, o>> \in Of(Held, o.lib)
         /\ (Scope[o.lib] = "TESTCASE" /\ InTest(Top)) <=> <<k, o>> \in Of(Tested, o.lib)
         /\ o.lib \in created
<1>1. TypeOK /\ FramesOK /\ ObjectsOK /\ running # <<>>
  BY DEF LibraryBookkeeping, RunKeyword
<1>2. /\ k \in Nat \ {0} /\ k \in 1 .. k /\ DOMAIN running = 1 .. k /\ Top = running[k] /\ Top \in FrameType
      /\ Top.suite \in Suites /\ Top.pos \in Nat
  BY <1>1, FrameFacts DEF FrameType
<1>3. /\ o \in Top.libs /\ Top.phase \in {"setup", "test", "teardown"}
      /\ UNCHANGED <<running, todo, started>>
  BY DEF RunKeyword, RunsKeywords
<1>4. InTest(Top) => Top.pos > 0
  BY <1>1, <1>2 DEF FramesOK, InTest
<1>5. HeldBySuite(k) = Top.libs /\ HeldByTest(k) = IF InTest(Top) THEN Top.libs ELSE {}
  BY <1>2, <1>3 DEF HeldBySuite, HeldByTest, InTest
<1>6. PICK x : x = <<k, o>>
  OBVIOUS
<1>7. x \in (1 .. k) \X Objects /\ x[1] = k /\ x[2] = o
  BY <1>2, <1>6
<1>8. x \in Of(Held, o.lib)
  BY <1>2, <1>3, <1>5, <1>7 DEF Of, Held
<1>9. (Scope[o.lib] = "TESTCASE" /\ InTest(Top)) <=> x \in Of(Tested, o.lib)
  BY <1>2, <1>3, <1>5, <1>7 DEF Of, Tested
<1>10. o.lib \in created
  BY <1>1, <1>2, <1>3 DEF ObjectsOK
<1> QED BY <1>2, <1>3, <1>4, <1>6, <1>8, <1>9, <1>10

\* The instance a keyword is run with.
KeywordStep(o, v, u) ==
  /\ u = [lib |-> o.lib, name |-> o.name, scope |-> ScopeOf(o, Top), instance |-> v]
  /\ uses' = uses \cup {u}
  /\ UNCHANGED <<created, cache, bound, swapped>>
  /\ IF IsGlobal(o.lib) THEN v = bound[o.lib] /\ UNCHANGED <<instance, count>>
     ELSE /\ instance' = [instance EXCEPT ![o] = v]
          /\ IF instance[o] # NoInstance THEN v = instance[o] /\ count' = count
             ELSE v = count + 1 /\ count' = count + 1

LEMMA KeywordEffect ==
  ASSUME TypeOK, DynamicAreGlobal, NEW o \in Objects, RunKeyword(o)
  PROVE  \E v, u : KeywordStep(o, v, u)
<1>1. instance \in [Objects -> 0 .. count] /\ count \in Nat
  BY DEF TypeOK
<1>2. o.lib \in Dynamic => IsGlobal(o.lib)
  BY DEF DynamicAreGlobal, IsGlobal
<1>3. PICK L, v, u :
        /\ L = IF IsGlobal(o.lib) THEN LibState ELSE WithInstance(LibState, o)
        /\ v = Target(L, o)
        /\ u = [lib |-> o.lib, name |-> o.name, scope |-> ScopeOf(o, Top), instance |-> v]
  OBVIOUS
<1>4. SetLibState(L) /\ uses' = uses \cup {u}
  BY <1>3 DEF RunKeyword, IsGlobal
<1>5. CASE IsGlobal(o.lib)
  <2>1. L = LibState /\ v = bound[o.lib]
    BY <1>3, <1>5 DEF Target, LibState, IsGlobal
  <2>2. UNCHANGED <<created, cache, bound, swapped, instance, count>>
    BY <1>4, <2>1 DEF SetLibState, LibState
  <2> QED BY <1>3, <1>4, <1>5, <2>1, <2>2 DEF KeywordStep
<1>6. CASE ~IsGlobal(o.lib) /\ instance[o] # NoInstance
  <2>1. L = LibState /\ v = instance[o]
    BY <1>2, <1>3, <1>6 DEF Target, LibState, IsGlobal, WithInstance
  <2>2. UNCHANGED <<created, cache, bound, swapped, instance, count>>
    BY <1>4, <2>1 DEF SetLibState, LibState
  <2>3. instance' = [instance EXCEPT ![o] = v]
    BY <1>1, <2>1, <2>2
  <2> QED BY <1>3, <1>4, <1>6, <2>1, <2>2, <2>3 DEF KeywordStep
<1>7. CASE ~IsGlobal(o.lib) /\ instance[o] = NoInstance
  <2>1. L = [LibState EXCEPT !.count = @ + 1, !.instance[o] = LibState.count + 1]
    BY <1>3, <1>7 DEF LibState, WithInstance
  <2>2. /\ L.created = created /\ L.cache = cache /\ L.bound = bound /\ L.swapped = swapped
        /\ L.count = count + 1 /\ L.instance = [instance EXCEPT ![o] = count + 1]
    BY <2>1 DEF LibState
  <2>3. v = count + 1
    BY <1>1, <1>2, <1>3, <1>7, <2>2 DEF Target, IsGlobal
  <2>4. /\ UNCHANGED <<created, cache, bound, swapped>> /\ count' = count + 1
        /\ instance' = [instance EXCEPT ![o] = v]
    BY <1>4, <2>2, <2>3 DEF SetLibState
  <2> QED BY <1>3, <1>4, <1>7, <2>3, <2>4 DEF KeywordStep
<1> QED BY <1>5, <1>6, <1>7

\* The instance is that of the scope, or there is none yet and it is new.
LEMMA KeywordInstance ==
  ASSUME LibraryBookkeeping, OneNamePerSuite, NEW o \in Objects, RunKeyword(o), ~IsGlobal(o.lib),
         NEW v, NEW u, KeywordStep(o, v, u),
         NEW k, k = Len(running), NEW H, H = Of(Held, o.lib), NEW T, T = Of(Tested, o.lib),
         NEW x, x = <<k, o>>
  PROVE  /\ v \in Nat \ {0} /\ v <= count' /\ count <= count' /\ count' \in Nat
         /\ IsInstance(uses, v, o, u.scope)
         /\ u.scope = IF x \in T THEN TestScope(running, k) ELSE SuiteScope(running, k)
         /\ (\E t \in uses : t.lib = o.lib /\ t.instance = v) \/ v = count + 1
         /\ \A h \in H : h[1] <= k
<1>1. /\ TypeOK /\ FramesOK /\ ObjectsOK /\ UsesOK /\ InstancesUsed /\ ScopesOK
      /\ instance \in [Objects -> 0 .. count] /\ count \in Nat
  BY DEF LibraryBookkeeping, TypeOK
<1>2. /\ k \in Nat \ {0} /\ Top = running[k] /\ x \in H
      /\ (Scope[o.lib] = "TESTCASE" /\ InTest(Top)) <=> x \in T
  BY RunKeywordFacts
<1>3. o.lib \in Libraries
  BY ObjectFacts
<1>4. /\ \A h \in H : h[1] \in 1 .. k
      /\ \A h \in T : h[1] = k
  BY <1>1, <1>3, HeldFacts
<1>5. \A h \in H : h[1] <= k
  BY <1>2, <1>4
<1>6. x[1] = k /\ x[2] = o
  OBVIOUS
<1>7. IsLast(H, x)
  BY <1>5, <1>6 DEF IsLast
<1>8. u.scope = IF x \in T THEN TestScope(running, k) ELSE SuiteScope(running, k)
  <2>1. u.scope = ScopeOf(o, Top)
    BY DEF KeywordStep
  <2> QED BY <1>2, <2>1 DEF ScopeOf, TestScope, SuiteScope, IsGlobal
<1>9. PICK c : c = cache[o.lib]
  OBVIOUS
<1>10. InstancesKept(running, H, T, c, instance, uses)
  BY <1>1, <1>3, <1>9 DEF ScopesOK
<1>11. IsInstance(uses, instance[o], o, u.scope)
  <2>1. CASE x \in T
    <3>1. IsInstance(uses, instance[x[2]], x[2], TestScope(running, x[1]))
      BY <1>2, <1>7, <1>10, <2>1 DEF InstancesKept
    <3> QED BY <1>6, <1>8, <2>1, <3>1
  <2>2. CASE x \notin T
    <3>1. IsInstance(uses, instance[x[2]], x[2], SuiteScope(running, x[1]))
      BY <1>2, <1>7, <1>10, <2>2 DEF InstancesKept
    <3> QED BY <1>6, <1>8, <2>2, <3>1
  <2> QED BY <2>1, <2>2
<1>12. CASE instance[o] # NoInstance
  <2>1. v = instance[o] /\ count' = count
    BY <1>12 DEF KeywordStep
  <2>2. v \in 0 .. count /\ v # 0
    BY <1>1, <1>12, <2>1 DEF NoInstance
  <2>3. v \in Nat \ {0} /\ v <= count' /\ count <= count' /\ count' \in Nat
    BY <1>1, <2>1, <2>2
  <2>4. \E t \in uses : t.lib = o.lib /\ t.instance = v
    BY <1>1, <1>12, <2>1 DEF InstancesUsed
  <2> QED BY <1>5, <1>8, <1>11, <2>1, <2>3, <2>4
<1>13. CASE instance[o] = NoInstance
  <2>1. v = count + 1 /\ count' = count + 1
    BY <1>13 DEF KeywordStep
  <2>2. v \in Nat \ {0} /\ v <= count' /\ count <= count' /\ count' \in Nat
    BY <1>1, <2>1
  <2>3. \A t \in uses : t.instance \in Nat \ {0} /\ t.instance <= count
    BY <1>1 DEF UsesOK, UseType
  <2>4. \A t \in uses : t.instance # v /\ t.instance # instance[o]
    BY <1>1, <1>13, <2>1, <2>3 DEF NoInstance
  <2>5. IsInstance(uses, v, o, u.scope)
    BY <1>11, <2>4 DEF IsInstance
  <2> QED BY <1>5, <1>8, <2>1, <2>2, <2>5
<1> QED BY <1>12, <1>13

LEMMA KeywordKeepsScopes ==
  ASSUME LibraryBookkeeping, OneNamePerSuite, NEW o \in Objects, RunKeyword(o),
         NEW v, NEW u, KeywordStep(o, v, u)
  PROVE  ScopesOK'
<1>1. /\ TypeOK /\ FramesOK /\ ObjectsOK /\ ScopesOK
      /\ instance \in [Objects -> 0 .. count] /\ count \in Nat /\ cache \in [Libraries -> Seq(0 .. count)]
  BY DEF LibraryBookkeeping, TypeOK
<1>2. PICK k, x : k = Len(running) /\ x = <<k, o>>
  OBVIOUS
<1>3. /\ k \in Nat \ {0} /\ DOMAIN running = 1 .. k /\ Top = running[k] /\ UNCHANGED <<running, todo>>
      /\ (InTest(Top) => Top.pos > 0) /\ Top.pos \in Nat
      /\ x \in Of(Held, o.lib) /\ ((Scope[o.lib] = "TESTCASE" /\ InTest(Top)) <=> x \in Of(Tested, o.lib))
  BY <1>2, RunKeywordFacts
<1>4. /\ uses' = uses \cup {u} /\ u.lib = o.lib /\ u.name = o.name /\ u.instance = v /\ cache' = cache
      /\ ~IsGlobal(o.lib) => instance' = [instance EXCEPT ![o] = v]
      /\ IsGlobal(o.lib) => instance' = instance
  BY DEF KeywordStep
<1>5. Held' = Held /\ Tested' = Tested
  BY <1>3 DEF Held, Tested, HeldBySuite, HeldByTest, InTest
<1> SUFFICES ASSUME NEW l \in Libraries, ~IsGlobal(l)
             PROVE  /\ IsFiniteSet(Of(Held, l)') /\ IsFiniteSet(Of(Tested, l)')
                    /\ Len(cache'[l]) = Cardinality(Of(Held, l)') + Cardinality(Of(Tested, l)')
                    /\ InstancesKept(running', Of(Held, l)', Of(Tested, l)', cache'[l], instance', uses')
  BY DEF ScopesOK, IsGlobal, Of
<1>6. Of(Held, l)' = Of(Held, l) /\ Of(Tested, l)' = Of(Tested, l)
  BY <1>5 DEF Of
<1>7. PICK H, T, c : H = Of(Held, l) /\ T = Of(Tested, l) /\ c = cache[l]
  OBVIOUS
<1>8. /\ H \in Places /\ T \subseteq H
      /\ \A h \in H : h[1] \in 1 .. k /\ h[2] \in Objects /\ h = <<h[1], h[2]>> /\ h[2].lib = l
      /\ \A h \in T : h[1] = k
  BY <1>1, <1>2, <1>7, HeldFacts
<1>9. CASE l # o.lib
  <2>1. \A p \in Objects : p.lib = l => instance'[p] = instance[p]
    BY <1>1, <1>4, <1>9
  <2>2. \A t \in uses' \ uses : t.lib # l
    BY <1>4, <1>9
  <2>3. /\ \A h \in Of(Held, l) : running'[h[1]].suite = running[h[1]].suite
        /\ \A h \in Of(Tested, l) : running'[h[1]].pos = running[h[1]].pos
        /\ cache'[l] = cache[l]
    BY <1>3, <1>4
  <2> QED BY <1>6, <2>1, <2>2, <2>3, OthersKept
<1>10. CASE l = o.lib
  <2>1. /\ v \in Nat \ {0} /\ IsInstance(uses, v, o, u.scope)
        /\ u.scope = IF x \in T THEN TestScope(running, k) ELSE SuiteScope(running, k)
        /\ (\E t \in uses : t.lib = o.lib /\ t.instance = v) \/ v = count + 1
        /\ \A h \in H : h[1] <= k
    BY <1>2, <1>7, <1>10, KeywordInstance
  <2>2. x[1] = k /\ x[2] = o
    BY <1>2
  <2>3. x \in H /\ T \in SUBSET {x}
    <3>1. x \in H
      BY <1>3, <1>7, <1>10
    <3>2. \A h \in T : h = x
      BY <1>8, <2>2, <3>1, PlacesFacts
    <3> QED BY <3>1, <3>2
  <2>4. \A h \in H : h[1] <= x[1] /\ h[2].lib = x[2].lib
    BY <1>8, <1>10, <2>1, <2>2
  <2>5. \A h \in H : h # x => running[h[1]].suite # running[x[1]].suite
    <3> SUFFICES ASSUME NEW h \in H, running[h[1]].suite = running[k].suite PROVE h = x
      BY <2>2
    <3>1. h[1] \in DOMAIN running /\ k \in DOMAIN running
      BY <1>3, <1>8
    <3>2. h[1] = k
      BY <1>1, <3>1 DEF FramesOK
    <3> QED BY <1>8, <2>2, <2>3, <3>2, PlacesFacts
  <2>6. x \in T => running[x[1]].pos # 0
    BY <1>3, <1>7, <1>10, <2>2
  <2>7. IsFiniteSet(H) /\ Len(c) = Cardinality(H) + Cardinality(T) /\ InstancesKept(running, H, T, c, instance, uses)
    BY <1>1, <1>7 DEF ScopesOK
  <2>8. c \in Seq(0 .. count)
    BY <1>1, <1>7
  <2>9. c \in Seq(Nat) /\ \A i \in 1 .. Len(c) : c[i] \in 0 .. count
    BY <1>1, <2>8
  <2>10. \/ \E t \in uses : t.lib = x[2].lib /\ t.instance = u.instance
         \/ /\ \A h \in H : instance[h[2]] # u.instance
            /\ \A i \in 1 .. Len(c) : c[i] # u.instance
    <3>1. CASE \E t \in uses : t.lib = o.lib /\ t.instance = v
      BY <1>4, <2>2, <3>1
    <3>2. CASE v = count + 1
      <4>1. \A h \in H : instance[h[2]] \in 0 .. count
        BY <1>1, <1>8
      <4>2. \A n \in 0 .. count : n # v
        BY <1>1, <3>2
      <4> QED BY <1>4, <2>9, <4>1, <4>2
    <3> QED BY <2>1, <3>1, <3>2
  <2>11. /\ \A h \in H : h[2] # x[2] => instance'[h[2]] = instance[h[2]]
         /\ instance'[x[2]] = u.instance
    BY <1>1, <1>4, <1>8, <1>10, <2>2
  <2>12. /\ u.lib = x[2].lib /\ u.name = x[2].name
         /\ u.scope = IF x \in T THEN TestScope(running, x[1]) ELSE SuiteScope(running, x[1])
         /\ IsInstance(uses, u.instance, x[2], u.scope)
    BY <1>4, <2>1, <2>2
  <2>13. InstancesKept(running, H, T, c, instance', uses \cup {u})
    BY <1>8, <2>3, <2>4, <2>5, <2>6, <2>7, <2>9, <2>10, <2>11, <2>12, UseKeeps
  <2>14. InstancesKept(running', H, T, c, instance', uses')
    BY <1>3, <1>4, <2>13
  <2>15. IsFiniteSet(T)
    BY <2>3, FS_Singleton, FS_Subset
  <2> QED BY <1>4, <1>6, <1>7, <2>7, <2>14, <2>15
<1> QED BY <1>9, <1>10

\* What is common to the uses of global libraries and of others.
LEMMA KeywordUse ==
  ASSUME LibraryBookkeeping, OneNamePerSuite, NEW o \in Objects, RunKeyword(o),
         NEW v, NEW u, KeywordStep(o, v, u)
  PROVE  /\ count' \in Nat /\ count <= count' /\ v <= count' /\ u \in UseType
         /\ instance' \in [Objects -> 0 .. count']
         /\ \A t \in uses : t.lib = u.lib => /\ t.name = u.name /\ t.scope = u.scope => t.instance = u.instance
                                             /\ t.instance = u.instance => t.scope = u.scope
<1>1. /\ TypeOK /\ FramesOK /\ ObjectsOK /\ GlobalsOK
      /\ instance \in [Objects -> 0 .. count] /\ count \in Nat /\ bound \in [Libraries -> 0 .. count]
  BY DEF LibraryBookkeeping, TypeOK
<1>2. PICK k : k = Len(running)
  OBVIOUS
<1>3. /\ Top.suite \in Suites /\ Top.pos \in Nat /\ o.lib \in created
  BY <1>2, RunKeywordFacts
<1>4. o.lib \in Libraries /\ o.name \in Names \cup {NoName}
  BY ObjectFacts
<1>5. u = [lib |-> o.lib, name |-> o.name, scope |-> ScopeOf(o, Top), instance |-> v]
  BY DEF KeywordStep
<1>6. ScopeOf(o, Top) \in [suite: Suites, test: Nat]
  BY <1>3, LibraryAssumption DEF ScopeOf
<1>7. CASE IsGlobal(o.lib)
  <2>1. v = bound[o.lib] /\ UNCHANGED <<instance, count>>
    BY <1>7 DEF KeywordStep
  <2>2. bound[o.lib] # NoInstance
    BY <1>1, <1>3 DEF TypeOK
  <2>3. v \in Nat \ {0} /\ v <= count
    BY <1>1, <1>4, <2>1, <2>2 DEF NoInstance
  <2>4. u \in UseType
    BY <1>4, <1>5, <1>6, <2>3 DEF UseType
  <2>5. ScopeOf(o, Top) = [suite |-> Root, test |-> 0]
    BY <1>7 DEF ScopeOf, IsGlobal
  <2>6. \A t \in uses : t.lib = o.lib => t.instance = v /\ t.scope = [suite |-> Root, test |-> 0]
    BY <1>1, <1>4, <1>7, <2>1 DEF GlobalsOK
  <2>7. instance' \in [Objects -> 0 .. count'] /\ count' \in Nat /\ count <= count' /\ v <= count'
    BY <1>1, <2>1, <2>3
  <2> QED BY <1>5, <2>4, <2>5, <2>6, <2>7
<1>8. CASE ~IsGlobal(o.lib)
  <2>1. PICK H, T, x : H = Of(Held, o.lib) /\ T = Of(Tested, o.lib) /\ x = <<k, o>>
    OBVIOUS
  <2>2. /\ v \in Nat \ {0} /\ v <= count' /\ count <= count' /\ count' \in Nat
        /\ IsInstance(uses, v, o, u.scope)
    BY <1>2, <1>8, <2>1, KeywordInstance
  <2>3. u \in UseType
    BY <1>4, <1>5, <1>6, <2>2 DEF UseType
  <2>4. instance' = [instance EXCEPT ![o] = v]
    BY <1>8 DEF KeywordStep
  <2>5. instance' \in [Objects -> 0 .. count']
    <3>1. 0 .. count \subseteq 0 .. count' /\ v \in 0 .. count'
      BY <1>1, <2>2
    <3> QED BY <1>1, <2>4, <3>1
  <2>6. \A t \in uses : t.lib = u.lib => /\ t.name = u.name /\ t.scope = u.scope => t.instance = u.instance
                                         /\ t.instance = u.instance => t.scope = u.scope
    BY <1>5, <2>2 DEF IsInstance
  <2> QED BY <2>2, <2>3, <2>5, <2>6
<1> QED BY <1>7, <1>8

LEMMA KeywordKeepsUses ==
  ASSUME LibraryBookkeeping, OneNamePerSuite, NEW o \in Objects, RunKeyword(o),
         NEW v, NEW u, KeywordStep(o, v, u)
  PROVE  /\ TypeOK' /\ FramesOK' /\ ObjectsOK' /\ GlobalsOK' /\ UsesOK' /\ InstancesUsed'
         /\ OneInstancePerScope' /\ NoInstanceInTwoScopes'
<1>1. /\ TypeOK /\ FramesOK /\ ObjectsOK /\ GlobalsOK /\ UsesOK /\ InstancesUsed
      /\ OneInstancePerScope /\ NoInstanceInTwoScopes
      /\ count \in Nat /\ instance \in [Objects -> 0 .. count]
  BY DEF LibraryBookkeeping, TypeOK
<1>2. PICK k : k = Len(running)
  OBVIOUS
<1>3. /\ k \in 1 .. k /\ DOMAIN running = 1 .. k /\ Top = running[k] /\ UNCHANGED <<running, todo, started>>
      /\ o \in Top.libs /\ Top.phase \in {"setup", "test", "teardown"} /\ o.lib \in created
      /\ Top.suite \in Suites /\ Top.pos \in Nat
  <2>1. /\ k \in Nat \ {0} /\ DOMAIN running = 1 .. k /\ Top = running[k] /\ UNCHANGED <<running, todo, started>>
        /\ o \in Top.libs /\ Top.phase \in {"setup", "test", "teardown"} /\ o.lib \in created
        /\ Top.suite \in Suites /\ Top.pos \in Nat
    BY <1>2, RunKeywordFacts
  <2> QED BY <2>1
<1>4. /\ uses' = uses \cup {u} /\ UNCHANGED <<created, cache, bound, swapped>>
      /\ u = [lib |-> o.lib, name |-> o.name, scope |-> ScopeOf(o, Top), instance |-> v]
      /\ IsGlobal(o.lib) => v = bound[o.lib] /\ instance' = instance
      /\ ~IsGlobal(o.lib) => instance' = [instance EXCEPT ![o] = v]
  BY DEF KeywordStep
<1>5. /\ count' \in Nat /\ count <= count' /\ v <= count' /\ u \in UseType
      /\ instance' \in [Objects -> 0 .. count']
      /\ \A t \in uses : t.lib = u.lib => /\ t.name = u.name /\ t.scope = u.scope => t.instance = u.instance
                                          /\ t.instance = u.instance => t.scope = u.scope
  BY KeywordUse
<1>6. TypeOK'
  <2>1. 0 .. count \subseteq 0 .. count'
    BY <1>1, <1>5
  <2>2. \A q \in Seq(0 .. count) : q \in Seq(0 .. count')
    <3> SUFFICES ASSUME NEW q \in Seq(0 .. count) PROVE q \in Seq(0 .. count')
      OBVIOUS
    <3> QED BY <1>1, <1>5, <2>1
  <2>3. cache' \in [Libraries -> Seq(0 .. count')] /\ bound' \in [Libraries -> 0 .. count']
    BY <1>1, <1>4, <2>1, <2>2 DEF TypeOK
  <2> QED BY <1>1, <1>3, <1>4, <1>5, <2>3 DEF TypeOK
<1>7. FramesOK'
  BY <1>1, <1>3 DEF FramesOK, Top
<1>8. ObjectsOK'
  BY <1>1, <1>3, <1>4 DEF ObjectsOK
<1>9. \A p \in Objects : p.lib # o.lib \/ p # o => instance'[p] = instance[p]
  BY <1>1, <1>4
<1>10. GlobalsOK'
  <2> SUFFICES ASSUME NEW l \in Libraries, IsGlobal(l)
               PROVE  /\ cache[l] = <<>>
                      /\ \A n \in DOMAIN running : \A p \in running[n].libs : p.lib = l => instance'[p] = bound[l]
                      /\ l \in created => instance'[Plain(l)] = bound[l]
                      /\ \A t \in uses' : t.lib = l =>
                           t.instance = bound[l] /\ l \in created /\ t.scope = [suite |-> Root, test |-> 0]
    BY <1>3, <1>4 DEF GlobalsOK, IsGlobal, Plain
  <2>1. /\ cache[l] = <<>>
        /\ \A n \in DOMAIN running : \A p \in running[n].libs : p.lib = l => instance[p] = bound[l]
        /\ l \in created => instance[Plain(l)] = bound[l]
        /\ \A t \in uses : t.lib = l =>
             t.instance = bound[l] /\ l \in created /\ t.scope = [suite |-> Root, test |-> 0]
    BY <1>1 DEF GlobalsOK, Plain
  <2>2. \A p \in Objects : p.lib = l => instance'[p] = instance[p]
    BY <1>4, <1>9
  <2>3. \A n \in DOMAIN running : running[n].libs \subseteq Objects
    BY <1>1, FrameTypes
  <2>4. Plain(l) \in Objects /\ Plain(l).lib = l
    BY LibraryAssumption DEF Plain, Objects
  <2>5. u.lib = l => u.instance = bound[l] /\ l \in created /\ u.scope = [suite |-> Root, test |-> 0]
    <3> SUFFICES ASSUME u.lib = l
                 PROVE  v = bound[l] /\ l \in created /\ ScopeOf(o, Top) = [suite |-> Root, test |-> 0]
      BY <1>4
    <3>1. o.lib = l
      BY <1>4
    <3>2. ScopeOf(o, Top) = [suite |-> Root, test |-> 0]
      BY <3>1 DEF ScopeOf, IsGlobal
    <3> QED BY <1>3, <1>4, <3>1, <3>2
  <2>6. \A n \in DOMAIN running : \A p \in running[n].libs : p.lib = l => instance'[p] = bound[l]
    BY <2>1, <2>2, <2>3
  <2>7. \A t \in uses' : t.lib = l =>
          t.instance = bound[l] /\ l \in created /\ t.scope = [suite |-> Root, test |-> 0]
    BY <1>4, <2>1, <2>5
  <2> QED BY <2>1, <2>2, <2>4, <2>6, <2>7
<1>11. UsesOK'
  <2>1. uses' \subseteq UseType
    BY <1>1, <1>4, <1>5 DEF UsesOK
  <2>2. ASSUME NEW t \in uses'
        PROVE  /\ t.instance <= count'
               /\ ~IsGlobal(t.lib) => t.scope.suite \in started
               /\ ~IsGlobal(t.lib) => \A n \in DOMAIN running : t.scope.suite = running[n].suite =>
                    /\ \E p \in running[n].libs : p.lib = t.lib /\ p.name = t.name
                    /\ running[n].phase \in {"imports", "setup", "suites"} => t.scope.test = 0
                    /\ running[n].phase \in {"tests", "starting"} => t.scope.test < running[n].pos
                    /\ running[n].phase \in {"test", "ending"} => t.scope.test <= running[n].pos
    <3>1. CASE t \in uses
      <4>1. t.instance \in Nat /\ t.instance <= count
        BY <1>1, <3>1 DEF UsesOK, UseType
      <4>2. t.instance <= count'
        BY <1>1, <1>5, <4>1
      <4> QED BY <1>1, <3>1, <4>2 DEF UsesOK
    <3>2. CASE t = u
      <4>1. t.instance <= count'
        BY <1>4, <1>5, <3>2
      <4>2. ASSUME ~IsGlobal(o.lib)
            PROVE  t.scope.suite = Top.suite /\ t.scope.test = IF Scope[o.lib] = "TESTCASE" /\ InTest(Top) THEN Top.pos ELSE 0
        BY <1>4, <3>2, <4>2 DEF ScopeOf, IsGlobal
      <4>3. ~IsGlobal(o.lib) => t.scope.suite \in started
        BY <1>1, <1>3, <4>2 DEF FramesOK
      <4>4. ASSUME ~IsGlobal(o.lib), NEW n \in DOMAIN running, t.scope.suite = running[n].suite
            PROVE  /\ \E p \in running[n].libs : p.lib = t.lib /\ p.name = t.name
                   /\ running[n].phase \in {"imports", "setup", "suites"} => t.scope.test = 0
                   /\ running[n].phase \in {"tests", "starting"} => t.scope.test < running[n].pos
                   /\ running[n].phase \in {"test", "ending"} => t.scope.test <= running[n].pos
        <5>1. n = k
          BY <1>1, <1>3, <4>2, <4>4 DEF FramesOK
        <5>2. \E p \in running[n].libs : p.lib = t.lib /\ p.name = t.name
          BY <1>3, <1>4, <3>2, <5>1
        <5>3. Top.phase = "test" <=> InTest(Top)
          BY DEF InTest
        <5> QED BY <1>3, <4>2, <4>4, <5>1, <5>2, <5>3
      <4>5. t.lib = o.lib
        BY <1>4, <3>2
      <4> QED BY <4>1, <4>3, <4>4, <4>5
    <3> QED BY <1>4, <3>1, <3>2
  <2> QED BY <1>3, <2>1, <2>2 DEF UsesOK, IsGlobal
<1>12. InstancesUsed'
  <2>1. uses \subseteq uses' /\ u \in uses'
    BY <1>4
  <2>2. ASSUME NEW p \in Objects, ~IsGlobal(p.lib), instance'[p] # NoInstance
        PROVE  \E t \in uses' : t.lib = p.lib /\ t.instance = instance'[p]
    <3>1. CASE p = o
      <4>1. instance'[p] = v
        BY <1>1, <1>4, <2>2, <3>1
      <4> QED BY <1>4, <2>1, <3>1, <4>1
    <3>2. CASE p # o
      BY <1>1, <1>9, <2>1, <2>2, <3>2 DEF InstancesUsed
    <3> QED BY <3>1, <3>2
  <2>3. ASSUME NEW l \in Libraries, ~IsGlobal(l), NEW j \in 1 .. Len(cache[l]), cache[l][j] # NoInstance
        PROVE  \E t \in uses' : t.lib = l /\ t.instance = cache[l][j]
    BY <1>1, <2>1, <2>3 DEF InstancesUsed
  <2> QED BY <1>4, <2>2, <2>3 DEF InstancesUsed, IsGlobal
<1>13. OneInstancePerScope'
  <2> SUFFICES ASSUME NEW s \in uses', NEW t \in uses', s.lib = t.lib, s.name = t.name, s.scope = t.scope
               PROVE  s.instance = t.instance
    BY DEF OneInstancePerScope
  <2>1. CASE s \in uses /\ t \in uses
    BY <1>1, <2>1 DEF OneInstancePerScope
  <2>2. CASE s \in uses /\ t = u
    BY <1>5, <2>2
  <2>3. CASE s = u /\ t \in uses
    BY <1>5, <2>3
  <2> QED BY <1>4, <2>1, <2>2, <2>3
<1>14. NoInstanceInTwoScopes'
  <2> SUFFICES ASSUME NEW s \in uses', NEW t \in uses', s.lib = t.lib, s.scope # t.scope
               PROVE  s.instance # t.instance
    BY DEF NoInstanceInTwoScopes
  <2>1. CASE s \in uses /\ t \in uses
    BY <1>1, <2>1 DEF NoInstanceInTwoScopes
  <2>2. CASE s \in uses /\ t = u
    BY <1>5, <2>2
  <2>3. CASE s = u /\ t \in uses
    BY <1>5, <2>3
  <2> QED BY <1>4, <2>1, <2>2, <2>3
<1> QED BY <1>6, <1>7, <1>8, <1>10, <1>11, <1>12, <1>13, <1>14

LEMMA RunKeywordKeeps ==
  ASSUME LibraryBookkeeping, OneNamePerSuite, DynamicAreGlobal, NEW o \in Objects, RunKeyword(o)
  PROVE  LibraryBookkeeping'
<1>1. PICK v, u : KeywordStep(o, v, u)
  BY KeywordEffect DEF LibraryBookkeeping
<1>2. /\ TypeOK' /\ FramesOK' /\ ObjectsOK' /\ GlobalsOK' /\ UsesOK' /\ InstancesUsed'
      /\ OneInstancePerScope' /\ NoInstanceInTwoScopes'
  BY <1>1, KeywordKeepsUses
<1>3. ScopesOK'
  BY <1>1, KeywordKeepsScopes
<1> QED BY <1>2, <1>3 DEF LibraryBookkeeping

-----------------------------------------------------------------------------
(* The theorems *)

LEMMA StutteringKeeps ==
  ASSUME LibraryBookkeeping, OneNamePerSuite, UNCHANGED vars
  PROVE  LibraryBookkeeping'
<1>1. /\ UNCHANGED <<running, todo, started, uses, created, instance, cache, bound, swapped, count>>
      /\ UNCHANGED <<libState, uses>>
  BY DEF vars, libState
<1>2. TypeOK'
  BY <1>1 DEF LibraryBookkeeping, TypeOK
<1>3. FramesOK'
  BY <1>1 DEF LibraryBookkeeping, FramesOK, Top
<1>4. ObjectsOK'
  BY <1>1 DEF LibraryBookkeeping, ObjectsOK
<1>5. GlobalsOK'
  BY <1>1 DEF LibraryBookkeeping, GlobalsOK, IsGlobal
<1>6. UsesOK'
  BY <1>1 DEF LibraryBookkeeping, UsesOK, IsGlobal
<1>7. Held' = Held /\ Tested' = Tested
  BY <1>1 DEF Held, Tested, HeldBySuite, HeldByTest, InTest
<1>8. /\ \A h \in Held : running'[h[1]].suite = running[h[1]].suite
      /\ \A h \in Tested : running'[h[1]].pos = running[h[1]].pos
  BY <1>1
<1>9. ScopesOK' /\ InstancesUsed' /\ OneInstancePerScope' /\ NoInstanceInTwoScopes'
  BY <1>1, <1>7, <1>8, MoveKeeps
<1> QED BY <1>2, <1>3, <1>4, <1>5, <1>6, <1>9 DEF LibraryBookkeeping

\* Every instance, in use or put aside, is accounted for by the scopes that are
\* open (importer.py, namespace.py, testlibraries.py).
THEOREM LibraryBookkeepingHolds ==
  ASSUME OneNamePerSuite, DynamicAreGlobal
  PROVE  Spec => []LibraryBookkeeping
<1>1. Init => LibraryBookkeeping
  BY InitBookkeeping
<1>2. LibraryBookkeeping /\ [Next]_vars => LibraryBookkeeping'
  <2> SUFFICES ASSUME LibraryBookkeeping, [Next]_vars PROVE LibraryBookkeeping'
    OBVIOUS
  <2>1. ASSUME NEW s \in Suites, StartSuite(s) PROVE LibraryBookkeeping'
    BY <2>1, StartSuiteKeeps
  <2>2. CASE ImportSetting
    BY <2>2, ImportKeeps
  <2>3. CASE NextPhase
    BY <2>3, NextPhaseKeeps
  <2>4. CASE CallHooks
    BY <2>4, CallHooksKeeps
  <2>5. CASE LeaveSuite
    BY <2>5, LeaveSuiteKeeps
  <2>6. ASSUME NEW o \in Objects, Hook(o) PROVE LibraryBookkeeping'
    BY <2>6, HookKeeps
  <2>7. ASSUME NEW o \in Objects, RunKeyword(o) PROVE LibraryBookkeeping'
    BY <2>7, RunKeywordKeeps
  <2>8. ASSUME NEW i \in Runtime, ImportLibrary(i) PROVE LibraryBookkeeping'
    BY <2>8, ImportKeeps
  <2>9. ASSUME Over \/ UNCHANGED vars PROVE LibraryBookkeeping'
    BY <2>9, StutteringKeeps DEF Over
  <2> QED BY <2>1, <2>2, <2>3, <2>4, <2>5, <2>6, <2>7, <2>8, <2>9 DEF Next
<1> QED BY <1>1, <1>2, PTL DEF Spec

\* What is put aside is counted by the scopes that are open.
LEMMA BookkeepingCounts ==
  ASSUME LibraryBookkeeping, OneNamePerSuite
  PROVE  CacheMatchesScopes
<1>1. TypeOK /\ FramesOK /\ ObjectsOK /\ GlobalsOK /\ ScopesOK
  BY DEF LibraryBookkeeping
<1> SUFFICES ASSUME NEW l \in Libraries PROVE Len(cache[l]) = OpenScopes(l)
  BY DEF CacheMatchesScopes
<1>2. CASE IsGlobal(l)
  <2>1. cache[l] = <<>> /\ Scope[l] = "GLOBAL" /\ Scope[l] # "TESTCASE"
    BY <1>1, <1>2 DEF GlobalsOK, IsGlobal
  <2>2. OpenScopes(l) = 0
    BY <2>1 DEF OpenScopes
  <2> QED BY <2>1, <2>2
<1>3. CASE ~IsGlobal(l)
  <2>1. PICK a, b : a = Cardinality(Of(Held, l)) /\ b = Cardinality(Of(Tested, l))
    OBVIOUS
  <2>2. IsFiniteSet(Of(Held, l)) /\ IsFiniteSet(Of(Tested, l)) /\ Len(cache[l]) = a + b
    BY <1>1, <1>3, <2>1 DEF ScopesOK
  <2>3. a \in Nat /\ b \in Nat
    BY <2>1, <2>2, FS_CardinalityType
  <2>4. Of(Held, l) = SuiteScopes(l)
    BY DEF Of, Held, SuiteScopes
  <2>5. CASE Scope[l] = "TESTCASE"
    <3>1. Of(Tested, l) = TestScopes(l)
      BY <2>5 DEF Of, Tested, TestScopes
    <3>2. OpenScopes(l) = a + b
      BY <1>3, <2>1, <2>4, <2>5, <3>1 DEF OpenScopes, IsGlobal
    <3> QED BY <2>2, <3>2
  <2>6. CASE Scope[l] # "TESTCASE"
    <3>1. Of(Tested, l) = {}
      BY <2>6 DEF Of, Tested
    <3>2. b = 0
      BY <2>1, <3>1, FS_EmptySet
    <3>3. OpenScopes(l) = a + 0
      BY <1>3, <2>1, <2>4, <2>6 DEF OpenScopes, IsGlobal
    <3> QED BY <2>2, <3>2, <3>3
  <2> QED BY <2>5, <2>6
<1> QED BY <1>2, <1>3

\* The instance a suite's setup used is there for its teardown.
LEMMA BookkeepingBringsBack ==
  ASSUME LibraryBookkeeping, OneNamePerSuite
  PROVE  TeardownHasSetupInstance
<1>1. TypeOK /\ FramesOK /\ ObjectsOK /\ GlobalsOK /\ ScopesOK
  BY DEF LibraryBookkeeping
<1> SUFFICES ASSUME running # <<>>, Top.phase = "teardown", NEW u \in uses, NEW o \in Top.libs,
                    u.lib = o.lib, u.name = o.name, u.scope = ScopeOf(o, Top)
             PROVE  instance[o] = u.instance
  BY DEF TeardownHasSetupInstance
<1>2. PICK k, x : k = Len(running) /\ x = <<k, o>>
  OBVIOUS
<1>3. /\ k \in Nat \ {0} /\ DOMAIN running = 1 .. k /\ Top = running[k] /\ Top.libs \subseteq Objects
  BY <1>1, <1>2, FrameFacts DEF FrameType
<1>4. k \in 1 .. k /\ o \in Objects /\ o.lib \in Libraries
  BY <1>3, ObjectFacts
<1>5. CASE IsGlobal(o.lib)
  <2>1. /\ \A n \in DOMAIN running : \A p \in running[n].libs : p.lib = o.lib => instance[p] = bound[o.lib]
        /\ u.instance = bound[o.lib]
    BY <1>1, <1>4, <1>5 DEF GlobalsOK
  <2>2. k \in DOMAIN running /\ o \in running[k].libs
    BY <1>3, <1>4
  <2> QED BY <2>1, <2>2
<1>6. CASE ~IsGlobal(o.lib)
  <2>1. PICK H, T, c : H = Of(Held, o.lib) /\ T = Of(Tested, o.lib) /\ c = cache[o.lib]
    OBVIOUS
  <2>2. x \in (1 .. k) \X Objects /\ x[1] = k /\ x[2] = o
    BY <1>2, <1>4
  <2>3. HeldBySuite(k) = Top.libs
    BY <1>3 DEF HeldBySuite
  <2>4. x \in H
    BY <1>3, <2>1, <2>2, <2>3 DEF Of, Held
  <2>5. /\ \A h \in H : h[1] \in 1 .. k
        /\ \A h \in T : Top.phase \in {"starting", "test", "ending"}
    BY <1>1, <1>2, <1>4, <2>1, HeldFacts
  <2>6. x \notin T
    BY <2>5
  <2>7. IsLast(H, x)
    BY <1>3, <2>2, <2>5 DEF IsLast
  <2>8. InstancesKept(running, H, T, c, instance, uses)
    BY <1>1, <1>4, <1>6, <2>1 DEF ScopesOK
  <2>9. IsInstance(uses, instance[x[2]], x[2], SuiteScope(running, x[1]))
    BY <2>4, <2>6, <2>7, <2>8 DEF InstancesKept
  <2>10. u.scope = SuiteScope(running, k)
    BY <1>3, <1>6 DEF ScopeOf, SuiteScope, InTest, IsGlobal
  <2> QED BY <2>2, <2>9, <2>10 DEF IsInstance
<1> QED BY <1>5, <1>6

\* Whatever suites, tests and keywords import, every test and every suite uses its
\* own instance of a library, and the one a suite used is back for its teardown
\* (CreatingTestLibraries.txt; init_scope_handling of testlibraries.py).
THEOREM InstancesFollowScopesHolds ==
  ASSUME OneNamePerSuite, DynamicAreGlobal
  PROVE  Spec => []InstancesFollowScopes
<1>1. LibraryBookkeeping => InstancesFollowScopes
  <2> SUFFICES ASSUME LibraryBookkeeping PROVE InstancesFollowScopes
    OBVIOUS
  <2>1. TypeOK /\ OneInstancePerScope /\ NoInstanceInTwoScopes
    BY DEF LibraryBookkeeping
  <2>2. CacheMatchesScopes /\ TeardownHasSetupInstance
    BY BookkeepingCounts, BookkeepingBringsBack
  <2> QED BY <2>1, <2>2 DEF InstancesFollowScopes
<1>2. Spec => []LibraryBookkeeping
  BY LibraryBookkeepingHolds
<1> QED BY <1>1, <1>2, PTL

=============================================================================
