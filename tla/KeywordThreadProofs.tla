------------------------ MODULE KeywordThreadProofs ------------------------
(***************************************************************************)
(* Keywords are under the control of their timeouts and of signals, for    *)
(* all user keywords, all timeouts and any nesting of calls, also of user  *)
(* keywords in themselves, whose calls share one timeout.                  *)
(***************************************************************************)
EXTENDS KeywordThreads, SequenceTheorems, WellFoundedInduction, TLAPS

-----------------------------------------------------------------------------
(* The inductive invariant *)

\* Library keywords that call others run in the main thread, and a library
\* keyword in a thread runs in one that was started.
CallsOK ==
  \A i \in 1 .. Len(calls) : calls[i].type = "library" =>
    /\ i < Len(calls) => nests /\ calls[i].thread = NoThread
    /\ calls[i].thread <= Len(threads)

\* The timeout of a user keyword counts from the beginning of its last call, which
\* is the only one if user keywords do not use themselves.
TimersOK ==
  \A i \in UserCalls(Len(calls)) :
    LET start == startTime[calls[i].handler]
    IN  /\ calls[i].begun <= now
        /\ IF Secs[calls[i].handler] = NoTimeout THEN start = Inactive
           ELSE start >= calls[i].begun /\ (~recurs => start = calls[i].begun)
        /\ ~recurs => \A j \in UserCalls(Len(calls)) : calls[i].handler = calls[j].handler => i = j

\* The monitor only believes that a keyword is run if one is.
FlagOK == runningKeyword => \E i \in 1 .. Len(calls) : calls[i].type = "library"

ThreadBookkeeping ==
  /\ TypeOK /\ CallsOK /\ TimersOK /\ FlagOK
  /\ LeastTimeLeftIsUsed /\ AbandonedKeywordsAreStopped /\ SignalReachesKeyword

-----------------------------------------------------------------------------
(* The least element of a set of numbers *)

LEMMA MinExists ==
  ASSUME NEW S \in SUBSET Nat, S # {}
  PROVE  \E x \in S : \A y \in S : x <= y
<1>1. IsWellFoundedOn(OpToRel(<, Nat), Nat)
  BY NatLessThanWellFounded
<1>2. PICK x \in S : \A y \in S : ~ (<<y, x>> \in OpToRel(<, Nat))
  BY <1>1, WFMin
<1>3. ASSUME NEW y \in S, y < x PROVE FALSE
  <2>1. y \in Nat /\ x \in Nat
    OBVIOUS
  <2>2. <<y, x>> \in {ss \in Nat \X Nat : ss[1] < ss[2]}
    BY <1>3, <2>1
  <2>3. ~ (<<y, x>> \in {ss \in Nat \X Nat : ss[1] < ss[2]})
    BY <1>2 DEF OpToRel
  <2> QED BY <2>2, <2>3
<1> QED BY <1>3

LEMMA MinFacts ==
  ASSUME NEW S \in SUBSET Nat, S # {}
  PROVE  Min(S) \in S /\ \A y \in S : Min(S) <= y
BY MinExists DEF Min

LEMMA MinUnique ==
  ASSUME NEW S \in SUBSET Nat, NEW x \in S, \A y \in S : x <= y
  PROVE  Min(S) = x
<1>1. Min(S) \in S /\ Min(S) <= x
  BY MinFacts
<1>2. x <= Min(S) /\ x \in Nat /\ Min(S) \in Nat
  BY <1>1
<1> QED BY <1>1, <1>2

\* A greatest number makes no difference.
LEMMA MinWithMore ==
  ASSUME NEW S \in SUBSET Nat, S # {}, NEW f \in Nat, \A x \in S : x <= f
  PROVE  Min(S \cup {f}) = Min(S)
<1>1. Min(S) \in S /\ \A y \in S : Min(S) <= y
  BY MinFacts
<1>2. \A y \in S \cup {f} : Min(S) <= y
  BY <1>1
<1> QED BY <1>1, <1>2, MinUnique

-----------------------------------------------------------------------------
(* Calls *)

LEMMA CallFacts ==
  ASSUME TypeOK, NEW i \in 1 .. Len(calls)
  PROVE  /\ calls[i] \in Calls
         /\ calls[i].type \in {"user", "library"}
         /\ calls[i].type = "user" => calls[i].handler \in Handlers /\ calls[i].begun \in 1 .. MaxTime
         /\ calls[i].type = "library" =>
              calls[i].thread \in 0 .. MaxThreads /\ calls[i].deadline \in 1 .. Forever
<1>1. calls[i] \in Calls
  BY ElementOfSeq DEF TypeOK
<1> QED BY <1>1 DEF Calls

LEMMA CallsLen ==
  ASSUME TypeOK
  PROVE  /\ Len(calls) \in Nat /\ DOMAIN calls = 1 .. Len(calls)
         /\ calls # <<>> <=> Len(calls) # 0
         /\ Len(threads) \in Nat /\ DOMAIN threads = 1 .. Len(threads)
BY LenProperties, EmptySeq DEF TypeOK

\* The first n calls remain.
LEMMA FirstCalls ==
  ASSUME TypeOK, NEW n \in 0 .. Len(calls)
  PROVE  LET seq == SubSeq(calls, 1, n)
         IN  seq \in Seq(Calls) /\ Len(seq) = n /\ \A i \in 1 .. n : seq[i] = calls[i]
<1>1. \A i \in 1 .. n : calls[i] \in Calls
  BY CallsLen, CallFacts
<1>2. n \in Int /\ 1 \in Int /\ n >= 0
  BY CallsLen
<1>3. /\ SubSeq(calls, 1, n) \in Seq(Calls)
      /\ Len(SubSeq(calls, 1, n)) = IF 1 <= n THEN n - 1 + 1 ELSE 0
      /\ \A i \in 1 .. n - 1 + 1 : SubSeq(calls, 1, n)[i] = calls[1 + i - 1]
  BY <1>1, <1>2, SubSeqProperties
<1>4. Len(SubSeq(calls, 1, n)) = n
  BY <1>2, <1>3
<1>5. \A i \in 1 .. n : SubSeq(calls, 1, n)[i] = calls[i]
  BY <1>2, <1>3
<1> QED BY <1>3, <1>4, <1>5

LEMMA SameDeadlines ==
  ASSUME NEW i \in Nat, \A j \in 1 .. i - 1 : calls'[j] = calls[j], phase' = phase
  PROVE  CallDeadlines(i)' = CallDeadlines(i)
<1>1. UserCalls(i - 1)' = UserCalls(i - 1)
  BY DEF UserCalls
<1>2. UserCalls(i - 1) \subseteq 1 .. i - 1
  BY DEF UserCalls
<1>3. {k \in UserCalls(i - 1) : Secs[calls[k].handler] # NoTimeout}'
        = {k \in UserCalls(i - 1) : Secs[calls[k].handler] # NoTimeout}
  BY <1>1, <1>2
<1> QED BY <1>2, <1>3 DEF CallDeadlines

\* What holds of the calls still holds of the first n of them.
LEMMA FewerCalls ==
  ASSUME TypeOK, CallsOK, TimersOK, LeastTimeLeftIsUsed,
         NEW n \in 0 .. Len(calls), calls' = SubSeq(calls, 1, n),
         startTime' = startTime, Len(threads') = Len(threads), nests' = nests,
         recurs' = recurs, now' = now,
         n = 0 \/ phase' = phase
  PROVE  /\ calls' \in Seq(Calls) /\ Len(calls') = n /\ Len(calls') <= MaxDepth
         /\ \A i \in 1 .. n : calls'[i] = calls[i]
         /\ CallsOK' /\ TimersOK' /\ LeastTimeLeftIsUsed'
<1>1. /\ calls' \in Seq(Calls) /\ Len(calls') = n /\ \A i \in 1 .. n : calls'[i] = calls[i]
      /\ Len(calls) \in Nat /\ n \in Nat /\ n <= Len(calls) /\ DOMAIN calls' = 1 .. n
      /\ DOMAIN calls = 1 .. Len(calls)
  BY FirstCalls, CallsLen, LenProperties
<1>2. Len(calls') <= MaxDepth
  BY <1>1, ThreadAssumption DEF TypeOK
<1>3. CallsOK'
  BY <1>1 DEF CallsOK
<1>4. UserCalls(Len(calls))' \subseteq UserCalls(Len(calls))
  BY <1>1 DEF UserCalls
<1>5. TimersOK'
  <2>1. UserCalls(Len(calls))' \subseteq 1 .. n
    BY <1>1 DEF UserCalls
  <2> QED BY <1>1, <1>4, <2>1 DEF TimersOK
<1>6. LeastTimeLeftIsUsed'
  <2> SUFFICES ASSUME NEW i \in 1 .. n, calls'[i].type = "library"
               PROVE  IsGiven(calls[i].deadline, CallDeadlines(i))'
    BY <1>1 DEF LeastTimeLeftIsUsed
  <2>1. i \in DOMAIN calls /\ calls'[i] = calls[i] /\ i \in Nat
    BY <1>1
  <2>2. phase' = phase
    BY <1>1
  <2>3. CallDeadlines(i)' = CallDeadlines(i)
    BY <1>1, <2>1, <2>2, SameDeadlines
  <2> QED BY <2>1, <2>3 DEF LeastTimeLeftIsUsed, IsGiven
<1> QED BY <1>1, <1>2, <1>3, <1>5, <1>6

\* A call begins: the deadlines of the calls around it stay.
LEMMA OneMoreCall ==
  ASSUME TypeOK, LeastTimeLeftIsUsed, MayCall, NEW c \in Calls,
         calls' = Append(calls, c), phase' = phase, recurs' = recurs,
         c.type = "library" => IsGiven(c.deadline, CallDeadlines(Len(calls) + 1))
  PROVE  /\ calls' \in Seq(Calls) /\ Len(calls') = Len(calls) + 1 /\ Len(calls') <= MaxDepth
         /\ calls' # <<>> /\ calls'[Len(calls) + 1] = c
         /\ \A i \in 1 .. Len(calls) : calls'[i] = calls[i]
         /\ LeastTimeLeftIsUsed'
<1> DEFINE n == Len(calls)
<1>1. /\ calls' \in Seq(Calls) /\ Len(calls') = n + 1 /\ calls' # <<>> /\ calls'[n + 1] = c
      /\ \A i \in 1 .. n : calls'[i] = calls[i]
      /\ DOMAIN calls' = 1 .. Len(calls') /\ n \in Nat
  BY AppendProperties, LenProperties DEF TypeOK
<1>2. Len(calls') <= MaxDepth
  BY <1>1, ThreadAssumption DEF MayCall
<1>3. LeastTimeLeftIsUsed'
  <2> SUFFICES ASSUME NEW i \in DOMAIN calls', calls'[i].type = "library"
               PROVE  IsGiven(calls[i].deadline, CallDeadlines(i))'
    BY DEF LeastTimeLeftIsUsed
  <2> HIDE DEF n
  <2>1. i \in Nat /\ (i \in 1 .. n \/ i = n + 1)
    BY <1>1
  <2>2. CallDeadlines(i)' = CallDeadlines(i)
    BY <1>1, <2>1, SameDeadlines
  <2>3. CASE i \in 1 .. n
    BY <1>1, <2>2, <2>3, CallsLen DEF LeastTimeLeftIsUsed, IsGiven, n
  <2>4. CASE i = n + 1
    BY <1>1, <2>2, <2>4 DEF IsGiven, n
  <2> QED BY <2>1, <2>3, <2>4
<1> QED BY <1>1, <1>2, <1>3

\* The clocks of the timeouts are those of the calls, or later if a user keyword
\* uses itself.
LEMMA DeadlinesAreThoseOfCalls ==
  ASSUME TypeOK, TimersOK
  PROVE  LET D == CallDeadlines(Len(calls) + 1)
         IN  /\ Deadlines \subseteq Nat \ {0} /\ D \subseteq Nat \ {0}
             /\ Deadlines # {} <=> D # {}
             /\ \A d \in Deadlines : \E e \in D : e <= d
             /\ ~recurs => Deadlines = D
<1> DEFINE U == {j \in UserCalls(Len(calls)) : Secs[calls[j].handler] # NoTimeout}
           ofTest == IF phase = "test" /\ TestSecs # NoTimeout THEN {TestStart + TestSecs} ELSE {}
           ofTimers == {startTime[calls[i].handler] + Secs[calls[i].handler] : i \in U}
           ofCalls == {calls[i].begun + Secs[calls[i].handler] : i \in U}
<1>1. Len(calls) + 1 - 1 = Len(calls)
  BY CallsLen
<1>2. ASSUME NEW j \in UserCalls(Len(calls))
      PROVE  /\ calls[j].handler \in Handlers /\ calls[j].begun \in 1 .. MaxTime
             /\ startTime[calls[j].handler] \in 0 .. MaxTime
             /\ startTime[calls[j].handler] # Inactive <=> Secs[calls[j].handler] # NoTimeout
             /\ startTime[calls[j].handler] # Inactive =>
                  /\ startTime[calls[j].handler] >= calls[j].begun
                  /\ ~recurs => startTime[calls[j].handler] = calls[j].begun
  <2>1. calls[j].handler \in Handlers /\ calls[j].begun \in 1 .. MaxTime
    BY CallFacts DEF UserCalls
  <2>2. startTime[calls[j].handler] \in 0 .. MaxTime
    BY <2>1 DEF TypeOK
  <2> QED BY <2>1, <2>2, ThreadAssumption DEF TimersOK, Inactive
<1>3. Deadlines = ofTimers \cup ofTest
  <2>1. {j \in UserCalls(Len(calls)) : startTime[calls[j].handler] # Inactive} = U
    BY <1>2
  <2> QED BY <2>1 DEF Deadlines, TestRunning
<1>4. CallDeadlines(Len(calls) + 1) = ofCalls \cup ofTest
  BY <1>1 DEF CallDeadlines
<1>5. \A j \in U :
        /\ startTime[calls[j].handler] + Secs[calls[j].handler] \in Nat \ {0}
        /\ calls[j].begun + Secs[calls[j].handler] \in Nat \ {0}
        /\ calls[j].begun + Secs[calls[j].handler] <= startTime[calls[j].handler] + Secs[calls[j].handler]
        /\ ~recurs => startTime[calls[j].handler] = calls[j].begun
  <2> SUFFICES ASSUME NEW j \in UserCalls(Len(calls)), Secs[calls[j].handler] # NoTimeout
               PROVE  LET start == startTime[calls[j].handler]
                          secs == Secs[calls[j].handler]
                      IN  /\ start + secs \in Nat \ {0} /\ calls[j].begun + secs \in Nat \ {0}
                          /\ calls[j].begun + secs <= start + secs
                          /\ ~recurs => start = calls[j].begun
    OBVIOUS
  <2>1. Secs[calls[j].handler] \in Nat
    BY <1>2, ThreadAssumption
  <2>2. /\ startTime[calls[j].handler] \in Nat /\ calls[j].begun \in Nat \ {0}
        /\ startTime[calls[j].handler] >= calls[j].begun
        /\ ~recurs => startTime[calls[j].handler] = calls[j].begun
    BY <1>2, ThreadAssumption
  <2> QED BY <2>1, <2>2
<1>6. ofTest \subseteq Nat \ {0}
  BY ThreadAssumption DEF TestStart
<1> HIDE DEF U, ofTest
<1>7. /\ ofTimers \subseteq Nat \ {0} /\ ofCalls \subseteq Nat \ {0}
      /\ ofTimers # {} <=> ofCalls # {}
      /\ \A d \in ofTimers : \E e \in ofCalls : e <= d
  BY <1>5
<1>8. ~recurs => ofTimers = ofCalls
  BY <1>5
<1>9. \A d \in ofTest : d <= d
  BY <1>6
<1> HIDE DEF ofTimers, ofCalls
<1> QED BY <1>3, <1>4, <1>6, <1>7, <1>8, <1>9

-----------------------------------------------------------------------------
(* Every step keeps the bookkeeping *)

LEMMA InitThreads == Init => ThreadBookkeeping
<1> SUFFICES ASSUME Init PROVE ThreadBookkeeping
  OBVIOUS
<1>1. /\ calls \in Seq(Calls) /\ Len(calls) = 0 /\ DOMAIN calls = {}
      /\ threads \in Seq({"running", "stopping", "ended"}) /\ Len(threads) = 0 /\ DOMAIN threads = {}
  BY EmptySeq DEF Init
<1>2. TypeOK
  <2>1. MaxTime \in Nat \ {0} /\ MaxDepth \in Nat /\ MaxThreads \in Nat
    BY ThreadAssumption
  <2>2. now \in 1 .. MaxTime /\ startTime \in [Handlers -> 0 .. MaxTime]
    BY <2>1 DEF Init, TestStart, Inactive
  <2>3. Len(calls) <= MaxDepth /\ Len(threads) <= MaxThreads
    BY <1>1, <2>1
  <2>4. /\ {nests, recurs} \subseteq BOOLEAN /\ phase \in {"test", "teardown", "over", "killed"}
        /\ failed \in BOOLEAN /\ runningKeyword \in BOOLEAN /\ ~runningKeyword
    BY DEF Init
  <2>5. signals \in 0 .. 2
    BY DEF Init
  <2>6. runningKeyword => calls # <<>>
    BY <2>4
  <2>7. /\ calls \in Seq(Calls) /\ threads \in Seq({"running", "stopping", "ended"})
    BY <1>1
  <2> QED BY <2>2, <2>3, <2>4, <2>5, <2>6, <2>7 DEF TypeOK
<1>3. CallsOK /\ TimersOK /\ FlagOK
  BY <1>1 DEF Init, CallsOK, TimersOK, FlagOK, UserCalls
<1>4. LeastTimeLeftIsUsed /\ AbandonedKeywordsAreStopped
  BY <1>1 DEF LeastTimeLeftIsUsed, AbandonedKeywordsAreStopped, LeftRunning
<1>5. SignalReachesKeyword
  BY DEF Init, SignalReachesKeyword, InLibraryKeyword
<1> QED BY <1>2, <1>3, <1>4, <1>5 DEF ThreadBookkeeping

\* Without a keyword in a thread nobody waits for any that runs.
LEMMA NoThreadRuns ==
  ASSUME ThreadBookkeeping, ~InLibraryKeyword \/ Top.thread = NoThread
  PROVE  {t \in DOMAIN threads : threads[t] = "running"} \subseteq LeftRunning
BY CallsLen DEF ThreadBookkeeping, LeftRunning, NoThread

\* Nothing that runs is left, apart from what was already.
LEMMA FewerRunning ==
  ASSUME ThreadBookkeeping, signals' = signals,
         {t \in DOMAIN threads' : threads'[t] = "running"} \subseteq LeftRunning
  PROVE  AbandonedKeywordsAreStopped'
BY DEF ThreadBookkeeping, AbandonedKeywordsAreStopped, LeftRunning

LEMMA StartUserKeywordStep ==
  ASSUME ThreadBookkeeping, NEW h \in Handlers, StartUserKeyword(h)
  PROVE  ThreadBookkeeping'
<1> USE DEF ThreadBookkeeping
<1> DEFINE n == Len(calls)
           c == UserCall(h)
<1>1. /\ MayCall /\ calls' = Append(calls, c) /\ phase' = phase /\ threads' = threads
      /\ startTime' = [startTime EXCEPT ![h] = IF Secs[h] # NoTimeout THEN now ELSE Inactive]
      /\ nests' = nests /\ recurs' = recurs /\ now' = now /\ failed' = failed
      /\ runningKeyword' = runningKeyword /\ signals' = signals
      /\ recurs \/ \A i \in UserCalls(n) : calls[i].handler # h
  BY DEF StartUserKeyword
<1>2. c \in Calls /\ c.type = "user" /\ c.handler = h /\ c.begun = now
  BY DEF UserCall, Calls, TypeOK
<1> HIDE DEF c
<1>3. /\ calls' \in Seq(Calls) /\ Len(calls') = n + 1 /\ Len(calls') <= MaxDepth
      /\ calls' # <<>> /\ calls'[n + 1] = c
      /\ \A i \in 1 .. n : calls'[i] = calls[i]
      /\ LeastTimeLeftIsUsed'
  BY <1>1, <1>2, OneMoreCall
<1>4. n \in Nat
  BY CallsLen
<1> HIDE DEF n
<1>5. startTime' \in [Handlers -> 0 .. MaxTime]
  BY <1>1, ThreadAssumption DEF TypeOK, Inactive
<1>6. TypeOK'
  BY <1>1, <1>3, <1>5 DEF TypeOK
<1>7. CallsOK'
  <2> SUFFICES ASSUME NEW i \in 1 .. n + 1, calls'[i].type = "library"
               PROVE  (i < n + 1 => nests /\ calls'[i].thread = NoThread)
                      /\ calls'[i].thread <= Len(threads)
    BY <1>1, <1>3 DEF CallsOK
  <2>1. i \in 1 .. n
    BY <1>2, <1>3, <1>4
  <2>2. calls[i].type = "library" /\ calls'[i] = calls[i]
    BY <1>3, <2>1
  <2>3. CASE i < n
    BY <2>1, <2>2, <2>3 DEF CallsOK, n
  <2>4. CASE i = n
    <3>1. InLibraryKeyword /\ Top = calls[i]
      BY <2>1, <2>2, <2>4, <1>4, EmptySeq DEF InLibraryKeyword, Top, n
    <3>2. nests /\ calls[i].thread = NoThread
      BY <1>1, <3>1 DEF MayCall
    <3> QED BY <2>1, <2>2, <3>2 DEF CallsOK, n
  <2> QED BY <1>4, <2>1, <2>3, <2>4
<1>8. TimersOK'
  <2>1. UserCalls(Len(calls))' = UserCalls(n) \cup {n + 1}
    BY <1>2, <1>3, <1>4 DEF UserCalls
  <2>2. UserCalls(n) \subseteq 1 .. n
    BY DEF UserCalls
  <2>3. ASSUME NEW i \in UserCalls(n)
        PROVE  /\ calls'[i] = calls[i] /\ calls[i].handler \in Handlers
               /\ calls[i].begun \in 1 .. MaxTime /\ calls[i].begun <= now
               /\ startTime'[calls[i].handler] =
                    IF calls[i].handler # h THEN startTime[calls[i].handler]
                    ELSE IF Secs[h] # NoTimeout THEN now ELSE Inactive
               /\ ~recurs => calls[i].handler # h
    <3>1. calls'[i] = calls[i] /\ calls[i].handler \in Handlers /\ calls[i].begun \in 1 .. MaxTime
      BY <1>3, <2>2, CallFacts DEF UserCalls, n
    <3> QED BY <1>1, <3>1 DEF TypeOK, TimersOK, n
  <2>4. startTime'[h] = IF Secs[h] # NoTimeout THEN now ELSE Inactive
    BY <1>1 DEF TypeOK
  <2>5. now \in 1 .. MaxTime /\ now' = now /\ recurs' = recurs /\ MaxTime \in Nat
    BY <1>1, ThreadAssumption DEF TypeOK
  <2>6. ASSUME NEW i \in UserCalls(n)
        PROVE  /\ calls'[i].begun <= now'
               /\ IF Secs[calls'[i].handler] = NoTimeout THEN startTime'[calls'[i].handler] = Inactive
                  ELSE /\ startTime'[calls'[i].handler] >= calls'[i].begun
                       /\ ~recurs' => startTime'[calls'[i].handler] = calls'[i].begun
    BY <2>3, <2>5 DEF TimersOK, n
  <2>7. /\ calls'[n + 1].begun <= now'
        /\ IF Secs[calls'[n + 1].handler] = NoTimeout THEN startTime'[calls'[n + 1].handler] = Inactive
           ELSE /\ startTime'[calls'[n + 1].handler] >= calls'[n + 1].begun
                /\ ~recurs' => startTime'[calls'[n + 1].handler] = calls'[n + 1].begun
    BY <1>2, <1>3, <2>4, <2>5
  <2>8. ASSUME ~recurs', NEW i \in UserCalls(Len(calls))', NEW j \in UserCalls(Len(calls))',
               calls'[i].handler = calls'[j].handler
        PROVE  i = j
    BY <1>2, <1>3, <2>1, <2>2, <2>3, <2>5, <2>8 DEF TimersOK, n
  <2> QED BY <2>1, <2>6, <2>7, <2>8 DEF TimersOK
<1>9. FlagOK'
  BY <1>1, <1>3, <1>4 DEF FlagOK, n
<1>10. ~InLibraryKeyword'
  BY <1>2, <1>3 DEF InLibraryKeyword, Top
<1>11. AbandonedKeywordsAreStopped'
  BY <1>1, NoThreadRuns, FewerRunning DEF MayCall
<1>12. SignalReachesKeyword'
  BY <1>10 DEF SignalReachesKeyword
<1> QED BY <1>3, <1>6, <1>7, <1>8, <1>9, <1>11, <1>12

\* Calls end: a library keyword in which they were made goes on.
LEMMA ShorterCalls ==
  ASSUME ThreadBookkeeping, NEW n \in 0 .. Len(calls) - 1, calls' = SubSeq(calls, 1, n),
         startTime' = startTime, Len(threads') = Len(threads), nests' = nests,
         recurs' = recurs, now' = now,
         n = 0 \/ phase' = phase
  PROVE  /\ calls' \in Seq(Calls) /\ Len(calls') = n /\ Len(calls') <= MaxDepth
         /\ \A i \in 1 .. n : calls'[i] = calls[i]
         /\ CallsOK' /\ TimersOK' /\ LeastTimeLeftIsUsed'
         /\ InLibraryKeyword' => nests' /\ Top'.thread = NoThread
<1> USE DEF ThreadBookkeeping
<1>1. n \in 0 .. Len(calls) /\ n < Len(calls) /\ n \in Nat
  BY CallsLen
<1>2. /\ calls' \in Seq(Calls) /\ Len(calls') = n /\ Len(calls') <= MaxDepth
      /\ \A i \in 1 .. n : calls'[i] = calls[i]
      /\ CallsOK' /\ TimersOK' /\ LeastTimeLeftIsUsed'
  BY <1>1, FewerCalls
<1>3. ASSUME InLibraryKeyword' PROVE nests' /\ Top'.thread = NoThread
  <2>1. calls' # <<>> /\ calls'[n].type = "library" /\ Top' = calls'[n]
    BY <1>2, <1>3 DEF InLibraryKeyword, Top
  <2>2. n \in 1 .. n
    BY <1>1, <1>2, <2>1, EmptySeq
  <2>3. calls[n].type = "library" /\ n \in 1 .. Len(calls) /\ Top' = calls[n]
    BY <1>1, <1>2, <2>1, <2>2
  <2> QED BY <1>1, <2>3 DEF CallsOK
<1> QED BY <1>2, <1>3

LEMMA UnwoundCalls ==
  ASSUME ThreadBookkeeping, NEW catchable \in BOOLEAN, Unwind(catchable),
         startTime' = startTime, Len(threads') = Len(threads), nests' = nests,
         recurs' = recurs, now' = now
  PROVE  /\ calls' \in Seq(Calls) /\ Len(calls') <= MaxDepth
         /\ Len(calls') \in 0 .. Len(calls) - 1 /\ \A i \in 1 .. Len(calls') : calls'[i] = calls[i]
         /\ CallsOK' /\ TimersOK' /\ LeastTimeLeftIsUsed'
         /\ InLibraryKeyword' => nests' /\ Top'.thread = NoThread
         /\ phase' \in {"test", "teardown", "over", "killed"} /\ failed' \in BOOLEAN
<1>1. PICK n \in 0 .. Len(calls) - 1 :
        /\ calls' = SubSeq(calls, 1, n)
        /\ \/ n = 0 /\ phase' = Ended(phase)
           \/ (n > 0 \/ catchable) /\ phase' = phase
        /\ failed' = (failed \/ n = 0)
  BY DEF Unwind
<1>2. phase' \in {"test", "teardown", "over", "killed"}
  BY <1>1 DEF Ended, ThreadBookkeeping, TypeOK
<1>3. failed' \in BOOLEAN
  BY <1>1
<1>4. n = 0 \/ phase' = phase
  BY <1>1
<1> QED BY <1>1, <1>2, <1>3, <1>4, ShorterCalls

LEMMA EndUserKeywordStep ==
  ASSUME ThreadBookkeeping, EndUserKeyword
  PROVE  ThreadBookkeeping'
<1> USE DEF ThreadBookkeeping
<1> DEFINE n == Len(calls) - 1
<1>1. /\ calls # <<>> /\ Top.type = "user" /\ calls' = SubSeq(calls, 1, n)
      /\ UNCHANGED <<nests, recurs, now, phase, failed, startTime, threads, runningKeyword, signals>>
  BY DEF EndUserKeyword, Front
<1>2. n \in 0 .. Len(calls) - 1 /\ n + 1 = Len(calls) /\ n \in Nat
  BY <1>1, CallsLen
<1> HIDE DEF n
<1>3. /\ calls' \in Seq(Calls) /\ Len(calls') = n /\ Len(calls') <= MaxDepth
      /\ \A i \in 1 .. n : calls'[i] = calls[i]
      /\ CallsOK' /\ TimersOK' /\ LeastTimeLeftIsUsed'
      /\ InLibraryKeyword' => nests' /\ Top'.thread = NoThread
  BY <1>1, <1>2, ShorterCalls
<1>4. FlagOK'
  <2> SUFFICES ASSUME runningKeyword
               PROVE  \E i \in 1 .. n : calls'[i].type = "library"
    BY <1>1, <1>3 DEF FlagOK
  <2>1. PICK i \in 1 .. Len(calls) : calls[i].type = "library"
    BY DEF FlagOK
  <2>2. i # Len(calls)
    BY <1>1, <2>1 DEF Top
  <2>3. i \in 1 .. n
    BY <1>2, <2>2
  <2> QED BY <1>3, <2>1, <2>3
<1>5. TypeOK'
  <2>1. runningKeyword' => calls' # <<>>
    BY <1>3, <1>4, EmptySeq DEF FlagOK
  <2> QED BY <1>1, <1>3, <2>1 DEF TypeOK
<1>6. AbandonedKeywordsAreStopped'
  BY <1>1, NoThreadRuns, FewerRunning DEF InLibraryKeyword
<1> QED BY <1>1, <1>3, <1>4, <1>5, <1>6 DEF SignalReachesKeyword

\* An exception leaves calls, and the monitor believes at most what it did before
\* of those that remain.
LEMMA StoppedStep ==
  ASSUME ThreadBookkeeping, NEW catchable \in BOOLEAN, Unwind(catchable),
         runningKeyword' => FlagAfterUnwinding, runningKeyword' \in BOOLEAN,
         nests' = nests, recurs' = recurs, now' = now, startTime' = startTime,
         threads' \in Seq({"running", "stopping", "ended"}), Len(threads') = Len(threads),
         signals' \in 0 .. 2, AbandonedKeywordsAreStopped'
  PROVE  ThreadBookkeeping'
<1> USE DEF ThreadBookkeeping
<1>1. /\ calls' \in Seq(Calls) /\ Len(calls') <= MaxDepth
      /\ Len(calls') \in 0 .. Len(calls) - 1 /\ \A i \in 1 .. Len(calls') : calls'[i] = calls[i]
      /\ CallsOK' /\ TimersOK' /\ LeastTimeLeftIsUsed'
      /\ InLibraryKeyword' => nests' /\ Top'.thread = NoThread
      /\ phase' \in {"test", "teardown", "over", "killed"} /\ failed' \in BOOLEAN
  BY UnwoundCalls
<1>2. FlagOK'
  <2> SUFFICES ASSUME runningKeyword'
               PROVE  \E i \in 1 .. Len(calls') : calls'[i].type = "library"
    BY DEF FlagOK
  <2>1. PICK i \in 1 .. Len(calls) : calls[i].type = "library"
    BY DEF FlagOK, FlagAfterUnwinding
  <2>2. i \notin (Len(calls') + 1) .. Len(calls)
    BY <2>1 DEF FlagAfterUnwinding
  <2>3. i \in 1 .. Len(calls')
    BY <1>1, <2>2, CallsLen
  <2> QED BY <1>1, <2>1, <2>3
<1>3. TypeOK'
  <2>1. runningKeyword' => calls' # <<>>
    BY <1>1, <1>2, EmptySeq DEF FlagOK
  <2> QED BY <1>1, <2>1 DEF TypeOK
<1> QED BY <1>1, <1>2, <1>3 DEF SignalReachesKeyword

\* Nothing is called and no call ends.
LEMMA SameCallsStep ==
  ASSUME ThreadBookkeeping, calls' = calls, nests' = nests, recurs' = recurs,
         startTime' = startTime, now' \in 1 .. MaxTime, now <= now', phase' \in {"test", "teardown", "over", "killed"},
         calls = <<>> \/ phase' = phase, failed' \in BOOLEAN,
         threads' \in Seq({"running", "stopping", "ended"}), Len(threads') = Len(threads),
         runningKeyword' \in BOOLEAN, runningKeyword' => runningKeyword,
         \/ InLibraryKeyword /\ nests /\ Top.thread = NoThread
         \/ ~InLibraryKeyword \/ runningKeyword' = runningKeyword,
         signals' \in 0 .. 2, AbandonedKeywordsAreStopped'
  PROVE  ThreadBookkeeping'
<1> USE DEF ThreadBookkeeping
<1>1. TypeOK'
  BY DEF TypeOK
<1>2. CallsOK' /\ FlagOK'
  BY DEF CallsOK, FlagOK
<1>3. TimersOK'
  <2>1. UserCalls(Len(calls))' = UserCalls(Len(calls))
    BY DEF UserCalls
  <2>2. \A i \in UserCalls(Len(calls)) : calls[i].begun \in 1 .. MaxTime /\ calls[i].begun <= now
    BY CallFacts DEF UserCalls, TimersOK
  <2>3. \A i \in UserCalls(Len(calls)) : calls[i].begun <= now'
    BY <2>2, ThreadAssumption DEF TypeOK
  <2> QED BY <2>1, <2>3 DEF TimersOK
<1>4. LeastTimeLeftIsUsed'
  <2>1. CASE calls = <<>>
    BY <2>1, CallsLen DEF LeastTimeLeftIsUsed
  <2>2. CASE phase' = phase
    <3>1. \A i \in DOMAIN calls : i \in Nat
      BY CallsLen
    <3>2. \A i \in DOMAIN calls : CallDeadlines(i)' = CallDeadlines(i)
      BY <2>2, <3>1, SameDeadlines
    <3> QED BY <3>2 DEF LeastTimeLeftIsUsed, IsGiven
  <2> QED BY <2>1, <2>2
<1>5. SignalReachesKeyword'
  <2> SUFFICES ASSUME phase' # "killed", InLibraryKeyword, nests => Top.thread # NoThread
               PROVE  runningKeyword'
    BY DEF SignalReachesKeyword, InLibraryKeyword, Top
  <2>1. phase # "killed"
    BY DEF InLibraryKeyword
  <2> QED BY <2>1 DEF SignalReachesKeyword
<1> QED BY <1>1, <1>2, <1>3, <1>4, <1>5

LEMMA RefuseKeywordStep ==
  ASSUME ThreadBookkeeping, RefuseKeyword
  PROVE  ThreadBookkeeping'
<1> USE DEF ThreadBookkeeping
<1>1. /\ MayCall /\ RaiseHere /\ ~runningKeyword' /\ runningKeyword' \in BOOLEAN
      /\ UNCHANGED <<nests, recurs, now, startTime, threads, signals>>
  BY DEF RefuseKeyword, StopRunningKeyword
<1>2. now \in 1 .. MaxTime /\ now' = now /\ now <= now'
  BY <1>1, ThreadAssumption DEF TypeOK
<1>3. AbandonedKeywordsAreStopped'
  BY <1>1, NoThreadRuns, FewerRunning DEF MayCall
<1>4. CASE Unwind(FALSE)
  BY <1>1, <1>3, <1>4, StoppedStep DEF TypeOK
<1>5. CASE calls = <<>> /\ phase' = Ended(phase) /\ failed' = TRUE /\ UNCHANGED calls
  <2>1. phase' \in {"test", "teardown", "over", "killed"} /\ failed' \in BOOLEAN
    BY <1>5 DEF Ended
  <2>2. ~InLibraryKeyword
    BY <1>5 DEF InLibraryKeyword
  <2> QED BY <1>1, <1>2, <1>3, <1>5, <2>1, <2>2, SameCallsStep DEF TypeOK
<1>6. CASE InLibraryKeyword /\ UNCHANGED <<calls, phase, failed>>
  <2>1. nests /\ Top.thread = NoThread
    BY <1>1, <1>6 DEF MayCall
  <2> QED BY <1>1, <1>2, <1>3, <1>6, <2>1, SameCallsStep DEF TypeOK
<1> QED BY <1>1, <1>4, <1>5, <1>6 DEF RaiseHere

LEMMA StartKeywordStep ==
  ASSUME ThreadBookkeeping, StartKeyword
  PROVE  ThreadBookkeeping'
<1> USE DEF ThreadBookkeeping
<1> DEFINE n == Len(calls)
           D == CallDeadlines(n + 1)
<1>1. /\ MayCall /\ \A d \in Deadlines : now < d /\ d <= MaxTime
      /\ runningKeyword' = TRUE
      /\ UNCHANGED <<nests, recurs, now, phase, failed, startTime, signals>>
  BY DEF StartKeyword
<1>2. /\ Deadlines \subseteq Nat \ {0} /\ D \subseteq Nat \ {0} /\ n \in Nat
      /\ Deadlines # {} <=> D # {}
      /\ \A d \in Deadlines : \E e \in D : e <= d
      /\ ~recurs => Deadlines = D
  BY DeadlinesAreThoseOfCalls, CallsLen
<1>3. PICK c \in Calls :
        /\ calls' = Append(calls, c) /\ c.type = "library"
        /\ IsGiven(c.deadline, D)
        /\ \/ c.thread = NoThread /\ threads' = threads
           \/ c.thread = Len(threads) + 1 /\ threads' = Append(threads, "running")
              /\ Len(threads) + 1 <= MaxThreads
  <2> HIDE DEF D
  <2>1. MaxTime \in Nat \ {0} /\ MaxThreads \in Nat /\ Forever \in Nat /\ Forever > MaxTime
    BY ThreadAssumption DEF Forever
  <2>2. CASE Deadlines = {}
    <3> DEFINE c == LibraryCall(NoThread, Forever)
    <3>1. calls' = Append(calls, c) /\ threads' = threads
      BY <2>2 DEF StartKeyword
    <3>2. c \in Calls
      BY <2>1 DEF LibraryCall, Calls, NoThread
    <3>3. D = {} /\ Min(D \cup {Forever}) = Forever
      <4>1. D = {} /\ D \cup {Forever} = {Forever}
        BY <1>2, <2>2
      <4> QED BY <2>1, <4>1, MinUnique
    <3>4. IsGiven(Forever, D)
      BY <2>1, <3>3 DEF IsGiven
    <3> QED BY <3>1, <3>2, <3>4 DEF LibraryCall
  <2>3. CASE Deadlines # {}
    <3> DEFINE c == LibraryCall(NewThread, LeastDeadline(Deadlines))
    <3>1. /\ calls' = Append(calls, c) /\ threads' = Append(threads, "running")
          /\ NewThread <= MaxThreads
      BY <2>3 DEF StartKeyword
    <3> DEFINE m == Min(Deadlines)
    <3>2. /\ Deadlines \in SUBSET Nat /\ Deadlines # {}
          /\ D \cup {Forever} \in SUBSET Nat /\ D \cup {Forever} # {}
      BY <1>2, <2>1, <2>3
    <3>3. m \in Deadlines
      BY <3>2, MinFacts
    <3>4. m \in 1 .. MaxTime
      <4> HIDE DEF m
      <4>1. m \in Nat \ {0} /\ m <= MaxTime
        BY <1>1, <1>2, <3>3
      <4> QED BY <2>1, <4>1
    <3>5. PICK e \in D : e <= m
      BY <1>2, <3>3
    <3>6. Min(D \cup {Forever}) \in Nat /\ Min(D \cup {Forever}) <= e
      BY <3>2, <3>5, MinFacts
    <3>7. ~recurs => m = Min(D \cup {Forever})
      <4> SUFFICES ASSUME ~recurs PROVE Min(D \cup {Forever}) = m
        OBVIOUS
      <4>1. D = Deadlines /\ D # {} /\ D \in SUBSET Nat
        BY <1>2, <3>2
      <4>2. \A d \in D : d <= Forever
        BY <1>1, <1>2, <2>1, <4>1
      <4> HIDE DEF D, m
      <4>3. Min(D \cup {Forever}) = Min(D)
        BY <2>1, <4>1, <4>2, MinWithMore
      <4> QED BY <4>1, <4>3 DEF m
    <3> HIDE DEF m
    <3>8. IsGiven(m, D)
      BY <1>2, <2>1, <3>4, <3>5, <3>6, <3>7 DEF IsGiven
    <3>9. LeastDeadline(Deadlines) = m
      BY DEF LeastDeadline, m
    <3>10. NewThread \in 0 .. MaxThreads
      BY <2>1, <3>1, CallsLen DEF NewThread
    <3>11. c \in Calls
      BY <2>1, <3>4, <3>9, <3>10 DEF LibraryCall, Calls
    <3> QED BY <3>1, <3>8, <3>9, <3>11 DEF LibraryCall, NewThread
  <2> QED BY <2>2, <2>3
<1>4. /\ calls' \in Seq(Calls) /\ Len(calls') = n + 1 /\ Len(calls') <= MaxDepth
      /\ calls' # <<>> /\ calls'[n + 1] = c
      /\ \A i \in 1 .. n : calls'[i] = calls[i]
      /\ LeastTimeLeftIsUsed'
  BY <1>1, <1>3, OneMoreCall
<1>5. InLibraryKeyword' /\ Top' = c
  BY <1>3, <1>4 DEF InLibraryKeyword, Top
<1>6. /\ threads' \in Seq({"running", "stopping", "ended"}) /\ Len(threads') <= MaxThreads
      /\ Len(threads') >= Len(threads) /\ Len(threads) \in Nat /\ Len(threads') \in Nat
      /\ c.thread <= Len(threads')
  <2>1. threads \in Seq({"running", "stopping", "ended"}) /\ "running" \in {"running", "stopping", "ended"}
    BY DEF TypeOK
  <2>2. Len(threads) \in Nat
    BY CallsLen
  <2>3. CASE c.thread = NoThread /\ threads' = threads
    BY <2>2, <2>3 DEF TypeOK, NoThread
  <2>4. CASE c.thread = Len(threads) + 1 /\ threads' = Append(threads, "running")
              /\ Len(threads) + 1 <= MaxThreads
    <3>1. threads' \in Seq({"running", "stopping", "ended"}) /\ Len(threads') = Len(threads) + 1
      BY <2>1, <2>4, AppendProperties
    <3> QED BY <2>2, <2>4, <3>1
  <2> QED BY <1>3, <2>3, <2>4
<1> HIDE DEF n
<1>7. TypeOK'
  BY <1>1, <1>4, <1>6 DEF TypeOK
<1>8. CallsOK'
  <2> SUFFICES ASSUME NEW i \in 1 .. n + 1, calls'[i].type = "library"
               PROVE  (i < n + 1 => nests /\ calls'[i].thread = NoThread)
                      /\ calls'[i].thread <= Len(threads')
    BY <1>1, <1>4 DEF CallsOK
  <2>1. CASE i = n + 1
    BY <1>2, <1>4, <1>6, <2>1
  <2>2. CASE i < n
    <3>1. i \in 1 .. n /\ calls'[i] = calls[i]
      BY <1>2, <1>4, <2>2
    <3>2. calls[i].thread = NoThread /\ nests
      BY <2>2, <3>1 DEF CallsOK, n
    <3> QED BY <1>6, <3>1, <3>2 DEF NoThread
  <2>3. CASE i = n
    <3>1. i \in 1 .. n /\ calls'[i] = calls[i]
      BY <1>2, <1>4, <2>3
    <3>2. InLibraryKeyword /\ Top = calls[i]
      BY <1>2, <2>3, <3>1, EmptySeq DEF InLibraryKeyword, Top, n
    <3>3. calls[i].thread = NoThread /\ nests
      BY <1>1, <3>2 DEF MayCall
    <3> QED BY <1>6, <3>1, <3>3 DEF NoThread
  <2> QED BY <1>2, <2>1, <2>2, <2>3
<1>9. TimersOK'
  <2>1. UserCalls(Len(calls))' = UserCalls(n)
    BY <1>2, <1>3, <1>4 DEF UserCalls
  <2>2. \A i \in UserCalls(n) : calls'[i] = calls[i]
    BY <1>4 DEF UserCalls
  <2> QED BY <1>1, <2>1, <2>2 DEF TimersOK, n
<1>10. FlagOK'
  <2>1. n + 1 \in 1 .. Len(calls') /\ calls'[n + 1].type = "library"
    BY <1>2, <1>3, <1>4
  <2> QED BY <2>1 DEF FlagOK
<1>11. AbandonedKeywordsAreStopped'
  <2> SUFFICES ASSUME NEW t \in DOMAIN threads', threads'[t] = "running", c.thread # t
               PROVE  t \in LeftRunning
    BY <1>1, <1>5 DEF ThreadBookkeeping, AbandonedKeywordsAreStopped, LeftRunning
  <2>1. {u \in DOMAIN threads : threads[u] = "running"} \subseteq LeftRunning
    BY <1>1, NoThreadRuns DEF MayCall
  <2>2. CASE threads' = threads
    BY <2>1, <2>2
  <2>3. CASE c.thread = Len(threads) + 1 /\ threads' = Append(threads, "running")
    <3>1. Len(threads') = Len(threads) + 1 /\ \A u \in 1 .. Len(threads) : threads'[u] = threads[u]
      BY <2>3, AppendProperties DEF TypeOK
    <3>2. t \in 1 .. Len(threads) + 1
      BY <1>6, <3>1, LenProperties
    <3>3. t \in 1 .. Len(threads)
      BY <1>6, <2>3, <3>2
    <3> QED BY <2>1, <3>1, <3>3, CallsLen
  <2> QED BY <1>3, <2>2, <2>3
<1>12. SignalReachesKeyword'
  BY <1>1 DEF SignalReachesKeyword
<1> QED BY <1>4, <1>7, <1>8, <1>9, <1>10, <1>11, <1>12

\* The thread of the innermost keyword is left in a state in which it does not
\* go on as if nothing had happened.
LEMMA ThreadIsLeft ==
  ASSUME ThreadBookkeeping, InLibraryKeyword, NEW s \in {"stopping", "ended"}, LeaveThread(s)
  PROVE  /\ threads' \in Seq({"running", "stopping", "ended"}) /\ Len(threads') = Len(threads)
         /\ {t \in DOMAIN threads' : threads'[t] = "running"} \subseteq LeftRunning
<1> USE DEF ThreadBookkeeping
<1>1. /\ threads \in Seq({"running", "stopping", "ended"}) /\ s \in {"running", "stopping", "ended"}
      /\ Len(threads) \in Nat /\ DOMAIN threads = 1 .. Len(threads)
  BY CallsLen DEF TypeOK
<1>2. CASE Top.thread = NoThread
  BY <1>1, <1>2, NoThreadRuns DEF LeaveThread
<1>3. CASE Top.thread # NoThread
  <2>1. Len(calls) \in 1 .. Len(calls)
    BY CallsLen DEF InLibraryKeyword
  <2>2. Top.thread \in 1 .. Len(threads)
    <3>1. Top.type = "library" /\ Top.thread \in 0 .. MaxThreads /\ Top.thread <= Len(threads)
      BY <2>1, CallFacts DEF InLibraryKeyword, Top, CallsOK
    <3> QED BY <1>1, <1>3, <3>1, ThreadAssumption DEF NoThread
  <2>3. threads' = [threads EXCEPT ![Top.thread] = s]
    BY <1>3 DEF LeaveThread
  <2>4. /\ threads' \in Seq({"running", "stopping", "ended"}) /\ Len(threads') = Len(threads)
        /\ \A t \in 1 .. Len(threads) : threads'[t] = IF t = Top.thread THEN s ELSE threads[t]
    BY <1>1, <2>2, <2>3, ExceptSeq
  <2>5. DOMAIN threads' = 1 .. Len(threads)
    BY <2>4, LenProperties
  <2> QED BY <1>1, <2>4, <2>5 DEF LeftRunning
<1> QED BY <1>2, <1>3

LEMMA EndKeywordStep ==
  ASSUME ThreadBookkeeping, EndKeyword
  PROVE  ThreadBookkeeping'
<1> USE DEF ThreadBookkeeping
<1>1. /\ InLibraryKeyword /\ LeaveThread("ended")
      /\ ~runningKeyword' /\ runningKeyword' \in BOOLEAN
      /\ UNCHANGED <<nests, recurs, now, startTime, signals>>
  BY DEF EndKeyword, StopRunningKeyword
<1>2. /\ threads' \in Seq({"running", "stopping", "ended"}) /\ Len(threads') = Len(threads)
      /\ {t \in DOMAIN threads' : threads'[t] = "running"} \subseteq LeftRunning
  BY <1>1, ThreadIsLeft
<1>3. AbandonedKeywordsAreStopped'
  BY <1>1, <1>2, FewerRunning
<1>4. CASE Unwind(TRUE)
  BY <1>1, <1>2, <1>3, <1>4, StoppedStep DEF TypeOK
<1>5. CASE calls' = Front(calls) /\ UNCHANGED <<phase, failed>>
  <2> DEFINE n == Len(calls) - 1
  <2>1. n \in 0 .. Len(calls) - 1 /\ calls' = SubSeq(calls, 1, n)
    BY <1>1, <1>5, CallsLen DEF InLibraryKeyword, Front
  <2> HIDE DEF n
  <2>2. /\ calls' \in Seq(Calls) /\ Len(calls') <= MaxDepth
        /\ CallsOK' /\ TimersOK' /\ LeastTimeLeftIsUsed'
        /\ InLibraryKeyword' => nests' /\ Top'.thread = NoThread
    BY <1>1, <1>2, <1>5, <2>1, ShorterCalls
  <2>3. TypeOK'
    BY <1>1, <1>2, <1>5, <2>2 DEF TypeOK
  <2> QED BY <1>1, <1>3, <2>2, <2>3 DEF FlagOK, SignalReachesKeyword
<1> QED BY <1>4, <1>5 DEF EndKeyword

LEMMA TimeoutExpiresStep ==
  ASSUME ThreadBookkeeping, TimeoutExpires
  PROVE  ThreadBookkeeping'
<1> USE DEF ThreadBookkeeping
<1>1. /\ InLibraryKeyword /\ Unwind(FALSE)
      /\ ~runningKeyword' /\ runningKeyword' \in BOOLEAN
      /\ UNCHANGED <<nests, recurs, now, startTime, signals>>
  BY DEF TimeoutExpires, StopRunningKeyword
<1>2. PICK s \in {"stopping", "ended"} : LeaveThread(s)
  BY DEF TimeoutExpires, ToldToStop
<1>3. /\ threads' \in Seq({"running", "stopping", "ended"}) /\ Len(threads') = Len(threads)
      /\ {t \in DOMAIN threads' : threads'[t] = "running"} \subseteq LeftRunning
  BY <1>1, <1>2, ThreadIsLeft
<1>4. AbandonedKeywordsAreStopped'
  BY <1>1, <1>3, FewerRunning
<1> QED BY <1>1, <1>3, <1>4, StoppedStep DEF TypeOK

LEMMA AbandonedThreadEndsStep ==
  ASSUME ThreadBookkeeping, NEW t \in DOMAIN threads, AbandonedThreadEnds(t)
  PROVE  ThreadBookkeeping'
<1> USE DEF ThreadBookkeeping
<1>1. /\ threads' = [threads EXCEPT ![t] = "ended"]
      /\ UNCHANGED <<nests, recurs, now, phase, failed, calls, startTime, runningKeyword, signals>>
  BY DEF AbandonedThreadEnds
<1>2. /\ threads' \in Seq({"running", "stopping", "ended"}) /\ Len(threads') = Len(threads)
      /\ \A u \in 1 .. Len(threads) : threads'[u] = IF u = t THEN "ended" ELSE threads[u]
  <2>1. t \in 1 .. Len(threads) /\ threads \in Seq({"running", "stopping", "ended"})
        /\ "ended" \in {"running", "stopping", "ended"}
    BY CallsLen DEF TypeOK
  <2> QED BY <1>1, <2>1, ExceptSeq
<1>3. DOMAIN threads' = 1 .. Len(threads) /\ DOMAIN threads = 1 .. Len(threads)
  BY <1>2, CallsLen, LenProperties
<1>4. AbandonedKeywordsAreStopped'
  BY <1>1, <1>2, <1>3 DEF AbandonedKeywordsAreStopped, LeftRunning, InLibraryKeyword, Top
<1>5. now \in 1 .. MaxTime /\ now <= now
  BY ThreadAssumption DEF TypeOK
<1> QED BY <1>1, <1>2, <1>4, <1>5, SameCallsStep DEF TypeOK

LEMMA SignalStep ==
  ASSUME ThreadBookkeeping, FirstSignal \/ SecondSignal
  PROVE  ThreadBookkeeping'
<1> USE DEF ThreadBookkeeping
<1>1. CASE FirstSignal
  <2>1. signals = 0 /\ signals' = 1 /\ UNCHANGED <<nests, recurs, now, startTime, threads>>
    BY <1>1 DEF FirstSignal
  <2>2. signals' \in 0 .. 2 /\ signals' # 0
    BY <2>1
  <2>3. now \in 1 .. MaxTime /\ now <= now
    BY ThreadAssumption DEF TypeOK
  <2>4. AbandonedKeywordsAreStopped'
    <3>1. \A t, u \in DOMAIN threads :
            threads[t] = "running" /\ threads[u] = "running" => t = u
      BY <2>1 DEF AbandonedKeywordsAreStopped, LeftRunning
    <3> QED BY <2>1, <2>2, <3>1 DEF AbandonedKeywordsAreStopped, LeftRunning
  <2>5. CASE runningKeyword /\ Unwind(FALSE) /\ runningKeyword' = FlagAfterUnwinding
    <3>1. FlagAfterUnwinding \in BOOLEAN
      BY <2>5 DEF FlagAfterUnwinding
    <3> QED BY <2>1, <2>2, <2>4, <2>5, <3>1, StoppedStep DEF TypeOK
  <2>6. CASE runningKeyword' = runningKeyword /\ UNCHANGED <<phase, failed, calls>>
    BY <2>1, <2>2, <2>3, <2>4, <2>6, SameCallsStep DEF TypeOK
  <2> QED BY <1>1, <2>5, <2>6 DEF FirstSignal, FlagAfterSignal
<1>2. CASE SecondSignal
  <2>1. /\ signals' = 2 /\ phase' = "killed" /\ calls' = <<>> /\ runningKeyword' = FALSE
        /\ threads' = [t \in DOMAIN threads |-> "ended"]
        /\ UNCHANGED <<nests, recurs, now, failed, startTime>>
    BY <1>2 DEF SecondSignal
  <2> DEFINE T == {"running", "stopping", "ended"}
  <2>2. threads' \in Seq(T) /\ Len(threads') = Len(threads)
    <3>1. DOMAIN threads = 1 .. Len(threads) /\ Len(threads) \in Nat
      BY CallsLen
    <3>2. threads' \in [1 .. Len(threads) -> T]
      BY <2>1, <3>1
    <3>3. Seq(T) = UNION {[1 .. n -> T] : n \in Nat}
      BY SeqDef
    <3>4. threads' \in Seq(T)
      BY <3>1, <3>2, <3>3
    <3>5. DOMAIN threads' = 1 .. Len(threads') /\ Len(threads') \in Nat
      BY <3>4, LenProperties
    <3>6. DOMAIN threads' = 1 .. Len(threads)
      BY <3>2
    <3>7. Len(threads') = Len(threads)
      <4> DEFINE m == Len(threads')
                 k == Len(threads)
      <4>1. m \in Nat /\ k \in Nat /\ 1 .. m = 1 .. k
        BY <3>1, <3>5, <3>6
      <4> HIDE DEF m, k
      <4>2. (m # 0 => m \in 1 .. m) /\ (k # 0 => k \in 1 .. k)
        BY <4>1
      <4>3. m = k
        BY <4>1, <4>2
      <4> QED BY <4>3 DEF m, k
    <3> QED BY <3>4, <3>7
  <2>3. calls' \in Seq(Calls) /\ Len(calls') = 0 /\ DOMAIN calls' = {}
    BY <2>1, EmptySeq
  <2>4. CallsOK' /\ TimersOK' /\ LeastTimeLeftIsUsed'
    BY <2>3 DEF CallsOK, TimersOK, LeastTimeLeftIsUsed, UserCalls
  <2>5. ~runningKeyword' /\ runningKeyword' \in BOOLEAN
    BY <2>1
  <2>6. Len(calls') <= MaxDepth /\ signals' \in 0 .. 2 /\ phase' \in {"test", "teardown", "over", "killed"}
    BY <2>1, <2>3, ThreadAssumption
  <2>7. TypeOK'
    BY <2>1, <2>2, <2>3, <2>5, <2>6 DEF TypeOK
  <2>8. AbandonedKeywordsAreStopped'
    BY <2>1 DEF AbandonedKeywordsAreStopped, LeftRunning
  <2> QED BY <2>1, <2>4, <2>5, <2>7, <2>8 DEF FlagOK, SignalReachesKeyword
<1> QED BY <1>1, <1>2

LEMMA StepThreads ==
  ASSUME ThreadBookkeeping, [Next]_vars
  PROVE  ThreadBookkeeping'
<1> USE DEF ThreadBookkeeping
<1>1. CASE EndPhase
  <2>1. /\ calls = <<>> /\ phase' = Ended(phase)
        /\ UNCHANGED <<nests, recurs, now, calls, startTime, threads, runningKeyword, signals>>
    BY <1>1 DEF EndPhase
  <2>2. phase' \in {"test", "teardown", "over", "killed"}
    BY <2>1 DEF Ended
  <2>3. failed' \in BOOLEAN
    BY <1>1 DEF EndPhase
  <2>4. AbandonedKeywordsAreStopped'
    BY <2>1 DEF AbandonedKeywordsAreStopped, LeftRunning, InLibraryKeyword
  <2>5. now \in 1 .. MaxTime /\ now <= now
    BY ThreadAssumption DEF TypeOK
  <2> QED BY <2>1, <2>2, <2>3, <2>4, <2>5, SameCallsStep DEF TypeOK
<1>2. CASE Tick \/ Over \/ UNCHANGED vars
  <2>1. UNCHANGED <<nests, recurs, phase, failed, calls, startTime, threads, runningKeyword, signals>>
    BY <1>2 DEF Tick, Over, vars
  <2>2. now' \in 1 .. MaxTime /\ now <= now'
    BY <1>2, ThreadAssumption DEF Tick, Over, vars, TypeOK
  <2>3. AbandonedKeywordsAreStopped'
    BY <2>1 DEF AbandonedKeywordsAreStopped, LeftRunning, InLibraryKeyword, Top
  <2> QED BY <2>1, <2>2, <2>3, SameCallsStep DEF TypeOK
<1> QED BY <1>1, <1>2, StartUserKeywordStep, EndUserKeywordStep, RefuseKeywordStep,
           StartKeywordStep, EndKeywordStep, TimeoutExpiresStep, AbandonedThreadEndsStep,
           SignalStep DEF Next

-----------------------------------------------------------------------------
(* What follows *)

\* The inductive invariant.
THEOREM ThreadBookkeepingHolds == Init /\ [][Next]_vars => []ThreadBookkeeping
<1>1. ThreadBookkeeping /\ [Next]_vars => ThreadBookkeeping'
  BY StepThreads
<1> QED BY <1>1, InitThreads, PTL

\* Every library keyword is given the least time that is left to the test and the
\* user keywords around it, each counted from its own beginning, and not less, but
\* not forever either, if user keywords use themselves; timeouts leave no keyword
\* running that was not told to stop, and a signal the one only that was run when
\* it came; and a signal finds the keyword that is run in a thread, or at all if
\* library keywords do not run others (running/timeouts.py, utils/robotthread.py,
\* running/signalhandler.py).
THEOREM KeywordsAreUnderControlHolds == Spec => []KeywordsAreUnderControl
<1>1. ThreadBookkeeping => KeywordsAreUnderControl
  BY DEF ThreadBookkeeping, KeywordsAreUnderControl
<1> QED BY <1>1, ThreadBookkeepingHolds, PTL DEF Spec

=============================================================================
