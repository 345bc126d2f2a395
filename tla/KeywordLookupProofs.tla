------------------------ MODULE KeywordLookupProofs ------------------------
(***************************************************************************)
(* All imports of a suite are handled, and which keyword a name means is   *)
(* decided by the priorities of files and libraries: for all resource      *)
(* files, also those that import each other, libraries, names and search   *)
(* orders.                                                                 *)
(***************************************************************************)
EXTENDS KeywordLookup, FiniteSetTheorems, SequenceTheorems, WellFoundedInduction, TLAPS

-----------------------------------------------------------------------------
(* The inductive invariant *)

\* The strings, with those of the program itself, which the provers do not know
\* to be strings.
Words == STRING \cup {"", "suite", "BuiltIn", "Reserved", "Easter",
                     "DeprecatedBuiltIn", "DeprecatedOperatingSystem"}

ImportItem == [type: {"Resource", "Library"}, name: Words, directory: Words]

LookupTypeOK ==
  /\ pending \in Seq(ImportItem) /\ reported \in Seq(ImportItem)
  /\ userlibs \in Seq(DOMAIN ImportedFiles) /\ imported \subseteq DOMAIN ImportedFiles
  /\ imported \ InvalidFiles = Range(userlibs)
  /\ testlibs \subseteq Libraries
  /\ userKeywords \in Seq(KeywordName \ {<<>>}) /\ order \in Seq(STRING)
  /\ asked \in Names \cup {NoKeywordName}

\* No resource file is taken twice.
TakenOnce ==
  IsFiniteSet(Range(userlibs)) /\ Cardinality(Range(userlibs)) = Len(userlibs)

\* What has not been handled is still to be.
NothingIsForgotten ==
  \A path \in Range(userlibs) : \A item \in Range(ImportsOf(path)) :
    IsReported(item) \/ IsImported(item) \/ IsSkipped(item) \/ item \in Range(pending)

ReportedForAReason ==
  \A item \in Range(reported) : CannotImport(item) \/ \E path \in InvalidFiles : IsOf(item, path)

\* An invalid file that has been imported is reported, and by one import only.
InvalidReportedOnce ==
  \A path \in InvalidFiles :
    /\ path \in imported <=> \E i \in DOMAIN reported : IsOf(reported[i], path)
    /\ \A i, j \in DOMAIN reported : IsOf(reported[i], path) /\ IsOf(reported[j], path) => i = j

ImportsOK ==
  LookupTypeOK /\ TakenOnce /\ NothingIsForgotten /\ ReportedForAReason /\ InvalidReportedOnce

\* Names are looked up when everything has been imported.
FoundOK ==
  asked # NoKeywordName => pending = <<>> /\ found \in Handlers(asked)

LookupBookkeeping == ImportsOK /\ FoundOK
-----------------------------------------------------------------------------
(* Numbers and sequences *)

LEMMA FirstOfFacts ==
  ASSUME NEW S \in SUBSET Nat, S # {}
  PROVE  FirstOf(S) \in S /\ \A m \in S : FirstOf(S) <= m
<1>1. IsWellFoundedOn(OpToRel(<, Nat), Nat)
  BY NatLessThanWellFounded
<1>2. PICK x \in S : \A y \in S : ~ (<<y, x>> \in OpToRel(<, Nat))
  BY <1>1, WFMin
<1>3. ASSUME NEW y \in S, y < x PROVE FALSE
  <2>1. y \in Nat /\ x \in Nat
    OBVIOUS
  <2>2. <<y, x>> \in {ss \in Nat \X Nat : ss[1] < ss[2]}
    BY <1>3, <2>1
  <2>3. ~ (<<y, x>> \in {ss \in Nat \X Nat : ss[1] < ss[2]})
    BY <1>2 DEF OpToRel
  <2> QED BY <2>2, <2>3
<1>4. \E n \in S : \A m \in S : n <= m
  BY <1>3
<1> QED BY <1>4 DEF FirstOf

\* If the first number is in a set, it is the first of it.
LEMMA FirstIsZero ==
  ASSUME NEW S \in SUBSET Nat, 0 \in S
  PROVE  FirstOf(S) = 0
<1>1. FirstOf(S) \in S /\ FirstOf(S) <= 0
  BY FirstOfFacts
<1>2. FirstOf(S) \in Nat
  BY <1>1
<1> QED BY <1>1, <1>2

LEMMA RangeFacts ==
  ASSUME NEW S, NEW seq \in Seq(S)
  PROVE  /\ Range(seq) \subseteq S
         /\ \A x : x \in Range(seq) <=> \E i \in 1 .. Len(seq) : x = seq[i]
<1>1. DOMAIN seq = 1 .. Len(seq) /\ \A i \in 1 .. Len(seq) : seq[i] \in S
  BY LenProperties, ElementOfSeq
<1> QED BY <1>1 DEF Range

LEMMA RangeOfAppend ==
  ASSUME NEW S, NEW seq \in Seq(S), NEW x \in S
  PROVE  /\ Append(seq, x) \in Seq(S) /\ Len(Append(seq, x)) = Len(seq) + 1
         /\ Range(Append(seq, x)) = Range(seq) \cup {x}
<1> DEFINE app == Append(seq, x)
<1>1. /\ app \in Seq(S) /\ Len(app) = Len(seq) + 1 /\ app[Len(seq) + 1] = x
      /\ \A i \in 1 .. Len(seq) : app[i] = seq[i]
  BY AppendProperties
<1>2. Len(seq) \in Nat
  BY LenProperties
<1>3. \A y : y \in Range(app) <=> \E i \in 1 .. Len(app) : y = app[i]
  BY <1>1, RangeFacts
<1>4. \A y : y \in Range(seq) <=> \E i \in 1 .. Len(seq) : y = seq[i]
  BY RangeFacts
<1> HIDE DEF app
<1>5. \A y : (\E i \in 1 .. Len(app) : y = app[i]) <=> y = x \/ \E i \in 1 .. Len(seq) : y = seq[i]
  <2> TAKE y
  <2>1. ASSUME NEW i \in 1 .. Len(app), y = app[i], y # x
        PROVE  \E j \in 1 .. Len(seq) : y = seq[j]
    <3>1. i # Len(seq) + 1
      BY <1>1, <2>1
    <3>2. i \in 1 .. Len(seq)
      BY <1>1, <1>2, <3>1
    <3> QED BY <1>1, <2>1, <3>2
  <2>2. ASSUME y = x PROVE \E i \in 1 .. Len(app) : y = app[i]
    <3>1. Len(seq) + 1 \in 1 .. Len(app)
      BY <1>1, <1>2
    <3> QED BY <1>1, <2>2, <3>1
  <2>3. ASSUME NEW i \in 1 .. Len(seq), y = seq[i] PROVE \E j \in 1 .. Len(app) : y = app[j]
    <3>1. i \in 1 .. Len(app)
      BY <1>1, <1>2
    <3> QED BY <1>1, <2>3, <3>1
  <2> QED BY <2>1, <2>2, <2>3
<1>6. Range(app) = Range(seq) \cup {x}
  BY <1>3, <1>4, <1>5
<1> QED BY <1>1, <1>6 DEF app

LEMMA RangeOfConcat ==
  ASSUME NEW S, NEW s1 \in Seq(S), NEW s2 \in Seq(S)
  PROVE  /\ s1 \o s2 \in Seq(S)
         /\ Range(s1 \o s2) = Range(s1) \cup Range(s2)
<1> DEFINE con == s1 \o s2
<1>1. /\ con \in Seq(S) /\ Len(con) = Len(s1) + Len(s2)
      /\ \A i \in 1 .. Len(s1) + Len(s2) : con[i] = IF i <= Len(s1) THEN s1[i] ELSE s2[i - Len(s1)]
  BY ConcatProperties
<1>2. Len(s1) \in Nat /\ Len(s2) \in Nat
  BY LenProperties
<1>3. /\ \A y : y \in Range(con) <=> \E i \in 1 .. Len(con) : y = con[i]
      /\ \A y : y \in Range(s1) <=> \E i \in 1 .. Len(s1) : y = s1[i]
      /\ \A y : y \in Range(s2) <=> \E i \in 1 .. Len(s2) : y = s2[i]
  <2> HIDE DEF con
  <2> QED BY <1>1, RangeFacts
<1> HIDE DEF con
<1>4. ASSUME NEW i \in 1 .. Len(con)
      PROVE  (\E j \in 1 .. Len(s1) : con[i] = s1[j]) \/ (\E j \in 1 .. Len(s2) : con[i] = s2[j])
  <2>1. CASE i <= Len(s1)
    <3>1. i \in 1 .. Len(s1)
      BY <1>1, <1>2, <2>1
    <3> QED BY <1>1, <1>2, <2>1, <3>1
  <2>2. CASE ~(i <= Len(s1))
    <3>1. i - Len(s1) \in 1 .. Len(s2)
      BY <1>1, <1>2, <2>2
    <3>2. con[i] = s2[i - Len(s1)]
      BY <1>1, <1>2, <2>2
    <3> QED BY <3>1, <3>2
  <2> QED BY <2>1, <2>2
<1>5. ASSUME NEW j \in 1 .. Len(s1) PROVE j \in 1 .. Len(con) /\ con[j] = s1[j]
  <2>1. j \in 1 .. Len(con) /\ j \in 1 .. Len(s1) + Len(s2) /\ j <= Len(s1)
    BY <1>1, <1>2
  <2> QED BY <1>1, <2>1
<1>6. ASSUME NEW j \in 1 .. Len(s2)
      PROVE  Len(s1) + j \in 1 .. Len(con) /\ con[Len(s1) + j] = s2[j]
  <2>1. /\ Len(s1) + j \in 1 .. Len(con) /\ Len(s1) + j \in 1 .. Len(s1) + Len(s2)
        /\ ~(Len(s1) + j <= Len(s1)) /\ Len(s1) + j - Len(s1) = j
    BY <1>1, <1>2
  <2> QED BY <1>1, <2>1
<1>7. ASSUME NEW y \in Range(con) PROVE y \in Range(s1) \/ y \in Range(s2)
  BY <1>3, <1>4
<1>8. ASSUME NEW y \in Range(s1) PROVE y \in Range(con)
  BY <1>3, <1>5
<1>9. ASSUME NEW y \in Range(s2) PROVE y \in Range(con)
  BY <1>3, <1>6
<1> QED BY <1>1, <1>7, <1>8, <1>9 DEF con

LEMMA RangeOfTail ==
  ASSUME NEW S, NEW seq \in Seq(S), seq # <<>>
  PROVE  /\ Head(seq) \in S /\ Tail(seq) \in Seq(S)
         /\ Range(seq) = {Head(seq)} \cup Range(Tail(seq))
<1> DEFINE tail == Tail(seq)
<1>1. /\ Head(seq) \in S /\ tail \in Seq(S) /\ Len(tail) = Len(seq) - 1
      /\ \A i \in 1 .. Len(tail) : tail[i] = seq[i + 1]
      /\ Head(seq) = seq[1]
  BY HeadTailProperties
<1>2. Len(seq) \in Nat \ {0}
  BY EmptySeq
<1>3. /\ \A y : y \in Range(seq) <=> \E i \in 1 .. Len(seq) : y = seq[i]
      /\ \A y : y \in Range(tail) <=> \E i \in 1 .. Len(tail) : y = tail[i]
  <2> HIDE DEF tail
  <2> QED BY <1>1, RangeFacts
<1> HIDE DEF tail
<1>4. ASSUME NEW i \in 1 .. Len(seq), i # 1 PROVE i - 1 \in 1 .. Len(tail) /\ seq[i] = tail[i - 1]
  <2>1. i - 1 \in 1 .. Len(tail) /\ i - 1 + 1 = i
    BY <1>1, <1>2, <1>4
  <2> QED BY <1>1, <2>1
<1>5. ASSUME NEW i \in 1 .. Len(tail) PROVE i + 1 \in 1 .. Len(seq) /\ tail[i] = seq[i + 1]
  BY <1>1, <1>2
<1>6. 1 \in 1 .. Len(seq)
  BY <1>2
<1>7. \A y : y \in Range(seq) <=> y = Head(seq) \/ y \in Range(tail)
  BY <1>1, <1>3, <1>4, <1>5, <1>6
<1> QED BY <1>1, <1>7 DEF tail

-----------------------------------------------------------------------------
(* Imports *)

\* The file that is used is one of those there are.
LEMMA ResolvedFile ==
  ASSUME NEW item \in ImportItem, Existing(item) # {}
  PROVE  ResolvePath(item) \in DOMAIN ImportedFiles
<1>1. Existing(item) \in SUBSET Nat
  BY DEF Existing, PlacesOf
<1>2. FirstOf(Existing(item)) \in Existing(item)
  BY <1>1, FirstOfFacts
<1> QED BY <1>2 DEF Existing, ResolvePath

LEMMA ImportsOfFile ==
  ASSUME NEW path \in DOMAIN ImportedFiles
  PROVE  ImportsOf(path) \in Seq(ImportItem)
<1> DEFINE imports == ImportedFiles[path].imports
<1>1. imports \in Seq(Import) /\ path[1] \in STRING
  BY LookupAssumption
<1>2. /\ Len(imports) \in Nat /\ DOMAIN imports = 1 .. Len(imports)
      /\ \A i \in 1 .. Len(imports) : imports[i] \in Import
  BY <1>1, LenProperties, ElementOfSeq
<1> HIDE DEF imports
<1>3. \A i \in 1 .. Len(imports) :
        [type |-> imports[i].type, name |-> imports[i].name, directory |-> path[1]] \in ImportItem
  BY <1>1, <1>2 DEF Import, ImportItem, Words
<1>4. [i \in 1 .. Len(imports) |->
         [type |-> imports[i].type, name |-> imports[i].name, directory |-> path[1]]] \in Seq(ImportItem)
  BY <1>2, <1>3, IsASeq
<1> QED BY <1>2, <1>4 DEF ImportsOf, imports

LEMMA DeprecatedItems ==
  ASSUME NEW name
  PROVE  Deprecated(name) \in Seq(ImportItem)
<1> DEFINE item(n) == [type |-> "Library", name |-> n, directory |-> ""]
<1>1. item("DeprecatedBuiltIn") \in ImportItem /\ item("DeprecatedOperatingSystem") \in ImportItem
  <2>1. \A n, d \in Words : [type |-> "Library", name |-> n, directory |-> d] \in ImportItem
    BY DEF ImportItem
  <2>2. "DeprecatedBuiltIn" \in Words /\ "DeprecatedOperatingSystem" \in Words /\ "" \in Words
    BY DEF Words
  <2> QED BY <2>1, <2>2
<1>2. \A x \in ImportItem : <<x>> \in Seq(ImportItem)
  OBVIOUS
<1>3. <<>> \in Seq(ImportItem)
  BY EmptySeq
<1>4. CASE name = "BuiltIn"
  <2>1. Deprecated(name) = <<item("DeprecatedBuiltIn")>>
    BY <1>4 DEF Deprecated
  <2> QED BY <1>1, <1>2, <2>1
<1>5. CASE name = "OperatingSystem"
  <2>1. Deprecated(name) = <<item("DeprecatedOperatingSystem")>>
    BY <1>5 DEF Deprecated
  <2> QED BY <1>1, <1>2, <2>1
<1>6. CASE name # "BuiltIn" /\ name # "OperatingSystem"
  BY <1>3, <1>6 DEF Deprecated
<1> QED BY <1>4, <1>5, <1>6

\* The library of a name is the only one with it.
LEMMA OneLibraryNamed ==
  ASSUME NEW name, LibraryNamed(name) # {}
  PROVE  Only(LibraryNamed(name)) \in Libraries /\ Only(LibraryNamed(name)).name = name
BY DEF Only, LibraryNamed

\* The place of the last one, and those of the others.
LEMMA PlacesOfAppend ==
  ASSUME NEW S, NEW seq \in Seq(S), NEW x \in S
  PROVE  /\ Len(seq) \in Nat /\ DOMAIN seq = 1 .. Len(seq)
         /\ DOMAIN Append(seq, x) = 1 .. Len(seq) + 1
         /\ Append(seq, x)[Len(seq) + 1] = x
         /\ \A i \in 1 .. Len(seq) : Append(seq, x)[i] = seq[i]
<1>1. /\ Append(seq, x) \in Seq(S) /\ Len(Append(seq, x)) = Len(seq) + 1
      /\ Append(seq, x)[Len(seq) + 1] = x
      /\ \A i \in 1 .. Len(seq) : Append(seq, x)[i] = seq[i]
  BY AppendProperties
<1>2. DOMAIN Append(seq, x) = 1 .. Len(Append(seq, x))
  BY <1>1, LenProperties
<1>3. Len(seq) \in Nat /\ DOMAIN seq = 1 .. Len(seq)
  BY LenProperties
<1> QED BY <1>1, <1>2, <1>3

\* An import that fails, one of a file that is found to be invalid among them.
LEMMA ReportKeeps ==
  ASSUME ImportsOK, pending # <<>>,
         NEW item, item = Head(pending), ReportInvalidSyntax(item, Tail(pending)),
         \/ CannotImport(item) /\ imported' = imported
         \/ \E path \in InvalidFiles \ imported : IsOf(item, path) /\ imported' = imported \cup {path},
         UNCHANGED <<userlibs, testlibs, userKeywords, order, asked, found>>
  PROVE  ImportsOK'
<1> DEFINE rest == Tail(pending)
<1> USE DEF ImportsOK
<1>1. /\ item \in ImportItem /\ rest \in Seq(ImportItem)
      /\ Range(pending) = {item} \cup Range(rest)
  BY RangeOfTail DEF LookupTypeOK
<1>2. pending' = rest /\ reported' = Append(reported, item)
  BY DEF ReportInvalidSyntax
<1> HIDE DEF rest
<1>3. reported' \in Seq(ImportItem) /\ Range(reported') = Range(reported) \cup {item}
  <2>1. reported \in Seq(ImportItem)
    BY DEF LookupTypeOK
  <2>2. item \in ImportItem
    BY <1>1
  <2>3. Append(reported, item) \in Seq(ImportItem)
    BY <2>1, <2>2, RangeOfAppend
  <2>4. Range(Append(reported, item)) = Range(reported) \cup {item}
    BY <2>1, <2>2, RangeOfAppend
  <2> QED BY <1>2, <2>3, <2>4
<1>4. LookupTypeOK'
  <2>1. /\ imported' \subseteq DOMAIN ImportedFiles
        /\ imported' \ InvalidFiles = imported \ InvalidFiles
    BY LookupAssumption DEF LookupTypeOK
  <2> QED BY <1>1, <1>2, <1>3, <2>1 DEF LookupTypeOK
<1>5. TakenOnce'
  BY DEF TakenOnce
<1>6. NothingIsForgotten'
  <2> SUFFICES ASSUME NEW path \in Range(userlibs)', NEW i \in Range(ImportsOf(path))
               PROVE  (IsReported(i) \/ IsImported(i) \/ IsSkipped(i) \/ i \in Range(pending))'
    BY DEF NothingIsForgotten
  <2>1. IsReported(i) \/ IsImported(i) \/ IsSkipped(i) \/ i \in Range(pending)
    BY DEF NothingIsForgotten
  <2>2. IsReported(i) => IsReported(i)'
    BY <1>3 DEF IsReported
  <2>3. IsImported(i) => IsImported(i)'
    BY DEF IsImported
  <2>4. IsSkipped(i) => IsSkipped(i)'
    BY <1>3 DEF IsSkipped
  <2>5. i \in Range(pending) => i = item \/ i \in Range(pending')
    BY <1>1, <1>2
  <2>6. i = item => IsReported(i)'
    BY <1>3 DEF IsReported
  <2> QED BY <2>1, <2>2, <2>3, <2>4, <2>5, <2>6
<1>7. ReportedForAReason'
  BY <1>3 DEF ReportedForAReason
<1>8. InvalidReportedOnce'
  <2> SUFFICES ASSUME NEW path \in InvalidFiles
               PROVE  /\ path \in imported' <=> \E i \in DOMAIN reported' : IsOf(reported'[i], path)
                      /\ \A i, j \in DOMAIN reported' :
                           IsOf(reported'[i], path) /\ IsOf(reported'[j], path) => i = j
    BY DEF InvalidReportedOnce
  <2>1. /\ path \in imported <=> \E i \in DOMAIN reported : IsOf(reported[i], path)
        /\ \A i, j \in DOMAIN reported : IsOf(reported[i], path) /\ IsOf(reported[j], path) => i = j
    BY DEF InvalidReportedOnce
  <2>2. /\ Len(reported) \in Nat /\ DOMAIN reported = 1 .. Len(reported)
        /\ DOMAIN reported' = 1 .. Len(reported) + 1
        /\ reported'[Len(reported) + 1] = item
        /\ \A i \in 1 .. Len(reported) : reported'[i] = reported[i]
    <3>1. reported \in Seq(ImportItem) /\ item \in ImportItem
      BY <1>1 DEF LookupTypeOK
    <3> QED BY <1>2, <3>1, PlacesOfAppend
  <2>3. \A i \in DOMAIN reported' : i = Len(reported) + 1 \/ i \in DOMAIN reported
    BY <2>2
  <2>4. CASE IsOf(item, path)
    <3>1. path \notin imported /\ path \in imported'
      BY <2>4 DEF IsOf
    <3>2. \A i \in DOMAIN reported : ~IsOf(reported'[i], path)
      BY <2>1, <2>2, <3>1
    <3>3. Len(reported) + 1 \in DOMAIN reported'
      BY <2>2
    <3> QED BY <2>2, <2>3, <2>4, <3>1, <3>2, <3>3
  <2>5. CASE ~IsOf(item, path)
    <3>1. path \in imported' <=> path \in imported
      BY <2>5
    <3>2. \A i \in DOMAIN reported' : IsOf(reported'[i], path) => i \in DOMAIN reported /\ IsOf(reported[i], path)
      BY <2>2, <2>3, <2>5
    <3>3. \A i \in DOMAIN reported : i \in DOMAIN reported' /\ reported'[i] = reported[i]
      BY <2>2
    <3> QED BY <2>1, <3>1, <3>2, <3>3
  <2> QED BY <2>4, <2>5
<1> QED BY <1>4, <1>5, <1>6, <1>7, <1>8

\* A resource file is imported: its own imports come first.
LEMMA ImportResourceKeeps ==
  ASSUME ImportsOK, pending # <<>>,
         NEW item, item = Head(pending), item.type = "Resource", ~CannotImport(item),
         ImportResource(item, ResolvePath(item), Tail(pending)),
         UNCHANGED <<userKeywords, order, asked, found>>
  PROVE  ImportsOK'
<1> DEFINE rest == Tail(pending)
           path == ResolvePath(item)
<1> USE DEF ImportsOK
<1>1. /\ item \in ImportItem /\ rest \in Seq(ImportItem)
      /\ Range(pending) = {item} \cup Range(rest)
  BY RangeOfTail DEF LookupTypeOK
<1>2. /\ Existing(item) # {} /\ IsOf(item, path)
      /\ path \in DOMAIN ImportedFiles
  BY <1>1, ResolvedFile DEF CannotImport, IsOf
<1>3. /\ imported' = imported \cup {path} /\ testlibs' = testlibs
      /\ \/ path \in imported /\ pending' = rest /\ UNCHANGED <<reported, userlibs>>
         \/ path \in InvalidFiles \ imported /\ ReportInvalidSyntax(item, rest) /\ UNCHANGED userlibs
         \/ /\ path \notin imported \cup InvalidFiles
            /\ userlibs' = Append(userlibs, path) /\ pending' = ImportsOf(path) \o rest
            /\ UNCHANGED reported
  BY DEF ImportResource
<1>4. IsImported(item)' <=> path \in Range(userlibs')
  BY <1>2 DEF IsImported
<1>5. /\ userlibs \in Seq(DOMAIN ImportedFiles) /\ imported \ InvalidFiles = Range(userlibs)
  BY DEF LookupTypeOK
<1>6. ASSUME path \in imported, pending' = rest, UNCHANGED <<reported, userlibs>>
      PROVE  ImportsOK'
  <2> HIDE DEF rest, path
  <2>0. imported' = imported
    BY <1>3, <1>6
  <2>1. LookupTypeOK' /\ TakenOnce' /\ ReportedForAReason' /\ InvalidReportedOnce'
    BY <1>1, <1>3, <1>6, <2>0 DEF LookupTypeOK, TakenOnce, ReportedForAReason, InvalidReportedOnce
  <2>2. NothingIsForgotten'
    <3> SUFFICES ASSUME NEW p \in Range(userlibs)', NEW i \in Range(ImportsOf(p))
                 PROVE  (IsReported(i) \/ IsImported(i) \/ IsSkipped(i) \/ i \in Range(pending))'
      BY DEF NothingIsForgotten
    <3>1. IsReported(i) \/ IsImported(i) \/ IsSkipped(i) \/ i \in Range(pending)
      BY <1>6 DEF NothingIsForgotten
    <3>2. /\ IsReported(i) => IsReported(i)'
          /\ IsImported(i) => IsImported(i)'
          /\ IsSkipped(i) => IsSkipped(i)'
      BY <1>3, <1>6 DEF IsReported, IsImported, IsSkipped
    <3>3. i \in Range(pending) => i = item \/ i \in Range(pending')
      BY <1>1, <1>6
    <3>4. IsImported(item)' \/ IsSkipped(item)'
      <4>1. CASE path \notin InvalidFiles
        BY <1>4, <1>5, <1>6, <4>1
      <4>2. CASE path \in InvalidFiles
        <5>1. PICK j \in DOMAIN reported : IsOf(reported[j], path)
          BY <1>6, <4>2 DEF InvalidReportedOnce
        <5>2. reported[j] \in Range(reported')
          BY <1>6, <5>1 DEF Range
        <5> QED BY <1>2, <4>2, <5>1, <5>2 DEF IsSkipped
      <4> QED BY <4>1, <4>2
    <3> QED BY <3>1, <3>2, <3>3, <3>4
  <2> QED BY <2>1, <2>2
<1>7. ASSUME path \in InvalidFiles \ imported, ReportInvalidSyntax(item, rest), UNCHANGED userlibs
      PROVE  ImportsOK'
  <2>1. \E p \in InvalidFiles \ imported : IsOf(item, p) /\ imported' = imported \cup {p}
    BY <1>2, <1>3, <1>7
  <2> QED BY <1>3, <1>7, <2>1, ReportKeeps
<1>8. ASSUME path \notin imported, path \notin InvalidFiles, userlibs' = Append(userlibs, path),
             pending' = ImportsOf(path) \o rest, UNCHANGED reported
      PROVE  ImportsOK'
  <2> HIDE DEF rest, path
  <2>1. ImportsOf(path) \in Seq(ImportItem)
    BY <1>2, ImportsOfFile
  <2>2. /\ pending' \in Seq(ImportItem)
        /\ Range(pending') = Range(ImportsOf(path)) \cup Range(rest)
    <3>1. ImportsOf(path) \o rest \in Seq(ImportItem)
      BY <1>1, <2>1, RangeOfConcat
    <3>2. Range(ImportsOf(path) \o rest) = Range(ImportsOf(path)) \cup Range(rest)
      BY <1>1, <2>1, RangeOfConcat
    <3> QED BY <1>8, <3>1, <3>2
  <2>3. /\ userlibs' \in Seq(DOMAIN ImportedFiles) /\ Len(userlibs') = Len(userlibs) + 1
        /\ Range(userlibs') = Range(userlibs) \cup {path}
    <3>1. path \in DOMAIN ImportedFiles
      BY <1>2
    <3>2. Append(userlibs, path) \in Seq(DOMAIN ImportedFiles)
      BY <1>5, <3>1, RangeOfAppend
    <3>3. Len(Append(userlibs, path)) = Len(userlibs) + 1
      BY <1>5, <3>1, RangeOfAppend
    <3>4. Range(Append(userlibs, path)) = Range(userlibs) \cup {path}
      BY <1>5, <3>1, RangeOfAppend
    <3> QED BY <1>8, <3>2, <3>3, <3>4
  <2>4. LookupTypeOK'
    <3>1. imported' \subseteq DOMAIN ImportedFiles /\ imported' \ InvalidFiles = Range(userlibs')
      BY <1>2, <1>3, <1>5, <1>8, <2>3 DEF LookupTypeOK
    <3> QED BY <1>3, <1>8, <2>2, <2>3, <3>1 DEF LookupTypeOK
  <2>5. TakenOnce'
    <3>1. IsFiniteSet(Range(userlibs)) /\ Cardinality(Range(userlibs)) = Len(userlibs)
      BY DEF TakenOnce
    <3>2. path \notin Range(userlibs)
      BY <1>5, <1>8
    <3>3. /\ IsFiniteSet(Range(userlibs) \cup {path})
          /\ Cardinality(Range(userlibs) \cup {path}) = Cardinality(Range(userlibs)) + 1
      BY <3>1, <3>2, FS_AddElement
    <3> QED BY <2>3, <3>1, <3>3 DEF TakenOnce
  <2>6. NothingIsForgotten'
    <3> SUFFICES ASSUME NEW p \in Range(userlibs)', NEW i \in Range(ImportsOf(p))
                 PROVE  (IsReported(i) \/ IsImported(i) \/ IsSkipped(i) \/ i \in Range(pending))'
      BY DEF NothingIsForgotten
    <3>1. CASE p \in Range(userlibs)
      <4>1. IsReported(i) \/ IsImported(i) \/ IsSkipped(i) \/ i \in Range(pending)
        BY <3>1 DEF NothingIsForgotten
      <4>2. (IsReported(i) => IsReported(i)') /\ (IsSkipped(i) => IsSkipped(i)')
        BY <1>8 DEF IsReported, IsSkipped
      <4>3. IsImported(i) => IsImported(i)'
        BY <1>3, <2>3 DEF IsImported
      <4>4. i \in Range(pending) => i = item \/ i \in Range(pending')
        BY <1>1, <2>2
      <4>5. IsImported(item)'
        BY <1>4, <2>3
      <4> QED BY <4>1, <4>2, <4>3, <4>4, <4>5
    <3>2. CASE p = path
      BY <2>2, <3>2
    <3> QED BY <2>3, <3>1, <3>2
  <2>7. ReportedForAReason'
    BY <1>8 DEF ReportedForAReason
  <2>8. InvalidReportedOnce'
    BY <1>3, <1>8 DEF InvalidReportedOnce
  <2> QED BY <2>4, <2>5, <2>6, <2>7, <2>8
<1> QED BY <1>3, <1>6, <1>7, <1>8

\* A library is imported, and with a standard one the one of its old keywords.
LEMMA ImportLibraryKeeps ==
  ASSUME ImportsOK, pending # <<>>,
         NEW item, item = Head(pending),
         item.type = "Library", ~CannotImport(item),
         ImportLibrary(Only(LibraryNamed(item.name)), Tail(pending)),
         UNCHANGED <<userKeywords, order, asked, found>>
  PROVE  ImportsOK'
<1> DEFINE rest == Tail(pending)
           lib == Only(LibraryNamed(item.name))
           more == IF lib \in testlibs THEN <<>> ELSE Deprecated(lib.name)
<1>1. /\ item \in ImportItem /\ rest \in Seq(ImportItem)
      /\ Range(pending) = {item} \cup Range(rest)
  BY RangeOfTail DEF ImportsOK, LookupTypeOK
<1>2. item.type = "Library" /\ lib \in Libraries /\ lib.name = item.name
  BY OneLibraryNamed DEF CannotImport
<1> USE DEF ImportsOK
<1>3. /\ UNCHANGED <<reported, imported, userlibs, userKeywords, order, asked, found>>
      /\ pending' = more \o rest
      /\ testlibs' = testlibs \cup {lib}
  BY DEF ImportLibrary
<1>4. more \in Seq(ImportItem)
  BY DeprecatedItems, EmptySeq
<1> HIDE DEF rest, lib, more
<1>5. pending' \in Seq(ImportItem) /\ Range(pending') = Range(more) \cup Range(rest)
  <2>1. more \o rest \in Seq(ImportItem)
    BY <1>1, <1>4, RangeOfConcat
  <2>2. Range(more \o rest) = Range(more) \cup Range(rest)
    BY <1>1, <1>4, RangeOfConcat
  <2> QED BY <1>3, <2>1, <2>2
<1>6. LookupTypeOK'
  BY <1>2, <1>3, <1>5 DEF LookupTypeOK
<1>7. TakenOnce' /\ ReportedForAReason' /\ InvalidReportedOnce'
  BY <1>3 DEF TakenOnce, ReportedForAReason, InvalidReportedOnce
<1>8. NothingIsForgotten'
  <2> SUFFICES ASSUME NEW p \in Range(userlibs)', NEW i \in Range(ImportsOf(p))
               PROVE  (IsReported(i) \/ IsImported(i) \/ IsSkipped(i) \/ i \in Range(pending))'
    BY DEF NothingIsForgotten
  <2>1. IsReported(i) \/ IsImported(i) \/ IsSkipped(i) \/ i \in Range(pending)
    BY <1>3 DEF NothingIsForgotten
  <2>2. /\ IsReported(i) => IsReported(i)'
        /\ IsImported(i) => IsImported(i)'
        /\ IsSkipped(i) => IsSkipped(i)'
    BY <1>3 DEF IsReported, IsImported, IsSkipped
  <2>3. i \in Range(pending) => i = item \/ i \in Range(pending')
    BY <1>1, <1>5
  <2>4. IsImported(item)'
    BY <1>2, <1>3 DEF IsImported
  <2> QED BY <2>1, <2>2, <2>3, <2>4
<1> QED BY <1>6, <1>7, <1>8

-----------------------------------------------------------------------------
(* Looking names up *)

\* What is found does not change while nothing is imported.
LEMMA SameHandlers ==
  ASSUME NEW name, UNCHANGED <<userKeywords, userlibs, testlibs, order>>
  PROVE  Handlers(name)' = Handlers(name)
<1>1. \A n : FromTestCaseFile(n)' = FromTestCaseFile(n)
  BY DEF FromTestCaseFile
<1>2. \A n : FromResourceFiles(n)' = FromResourceFiles(n)
  BY DEF FromResourceFiles
<1>3. \A libs : BySearchOrder(libs)' = BySearchOrder(libs)
  BY DEF BySearchOrder
<1>4. \A n : FromLibraries(n)' = FromLibraries(n)
  BY <1>3 DEF FromLibraries, LibrariesWith
<1>5. \A n : ImplicitHandlers(n)' = ImplicitHandlers(n)
  BY <1>1, <1>2, <1>4 DEF ImplicitHandlers
<1>6. \A n : ExplicitHandlers(n)' = ExplicitHandlers(n)
  BY DEF ExplicitHandlers
<1>7. \A n : HandlersOf(n)' = HandlersOf(n)
  BY <1>5, <1>6 DEF HandlersOf
<1> QED BY <1>7 DEF Handlers

LEMMA BooksAtStart ==
  ASSUME LookupInit
  PROVE  LookupBookkeeping
<1>1. PICK imports \in SuiteImports :
        pending = [i \in 1..3 |-> [type |-> "Library", name |-> <<"BuiltIn", "Reserved", "Easter">>[i], directory |-> ""]]
                  \o [i \in DOMAIN imports |-> [type |-> imports[i].type, name |-> imports[i].name, directory |-> "suite"]]
  BY DEF LookupInit
<1>2. /\ userKeywords \in SuiteKeywords
      /\ reported = <<>> /\ imported = {} /\ userlibs = <<>> /\ testlibs = {} /\ order = <<>>
      /\ asked = NoKeywordName /\ found = NoHandler
  BY DEF LookupInit
<1>3. [i \in 1..3 |-> [type |-> "Library", name |-> <<"BuiltIn", "Reserved", "Easter">>[i], directory |-> ""]]
        \in Seq(ImportItem)
  <2> DEFINE names == <<"BuiltIn", "Reserved", "Easter">>
  <2>1. \A n, d \in Words : [type |-> "Library", name |-> n, directory |-> d] \in ImportItem
    BY DEF ImportItem
  <2>2. /\ names[1] = "BuiltIn" /\ names[2] = "Reserved" /\ names[3] = "Easter"
        /\ "" \in Words /\ "BuiltIn" \in Words /\ "Reserved" \in Words /\ "Easter" \in Words
    BY DEF Words
  <2> HIDE DEF names
  <2>3. \A i \in 1..3 : i = 1 \/ i = 2 \/ i = 3
    OBVIOUS
  <2>4. \A i \in 1..3 : names[i] \in Words
    BY <2>2, <2>3
  <2>5. \A i \in 1..3 : [type |-> "Library", name |-> names[i], directory |-> ""] \in ImportItem
    BY <2>1, <2>2, <2>4
  <2>6. 3 \in Nat
    OBVIOUS
  <2>7. [i \in 1..3 |-> [type |-> "Library", name |-> names[i], directory |-> ""]] \in [1..3 -> ImportItem]
    BY <2>5
  <2>8. \A f \in [1..3 -> ImportItem] : f \in Seq(ImportItem)
    BY <2>6
  <2> QED BY <2>7, <2>8 DEF names
<1>4. [i \in DOMAIN imports |-> [type |-> imports[i].type, name |-> imports[i].name, directory |-> "suite"]]
        \in Seq(ImportItem)
  <2>1. imports \in Seq(Import)
    BY LookupAssumption
  <2>2. /\ Len(imports) \in Nat /\ DOMAIN imports = 1 .. Len(imports)
        /\ \A i \in 1 .. Len(imports) : imports[i] \in Import
    BY <2>1, LenProperties, ElementOfSeq
  <2>3. \A i \in 1 .. Len(imports) :
          [type |-> imports[i].type, name |-> imports[i].name, directory |-> "suite"] \in ImportItem
    BY <2>2 DEF Import, ImportItem, Words
  <2>4. [i \in 1 .. Len(imports) |->
          [type |-> imports[i].type, name |-> imports[i].name, directory |-> "suite"]] \in Seq(ImportItem)
    BY <2>2, <2>3, IsASeq
  <2> QED BY <2>2, <2>4
<1>5. pending \in Seq(ImportItem)
  BY <1>1, <1>3, <1>4, RangeOfConcat
<1>6. /\ <<>> \in Seq(ImportItem) /\ <<>> \in Seq(DOMAIN ImportedFiles) /\ <<>> \in Seq(STRING)
      /\ Len(<<>>) = 0
  BY EmptySeq
<1>7. Range(userlibs) = {} /\ Range(reported) = {}
  <2>1. 1 .. Len(<<>>) = {}
    BY <1>6
  <2>2. \A x : x \notin Range(<<>>)
    BY <1>6, <2>1, RangeFacts
  <2> QED BY <1>2, <2>2
<1>8. LookupTypeOK
  <2>0. imported \subseteq DOMAIN ImportedFiles /\ imported \ InvalidFiles = Range(userlibs)
    BY <1>2, <1>7
  <2>1. userKeywords \in Seq(KeywordName \ {<<>>})
    BY <1>2, LookupAssumption
  <2> QED BY <1>2, <1>5, <1>6, <2>0, <2>1 DEF LookupTypeOK
<1>9. TakenOnce
  BY <1>2, <1>6, <1>7, FS_EmptySet DEF TakenOnce
<1>10. InvalidReportedOnce
  <2>1. DOMAIN reported = {}
    BY <1>2, <1>7 DEF Range
  <2> QED BY <1>2, <2>1 DEF InvalidReportedOnce
<1> QED BY <1>2, <1>7, <1>8, <1>9, <1>10
       DEF LookupBookkeeping, ImportsOK, NothingIsForgotten, ReportedForAReason, FoundOK

LEMMA BooksAreKept ==
  ASSUME LookupBookkeeping, [LookupNext]_lookupVars
  PROVE  LookupBookkeeping'
<1>1. ImportsOK /\ FoundOK
  BY DEF LookupBookkeeping
<1>2. CASE HandleImport
  <2>1. PICK item : item = Head(pending)
    OBVIOUS
  <2>2. pending # <<>> /\ UNCHANGED <<userKeywords, order, asked, found>>
    BY <1>2 DEF HandleImport
  <2>3. IF CannotImport(item)
        THEN ReportInvalidSyntax(item, Tail(pending)) /\ UNCHANGED <<imported, userlibs, testlibs>>
        ELSE \/ item.type = "Resource" /\ ImportResource(item, ResolvePath(item), Tail(pending))
             \/ item.type = "Library" /\ ImportLibrary(Only(LibraryNamed(item.name)), Tail(pending))
    BY <1>2, <2>1 DEF HandleImport
  <2>4. ImportsOK'
    <3>1. CASE CannotImport(item)
      BY <1>1, <2>1, <2>2, <2>3, <3>1, ReportKeeps
    <3>2. CASE ~CannotImport(item) /\ item.type = "Resource" /\ ImportResource(item, ResolvePath(item), Tail(pending))
      BY <1>1, <2>1, <2>2, <3>2, ImportResourceKeeps
    <3>3. CASE ~CannotImport(item) /\ item.type = "Library" /\ ImportLibrary(Only(LibraryNamed(item.name)), Tail(pending))
      BY <1>1, <2>1, <2>2, <3>3, ImportLibraryKeeps
    <3> QED BY <2>3, <3>1, <3>2, <3>3
  <2>5. FoundOK'
    BY <1>1, <2>2 DEF FoundOK
  <2> QED BY <2>4, <2>5 DEF LookupBookkeeping
<1>3. ASSUME UNCHANGED <<pending, reported, imported, userlibs, testlibs, userKeywords>>,
             order' \in Seq(STRING), asked' \in Names \cup {NoKeywordName}, FoundOK'
      PROVE  LookupBookkeeping'
  <2> USE DEF ImportsOK
  <2>1. LookupTypeOK'
    BY <1>1, <1>3 DEF LookupTypeOK
  <2>2. TakenOnce' /\ ReportedForAReason' /\ InvalidReportedOnce'
    BY <1>1, <1>3 DEF TakenOnce, ReportedForAReason, InvalidReportedOnce
  <2>3. NothingIsForgotten'
    <3>1. \A item :
            /\ IsReported(item)' <=> IsReported(item)
            /\ IsImported(item)' <=> IsImported(item)
            /\ IsSkipped(item)' <=> IsSkipped(item)
      BY <1>3 DEF IsReported, IsImported, IsSkipped
    <3> QED BY <1>1, <1>3, <3>1 DEF NothingIsForgotten
  <2> QED BY <1>3, <2>1, <2>2, <2>3 DEF LookupBookkeeping
<1>4. ASSUME NEW name \in Names, GetHandler(name)
      PROVE  LookupBookkeeping'
  <2>1. /\ pending = <<>> /\ asked' = name /\ found' \in Handlers(name)
        /\ UNCHANGED <<pending, reported, imported, userlibs, testlibs, userKeywords, order>>
    BY <1>4 DEF GetHandler
  <2>2. Handlers(name)' = Handlers(name)
    BY <2>1, SameHandlers
  <2>3. FoundOK'
    BY <2>1, <2>2 DEF FoundOK
  <2> QED BY <1>1, <1>3, <2>1, <2>3 DEF ImportsOK, LookupTypeOK
<1>5. ASSUME NEW libraries \in Orders, SetLibrarySearchOrder(libraries), asked = NoKeywordName
      PROVE  LookupBookkeeping'
  <2>1. /\ order' = libraries
        /\ UNCHANGED <<pending, reported, imported, userlibs, testlibs, userKeywords, asked, found>>
    BY <1>5 DEF SetLibrarySearchOrder
  <2>2. FoundOK'
    BY <1>5, <2>1 DEF FoundOK
  <2>3. libraries \in Seq(STRING)
    BY LookupAssumption
  <2> QED BY <1>1, <1>3, <2>1, <2>2, <2>3 DEF ImportsOK, LookupTypeOK
<1>6. CASE UNCHANGED lookupVars
  <2>1. UNCHANGED <<pending, reported, imported, userlibs, testlibs, userKeywords, order, asked, found>>
    BY <1>6 DEF lookupVars
  <2>2. \A name : Handlers(name)' = Handlers(name)
    BY <2>1, SameHandlers
  <2>3. FoundOK'
    BY <1>1, <2>1, <2>2 DEF FoundOK
  <2> QED BY <1>1, <1>3, <2>1, <2>3 DEF ImportsOK, LookupTypeOK
<1> QED BY <1>2, <1>4, <1>5, <1>6 DEF LookupNext

\* In every suite, the imports, what they failed of and what was found belong
\* together at every step.
THEOREM LookupBookkeepingHolds == LookupSpec => []LookupBookkeeping
<1>1. LookupInit => LookupBookkeeping
  BY BooksAtStart
<1>2. LookupBookkeeping /\ [LookupNext]_lookupVars => LookupBookkeeping'
  BY BooksAreKept
<1> QED BY <1>1, <1>2, PTL DEF LookupSpec

LEMMA BooksAreComplete ==
  ASSUME LookupBookkeeping
  PROVE  ImportsAreComplete
<1>1. /\ TakenOnce /\ NothingIsForgotten /\ ReportedForAReason /\ InvalidReportedOnce
      /\ imported \ InvalidFiles = Range(userlibs)
  BY DEF LookupBookkeeping, ImportsOK, LookupTypeOK
<1>2. \A x : x \notin Range(<<>>)
  <2>1. <<>> \in Seq(ImportItem) /\ Len(<<>>) = 0
    BY EmptySeq
  <2>2. 1 .. Len(<<>>) = {}
    BY <2>1
  <2> QED BY <2>1, <2>2, RangeFacts
<1>3. ASSUME NEW path \in imported \cap InvalidFiles
      PROVE  Cardinality({i \in DOMAIN reported : IsOf(reported[i], path)}) = 1
  <2>1. PICK k \in DOMAIN reported : IsOf(reported[k], path)
    BY <1>1 DEF InvalidReportedOnce
  <2>2. {i \in DOMAIN reported : IsOf(reported[i], path)} = {k}
    BY <1>1, <2>1 DEF InvalidReportedOnce
  <2> QED BY <2>2, FS_Singleton
<1>4. ASSUME NEW path \in imported
      PROVE  IF path \in InvalidFiles
             THEN /\ path \notin Range(userlibs)
                  /\ Cardinality({i \in DOMAIN reported : IsOf(reported[i], path)}) = 1
             ELSE path \in Range(userlibs)
  BY <1>1, <1>3
<1> QED BY <1>1, <1>2, <1>4
       DEF ImportsAreComplete, TakenOnce, NothingIsForgotten, ReportedForAReason

-----------------------------------------------------------------------------
(* What can be found with a name *)

LookedUp == [owner: Seq(STRING), words: KeywordName, underscored: BOOLEAN, respelled: BOOLEAN]

\* A set of one, of two, and of more elements.
LEMMA SmallSets ==
  ASSUME NEW S, IsFiniteSet(S)
  PROVE  /\ Cardinality(S) > 1 <=> \E x, y \in S : x # y
         /\ Cardinality(S) = 1 => S # {} /\ \A x, y \in S : x = y
         /\ Cardinality(S) = 2 => \E x, y \in S : x # y /\ S = {x, y}
<1>1. Cardinality(S) \in Nat /\ (Cardinality(S) = 0 <=> S = {})
  BY FS_CardinalityType, FS_EmptySet
<1>2. Cardinality(S) = 1 <=> \E x : S = {x}
  BY FS_Singleton
<1>3. ASSUME NEW x \in S, NEW y \in S, x # y PROVE Cardinality(S) > 1
  <2>1. Cardinality(S) # 0
    BY <1>1, <1>3
  <2>2. Cardinality(S) # 1
    BY <1>2, <1>3
  <2> QED BY <1>1, <2>1, <2>2
<1>4. ASSUME Cardinality(S) > 1 PROVE \E x, y \in S : x # y
  <2>1. PICK x : x \in S
    BY <1>1, <1>4
  <2>2. S # {x}
    <3>1. Cardinality({x}) = 1
      BY FS_Singleton
    <3> QED BY <1>4, <3>1
  <2> QED BY <2>1, <2>2
<1>5. ASSUME Cardinality(S) = 2 PROVE \E x, y \in S : x # y /\ S = {x, y}
  <2>1. PICK x \in S, y \in S : x # y
    BY <1>4, <1>5
  <2>2. IsFiniteSet(S \ {x}) /\ Cardinality(S \ {x}) = 1
    BY <1>5, FS_RemoveElement
  <2>3. PICK z : S \ {x} = {z}
    BY <2>2, FS_Singleton
  <2>4. S = {x, y}
    BY <2>1, <2>3
  <2> QED BY <2>1, <2>4
<1> QED BY <1>2, <1>3, <1>4, <1>5

\* Leaving out nothing is always tried, and first.
LEMMA LeftOutFacts ==
  ASSUME NEW name \in LookedUp
  PROVE  /\ LeftOut(name) \in SUBSET Nat /\ 0 \in LeftOut(name)
         /\ WithoutPrefixes(name, 0) = name
<1>1. name.owner \in Seq(STRING) /\ name.words \in Seq(STRING)
  BY DEF LookedUp, KeywordName
<1>2. SubSeq(name.owner, 1, Len(name.owner)) = name.owner /\ SubSeq(name.words, 1, Len(name.words)) = name.words
  BY <1>1, SubSeqFull
<1>3. WithoutPrefixes(name, 0) = name
  <2>1. 0 + 1 = 1
    OBVIOUS
  <2>2. [name EXCEPT !.owner = name.owner] = name /\ [name EXCEPT !.words = name.words] = name
    BY DEF LookedUp
  <2> QED BY <1>2, <2>1, <2>2 DEF WithoutPrefixes
<1>4. LeftOut(name) \in SUBSET Nat
  <2>1. Len(name.owner) \in Nat /\ Len(name.words) \in Nat
    BY <1>1, LenProperties
  <2>2. 1 .. Len(name.owner) \subseteq Nat /\ 1 .. Len(name.words) \subseteq Nat
    BY <2>1
  <2> QED BY <2>2 DEF LeftOut
<1>5. 0 \in LeftOut(name)
  BY DEF LeftOut
<1> QED BY <1>3, <1>4, <1>5

\* Words that are left out make a name that has no owner shorter.
LEMMA Shortened ==
  ASSUME NEW name \in LookedUp, name.owner = <<>>, NEW n \in LeftOut(name)
  PROVE  /\ WithoutPrefixes(name, n).owner = <<>>
         /\ n # 0 => WithoutPrefixes(name, n).words # name.words
<1> DEFINE words == name.words
<1>1. words \in Seq(STRING)
  BY DEF LookedUp, KeywordName
<1>2. Len(words) \in Nat /\ \A i \in 1 .. Len(words) : words[i] \in STRING
  BY <1>1, LenProperties, ElementOfSeq
<1>3. n \in Nat /\ (n # 0 => n < Len(words))
  BY LeftOutFacts DEF LeftOut
<1>4. WithoutPrefixes(name, n) = [name EXCEPT !.words = SubSeq(words, n + 1, Len(words))]
  BY DEF WithoutPrefixes
<1>5. /\ WithoutPrefixes(name, n).owner = <<>>
      /\ WithoutPrefixes(name, n).words = SubSeq(words, n + 1, Len(words))
  BY <1>4 DEF LookedUp
<1>6. ASSUME n # 0 PROVE Len(SubSeq(words, n + 1, Len(words))) # Len(words)
  <2> HIDE DEF words
  <2>1. \A i \in n + 1 .. Len(words) : words[i] \in STRING
    BY <1>2, <1>3
  <2>2. Len(SubSeq(words, n + 1, Len(words))) = IF n + 1 <= Len(words) THEN Len(words) - (n + 1) + 1 ELSE 0
    BY <1>2, <1>3, <2>1, SubSeqProperties
  <2> QED BY <1>2, <1>3, <1>6, <2>2
<1> QED BY <1>5, <1>6

\* What is found comes from the name with as little left out as there can be.
LEMMA FoundWith ==
  ASSUME NEW name \in LookedUp, name.words # <<>>
  PROVE  /\ HandlersOf(name) # {} => Handlers(name) = HandlersOf(name)
         /\ \/ HandlersOf(name) = {} /\ Handlers(name) = {NoHandler}
            \/ \E n \in LeftOut(name) : /\ Handlers(name) = HandlersOf(WithoutPrefixes(name, n))
                                        /\ n # 0 => HandlersOf(name) = {}
<1> DEFINE hits == {n \in LeftOut(name) : HandlersOf(WithoutPrefixes(name, n)) # {}}
<1>1. Handlers(name) = IF hits = {} THEN {NoHandler} ELSE HandlersOf(WithoutPrefixes(name, FirstOf(hits)))
  BY DEF Handlers
<1>2. /\ LeftOut(name) \in SUBSET Nat /\ 0 \in LeftOut(name)
      /\ WithoutPrefixes(name, 0) = name
  BY LeftOutFacts
<1>3. hits \in SUBSET Nat /\ hits \subseteq LeftOut(name) /\ (0 \in hits <=> HandlersOf(name) # {})
  BY <1>2
<1> HIDE DEF hits
<1>4. CASE 0 \in hits
  <2>1. FirstOf(hits) = 0
    BY <1>3, <1>4, FirstIsZero
  <2> QED BY <1>1, <1>2, <1>3, <1>4, <2>1
<1>5. CASE 0 \notin hits
  <2>1. hits # {} => FirstOf(hits) \in hits
    BY <1>3, FirstOfFacts
  <2> QED BY <1>1, <1>3, <1>5, <2>1
<1> QED BY <1>4, <1>5

\* A keyword of a file is found in it or there is an error.
LEMMA UserHandlers ==
  ASSUME NEW path, NEW keywords, NEW name
  PROVE  \/ GetUserHandler(path, keywords, name) = Error
         \/ \E k : GetUserHandler(path, keywords, name) = User(path, k)
BY DEF GetUserHandler

LEMMA InTestCaseFile ==
  ASSUME NEW name, NEW h \in FromTestCaseFile(name)
  PROVE  h = Error \/ (h.kind = "user" /\ h.owner = <<>>)
<1>1. h = GetUserHandler(<<>>, userKeywords, name)
  BY DEF FromTestCaseFile
<1>2. h = Error \/ \E k : h = User(<<>>, k)
  BY <1>1, UserHandlers
<1> QED BY <1>2 DEF User

LEMMA InResourceFiles ==
  ASSUME IsFiniteSet(Range(userlibs)), NEW name
  PROVE  /\ \A h \in FromResourceFiles(name) : h = Error \/ h.kind = "user"
         /\ \A h, other \in FromResourceFiles(name) : h = other
         /\ (\E path \in Range(userlibs) : HasHandler(ImportedFiles[path].keywords, name))
              <=> FromResourceFiles(name) # {}
<1> DEFINE having == {path \in Range(userlibs) : HasHandler(ImportedFiles[path].keywords, name)}
           handler(path) == GetUserHandler(path, ImportedFiles[path].keywords, name)
           handlers == {handler(path) : path \in having}
           errors == {h \in handlers : h.kind = "error"}
<1>1. FromResourceFiles(name) =
        IF having = {} THEN {}
        ELSE IF errors # {} THEN errors
        ELSE IF Cardinality(having) > 1 THEN {Error} ELSE handlers
  BY DEF FromResourceFiles
<1>2. \A h \in handlers : h = Error \/ h.kind = "user"
  BY UserHandlers DEF User
<1>3. \A h \in errors : h = Error
  <2>1. \A h \in errors : h \in handlers /\ h.kind = "error"
    OBVIOUS
  <2> HIDE DEF handlers, errors
  <2> QED BY <1>2, <2>1
<1>4. IsFiniteSet(having)
  BY FS_Subset
<1>5. Cardinality(having) > 1 <=> \E x, y \in having : x # y
  <2> HIDE DEF having
  <2> QED BY <1>4, SmallSets
<1>6. having # {} <=> handlers # {}
  OBVIOUS
<1>7. (\A x, y \in having : x = y) => \A h, other \in handlers : h = other
  OBVIOUS
<1>8. errors \subseteq handlers
  OBVIOUS
<1>9. (\E path \in Range(userlibs) : HasHandler(ImportedFiles[path].keywords, name)) <=> having # {}
  OBVIOUS
<1> HIDE DEF having, handlers, errors
<1>10. \/ having = {} /\ FromResourceFiles(name) = {}
       \/ having # {} /\ errors # {} /\ FromResourceFiles(name) = errors
       \/ having # {} /\ FromResourceFiles(name) = {Error}
       \/ having # {} /\ (\A x, y \in having : x = y) /\ FromResourceFiles(name) = handlers
  <2> DEFINE many == Cardinality(having) > 1
  <2>1. many <=> \E x, y \in having : x # y
    BY <1>5
  <2>2. \/ having = {} /\ FromResourceFiles(name) = {}
        \/ having # {} /\ errors # {} /\ FromResourceFiles(name) = errors
        \/ having # {} /\ FromResourceFiles(name) = {Error}
        \/ having # {} /\ ~many /\ FromResourceFiles(name) = handlers
    <3>1. having = {} => FromResourceFiles(name) = {}
      BY <1>1
    <3>2. having # {} /\ errors # {} => FromResourceFiles(name) = errors
      BY <1>1
    <3>3. having # {} /\ errors = {} /\ many => FromResourceFiles(name) = {Error}
      BY <1>1
    <3>4. having # {} /\ errors = {} /\ ~many => FromResourceFiles(name) = handlers
      BY <1>1
    <3> HIDE DEF many
    <3> QED BY <3>1, <3>2, <3>3, <3>4
  <2> HIDE DEF many
  <2> QED BY <2>1, <2>2
<1> QED BY <1>2, <1>3, <1>6, <1>7, <1>8, <1>9, <1>10

\* In libraries, the keyword of one of those that have it is found, or there is
\* an error. Of two it is the one that is not standard, and the first one of the
\* search order comes before all the others.
LEMMA InLibraries ==
  ASSUME IsFiniteSet(Libraries), testlibs \subseteq Libraries,
         \A lib, other \in Libraries : lib.name = other.name => lib = other,
         order \in Seq(STRING), NEW name, NEW having, having = LibrariesWith(name)
  PROVE  /\ having = {} <=> FromLibraries(name) = {}
         /\ \A h \in FromLibraries(name) :
              \/ h = Error
              \/ \E lib \in having :
                   /\ h = Library(lib, name.words)
                   /\ \A i \in DOMAIN order : (\E other \in having : other.name = order[i]) =>
                        \E j \in 1 .. i : order[j] = lib.name
                   /\ IsStandard(lib) /\ (\A other \in having : other.name \notin Range(order)) =>
                        \A other \in having : IsStandard(other)
         /\ (\E h, other \in FromLibraries(name) : h # other) =>
              /\ \A h \in FromLibraries(name) : h.kind = "library"
              /\ \A lib \in having : IsStandard(lib)
<1> DEFINE chosen == IF Cardinality(having) > 1 THEN BySearchOrder(having) ELSE having
           left == IF Cardinality(chosen) = 2 THEN FilterStdlibHandler(chosen) ELSE {chosen}
           handler(libs) == IF Cardinality(libs) = 1 THEN Library(Only(libs), name.words) ELSE Error
           known == {i \in DOMAIN order : \E lib \in having : lib.name = order[i]}
<1>1. FromLibraries(name) = IF having = {} THEN {} ELSE {handler(libs) : libs \in left}
  BY DEF FromLibraries
<1>2. having \subseteq Libraries /\ IsFiniteSet(having)
  <2>1. having \subseteq Libraries
    BY DEF LibrariesWith
  <2>2. having \in SUBSET Libraries
    BY <2>1
  <2> QED BY <2>1, <2>2, FS_Subset
<1>3. known \in SUBSET Nat /\ known \subseteq DOMAIN order
  <2>1. DOMAIN order = 1 .. Len(order) /\ Len(order) \in Nat
    BY LenProperties
  <2> QED BY <2>1
<1>4. BySearchOrder(having) = IF known = {} THEN having ELSE {lib \in having : lib.name = order[FirstOf(known)]}
  BY DEF BySearchOrder
<1>5. known # {} => FirstOf(known) \in known /\ \A i \in known : FirstOf(known) <= i
  <2> HIDE DEF known
  <2> QED BY <1>3, FirstOfFacts
<1>6. chosen \subseteq having /\ (having # {} => chosen # {})
  <2>1. known # {} => \E lib \in having : lib.name = order[FirstOf(known)]
    BY <1>5
  <2> HIDE DEF known
  <2>2. BySearchOrder(having) \subseteq having /\ (having # {} => BySearchOrder(having) # {})
    BY <1>4, <2>1
  <2> QED BY <2>2
<1>7. IsFiniteSet(chosen)
  <2> HIDE DEF chosen
  <2>1. chosen \in SUBSET having
    BY <1>6
  <2> QED BY <1>2, <2>1, FS_Subset
<1>8. Cardinality(having) > 1 <=> \E x, y \in having : x # y
  <2>1. IsFiniteSet(having)
    BY <1>2
  <2> QED BY <2>1, SmallSets
\* One that is chosen is before all the others in the search order.
<1>9. ASSUME NEW lib \in chosen, NEW i \in known PROVE \E j \in 1 .. i : order[j] = lib.name
  <2>1. i \in 1 .. Len(order) /\ Len(order) \in Nat
    BY <1>3, LenProperties
  <2>2. CASE Cardinality(having) > 1
    <3>1. chosen = {l \in having : l.name = order[FirstOf(known)]}
      BY <1>4, <2>2
    <3> HIDE DEF known, chosen
    <3>2. lib.name = order[FirstOf(known)]
      BY <3>1
    <3>3. FirstOf(known) \in DOMAIN order /\ FirstOf(known) <= i
      BY <1>3, <1>5
    <3>4. FirstOf(known) \in 1 .. i
      <4>1. DOMAIN order = 1 .. Len(order)
        BY LenProperties
      <4> QED BY <2>1, <3>3, <4>1
    <3> QED BY <3>2, <3>4
  <2>3. CASE ~(Cardinality(having) > 1)
    <3>1. chosen = having
      BY <2>3
    <3>2. \E other \in having : other.name = order[i]
      OBVIOUS
    <3>3. order[i] = lib.name
      BY <1>8, <2>3, <3>1, <3>2
    <3>4. i \in 1 .. i
      BY <2>1
    <3> QED BY <3>3, <3>4
  <2> QED BY <2>2, <2>3
\* When more than one is chosen, the search order has none of them.
<1>10. (\E x, y \in chosen : x # y) => chosen = having
  <2> SUFFICES ASSUME chosen # having PROVE \A x, y \in chosen : x = y
    OBVIOUS
  <2>1. known # {} /\ chosen = {lib \in having : lib.name = order[FirstOf(known)]}
    <3> HIDE DEF known
    <3> QED BY <1>4
  <2> HIDE DEF known, chosen
  <2> QED BY <1>2, <2>1
<1>11. Cardinality(chosen) = 2 => \E x, y \in chosen : x # y /\ chosen = {x, y}
  <2> HIDE DEF chosen
  <2> QED BY <1>7, SmallSets
<1>12. FilterStdlibHandler(chosen) =
         IF \A lib \in chosen : ~IsStandard(lib) THEN {chosen}
         ELSE {{external} : external \in {e \in chosen : ~IsStandard(e) \/ \A lib \in chosen : IsStandard(lib)}}
  <2> HIDE DEF chosen
  <2> QED BY DEF FilterStdlibHandler
<1>13. left # {} /\ \A libs \in left : libs \subseteq chosen
  <2> HIDE DEF chosen
  <2>1. \A libs \in FilterStdlibHandler(chosen) : libs \subseteq chosen
    BY <1>12
  <2>2. FilterStdlibHandler(chosen) # {}
    <3>1. CASE \A lib \in chosen : ~IsStandard(lib)
      BY <1>12, <3>1
    <3>2. CASE \E lib \in chosen : IsStandard(lib)
      <4>1. PICK e \in chosen : ~IsStandard(e) \/ \A lib \in chosen : IsStandard(lib)
        BY <3>2
      <4>2. {e} \in FilterStdlibHandler(chosen)
        BY <1>12, <3>2, <4>1
      <4> QED BY <4>2
    <3> QED BY <3>1, <3>2
  <2> QED BY <2>1, <2>2
\* More than one is left only of two that are standard.
<1>14. ASSUME NEW libs \in left, NEW others \in left, libs # others
       PROVE  /\ \A l \in left : \E lib \in having : l = {lib}
              /\ \A lib \in having : IsStandard(lib)
  <2>1. Cardinality(chosen) = 2 /\ left = FilterStdlibHandler(chosen)
    <3> HIDE DEF chosen
    <3>1. Cardinality(chosen) # 2 => left = {chosen}
      OBVIOUS
    <3>2. Cardinality(chosen) = 2 => left = FilterStdlibHandler(chosen)
      OBVIOUS
    <3> HIDE DEF left
    <3> QED BY <1>14, <3>1, <3>2
  <2> HIDE DEF left
  <2>2. PICK x \in chosen, y \in chosen : x # y /\ chosen = {x, y}
    BY <1>11, <2>1
  <2>3. chosen = having
    BY <1>10, <2>2
  <2> HIDE DEF chosen
  <2>4. ~ \A lib \in chosen : ~IsStandard(lib)
    BY <1>12, <1>14, <2>1
  <2>5. left = {{external} : external \in {e \in chosen : ~IsStandard(e) \/ \A lib \in chosen : IsStandard(lib)}}
    BY <1>12, <2>1, <2>4
  <2>6. \A lib \in chosen : IsStandard(lib)
    <3> SUFFICES ASSUME NEW e \in chosen, ~IsStandard(e) PROVE FALSE
      OBVIOUS
    <3>1. PICK s \in chosen : IsStandard(s)
      BY <2>4
    <3>2. \A z \in chosen : ~IsStandard(z) => z = e
      BY <2>2, <3>1
    <3>3. left = {{e}}
      BY <2>5, <3>2
    <3> QED BY <1>14, <3>3
  <2> QED BY <2>3, <2>5, <2>6
\* One that is left alone is standard only if all those chosen are.
<1>15. ASSUME NEW libs \in left, NEW lib \in libs, \A other \in libs : other = lib, IsStandard(lib)
       PROVE  \A other \in chosen : IsStandard(other)
  <2>1. CASE Cardinality(chosen) = 2
    <3>1. libs \in FilterStdlibHandler(chosen)
      BY <2>1
    <3> HIDE DEF chosen, left
    <3>2. lib \in chosen
      BY <1>13
    <3>3. libs \in {{external} : external \in {e \in chosen : ~IsStandard(e) \/ \A l \in chosen : IsStandard(l)}}
      BY <1>12, <1>15, <3>1, <3>2
    <3> QED BY <1>15, <3>3
  <2>2. CASE Cardinality(chosen) # 2
    <3>1. libs = chosen
      BY <2>2
    <3> HIDE DEF chosen, left
    <3> QED BY <1>15, <3>1
  <2> QED BY <2>1, <2>2
<1>16. ASSUME having # {}, NEW h \in FromLibraries(name), h # Error
       PROVE  \E lib \in having :
                   /\ h = Library(lib, name.words)
                   /\ \A i \in DOMAIN order : (\E other \in having : other.name = order[i]) =>
                        \E j \in 1 .. i : order[j] = lib.name
                   /\ IsStandard(lib) /\ (\A other \in having : other.name \notin Range(order)) =>
                        \A other \in having : IsStandard(other)
  <2>1. PICK libs \in left : h = handler(libs)
    <3> HIDE DEF left, handler
    <3> QED BY <1>1, <1>16
  <2>2. Cardinality(libs) = 1 /\ h = Library(Only(libs), name.words)
    BY <1>16, <2>1
  <2>3. libs \subseteq chosen
    BY <1>13
  <2>4. libs # {} /\ \A x, y \in libs : x = y
    <3>1. IsFiniteSet(libs)
      <4> HIDE DEF chosen, left
      <4>1. libs \in SUBSET chosen
        BY <2>3
      <4> QED BY <1>7, <4>1, FS_Subset
    <3> QED BY <2>2, <3>1, SmallSets
  <2>5. Only(libs) \in libs
    BY <2>4 DEF Only
  <2> DEFINE lib == Only(libs)
  <2>6. lib \in having /\ lib \in chosen
    <3> HIDE DEF chosen, left
    <3> QED BY <1>6, <2>3, <2>5
  <2>7. ASSUME NEW i \in DOMAIN order, \E other \in having : other.name = order[i]
        PROVE  \E j \in 1 .. i : order[j] = lib.name
    <3>1. i \in known
      BY <2>7
    <3> HIDE DEF known, chosen, left, lib
    <3> QED BY <1>9, <2>6, <3>1
  <2>8. ASSUME IsStandard(lib), \A other \in having : other.name \notin Range(order)
        PROVE  \A other \in having : IsStandard(other)
    <3>1. known = {}
      BY <2>8 DEF Range
    <3>2. chosen = having
      <4> HIDE DEF known
      <4> QED BY <1>4, <3>1
    <3> HIDE DEF known, chosen, left, lib
    <3>3. lib \in libs /\ \A other \in libs : other = lib
      BY <2>4, <2>5 DEF lib
    <3> QED BY <1>15, <2>8, <3>2, <3>3
  <2> QED BY <2>2, <2>6, <2>7, <2>8
<1>17. having = {} <=> FromLibraries(name) = {}
  <2> HIDE DEF left, handler
  <2>1. having # {} => FromLibraries(name) # {}
    <3>1. PICK libs : libs \in left
      BY <1>13
    <3>2. having # {} => handler(libs) \in FromLibraries(name)
      BY <1>1, <3>1
    <3> QED BY <3>2
  <2> QED BY <1>1, <2>1
<1>18. ASSUME NEW h \in FromLibraries(name), NEW other \in FromLibraries(name), h # other
       PROVE  /\ \A x \in FromLibraries(name) : x.kind = "library"
              /\ \A lib \in having : IsStandard(lib)
  <2>1. FromLibraries(name) = {handler(libs) : libs \in left}
    <3> HIDE DEF left, handler
    <3> QED BY <1>1, <1>18
  <2>2. PICK l1 \in left, l2 \in left : l1 # l2
    <3> HIDE DEF left
    <3>1. PICK l1 \in left, l2 \in left : h = handler(l1) /\ other = handler(l2)
      BY <1>18, <2>1
    <3> HIDE DEF handler
    <3> QED BY <1>18, <3>1
  <2>3. /\ \A l \in left : \E lib \in having : l = {lib}
        /\ \A lib \in having : IsStandard(lib)
    <3> HIDE DEF left
    <3> QED BY <1>14, <2>2
  <2>4. ASSUME NEW libs \in left PROVE handler(libs).kind = "library"
    <3>1. PICK lib : libs = {lib}
      <4> HIDE DEF left
      <4> QED BY <2>3, <2>4
    <3>2. Cardinality(libs) = 1
      BY <3>1, FS_Singleton
    <3>3. handler(libs) = Library(Only(libs), name.words)
      BY <3>2
    <3> QED BY <3>3 DEF Library
  <2> HIDE DEF left, handler
  <2> QED BY <2>1, <2>3, <2>4
<1> HIDE DEF chosen, left, handler, known
<1> QED BY <1>16, <1>17, <1>18

-----------------------------------------------------------------------------
(* Which keyword a name means *)

\* A name without an owner, in the order of the priorities.
LEMMA PrioritiesHold ==
  ASSUME LookupBookkeeping
  PROVE  PrioritiesAreKept
<1> SUFFICES ASSUME asked.owner = <<>>, asked # NoKeywordName
             PROVE  PrioritiesAreKept
  BY DEF PrioritiesAreKept
<1> DEFINE Having == LibrariesWith(asked)
           InFile == HasHandler(userKeywords, asked)
           InResources == \E path \in Range(userlibs) : HasHandler(ImportedFiles[path].keywords, asked)
           Finder == Only({lib \in Having : <<lib.name>> = found.owner})
<1>1. /\ asked \in Names /\ asked \in LookedUp /\ found \in Handlers(asked)
      /\ testlibs \subseteq Libraries /\ order \in Seq(STRING)
      /\ IsFiniteSet(Range(userlibs))
  <2>1. LookupTypeOK /\ TakenOnce /\ FoundOK
    BY DEF LookupBookkeeping, ImportsOK
  <2>2. asked \in Names
    BY <2>1 DEF LookupTypeOK
  <2>3. Names \subseteq LookedUp
    BY LookupAssumption DEF LookedUp
  <2> QED BY <2>1, <2>2, <2>3 DEF LookupTypeOK, TakenOnce, FoundOK
<1>2. IsFiniteSet(Libraries) /\ \A lib, other \in Libraries : lib.name = other.name => lib = other
  BY LookupAssumption
\* What is found with a name that is asked for as it is, or with less of it.
<1>3. \A name : name.owner = <<>> => HandlersOf(name) = ImplicitHandlers(name)
  BY DEF HandlersOf, WithoutOwner
<1>4. /\ InFile <=> FromTestCaseFile(asked) # {}
      /\ InResources <=> FromResourceFiles(asked) # {}
      /\ Having = {} <=> FromLibraries(asked) = {}
  <2>1. InFile <=> FromTestCaseFile(asked) # {}
    BY DEF FromTestCaseFile
  <2>2. InResources <=> FromResourceFiles(asked) # {}
    BY <1>1, InResourceFiles
  <2>3. Having = {} <=> FromLibraries(asked) = {}
    BY <1>1, <1>2, InLibraries
  <2> QED BY <2>1, <2>2, <2>3
<1>5. /\ Error.kind = "error" /\ NoHandler.kind = "none"
      /\ \A path, k : User(path, k).kind = "user"
      /\ \A lib, k : /\ Library(lib, k).kind = "library" /\ Library(lib, k).keyword = k
                     /\ Library(lib, k).owner = <<lib.name>>
  BY DEF Error, NoHandler, User, Library
<1>6. ASSUME NEW name PROVE
        /\ \A h \in FromTestCaseFile(name) : h.kind = "error" \/ (h.kind = "user" /\ h.owner = <<>>)
        /\ \A h \in FromResourceFiles(name) : h.kind = "error" \/ h.kind = "user"
        /\ \A h \in FromLibraries(name) : h.kind = "error" \/ (h.kind = "library" /\ h.keyword = name.words)
  <2>1. \A h \in FromTestCaseFile(name) : h.kind = "error" \/ (h.kind = "user" /\ h.owner = <<>>)
    BY <1>5, InTestCaseFile
  <2>2. \A h \in FromResourceFiles(name) : h.kind = "error" \/ h.kind = "user"
    BY <1>1, <1>5, InResourceFiles
  <2>3. \A h \in FromLibraries(name) : h = Error \/ \E lib \in LibrariesWith(name) : h = Library(lib, name.words)
    BY <1>1, <1>2, InLibraries
  <2>4. \A h \in FromLibraries(name) : h.kind = "error" \/ (h.kind = "library" /\ h.keyword = name.words)
    BY <1>5, <2>3
  <2> QED BY <2>1, <2>2, <2>4
<1>7. ASSUME NEW name PROVE
        \A h \in ImplicitHandlers(name) :
          \/ h \in FromTestCaseFile(name)
          \/ FromTestCaseFile(name) = {} /\ h \in FromResourceFiles(name)
          \/ FromTestCaseFile(name) = {} /\ FromResourceFiles(name) = {} /\ h \in FromLibraries(name)
  BY DEF ImplicitHandlers
<1>8. CASE asked.words = <<>>
  <2>1. Handlers(asked) = {Error} /\ found.kind = "error"
    BY <1>1, <1>5, <1>8 DEF Handlers
  <2>2. Cardinality(Handlers(asked)) = 1
    BY <2>1, FS_Singleton
  <2> QED BY <2>1, <2>2 DEF PrioritiesAreKept
<1>9. CASE asked.words # <<>>
  <2>1. /\ ImplicitHandlers(asked) # {} => Handlers(asked) = ImplicitHandlers(asked)
        /\ \/ ImplicitHandlers(asked) = {} /\ Handlers(asked) = {NoHandler}
           \/ \E n \in LeftOut(asked) : /\ Handlers(asked) = HandlersOf(WithoutPrefixes(asked, n))
                                        /\ n # 0 => ImplicitHandlers(asked) = {}
    BY <1>1, <1>3, <1>9, FoundWith
  <2>2. ASSUME NEW n \in LeftOut(asked)
        PROVE  /\ HandlersOf(WithoutPrefixes(asked, n)) = ImplicitHandlers(WithoutPrefixes(asked, n))
               /\ n = 0 => WithoutPrefixes(asked, n) = asked
               /\ n # 0 => WithoutPrefixes(asked, n).words # asked.words
    BY <1>1, <1>3, Shortened, LeftOutFacts
  <2>3. \/ ImplicitHandlers(asked) = {} /\ Handlers(asked) = {NoHandler}
        \/ Handlers(asked) = ImplicitHandlers(asked)
        \/ \E name : /\ ImplicitHandlers(asked) = {} /\ Handlers(asked) = ImplicitHandlers(name)
                     /\ name.words # asked.words
    BY <2>1, <2>2
  <2>4. ImplicitHandlers(asked) = {} => ~InFile /\ ~InResources /\ Having = {}
    BY <1>4 DEF ImplicitHandlers
  <2>5. found.kind = "user" /\ found.owner # <<>> => ~InFile
    <3> SUFFICES ASSUME InFile, found.kind = "user" PROVE found.owner = <<>>
      OBVIOUS
    <3>1. ImplicitHandlers(asked) = FromTestCaseFile(asked) /\ ImplicitHandlers(asked) # {}
      BY <1>4 DEF ImplicitHandlers
    <3>2. found \in FromTestCaseFile(asked)
      BY <1>1, <2>1, <3>1
    <3> QED BY <1>6, <3>2
  <2>6. ASSUME found.kind = "library", found.keyword = asked.words
        PROVE  /\ ~InFile /\ ~InResources
               /\ \A i \in DOMAIN order : (\E lib \in Having : lib.name = order[i]) =>
                      \E j \in 1 .. i : <<order[j]>> = found.owner
               /\ IsStandard(Finder) /\ (\A lib \in Having : lib.name \notin Range(order)) =>
                      \A lib \in Having : IsStandard(lib)
    <3>1. found \in ImplicitHandlers(asked)
      <4>1. found # NoHandler
        BY <1>5, <2>6
      <4>2. ASSUME NEW name, found \in ImplicitHandlers(name) PROVE name.words = asked.words
        BY <1>6, <1>7, <2>6, <4>2
      <4> QED BY <1>1, <2>3, <4>1, <4>2
    <3>2. ~InFile /\ ~InResources /\ found \in FromLibraries(asked)
      BY <1>4, <1>6, <1>7, <2>6, <3>1
    <3>3. found # Error
      BY <1>5, <2>6
    <3>4. PICK lib \in Having :
            /\ found = Library(lib, asked.words)
            /\ \A i \in DOMAIN order : (\E other \in Having : other.name = order[i]) =>
                 \E j \in 1 .. i : order[j] = lib.name
            /\ IsStandard(lib) /\ (\A other \in Having : other.name \notin Range(order)) =>
                 \A other \in Having : IsStandard(other)
      <4> HIDE DEF Having
      <4>1. Having = LibrariesWith(asked)
        BY DEF Having
      <4> QED BY <1>1, <1>2, <3>2, <3>3, <4>1, InLibraries
    <3>5. found.owner = <<lib.name>>
      BY <1>5, <3>4
    <3>6. Finder = lib
      <4>1. Having \subseteq Libraries
        BY <1>1 DEF LibrariesWith
      <4>2. \A other : other \in {l \in Having : <<l.name>> = found.owner} <=> other = lib
        <5> HIDE DEF Having
        <5> QED BY <1>2, <3>5, <4>1
      <4> QED BY <4>2 DEF Only
    <3> HIDE DEF Having, InFile, InResources, Finder
    <3> QED BY <3>2, <3>4, <3>5, <3>6
  <2>7. ASSUME Cardinality(Handlers(asked)) > 1
        PROVE  found.kind = "library" /\ \A lib \in Having : IsStandard(lib)
    <3>1. \E h, other \in Handlers(asked) : h # other
      <4> SUFFICES ASSUME \A h, other \in Handlers(asked) : h = other
                   PROVE  FALSE
        OBVIOUS
      <4>1. Handlers(asked) = {found}
        BY <1>1
      <4>2. Cardinality(Handlers(asked)) = 1
        BY <4>1, FS_Singleton
      <4> QED BY <2>7, <4>2
    <3>2. ASSUME NEW name, Handlers(asked) = ImplicitHandlers(name)
          PROVE  found.kind = "library" /\ \A lib \in LibrariesWith(name) : IsStandard(lib)
      <4>1. PICK h \in ImplicitHandlers(name), other \in ImplicitHandlers(name) : h # other
        BY <3>1, <3>2
      <4>2. FromTestCaseFile(name) = {}
        <5>1. \A x, y \in FromTestCaseFile(name) : x = y
          BY DEF FromTestCaseFile
        <5> QED BY <4>1, <5>1 DEF ImplicitHandlers
      <4>3. FromResourceFiles(name) = {}
        <5>1. \A x, y \in FromResourceFiles(name) : x = y
          BY <1>1, InResourceFiles
        <5> QED BY <4>1, <4>2, <5>1 DEF ImplicitHandlers
      <4>4. ImplicitHandlers(name) = FromLibraries(name)
        BY <4>2, <4>3 DEF ImplicitHandlers
      <4>5. \E x, y \in FromLibraries(name) : x # y
        BY <4>1, <4>4
      <4>6. /\ \A x \in FromLibraries(name) : x.kind = "library"
            /\ \A lib \in LibrariesWith(name) : IsStandard(lib)
        BY <1>1, <1>2, <4>5, InLibraries
      <4> QED BY <1>1, <3>2, <4>4, <4>6
    <3>3. Handlers(asked) # {NoHandler}
      BY <3>1
    <3> QED BY <2>3, <2>4, <3>2, <3>3
  <2>8. found.kind = "none" => ~InFile /\ ~InResources /\ Having = {}
    <3> SUFFICES ASSUME found.kind = "none" PROVE ImplicitHandlers(asked) = {}
      BY <2>4
    <3>1. ASSUME NEW name PROVE found \notin ImplicitHandlers(name)
      <4>1. found \notin FromTestCaseFile(name)
        BY <1>6
      <4>2. found \notin FromResourceFiles(name)
        BY <1>6
      <4>3. found \notin FromLibraries(name)
        BY <1>6
      <4> QED BY <1>7, <4>1, <4>2, <4>3
    <3> QED BY <1>1, <2>3, <3>1
  <2> HIDE DEF Having, InFile, InResources, Finder
  <2>9. /\ found.kind = "user" /\ found.owner # <<>> => ~InFile
        /\ found.kind = "library" /\ found.keyword = asked.words =>
               /\ ~InFile /\ ~InResources
               /\ \A i \in DOMAIN order : (\E lib \in Having : lib.name = order[i]) =>
                      \E j \in 1 .. i : <<order[j]>> = found.owner
               /\ IsStandard(Finder) /\ (\A lib \in Having : lib.name \notin Range(order)) =>
                      \A lib \in Having : IsStandard(lib)
        /\ Cardinality(Handlers(asked)) > 1 => found.kind = "library" /\ \A lib \in Having : IsStandard(lib)
        /\ found.kind = "none" => ~InFile /\ ~InResources /\ Having = {}
    BY <2>5, <2>6, <2>7, <2>8
  <2> QED BY <2>9 DEF PrioritiesAreKept, Having, InFile, InResources, Finder
<1> QED BY <1>8, <1>9

\* A full name with which only one file or library is meant.
LEMMA FoundByOwner ==
  ASSUME NEW name \in LookedUp, ~name.underscored,
         NEW paths, paths = {path \in Range(userlibs) : <<path[2]>> = name.owner},
         NEW libs, libs = {lib \in testlibs : <<lib.name>> = name.owner}
  PROVE  /\ \A path : /\ paths = {path} /\ libs = {}
                      /\ name.words \in Range(ImportedFiles[path].keywords)
                      /\ ~DefinedTwice(ImportedFiles[path].keywords, name.words)
                      => ExplicitHandlers(name) = {User(path, name.words)}
         /\ \A lib : paths = {} /\ libs = {lib} /\ name.words \in lib.keywords
                      => ExplicitHandlers(name) = {Library(lib, name.words)}
         /\ paths = {} /\ libs = {} => ExplicitHandlers(name) = {}
<1> DEFINE resources == {path \in Range(userlibs) : OwnerIs(path[2], name) /\ HasHandler(ImportedFiles[path].keywords, name)}
           libraries == {lib \in testlibs : OwnerIs(lib.name, name) /\ name.words \in lib.keywords}
           handlers == {GetUserHandler(path, ImportedFiles[path].keywords, name) : path \in resources}
                       \cup {Library(lib, name.words) : lib \in libraries}
           errors == {h \in handlers : h.kind = "error"}
<1>1. ASSUME errors = {}, ~(Cardinality(resources) + Cardinality(libraries) > 1)
      PROVE  ExplicitHandlers(name) = handlers
  BY <1>1 DEF ExplicitHandlers
<1>2. /\ \A path, k : User(path, k).kind # "error"
      /\ \A lib, k : Library(lib, k).kind # "error"
  BY DEF User, Library
<1>3. Cardinality({}) = 0 /\ \A x : Cardinality({x}) = 1
  BY FS_EmptySet, FS_Singleton
<1>4. /\ \A path : path \in resources <=> path \in paths /\ HasHandler(ImportedFiles[path].keywords, name)
      /\ \A lib : lib \in libraries <=> lib \in libs /\ name.words \in lib.keywords
  BY DEF OwnerIs
<1>5. ASSUME NEW path, paths = {path}, libs = {},
             name.words \in Range(ImportedFiles[path].keywords),
             ~DefinedTwice(ImportedFiles[path].keywords, name.words)
      PROVE  ExplicitHandlers(name) = {User(path, name.words)}
  <2>1. HasHandler(ImportedFiles[path].keywords, name)
    BY <1>5 DEF HasHandler
  <2>2. GetUserHandler(path, ImportedFiles[path].keywords, name) = User(path, name.words)
    BY <1>5 DEF GetUserHandler
  <2>3. resources = {path} /\ libraries = {}
    <3> HIDE DEF resources, libraries
    <3> QED BY <1>4, <1>5, <2>1
  <2>4. handlers = {User(path, name.words)}
    <3> HIDE DEF resources, libraries
    <3> QED BY <2>2, <2>3
  <2>5. errors = {}
    <3> HIDE DEF handlers
    <3> QED BY <1>2, <2>4
  <2>6. ~(Cardinality(resources) + Cardinality(libraries) > 1)
    <3> HIDE DEF resources, libraries
    <3>1. Cardinality(resources) = 1
      BY <1>3, <2>3
    <3>2. Cardinality(libraries) = 0
      BY <1>3, <2>3
    <3> QED BY <3>1, <3>2
  <2> QED BY <1>1, <2>4, <2>5, <2>6
<1>6. ASSUME NEW lib, paths = {}, libs = {lib}, name.words \in lib.keywords
      PROVE  ExplicitHandlers(name) = {Library(lib, name.words)}
  <2>1. resources = {} /\ libraries = {lib}
    <3> HIDE DEF resources, libraries
    <3> QED BY <1>4, <1>6
  <2>2. handlers = {Library(lib, name.words)}
    <3> HIDE DEF resources, libraries
    <3> QED BY <2>1
  <2>3. errors = {}
    <3> HIDE DEF handlers
    <3> QED BY <1>2, <2>2
  <2>4. ~(Cardinality(resources) + Cardinality(libraries) > 1)
    <3> HIDE DEF resources, libraries
    <3>1. Cardinality(resources) = 0
      BY <1>3, <2>1
    <3>2. Cardinality(libraries) = 1
      BY <1>3, <2>1
    <3> QED BY <3>1, <3>2
  <2> QED BY <1>1, <2>2, <2>3, <2>4
<1>7. ASSUME paths = {}, libs = {} PROVE ExplicitHandlers(name) = {}
  <2>1. resources = {} /\ libraries = {}
    <3> HIDE DEF resources, libraries
    <3> QED BY <1>4, <1>7
  <2>2. handlers = {}
    <3> HIDE DEF resources, libraries
    <3> QED BY <2>1
  <2>3. errors = {}
    <3> HIDE DEF handlers
    <3> QED BY <2>2
  <2>4. ~(Cardinality(resources) + Cardinality(libraries) > 1)
    <3> HIDE DEF resources, libraries
    <3> QED BY <1>3, <2>1
  <2> QED BY <1>1, <2>2, <2>3, <2>4
<1> HIDE DEF resources, libraries, handlers, errors
<1> QED BY <1>5, <1>6, <1>7

\* A name with an owner, which can have a prefix.
LEMMA FullNamesHold ==
  ASSUME LookupBookkeeping
  PROVE  FullNamesReach
<1> DEFINE HasPrefix == 1 \in LeftOut(asked)
           Stripped == WithoutPrefixes(asked, IF HasPrefix THEN 1 ELSE 0)
           Paths == {path \in Range(userlibs) : <<path[2]>> = Stripped.owner}
           Libs == {lib \in testlibs : <<lib.name>> = Stripped.owner}
<1> SUFFICES ASSUME asked.owner # <<>>, ~asked.underscored,
                    HasPrefix => ImplicitHandlers(WithoutOwner(asked)) = {}
             PROVE  /\ \A path \in Paths :
                         /\ Stripped.words \in Range(ImportedFiles[path].keywords)
                         /\ Paths = {path} /\ Libs = {}
                         /\ ~DefinedTwice(ImportedFiles[path].keywords, Stripped.words)
                         => found = User(path, Stripped.words)
                    /\ \A lib \in Libs :
                         Stripped.words \in lib.keywords /\ Libs = {lib} /\ Paths = {}
                         => found = Library(lib, Stripped.words)
  BY DEF FullNamesReach
<1>1. /\ asked \in LookedUp /\ found \in Handlers(asked)
      /\ userlibs \in Seq(DOMAIN ImportedFiles) /\ testlibs \subseteq Libraries
  <2>1. LookupTypeOK /\ FoundOK
    BY DEF LookupBookkeeping, ImportsOK
  <2>2. asked # NoKeywordName
    BY DEF NoKeywordName
  <2>3. asked \in Names
    BY <2>1, <2>2 DEF LookupTypeOK
  <2>4. Names \subseteq LookedUp
    BY LookupAssumption DEF LookedUp
  <2> QED BY <2>1, <2>2, <2>3, <2>4 DEF LookupTypeOK, FoundOK
<1>2. /\ LeftOut(asked) \in SUBSET Nat /\ 0 \in LeftOut(asked)
      /\ WithoutPrefixes(asked, 0) = asked
  BY <1>1, LeftOutFacts
<1>3. /\ Stripped \in LookedUp /\ Stripped.words = asked.words
      /\ Stripped.owner # <<>> /\ ~Stripped.underscored
  <2>1. CASE ~HasPrefix
    BY <1>1, <1>2, <2>1
  <2>2. CASE HasPrefix
    <3>1. asked.owner \in Seq(STRING)
      BY <1>1 DEF LookedUp
    <3>2. Len(asked.owner) \in Nat /\ \A i \in 1 .. Len(asked.owner) : asked.owner[i] \in STRING
      BY <3>1, LenProperties, ElementOfSeq
    <3>3. 1 < Len(asked.owner)
      BY <2>2 DEF LeftOut
    <3> DEFINE short == SubSeq(asked.owner, 2, Len(asked.owner))
    <3>4. short \in Seq(STRING) /\ Len(short) = Len(asked.owner) - 1
      <4>1. \A i \in 2 .. Len(asked.owner) : asked.owner[i] \in STRING
        BY <3>2
      <4>2. short \in Seq(STRING)
        BY <3>2, <4>1, SubSeqProperties
      <4>3. Len(short) = IF 2 <= Len(asked.owner) THEN Len(asked.owner) - 2 + 1 ELSE 0
        BY <3>2, <4>1, SubSeqProperties
      <4> QED BY <3>2, <3>3, <4>2, <4>3
    <3>5. short # <<>>
      <4>1. Len(<<>>) = 0
        BY EmptySeq
      <4> QED BY <3>2, <3>3, <3>4, <4>1
    <3>6. Stripped = [asked EXCEPT !.owner = short]
      <4>1. 1 + 1 = 2
        OBVIOUS
      <4> QED BY <2>2, <4>1 DEF WithoutPrefixes
    <3> HIDE DEF short, Stripped
    <3> QED BY <1>1, <3>4, <3>5, <3>6 DEF LookedUp
  <2> QED BY <2>1, <2>2
<1>4. asked.words # <<>> /\ ExplicitHandlers(Stripped) # {} => found \in ExplicitHandlers(Stripped)
  <2> SUFFICES ASSUME asked.words # <<>>, ExplicitHandlers(Stripped) # {}
               PROVE  found \in ExplicitHandlers(Stripped)
    OBVIOUS
  <2>1. HandlersOf(Stripped) = ExplicitHandlers(Stripped)
    <3> HIDE DEF Stripped
    <3> QED BY <1>3 DEF HandlersOf
  <2>2. CASE ~HasPrefix
    <3>1. Stripped = asked
      BY <1>2, <2>2
    <3>2. Handlers(asked) = HandlersOf(asked)
      BY <1>1, <2>1, <3>1, FoundWith
    <3> QED BY <1>1, <2>1, <3>1, <3>2
  <2>3. CASE HasPrefix
    <3>1. Stripped = WithoutPrefixes(asked, 1)
      BY <2>3
    <3>2. ExplicitHandlers(asked) = {}
      <4>1. 1 < Len(asked.owner)
        BY <2>3 DEF LeftOut
      <4>2. ASSUME NEW x PROVE <<x>> # asked.owner
        <5>1. Len(<<x>>) = 1
          OBVIOUS
        <5>2. Len(asked.owner) # 1
          <6>1. Len(asked.owner) \in Nat
            BY <1>1, LenProperties DEF LookedUp
          <6>2. \A n \in Nat : 1 < n => n # 1
            OBVIOUS
          <6> QED BY <4>1, <6>1, <6>2
        <5> QED BY <5>1, <5>2
      <4>3. {path \in Range(userlibs) : <<path[2]>> = asked.owner} = {}
        BY <4>2
      <4>4. {lib \in testlibs : <<lib.name>> = asked.owner} = {}
        BY <4>2
      <4> QED BY <1>1, <4>3, <4>4, FoundByOwner
    <3>3. HandlersOf(asked) = {}
      BY <2>3, <3>2 DEF HandlersOf
    <3> DEFINE hits == {n \in LeftOut(asked) : HandlersOf(WithoutPrefixes(asked, n)) # {}}
    <3>4. Handlers(asked) = IF hits = {} THEN {NoHandler} ELSE HandlersOf(WithoutPrefixes(asked, FirstOf(hits)))
      BY DEF Handlers
    <3>5. 1 \in hits
      BY <2>1, <2>3, <3>1
    <3>6. hits \in SUBSET Nat /\ 0 \notin hits
      BY <1>2, <3>3
    <3> HIDE DEF hits
    <3>7. FirstOf(hits) \in hits /\ FirstOf(hits) <= 1
      BY <3>5, <3>6, FirstOfFacts
    <3>8. FirstOf(hits) = 1
      <4>1. FirstOf(hits) \in Nat /\ FirstOf(hits) # 0
        BY <3>6, <3>7
      <4> QED BY <3>7, <4>1
    <3> QED BY <1>1, <2>1, <3>1, <3>4, <3>5, <3>8
  <2> QED BY <2>2, <2>3
\* No keyword is without a name.
<1>5. /\ \A path \in Paths : <<>> \notin Range(ImportedFiles[path].keywords)
      /\ \A lib \in Libs : <<>> \notin lib.keywords
  <2>1. ASSUME NEW path \in Paths PROVE <<>> \notin Range(ImportedFiles[path].keywords)
    <3>1. path \in DOMAIN ImportedFiles
      BY <1>1, RangeFacts
    <3>2. ImportedFiles[path].keywords \in Seq(KeywordName \ {<<>>})
      BY <3>1, LookupAssumption
    <3>3. Range(ImportedFiles[path].keywords) \subseteq KeywordName \ {<<>>}
      BY <3>2, RangeFacts
    <3> QED BY <3>3
  <2>2. \A lib \in Libs : <<>> \notin lib.keywords
    BY <1>1, LookupAssumption
  <2> QED BY <2>1, <2>2
<1> HIDE DEF Stripped, HasPrefix
<1>6. ASSUME NEW path \in Paths, Stripped.words \in Range(ImportedFiles[path].keywords),
             Paths = {path}, Libs = {}, ~DefinedTwice(ImportedFiles[path].keywords, Stripped.words)
      PROVE  found = User(path, Stripped.words)
  <2>1. ExplicitHandlers(Stripped) = {User(path, Stripped.words)}
    BY <1>3, <1>6, FoundByOwner
  <2>2. asked.words # <<>>
    BY <1>3, <1>5, <1>6
  <2> QED BY <1>4, <2>1, <2>2
<1>7. ASSUME NEW lib \in Libs, Stripped.words \in lib.keywords, Libs = {lib}, Paths = {}
      PROVE  found = Library(lib, Stripped.words)
  <2>1. ExplicitHandlers(Stripped) = {Library(lib, Stripped.words)}
    BY <1>3, <1>7, FoundByOwner
  <2>2. asked.words # <<>>
    BY <1>3, <1>5, <1>7
  <2> QED BY <1>4, <2>1, <2>2
<1> HIDE DEF Paths, Libs
<1> QED BY <1>6, <1>7

\* Which keyword a name means depends on nothing but the priorities: imports are
\* complete when names are looked up (Namespace.handle_imports), a keyword is
\* found in the file, in its resource files or in its libraries, in that order,
\* and a full name reaches the one that has it (Namespace.get_handler).
THEOREM KeywordsAreFoundHolds == LookupSpec => []KeywordsAreFound
<1>1. LookupBookkeeping => KeywordsAreFound
  BY BooksAreComplete, PrioritiesHold, FullNamesHold DEF KeywordsAreFound
<1> QED BY <1>1, LookupBookkeepingHolds, PTL

=============================================================================
