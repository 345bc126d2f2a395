--------------------------- MODULE KeywordLookup ----------------------------
(***************************************************************************)
(* What a suite imports and which keyword a name means in it               *)
(* (running/namespace.py, Namespace, and running/userkeyword.py). Names    *)
(* are sequences of words. A name with an owner, the part before the dot,  *)
(* is a full name; it can have spaces and underscores where the keyword    *)
(* has none or other ones ("respelled").                                   *)
(***************************************************************************)
EXTENDS Integers, Sequences, FiniteSets, SequencesExt

CONSTANTS ImportedFiles,        \* resource files: <<directory, file>> -> [imports, keywords]
          InvalidFiles, \* those of them that are there and have no valid data
          SysPath,      \* directories that are looked at after the one of the importing file
          Libraries,    \* libraries there are: [name, original, keywords]
          SuiteImports, \* imports of the suite
          SuiteKeywords,\* keywords the suite can have
          Names, Orders \* names that are looked up, and library search orders

\* No name at all; it is never asked for.
NoKeywordName == [owner |-> <<>>, words |-> <<>>, underscored |-> FALSE, respelled |-> FALSE]

Import == [type: {"Resource", "Library"}, name: STRING]
KeywordName == Seq(STRING)

\* A library is known by its name (_testlibs), and no keyword is without a name.
ASSUME LookupAssumption ==
    /\ IsFiniteSet(Libraries)
    /\ Libraries \subseteq [name: STRING, original: STRING, keywords: SUBSET KeywordName]
    /\ \A lib, other \in Libraries: lib.name = other.name => lib = other
    /\ SysPath \in Seq(STRING) /\ DOMAIN ImportedFiles \subseteq STRING \X STRING
    /\ InvalidFiles \subseteq DOMAIN ImportedFiles
    /\ \A path \in DOMAIN ImportedFiles:
           /\ ImportedFiles[path].imports \in Seq(Import)
           /\ ImportedFiles[path].keywords \in Seq(KeywordName \ {<<>>})
    /\ \A lib \in Libraries: <<>> \notin lib.keywords
    /\ SuiteImports \subseteq Seq(Import) /\ SuiteKeywords \subseteq Seq(KeywordName \ {<<>>})
    /\ Names \subseteq [owner: Seq(STRING), words: KeywordName, underscored: BOOLEAN, respelled: BOOLEAN]
    /\ NoKeywordName \notin Names
    /\ Orders \subseteq Seq(STRING)

VARIABLES pending,      \* imports that are not yet handled: [type, name, directory]
          reported,     \* imports that failed
          imported,     \* _imported_resource_files, with those that failed
          userlibs,     \* the resource files whose keywords can be used
          testlibs,     \* the libraries
          userKeywords, \* of the suite itself
          order,        \* library_search_order
          asked, found  \* a name, and the keyword that was found with it
lookupVars == <<pending, reported, imported, userlibs, testlibs, userKeywords, order, asked, found>>

STDLIB_NAMES == {"BuiltIn", "Collections", "Dialogs", "Easter", "OperatingSystem",
                 "Remote", "Reserved", "Screenshot", "String", "Telnet"}
BddPrefixes == {"given", "when", "then", "and"}
Argument == "${arg}" \* in the name of a keyword
Dotted == "a.b"      \* a word with a dot
NoHandler == [kind |-> "none"]
Error == [kind |-> "error"] \* a DataError, of none or of several keywords
User(path, k) == [kind |-> "user", owner |-> path, keyword |-> k]
Library(lib, k) == [kind |-> "library", owner |-> <<lib.name>>, keyword |-> k]
Only(S) == CHOOSE x \in S: TRUE
FirstOf(S) == CHOOSE n \in S: \A m \in S: n <= m

------------------------------------------------------------------------------
(***************************************************************************)
(* Imports.                                                                *)
(***************************************************************************)
LibraryNamed(name) == {lib \in Libraries: lib.name = name}
\* The places a file can be in; the first one that is there is used.
PlacesOf(item) == [i \in 1..(Len(SysPath) + 1) |-> <<(<<item.directory>> \o SysPath)[i], item.name>>]
Existing(item) == {i \in DOMAIN PlacesOf(item): PlacesOf(item)[i] \in DOMAIN ImportedFiles}
ResolvePath(item) == PlacesOf(item)[FirstOf(Existing(item))]
ImportsOf(path) == [i \in DOMAIN ImportedFiles[path].imports |->
    [type |-> ImportedFiles[path].imports[i].type, name |-> ImportedFiles[path].imports[i].name, directory |-> path[1]]]
Deprecated(name) ==
    LET item(n) == <<[type |-> "Library", name |-> n, directory |-> ""]>>
    IN  CASE name = "BuiltIn" -> item("DeprecatedBuiltIn")
          [] name = "OperatingSystem" -> item("DeprecatedOperatingSystem")
          [] OTHER -> <<>>

\* Mutant: an import that fails is tried again after the others.
ReportLater(item, rest) == pending' = Append(rest, item) /\ UNCHANGED reported
ReportInvalidSyntax(item, rest) == reported' = Append(reported, item) /\ pending' = rest
\* The file is remembered before it is read, so that one that is invalid is
\* reported by its first import and skipped by others. The keywords of a valid
\* one are taken and its imports come next.
ImportResource(item, path, rest) ==
    /\ imported' = imported \cup {path}
    /\ \/ path \in imported /\ pending' = rest /\ UNCHANGED <<reported, userlibs>>
       \/ path \in InvalidFiles \ imported /\ ReportInvalidSyntax(item, rest) /\ UNCHANGED userlibs
       \/ /\ path \notin imported \cup InvalidFiles
          /\ userlibs' = Append(userlibs, path) /\ pending' = ImportsOf(path) \o rest
          /\ UNCHANGED reported
    /\ UNCHANGED testlibs
ImportLibrary(lib, rest) ==
    /\ pending' = (IF lib \in testlibs THEN <<>> ELSE Deprecated(lib.name)) \o rest
    /\ testlibs' = testlibs \cup {lib}
    /\ UNCHANGED <<reported, imported, userlibs>>
\* An import that has no name, or of what is not there.
CannotImport(item) ==
    \/ item.name = ""
    \/ item.type = "Resource" /\ Existing(item) = {}
    \/ item.type = "Library" /\ LibraryNamed(item.name) = {}
HandleImport ==
    /\ pending # <<>>
    /\ LET item == Head(pending)
           rest == Tail(pending)
       IN  IF CannotImport(item)
           THEN ReportInvalidSyntax(item, rest) /\ UNCHANGED <<imported, userlibs, testlibs>>
           ELSE \/ item.type = "Resource" /\ ImportResource(item, ResolvePath(item), rest)
                \/ item.type = "Library" /\ ImportLibrary(Only(LibraryNamed(item.name)), rest)
    /\ UNCHANGED <<userKeywords, order, asked, found>>

------------------------------------------------------------------------------
(***************************************************************************)
(* UserLibrary: keywords by their names, and those with arguments in their *)
(* names, each of which stands for one or more words.                      *)
(***************************************************************************)
IsTemplate(k) == Argument \in Range(k)
MatchesTemplate(words, k) ==
    LET ends[i \in 0..Len(k)] == \* how many words the first i of the name can take
            IF i = 0 THEN {0}
            ELSE IF k[i] = Argument THEN {m \in 1..Len(words): \E n \in ends[i - 1]: n < m}
            ELSE {m \in 1..Len(words): m - 1 \in ends[i - 1] /\ words[m] = k[i]}
    IN  Len(words) \in ends[Len(k)]
DefinedTwice(keywords, k) == Len(SelectSeq(keywords, LAMBDA other: other = k)) > 1
Templates(keywords, name) ==
    {k \in Range(keywords): IsTemplate(k) /\ ~name.respelled /\ MatchesTemplate(name.words, k)}
HasHandler(keywords, name) == name.words \in Range(keywords) \/ Templates(keywords, name) # {}
GetUserHandler(path, keywords, name) ==
    IF name.words \in Range(keywords)
    THEN IF DefinedTwice(keywords, name.words) THEN Error ELSE User(path, name.words)
    ELSE LET matching == Templates(keywords, name)
         IN  IF Cardinality({i \in DOMAIN keywords: keywords[i] \in matching}) = 1
             THEN User(path, Only(matching)) ELSE Error

------------------------------------------------------------------------------
(***************************************************************************)
(* Finding keywords. Libraries are in no order, so that there can be more  *)
(* than one that can be found.                                             *)
(***************************************************************************)
FromTestCaseFile(name) ==
    IF HasHandler(userKeywords, name) THEN {GetUserHandler(<<>>, userKeywords, name)} ELSE {}
FromResourceFiles(name) ==
    LET having == {path \in Range(userlibs): HasHandler(ImportedFiles[path].keywords, name)}
        handlers == {GetUserHandler(path, ImportedFiles[path].keywords, name): path \in having}
        errors == {h \in handlers: h.kind = "error"}
    IN  IF having = {} THEN {}
        ELSE IF errors # {} THEN errors
        ELSE IF Cardinality(having) > 1 THEN {Error} ELSE handlers

IsStandard(lib) == lib.original \in STDLIB_NAMES
BySearchOrder(libs) ==
    LET known == {i \in DOMAIN order: \E lib \in libs: lib.name = order[i]}
    IN  IF known = {} THEN libs ELSE {lib \in libs: lib.name = order[FirstOf(known)]}
\* Mutant: the keyword of the standard library is used.
FilterToStandard(libs) ==
    IF \A lib \in libs: ~IsStandard(lib) THEN {libs} ELSE {{lib}: lib \in {l \in libs: IsStandard(l)}}
\* Of two libraries the one that is not the standard one, which is looked for
\* first in the one that happens to be first.
FilterStdlibHandler(libs) ==
    IF \A lib \in libs: ~IsStandard(lib) THEN {libs}
    ELSE {{external}: external \in {e \in libs: ~IsStandard(e) \/ \A lib \in libs: IsStandard(lib)}}
LibrariesWith(name) == {lib \in testlibs: name.words \in lib.keywords}
FromLibraries(name) ==
    LET having == LibrariesWith(name)
        chosen == IF Cardinality(having) > 1 THEN BySearchOrder(having) ELSE having
        left == IF Cardinality(chosen) = 2 THEN FilterStdlibHandler(chosen) ELSE {chosen}
    IN  IF having = {} THEN {}
        ELSE {IF Cardinality(libs) = 1 THEN Library(Only(libs), name.words) ELSE Error: libs \in left}
ImplicitHandlers(name) ==
    IF FromTestCaseFile(name) # {} THEN FromTestCaseFile(name)
    ELSE IF FromResourceFiles(name) # {} THEN FromResourceFiles(name)
    ELSE FromLibraries(name)

\* Names of libraries are compared without regard to case and spaces, but
\* with regard to underscores.
OwnerIs(owner, name) == name.owner = <<owner>> /\ ~name.underscored
ExplicitHandlers(name) ==
    LET resources == {path \in Range(userlibs): OwnerIs(path[2], name) /\ HasHandler(ImportedFiles[path].keywords, name)}
        libs == {lib \in testlibs: OwnerIs(lib.name, name) /\ name.words \in lib.keywords}
        handlers == {GetUserHandler(path, ImportedFiles[path].keywords, name): path \in resources}
                    \cup {Library(lib, name.words): lib \in libs}
        errors == {h \in handlers: h.kind = "error"}
    IN  CASE errors # {} -> errors
          [] Cardinality(resources) + Cardinality(libs) > 1 -> {Error}
          [] OTHER -> handlers
\* The name as one that has no owner.
WithoutOwner(name) ==
    IF name.owner = <<>> THEN name
    ELSE [name EXCEPT !.owner = <<>>, !.words = Front(name.owner) \o <<Dotted>> \o Tail(name.words)]

\* Given, When, Then and And, with the space after them, are left out of names
\* that are not found, one after the other; they are at the beginning of the
\* owner if the name has one.
LeftOut(name) == \* how many can be left out
    LET words == IF name.owner # <<>> THEN name.owner ELSE name.words
        Left(n) == /\ n < Len(words) /\ \A i \in 1..n: words[i] \in BddPrefixes
                   /\ name.owner = <<>> => ~name.respelled
    IN  {0} \cup {n \in 1..Len(words): Left(n)}
WithoutPrefixes(name, n) ==
    IF name.owner # <<>> THEN [name EXCEPT !.owner = SubSeq(@, n + 1, Len(@))]
    ELSE [name EXCEPT !.words = SubSeq(@, n + 1, Len(@))]
HandlersOf(name) ==
    IF name.owner # <<>> /\ ExplicitHandlers(name) # {} THEN ExplicitHandlers(name)
    ELSE ImplicitHandlers(WithoutOwner(name))
Handlers(name) ==
    LET hits == {n \in LeftOut(name): HandlersOf(WithoutPrefixes(name, n)) # {}}
    IN  IF name.words = <<>> THEN {Error}
        ELSE IF hits = {} THEN {NoHandler} ELSE HandlersOf(WithoutPrefixes(name, FirstOf(hits)))

GetHandler(name) ==
    /\ pending = <<>> /\ asked' = name /\ found' \in Handlers(name)
    /\ UNCHANGED <<pending, reported, imported, userlibs, testlibs, userKeywords, order>>
SetLibrarySearchOrder(libraries) ==
    /\ pending = <<>> /\ found = NoHandler /\ order' = libraries
    /\ UNCHANGED <<pending, reported, imported, userlibs, testlibs, userKeywords, asked, found>>

LookupInit ==
    /\ \E imports \in SuiteImports:
           pending = [i \in 1..3 |-> [type |-> "Library", name |-> <<"BuiltIn", "Reserved", "Easter">>[i], directory |-> ""]]
                     \o [i \in DOMAIN imports |-> [type |-> imports[i].type, name |-> imports[i].name, directory |-> "suite"]]
    /\ userKeywords \in SuiteKeywords
    /\ reported = <<>> /\ imported = {} /\ userlibs = <<>> /\ testlibs = {} /\ order = <<>>
    /\ asked = NoKeywordName /\ found = NoHandler
\* Names are looked up one at a time, each in what was imported.
LookupNext ==
    \/ HandleImport
    \/ asked = NoKeywordName /\ \E name \in Names: GetHandler(name)
    \/ asked = NoKeywordName /\ \E libraries \in Orders \ {order}: SetLibrarySearchOrder(libraries)
LookupSpec == LookupInit /\ [][LookupNext]_lookupVars /\ WF_lookupVars(HandleImport)

------------------------------------------------------------------------------
\* What has become of an import.
IsReported(item) == item \in Range(reported)
IsImported(item) ==
    \/ item.type = "Resource" /\ Existing(item) # {} /\ ResolvePath(item) \in Range(userlibs)
    \/ item.type = "Library" /\ \E lib \in testlibs: lib.name = item.name

IsOf(item, path) == item.type = "Resource" /\ ~CannotImport(item) /\ ResolvePath(item) = path
\* Nothing is said of an import of a file that another import found to be invalid.
IsSkipped(item) == \E path \in InvalidFiles, other \in Range(reported): IsOf(item, path) /\ IsOf(other, path)

\* A resource file that is imported by a file that is imported is imported,
\* too, once however many files import it and also when files import each
\* other, and an import that fails keeps none of the others from being handled.
\* An invalid file gives no keywords and no imports, and it is reported once:
\* the imports of it that come later are taken to be done.
ImportsAreComplete ==
    pending = <<>> =>
        /\ Cardinality(Range(userlibs)) = Len(userlibs)
        /\ \A path \in Range(userlibs): \A item \in Range(ImportsOf(path)):
               IsReported(item) \/ IsImported(item) \/ IsSkipped(item)
        /\ \A item \in Range(reported): CannotImport(item) \/ \E path \in InvalidFiles: IsOf(item, path)
        /\ \A path \in imported:
               IF path \in InvalidFiles
               THEN path \notin Range(userlibs) /\ Cardinality({i \in DOMAIN reported: IsOf(reported[i], path)}) = 1
               ELSE path \in Range(userlibs)

\* All imports are handled in the end, also when resource files import each other.
ImportsEnd == <>(pending = <<>>)

\* A keyword of the file itself is used before those of resource files, these
\* before those of libraries, and those of external libraries before standard
\* ones; of libraries the first of the search order is used. Which keyword is
\* found is no matter of chance unless it is in two standard libraries.
PrioritiesAreKept ==
    LET Having == LibrariesWith(asked)
        InFile == HasHandler(userKeywords, asked)
        InResources == \E path \in Range(userlibs): HasHandler(ImportedFiles[path].keywords, asked)
        Finder == Only({lib \in Having: <<lib.name>> = found.owner})
    IN  asked.owner = <<>> /\ asked # NoKeywordName =>
            /\ found.kind = "user" /\ found.owner # <<>> => ~InFile
            /\ found.kind = "library" /\ found.keyword = asked.words =>
                   /\ ~InFile /\ ~InResources
                   /\ \A i \in DOMAIN order: (\E lib \in Having: lib.name = order[i]) =>
                          \E j \in 1..i: <<order[j]>> = found.owner
                   /\ IsStandard(Finder) /\ (\A lib \in Having: lib.name \notin Range(order)) =>
                          \A lib \in Having: IsStandard(lib)
            /\ Cardinality(Handlers(asked)) > 1 => found.kind = "library" /\ \A lib \in Having: IsStandard(lib)
            /\ found.kind = "none" => ~InFile /\ ~InResources /\ Having = {}

\* A keyword can always be used by its full name, whatever other keywords have
\* its name and with Given, When, Then or And before it, when no two resource
\* files or libraries with the name of its owner have it.
FullNamesReach ==
    LET HasPrefix == 1 \in LeftOut(asked)
        Stripped == WithoutPrefixes(asked, IF HasPrefix THEN 1 ELSE 0)
        Paths == {path \in Range(userlibs): <<path[2]>> = Stripped.owner}
        Libs == {lib \in testlibs: <<lib.name>> = Stripped.owner}
    IN  asked.owner # <<>> /\ ~asked.underscored /\ (HasPrefix => ImplicitHandlers(WithoutOwner(asked)) = {}) =>
            /\ \A path \in Paths:
                   /\ Stripped.words \in Range(ImportedFiles[path].keywords)
                   /\ Paths = {path} /\ Libs = {}
                   /\ ~DefinedTwice(ImportedFiles[path].keywords, Stripped.words)
                   => found = User(path, Stripped.words)
            /\ \A lib \in Libs:
                   Stripped.words \in lib.keywords /\ Libs = {lib} /\ Paths = {} => found = Library(lib, Stripped.words)

\* Which keyword a name means does not depend on the order in which files import
\* each other, on how the name is written or on chance, but on the priorities of
\* files and libraries (Namespace).
KeywordsAreFound == ImportsAreComplete /\ PrioritiesAreKept /\ FullNamesReach

\* The keywords of an external library "are used, if there are no user keywords
\* with the same name", whatever standard libraries have keywords with the name.
ExternalKeywordsAreUsed ==
    LET Having == LibrariesWith(asked)
        External == {lib \in Having: ~IsStandard(lib) /\ lib.name \notin {"DeprecatedBuiltIn", "DeprecatedOperatingSystem"}}
    IN  asked.owner = <<>> /\ asked # NoKeywordName /\ FromTestCaseFile(asked) = {} /\ FromResourceFiles(asked) = {}
        /\ order = <<>> /\ Cardinality(External) = 1
        => found = Library(Only(External), asked.words)

\* "The full name of the keyword is case-, space- and underscore-insensitive,
\* similarly as normal keyword names."
FullNamesAreNormalized ==
    asked.owner # <<>> /\ ~asked.respelled /\ LeftOut(asked) = {0} =>
        Handlers([asked EXCEPT !.underscored = TRUE]) = Handlers([asked EXCEPT !.underscored = FALSE])
=============================================================================
