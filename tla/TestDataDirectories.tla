------------------------ MODULE TestDataDirectories -------------------------
(***************************************************************************)
(* Which files of a directory are read, and which suites there are in the  *)
(* end: init files, ignored names, files that cannot be parsed and suites  *)
(* chosen with --suite.                                                    *)
(***************************************************************************)
EXTENDS Integers, Sequences, FiniteSets

CONSTANTS Root, Parent(_), \* the directory that is run, and the one each path is in
          Directories, Files, InitFiles, \* its paths
          Prefixed         \* those whose name starts with _ or .
ASSUME PathsAssumption == Root \in Directories /\ InitFiles \subseteq Files

VARIABLES include, \* whether suites are chosen, and the paths that match
          valid,   \* the files that can be parsed
          suites,  \* the paths that are suites, or NotRead
          errors   \* paths the log has an error about

dirVars == <<include, valid, suites, errors>>
Paths == Directories \cup Files
NotRead == {"not read"}

\* What a directory passes on to what is in it: all of it is included when
\* the directory is.
IncludeSuites(path, incl) == IF path \in incl.matching THEN [incl EXCEPT !.given = FALSE] ELSE incl
IsIncluded(path, incl) ==
    /\ path \notin Prefixed
    /\ path \in Directories \/ ~incl.given \/ path \in incl.matching

In(dir) == {p \in Paths: p # Root /\ Parent(p) = dir}
Children(dir, incl) == {p \in In(dir) \ InitFiles: IsIncluded(p, incl)}

\* Mutant: an init file that is not valid ends the suite.
RECURSIVE SuitesOfValid(_, _)
SuitesOfValid(path, incl) ==
    IF path \in Files THEN {path} \cap valid
    ELSE LET within == IncludeSuites(path, incl)
             below == UNION {SuitesOfValid(p, within): p \in Children(path, within)}
         IN  IF below = {} \/ ~(In(path) \cap InitFiles \subseteq valid) THEN {} ELSE {path} \cup below

\* A file that cannot be parsed is left out; a directory without tests too.
RECURSIVE SuitesOf(_, _)
SuitesOf(path, incl) ==
    IF path \in Files THEN {path} \cap valid
    ELSE LET within == IncludeSuites(path, incl)
             below == UNION {SuitesOf(p, within): p \in Children(path, within)}
         IN  IF below = {} THEN {} ELSE {path} \cup below

\* Only the init file whose name comes first is read.
InitErrors(dir) ==
    LET inits == In(dir) \cap InitFiles
        first == CHOOSE f \in inits: TRUE
    IN  {f \in inits: f \notin valid \/ f # first}
RECURSIVE ErrorsOf(_, _)
ErrorsOf(path, incl) ==
    IF path \in Files THEN {}
    ELSE LET within == IncludeSuites(path, incl)
         IN  InitErrors(path) \cup UNION {ErrorsOf(p, within): p \in Children(path, within)}

DirInit == /\ include \in [given: BOOLEAN, matching: SUBSET Paths]
           /\ valid \in SUBSET Files
           /\ suites = NotRead /\ errors = {}

TestData == /\ suites = NotRead
            /\ suites' = SuitesOf(Root, include) \cup {Root}
            /\ errors' = ErrorsOf(Root, include)
            /\ UNCHANGED <<include, valid>>

DirNext == TestData \/ (suites # NotRead /\ UNCHANGED dirVars)

RECURSIVE Above(_)
Above(path) == IF path = Root THEN {Root} ELSE {path} \cup Above(Parent(path))

\* A file is run if and only if it can be parsed, no part of its path is
\* ignored and, when suites are chosen, it or a directory it is in matches;
\* what is wrong in an init file does not change that, and a directory is a
\* suite only when there is something to run in it (populators.py,
\* FromDirectoryPopulator).
ChosenFilesAreRun ==
    suites # NotRead =>
        /\ suites \cap Files =
               {f \in (Files \ InitFiles) \cap valid:
                   /\ Above(f) \cap Prefixed \subseteq {Root}
                   /\ include.given => Above(f) \cap include.matching # {}}
        /\ \A d \in (suites \cap Directories) \ {Root}: \E f \in suites \cap Files: d \in Above(f)
=============================================================================
