--------------------------- MODULE OperatingSystem ---------------------------
(***************************************************************************)
(* The keywords of the OperatingSystem library that look at and change     *)
(* files and directories, while the system under test does the same.       *)
(*                                                                         *)
(* A path is the sequence of the names that lead to it; a file has a       *)
(* sequence of data. A keyword gives the file systems it may leave behind, *)
(* each with whether it failed: the system can refuse to write, copy or    *)
(* remove anything, at any point of a keyword that does so several times.  *)
(* Making directories and looking at them is not refused.                  *)
(***************************************************************************)
EXTENDS Integers, Sequences, FiniteSets, SequencesExt

CONSTANTS FileNames,       \* names of files and directories
          MaxPathDepth,    \* bound: names in a path
          MaxFileKeywords, \* bound: keywords run
          MaxChanges,  \* bound: changes by the system under test
          FirstFiles,  \* the file systems to begin with
          Watched,     \* paths somebody waits for
          Timeouts     \* timeouts in units of 0.1 seconds, negative for none

ASSUME FilesBounds == MaxPathDepth \in Nat /\ MaxFileKeywords \in Nat /\ MaxChanges \in Nat
ASSUME TimeoutsAssumption == Timeouts \subseteq Int

VARIABLES fs,      \* what there is at each existing path
          lastRun,     \* the last keyword: its name, arguments and result
          waiting, \* the Wait Until keyword that is running, or NotWaiting
          clock,   \* time since it started
          seen,    \* whether its path has been there at each of its polls
          keywords, changes \* numbers of keywords run and changes made

fileVars == <<fs, lastRun, waiting, clock, seen, keywords, changes>>

Dir == [dir |-> TRUE, data |-> <<>>]
File(data) == [dir |-> FALSE, data |-> data]
Paths == UNION {[1..n -> FileNames]: n \in 1..MaxPathDepth}
RootDirectory == <<>>
ParentPath(p) == Front(p)
Under(p, q) == IsPrefix(p, q)   \* q is p or inside it

Exists(f, p) == p \in DOMAIN f
IsDir(f, p) == p \in DOMAIN f /\ f[p].dir
IsFile(f, p) == p \in DOMAIN f /\ ~f[p].dir
List(f, p) == {q \in DOMAIN f: q # RootDirectory /\ ParentPath(q) = p}
Tree(f, p) == {q \in DOMAIN f: Under(p, q)}
Without(f, paths) == [q \in DOMAIN f \ paths |-> f[q]]
With(f, p, item) == [q \in DOMAIN f \cup {p} |-> IF q = p THEN item ELSE f[q]]

Passed(f) == [fs |-> f, failed |-> FALSE]
Failed(f) == [fs |-> f, failed |-> TRUE]

\* os.makedirs: intermediate directories are created.
CanMakedirs(f, p) == \A q \in DOMAIN f: Under(q, p) => f[q].dir
Makedirs(f, p) == [q \in DOMAIN f \cup {SubSeq(p, 1, n): n \in 0..Len(p)} |->
                      IF q \in DOMAIN f THEN f[q] ELSE Dir]
WithParent(f, p) == IF Exists(f, ParentPath(p)) THEN f ELSE Makedirs(f, ParentPath(p))

------------------------------------------------------------------------------
(***************************************************************************)
(* Files.                                                                  *)
(***************************************************************************)
\* The file is opened, and emptied, before its contents are encoded.
WriteToFile(f, p, data, before, encodes) ==
    IF ~CanMakedirs(f, ParentPath(p)) THEN {Failed(f)}
    ELSE LET g == WithParent(f, p)
         IN  IF IsDir(g, p) THEN {Failed(g)}
             ELSE {Failed(g), IF encodes THEN Passed(With(g, p, File(before \o data)))
                                         ELSE Failed(With(g, p, File(before)))}
CreateFile(f, p, data, encodes) == WriteToFile(f, p, data, <<>>, encodes)
AppendToFile(f, p, data, encodes) ==
    WriteToFile(f, p, data, IF IsFile(f, p) THEN f[p].data ELSE <<>>, encodes)

Touch(f, p) ==
    IF IsDir(f, p) \/ ~Exists(f, ParentPath(p)) THEN {Failed(f)}
    ELSE IF Exists(f, p) THEN {Passed(f)}
    ELSE IF ~IsDir(f, ParentPath(p)) THEN {Failed(f)} ELSE {Failed(f), Passed(With(f, p, File(<<>>)))}

\* A pattern is a set of paths; it is expanded in no certain order, and files
\* that come before a directory, or one that cannot be removed, are gone.
RemoveFile(f, pattern) ==
    LET matches == pattern \cap DOMAIN f
    IN  {[fs |-> Without(f, removed), failed |-> removed # matches]:
             removed \in SUBSET {p \in matches: IsFile(f, p)}}

RECURSIVE RemoveFiles(_, _)
RemoveFiles(f, paths) ==
    IF paths = <<>> THEN {Passed(f)}
    ELSE UNION {IF r.failed THEN {r} ELSE RemoveFiles(r.fs, Tail(paths)):
                    r \in RemoveFile(f, {Head(paths)})}

\* A destination that does not exist is a directory when it ends with a
\* separator.
Destination(f, source, dest, slash) ==
    IF IsDir(f, dest) \/ (slash /\ ~Exists(f, dest)) THEN Append(dest, Last(source)) ELSE dest
CopyOf(f, source, dest, slash) ==
    LET g == IF Exists(f, dest) THEN f
             ELSE IF slash THEN Makedirs(f, dest) ELSE WithParent(f, dest)
        target == Destination(f, source, dest, slash)
        data == f[source].data
    IN  IF target = source \/ IsDir(g, target) THEN {Failed(g)}
        ELSE {Failed(g), Passed(With(g, target, File(data)))}
             \cup {Failed(With(g, target, File(SubSeq(data, 1, n)))): n \in 0..Len(data)}
CanCopyFile(f, source, dest, slash) ==
    /\ IsFile(f, source)
    /\ Exists(f, dest) \/ CanMakedirs(f, IF slash THEN dest ELSE ParentPath(dest))
CopyFile(f, source, dest, slash) ==
    IF CanCopyFile(f, source, dest, slash) THEN CopyOf(f, source, dest, slash) ELSE {Failed(f)}
MoveFile(f, source, dest, slash) ==
    UNION {IF r.failed THEN {r} ELSE {Failed(r.fs), Passed(Without(r.fs, {source}))}:
               r \in CopyFile(f, source, dest, slash)}

------------------------------------------------------------------------------
(***************************************************************************)
(* Directories.                                                            *)
(***************************************************************************)
CreateDirectory(f, p) ==
    IF IsDir(f, p) THEN {Passed(f)}
    ELSE IF CanMakedirs(f, p) THEN {Passed(Makedirs(f, p))} ELSE {Failed(f)}

\* What may be gone when shutil.rmtree fails. It removes what is in a directory,
\* one entry after the other in no certain order, before the directory, and
\* stops at the first one that it cannot remove.
DepthFirst(f, p) ==
    LET inside == Tree(f, p) \ {p}
        partly(q, removed) == q \notin removed /\ Tree(f, q) \cap removed # {}
    IN  {removed \in SUBSET inside:
            /\ \A q \in removed: Tree(f, q) \subseteq removed
            /\ \A q, r \in inside: ParentPath(q) = ParentPath(r) /\ partly(q, removed) /\ partly(r, removed) => q = r}
Rmtree(f, p) ==
    {Passed(Without(f, Tree(f, p)))} \cup {Failed(Without(f, removed)): removed \in DepthFirst(f, p)}

EmptyDirectory(f, p) ==
    IF ~IsDir(f, p) THEN {Failed(f)}
    ELSE {[fs |-> Without(f, removed), failed |-> removed # Tree(f, p) \ {p}]: removed \in DepthFirst(f, p)}

RemoveDirectory(f, p, recursive) ==
    IF ~Exists(f, p) THEN {Passed(f)}
    ELSE IF IsFile(f, p) \/ (~recursive /\ List(f, p) # {}) THEN {Failed(f)}
    ELSE Rmtree(f, p)

\* shutil.copytree, which lists a directory, creates the copy and copies what
\* it listed: a copy in the directory itself succeeds, one deeper in it is
\* copied into itself until there is an error. What cannot be copied is left
\* out and reported after the rest has been copied.
Copytree(f, source, dest) ==
    IF Exists(f, dest) \/ ~CanMakedirs(f, dest) THEN {Failed(f)}
    ELSE IF Under(source, dest) /\ ParentPath(dest) # source THEN {Failed(Makedirs(f, dest))}
    ELSE LET copies == {dest \o SubSeq(q, Len(source) + 1, Len(q)): q \in Tree(f, source)}
             g == Makedirs(f, dest)
             with(made) == [q \in DOMAIN g \cup made |->
                               IF q \in made THEN f[source \o SubSeq(q, Len(dest) + 1, Len(q))] ELSE g[q]]
         IN  {Passed(with(copies))} \cup
             {Failed(with(made)): made \in {m \in SUBSET copies: \A q \in m: q = dest \/ ParentPath(q) \in m}}

TreeDestination(f, source, dest) == IF Exists(f, dest) THEN Append(dest, Last(source)) ELSE dest
CanCopyDirectory(f, source, dest) ==
    /\ IsDir(f, source)
    /\ ~IsFile(f, dest)
    /\ Exists(f, dest) \/ CanMakedirs(f, ParentPath(dest))
CopyDirectory(f, source, dest) ==
    IF ~CanCopyDirectory(f, source, dest) THEN {Failed(f)}
    ELSE LET g == IF Exists(f, dest) THEN f ELSE WithParent(f, dest)
         IN  Copytree(g, source, TreeDestination(f, source, dest))

\* Mutant: the source is removed whatever came of the copy.
MoveDirectoryAnyway(f, source, dest) ==
    {[r EXCEPT !.fs = Without(r.fs, Tree(f, source))]: r \in CopyDirectory(f, source, dest)}
MoveDirectory(f, source, dest) ==
    UNION {IF r.failed THEN {r} ELSE Rmtree(r.fs, source): r \in CopyDirectory(f, source, dest)}

------------------------------------------------------------------------------
(***************************************************************************)
(* Keywords that only look.                                                *)
(***************************************************************************)
WaitedHolds(f, check, pattern) ==
    LET matches == pattern \cap DOMAIN f
        p == CHOOSE q \in pattern: TRUE
    IN  CASE check = "Should Exist" -> matches # {}
          [] check = "Should Not Exist" -> matches = {}
          [] check = "File Should Exist" -> \E q \in matches: IsFile(f, q)
          [] check = "File Should Not Exist" -> ~\E q \in matches: IsFile(f, q)
          [] check = "Directory Should Exist" -> \E q \in matches: IsDir(f, q)
          [] check = "Directory Should Not Exist" -> ~\E q \in matches: IsDir(f, q)
          [] check = "Directory Should Be Empty" -> IsDir(f, p) /\ List(f, p) = {}
          [] check = "Directory Should Not Be Empty" -> IsDir(f, p) /\ List(f, p) # {}
          [] check = "File Should Be Empty" -> IsFile(f, p) /\ f[p].data = <<>>
          [] check = "File Should Not Be Empty" -> IsFile(f, p) /\ f[p].data # <<>>
          [] check \in {"Get File", "Get File Size"} -> IsFile(f, p)
          [] check \in {"List Directory", "Count Items In Directory"} -> IsDir(f, p)
Checks == {"Should Exist", "Should Not Exist", "File Should Exist", "File Should Not Exist",
           "Directory Should Exist", "Directory Should Not Exist", "Directory Should Be Empty",
           "Directory Should Not Be Empty", "File Should Be Empty", "File Should Not Be Empty",
           "Get File", "Get File Size", "List Directory", "Count Items In Directory"}

------------------------------------------------------------------------------
Bounded(f) == DOMAIN f \subseteq Paths \cup {RootDirectory}
NotWaiting == [kw |-> "None"]
NotRun == [kw |-> "None", source |-> RootDirectory, dest |-> RootDirectory, failed |-> FALSE]

FilesInit == /\ fs \in FirstFiles /\ lastRun = NotRun /\ waiting = NotWaiting
             /\ clock = 0 /\ seen = {} /\ keywords = 0 /\ changes = 0

\* One keyword runs from its start to its end.
MayRun == waiting = NotWaiting /\ keywords < MaxFileKeywords
Run(kw, source, dest, outcomes) ==
    /\ \E r \in outcomes: /\ Bounded(r.fs)
                          /\ fs' = r.fs
                          /\ lastRun' = [kw |-> kw, source |-> source, dest |-> dest, failed |-> r.failed]
    /\ keywords' = keywords + 1
    /\ UNCHANGED <<waiting, clock, seen, changes>>

ChangeFile ==
    MayRun /\ \E p \in Paths:
        \/ \E encodes \in BOOLEAN:
               \/ Run("Create File", p, p, CreateFile(fs, p, <<"new">>, encodes))
               \/ Run("Append To File", p, p, AppendToFile(fs, p, <<"new">>, encodes))
        \/ Run("Touch", p, p, Touch(fs, p))
        \/ Run("Remove File", p, p, RemoveFile(fs, {p}))
        \/ Run("Remove File", ParentPath(p), p, RemoveFile(fs, List(fs, ParentPath(p))))
        \/ \E q \in Paths: Run("Remove Files", p, q, RemoveFiles(fs, <<p, q>>))
ChangeDirectory ==
    MayRun /\ \E p \in Paths:
        \/ Run("Create Directory", p, p, CreateDirectory(fs, p))
        \/ Run("Empty Directory", p, p, EmptyDirectory(fs, p))
        \/ \E recursive \in BOOLEAN:
               Run("Remove Directory", p, p, RemoveDirectory(fs, p, recursive))
CopyOrMove ==
    MayRun /\ \E source, dest \in Paths:
        \/ \E slash \in BOOLEAN:
               \/ Run("Copy File", source, dest, CopyFile(fs, source, dest, slash))
               \/ Run("Move File", source, dest, MoveFile(fs, source, dest, slash))
        \/ Run("Copy Directory", source, dest, CopyDirectory(fs, source, dest))
        \/ Run("Move Directory", source, dest, MoveDirectory(fs, source, dest))
Check == MayRun /\ \E p \in Paths, check \in Checks:
             Run(check, p, p, {[fs |-> fs, failed |-> ~WaitedHolds(fs, check, {p})]})

\* Wait Until Created and Wait Until Removed: a poll, 0.1 seconds of sleep and
\* a look at the clock, which comes before the next poll.
StartWaiting ==
    /\ MayRun
    /\ \E kw \in {"Wait Until Created", "Wait Until Removed"}, p \in Watched, timeout \in Timeouts:
           waiting' = [kw |-> kw, path |-> p, timeout |-> timeout, at |-> "poll"]
    /\ clock' = 0 /\ seen' = {} /\ keywords' = keywords + 1
    /\ UNCHANGED <<fs, lastRun, changes>>

Wanted == Exists(fs, waiting.path) = (waiting.kw = "Wait Until Created")
WaitEnds(failed) ==
    /\ lastRun' = [kw |-> waiting.kw, source |-> waiting.path, dest |-> waiting.path, failed |-> failed]
    /\ waiting' = NotWaiting
Polls == /\ waiting # NotWaiting /\ waiting.at = "poll"
         /\ seen' = seen \cup {Exists(fs, waiting.path)}
         /\ IF Wanted THEN WaitEnds(FALSE)
            ELSE lastRun' = lastRun /\ waiting' = [waiting EXCEPT !.at = "sleep"]
         /\ UNCHANGED <<fs, keywords, changes>>
\* Mutant: the end of the time is computed again at every poll.
PollAnew == Polls /\ clock' = 0
Poll == Polls /\ UNCHANGED clock

\* Without a timeout the clock does not matter.
Sleeps(timeUp) ==
    /\ waiting # NotWaiting /\ waiting.at = "sleep"
    /\ clock' = IF waiting.timeout < 0 THEN clock ELSE clock + 1
    /\ IF timeUp THEN WaitEnds(TRUE)
       ELSE lastRun' = lastRun /\ waiting' = [waiting EXCEPT !.at = "poll"]
    /\ UNCHANGED <<fs, seen, keywords, changes>>
Sleep == Sleeps(waiting.timeout >= 0 /\ clock + 1 > waiting.timeout)

\* The system under test creates and removes files meanwhile.
SystemChanges ==
    /\ waiting # NotWaiting /\ changes < MaxChanges
    /\ fs' \in IF Exists(fs, waiting.path) THEN {Without(fs, Tree(fs, waiting.path))}
               ELSE {r.fs: r \in {r \in CreateFile(fs, waiting.path, <<>>, TRUE): ~r.failed}}
    /\ changes' = changes + 1
    /\ UNCHANGED <<lastRun, waiting, clock, seen, keywords>>

FilesDone == keywords = MaxFileKeywords /\ waiting = NotWaiting /\ UNCHANGED fileVars

Waits == Poll \/ Sleep
FilesNext == \/ ChangeFile \/ ChangeDirectory \/ CopyOrMove \/ Check
             \/ StartWaiting \/ Waits \/ SystemChanges \/ FilesDone
FilesSpec == FilesInit /\ [][FilesNext]_fileVars /\ WF_fileVars(Waits)

------------------------------------------------------------------------------
DataIn(f, paths) == {f[p].data: p \in {q \in paths: ~f[q].dir}}
Same(p) == p \in DOMAIN fs' /\ fs'[p] = fs[p]
Moves == {"Move File", "Move Directory"}

\* What is moved is not lost, though moving is copying and then removing, and
\* both may stop anywhere (OperatingSystem.move_file and move_directory).
\* Unless it is moved into itself, the source is as it was or all of its files
\* are under the destination; and it is gone when the keyword passes.
MovesKeepFiles ==
    [][LET source == lastRun'.source
           dest == lastRun'.dest
           arrived == DataIn(fs, Tree(fs, source)) \subseteq DataIn(fs', Tree(fs', dest))
       IN  keywords' > keywords /\ lastRun'.kw \in Moves /\ ~Under(source, dest) =>
               /\ arrived \/ \A p \in Tree(fs, source): Same(p)
               /\ ~lastRun'.failed => arrived /\ Tree(fs', source) = {}
      ]_fileVars

\* The same of every directory, as the documentation of Move Directory says:
\* "Moves the source directory into a destination."
DirectoriesGoToDestination ==
    [][keywords' > keywords /\ lastRun'.kw = "Move Directory" /\ ~lastRun'.failed =>
           DataIn(fs, Tree(fs, lastRun'.source)) \subseteq DataIn(fs', Tree(fs', lastRun'.dest))]_fileVars

\* No keyword, wherever it fails, changes or removes anything that it has not
\* been told to: what may be lost is the file that is written, or written over
\* by a copy, the files that match, and what is in the directory that is
\* emptied, removed or moved. All others only create.
MayBeLost(kw, source, dest, p) ==
    CASE kw \in {"Create File", "Append To File"} -> p = dest
      [] kw = "Remove File" -> p = dest \/ (source # dest /\ ParentPath(p) = source)
      [] kw = "Remove Files" -> p \in {source, dest}
      [] kw \in {"Copy File", "Move File"} -> p \in {dest, Append(dest, Last(source))} \/ (p = source /\ kw = "Move File")
      [] kw = "Empty Directory" -> Under(source, p) /\ p # source
      [] kw \in {"Remove Directory", "Move Directory"} -> Under(source, p)
      [] OTHER -> FALSE
OthersAreSafe ==
    [][keywords' > keywords /\ waiting' = waiting =>
           \A p \in DOMAIN fs \ {RootDirectory}:
               Same(p) \/ /\ MayBeLost(lastRun'.kw, lastRun'.source, lastRun'.dest, p)
                          /\ lastRun'.kw \in {"Remove File", "Remove Files", "Create File"} => IsFile(fs, p)
                          /\ lastRun'.failed => lastRun'.kw # "Append To File"]_fileVars

\* A Wait Until keyword passes when it sees what it waits for, however late
\* that is, and fails only if it never saw it and its time is up
\* (wait_until_created, whose last look may be after the timeout).
WaitsAreHonest ==
    [][waiting # NotWaiting /\ waiting' = NotWaiting =>
           IF lastRun'.failed
           THEN waiting.timeout >= 0 /\ clock' > waiting.timeout
                /\ seen' = {waiting.kw = "Wait Until Removed"}
           ELSE (waiting.kw = "Wait Until Created") \in seen']_fileVars

\* With a timeout every wait ends; without one it ends if what it waits for
\* happens for good.
WaitsEnd == /\ (waiting # NotWaiting /\ waiting.timeout >= 0) ~> (waiting = NotWaiting)
            /\ (waiting # NotWaiting /\ [](waiting # NotWaiting => Wanted)) ~> (waiting = NotWaiting)
=============================================================================
