-------------------------------- MODULE Paths -------------------------------
(***************************************************************************)
(* Paths as the OperatingSystem library joins, normalizes and splits them  *)
(* (libraries/OperatingSystem.py) where the separator is "/": the paths of *)
(* the machine are external.  A path is a sequence of the characters "/",  *)
(* "." and others, and its parts are what is between separators.           *)
(***************************************************************************)
EXTENDS Naturals, Sequences, SequencesExt, FiniteSetsExt

CONSTANTS PathCharacters,   \* the characters of paths, "/" and "." among them
          MaxPath,          \* bound on the length of a path
          MaxPart           \* bound on the length of a path that is joined to it

VARIABLES base, part    \* two paths
pathVars == <<base, part>>

Separator == "/"
Dot == "."
Parent == <<Dot, Dot>>
EndsIn(p, c) == p # <<>> /\ Last(p) = c

\* The parts between separators, and parts with separators between them.
PartsOf(p) == FoldLeft(LAMBDA ps, c: IF c = Separator THEN Append(ps, <<>>)
                                     ELSE [ps EXCEPT ![Len(ps)] = Append(@, c)], <<<<>>>>, p)
WithSeparators(ps) == FoldLeft(LAMBDA p, q: IF p = <<>> THEN q ELSE p \o <<Separator>> \o q, <<>>, ps)
StripFromRight(p, c) == SubSeq(p, 1, Max({i \in DOMAIN p: p[i] # c} \cup {0}))
StripFromLeft(p, c) == Reverse(StripFromRight(Reverse(p), c))

\* os.path: two separators at the beginning are kept, three are as one.
InitialSeparators(p) ==
    LET n == Len(p) - Len(StripFromLeft(p, Separator)) IN [i \in 1..(IF n = 2 THEN 2 ELSE Min({n, 1})) |-> Separator]
NormalParts(p) ==
    FoldLeft(LAMBDA ps, q:
        CASE q \in {<<>>, <<Dot>>} -> ps
          [] q = Parent /\ ps # <<>> /\ Last(ps) # Parent -> Front(ps)
          [] q = Parent /\ ps = <<>> /\ InitialSeparators(p) # <<>> -> ps
          [] OTHER -> Append(ps, q), <<>>, PartsOf(p))
NormPath(p) == LET n == InitialSeparators(p) \o WithSeparators(NormalParts(p)) IN IF n = <<>> THEN <<Dot>> ELSE n
JoinTwo(p, q) == CASE q # <<>> /\ q[1] = Separator -> q
                   [] p = <<>> \/ EndsIn(p, Separator) -> p \o q
                   [] OTHER -> p \o <<Separator>> \o q
LastSeparator(p) == Max({i \in DOMAIN p: p[i] = Separator} \cup {0})
HeadAndTail(p) ==
    LET head == SubSeq(p, 1, LastSeparator(p))
        strip == StripFromRight(head, Separator)
    IN  <<IF strip = <<>> THEN head ELSE strip, SubSeq(p, LastSeparator(p) + 1, Len(p))>>
\* The last dot of the name, with the dots that it begins with left out.
SplitExt(p) ==
    LET name == HeadAndTail(p)[2]
        first == Len(p) - Len(StripFromLeft(name, Dot))
        dot == Max({i \in first + 1..Len(p): p[i] = Dot} \cup {0})
    IN  IF dot = 0 THEN <<p, <<>>>> ELSE <<SubSeq(p, 1, dot - 1), SubSeq(p, dot, Len(p))>>

NormalizePath(p) == NormPath(p)
JoinPath(p, parts) == NormalizePath(FoldLeft(JoinTwo, p, parts))
JoinPaths(p, paths) == [i \in DOMAIN paths |-> JoinPath(p, <<paths[i]>>)]
SplitPath(p) == HeadAndTail(NormalizePath(p))

\* Dots at the end are not separators: they are left out while the
\* extension is looked for and then belong to it, or else to the name.
SplitExtension(p) ==
    LET path == NormalizePath(p)
        name == HeadAndTail(path)[2]
        dots == SelectSeq(name, LAMBDA c: c = Dot)
        bare == StripFromRight(path, Dot)
        trailing == SubSeq(path, Len(bare) + 1, Len(path))
        split == SplitExt(bare)
        ext == IF split[2] = <<>> THEN <<>> ELSE Tail(split[2])
    IN  CASE IsPrefix(dots, name) -> <<path, <<>>>>
          [] ext # <<>> -> <<split[1], ext \o trailing>>
          [] OTHER -> <<split[1] \o trailing, <<>>>>

PathsInit == base = <<>> /\ part = <<>>
Lengthen(c) == /\ part = <<>> /\ Len(base) < MaxPath
               /\ base' = Append(base, c) /\ UNCHANGED part
LengthenPart(c) == /\ Len(part) < MaxPart
                   /\ part' = Append(part, c) /\ UNCHANGED base
PathsNext == \E c \in PathCharacters: Lengthen(c) \/ LengthenPart(c)
PathsSpec == PathsInit /\ [][PathsNext]_pathVars

-----------------------------------------------------------------------------
\* Where one is who follows a path, step by step, from a place: how many
\* separators the place begins with, how many steps it is above the
\* beginning and the names that lead down from there.
Here == [separators |-> 0, up |-> 0, names |-> <<>>]
Walk(from, p) ==
    LET begin == IF p # <<>> /\ p[1] = Separator
                 THEN [Here EXCEPT !.separators = IF IsPrefix(<<Separator, Separator>>, p)
                           /\ ~IsPrefix(<<Separator, Separator, Separator>>, p) THEN 2 ELSE 1]
                 ELSE from
    IN  FoldLeft(LAMBDA at, q:
            CASE q \in {<<>>, <<Dot>>} -> at
              [] q = Parent /\ at.names # <<>> -> [at EXCEPT !.names = Front(@)]
              [] q = Parent -> IF at.separators > 0 THEN at ELSE [at EXCEPT !.up = @ + 1]
              [] OTHER -> [at EXCEPT !.names = Append(@, q)], begin, PartsOf(p))

\* A normalized path leads to where the path leads and is the same when it is
\* normalized again, so that paths that lead to the same place are the same;
\* one who follows the parts of a path that was split, or a path and then
\* another that is joined to it, gets to the same place; an extension is what
\* follows the last dot that is not among those at the beginning or the end
\* of the name, and the parts without the dot are the whole path
\* (OperatingSystem.py:858, 892, 913, 941).
PathsLeadToTheSamePlace ==
    LET normal == NormalizePath(base)
        split == SplitPath(base)
        extension == SplitExtension(base)
        name == split[2]
        dots == {i \in DOMAIN name: /\ name[i] = Dot
                                    /\ \E j \in 1..i: name[j] # Dot
                                    /\ \E j \in i..Len(name): name[j] # Dot}
    IN  /\ Walk(Here, normal) = Walk(Here, base) /\ NormalizePath(normal) = normal
        /\ Walk(Here, JoinPath(base, <<part>>)) = Walk(Walk(Here, base), part)
        /\ JoinPath(base, <<part, part>>) = JoinPath(JoinPath(base, <<part>>), <<part>>)
        /\ JoinPath(split[1], <<name>>) = normal /\ ~Contains(name, Separator)
        /\ JoinPaths(split[1], <<name, part>>)[1] = normal
        /\ extension[2] = IF dots = {} THEN <<>> ELSE SubSeq(name, Max(dots) + 1, Len(name))
        /\ normal = IF extension[2] = <<>> THEN extension[1] ELSE extension[1] \o <<Dot>> \o extension[2]
=============================================================================
