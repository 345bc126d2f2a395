-------------------------------- MODULE Texts --------------------------------
(***************************************************************************)
(* Texts, which are sequences of characters: how they are normalized,      *)
(* compared, matched and escaped everywhere in the program (robot.utils),  *)
(* the keywords about texts of BuiltIn and String, and NormalizedDict, a   *)
(* dictionary whose keys are equal when they are equal normalized.         *)
(***************************************************************************)
EXTENDS Integers, Sequences, FiniteSets, SequencesExt, FiniteSetsExt

CONSTANTS Characters,   \* of the texts that are looked at
          MaxText,      \* bound: characters in a text
          MaxOther,     \* bound: characters in the text it is compared with
          Keys,         \* keys of dictionaries, texts
          PlainUpdates  \* whether dictionaries are updated with plain ones
ASSUME TextsAssumption == MaxText \in Nat /\ MaxOther \in Nat /\ PlainUpdates \in BOOLEAN

VARIABLES text, other, \* a text and another one
          data, keys,  \* of a NormalizedDict: normalized key -> value, key as it was given
          latest       \* normalized key -> the value that was set last (history)
textVars == <<text, other, data, keys, latest>>

Space == " "
Newline == "newline"
Whitespace == {Space, Newline}
Lower(c) == CASE c = "A" -> "a" [] c = "B" -> "b" [] OTHER -> c

------------------------------------------------------------------------------
(***************************************************************************)
(* normalizing.py and match.py.                                            *)
(***************************************************************************)
LowerAll(t) == [i \in DOMAIN t |-> Lower(t[i])]
\* Mutant: only spaces are removed.
NormalizeSpaces(t, ignore, caseless, spaceless) ==
    LET lower == IF caseless THEN LowerAll(t) ELSE t
    IN  SelectSeq(lower, LAMBDA c: c \notin ignore /\ ~(spaceless /\ c = Space))
Normalize(t, ignore, caseless, spaceless) ==
    LET lower == IF caseless THEN LowerAll(t) ELSE t
    IN  SelectSeq(lower, LAMBDA c: c \notin ignore /\ ~(spaceless /\ c \in Whitespace))
Normal(t) == Normalize(t, {}, TRUE, TRUE)
Eq(s, t) == Normal(s) = Normal(t)

\* A regular expression of "any" for *, "one" for ? and literal characters
\* matches if the text can be cut into parts that match its items.
MatchRegexp(pattern) ==
    [i \in DOMAIN pattern |-> CASE pattern[i] = "*" -> "any" [] pattern[i] = "?" -> "one" [] OTHER -> pattern[i]]
FullMatch(regexp, t) ==
    LET n == Len(regexp)
        from[i \in 0..n] == \* where the part after item i can begin
            IF i = 0 THEN {0}
            ELSE LET before == from[i - 1]
                 IN  CASE regexp[i] = "any" -> UNION {b..Len(t): b \in before}
                       [] regexp[i] = "one" -> {b + 1: b \in {c \in before: c < Len(t)}}
                       [] OTHER -> {b + 1: b \in {c \in before: c < Len(t) /\ t[c + 1] = regexp[i]}}
    IN  Len(t) \in from[n]
\* $ matches at the end and before a newline at the end.
RegexpMatches(regexp, t) ==
    \/ FullMatch(regexp, t)
    \/ t # <<>> /\ Last(t) = Newline /\ FullMatch(regexp, Front(t))
Matches(t, pattern, caseless, spaceless) ==
    RegexpMatches(MatchRegexp(Normalize(pattern, {}, caseless, spaceless)),
                  Normalize(t, {}, caseless, spaceless))
ShouldMatch(t, pattern) == Matches(t, pattern, FALSE, FALSE)

------------------------------------------------------------------------------
(***************************************************************************)
(* escaping.py: n stands for the letter, which is a newline when escaped.  *)
(***************************************************************************)
Backslash == "\\"
StartsEscaped(t, i) ==
    \/ t[i] \in {Backslash, "="}
    \/ t[i] \in {"$", "@"} /\ i < Len(t) /\ t[i + 1] = "{"
Escape(t) == FlattenSeq([i \in DOMAIN t |-> IF StartsEscaped(t, i) THEN <<Backslash, t[i]>> ELSE <<t[i]>>])

\* Half of the backslashes before a character remain, an odd one escapes it,
\* and a space after an escaped n is taken away.
Backslashes(t, i) == \* how many there are just before i
    i - 1 - Max({0} \cup {j \in 1..(i - 1): t[j] # Backslash})
Escaped(t, i) == Backslashes(t, i) % 2 = 1
Unescape(t) ==
    FlattenSeq([i \in 1..(Len(t) + 1) |->
        [j \in 1..(IF i <= Len(t) /\ t[i] = Backslash THEN 0 ELSE Backslashes(t, i) \div 2) |-> Backslash]
        \o CASE i > Len(t) \/ (i <= Len(t) /\ t[i] = Backslash) -> <<>>
             [] t[i] = "n" /\ Escaped(t, i) -> <<Newline>>
             [] t[i] = Space /\ i > 1 /\ t[i - 1] = "n" /\ Escaped(t, i - 1) -> <<>>
             [] OTHER -> <<t[i]>>])

------------------------------------------------------------------------------
(***************************************************************************)
(* Finding texts in texts. Python looks for them from the left, and they   *)
(* do not overlap.                                                         *)
(***************************************************************************)
IsAt(t, part, i) == i + Len(part) - 1 <= Len(t) /\ SubSeq(t, i, i + Len(part) - 1) = part
StartsWith(t, part) == IsAt(t, part, 1)
EndsWith(t, part) == Len(part) <= Len(t) /\ IsAt(t, part, Len(t) - Len(part) + 1)
ContainsText(t, part) == \E i \in 1..(Len(t) + 1): IsAt(t, part, i)

\* Splitting at a separator, at most n times (or always, when n < 0): parts[i]
\* are the parts of the text from i on.
All == -1
PartsFrom(t, separator, n) ==
    LET parts[i \in 1..(Len(t) + 1), left \in -1..Len(t)] ==
            LET found == {j \in i..Len(t): IsAt(t, separator, j)}
                at == Min(found)
            IN  IF found = {} \/ left = 0 THEN <<SubSeq(t, i, Len(t))>>
                ELSE <<SubSeq(t, i, at - 1)>> \o parts[at + Len(separator), IF left < 0 THEN left ELSE left - 1]
    IN  parts[1, n]
SplitString(t, separator, n) == PartsFrom(t, separator, IF n > Len(t) THEN Len(t) ELSE n)
GetCount(t, part) == Len(SplitString(t, part, All)) - 1
GetLength(t) == Len(t)
IsEmpty(t) == GetLength(t) = 0

Mirrored(parts) == Reverse([i \in DOMAIN parts |-> Reverse(parts[i])])
SplitStringFromRight(t, separator, n) == Mirrored(SplitString(Reverse(t), separator, n))
FetchFromLeft(t, marker) == Head(SplitString(t, marker, All))
FetchFromRight(t, marker) == Last(SplitString(t, marker, All))
Joined(parts, separator) == FlattenSeq([i \in DOMAIN parts |-> IF i = 1 THEN parts[i] ELSE separator \o parts[i]])
Catenate(items, separator) == Joined(items, separator)
ReplaceString(t, part, with, n) == Joined(SplitString(t, part, n), with)

\* Lines end at newlines, and there is no line after the last one.
SplitLines(t) ==
    LET lines == SplitString(t, <<Newline>>, All) IN IF Last(lines) = <<>> THEN Front(lines) ELSE lines
LineCount(t) == Len(SplitLines(t))
MatchingLines(lines) == Joined(lines, <<Newline>>)
LinesContaining(t, part, insensitive) ==
    MatchingLines(SelectSeq(SplitLines(t), LAMBDA line:
        IF insensitive THEN ContainsText(LowerAll(line), LowerAll(part)) ELSE ContainsText(line, part)))
LinesMatchingPattern(t, pattern) ==
    MatchingLines(SelectSeq(SplitLines(t), LAMBDA line: FullMatch(MatchRegexp(pattern), line)))
IsLowercase(t) == LowerAll(t) = t /\ Range(t) \cap {"a", "b", "n"} # {}
IsUppercase(t) == Range(t) \cap {"a", "b", "n"} = {} /\ LowerAll(t) # t
Substring(t, start, end) ==
    LET Place(i) == IF i < 0 THEN Max({i + Len(t), 0}) ELSE Min({i, Len(t)})
    IN  SubSeq(t, Place(start) + 1, Place(end))

------------------------------------------------------------------------------
(***************************************************************************)
(* NormalizedDict. UserDict copies a plain dictionary as it is.            *)
(***************************************************************************)
With(f, k, v) == [x \in DOMAIN f \cup {k} |-> IF x = k THEN v ELSE f[x]]
Without(f, k) == [x \in DOMAIN f \ {k} |-> f[x]]
AddKey(nkey, key) == IF nkey \in DOMAIN keys THEN keys ELSE With(keys, nkey, key)

SetItem(key, value) ==
    /\ keys' = AddKey(Normal(key), key) /\ data' = With(data, Normal(key), value)
    /\ latest' = With(latest, Normal(key), value)
Forget(nkey) == data' = Without(data, nkey) /\ keys' = Without(keys, nkey)
DelItem(key) ==
    /\ Normal(key) \in DOMAIN data /\ Forget(Normal(key))
    /\ latest' = Without(latest, Normal(key))
Update(key, value) ==
    LET stored == IF PlainUpdates THEN key ELSE Normal(key) \* the keys of another NormalizedDict
    IN  /\ data' = With(data, stored, value) /\ keys' = AddKey(Normal(key), key)
        /\ latest' = With(latest, Normal(key), value)
HasKey(key) == Normal(key) \in DOMAIN data
GetItem(key) == data[Normal(key)]
KeysOf == {keys[nkey]: nkey \in DOMAIN keys}
Items == {<<key, GetItem(key)>>: key \in KeysOf}

AllTexts(n) == UNION {[1..m -> Characters]: m \in 0..n}
TextsInit == text \in AllTexts(MaxText) /\ other \in AllTexts(MaxOther) /\ data = <<>> /\ keys = <<>> /\ latest = <<>>
TextsNext ==
    /\ text = <<>> /\ other = <<>>
    /\ \/ \E key \in Keys, value \in {1, 2}: SetItem(key, value) \/ Update(key, value)
       \/ \E key \in Keys: DelItem(key)
    /\ UNCHANGED <<text, other>>
TextsSpec == TextsInit /\ [][TextsNext]_textVars

------------------------------------------------------------------------------
\* Names that are equal and names that match are the same thing when the
\* pattern has no wildcards, so that a tag or a test that is selected by name
\* is selected as a pattern, too; spellings of a text match the same patterns.
MatchingExtendsEquality ==
    /\ Range(other) \cap {"*", "?"} = {} => Matches(text, other, TRUE, TRUE) = Eq(text, other)
    /\ Eq(text, other) => Matches(text, Append(other, "*"), TRUE, TRUE)
    /\ Matches(Normal(text), LowerAll(other), FALSE, TRUE) = Matches(text, other, TRUE, TRUE)

\* Should Match fails, as its documentation says, "unless the given string
\* matches the given pattern": a pattern without wildcards matches itself.
ShouldMatchIsExact ==
    Range(other) \cap {"*", "?"} = {} /\ ShouldMatch(text, other) => text = other

\* What has been escaped is the same text again when it is unescaped, whatever
\* backslashes, variables and letters follow each other in it.
EscapingIsUndone == Unescape(Escape(text)) = text

\* The keywords that look for a text in a text agree with each other, however
\* it overlaps itself: what starts or ends with it contains it, and it is
\* found as often as it can be replaced, split at and taken from either side.
SearchesAgree ==
    LET count == GetCount(text, other)
        left == FetchFromLeft(text, other)
        mirrored == SplitStringFromRight(text, other, 1)
    IN  other # <<>> =>
        /\ StartsWith(text, other) \/ EndsWith(text, other) => ContainsText(text, other)
        /\ ContainsText(text, other) = (count > 0)
        /\ ReplaceString(text, other, other, All) = text
        /\ \A n \in 0..2: \A parts \in {SplitString(text, other, n)}:
               Catenate(parts, other) = text /\ Len(parts) = Min({n, count}) + 1
        /\ IsEmpty(ReplaceString(text, other, <<>>, All)) = (GetLength(text) = count * GetLength(other))
        /\ left = text \/ StartsWith(text, left \o other)
        /\ Len(other) = 1 =>
               /\ SplitStringFromRight(text, other, All) = SplitString(text, other, All)
               /\ Joined(mirrored, other) = text
               /\ Last(mirrored) = FetchFromRight(text, other)

\* Split String From Right is, as its documentation says, "same as Split
\* String" and differs "only when max_split is given".
SplittingIsTheSame ==
    other # <<>> => SplitStringFromRight(text, other, All) = SplitString(text, other, All)

\* The keywords about lines take lines and nothing else, and never a trailing
\* newline: all lines contain the empty text, and lines that contain a text
\* are found as lines with anything around it.
LinesAreWhole ==
    /\ LinesContaining(text, <<>>, FALSE) = (IF text # <<>> /\ Last(text) = Newline THEN Front(text) ELSE text)
    /\ Range(other) \cap {"*", "?"} = {} =>
           LinesContaining(text, other, FALSE) = LinesMatchingPattern(text, <<"*">> \o other \o <<"*">>)
    /\ other # <<>> /\ Newline \notin Range(other) =>
           LineCount(text \o other) = LineCount(text) + (IF text = <<>> \/ Last(text) = Newline THEN 1 ELSE 0)
    /\ IsLowercase(text) => LinesContaining(text, other, TRUE) = LinesContaining(text, LowerAll(other), FALSE)
    /\ IsUppercase(text) /\ Newline \notin Range(text) => ~IsLowercase(text) /\ LinesContaining(text, LowerAll(text), TRUE) = text
    /\ other = <<>> => \A i \in -MaxText..MaxText: i < Len(text) => \* once for each text
           Substring(text, 0, i) \o Substring(text, i, Len(text)) = text

\* A NormalizedDict has one key and one value for all spellings of a key: the
\* value that was set last, and a key that finds it.
SpellingsAreOneKey ==
    /\ \A key \in Keys: HasKey(key) = (Normal(key) \in DOMAIN latest)
    /\ \A key \in Keys: HasKey(key) => GetItem(key) = latest[Normal(key)]
    /\ Cardinality(KeysOf) = Cardinality(DOMAIN latest)
    /\ \A item \in Items: item[1] \in Keys /\ item[2] = latest[Normal(item[1])]
=============================================================================
