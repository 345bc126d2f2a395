----------------------------- MODULE Collections -----------------------------
(***************************************************************************)
(* The keywords of the Collections library on a list and a dictionary that *)
(* they change, and another list and dictionary they are compared with.    *)
(*                                                                         *)
(* Values are numbers, of which Empty stands for the empty string. Python  *)
(* counts indexes from 0, and negative ones from the end of the list.      *)
(***************************************************************************)
EXTENDS Integers, Sequences, FiniteSets, SequencesExt, FiniteSetsExt

CONSTANTS ItemValues,    \* values of items and keys, numbers
          MaxLength  \* bound: items in a list
ASSUME ValuesAssumption == ItemValues \subseteq Nat /\ 0 \in ItemValues /\ MaxLength \in Nat

VARIABLES list, other, dict, dict2
collectionVars == <<list, other, dict, dict2>>

Empty == 0
Lists == UNION {[1..n -> ItemValues]: n \in 0..MaxLength}
Dicts == UNION {[K -> ItemValues]: K \in SUBSET ItemValues}
Indexes == (-MaxLength - 1)..(MaxLength + 1)

------------------------------------------------------------------------------
(***************************************************************************)
(* Lists.                                                                  *)
(***************************************************************************)
\* Python's positions: i is an index of an item, or a place between items.
IsIndex(l, i) == -Len(l) <= i /\ i < Len(l)
Position(l, i) == IF i < 0 THEN i + Len(l) + 1 ELSE i + 1
Place(l, i) == IF i < 0 THEN Max({i + Len(l), 0}) ELSE Min({i, Len(l)})

InsertIntoList(l, i, v) == SubSeq(l, 1, Place(l, i)) \o <<v>> \o SubSeq(l, Place(l, i) + 1, Len(l))
SetListValue(l, i, v) == [l EXCEPT ![Position(l, i)] = v]
GetFromList(l, i) == l[Position(l, i)]
\* Mutant: negative indexes count from one.
RemoveFromListOff(l, i) == RemoveAt(l, IF i < 0 THEN Max({i + Len(l), 1}) ELSE i + 1)
RemoveFromList(l, i) == RemoveAt(l, Position(l, i))
RemoveValuesFromList(l, values) == SelectSeq(l, LAMBDA v: v \notin values)
GetSlice(l, start, end) == SubSeq(l, Place(l, start) + 1, Place(l, end))
CountValues(l, v, start, end) == Len(SelectSeq(GetSlice(l, start, end), LAMBDA w: w = v))

NotFound == -1
GetIndexFromList(l, v, start, end) ==
    LET slice == GetSlice(l, start, end)
    IN  IF v \in Range(slice) THEN start + SelectInSeq(slice, LAMBDA w: w = v) - 1 ELSE NotFound

HasDuplicates(l) == \E v \in Range(l): CountValues(l, v, 0, Len(l)) > 1
ListsAreEqual(l, m) == Len(l) = Len(m) /\ \A i \in 1..Len(l): l[i] = m[i]

\* The values that are missing are joined, and nothing is missing when the
\* result is empty.
ContainsSubList(l, m) ==
    LET missing == SelectSeq(m, LAMBDA v: v \notin Range(l))
    IN  missing \in {<<>>, <<Empty>>}

------------------------------------------------------------------------------
(***************************************************************************)
(* Dictionaries.                                                           *)
(***************************************************************************)
SetToDictionary(d, pairs) ==
    FoldLeft(LAMBDA e, p: [k \in DOMAIN e \cup {p[1]} |-> IF k = p[1] THEN p[2] ELSE e[k]], d, pairs)
CreateDictionary(pairs) == SetToDictionary(<<>>, pairs)
RemoveFromDictionary(d, keys) == [k \in DOMAIN d \ keys |-> d[k]]
KeepInDictionary(d, keys) == RemoveFromDictionary(d, DOMAIN d \ keys)
DictionaryKeys(d) == SetToSortSeq(DOMAIN d, <)
DictionaryValues(d) == [i \in DOMAIN DictionaryKeys(d) |-> d[DictionaryKeys(d)[i]]]
DictionaryItems(d) == [i \in DOMAIN DictionaryKeys(d) |-> <<DictionaryKeys(d)[i], DictionaryValues(d)[i]>>]

KeysAreEqual(d, e) == DOMAIN e \ DOMAIN d = {} /\ DOMAIN d \ DOMAIN e = {}
ValuesAreEqual(keys, d, e) == \A k \in keys: d[k] = e[k]
DictionariesAreEqual(d, e) == KeysAreEqual(d, e) /\ ValuesAreEqual(DOMAIN d, d, e)
ContainsSubDictionary(d, e) == DOMAIN e \ DOMAIN d = {} /\ ValuesAreEqual(DOMAIN e, d, e)

------------------------------------------------------------------------------
CollectionsInit == list = <<>> /\ dict = <<>> /\ other \in Lists /\ dict2 \in Dicts

ChangeList ==
    /\ list' \in UNION {
           {Append(list, v): v \in ItemValues},
           {InsertIntoList(list, i, v): i \in Indexes, v \in ItemValues},
           {SetListValue(list, i, v): i \in {i \in Indexes: IsIndex(list, i)}, v \in ItemValues},
           {RemoveFromList(list, i): i \in {i \in Indexes: IsIndex(list, i)}},
           {RemoveValuesFromList(list, {v}): v \in ItemValues},
           {Reverse(list), SortSeq(list, <), list \o other}}
    /\ Len(list') <= MaxLength
    /\ UNCHANGED <<other, dict, dict2>>

ChangeDictionary ==
    /\ dict' \in UNION {
           {SetToDictionary(dict, <<<<k, v>>>>): k, v \in ItemValues},
           {RemoveFromDictionary(dict, {k}): k \in ItemValues},
           {KeepInDictionary(dict, keys): keys \in SUBSET ItemValues}}
    /\ UNCHANGED <<list, other, dict2>>

CollectionsNext == ChangeList \/ ChangeDictionary
CollectionsSpec == CollectionsInit /\ [][CollectionsNext]_collectionVars

------------------------------------------------------------------------------
\* The keywords that take or give indexes mean the same items by them, from
\* whichever end they count: what was inserted before an item is got, counted
\* and found there and taken away again, and an index that is found in a
\* slice is that of the value in the whole list (_index_to_int is all the
\* checking there is; the start of the slice must be in the list).
IndexesAgree ==
    /\ \A i \in Indexes, v \in ItemValues:
           /\ i >= 0 /\ i <= Len(list) =>
                  LET new == InsertIntoList(list, i, v)
                  IN  /\ GetFromList(new, i) = v /\ RemoveFromList(new, i) = list
                      /\ RemoveFromList(new, i - Len(new)) = list
           /\ IsIndex(list, i) => SetListValue(InsertIntoList(RemoveFromList(list, i),
                                      Position(list, i) - 1, v), i, GetFromList(list, i)) = list
    /\ \A start, end \in Indexes, v \in ItemValues:
           LET found == GetIndexFromList(list, v, start, end)
           IN  /\ start >= 0 => (found = NotFound) = (CountValues(list, v, start, end) = 0)
               /\ -Len(list) <= start /\ CountValues(list, v, start, end) > 0 =>
                      GetFromList(list, found) = v

\* Get Index From List, as its documentation says, "returns -1" when "the
\* value is not found", and only then.
MinusOneIsNotFound ==
    \A start, end \in Indexes, v \in ItemValues:
        GetIndexFromList(list, v, start, end) = NotFound => v \notin Range(GetSlice(list, start, end))

\* List Should Contain Sub List, as its documentation says, "fails if not all
\* of the elements in list2 are found in list1".
SubListsAreFound == ContainsSubList(list, other) => Range(other) \subseteq Range(list)

\* Taking dictionaries apart and comparing them is exact: the items make the
\* same dictionary, keeping keys is removing the others, and the comparisons
\* pass exactly for equal dictionaries and for parts (_keys_should_be_equal,
\* whose result decides which keys are compared).
DictionariesAgree ==
    /\ CreateDictionary(DictionaryItems(dict)) = dict
    /\ \A keys \in SUBSET ItemValues: DOMAIN KeepInDictionary(dict, keys) = DOMAIN dict \cap keys
    /\ DictionariesAreEqual(dict, dict2) = (dict = dict2)
    /\ ContainsSubDictionary(dict, dict2) = (\A k \in DOMAIN dict2: k \in DOMAIN dict /\ dict[k] = dict2[k])
    /\ ListsAreEqual(list, other) = (list = other)
    /\ HasDuplicates(list) = (Cardinality(Range(list)) < Len(list))
=============================================================================
