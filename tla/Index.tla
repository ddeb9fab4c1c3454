------------------------------- MODULE Index --------------------------------
(***************************************************************************)
(* The tree of an index (storage/index.go) as the set of its entries, with  *)
(* the order of compareIndexEntry, and the searches on it.                  *)
(***************************************************************************)
EXTENDS Record

\* RIDs are at least 1, so that the pivot [v, rid 0] is below every entry of v.
entry(v, r) == [value |-> v, rid |-> r]
pivot(v) == entry(v, 0)

compareIndexEntry(a, b) ==
    LET c == CompareValues(a.value, b.value)
    IN  IF c # 0 THEN c < 0 ELSE a.rid < b.rid

Ascend(tree) == SetToSortSeq(tree, compareIndexEntry)
AscendGreaterOrEqual(tree, p) == Ascend({e \in tree : ~compareIndexEntry(e, p)})

\* The longest prefix whose elements satisfy Test: an iteration that stops at the
\* first entry for which the callback returns false.
TakeWhile(s, Test(_)) ==
    LET stop == SelectInSeq(s, LAMBDA e : ~Test(e))
    IN  IF stop = 0 THEN s ELSE SubSeq(s, 1, stop - 1)

----------------------------------------------------------------------------
\* Operations on the tree

Lookup(tree, v) ==
    LET same == TakeWhile(AscendGreaterOrEqual(tree, pivot(v)),
                          LAMBDA e : CompareValues(e.value, v) = 0)
    IN  [i \in DOMAIN same |-> same[i].rid]

\* Mutant: the upper bound is exclusive.
RangeScan_Exclusive(tree, lo, hi) ==
    TakeWhile(IF lo = NoBound THEN Ascend(tree) ELSE AscendGreaterOrEqual(tree, pivot(lo)),
              LAMBDA e : hi = NoBound \/ CompareValues(e.value, hi) < 0)

RangeScan(tree, lo, hi) ==
    TakeWhile(IF lo = NoBound THEN Ascend(tree) ELSE AscendGreaterOrEqual(tree, pivot(lo)),
              LAMBDA e : hi = NoBound \/ CompareValues(e.value, hi) <= 0)

\* Only the first entry at or above the pivot is looked at.
Violates(tree, v, r) ==
    LET from == AscendGreaterOrEqual(tree, pivot(v))
    IN  from # <<>> /\ CompareValues(from[1].value, v) = 0 /\ from[1].rid # r

\* Entries of the same place in the order are one entry.
ReplaceOrInsert(tree, e) ==
    {x \in tree : compareIndexEntry(x, e) \/ compareIndexEntry(e, x)} \cup {e}

\* Mutant: every entry of the value is removed.
TreeDelete_ByValue(tree, e) == {x \in tree : CompareValues(x.value, e.value) # 0}

TreeDelete(tree, e) == {x \in tree : compareIndexEntry(x, e) \/ compareIndexEntry(e, x)}
=============================================================================
