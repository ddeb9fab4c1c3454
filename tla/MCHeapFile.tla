----------------------------- MODULE MCHeapFile -----------------------------
(***************************************************************************)
(* Small heaps for TLC.  A page has room for 12 bytes: a slot entry and a  *)
(* page ID are one byte each, so a tuple is at most 11 bytes and an        *)
(* overflow page holds a chunk of 10.                                      *)
(***************************************************************************)
EXTENDS HeapFile

row(id, base, texts) == [id |-> id, base |-> base, texts |-> texts, valid |-> TRUE]

\* Rows without TEXT: two fill a page, or one of them and a longer one do
\* once a deleted row is compacted away; a row too large for any page; and a
\* row validateRow rejects.
InlineRows ==
    {row("small", 4, <<>>), row("large", 7, <<>>), row("huge", 12, <<>>),
     [row("invalid", 4, <<>>) EXCEPT !.valid = FALSE]}

\* Spilled texts that leave no room for a tuple on the last page of their
\* chain: two full chunks; a full one and one a byte short; two columns, of
\* which the second is spilled only because the first does not save enough.
TightRows ==
    {row("inline", 3, <<5>>), row("two", 3, <<20>>), row("cols", 2, <<10, 19>>)}

\* Spilled texts of arbitrary length.
LooseRows ==
    {row("inline", 3, <<5>>), row("spilled", 3, <<12>>)}

\* The same, and a row validateRow rejects.
RejectedRows ==
    TightRows \cup {[row("invalid", 3, <<5>>) EXCEPT !.valid = FALSE]}

NoCrash == {}
CrashButOpen == {"idle", "Insert", "Delete", "Update"}

useOf(R, pages, n, crash) ==
    [rows |-> R, maxPages |-> pages, maxCalls |-> n, crash |-> crash, afterClose |-> FALSE]

InlineUse == useOf(InlineRows, 5, 6, CrashButOpen)
SpillUse == useOf(TightRows, 8, 5, NoCrash)
LooseUse == useOf(LooseRows, 6, 4, NoCrash)

InlineAndSpill == {InlineUse, SpillUse}
OnlyLoose == {LooseUse}

\* Situations in which a property fails (README).
LooseTwice == {[LooseUse EXCEPT !.maxCalls = 5]}
Rejected == {[SpillUse EXCEPT !.rows = RejectedRows]}
InsertCrash == {[SpillUse EXCEPT !.crash = {"Insert"}]}
OpenCrash == {[InlineUse EXCEPT !.crash = {"Open"}]}
AfterClose == {[InlineUse EXCEPT !.afterClose = TRUE]}
=============================================================================
