-------------------------------- MODULE Paging --------------------------------
(***************************************************************************)
(* The reading of one raw result in pages while the provider's table may   *)
(* change: pages are asked by offset until one is short, keys are checked  *)
(* across pages, and any failing check fails the whole seal.               *)
(***************************************************************************)
EXTENDS Naturals, Sequences

CONSTANTS
    MaxKeys,    \* bound: natural keys of rows
    Limit,      \* row_limit: the provider never gives more rows at once
    MaxChanges, \* bound: changes of the table while it is read
    None

VARIABLES
    offsets,    \* split_policy is OFFSET
    source,     \* the provider's table, in its order
    rows,       \* the rows the stream yielded
    last,       \* number of rows of the last page, None before the first
    outcome,    \* None, "sealed", "empty" or an error code
    before,     \* history: the table when the first page was read
    changes     \* history: "insert" and "delete" while it was read

vars == <<offsets, source, rows, last, outcome, before, changes>>

Keys == 1 .. MaxKeys
Distinct(s) == \A i, j \in DOMAIN s : s[i] = s[j] => i = j
Elements(s) == {s[i] : i \in DOMAIN s}

TypeOK ==
    /\ offsets \in BOOLEAN
    /\ Elements(source) \subseteq Keys /\ Distinct(source)
    /\ Elements(rows) \subseteq Keys
    /\ last \in 0 .. Limit \cup {None}
    /\ outcome \in {None, "sealed", "empty", "DUPLICATE_NATURAL_KEY", "RESULT_MAY_BE_TRUNCATED"}
    /\ Elements(changes) \subseteq {"insert", "delete"}

Init ==
    /\ offsets \in BOOLEAN
    /\ \E n \in 0 .. MaxKeys : source = [i \in 1 .. n |-> i]
    /\ rows = <<>>
    /\ last = None
    /\ outcome = None
    /\ before = <<>>
    /\ changes = <<>>

-----------------------------------------------------------------------------
(* The provider's table.                                                   *)

Reading == outcome = None /\ last # None /\ Len(changes) < MaxChanges

Insert(key, i) ==
    /\ Reading
    /\ key \notin Elements(source)
    /\ source' = SubSeq(source, 1, i) \o <<key>> \o SubSeq(source, i + 1, Len(source))
    /\ changes' = Append(changes, "insert")
    /\ UNCHANGED <<offsets, rows, last, outcome, before>>

Delete(i) ==
    /\ Reading
    /\ source' = SubSeq(source, 1, i - 1) \o SubSeq(source, i + 1, Len(source))
    /\ changes' = Append(changes, "delete")
    /\ UNCHANGED <<offsets, rows, last, outcome, before>>

-----------------------------------------------------------------------------
(* _table_stream.                                                          *)

Least(a, b) == IF a < b THEN a ELSE b

Offset == Len(rows)

\* _query_page: limit and offset are only sent for OFFSET; the provider cuts anyway.
Page == SubSeq(source, Offset + 1, Least(Offset + Limit, Len(source)))

\* _validate_table, with the keys seen in earlier pages.
Validated(table) == Distinct(rows \o table)

\* The first page; an empty one is for _handle_empty.
FirstPage ==
    /\ last = None
    /\ outcome = None
    /\ last' = Len(Page)
    /\ rows' = Page
    /\ outcome' = IF Page = <<>> THEN "empty" ELSE None
    /\ before' = source
    /\ UNCHANGED <<offsets, source, changes>>

\* Without paging a full page may be a part.
Whole ==
    /\ ~offsets
    /\ last # None /\ outcome = None
    /\ outcome' = IF last >= Limit THEN "RESULT_MAY_BE_TRUNCATED" ELSE "sealed"
    /\ UNCHANGED <<offsets, source, rows, last, before, changes>>

More == last = Limit

NextPage ==
    /\ offsets
    /\ last # None /\ outcome = None
    /\ More
    /\ last' = Len(Page)
    /\ IF Validated(Page)
       THEN rows' = rows \o Page /\ UNCHANGED outcome
       ELSE outcome' = "DUPLICATE_NATURAL_KEY" /\ UNCHANGED rows
    /\ UNCHANGED <<offsets, source, before, changes>>

Seal ==
    /\ offsets
    /\ last # None /\ outcome = None
    /\ ~More
    /\ outcome' = "sealed"
    /\ UNCHANGED <<offsets, source, rows, last, before, changes>>

Next ==
    \/ \E key \in Keys, i \in 0 .. Len(source) : Insert(key, i)
    \/ \E i \in DOMAIN source : Delete(i)
    \/ FirstPage \/ NextPage \/ Whole \/ Seal

Spec == Init /\ [][Next]_vars

-----------------------------------------------------------------------------
(* Properties.                                                             *)

\* A sealed result has no key twice; it is the table if that did not change, and has every
\* row the table had at the start if rows only came, wherever they went.
NothingMissed ==
    outcome = "sealed" =>
        /\ Distinct(rows)
        /\ changes = <<>> => rows = source
        /\ "delete" \notin Elements(changes) => Elements(before) \subseteq Elements(rows)
=============================================================================
