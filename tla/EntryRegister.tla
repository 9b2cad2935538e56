---------------------------- MODULE EntryRegister ----------------------------
(***************************************************************************)
(* What the rows of entries_v1 promise (tagsyd/src/store/entries.rs): a    *)
(* row of a device is always something that was written somewhere, and     *)
(* only something later ever takes its place.                              *)
(***************************************************************************)
EXTENDS Naturals

CONSTANTS Device, Relation, Stamp

VARIABLES
    entry,    \* [Device -> [Relation -> Row]]
    written   \* everything that was written, on any device

vars == <<entry, written>>

Row == [deleted : BOOLEAN, at : Stamp \cup {0}]

NoRow == [deleted |-> FALSE, at |-> 0]

Fact == [relation : Relation, deleted : BOOLEAN, at : Stamp]

RowOf(fact) == [deleted |-> fact.deleted, at |-> fact.at]

Init == /\ entry = [d \in Device |-> [r \in Relation |-> NoRow]]
        /\ written = {}

\* A user tags or untags; no two facts have the same stamp.
Assert(fact) ==
    /\ \A other \in written : other.at # fact.at
    /\ written' = written \cup {fact}
    /\ UNCHANGED entry

\* A device takes a fact later than the one it holds.
Learn(d, fact) ==
    /\ fact \in written
    /\ fact.at > entry[d][fact.relation].at
    /\ entry' = [entry EXCEPT ![d][fact.relation] = RowOf(fact)]
    /\ UNCHANGED written

Next == \E fact \in Fact : Assert(fact) \/ \E d \in Device : Learn(d, fact)

Spec == Init /\ [][Next]_vars
=============================================================================
