------------------------------ MODULE Changes ------------------------------
(***************************************************************************)
(* The data of a change feed (change.rs), shared by the specification of   *)
(* what a feed promises and by the backends' feeds.                        *)
(***************************************************************************)
EXTENDS Naturals

CONSTANTS
    Collections,    \* names of collections
    Keys,           \* keys; a total order stands for the order of strings
    Revisions,      \* the revision numbers changes can carry
    Starts,         \* the ChangeStarts subscribers ask for
    Filters         \* the ChangeFilters subscribers ask for

ASSUME KeysAssumption == Keys \subseteq Nat
ASSUME RevisionsAssumption == Revisions \subseteq Nat \ {0}

ChangeOperation == {"Put", "Delete"}

\* A change's cursor is its revision printed; occurred_at is left out.
StoreChange ==
    [revision : Revisions, collection : Collections, key : Keys, operation : ChangeOperation]

\* Where a subscription starts.  "Malformed" is After with a cursor that is not
\* the text of a revision.
ChangeStart == [kind : {"Beginning", "Latest", "After", "Malformed"}, cursor : Revisions \cup {0}]

DefaultStart == [kind |-> "Latest", cursor |-> 0]

\* An empty component of a filter lets everything through.
ChangeFilter == [collections : SUBSET Collections, operations : SUBSET ChangeOperation]

DefaultFilter == [collections |-> {}, operations |-> {}]

Matches(f, change) ==
    /\ f.collections = {} \/ change.collection \in f.collections
    /\ f.operations = {} \/ change.operation \in f.operations

\* What subscribers ask for.
ASSUME RequestsAssumption == Starts \subseteq ChangeStart /\ Filters \subseteq ChangeFilter
=============================================================================
