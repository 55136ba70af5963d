---------------------------- MODULE MCMigration ----------------------------
(* Small instances of Migration for TLC. *)
EXTENDS Migration

CONSTANTS c1, c2, k1, k2

Same == [c \in Collections |-> {c}]

\* Everything, without TTLs; one collection under another name, with TTLs; and in place.
MCJobs == {
    [kind |-> "copy", collections |-> {}, renamed |-> Same, preserve |-> FALSE],
    [kind |-> "copy", collections |-> {c1}, preserve |-> TRUE,
     renamed |-> [c \in Collections |-> IF c = c1 THEN {c2} ELSE {}]],
    [kind |-> "keyspace", collections |-> {}, renamed |-> Same, preserve |-> TRUE],
    [kind |-> "keyspace", collections |-> {c1}, renamed |-> Same, preserve |-> FALSE]}

MCUsed == {<<c1, k1>>, <<c1, k2>>, <<c2, k1>>}

MCTTLs == {1, 3}
=============================================================================
