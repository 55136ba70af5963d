--------------------------- MODULE MCServerFeed ----------------------------
(* Small instances of ServerFeed for TLC. *)
EXTENDS ServerFeed

CONSTANTS c1, w1, w2, s1

MCRevisions == 1 .. MaxRevision

MCStarts == [kind : {"Beginning", "Latest", "Malformed"}, cursor : {0}]
    \cup [kind : {"After"}, cursor : {1}]

MCFilters == {[collections |-> {}, operations |-> {"Put"}]}
MCNoFilter == {DefaultFilter}
=============================================================================
