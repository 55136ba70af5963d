--------------------------- MODULE MCMemoryFeed ---------------------------
(***************************************************************************)
(* Small instances of MemoryFeed for TLC.                                  *)
(***************************************************************************)
EXTENDS MemoryFeed

CONSTANTS c1, c2, s1

MCRevisions == 1 .. MaxRevision

MCStarts == [kind : {"Beginning", "Latest", "Malformed"}, cursor : {0}]
    \cup [kind : {"After"}, cursor : 0 .. MaxRevision]

MCFilters == {DefaultFilter,
              [collections |-> {c1}, operations |-> {"Delete"}]}
=============================================================================
