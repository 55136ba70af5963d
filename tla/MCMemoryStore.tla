--------------------------- MODULE MCMemoryStore ---------------------------
(***************************************************************************)
(* Small instances of MemoryStore for TLC.                                 *)
(***************************************************************************)
EXTENDS MemoryStore, TLC

CONSTANTS c1, c2, t1, t2, t3, s1

MCRevisions == 1 .. MaxRevision
MCStarts == [kind : {"Beginning", "Latest"}, cursor : {0}]
MCFilters == {DefaultFilter}

MCSeedNothing == {}
MCSeedOne == {<<c1, 1>>}
MCSeedTwo == {<<c1, 1>>, <<c1, 2>>}

MCNoTtl == {NoTtl}
MCTtls == {NoTtl, 1}
MCAllTtls == {-1, NoTtl, 1}

MCBeginning == [kind : {"Beginning"}, cursor : {0}]

TaskSymmetry == Permutations({t1, t2, t3} \cap Tasks)
=============================================================================
