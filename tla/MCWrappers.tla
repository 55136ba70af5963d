----------------------------- MODULE MCWrappers ------------------------------
EXTENDS Wrappers, TLC

CONSTANTS t1, t2, k1, k2

MCKinds == DOMAIN Wrapper
MCPrefix == <<1>>
\* Some names begin with the prefix, or look like a compound.
MCCollections == {None, <<1>>, <<1, 10>>}
MCKeys == {<<>>, <<1>>, <<10, 1>>, <<1, 1>>}
MCForeignPlaces == {<<1, <<1>>, <<11>>>>, <<1, Default, <<12>>>>}
MCTTLs == {NoTtl, 1, 9}
Item(c, k, v) == [name |-> <<c, k>>, value |-> v]
MCBatches ==
    {<<Item(c, k, "short")>> : c \in MCCollections, k \in MCKeys}
    \cup {<<Item(None, <<1>>, v)>> : v \in Values}
    \cup {<<Item(<<1>>, <<1>>, v), Item(<<1>>, <<1, 1>>, u)>> : v, u \in {"long", "marked"}}
    \cup {<<Item(None, <<1, 1>>, "short"), Item(None, <<>>, "short")>>}
MCCacheTtls == {1, Forever}
MCPutTtls == {1, Forever}

MCKeyLists == {<<k1>>, <<k2, k1>>}

MCSymmetry == Permutations({t1, t2})
=============================================================================
