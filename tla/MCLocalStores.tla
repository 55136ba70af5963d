--------------------------- MODULE MCLocalStores ---------------------------
(* An instance of LocalStores for TLC. *)
EXTENDS LocalStores, TLC

CONSTANTS t1, t2, c1, c2, k1, k2, long

MCTasks == {t1, t2}
MCSymmetry == Permutations(MCTasks)

MCSlots == {<<c1, k1>>, <<c1, k2>>, <<c2, k1>>}

\* Entries that stay, expire, and do not decode.
Stays == [Empty EXCEPT !.writer = <<NoTask, 1>>]
Expires == [Stays EXCEPT !.expires = 1]
Corrupt == [Stays EXCEPT !.sound = FALSE]

MCStores ==
    LET Holding(d1, d2, d3) == (<<c1, k1>> :> d1) @@ (<<c1, k2>> :> d2) @@ (<<c2, k1>> :> d3)
        contents ==
            {Nothing, Holding(Expires, Expires, Stays), Holding(Stays, Empty, Stays),
             Holding(Corrupt, Stays, Empty)}
    IN  {[db |-> d, alien |-> {}] : d \in contents}
            \cup {[db |-> Holding(Stays, Empty, Stays), alien |-> {c1}]}

C(op, c, keys, ttl, limit) == [op |-> op, coll |-> c, keys |-> keys, ttl |-> ttl, limit |-> limit]
Keyed(op, keys) == C(op, c1, keys, NoTtl, NoLimit)
All(op, limit) == C(op, c1, <<>>, NoTtl, limit)

MCCalls ==
    {Keyed("get", <<k1>>), Keyed("ttl", <<k1>>), Keyed("get_many", <<k1, k2>>), Keyed("ttl_many", <<k1, k1>>),
     Keyed("put", <<k1>>), C("put", c1, <<k1>>, 1, NoLimit), C("put", c1, <<k1>>, MaxTime + 1, NoLimit),
     C("put", c2, <<k1>>, NoTtl, NoLimit),
     Keyed("put_many", <<k1, k2>>), Keyed("put_many", <<k1, k1>>), Keyed("put_many", <<k1, long>>),
     Keyed("put_many", <<>>),
     Keyed("delete", <<k1>>), Keyed("delete_many", <<k1, k2>>)}
    \cup {All(op, NoLimit) : op \in {"cull", "keys", "collections", "destroy_collection", "destroy"}}
    \cup {All("keys", 1), All("collections", 1)}
=============================================================================
