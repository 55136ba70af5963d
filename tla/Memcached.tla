------------------------------ MODULE Memcached ----------------------------
(***************************************************************************)
(* store/memcached/store.rs.  The mutex around the client keeps the calls   *)
(* of one process apart, not those of others: every task has a client of    *)
(* its own.                                                                 *)
(***************************************************************************)
EXTENDS LocalLoop

\* memcached_key, for every key, before the first request.
McRefuse(t) == LocalRefuse(t, TRUE)

\* get, gets: all keys at once.  What had expired is deleted by its name.
McFetch(t, op) ==
    /\ \/ /\ At(t, {op}, "begin") /\ ~LocalRejects(t, TRUE) /\ UNCHANGED db
          /\ Fetch(t, \A s \in Target(t) : db[s].sound)
       \/ /\ At(t, {op}, "expiring")
          /\ \E s \in todo[t] :
               /\ db' = Without({s})
               /\ Goto(t, IF todo[t] = {s} THEN "ok" ELSE "expiring", Nothing, todo[t] \ {s}, found[t])
    /\ UNCHANGED rest /\ LocalPlain

McGet(t) == McFetch(t, "get")
McTtl(t) == McFetch(t, "ttl")
McGetMany(t) == McFetch(t, "get_many")
McTtlMany(t) == McFetch(t, "ttl_many")

\* The entries of a batch are prepared, then set one by one.
McOpen(t) ==
    /\ At(t, Writes \cup Deletes, "begin") /\ ~LocalRejects(t, TRUE)
    /\ Loop(t, "ok")
    /\ UNCHANGED db /\ LocalPlain

McSet(t, op) ==
    /\ At(t, {op}, "item")
    /\ db' = [db EXCEPT ![NextSlot(t)] = NewDoc(t, NextPosition(t), since[t])]
    /\ Advance(t, "ok", found[t])
    /\ LocalPlain

McPut(t) == McSet(t, "put")
McPutMany(t) == McSet(t, "put_many")
McDelete(t) == At(t, {"delete"}, "item") /\ RemoveNext(t) /\ LocalPlain
McDeleteMany(t) == At(t, {"delete_many"}, "item") /\ RemoveNext(t) /\ LocalPlain

\* destroy: flush_all
McDestroy(t) ==
    /\ At(t, {"destroy"}, "begin")
    /\ db' = Nothing
    /\ Return(t, "ok")
    /\ UNCHANGED rest /\ LocalPlain

\* The server counts whole seconds of a TTL from which the fraction has been cut: an
\* entry may go a unit of time before it expires, or later.
McServerExpires ==
    /\ \E s \in Slots : Present(db[s]) /\ ExpiredAt(db[s], now + 1) /\ db' = Without({s})
    /\ UNCHANGED <<made, alien, clientVars, now, taskVars>>

McNext(t) ==
    \/ McRefuse(t) \/ McGet(t) \/ McTtl(t) \/ McGetMany(t) \/ McTtlMany(t) \/ McOpen(t)
    \/ McPut(t) \/ McPutMany(t) \/ McDelete(t) \/ McDeleteMany(t) \/ McDestroy(t)
=============================================================================
