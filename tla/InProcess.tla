----------------------------- MODULE InProcess -----------------------------
(***************************************************************************)
(* store/simple/store.rs and store/null/store.rs.  The simple store is a    *)
(* map of maps behind one lock held for all of a call, which is therefore   *)
(* one step.  made holds the collections that have a map.  The null store   *)
(* keeps nothing.                                                           *)
(***************************************************************************)
EXTENDS ServerStore

SimpleStep == UNCHANGED <<alien, known, lock, now, rest>>
SimpleQuiet == UNCHANGED <<made, names>> /\ SimpleStep

SimpleRefuse(t) ==
    /\ At(t, Writes, "begin") /\ ~ValidTtl(call[t].ttl)
    /\ Return(t, "invalid")
    /\ UNCHANGED db /\ SimpleQuiet

\* In memory every entry is sound.
SimpleRead(t, op) ==
    At(t, {op}, "begin") /\ Answer(t, Of(LiveOf(Target(t)))) /\ UNCHANGED db /\ SimpleQuiet

SimpleGet(t) == SimpleRead(t, "get")
SimpleTtl(t) == SimpleRead(t, "ttl")
SimpleGetMany(t) == SimpleRead(t, "get_many")
SimpleTtlMany(t) == SimpleRead(t, "ttl_many")

SimpleWrite(t, op) ==
    /\ At(t, {op}, "begin") /\ ValidTtl(call[t].ttl)
    /\ db' = Stored(Target(t), Prepared(t))
    /\ made' = made \cup {call[t].coll}
    /\ Return(t, "ok")
    /\ UNCHANGED names /\ SimpleStep

SimplePut(t) == SimpleWrite(t, "put")
SimplePutMany(t) == SimpleWrite(t, "put_many")

\* Expired entries are counted.
SimpleRemove(t, op) ==
    /\ At(t, {op}, "begin")
    /\ db' = Without(Target(t))
    /\ Answer(t, Of(Target(t)))
    /\ SimpleQuiet

SimpleDelete(t) == SimpleRemove(t, "delete")
SimpleDeleteMany(t) == SimpleRemove(t, "delete_many")

SimpleCull(t) ==
    /\ At(t, {"cull"}, "begin")
    /\ db' = Without(ExpiredOf(Slots))
    /\ Return(t, "ok")
    /\ SimpleQuiet

\* Expired keys are listed too.
SimpleKeys(t) ==
    /\ At(t, {"keys"}, "begin")
    /\ \E S \in Limited({s \in In(call[t].coll) : Present(db[s])}, call[t].limit) : Answer(t, Of(S))
    /\ UNCHANGED db /\ SimpleQuiet

SimpleCollections(t) ==
    /\ At(t, {"collections"}, "begin")
    /\ \E N \in Limited(made, call[t].limit) : names' = [names EXCEPT ![t] = N]
    /\ Return(t, "ok")
    /\ UNCHANGED <<db, made>> /\ SimpleStep

SimpleDestroyCollection(t) ==
    /\ At(t, {"destroy_collection"}, "begin")
    /\ db' = Without(In(call[t].coll))
    /\ made' = made \ {call[t].coll}
    /\ Return(t, "ok")
    /\ UNCHANGED names /\ SimpleStep

SimpleDestroy(t) ==
    /\ At(t, {"destroy"}, "begin")
    /\ db' = Nothing
    /\ made' = {}
    /\ Return(t, "ok")
    /\ UNCHANGED names /\ SimpleStep

SimpleNext(t) ==
    \/ SimpleRefuse(t) \/ SimpleGet(t) \/ SimpleTtl(t) \/ SimpleGetMany(t) \/ SimpleTtlMany(t)
    \/ SimplePut(t) \/ SimplePutMany(t) \/ SimpleDelete(t) \/ SimpleDeleteMany(t) \/ SimpleCull(t)
    \/ SimpleKeys(t) \/ SimpleCollections(t) \/ SimpleDestroyCollection(t) \/ SimpleDestroy(t)

\* The null store accepts what is valid and has nothing to say.
NullNext(t) ==
    /\ pc[t] = "begin"
    /\ Return(t, IF Doing(t, Writes) /\ ~ValidTtl(call[t].ttl) THEN "invalid" ELSE "ok")
    /\ UNCHANGED db /\ SimpleQuiet
=============================================================================
