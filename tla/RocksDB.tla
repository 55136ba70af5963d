------------------------------ MODULE RocksDB ------------------------------
(***************************************************************************)
(* store/rocksdb/store.rs: one key space for all collections.  A batch is   *)
(* written at once, and an iterator shows the database as it was when it    *)
(* was made.                                                                *)
(***************************************************************************)
EXTENDS LocalLoop

RocksStep == UNCHANGED rest /\ LocalPlain

RocksRefuse(t) == LocalRefuse(t, FALSE)

\* get_entry, multi_get: the keys of a batch one after the other.
RocksOpen(t) ==
    /\ At(t, LocalReads \cup Deletes, "begin")
    /\ Loop(t, IF Doing(t, Deletes) THEN "writing" ELSE "ok")
    /\ UNCHANGED db /\ LocalPlain

RocksGet(t) == At(t, {"get"}, "item") /\ ReadNext(t) /\ LocalPlain
RocksTtl(t) == At(t, {"ttl"}, "item") /\ ReadNext(t) /\ LocalPlain
RocksGetMany(t) == At(t, {"get_many"}, "item") /\ ReadNext(t) /\ LocalPlain
RocksTtlMany(t) == At(t, {"ttl_many"}, "item") /\ ReadNext(t) /\ LocalPlain

RocksPut(t) ==
    /\ At(t, {"put"}, "begin") /\ ~LocalRejects(t, FALSE)
    /\ db' = Stored(Target(t), Prepared(t))
    /\ Return(t, "ok") /\ RocksStep

\* put_many: one WriteBatch.
RocksPutMany(t) ==
    /\ At(t, {"put_many"}, "begin") /\ ~LocalRejects(t, FALSE)
    /\ db' = Stored(Target(t), Prepared(t))
    /\ Return(t, "ok") /\ RocksStep

\* key_may_exist, then the deletion: a key that is not there may be counted.
RocksMayExist(t) ==
    LET s == NextSlot(t)
        guess == [Empty EXCEPT !.writer = <<t, 0>>]
    IN  /\ \E d \in IF Present(db[s]) THEN {db[s]} ELSE {Empty, guess} :
             Advance(t, "writing", IF d = Empty THEN found[t] ELSE [found[t] EXCEPT ![s] = d])
        /\ UNCHANGED db

RocksDeleteEither(t, op) ==
    \/ At(t, {op}, "item") /\ RocksMayExist(t) /\ LocalPlain
    \/ At(t, {op}, "writing") /\ db' = Without(Target(t)) /\ Return(t, "ok") /\ RocksStep

RocksDelete(t) == RocksDeleteEither(t, "delete")
RocksDeleteMany(t) == RocksDeleteEither(t, "delete_many")

\* An operation on all of S: what is there first, then a batch that deletes what is due.
RocksBatch(t, op, due) ==
    \/ /\ At(t, {op}, "begin")
       /\ Goto(t, IF due = {} THEN "ok" ELSE "writing", Nothing, due, Nothing)
       /\ UNCHANGED db /\ RocksStep
    \/ /\ At(t, {op}, "writing")
       /\ db' = Without(todo[t])
       /\ Return(t, "ok") /\ RocksStep

\* Malformed names and entries fail what meets them; what lies behind a collection's last
\* key is met too.
RocksMalformed(t) ==
    /\ pc[t] = "begin"
    /\ \/ Doing(t, {"cull"}) /\ \E s \in Slots : Present(db[s]) /\ ~db[s].sound
       \/ Doing(t, {"keys", "collections", "destroy_collection"}) /\ alien # {}
    /\ Return(t, "error")
    /\ UNCHANGED db /\ RocksStep

RocksCull(t) ==
    ((\A s \in Slots : Present(db[s]) => db[s].sound) \/ pc[t] # "begin")
        /\ RocksBatch(t, "cull", ExpiredOf(Slots))

\* keys: the limit is looked at after a key has been taken.
RocksLimit(t) == IF call[t].limit = 0 THEN 1 ELSE call[t].limit

RocksKeys(t) ==
    /\ At(t, {"keys"}, "begin")
    /\ \E S \in Limited({s \in In(call[t].coll) : Present(db[s])}, RocksLimit(t)) :
            /\ call[t].coll \in alien => Cardinality(S) = RocksLimit(t)
            /\ Answer(t, Of(S))
    /\ UNCHANGED db /\ RocksStep

RocksCollections(t) ==
    /\ At(t, {"collections"}, "begin")
    /\ \E N \in Limited({s[1] : s \in {r \in Slots : Present(db[r])}}, RocksLimit(t)) :
            /\ alien # {} => Cardinality(N) = RocksLimit(t)
            /\ names' = [names EXCEPT ![t] = N]
    /\ Return(t, "ok")
    /\ UNCHANGED <<serverVars, clientVars, now, rest>>

RocksDestroyCollection(t) ==
    (call[t].coll \notin alien \/ pc[t] # "begin")
        /\ RocksBatch(t, "destroy_collection", {s \in In(call[t].coll) : Present(db[s])})

\* Mutant: what has expired is passed over.
RocksDestroyLive(t) == RocksBatch(t, "destroy", LiveOf(Slots))

RocksDestroy(t) ==
    \/ /\ At(t, {"destroy"}, "begin")
       /\ Goto(t, "writing", Nothing, {s \in Slots : Present(db[s])}, Nothing)
       /\ UNCHANGED db /\ RocksStep
    \/ /\ At(t, {"destroy"}, "writing")
       /\ db' = Without(todo[t]) /\ alien' = {}
       /\ Return(t, "ok")
       /\ UNCHANGED <<made, clientVars, now, rest, names>>

RocksNext(t) ==
    \/ RocksRefuse(t) \/ RocksOpen(t) \/ RocksMalformed(t)
    \/ RocksGet(t) \/ RocksTtl(t) \/ RocksGetMany(t) \/ RocksTtlMany(t) \/ RocksPut(t)
    \/ RocksPutMany(t) \/ RocksDelete(t) \/ RocksDeleteMany(t) \/ RocksCull(t) \/ RocksKeys(t)
    \/ RocksCollections(t) \/ RocksDestroyCollection(t) \/ RocksDestroy(t)
=============================================================================
