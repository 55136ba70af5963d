------------------------------ MODULE MongoDB ------------------------------
(***************************************************************************)
(* store/mongodb/store.rs.  A logical collection is a physical one, with a  *)
(* unique index on the key and a TTL index on the expiry; the client keeps  *)
(* a list of the collections whose indexes it has checked (known) behind a  *)
(* lock it holds while it checks.  Expired documents met on the way are     *)
(* deleted by requests that name the whole document they saw.               *)
(***************************************************************************)
EXTENDS ServerStore

MongoReads == {"get", "ttl", "get_many", "ttl_many"}
MongoWrites == {"put", "put_many"}
MongoKeyed == MongoReads \cup MongoWrites \cup {"delete", "delete_many", "keys"}

\* decode_document: the document's fields, its id and key, and the copy of the expiry
\* outside the entry.
MongoDecodes(d) == d.sound

\* owned_collection_names: one malformed name fails the list.
\* Mutant: the collections this client has used.
MongoOwnKnown == known
MongoOwned == {c \in Collections : Exists(c)}
MongoNamesDecode == alien = {}

\* The collection the call works on; cull goes through them one by one.
MongoCurrent(t) == IF Doing(t, {"cull"}) THEN CHOOSE c \in names[t] : TRUE ELSE call[t].coll

\* collection(): under the lock, a collection the client knows is taken as it is.
MongoCollection(t, o) ==
    /\ lock = NoTask
    /\ IF MongoCurrent(t) \in known
         THEN Goto(t, "ready", o, {}, found[t]) /\ UNCHANGED lock
         ELSE Goto(t, "making", o, {}, found[t]) /\ lock' = t

\* The arguments are looked at before the first request.
MongoOpen(t) ==
    /\ At(t, MongoKeyed, "begin")
    /\ IF Doing(t, MongoWrites) /\ ~ValidTtl(call[t].ttl)
         THEN Return(t, "invalid") /\ UNCHANGED lock
         ELSE IF call[t].keys = <<>> /\ (~Doing(t, {"keys"}) \/ call[t].limit = 0)
         THEN Return(t, "ok") /\ UNCHANGED lock
         ELSE MongoCollection(t, IF Doing(t, MongoWrites) THEN Prepared(t) ELSE Nothing)
    /\ UNCHANGED <<serverVars, known, now, rest, names>>

\* Still collection(): the missing indexes are created, which creates the collection,
\* and inspected again before the client counts on them.
MongoMakeIndexes(t) ==
    /\ pc[t] = "making"
    /\ made' = made \cup {MongoCurrent(t)}
    /\ GoOn(t, "checking")
    /\ UNCHANGED <<db, alien, known, lock, now, rest, names>>

MongoInspectIndexes(t) ==
    /\ pc[t] = "checking"
    /\ IF MongoCurrent(t) \in made
         THEN known' = known \cup {MongoCurrent(t)} /\ GoOn(t, "ready")
         ELSE UNCHANGED known /\ Return(t, "error")
    /\ lock' = NoTask
    /\ UNCHANGED <<serverVars, now, rest, names>>

\* get, ttl: one document.
MongoGet(t) ==
    /\ At(t, {"get", "ttl"}, "ready")
    /\ Fetch(t, \A s \in Target(t) : MongoDecodes(db[s]))
    /\ UNCHANGED db /\ Plain

\* get_many, ttl_many: one query for all.
MongoGetMany(t) ==
    /\ At(t, {"get_many", "ttl_many"}, "ready")
    /\ Fetch(t, \A s \in Target(t) : MongoDecodes(db[s]))
    /\ UNCHANGED db /\ Plain

\* Mutant: what was expired when it was read is deleted by key.
MongoDeleteByKey(t) ==
    /\ pc[t] = "expiring"
    /\ db' = Without(todo[t])
    /\ IF Doing(t, {"cull"}) THEN GoOn(t, "culling") ELSE Answer(t, found[t])
    /\ Plain

\* delete_observed_expired and delete_observed_expired_many: a document is deleted
\* only as it was seen.
MongoDeleteObserved(t) ==
    /\ pc[t] = "expiring"
    /\ db' = Without(Unchanged(t, todo[t]))
    /\ IF Doing(t, {"cull"}) THEN GoOn(t, "culling") ELSE Answer(t, found[t])
    /\ Plain

\* put: replace_one with upsert.
MongoPut(t) ==
    /\ At(t, {"put"}, "ready")
    /\ db' = Stored(Target(t), seen[t])
    /\ Return(t, "ok")
    /\ Plain

\* put_many: one unordered bulk of upserts, the last of each key; the server applies
\* them one by one.
MongoPutMany(t) ==
    \/ /\ At(t, {"put_many"}, "ready")
       /\ Goto(t, "writing", seen[t], Target(t), found[t])
       /\ UNCHANGED db /\ Plain
    \/ /\ At(t, {"put_many"}, "writing")
       /\ \E s \in todo[t] :
            /\ db' = Stored({s}, seen[t])
            /\ IF todo[t] = {s} THEN Return(t, "ok")
                 ELSE Goto(t, "writing", seen[t], todo[t] \ {s}, found[t])
       /\ Plain

\* The server deletes and counts, expired documents too.
MongoDeletes(t) ==
    /\ db' = Without(Target(t))
    /\ Answer(t, Of(Target(t)))
    /\ Plain

MongoDelete(t) == At(t, {"delete"}, "ready") /\ MongoDeletes(t)
MongoDeleteMany(t) == At(t, {"delete_many"}, "ready") /\ MongoDeletes(t)

\* keys: the server filters by expiry; the client checks it again as it reads, and stops
\* at the limit.  What it met expired before that is deleted.
MongoKeys(t) ==
    \/ /\ At(t, {"keys"}, "ready")
       /\ LET S == LiveOf(In(call[t].coll)) IN Goto(t, "sifting", Of(S), S, found[t])
       /\ UNCHANGED db /\ Plain
    \/ /\ At(t, {"keys"}, "sifting")
       /\ LET late == {s \in todo[t] : Expired(seen[t][s])} IN
          \E S \in Limited(todo[t] \ late, call[t].limit), L \in SUBSET late :
            /\ Cardinality(S) < call[t].limit => L = late
            /\ IF \E s \in S \cup L : ~MongoDecodes(seen[t][s]) THEN Return(t, "error")
                 ELSE Goto(t, IF L = {} THEN "ok" ELSE "expiring", seen[t], L,
                           [s \in Slots |-> IF s \in S THEN seen[t][s] ELSE Empty])
       /\ UNCHANGED db /\ Plain

\* cull: the names, then collection after collection its documents that had expired
\* when the call began.
MongoCull(t) ==
    \/ /\ At(t, {"cull"}, "begin")
       /\ IF MongoNamesDecode
            THEN GoOn(t, "culling") /\ rest' = [rest EXCEPT ![t] = MongoOwned]
            ELSE Return(t, "error") /\ UNCHANGED rest
       /\ UNCHANGED <<serverVars, known, lock, now, names>>
    \/ /\ At(t, {"cull"}, "culling")
       /\ IF rest[t] = {}
            THEN Return(t, "ok") /\ UNCHANGED <<rest, names>>
            ELSE /\ \E c \in rest[t] :
                      /\ rest' = [rest EXCEPT ![t] = @ \ {c}]
                      /\ names' = [names EXCEPT ![t] = {c}]
                 /\ GoOn(t, "handle")
       /\ UNCHANGED <<serverVars, known, lock, now>>
    \/ /\ At(t, {"cull"}, "handle")
       /\ MongoCollection(t, Nothing)
       /\ UNCHANGED <<serverVars, known, now, rest, names>>
    \/ /\ At(t, {"cull"}, "ready")
       /\ LET old == {s \in In(MongoCurrent(t)) : Present(db[s]) /\ ExpiredAt(db[s], since[t])} IN
          IF \E s \in old : ~MongoDecodes(db[s])
            THEN Return(t, "error")
            ELSE Goto(t, IF old = {} THEN "culling" ELSE "expiring", Of(old), old, found[t])
       /\ UNCHANGED db /\ Plain

\* collections: the physical collections, empty ones too.
MongoCollections(t) ==
    /\ At(t, {"collections"}, "begin")
    /\ IF MongoNamesDecode
         THEN /\ GoOn(t, "ok")
              /\ \E N \in Limited(MongoOwned, call[t].limit) : names' = [names EXCEPT ![t] = N]
         ELSE Return(t, "error") /\ UNCHANGED names
    /\ UNCHANGED <<serverVars, known, lock, now, rest>>

\* drop: the collection goes with its documents and indexes.
MongoDrop(c) == db' = Without(In(c)) /\ made' = made \ {c}

\* Mutant: the client goes on counting on the collection.
MongoDropOnly(t) ==
    /\ At(t, {"destroy_collection"}, "begin")
    /\ MongoDrop(call[t].coll)
    /\ Return(t, "ok")
    /\ UNCHANGED <<alien, known, lock, now, rest, names>>

\* destroy_collection: list, drop, forget.
MongoDestroyCollection(t) ==
    \/ /\ At(t, {"destroy_collection"}, "begin")
       /\ GoOn(t, IF Exists(call[t].coll) THEN "dropping" ELSE "forgetting")
       /\ UNCHANGED db /\ Plain
    \/ /\ At(t, {"destroy_collection"}, "dropping")
       /\ MongoDrop(call[t].coll)
       /\ GoOn(t, "forgetting")
       /\ UNCHANGED <<alien, known, lock, now, rest, names>>
    \/ /\ At(t, {"destroy_collection"}, "forgetting")
       /\ lock = NoTask
       /\ known' = known \ {call[t].coll}
       /\ Return(t, "ok")
       /\ UNCHANGED <<serverVars, lock, now, rest, names>>

\* destroy: the same for every owned collection, one after the other.
MongoDestroy(t) ==
    \/ /\ At(t, {"destroy"}, "begin")
       /\ IF MongoNamesDecode
            THEN GoOn(t, "dropping") /\ rest' = [rest EXCEPT ![t] = MongoOwned]
            ELSE Return(t, "error") /\ UNCHANGED rest
       /\ UNCHANGED <<serverVars, known, lock, now, names>>
    \/ /\ At(t, {"destroy"}, "dropping")
       /\ \E c \in rest[t] :
            /\ MongoDrop(c)
            /\ rest' = [rest EXCEPT ![t] = @ \ {c}]
            /\ names' = [names EXCEPT ![t] = @ \cup {c}]
       /\ GoOn(t, "forgetting")
       /\ UNCHANGED <<alien, known, lock, now>>
    \/ /\ At(t, {"destroy"}, "dropping")
       /\ rest[t] = {}
       /\ names[t] = {} => lock = NoTask
       /\ known' = IF names[t] = {} THEN {} ELSE known
       /\ Return(t, "ok")
       /\ UNCHANGED <<serverVars, lock, now, rest, names>>
    \/ /\ At(t, {"destroy"}, "forgetting")
       /\ lock = NoTask
       /\ known' = known \ names[t]
       /\ GoOn(t, "dropping")
       /\ UNCHANGED <<serverVars, lock, now, rest, names>>

MongoNext(t) ==
    \/ MongoOpen(t) \/ MongoMakeIndexes(t) \/ MongoInspectIndexes(t)
    \/ MongoGet(t) \/ MongoGetMany(t) \/ MongoDeleteObserved(t) \/ MongoPut(t) \/ MongoPutMany(t)
    \/ MongoDelete(t) \/ MongoDeleteMany(t) \/ MongoKeys(t) \/ MongoCull(t) \/ MongoCollections(t)
    \/ MongoDestroyCollection(t) \/ MongoDestroy(t)
=============================================================================
