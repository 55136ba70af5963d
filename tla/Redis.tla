------------------------------- MODULE Redis -------------------------------
(***************************************************************************)
(* store/redis/store.rs and store/valkey/store.rs, without their change      *)
(* feeds (see ServerFeed).  Writes are scripts, each one step of the        *)
(* server, which drops a key the moment it expires.  made is the registry   *)
(* of collections.  SCAN comes in rounds and passes every place of the      *)
(* database once.                                                           *)
(***************************************************************************)
EXTENDS ServerStore

RedisReads == {"get", "ttl", "get_with_revision"}
RedisBatchReads == {"get_many", "ttl_many"}

\* With a keyspace the store shares its database with others.
RedisScoped == backend \in {"redis, scoped", "valkey, scoped"}

\* cas::decode
RedisDecodes(d) == d.sound

RedisStep == UNCHANGED <<made, alien, known, lock, now, names>>

RedisRejects(t) ==
    Doing(t, {"put", "put_many", "compare_and_swap"}) /\ ~ValidTtl(call[t].ttl)

RedisRefuse(t) ==
    /\ pc[t] = "begin" /\ RedisRejects(t)
    /\ Return(t, "invalid")
    /\ UNCHANGED <<db, rest>> /\ RedisStep

\* GET, MGET: an entry that has expired is left to the server.  MGET of no key at all is
\* an error of the server's.
RedisFetch(t, ops) ==
    /\ At(t, ops, "begin")
    /\ IF call[t].keys = <<>> \/ \E s \in LiveOf(Target(t)) : ~RedisDecodes(db[s])
         THEN Return(t, "error")
         ELSE Answer(t, Of(LiveOf(Target(t))))
    /\ UNCHANGED <<db, rest>> /\ RedisStep

RedisGet(t) == RedisFetch(t, {"get", "ttl"})
RedisGetMany(t) == RedisFetch(t, RedisBatchReads)
RedisGetWithRevision(t) == RedisFetch(t, {"get_with_revision"})

\* put_many and delete_many are loops over put and delete.
RedisBatch(t) ==
    /\ At(t, {"put_many", "delete_many"}, "begin") /\ ~RedisRejects(t)
    /\ Goto(t, IF call[t].keys = <<>> THEN "ok" ELSE "batch", Nothing, {}, Nothing)
    /\ rest' = [rest EXCEPT ![t] = DOMAIN call[t].keys]
    /\ UNCHANGED db /\ RedisStep

\* Mutant: the registry is left out.
RedisStoreOnly(t, s, i) == db' = [db EXCEPT ![s] = NewDoc(t, i, now)] /\ UNCHANGED made

\* The scripts that store: the entry, and its collection into the registry.
RedisStore(t, s, i) == db' = [db EXCEPT ![s] = NewDoc(t, i, now)] /\ made' = made \cup {s[1]}

RedisPut(t) ==
    /\ At(t, {"put"}, "begin") /\ ~RedisRejects(t)
    /\ \E s \in Target(t) : RedisStore(t, s, 1)
    /\ Return(t, "ok")
    /\ UNCHANGED <<alien, known, lock, now, rest, names>>

\* The batch goes on with its next key.
RedisAdvance(t, f) ==
    /\ Goto(t, IF rest[t] = {NextPosition(t)} THEN "ok" ELSE "batch", Nothing, {}, f)
    /\ rest' = [rest EXCEPT ![t] = @ \ {NextPosition(t)}]
    /\ UNCHANGED <<alien, known, lock, now, names>>

RedisPutMany(t) ==
    /\ At(t, {"put_many"}, "batch")
    /\ RedisStore(t, NextSlot(t), NextPosition(t))
    /\ RedisAdvance(t, Nothing)

\* Mutant: EXISTS is a request of its own.
RedisDeleteAsked(t) ==
    \/ /\ At(t, {"delete"}, "begin")
       /\ Goto(t, "deleting", Nothing, {}, Of(LiveOf(Target(t))))
       /\ UNCHANGED <<db, rest>> /\ RedisStep
    \/ /\ At(t, {"delete"}, "deleting")
       /\ db' = Without(Target(t))
       /\ Return(t, "ok")
       /\ UNCHANGED rest /\ RedisStep

\* The script of delete: EXISTS and DEL.
RedisDelete(t) ==
    /\ At(t, {"delete"}, "begin")
    /\ db' = Without(Target(t))
    /\ Answer(t, Of(LiveOf(Target(t))))
    /\ UNCHANGED rest /\ RedisStep

RedisDeleteMany(t) ==
    /\ At(t, {"delete_many"}, "batch")
    /\ db' = Without({NextSlot(t)})
    /\ RedisAdvance(t, IF Live(db[NextSlot(t)]) THEN [found[t] EXCEPT ![NextSlot(t)] = db[NextSlot(t)]]
                         ELSE found[t])
    /\ UNCHANGED made

\* The comparison in COMPARE_AND_SWAP_SCRIPT and COMPARE_AND_DELETE_SCRIPT.
RedisMatches(t, d) ==
    IF call[t].expected = Absent THEN ~Live(d) ELSE Live(d) /\ d.writer = call[t].expected

\* A conflict is answered with the entry found.  One that does not decode fails the call,
\* or is too short for the script to return.
RedisConflict(t) ==
    IF \A s \in LiveOf(Target(t)) : RedisDecodes(db[s])
      THEN Goto(t, "conflict", Nothing, {}, Of(LiveOf(Target(t))))
      ELSE Return(t, "error") \/ Return(t, "conflict")

RedisCompareAndSwap(t) ==
    /\ At(t, {"compare_and_swap"}, "begin") /\ ~RedisRejects(t)
    /\ IF \A s \in Target(t) : RedisMatches(t, db[s])
         THEN (\E s \in Target(t) : RedisStore(t, s, 1)) /\ Return(t, "ok")
         ELSE RedisConflict(t) /\ UNCHANGED <<db, made>>
    /\ UNCHANGED <<alien, known, lock, now, rest, names>>

RedisCompareAndDelete(t) ==
    /\ At(t, {"compare_and_delete"}, "begin")
    /\ IF \A s \in Target(t) : RedisMatches(t, db[s])
         THEN db' = Without(Target(t)) /\ Return(t, "ok")
         ELSE RedisConflict(t) /\ UNCHANGED db
    /\ UNCHANGED rest /\ RedisStep

\* cull has nothing to do.
RedisCull(t) ==
    /\ At(t, {"cull"}, "begin")
    /\ Return(t, "ok")
    /\ UNCHANGED <<db, rest>> /\ RedisStep

\* keys: SCAN; what it returns for the places it has passed (todo: those it has not).
RedisKeys(t) ==
    \/ /\ At(t, {"keys"}, "begin")
       /\ Goto(t, IF call[t].limit = 0 THEN "ok" ELSE "scanning", Nothing, In(call[t].coll), Nothing)
       /\ UNCHANGED <<db, rest>> /\ RedisStep
    \/ /\ At(t, {"keys"}, "scanning")
       /\ \E s \in todo[t] :
            LET f == [found[t] EXCEPT ![s] = Of(LiveOf({s}))[s]]
                full == Cardinality({r \in Slots : Present(f[r])}) = call[t].limit IN
            IF Live(db[s]) /\ s[1] \in alien THEN Return(t, "error")
              ELSE IF full \/ todo[t] = {s} THEN Answer(t, f)
              ELSE Goto(t, "scanning", Nothing, todo[t] \ {s}, f)
       /\ UNCHANGED <<db, rest>> /\ RedisStep

\* collections: the registry; without one, what a scan of the whole database finds, which
\* becomes the registry.
RedisCollections(t) ==
    \/ /\ At(t, {"collections"}, "begin")
       /\ IF made # {} THEN GoOn(t, "members")
            ELSE IF RedisScoped THEN Return(t, "ok")
            ELSE Goto(t, "scanning", Nothing, Slots, Nothing)
       /\ UNCHANGED <<db, rest>> /\ RedisStep
    \/ /\ At(t, {"collections"}, "members")
       /\ \E N \in Limited(made, call[t].limit) : names' = [names EXCEPT ![t] = N]
       /\ GoOn(t, "ok")
       /\ UNCHANGED <<serverVars, clientVars, now, rest>>
    \/ /\ At(t, {"collections"}, "scanning")
       /\ \E s \in todo[t] :
            IF Live(db[s]) /\ s[1] \in alien THEN Return(t, "error") /\ UNCHANGED rest
              ELSE /\ Goto(t, IF todo[t] = {s} THEN "scanned" ELSE "scanning", Nothing, todo[t] \ {s}, Nothing)
                   /\ rest' = IF Live(db[s]) THEN [rest EXCEPT ![t] = @ \cup {s[1]}] ELSE rest
       /\ UNCHANGED db /\ RedisStep
    \/ /\ At(t, {"collections"}, "scanned")
       /\ \E N \in Limited(rest[t], call[t].limit) : names' = [names EXCEPT ![t] = N]
       /\ GoOn(t, IF rest[t] = {} THEN "ok" ELSE "adding")
       /\ UNCHANGED <<serverVars, clientVars, now, rest>>
    \/ /\ At(t, {"collections"}, "adding")
       /\ \E c \in rest[t] :
            /\ made' = made \cup {c}
            /\ rest' = [rest EXCEPT ![t] = @ \ {c}]
            /\ GoOn(t, IF rest[t] = {c} THEN "ok" ELSE "adding")
       /\ UNCHANGED <<db, alien, clientVars, now, names>>

\* Mutant: one round.
RedisDestroyRound(t) ==
    \/ /\ At(t, {"destroy_collection"}, "begin")
       /\ \E S \in Limited(LiveOf(In(call[t].coll)), PageSize) : Goto(t, "deleting", Nothing, S, Nothing)
       /\ UNCHANGED <<db, rest>> /\ RedisStep
    \/ /\ At(t, {"destroy_collection"}, "deleting")
       /\ db' = Without(todo[t])
       /\ Return(t, "ok")
       /\ UNCHANGED rest /\ RedisStep

\* destroy_collection: rounds of SCAN, each followed by the script that deletes its keys.
RedisDestroyCollection(t) ==
    \/ /\ At(t, {"destroy_collection"}, "begin")
       /\ Goto(t, "scanning", Nothing, In(call[t].coll), Nothing)
       /\ UNCHANGED <<db, rest>> /\ RedisStep
    \/ /\ At(t, {"destroy_collection"}, "scanning")
       /\ \E s \in todo[t] :
            IF Live(db[s]) /\ s[1] \in alien THEN Return(t, "error")
              ELSE Goto(t, "deleting", Of(LiveOf({s})), todo[t] \ {s}, Nothing)
       /\ UNCHANGED <<db, rest>> /\ RedisStep
    \/ /\ At(t, {"destroy_collection"}, "deleting")
       /\ db' = Without({s \in Slots : Present(seen[t][s])})
       /\ Goto(t, IF todo[t] = {} THEN "ok" ELSE "scanning", Nothing, todo[t], Nothing)
       /\ UNCHANGED rest /\ RedisStep

\* destroy: FLUSHDB; or a scan of the keyspace, the registry somewhere in it ("passed":
\* it has been reached), a round's keys deleted whatever they hold by then.
RedisDestroy(t) ==
    \/ /\ At(t, {"destroy"}, "begin")
       /\ IF RedisScoped
            THEN Goto(t, "scanning", Nothing, Slots, Nothing) /\ UNCHANGED serverVars
            ELSE Return(t, "ok") /\ db' = Nothing /\ made' = {} /\ alien' = {}
       /\ UNCHANGED <<clientVars, now, rest, names>>
    \/ /\ Doing(t, {"destroy"}) /\ pc[t] \in {"scanning", "passed"}
       /\ \E s \in todo[t] :
            db' = Without({s}) /\ Goto(t, pc[t], Nothing, todo[t] \ {s}, Nothing)
       /\ UNCHANGED rest /\ RedisStep
    \/ /\ At(t, {"destroy"}, "scanning")
       /\ made' = {}
       /\ GoOn(t, "passed")
       /\ UNCHANGED <<db, alien, clientVars, now, rest, names>>
    \/ /\ At(t, {"destroy"}, "passed") /\ todo[t] = {}
       /\ Return(t, "ok")
       /\ UNCHANGED <<db, rest>> /\ RedisStep

\* Time passes, and the server drops what expires.
RedisTick ==
    /\ now < MaxTime
    /\ now' = now + 1
    /\ db' = [s \in Slots |-> IF ExpiredAt(db[s], now') THEN Empty ELSE db[s]]
    /\ UNCHANGED <<made, alien, clientVars, taskVars>>

RedisNext(t) ==
    \/ RedisRefuse(t) \/ RedisGet(t) \/ RedisGetMany(t) \/ RedisGetWithRevision(t)
    \/ RedisBatch(t) \/ RedisPut(t) \/ RedisPutMany(t) \/ RedisDelete(t) \/ RedisDeleteMany(t)
    \/ RedisCompareAndSwap(t) \/ RedisCompareAndDelete(t) \/ RedisCull(t) \/ RedisKeys(t)
    \/ RedisCollections(t) \/ RedisDestroyCollection(t) \/ RedisDestroy(t)

-----------------------------------------------------------------------------
(* store/valkey/store.rs is the code of the Redis backend, kept apart from it.  Each      *)
(* operation takes the steps of its counterpart.                                           *)

ValkeyGet(t) == RedisGet(t)
ValkeyGetMany(t) == RedisGetMany(t)
ValkeyGetWithRevision(t) == RedisGetWithRevision(t)
ValkeyPut(t) == RedisRefuse(t) \/ RedisPut(t)
ValkeyPutMany(t) == RedisBatch(t) \/ RedisPutMany(t)
ValkeyDelete(t) == RedisDelete(t)
ValkeyDeleteMany(t) == RedisDeleteMany(t)
ValkeyCompareAndSwap(t) == RedisCompareAndSwap(t)
ValkeyCompareAndDelete(t) == RedisCompareAndDelete(t)
ValkeyCull(t) == RedisCull(t)
ValkeyKeys(t) == RedisKeys(t)
ValkeyCollections(t) == RedisCollections(t)
ValkeyDestroyCollection(t) == RedisDestroyCollection(t)
ValkeyDestroy(t) == RedisDestroy(t)

ValkeyNext(t) ==
    \/ ValkeyGet(t) \/ ValkeyGetMany(t) \/ ValkeyGetWithRevision(t) \/ ValkeyPut(t)
    \/ ValkeyPutMany(t) \/ ValkeyDelete(t) \/ ValkeyDeleteMany(t) \/ ValkeyCompareAndSwap(t)
    \/ ValkeyCompareAndDelete(t) \/ ValkeyCull(t) \/ ValkeyKeys(t) \/ ValkeyCollections(t)
    \/ ValkeyDestroyCollection(t) \/ ValkeyDestroy(t)
=============================================================================
