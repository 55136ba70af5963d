----------------------------- MODULE DynamoDB ------------------------------
(***************************************************************************)
(* store/dynamodb/store.rs.  One table for all collections.  Batches go in  *)
(* chunks and their items are applied one by one; an item the service       *)
(* leaves unprocessed fails the call (Fail).  Scans and queries come in     *)
(* pages.  made holds "table" and "ttl", the table and its native expiry.   *)
(***************************************************************************)
EXTENDS ServerStore

DynamoReads == {"get", "ttl"}
DynamoBatchReads == {"get_many", "ttl_many"}
DynamoWrites == {"put", "put_many"}

\* decode_item, decode_physical_key: the shape of the item, its entry and its ttl; the
\* physical names of its collection and key.
DynamoDecodes(d) == d.sound
DynamoKeysDecode(S) == \A s \in S : s[1] \notin alien

\* encode_physical_identity bounds the physical names, which decode to what they encode.
DynamoFits(t) == ~TooLong(t)

\* try_primary_key, try_encode_item: a TTL is checked first.
DynamoRejects(t) ==
    ~DynamoFits(t) \/ (Doing(t, DynamoWrites) /\ ~ValidTtl(call[t].ttl))

\* Every request on a table that is gone fails.
DynamoTable == "table" \in made

\* ensure_table: describe, create if absent, wait and describe again.
DynamoEnsureTable(t) ==
    \/ /\ At(t, {"setup"}, "begin")
       /\ GoOn(t, IF DynamoTable THEN "waiting" ELSE "creating")
       /\ UNCHANGED db /\ Plain
    \/ /\ At(t, {"setup"}, "creating")
       /\ IF DynamoTable THEN Return(t, "error") /\ UNCHANGED made
            ELSE GoOn(t, "waiting") /\ made' = made \cup {"table"}
       /\ UNCHANGED <<db, alien, clientVars, now, rest, names>>
    \/ /\ At(t, {"setup"}, "waiting")
       /\ IF DynamoTable THEN GoOn(t, "ttl") ELSE Return(t, "error")
       /\ UNCHANGED db /\ Plain

\* ensure_ttl: describe, enable if disabled and describe again.
DynamoEnsureTtl(t) ==
    \/ /\ At(t, {"setup"}, "ttl")
       /\ IF ~DynamoTable THEN Return(t, "error")
            ELSE IF "ttl" \in made THEN Return(t, "ok") ELSE GoOn(t, "enabling")
       /\ UNCHANGED db /\ Plain
    \/ /\ At(t, {"setup"}, "enabling")
       /\ IF DynamoTable /\ "ttl" \notin made
            THEN GoOn(t, "verifying") /\ made' = made \cup {"ttl"}
            ELSE Return(t, "error") /\ UNCHANGED made
       /\ UNCHANGED <<db, alien, clientVars, now, rest, names>>
    \/ /\ At(t, {"setup"}, "verifying")
       /\ Return(t, IF {"table", "ttl"} \subseteq made THEN "ok" ELSE "error")
       /\ UNCHANGED db /\ Plain

DynamoOpen(t, ops) == At(t, ops, "begin") /\ ~DynamoRejects(t) /\ DynamoTable

\* A call whose arguments are no good, or whose first request finds no table.
DynamoRefuse(t) ==
    /\ pc[t] = "begin" /\ ~Doing(t, {"setup", "destroy"})
    /\ DynamoRejects(t) \/ ~DynamoTable
    /\ Return(t, IF DynamoRejects(t) THEN "invalid" ELSE "error")
    /\ UNCHANGED db /\ Plain

\* read_entry
DynamoReadEntry(t) ==
    /\ Fetch(t, \A s \in Target(t) : DynamoDecodes(db[s]))
    /\ UNCHANGED db /\ Plain

\* get, ttl
DynamoGet(t) == DynamoOpen(t, DynamoReads) /\ DynamoReadEntry(t)

\* get_many, ttl_many
DynamoGetMany(t) ==
    /\ DynamoOpen(t, DynamoBatchReads)
    /\ Goto(t, IF Target(t) = {} THEN "ok" ELSE "fetching", Nothing, Target(t), Nothing)
    /\ UNCHANGED db /\ Plain

\* read_entries: the unique keys, chunk by chunk; then what had expired is deleted.
DynamoReadEntries(t) ==
    /\ At(t, DynamoBatchReads, "fetching")
    /\ DynamoTable
    /\ \E s \in todo[t] :
         LET o == [seen[t] EXCEPT ![s] = db[s]]
             late == {r \in Target(t) : Present(o[r]) /\ Expired(o[r])} IN
         IF Present(db[s]) /\ ~DynamoDecodes(db[s]) THEN Return(t, "error")
           ELSE IF todo[t] # {s} THEN Goto(t, "fetching", o, todo[t] \ {s}, Nothing)
           ELSE Goto(t, IF late = {} THEN "ok" ELSE "expiring", o, late,
                     [r \in Slots |-> IF r \in late THEN Empty ELSE o[r]])
    /\ UNCHANGED db /\ Plain

\* delete_observed_expired: on the condition that entry and ttl are those read; a
\* failed condition is no error.  Then the loop the caller is in goes on.
DynamoDeleteObserved(t) ==
    /\ pc[t] = "expiring"
    /\ DynamoTable
    /\ \E s \in {r \in todo[t] : Present(seen[t][r])} :
         /\ db' = Without(Unchanged(t, {s}))
         /\ IF Doing(t, {"cull", "keys", "collections"})
              THEN Goto(t, "scanning", Nothing, todo[t] \ {s}, found[t])
              ELSE IF todo[t] = {s} THEN Answer(t, found[t])
              ELSE Goto(t, "expiring", seen[t], todo[t] \ {s}, found[t])
    /\ Plain

\* put: one item, whatever is there.
DynamoPut(t) ==
    /\ DynamoOpen(t, {"put"})
    /\ db' = Stored(Target(t), Prepared(t))
    /\ Return(t, "ok")
    /\ Plain

\* Mutant: the items are encoded, and their names checked, as they are sent.
DynamoPutManyUnchecked(t) ==
    \/ /\ At(t, {"put_many"}, "begin") /\ ValidTtl(call[t].ttl) /\ DynamoTable
       /\ Goto(t, "writing", Prepared(t), Target(t), found[t])
       /\ UNCHANGED db /\ Plain
    \/ /\ At(t, {"put_many"}, "writing") /\ DynamoTable
       /\ \E s \in todo[t] :
            /\ db' = Stored({s}, seen[t])
            /\ IF todo[t] = {s} THEN Return(t, IF TooLong(t) THEN "invalid" ELSE "ok")
                 ELSE Goto(t, "writing", seen[t], todo[t] \ {s}, found[t])
       /\ Plain

\* put_many: every item is prepared before the first chunk is sent.
DynamoPutMany(t) ==
    \/ /\ DynamoOpen(t, {"put_many"})
       /\ Goto(t, IF Target(t) = {} THEN "ok" ELSE "writing", Prepared(t), Target(t), found[t])
       /\ UNCHANGED db /\ Plain
    \/ /\ At(t, {"put_many"}, "writing") /\ DynamoTable
       /\ \E s \in todo[t] :
            /\ db' = Stored({s}, seen[t])
            /\ IF todo[t] = {s} THEN Return(t, "ok")
                 ELSE Goto(t, "writing", seen[t], todo[t] \ {s}, found[t])
       /\ Plain

\* Mutant: the item is read, then deleted.
DynamoDeleteRead(t) ==
    \/ /\ DynamoOpen(t, {"delete"})
       /\ Goto(t, "deleting", Nothing, {}, Of(Target(t)))
       /\ UNCHANGED db /\ Plain
    \/ /\ At(t, {"delete"}, "deleting")
       /\ db' = Without(Target(t))
       /\ Return(t, "ok")
       /\ Plain

\* delete: the old item comes back with the answer.
DynamoDelete(t) ==
    /\ DynamoOpen(t, {"delete"})
    /\ db' = Without(Target(t))
    /\ Answer(t, Of(Target(t)))
    /\ Plain

\* delete_many: reads which of the keys exist, then deletes these and answers with the
\* number it read.
DynamoDeleteMany(t) ==
    \/ /\ DynamoOpen(t, {"delete_many"})
       /\ LET there == {s \in Target(t) : Present(db[s])} IN
          IF DynamoKeysDecode(there)
            THEN Goto(t, IF there = {} THEN "ok" ELSE "deleting", Nothing, there, Of(there))
            ELSE Return(t, "error")
       /\ UNCHANGED db /\ Plain
    \/ /\ At(t, {"delete_many"}, "deleting") /\ DynamoTable
       /\ \E s \in todo[t] :
            /\ db' = Without({s})
            /\ IF todo[t] = {s} THEN Answer(t, found[t])
                 ELSE Goto(t, "deleting", Nothing, todo[t] \ {s}, found[t])
       /\ Plain

\* cull, keys, collections: item after item of a paged scan (of a query for keys), the
\* expired ones deleted on the way.  todo is what the scan has not passed.  keys and
\* collections stop at the limit.
DynamoScope(t) == IF Doing(t, {"keys"}) THEN In(call[t].coll) ELSE Slots
DynamoFull(t) ==
    \/ Doing(t, {"keys"}) /\ Cardinality({s \in Slots : Present(found[t][s])}) >= call[t].limit
    \/ Doing(t, {"collections"}) /\ Cardinality(names[t]) >= call[t].limit

DynamoScan(t, op) ==
    \/ /\ DynamoOpen(t, {op})
       /\ Goto(t, IF DynamoFull(t) THEN "ok" ELSE "scanning", Nothing, DynamoScope(t), Nothing)
       /\ UNCHANGED db /\ Plain
    \/ /\ At(t, {op}, "scanning") /\ DynamoTable /\ ~DynamoFull(t)
       /\ \E s \in todo[t] :
            IF Present(db[s]) /\ (~DynamoDecodes(db[s]) \/ ~DynamoKeysDecode({s}))
              THEN Return(t, "error") /\ UNCHANGED names
              ELSE IF Present(db[s]) /\ Expired(db[s])
              THEN Goto(t, "expiring", Of({s}), todo[t], found[t]) /\ UNCHANGED names
              ELSE /\ Goto(t, "scanning", Nothing, todo[t] \ {s},
                           IF Doing(t, {"keys"}) THEN [found[t] EXCEPT ![s] = db[s]] ELSE found[t])
                   /\ names' = IF Doing(t, {"collections"}) /\ Present(db[s])
                                 THEN [names EXCEPT ![t] = @ \cup {s[1]}] ELSE names
       /\ UNCHANGED <<serverVars, clientVars, now, rest>>
    \/ /\ At(t, {op}, "scanning") /\ DynamoTable
       /\ DynamoFull(t) \/ todo[t] = {}
       /\ Answer(t, found[t])
       /\ UNCHANGED db /\ Plain

DynamoCull(t) == DynamoScan(t, "cull")
DynamoKeys(t) == DynamoScan(t, "keys")
DynamoCollections(t) == DynamoScan(t, "collections")

\* Mutant: one page only.
DynamoDestroyPage(t) ==
    \/ /\ At(t, {"destroy_collection"}, "begin") /\ DynamoTable
       /\ \E page \in Limited({s \in In(call[t].coll) : Present(db[s])}, PageSize) :
            Goto(t, "deleting", Nothing, page, Nothing)
       /\ UNCHANGED db /\ Plain
    \/ /\ At(t, {"destroy_collection"}, "deleting") /\ DynamoTable
       /\ db' = Without(todo[t])
       /\ Return(t, "ok")
       /\ Plain

\* destroy_collection: a page of keys, whatever their entries, and their deletion, until
\* a page comes back empty.
DynamoDestroyCollection(t) ==
    \/ /\ pc[t] \in {"begin", "again"} /\ Doing(t, {"destroy_collection"}) /\ DynamoTable
       /\ \E page \in Limited({s \in In(call[t].coll) : Present(db[s])}, PageSize) :
            IF DynamoKeysDecode(page)
              THEN Goto(t, IF page = {} THEN "ok" ELSE "deleting", Nothing, page, Nothing)
              ELSE Return(t, "error")
       /\ UNCHANGED db /\ Plain
    \/ /\ At(t, {"destroy_collection"}, "deleting") /\ DynamoTable
       /\ \E s \in todo[t] :
            /\ db' = Without({s})
            /\ Goto(t, IF todo[t] = {s} THEN "again" ELSE "deleting", Nothing, todo[t] \ {s}, Nothing)
       /\ Plain

\* destroy: the table goes, with its TTL setting.
DynamoDestroy(t) ==
    /\ At(t, {"destroy"}, "begin")
    /\ db' = Nothing
    /\ made' = {}
    /\ alien' = {}
    /\ Return(t, "ok")
    /\ UNCHANGED <<clientVars, now, rest, names>>

DynamoNext(t) ==
    \/ DynamoEnsureTable(t) \/ DynamoEnsureTtl(t) \/ DynamoRefuse(t)
    \/ DynamoGet(t) \/ DynamoGetMany(t) \/ DynamoReadEntries(t) \/ DynamoDeleteObserved(t)
    \/ DynamoPut(t) \/ DynamoPutMany(t) \/ DynamoDelete(t) \/ DynamoDeleteMany(t)
    \/ DynamoCull(t) \/ DynamoKeys(t) \/ DynamoCollections(t) \/ DynamoDestroyCollection(t) \/ DynamoDestroy(t)
=============================================================================
