---------------------------- MODULE OpenSearch -----------------------------
(***************************************************************************)
(* store/opensearch/store.rs.  An index per collection, made by the first   *)
(* write to it; a document's id is its key, encoded.  A document found      *)
(* expired is deleted by its id alone.  Operations on whole indexes first   *)
(* check the ids of all documents in them.  Writes wait for the refresh     *)
(* that makes them visible to searches.                                     *)
(***************************************************************************)
EXTENDS ServerStore

OsReads == {"get", "ttl", "get_many", "ttl_many"}
OsWrites == {"put", "put_many"}
OsKeyed == OsReads \cup OsWrites \cup {"delete", "delete_many"}

\* doc_to_entry: canonical base64, a decodable entry, and the same expiry outside it.
OsDecodes(d) == d.sound

\* encode_document_id bounds the ids, which decode to the keys.
OsFits(t) == ~TooLong(t)

\* The ids; then the TTL is checked.
OsRejects(t) ==
    ~OsFits(t) \/ (Doing(t, OsWrites) /\ ~ValidTtl(call[t].ttl))

OsRefuse(t) ==
    /\ At(t, OsKeyed, "begin")
    /\ OsRejects(t)
    /\ Return(t, "invalid")
    /\ UNCHANGED db /\ Plain

OsOpen(t, ops) == At(t, ops, "begin") /\ ~OsRejects(t)

\* owned_indices
OsOwned == {c \in Collections : Exists(c)}

\* validate_document_ids, on some indexes: scrolls through all their ids.
OsIdsDecode(C) == C \cap alien = {}

\* read_entry; an absent index holds nothing.
OsReadEntry(t) == Fetch(t, \A s \in Target(t) : OsDecodes(db[s]))

\* get, ttl
OsGet(t) == OsOpen(t, {"get", "ttl"}) /\ OsReadEntry(t) /\ UNCHANGED db /\ Plain

\* read_entries: one mget.
OsReadEntries(t) == Fetch(t, \A s \in Target(t) : OsDecodes(db[s]))

\* get_many, ttl_many
OsGetMany(t) == OsOpen(t, {"get_many", "ttl_many"}) /\ OsReadEntries(t) /\ UNCHANGED db /\ Plain

\* On to the items of a request, or done if there are none.
OsBulk(t, stage, o) ==
    /\ Goto(t, IF Target(t) = {} THEN "ok" ELSE stage, o, Target(t), Nothing)
    /\ UNCHANGED db /\ Plain

OsPut(t) == OsOpen(t, {"put"}) /\ OsBulk(t, "writing", Prepared(t))
OsPutMany(t) == OsOpen(t, {"put_many"}) /\ OsBulk(t, "writing", Prepared(t))
OsDelete(t) == OsOpen(t, {"delete"}) /\ OsBulk(t, "deleting", Nothing)
OsDeleteMany(t) == OsOpen(t, {"delete_many"}) /\ OsBulk(t, "deleting", Nothing)

\* bulk_index: the server takes the items one by one, and makes the index.
OsBulkIndex(t) ==
    /\ At(t, OsWrites, "writing")
    /\ \E s \in todo[t] :
         /\ db' = Stored({s}, seen[t])
         /\ IF todo[t] = {s} THEN Return(t, "ok")
              ELSE Goto(t, "writing", seen[t], todo[t] \ {s}, found[t])
    /\ made' = made \cup {call[t].coll}
    /\ UNCHANGED <<alien, clientVars, now, rest, names>>

\* bulk_delete, by ids: after a read that met expired documents, and for delete and
\* delete_many, which answer with the number of documents that were there.
OsBulkDelete(t) ==
    /\ pc[t] \in {"expiring", "deleting"}
    /\ \E s \in todo[t] :
         /\ db' = Without({s})
         /\ LET f == IF pc[t] = "deleting" THEN [found[t] EXCEPT ![s] = db[s]] ELSE found[t] IN
            IF todo[t] = {s} THEN Answer(t, f) ELSE Goto(t, pc[t], seen[t], todo[t] \ {s}, f)
    /\ Plain

\* cull: delete_by_query of what had expired when it was sent.  The server takes a
\* snapshot and deletes from it document by document; a document that has changed
\* since aborts the request.
OsCull(t) ==
    \/ /\ At(t, {"cull"}, "begin")
       /\ IF OsOwned = {} THEN Return(t, "ok") /\ UNCHANGED rest
            ELSE GoOn(t, "validating") /\ rest' = [rest EXCEPT ![t] = OsOwned]
       /\ UNCHANGED <<serverVars, clientVars, now, names>>
    \/ /\ At(t, {"cull"}, "validating")
       /\ IF OsIdsDecode(rest[t]) THEN GoOn(t, "query") ELSE Return(t, "error")
       /\ UNCHANGED db /\ Plain
    \/ /\ At(t, {"cull"}, "query")
       /\ LET old == ExpiredOf({s \in Slots : s[1] \in rest[t]}) IN
          Goto(t, IF old = {} THEN "ok" ELSE "culling", Of(old), old, found[t])
       /\ UNCHANGED db /\ Plain
    \/ /\ At(t, {"cull"}, "culling")
       /\ \E s \in todo[t] :
            /\ db' = Without(Unchanged(t, {s}))
            /\ IF Unchanged(t, {s}) = {} THEN Return(t, "error")
                 ELSE IF todo[t] = {s} THEN Return(t, "ok")
                 ELSE Goto(t, "culling", seen[t], todo[t] \ {s}, found[t])
       /\ Plain

\* Mutant: what has expired is dropped from the page found.
OsKeysOfPage(t) ==
    /\ At(t, {"keys"}, "begin")
    /\ \E S \in Limited({s \in In(call[t].coll) : Present(db[s])}, call[t].limit) :
            Answer(t, Of(LiveOf(S)))
    /\ UNCHANGED db /\ Plain

\* keys: the ids are validated, then a search for what is live, up to the limit.
OsKeys(t) ==
    \/ /\ At(t, {"keys"}, "begin")
       /\ IF ~Exists(call[t].coll) THEN Return(t, "ok")
            ELSE IF ~OsIdsDecode({call[t].coll}) THEN Return(t, "error")
            ELSE GoOn(t, IF call[t].limit = 0 THEN "ok" ELSE "search")
       /\ UNCHANGED db /\ Plain
    \/ /\ At(t, {"keys"}, "search")
       /\ \E S \in Limited(LiveOf(In(call[t].coll)), call[t].limit) : Answer(t, Of(S))
       /\ UNCHANGED db /\ Plain

\* collections: the owned indexes, empty ones too.
OsCollections(t) ==
    /\ At(t, {"collections"}, "begin")
    /\ GoOn(t, "ok")
    /\ \E N \in Limited(OsOwned, call[t].limit) : names' = [names EXCEPT ![t] = N]
    /\ UNCHANGED <<serverVars, clientVars, now, rest>>

OsDrop(C) ==
    /\ db' = Without({s \in Slots : s[1] \in C})
    /\ made' = made \ C
    /\ alien' = alien \ C

\* destroy_collection: validate, then delete the index.
OsDestroyCollection(t) ==
    \/ /\ At(t, {"destroy_collection"}, "begin")
       /\ IF ~Exists(call[t].coll) THEN Return(t, "ok")
            ELSE IF OsIdsDecode({call[t].coll}) THEN GoOn(t, "dropping") ELSE Return(t, "error")
       /\ UNCHANGED db /\ Plain
    \/ /\ At(t, {"destroy_collection"}, "dropping")
       /\ OsDrop({call[t].coll})
       /\ Return(t, "ok")
       /\ UNCHANGED <<clientVars, now, rest, names>>

\* Mutant: every index is deleted as soon as its own ids are validated.
OsDestroyEach(t) ==
    \/ /\ At(t, {"destroy"}, "begin")
       /\ IF OsOwned = {} THEN Return(t, "ok") /\ UNCHANGED rest
            ELSE GoOn(t, "validating") /\ rest' = [rest EXCEPT ![t] = OsOwned]
       /\ UNCHANGED <<serverVars, clientVars, now, names>>
    \/ /\ At(t, {"destroy"}, "validating")
       /\ \E c \in rest[t] :
            IF c \in alien THEN Return(t, "error") /\ UNCHANGED <<serverVars, rest>>
              ELSE /\ OsDrop({c})
                   /\ rest' = [rest EXCEPT ![t] = @ \ {c}]
                   /\ IF rest[t] = {c} THEN Return(t, "ok") ELSE GoOn(t, "validating")
       /\ UNCHANGED <<clientVars, now, names>>

\* destroy: all ids in all owned indexes are validated, then all indexes deleted.
OsDestroy(t) ==
    \/ /\ At(t, {"destroy"}, "begin")
       /\ IF OsOwned = {} THEN Return(t, "ok") /\ UNCHANGED rest
            ELSE GoOn(t, "validating") /\ rest' = [rest EXCEPT ![t] = OsOwned]
       /\ UNCHANGED <<serverVars, clientVars, now, names>>
    \/ /\ At(t, {"destroy"}, "validating")
       /\ IF OsIdsDecode(rest[t]) THEN GoOn(t, "dropping") ELSE Return(t, "error")
       /\ UNCHANGED db /\ Plain
    \/ /\ At(t, {"destroy"}, "dropping")
       /\ OsDrop(rest[t])
       /\ Return(t, "ok")
       /\ UNCHANGED <<clientVars, now, rest, names>>

OsNext(t) ==
    \/ OsRefuse(t) \/ OsGet(t) \/ OsGetMany(t) \/ OsPut(t) \/ OsPutMany(t) \/ OsDelete(t)
    \/ OsDeleteMany(t) \/ OsBulkIndex(t) \/ OsBulkDelete(t) \/ OsCull(t)
    \/ OsKeys(t) \/ OsCollections(t) \/ OsDestroyCollection(t) \/ OsDestroy(t)
=============================================================================
