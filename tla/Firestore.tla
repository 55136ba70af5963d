----------------------------- MODULE Firestore -----------------------------
(***************************************************************************)
(* store/firestore/store.rs: the key-value operations only.  Documents are  *)
(* deleted by name, expired ones included; the simple batch writer applies  *)
(* its writes one by one.                                                   *)
(***************************************************************************)
EXTENDS ServerStore

FsReads == {"get", "ttl", "get_many", "ttl_many"}
FsWrites == {"put", "put_many"}
FsKeyed == FsReads \cup FsWrites \cup {"delete", "delete_many"}

FsDecodes(d) == d.sound

\* encode_identifier, validate_document_name and encode_batch_identifiers bound the
\* names, of every key of a batch.
FsFits(t) == ~TooLong(t)
FsRejects(t) == ~FsFits(t) \/ (Doing(t, FsWrites) /\ ~ValidTtl(call[t].ttl))

FsRefuse(t) ==
    /\ At(t, FsKeyed, "begin")
    /\ FsRejects(t)
    /\ Return(t, "invalid")
    /\ UNCHANGED db /\ Plain

\* One read, of the key or of the batch.
FsRead(t) ==
    /\ ~FsRejects(t)
    /\ Fetch(t, \A s \in Target(t) : FsDecodes(db[s]))
    /\ UNCHANGED db /\ Plain

\* get, ttl
FsGet(t) == At(t, {"get", "ttl"}, "begin") /\ FsRead(t)
FsGetMany(t) == At(t, {"get_many"}, "begin") /\ FsRead(t)
FsTtlMany(t) == At(t, {"ttl_many"}, "begin") /\ FsRead(t)

\* The rest of a read: what had expired is deleted, by name.
FsDeleteExpired(t) ==
    /\ At(t, FsReads, "expiring")
    /\ \E s \in todo[t] :
         /\ db' = Without({s})
         /\ IF todo[t] = {s} THEN Answer(t, found[t])
              ELSE Goto(t, "expiring", seen[t], todo[t] \ {s}, found[t])
    /\ Plain

FsPut(t) ==
    /\ At(t, {"put"}, "begin") /\ ~FsRejects(t)
    /\ db' = Stored(Target(t), Prepared(t))
    /\ Return(t, "ok")
    /\ Plain

FsPutMany(t) ==
    \/ /\ At(t, {"put_many"}, "begin") /\ ~FsRejects(t)
       /\ Goto(t, IF Target(t) = {} THEN "ok" ELSE "writing", Prepared(t), Target(t), found[t])
       /\ UNCHANGED db /\ Plain
    \/ /\ At(t, {"put_many"}, "writing")
       /\ \E s \in todo[t] :
            /\ db' = Stored({s}, seen[t])
            /\ IF todo[t] = {s} THEN Return(t, "ok")
                 ELSE Goto(t, "writing", seen[t], todo[t] \ {s}, found[t])
       /\ Plain

\* A read of what exists, which must have the fields of a document but whose entry is not
\* decoded, then the deletion of that.
FsDeletes(t, op) ==
    \/ /\ At(t, {op}, "begin") /\ ~FsRejects(t)
       /\ LET there == {s \in Target(t) : Present(db[s])} IN
          Goto(t, IF there = {} THEN "ok" ELSE "deleting", Nothing, there, Of(there))
       /\ UNCHANGED db /\ Plain
    \/ /\ At(t, {op}, "deleting")
       /\ \E s \in todo[t] :
            /\ db' = Without({s})
            /\ IF todo[t] = {s} THEN Answer(t, found[t])
                 ELSE Goto(t, "deleting", Nothing, todo[t] \ {s}, found[t])
       /\ Plain

FsDelete(t) == FsDeletes(t, "delete")
FsDeleteMany(t) == FsDeletes(t, "delete_many")

FsNext(t) ==
    \/ FsRefuse(t) \/ FsGet(t) \/ FsGetMany(t) \/ FsTtlMany(t) \/ FsDeleteExpired(t)
    \/ FsPut(t) \/ FsPutMany(t) \/ FsDelete(t) \/ FsDeleteMany(t)
=============================================================================
