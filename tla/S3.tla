-------------------------------- MODULE S3 ---------------------------------
(***************************************************************************)
(* store/s3/store.rs.  An object per entry, in one bucket ("bucket" in      *)
(* made).  Batches are loops over the single operations, in the order of    *)
(* their keys; enumeration lists names and looks at no entry.               *)
(***************************************************************************)
EXTENDS ServerStore

S3Reads == {"get", "ttl", "get_many", "ttl_many"}
S3Writes == {"put", "put_many"}
S3Deletes == {"delete", "delete_many"}
S3Keyed == S3Reads \cup S3Writes \cup S3Deletes

S3Decodes(d) == d.sound

\* s3_key bounds the object's name.
S3Fits(t) == ~TooLong(t)
S3Rejects(t) == ~S3Fits(t) \/ (Doing(t, S3Writes) /\ ~ValidTtl(call[t].ttl))

\* decompose_s3_key is strict.
S3NamesDecode(S) == \A s \in S : s[1] \notin alien

S3Bucket == "bucket" \in made

\* ensure_bucket
S3EnsureBucket(t) ==
    \/ /\ At(t, {"setup"}, "begin")
       /\ GoOn(t, IF S3Bucket THEN "ok" ELSE "creating")
       /\ UNCHANGED db /\ Plain
    \/ /\ At(t, {"setup"}, "creating")
       /\ Return(t, IF S3Bucket THEN "error" ELSE "ok")
       /\ made' = made \cup {"bucket"}
       /\ UNCHANGED <<db, alien, clientVars, now, rest, names>>

\* Every key is checked before the first request.
S3Open(t, ops) ==
    /\ At(t, ops, "begin")
    /\ IF S3Rejects(t) THEN Return(t, "invalid") /\ UNCHANGED rest
         ELSE /\ Goto(t, IF call[t].keys = <<>> THEN "ok" ELSE "batch", Nothing, {}, Nothing)
              /\ rest' = [rest EXCEPT ![t] = DOMAIN call[t].keys]
    /\ UNCHANGED <<serverVars, clientVars, now, names>>

S3OpenOne(t) == S3Open(t, {"get", "ttl", "put", "delete"})
S3GetMany(t) == S3Open(t, {"get_many", "ttl_many"})
S3PutMany(t) == S3Open(t, {"put_many"})
S3DeleteMany(t) == S3Open(t, {"delete_many"})

\* The batch goes on with its next key.
S3Advance(t, f) ==
    /\ Goto(t, IF rest[t] = {NextPosition(t)} THEN "ok" ELSE "batch", Nothing, {}, f)
    /\ rest' = [rest EXCEPT ![t] = @ \ {NextPosition(t)}]
    /\ UNCHANGED <<made, alien, clientVars, now, names>>

\* get, ttl: the object; if it had expired, whatever has its name by then is deleted.
S3Get(t) ==
    \/ /\ At(t, S3Reads, "batch") /\ S3Bucket
       /\ LET s == NextSlot(t) IN
          IF Present(db[s]) /\ ~S3Decodes(db[s]) THEN Return(t, "error") /\ Plain
            ELSE IF Present(db[s]) /\ Expired(db[s])
            THEN Goto(t, "expiring", Nothing, {s}, found[t]) /\ Plain
            ELSE S3Advance(t, [found[t] EXCEPT ![s] = db[s]])
       /\ UNCHANGED db
    \/ /\ At(t, S3Reads, "expiring") /\ S3Bucket
       /\ db' = Without(todo[t])
       /\ S3Advance(t, [found[t] EXCEPT ![NextSlot(t)] = Empty])

\* put, and the loop of put_many.
S3Put(t) ==
    /\ At(t, S3Writes, "batch") /\ S3Bucket
    /\ db' = [db EXCEPT ![NextSlot(t)] = NewDoc(t, NextPosition(t), since[t])]
    /\ S3Advance(t, found[t])

\* delete: head_object, then delete_object.
S3Delete(t) ==
    \/ /\ At(t, S3Deletes, "batch") /\ S3Bucket
       /\ LET s == NextSlot(t) IN
          IF Present(db[s]) THEN Goto(t, "deleting", Of({s}), {s}, found[t]) /\ Plain
            ELSE S3Advance(t, found[t])
       /\ UNCHANGED db
    \/ /\ At(t, S3Deletes, "deleting") /\ S3Bucket
       /\ db' = Without(todo[t])
       /\ S3Advance(t, [found[t] EXCEPT ![NextSlot(t)] = seen[t][NextSlot(t)]])

\* cull: every listed object is fetched, and deleted if expired.
S3Cull(t) ==
    \/ /\ At(t, {"cull"}, "begin") /\ S3Bucket
       /\ LET there == {s \in Slots : Present(db[s])} IN
          IF S3NamesDecode(there)
            THEN Goto(t, IF there = {} THEN "ok" ELSE "scanning", Nothing, there, Nothing)
            ELSE Return(t, "error")
       /\ UNCHANGED db /\ Plain
    \/ /\ At(t, {"cull"}, "scanning") /\ S3Bucket
       /\ \E s \in todo[t] :
            IF Present(db[s]) /\ ~S3Decodes(db[s]) THEN Return(t, "error")
              ELSE IF Present(db[s]) /\ Expired(db[s])
              THEN Goto(t, "expiring", Of({s}), todo[t], Nothing)
              ELSE Goto(t, IF todo[t] = {s} THEN "ok" ELSE "scanning", Nothing, todo[t] \ {s}, Nothing)
       /\ UNCHANGED db /\ Plain
    \/ /\ At(t, {"cull"}, "expiring") /\ S3Bucket
       /\ \E s \in {r \in todo[t] : Present(seen[t][r])} :
            /\ db' = Without({s})
            /\ Goto(t, IF todo[t] = {s} THEN "ok" ELSE "scanning", Nothing, todo[t] \ {s}, Nothing)
       /\ Plain

\* keys: the listed names, expired or not.
S3Keys(t) ==
    /\ At(t, {"keys"}, "begin") /\ S3Bucket
    /\ LET there == {s \in In(call[t].coll) : Present(db[s])} IN
       IF S3NamesDecode(there)
         THEN \E S \in Limited(there, call[t].limit) : Answer(t, Of(S))
         ELSE Return(t, "error")
    /\ UNCHANGED db /\ Plain

S3Collections(t) ==
    /\ At(t, {"collections"}, "begin") /\ S3Bucket
    /\ LET there == {s \in Slots : Present(db[s])} IN
       IF S3NamesDecode(there)
         THEN /\ GoOn(t, "ok")
              /\ \E N \in Limited({s[1] : s \in there}, call[t].limit) :
                   names' = [names EXCEPT ![t] = N]
         ELSE Return(t, "error") /\ UNCHANGED names
    /\ UNCHANGED <<serverVars, clientVars, now, rest>>

\* delete_objects: the server deletes the names one by one.
S3DeleteObjects(t) ==
    /\ At(t, {"destroy_collection", "destroy"}, "deleting") /\ S3Bucket
    /\ \E s \in todo[t] :
         /\ db' = Without({s})
         /\ Goto(t, IF todo[t] # {s} THEN "deleting" ELSE IF Doing(t, {"destroy"}) THEN "again" ELSE "ok",
                 Nothing, todo[t] \ {s}, Nothing)
    /\ Plain

\* destroy_collection: lists all the names, then deletes them.
S3DestroyCollection(t) ==
    /\ At(t, {"destroy_collection"}, "begin") /\ S3Bucket
    /\ LET there == {s \in In(call[t].coll) : Present(db[s])} IN
       IF S3NamesDecode(there)
         THEN Goto(t, IF there = {} THEN "ok" ELSE "deleting", Nothing, there, Nothing)
         ELSE Return(t, "error")
    /\ UNCHANGED db /\ Plain

\* destroy: lists and deletes until the bucket is empty, and deletes the bucket, which
\* fails if something is in it again.
S3Destroy(t) ==
    \/ /\ Doing(t, {"destroy"}) /\ pc[t] \in {"begin", "again"} /\ S3Bucket
       /\ \E page \in Limited({s \in Slots : Present(db[s])}, PageSize) :
            Goto(t, IF page = {} THEN "emptied" ELSE "deleting", Nothing, page, Nothing)
       /\ UNCHANGED db /\ Plain
    \/ /\ At(t, {"destroy"}, "emptied") /\ S3Bucket
       /\ IF db = Nothing THEN made' = made \ {"bucket"} /\ Return(t, "ok")
            ELSE UNCHANGED made /\ Return(t, "error")
       /\ UNCHANGED <<db, alien, clientVars, now, rest, names>>

S3Next(t) ==
    \/ S3EnsureBucket(t) \/ S3OpenOne(t) \/ S3GetMany(t) \/ S3PutMany(t) \/ S3DeleteMany(t) \/ S3Get(t) \/ S3Put(t) \/ S3Delete(t) \/ S3Cull(t)
    \/ S3Keys(t) \/ S3Collections(t) \/ S3DeleteObjects(t) \/ S3DestroyCollection(t) \/ S3Destroy(t)
=============================================================================
