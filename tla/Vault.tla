------------------------------- MODULE Vault -------------------------------
(***************************************************************************)
(* store/vault/store.rs: the key-value operations only.  A batch runs the   *)
(* requests of its unique keys concurrently, so a task has several keys     *)
(* under way: todo are those not begun, seen those between their first and  *)
(* their second request.                                                    *)
(***************************************************************************)
EXTENDS ServerStore

VaultReads == {"get", "ttl", "get_many", "ttl_many"}
VaultWrites == {"put", "put_many"}
VaultDeletes == {"delete", "delete_many"}

VaultDecodes(d) == d.sound

VaultPending(t) == {s \in Slots : Present(seen[t][s])}

\* One more of the keys is done; the batch ends with its last.
VaultDone(t, o, d, f) ==
    IF d = {} /\ o = Nothing THEN Answer(t, f) ELSE Goto(t, "batch", o, d, f)

\* The keys of the call; of a put, with the entries to write.
VaultOpen(t, op) ==
    /\ At(t, {op}, "begin")
    /\ IF op \in VaultWrites /\ ~ValidTtl(call[t].ttl) THEN Return(t, "invalid")
         ELSE VaultDone(t, IF op \in VaultWrites THEN Prepared(t) ELSE Nothing, Target(t), Nothing)
    /\ UNCHANGED db /\ Plain

VaultGet(t) == VaultOpen(t, "get") \/ VaultOpen(t, "ttl")
VaultPut(t) == VaultOpen(t, "put")
VaultDelete(t) == VaultOpen(t, "delete")
VaultGetMany(t) == VaultOpen(t, "get_many") \/ VaultOpen(t, "ttl_many")
VaultPutMany(t) == VaultOpen(t, "put_many")
VaultDeleteMany(t) == VaultOpen(t, "delete_many")

\* read_entry: get_secret; a secret found expired is deleted with all its metadata,
\* whatever is there by then.
VaultReadEntry(t) ==
    \/ /\ At(t, VaultReads, "batch")
       /\ \E s \in todo[t] :
            IF Present(db[s]) /\ ~VaultDecodes(db[s]) THEN Return(t, "error")
              ELSE IF Present(db[s]) /\ Expired(db[s])
              THEN Goto(t, "batch", [seen[t] EXCEPT ![s] = db[s]], todo[t] \ {s}, found[t])
              ELSE VaultDone(t, seen[t], todo[t] \ {s}, [found[t] EXCEPT ![s] = db[s]])
       /\ UNCHANGED db /\ Plain
    \/ /\ At(t, VaultReads, "batch")
       /\ \E s \in VaultPending(t) :
            /\ db' = Without({s})
            /\ VaultDone(t, [seen[t] EXCEPT ![s] = Empty], todo[t], found[t])
       /\ Plain

\* write_entry: one request.
VaultWriteEntry(t) ==
    /\ At(t, VaultWrites, "batch")
    /\ \E s \in todo[t] :
         /\ db' = Stored({s}, seen[t])
         /\ VaultDone(t, [seen[t] EXCEPT ![s] = Empty], todo[t] \ {s}, found[t])
    /\ Plain

\* delete_entry: the metadata is read, and deleted if it was there.
VaultDeleteEntry(t) ==
    \/ /\ At(t, VaultDeletes, "batch")
       /\ \E s \in todo[t] :
            IF Present(db[s]) THEN Goto(t, "batch", [seen[t] EXCEPT ![s] = db[s]], todo[t] \ {s}, found[t])
              ELSE VaultDone(t, seen[t], todo[t] \ {s}, found[t])
       /\ UNCHANGED db /\ Plain
    \/ /\ At(t, VaultDeletes, "batch")
       /\ \E s \in VaultPending(t) :
            /\ db' = Without({s})
            /\ VaultDone(t, [seen[t] EXCEPT ![s] = Empty], todo[t], [found[t] EXCEPT ![s] = seen[t][s]])
       /\ Plain

VaultNext(t) ==
    \/ VaultGet(t) \/ VaultPut(t) \/ VaultDelete(t)
    \/ VaultGetMany(t) \/ VaultPutMany(t) \/ VaultDeleteMany(t)
    \/ VaultReadEntry(t) \/ VaultWriteEntry(t) \/ VaultDeleteEntry(t)
=============================================================================
