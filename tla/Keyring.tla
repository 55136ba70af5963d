------------------------------- MODULE Keyring ------------------------------
(***************************************************************************)
(* store/keyring/store.rs.  The credential store takes one request at a     *)
(* time, and other processes use it as well.                                *)
(***************************************************************************)
EXTENDS LocalLoop

\* The credentials for all keys are named before the first request.
KeyringRefuse(t) == LocalRefuse(t, TRUE)
KeyringOpen(t) ==
    /\ pc[t] = "begin" /\ ~LocalRejects(t, TRUE)
    /\ Loop(t, "ok")
    /\ UNCHANGED db /\ LocalPlain

\* get_secret; what had expired is deleted by its name.
KeyringRead(t, op) ==
    /\ \/ /\ At(t, {op}, "item") /\ UNCHANGED db
          /\ LET d == db[NextSlot(t)] IN
             IF Present(d) /\ d.sound /\ Expired(d)
               THEN GoOn(t, "expiring") /\ UNCHANGED rest
               ELSE ReadNext(t)
       \/ /\ At(t, {op}, "expiring")
          /\ db' = Without({NextSlot(t)})
          /\ Advance(t, "ok", found[t])
    /\ LocalPlain

KeyringGet(t) == KeyringRead(t, "get")
KeyringTtl(t) == KeyringRead(t, "ttl")
KeyringGetMany(t) == KeyringRead(t, "get_many")
KeyringTtlMany(t) == KeyringRead(t, "ttl_many")

KeyringSet(t, op) ==
    /\ At(t, {op}, "item")
    /\ db' = [db EXCEPT ![NextSlot(t)] = NewDoc(t, NextPosition(t), since[t])]
    /\ Advance(t, "ok", found[t])
    /\ LocalPlain

KeyringPut(t) == KeyringSet(t, "put")
KeyringPutMany(t) == KeyringSet(t, "put_many")
KeyringDelete(t) == At(t, {"delete"}, "item") /\ RemoveNext(t) /\ LocalPlain
KeyringDeleteMany(t) == At(t, {"delete_many"}, "item") /\ RemoveNext(t) /\ LocalPlain

KeyringNext(t) ==
    \/ KeyringRefuse(t) \/ KeyringOpen(t) \/ KeyringGet(t) \/ KeyringTtl(t) \/ KeyringGetMany(t)
    \/ KeyringTtlMany(t) \/ KeyringPut(t) \/ KeyringPutMany(t) \/ KeyringDelete(t) \/ KeyringDeleteMany(t)
=============================================================================
