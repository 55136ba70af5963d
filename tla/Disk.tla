-------------------------------- MODULE Disk -------------------------------
(***************************************************************************)
(* store/disk/store.rs: a sled tree per collection.  made holds the trees.  *)
(* A handle on a tree that has been dropped fails.                          *)
(***************************************************************************)
EXTENDS LocalLoop

DiskTree(t) == call[t].coll \in made

DiskRefuse(t) == LocalRefuse(t, FALSE)

\* get_tree: open_tree creates the tree that is missing.
DiskOpenTree(t) ==
    /\ made' = made \cup {call[t].coll}
    /\ UNCHANGED <<db, alien, known, lock, now, names>>

DiskOpen(t) ==
    /\ At(t, LocalReads \cup Writes \cup Deletes, "begin") /\ ~LocalRejects(t, FALSE)
    /\ Loop(t, IF Doing(t, Writes) THEN "flushing" ELSE "ok") /\ DiskOpenTree(t)

DiskItem(t, op, Step) ==
    /\ At(t, {op}, "item")
    /\ IF DiskTree(t) THEN Step ELSE Return(t, "error") /\ UNCHANGED <<db, rest>>
    /\ LocalPlain

DiskGet(t) == DiskItem(t, "get", ReadNext(t))
DiskTtl(t) == DiskItem(t, "ttl", ReadNext(t))
DiskGetMany(t) == DiskItem(t, "get_many", ReadNext(t))
DiskTtlMany(t) == DiskItem(t, "ttl_many", ReadNext(t))
DiskDelete(t) == DiskItem(t, "delete", RemoveNext(t))
DiskDeleteMany(t) == DiskItem(t, "delete_many", RemoveNext(t))

DiskInsert(t) ==
    /\ db' = [db EXCEPT ![NextSlot(t)] = NewDoc(t, NextPosition(t), since[t])]
    /\ Advance(t, "flushing", found[t])

\* The tree is flushed before success is reported.
DiskFlush(t, op) ==
    At(t, {op}, "flushing") /\ Return(t, "ok") /\ UNCHANGED <<db, rest>> /\ LocalPlain

DiskPut(t) == DiskItem(t, "put", DiskInsert(t)) \/ DiskFlush(t, "put")
DiskPutMany(t) == DiskItem(t, "put_many", DiskInsert(t)) \/ DiskFlush(t, "put_many")

\* validate_tree_entries: every entry decodes.
DiskValid(S) == \A s \in S : s[1] \notin alien /\ (Present(db[s]) => db[s].sound)

\* cull: what has expired is collected from every tree (opened again by its name), and
\* only then removed, by key.
DiskCull(t) ==
    \/ /\ At(t, {"cull"}, "begin")
       /\ LET trees == {s \in Slots : s[1] \in made}
          IN  Goto(t, IF trees = {} THEN "ok" ELSE "checking", Nothing, trees, Nothing)
       /\ UNCHANGED <<db, rest>> /\ LocalPlain
    \/ /\ At(t, {"cull"}, "checking")
       /\ \E s \in todo[t] :
            LET o == [seen[t] EXCEPT ![s] = Of(ExpiredOf({s}))[s]]
                expired == {r \in Slots : Present(o[r])}
            IN  \/ s[1] \in made /\ ~DiskValid({s}) /\ Return(t, "error") /\ UNCHANGED made
                \/ s[1] \notin made /\ Return(t, "error") /\ UNCHANGED made
                \/ /\ s[1] \in made => DiskValid({s})
                   /\ made' = made \cup {s[1]}
                   /\ IF todo[t] # {s} THEN Goto(t, "checking", o, todo[t] \ {s}, Nothing)
                        ELSE Goto(t, IF expired = {} THEN "ok" ELSE "expiring", o, expired, Nothing)
       /\ UNCHANGED <<db, alien, clientVars, now, rest, names>>
    \/ /\ At(t, {"cull"}, "expiring")
       /\ \E s \in todo[t] :
            /\ db' = Without({s})
            /\ IF s[1] \in made
                 THEN Goto(t, IF todo[t] = {s} THEN "ok" ELSE "expiring", Nothing, todo[t] \ {s}, Nothing)
                 ELSE Return(t, "error")
       /\ UNCHANGED rest /\ LocalPlain

DiskKeys(t) ==
    \/ At(t, {"keys"}, "begin") /\ DiskOpenTree(t) /\ UNCHANGED rest
       /\ Goto(t, "listing", Nothing, In(call[t].coll), Nothing)
    \/ /\ At(t, {"keys"}, "listing")
       /\ IF DiskTree(t) /\ call[t].coll \notin alien
            THEN \E s \in todo[t] : ListNext(t, s) ELSE Return(t, "error")
       /\ UNCHANGED <<db, rest>> /\ LocalPlain

\* collections: the names of the trees, at once.
DiskCollections(t) ==
    /\ At(t, {"collections"}, "begin")
    /\ \E N \in Limited(made, call[t].limit) : names' = [names EXCEPT ![t] = N]
    /\ Return(t, "ok")
    /\ UNCHANGED <<serverVars, clientVars, now, rest>>

\* validate_tree for every tree to go (each is opened by its name), then drop_tree.
DiskDrop(t, op) ==
    \/ /\ At(t, {op}, "checking")
       /\ made' = made \cup rest[t]
       /\ GoOn(t, IF DiskValid({s \in Slots : s[1] \in rest[t]}) THEN "dropping" ELSE "error")
       /\ UNCHANGED <<db, alien, clientVars, now, rest, names>>
    \/ /\ At(t, {op}, "dropping")
       /\ \E c \in rest[t] :
            /\ db' = Without(In(c))
            /\ made' = made \ {c}
            /\ rest' = [rest EXCEPT ![t] = @ \ {c}]
            /\ GoOn(t, IF rest[t] = {c} THEN "ok" ELSE "dropping")
       /\ UNCHANGED <<alien, clientVars, now, names>>

\* destroy_collection: nothing is dropped unless every entry decodes.
DiskDestroyCollection(t) ==
    \/ /\ At(t, {"destroy_collection"}, "begin")
       /\ GoOn(t, IF DiskTree(t) THEN "checking" ELSE "ok")
       /\ rest' = [rest EXCEPT ![t] = {call[t].coll} \cap made]
       /\ UNCHANGED db /\ LocalPlain
    \/ DiskDrop(t, "destroy_collection")

\* destroy: the same for all trees: all are checked, then they are dropped one by one.
DiskDestroy(t) ==
    \/ /\ At(t, {"destroy"}, "begin")
       /\ GoOn(t, IF made # {} THEN "checking" ELSE "ok")
       /\ rest' = [rest EXCEPT ![t] = made]
       /\ UNCHANGED db /\ LocalPlain
    \/ DiskDrop(t, "destroy")

DiskNext(t) ==
    \/ DiskRefuse(t) \/ DiskOpen(t) \/ DiskGet(t) \/ DiskTtl(t) \/ DiskGetMany(t) \/ DiskTtlMany(t)
    \/ DiskPut(t) \/ DiskPutMany(t) \/ DiskDelete(t) \/ DiskDeleteMany(t) \/ DiskCull(t)
    \/ DiskKeys(t) \/ DiskCollections(t) \/ DiskDestroyCollection(t) \/ DiskDestroy(t)
=============================================================================
