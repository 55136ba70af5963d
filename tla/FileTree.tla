------------------------------ MODULE FileTree -----------------------------
(***************************************************************************)
(* store/filetree/store.rs: a directory per collection in a base directory, *)
(* a file per entry.  made holds the directories ("base" the first).        *)
(* A file is truncated first and written then; between the two it holds     *)
(* nothing that decodes (sound is FALSE).                                   *)
(***************************************************************************)
EXTENDS LocalLoop

\* "base" stands for the base directory, which is no collection's.
ASSUME BaseAssumption == "base" \notin Collections

FtDirectory(t) == call[t].coll \in made

\* ensure_collection_dir: create_dir_all
FtEnsure(t) ==
    /\ made' = made \cup {"base", call[t].coll}
    /\ UNCHANGED <<db, alien, known, lock, now, names>>

\* Batches check every name before they touch the directory.
FtRefuse(t) == LocalRefuse(t, TRUE)
FtOpen(t) ==
    /\ At(t, LocalReads \cup Writes, "begin") /\ ~LocalRejects(t, TRUE)
    /\ Loop(t, "ok") /\ FtEnsure(t)

FtGet(t) == At(t, {"get"}, "item") /\ ReadNext(t) /\ LocalPlain
FtTtl(t) == At(t, {"ttl"}, "item") /\ ReadNext(t) /\ LocalPlain
FtGetMany(t) == At(t, {"get_many"}, "item") /\ ReadNext(t) /\ LocalPlain
FtTtlMany(t) == At(t, {"ttl_many"}, "item") /\ ReadNext(t) /\ LocalPlain

\* The file of an entry that does not decode, and has no expiry that could be read.
FtTorn(d) == [d EXCEPT !.expires = NoExpiry, !.sound = FALSE]

\* Mutant: the file is opened as it is.
FtOpenFile(t) ==
    IF FtDirectory(t)
      THEN /\ GoOn(t, "writing")
           /\ db' = [db EXCEPT ![NextSlot(t)] =
                IF Present(@) THEN @ ELSE FtTorn(NewDoc(t, NextPosition(t), since[t]))]
      ELSE Return(t, "error") /\ UNCHANGED db

\* write_entry: fs::write truncates the file, or creates it in a directory that exists ...
FtTruncate(t) ==
    IF FtDirectory(t)
      THEN /\ db' = [db EXCEPT ![NextSlot(t)] = FtTorn(NewDoc(t, NextPosition(t), since[t]))]
           /\ GoOn(t, "writing")
      ELSE Return(t, "error") /\ UNCHANGED db

\* ... and writes it.  A file removed meanwhile, also if there is another in its place, is
\* written in vain; over what another call has written, a longer entry's tail may stay.
FtWrite(t) ==
    LET s == NextSlot(t)
        d == NewDoc(t, NextPosition(t), since[t])
        own == db[s].writer = d.writer
    IN  /\ \E e \in IF own THEN {d} ELSE IF Present(db[s]) THEN {d, FtTorn(d), db[s]} ELSE {Empty} :
                db' = [db EXCEPT ![s] = e]
        /\ Advance(t, "ok", found[t])

FtPutEither(t, op) ==
    /\ \/ At(t, {op}, "item") /\ FtTruncate(t) /\ UNCHANGED rest
       \/ At(t, {op}, "writing") /\ FtWrite(t)
    /\ LocalPlain

FtPut(t) == FtPutEither(t, "put")
FtPutMany(t) == FtPutEither(t, "put_many")

\* Mutant: a file that was seen is counted, though it is gone when it is to be removed.
FtDeleteSeen(t, op) ==
    /\ \/ At(t, {op}, "begin") /\ UNCHANGED db /\ Loop(t, "ok")
       \/ At(t, {op}, "item") /\ Goto(t, "removing", Of({NextSlot(t)}), {}, found[t]) /\ UNCHANGED <<db, rest>>
       \/ At(t, {op}, "removing") /\ db' = Without({NextSlot(t)})
          /\ Advance(t, "ok", [found[t] EXCEPT ![NextSlot(t)] = seen[t][NextSlot(t)]])
    /\ LocalPlain

\* A directory that is missing is not created for a delete.
FtDeleteEither(t, op) ==
    /\ \/ At(t, {op}, "begin") /\ ~LocalRejects(t, TRUE) /\ UNCHANGED db
          /\ IF FtDirectory(t) THEN Loop(t, "ok") ELSE Return(t, "ok") /\ UNCHANGED rest
       \/ At(t, {op}, "item") /\ RemoveNext(t)
    /\ LocalPlain

FtDelete(t) == FtDeleteEither(t, "delete")
FtDeleteMany(t) == FtDeleteEither(t, "delete_many")

\* cull: every file of every directory is read, and removed by its name if it had expired.
FtCull(t) ==
    /\ \/ At(t, {"cull"}, "begin") /\ UNCHANGED db
          /\ IF "base" \in made THEN Goto(t, "passing", Nothing, Slots, Nothing) ELSE Return(t, "error")
       \/ /\ At(t, {"cull"}, "passing") /\ UNCHANGED db
          /\ \/ /\ alien \cap made # {} \/ \E s \in todo[t] : s[1] \notin made
                /\ Return(t, "error")
             \/ \E s \in todo[t] :
                  IF Present(db[s]) /\ ~db[s].sound THEN Return(t, "error")
                    ELSE Goto(t, IF s \in ExpiredOf(Slots) THEN "removing" ELSE "passing",
                              Of(ExpiredOf({s})), todo[t] \ {s}, Nothing)
             \/ todo[t] = {} /\ alien \cap made = {} /\ Return(t, "ok")
       \/ /\ At(t, {"cull"}, "removing")
          /\ db' = Without({s \in Slots : Present(seen[t][s])})
          /\ Goto(t, "passing", Nothing, todo[t], Nothing)
    /\ UNCHANGED rest /\ LocalPlain

\* keys: read_dir, after the directory has been made sure of; malformed names fail it.
FtKeys(t) ==
    \/ At(t, {"keys"}, "begin") /\ GoOn(t, "opening") /\ FtEnsure(t) /\ UNCHANGED rest
    \/ /\ \/ /\ At(t, {"keys"}, "opening")
             /\ IF FtDirectory(t) /\ call[t].coll \notin alien
                  THEN Goto(t, "listing", Nothing, In(call[t].coll), Nothing)
                  ELSE Return(t, "error")
          \/ At(t, {"keys"}, "listing") /\ \E s \in todo[t] : ListNext(t, s)
       /\ UNCHANGED <<db, rest>> /\ LocalPlain

\* Mutant: off by one.
FtTakeBefore(t, c) == IF Cardinality(names[t]) + 1 < call[t].limit THEN names[t] \cup {c} ELSE names[t]
FtTake(t, c) == IF Cardinality(names[t]) < call[t].limit THEN names[t] \cup {c} ELSE names[t]

\* collections: the directories in the base directory.
FtCollections(t) ==
    \/ /\ At(t, {"collections"}, "begin")
       /\ GoOn(t, IF "base" \in made THEN "listing" ELSE "error")
       /\ rest' = [rest EXCEPT ![t] = Collections]
       /\ UNCHANGED db /\ LocalPlain
    \/ /\ At(t, {"collections"}, "listing")
       /\ \E c \in rest[t] :
            /\ rest' = [rest EXCEPT ![t] = @ \ {c}]
            /\ names' = [names EXCEPT ![t] = IF c \in made THEN FtTake(t, c) ELSE @]
            /\ GoOn(t, IF rest[t] = {c} THEN "ok" ELSE "listing")
       /\ UNCHANGED <<serverVars, clientVars, now>>

\* remove_dir_all on directories: file by file, then each directory, which must be empty.
FtRemoveFile(t) ==
    /\ \E s \in todo[t] : s[1] \in rest[t] /\ db' = Without({s}) /\ Goto(t, pc[t], Nothing, todo[t] \ {s}, Nothing)
    /\ UNCHANGED rest /\ LocalPlain

FtRemoveDirectory(t, then) ==
    /\ \E c \in rest[t] :
        /\ In(c) \cap todo[t] = {}
        /\ IF \A s \in In(c) : ~Present(db[s])
             THEN /\ made' = made \ {c} /\ alien' = alien \ {c}
                  /\ GoOn(t, IF rest[t] = {c} THEN then ELSE pc[t])
             ELSE Return(t, "error") /\ UNCHANGED <<made, alien>>
        /\ rest' = [rest EXCEPT ![t] = @ \ {c}]
    /\ UNCHANGED <<db, known, lock, now, names>>

\* destroy_collection: every name is checked before anything is removed.
FtDestroyCollection(t) ==
    \/ /\ At(t, {"destroy_collection"}, "begin")
       /\ IF ~FtDirectory(t) THEN Return(t, "ok")
            ELSE IF call[t].coll \in alien THEN Return(t, "error")
            ELSE Goto(t, "removing", Nothing, In(call[t].coll), Nothing)
       /\ rest' = [rest EXCEPT ![t] = {call[t].coll}]
       /\ UNCHANGED db /\ LocalPlain
    \/ At(t, {"destroy_collection"}, "removing") /\ (FtRemoveFile(t) \/ FtRemoveDirectory(t, "ok"))

\* destroy: the base directory with all there is in it.
FtDestroy(t) ==
    \/ /\ At(t, {"destroy"}, "begin")
       /\ rest' = [rest EXCEPT ![t] = made \cap Collections]
       /\ Goto(t, IF "base" \notin made THEN "ok" ELSE IF made = {"base"} THEN "base" ELSE "removing",
               Nothing, Slots, Nothing)
       /\ UNCHANGED db /\ LocalPlain
    \/ At(t, {"destroy"}, "removing") /\ (FtRemoveFile(t) \/ FtRemoveDirectory(t, "base"))
    \/ /\ At(t, {"destroy"}, "base")
       /\ IF made = {"base"} THEN made' = {} /\ Return(t, "ok") ELSE UNCHANGED made /\ Return(t, "error")
       /\ UNCHANGED <<db, alien, clientVars, now, rest, names>>

FtNext(t) ==
    \/ FtRefuse(t) \/ FtOpen(t) \/ FtGet(t) \/ FtTtl(t) \/ FtGetMany(t) \/ FtTtlMany(t)
    \/ FtPut(t) \/ FtPutMany(t) \/ FtDelete(t) \/ FtDeleteMany(t) \/ FtCull(t) \/ FtKeys(t)
    \/ FtCollections(t) \/ FtDestroyCollection(t) \/ FtDestroy(t)
=============================================================================
