------------------------------ MODULE LocalLoop ----------------------------
(***************************************************************************)
(* What the file, embedded, keyring and Memcached backends share: batches   *)
(* taken key by key, in order (stage "item"), each key with a request of    *)
(* its own.                                                                 *)
(***************************************************************************)
EXTENDS ServerStore

LocalReads == {"get", "ttl", "get_many", "ttl_many"}

\* A step that leaves collections and the client's records alone.
LocalPlain == UNCHANGED <<made, alien, known, lock, now, names>>

\* Names that are too long, where the backend bounds them, and TTLs out of range.
LocalRejects(t, bounded) ==
    \/ bounded /\ TooLong(t)
    \/ Doing(t, Writes) /\ ~ValidTtl(call[t].ttl)

\* Mutant: what is in order is stored before the rest is turned down.
LocalRefuseLate(t, bounded) ==
    /\ pc[t] = "begin" /\ LocalRejects(t, bounded)
    /\ db' = (IF Doing(t, Writes) THEN Stored(Target(t), Prepared(t)) ELSE db)
    /\ Return(t, "invalid")
    /\ UNCHANGED rest /\ LocalPlain

LocalRefuse(t, bounded) ==
    /\ pc[t] = "begin" /\ LocalRejects(t, bounded)
    /\ Return(t, "invalid")
    /\ UNCHANGED <<db, rest>> /\ LocalPlain

\* The call begins its loop; at the end of it comes stage last.
Loop(t, last) ==
    /\ Goto(t, IF call[t].keys = <<>> THEN last ELSE "item", Nothing, {}, Nothing)
    /\ rest' = [rest EXCEPT ![t] = DOMAIN call[t].keys]

Advance(t, last, f) ==
    /\ Goto(t, IF rest[t] = {NextPosition(t)} THEN last ELSE "item", Nothing, {}, f)
    /\ rest' = [rest EXCEPT ![t] = @ \ {NextPosition(t)}]

Finding(t, s) == [found[t] EXCEPT ![s] = db[s]]

\* Mutant: expired or not.
ReadNextAny(t) ==
    /\ Advance(t, "ok", IF Present(db[NextSlot(t)]) THEN Finding(t, NextSlot(t)) ELSE found[t])
    /\ UNCHANGED db

\* The entry at the loop's key is read; an expired one is as good as none.
ReadNext(t) ==
    LET s == NextSlot(t) IN
    /\ IF Present(db[s]) /\ ~db[s].sound
         THEN Return(t, "error") /\ UNCHANGED rest
         ELSE Advance(t, "ok", IF Live(db[s]) THEN Finding(t, s) ELSE found[t])
    /\ UNCHANGED db

\* It is removed, and counted if it was there, expired or not.
RemoveNext(t) ==
    /\ db' = Without({NextSlot(t)})
    /\ Advance(t, "ok", IF Present(db[NextSlot(t)]) THEN Finding(t, NextSlot(t)) ELSE found[t])

\* Mutant: the last place is left out.
ListNextButLast(t, s) ==
    Goto(t, IF todo[t] = {s} THEN "ok" ELSE "listing", Nothing, todo[t] \ {s},
         IF todo[t] # {s} /\ Present(db[s]) THEN Finding(t, s) ELSE found[t])

\* A listing passes every place once: s is next.
ListNext(t, s) ==
    LET room == Cardinality({r \in Slots : Present(found[t][r])}) < call[t].limit IN
    Goto(t, IF todo[t] = {s} THEN "ok" ELSE "listing", Nothing, todo[t] \ {s},
         IF room /\ Present(db[s]) THEN Finding(t, s) ELSE found[t])
=============================================================================
