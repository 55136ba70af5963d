------------------------------ MODULE SqlTable -----------------------------
(***************************************************************************)
(* What the SQL backends share: the statements they send to a table with a  *)
(* row per entry.  A statement, or a transaction of several, is one step;   *)
(* on a table that is gone it fails.  made holds the parts of the schema.   *)
(***************************************************************************)
EXTENDS ServerStore

SqlReads == {"get", "ttl", "get_many", "ttl_many"}

\* The entry decodes, and the expiry in it is the one in its column.
SqlDecodes(d) == d.sound

SqlTableThere == "table" \in made

\* A step that leaves the schema alone; who holds the connection is up to the backend.
SqlPlain == UNCHANGED <<made, alien, known, now, rest, names>>

SqlFail(t) == Return(t, "error") /\ UNCHANGED db

\* Mutant: arguments are looked at once the rows are in.
SqlSettledLate(t, bad) ==
    /\ pc[t] = "begin"
    /\ bad \/ call[t].keys = <<>>
    /\ Return(t, IF bad THEN "invalid" ELSE "ok")
    /\ db' = (IF bad THEN Stored(Target(t), Prepared(t)) ELSE db) /\ SqlPlain

\* Arguments that are turned down, and batches that are empty, need no statement.
SqlSettled(t, bad) ==
    /\ pc[t] = "begin"
    /\ bad \/ call[t].keys = <<>>
    /\ Return(t, IF bad THEN "invalid" ELSE "ok")
    /\ UNCHANGED db /\ SqlPlain

SqlBad(t) == Doing(t, {"put", "put_many"}) /\ ~ValidTtl(call[t].ttl)

\* Mutant: what had expired is deleted by key.
SqlReadDroppingKeys(t, op) ==
    \/ /\ At(t, {op}, "begin") /\ Target(t) # {}
       /\ IF SqlTableThere THEN Fetch(t, \A s \in Target(t) : SqlDecodes(db[s])) ELSE Return(t, "error")
       /\ UNCHANGED db /\ SqlPlain
    \/ /\ At(t, {op}, "expiring")
       /\ db' = Without(todo[t])
       /\ Answer(t, found[t])
       /\ SqlPlain

\* SELECT, and DELETE of the expired rows as they were read.
SqlRead(t, op) ==
    \/ /\ At(t, {op}, "begin") /\ Target(t) # {}
       /\ IF SqlTableThere THEN Fetch(t, \A s \in Target(t) : SqlDecodes(db[s])) ELSE Return(t, "error")
       /\ UNCHANGED db /\ SqlPlain
    \/ /\ At(t, {op}, "expiring")
       /\ IF SqlTableThere THEN db' = Without(Unchanged(t, todo[t])) /\ Answer(t, found[t]) ELSE SqlFail(t)
       /\ SqlPlain

\* INSERT ... ON CONFLICT DO UPDATE, of one row or of a batch's.
SqlUpsert(t, op) ==
    /\ At(t, {op}, "begin") /\ Target(t) # {} /\ ~SqlBad(t)
    /\ IF SqlTableThere THEN db' = Stored(Target(t), Prepared(t)) /\ Return(t, "ok") ELSE SqlFail(t)
    /\ SqlPlain

\* DELETE; the rows it affected are counted, expired ones too.
SqlDelete(t, op) ==
    /\ At(t, {op}, "begin") /\ Target(t) # {}
    /\ IF SqlTableThere THEN db' = Without(Target(t)) /\ Answer(t, Of(Target(t))) ELSE SqlFail(t)
    /\ SqlPlain

\* SELECT of every expired row, then their DELETE as they were read.
SqlCull(t) ==
    \/ /\ At(t, {"cull"}, "begin")
       /\ IF ~SqlTableThere \/ \E s \in ExpiredOf(Slots) : ~SqlDecodes(db[s]) THEN Return(t, "error")
            ELSE Goto(t, IF ExpiredOf(Slots) = {} THEN "ok" ELSE "expiring",
                      Of(ExpiredOf(Slots)), ExpiredOf(Slots), Nothing)
       /\ UNCHANGED db /\ SqlPlain
    \/ /\ At(t, {"cull"}, "expiring")
       /\ IF SqlTableThere THEN db' = Without(Unchanged(t, todo[t])) /\ Return(t, "ok") ELSE SqlFail(t)
       /\ SqlPlain

\* SELECT of live rows.  The clock is read again for each of them, and one that has
\* expired since fails the call.
SqlSelectLive(t, S) ==
    /\ IF ~SqlTableThere \/ \E s \in S : ~SqlDecodes(db[s]) THEN Return(t, "error")
         ELSE Goto(t, "sifting", Of(S), S, Nothing)
    /\ UNCHANGED db /\ SqlPlain

SqlStillLive(t) == \A s \in todo[t] : ~Expired(seen[t][s])

SqlKeys(t) ==
    \/ /\ At(t, {"keys"}, "begin") /\ call[t].limit > 0
       /\ \E S \in Limited(LiveOf(In(call[t].coll)), call[t].limit) : SqlSelectLive(t, S)
    \/ /\ At(t, {"keys"}, "sifting")
       /\ IF SqlStillLive(t) THEN Answer(t, seen[t]) ELSE Return(t, "error")
       /\ UNCHANGED db /\ SqlPlain

\* Mutant: the limit is one on rows.
SqlCollectionsOfRows(t) ==
    \/ /\ At(t, {"collections"}, "begin")
       /\ \E S \in Limited(LiveOf(Slots), call[t].limit) : SqlSelectLive(t, S)
    \/ /\ At(t, {"collections"}, "sifting")
       /\ GoOn(t, "ok") /\ names' = [names EXCEPT ![t] = {s[1] : s \in todo[t]}]
       /\ UNCHANGED <<db, made, alien, known, now, rest>>

\* The rows of all collections, until as many collections as the limit allows are met.
SqlCollections(t) ==
    \/ /\ At(t, {"collections"}, "begin")
       /\ \E S \in SUBSET LiveOf(Slots) :
            /\ Cardinality({s[1] : s \in S}) <= call[t].limit
            /\ S # LiveOf(Slots) => Cardinality({s[1] : s \in S}) = call[t].limit
            /\ SqlSelectLive(t, S)
    \/ /\ At(t, {"collections"}, "sifting")
       /\ IF SqlStillLive(t)
            THEN GoOn(t, "ok") /\ names' = [names EXCEPT ![t] = {s[1] : s \in todo[t]}]
            ELSE Return(t, "error") /\ UNCHANGED names
       /\ UNCHANGED <<db, made, alien, known, now, rest>>

SqlDestroyCollection(t) ==
    /\ At(t, {"destroy_collection"}, "begin")
    /\ IF SqlTableThere THEN db' = Without(In(call[t].coll)) /\ Return(t, "ok") ELSE SqlFail(t)
    /\ SqlPlain

\* DROP TABLE, if the table was seen to exist; the schema's parts go with it.
SqlDestroy(t, parts) ==
    \/ /\ At(t, {"destroy"}, "begin")
       /\ GoOn(t, IF SqlTableThere THEN "dropping" ELSE "ok")
       /\ UNCHANGED db /\ SqlPlain
    \/ /\ At(t, {"destroy"}, "dropping")
       /\ IF parts \subseteq made
            THEN db' = Nothing /\ made' = {} /\ Return(t, "ok")
            ELSE SqlFail(t) /\ UNCHANGED made
       /\ UNCHANGED <<alien, known, now, rest, names>>

\* ensure_table with one connection: look for the table, create it with its index if it
\* is not there.
SqlCreateTable(t) ==
    \/ /\ At(t, {"setup"}, "begin")
       /\ GoOn(t, IF SqlTableThere THEN "inspecting" ELSE "creating")
       /\ UNCHANGED db /\ SqlPlain
    \/ /\ At(t, {"setup"}, "creating")
       /\ IF SqlTableThere THEN Return(t, "error") /\ UNCHANGED made
            ELSE GoOn(t, "inspecting") /\ made' = made \cup {"table", "index"}
       /\ UNCHANGED <<db, alien, known, now, rest, names>>

\* Its columns are compared with the expected ones (alien: they are others) ...
SqlInspectTable(t) ==
    /\ At(t, {"setup"}, "inspecting")
    /\ IF SqlTableThere /\ alien = {} THEN GoOn(t, "indexes") ELSE Return(t, "error")
    /\ UNCHANGED db /\ SqlPlain

\* ... and its indexes; a missing one is created.
SqlEnsureIndex(t) ==
    \/ /\ At(t, {"setup"}, "indexes")
       /\ GoOn(t, IF "index" \in made THEN "ok" ELSE "indexing")
       /\ UNCHANGED db /\ SqlPlain
    \/ /\ At(t, {"setup"}, "indexing")
       /\ IF SqlTableThere /\ "index" \notin made
            THEN Return(t, "ok") /\ made' = made \cup {"index"}
            ELSE Return(t, "error") /\ UNCHANGED made
       /\ UNCHANGED <<db, alien, known, now, rest, names>>
=============================================================================
