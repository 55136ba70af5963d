------------------------------ MODULE Postgres -----------------------------
(***************************************************************************)
(* store/postgres/store.rs, without its change feed (see ServerFeed).     *)
(* Writes are transactions, which take effect as a whole when they commit.  *)
(* A revision identifies the write that stored a row: it is the document's  *)
(* writer.  made also holds "revision", the column older tables lack, and   *)
(* "changes", the second table.                                             *)
(***************************************************************************)
EXTENDS SqlTable

PgWrites == {"put", "put_many", "delete", "delete_many", "compare_and_swap", "compare_and_delete",
             "destroy_collection"}
PgSwaps == {"compare_and_swap", "compare_and_delete"}

\* validate_text_identity, for every key; then the TTL.
PgRejects(t) ==
    \/ TooLong(t)
    \/ Doing(t, {"put", "put_many", "compare_and_swap"}) /\ ~ValidTtl(call[t].ttl)

PgSettled(t) ==
    /\ SqlSettled(t, PgRejects(t))
    /\ PgRejects(t) \/ Doing(t, SqlReads \cup {"put_many", "delete_many"})
PgNoLimit(t) == SqlSettled(t, FALSE) /\ Doing(t, {"keys", "collections"}) /\ call[t].limit = 0

\* record_changes: a transaction that writes cannot commit without the changes table.
PgRecorded == {"table", "revision", "changes"} \subseteq made
PgWriting(t) == Doing(t, PgWrites) /\ ~PgRecorded /\ pc[t] \in {"begin", "swapping"}
                    /\ ~PgRejects(t) /\ SqlFail(t) /\ SqlPlain

\* Between its condition and its report of a conflict a transaction keeps its locks: on the
\* table, against DROP and LOCK TABLE, and on the row if an INSERT has met it (ON CONFLICT
\* locks the row it does not update).
PgTableFree == \A t \in Tasks : ~At(t, PgSwaps, "fetching")
PgRowsKept ==
    \A t \in Tasks : At(t, PgSwaps, "fetching") /\ call[t].expected = Absent =>
        \A s \in Target(t) : db'[s] = db[s]

\* ensure_table: one transaction, which locks the table against everybody else, adds the
\* revision column to an older table, checks columns and constraints ...
PgEnsureColumns(t) ==
    /\ At(t, {"setup"}, "begin")
    /\ IF alien = {} THEN GoOn(t, "indexes") /\ made' = made \cup {"table", "revision"}
         ELSE Return(t, "error") /\ UNCHANGED made
    /\ PgTableFree /\ lock = NoTask /\ lock' = IF alien = {} THEN t ELSE NoTask
    /\ UNCHANGED <<db, alien, known, now, rest, names>>

\* ... and the index, and adds the changes table.
PgEnsureIndexAndChanges(t) ==
    /\ At(t, {"setup"}, "indexes")
    /\ made' = made \cup {"index", "changes"}
    /\ Return(t, "ok")
    /\ lock' = NoTask
    /\ UNCHANGED <<db, alien, known, now, rest, names>>

PgGet(t) == ~PgRejects(t) /\ SqlRead(t, "get")
PgTtl(t) == ~PgRejects(t) /\ SqlRead(t, "ttl")
PgGetMany(t) == ~PgRejects(t) /\ SqlRead(t, "get_many")
PgTtlMany(t) == ~PgRejects(t) /\ SqlRead(t, "ttl_many")
PgPut(t) == PgRecorded /\ ~PgRejects(t) /\ SqlUpsert(t, "put")
PgPutMany(t) == PgRecorded /\ ~PgRejects(t) /\ SqlUpsert(t, "put_many")
PgDelete(t) == PgRecorded /\ ~PgRejects(t) /\ SqlDelete(t, "delete")
PgDeleteMany(t) == PgRecorded /\ ~PgRejects(t) /\ SqlDelete(t, "delete_many")

\* get_with_revision: nothing is deleted on the way.
PgGetWithRevision(t) ==
    /\ At(t, {"get_with_revision"}, "begin") /\ ~PgRejects(t)
    /\ IF SqlTableThere /\ \A s \in Target(t) : SqlDecodes(db[s])
         THEN Answer(t, Of(LiveOf(Target(t))))
         ELSE Return(t, "error")
    /\ UNCHANGED db /\ SqlPlain

\* A transaction's now() is the time it began; the row's lock may come later.
PgBeginSwap(t) ==
    /\ At(t, PgSwaps, "begin") /\ ~PgRejects(t) /\ PgRecorded
    /\ GoOn(t, "swapping")
    /\ UNCHANGED db /\ SqlPlain

\* The row the statement's condition is about.
PgMatches(t, d) ==
    IF call[t].expected = Absent THEN ~Present(d) \/ ExpiredAt(d, since[t])
    ELSE d.writer = call[t].expected /\ ~ExpiredAt(d, since[t])

\* Mutant: the condition leaves the revision out.
PgSwapLive(t) ==
    /\ At(t, {"compare_and_swap"}, "swapping") /\ PgRecorded
    /\ db' = Stored(Target(t), Prepared(t))
    /\ Return(t, "ok")
    /\ SqlPlain

\* compare_and_swap: the condition is part of the statement that writes.  If it writes
\* nothing, the row is read for the report.
PgCompareAndSwap(t) ==
    /\ At(t, {"compare_and_swap"}, "swapping") /\ PgRecorded
    /\ IF \A s \in Target(t) : PgMatches(t, db[s])
         THEN db' = Stored(Target(t), Prepared(t)) /\ Return(t, "ok")
         ELSE UNCHANGED db /\ GoOn(t, "fetching")
    /\ SqlPlain

PgCompareAndDelete(t) ==
    /\ At(t, {"compare_and_delete"}, "swapping") /\ PgRecorded
    /\ IF \A s \in Target(t) : PgMatches(t, db[s])
         THEN db' = Without(Target(t)) /\ Return(t, "ok")
         ELSE UNCHANGED db /\ GoOn(t, "fetching")
    /\ SqlPlain

\* Mutant: whatever row there is.
PgCurrentRow(t) == Of(Target(t))

\* current_revisioned_value, for the report of a conflict.
PgCurrent(t) == Of(LiveOf(Target(t)))

\* Its statement, after that of the condition, in the same transaction.
PgConflict(t) ==
    /\ At(t, PgSwaps, "fetching")
    /\ IF \A s \in Target(t) : SqlDecodes(db[s])
         THEN Goto(t, "conflict", Nothing, {}, PgCurrent(t))
         ELSE Return(t, "error")
    /\ UNCHANGED db /\ SqlPlain

PgCull(t) == SqlCull(t)
PgKeys(t) == SqlKeys(t)
PgCollections(t) == SqlCollections(t)
PgDestroyCollection(t) == PgRecorded /\ SqlDestroyCollection(t)
PgDestroy(t) == (pc[t] = "dropping" => PgTableFree) /\ SqlDestroy(t, {"table", "changes"})

PgNext(t) ==
    \/ PgEnsureColumns(t) \/ PgEnsureIndexAndChanges(t)
    \/ /\ \/ PgSettled(t) \/ PgNoLimit(t) \/ PgWriting(t)
          \/ PgGet(t) \/ PgTtl(t) \/ PgGetMany(t) \/ PgTtlMany(t)
          \/ PgPut(t) \/ PgPutMany(t) \/ PgDelete(t) \/ PgDeleteMany(t)
          \/ PgGetWithRevision(t) \/ PgBeginSwap(t) \/ PgCompareAndSwap(t) \/ PgCompareAndDelete(t)
          \/ PgConflict(t)
          \/ PgCull(t) \/ PgKeys(t) \/ PgCollections(t) \/ PgDestroyCollection(t) \/ PgDestroy(t)
       /\ lock = NoTask /\ PgRowsKept
       /\ UNCHANGED lock
=============================================================================
