---------------------------- MODULE EmbeddedSql ----------------------------
(***************************************************************************)
(* store/sqlite/store.rs and store/duckdb/store.rs, whose statements are    *)
(* the same.                                                                *)
(***************************************************************************)
EXTENDS SqlTable

-----------------------------------------------------------------------------
(* SQLite.  Calls of one process take turns at its connection; other       *)
(* processes may have the file open as well, so every task is given a      *)
(* connection of its own.                                                  *)

SqliteSettled(t) == SqlSettled(t, SqlBad(t)) /\ Doing(t, SqlReads \cup {"put", "put_many", "delete_many"})
SqliteNoLimit(t) == SqlSettled(t, FALSE) /\ Doing(t, {"keys", "collections"}) /\ call[t].limit = 0

SqliteCreateTable(t) == SqlCreateTable(t)
SqliteInspectTable(t) == SqlInspectTable(t)
SqliteEnsureIndex(t) == SqlEnsureIndex(t)
SqliteGet(t) == SqlRead(t, "get")
SqliteTtl(t) == SqlRead(t, "ttl")
SqlitePut(t) == SqlUpsert(t, "put")
SqliteDelete(t) == SqlDelete(t, "delete")
SqliteGetMany(t) == SqlRead(t, "get_many")
SqliteTtlMany(t) == SqlRead(t, "ttl_many")
SqlitePutMany(t) == SqlUpsert(t, "put_many")
SqliteDeleteMany(t) == SqlDelete(t, "delete_many")
SqliteCull(t) == SqlCull(t)
SqliteKeys(t) == SqlKeys(t)
SqliteCollections(t) == SqlCollections(t)
SqliteDestroyCollection(t) == SqlDestroyCollection(t)
SqliteDestroy(t) == SqlDestroy(t, {"table"})

SqliteNext(t) ==
    /\ \/ SqliteSettled(t) \/ SqliteNoLimit(t)
       \/ SqliteCreateTable(t) \/ SqliteInspectTable(t) \/ SqliteEnsureIndex(t)
       \/ SqliteGet(t) \/ SqliteTtl(t) \/ SqlitePut(t) \/ SqliteDelete(t)
       \/ SqliteGetMany(t) \/ SqliteTtlMany(t) \/ SqlitePutMany(t) \/ SqliteDeleteMany(t)
       \/ SqliteCull(t) \/ SqliteKeys(t) \/ SqliteCollections(t)
       \/ SqliteDestroyCollection(t) \/ SqliteDestroy(t)
    /\ UNCHANGED lock

-----------------------------------------------------------------------------
(* DuckDB.  The file has one process: a call keeps the connection's mutex  *)
(* from its first statement to its last, so that calls never interleave.   *)

DuckSettled(t) == SqlSettled(t, SqlBad(t)) /\ Doing(t, SqlReads \cup {"put", "put_many", "delete_many"})
DuckNoLimit(t) == SqlSettled(t, FALSE) /\ Doing(t, {"keys", "collections"}) /\ call[t].limit = 0

DuckCreateTable(t) == SqlCreateTable(t)
DuckInspectTable(t) == SqlInspectTable(t)
DuckEnsureIndex(t) == SqlEnsureIndex(t)
DuckGet(t) == SqlRead(t, "get")
DuckTtl(t) == SqlRead(t, "ttl")
DuckPut(t) == SqlUpsert(t, "put")
DuckDelete(t) == SqlDelete(t, "delete")
DuckGetMany(t) == SqlRead(t, "get_many")
DuckTtlMany(t) == SqlRead(t, "ttl_many")
DuckPutMany(t) == SqlUpsert(t, "put_many")
DuckDeleteMany(t) == SqlDelete(t, "delete_many")
DuckCull(t) == SqlCull(t)
DuckKeys(t) == SqlKeys(t)
DuckCollections(t) == SqlCollections(t)
DuckDestroyCollection(t) == SqlDestroyCollection(t)
DuckDestroy(t) == SqlDestroy(t, {"table"})

\* conn().lock(), released at the end of the call.
DuckConnection(t) ==
    /\ lock \in {NoTask, t}
    /\ lock' = IF pc'[t] \in Ended THEN NoTask ELSE t

DuckNext(t) ==
    /\ \/ DuckSettled(t) \/ DuckNoLimit(t)
       \/ DuckCreateTable(t) \/ DuckInspectTable(t) \/ DuckEnsureIndex(t)
       \/ DuckGet(t) \/ DuckTtl(t) \/ DuckPut(t) \/ DuckDelete(t)
       \/ DuckGetMany(t) \/ DuckTtlMany(t) \/ DuckPutMany(t) \/ DuckDeleteMany(t)
       \/ DuckCull(t) \/ DuckKeys(t) \/ DuckCollections(t)
       \/ DuckDestroyCollection(t) \/ DuckDestroy(t)
    /\ DuckConnection(t)
=============================================================================
