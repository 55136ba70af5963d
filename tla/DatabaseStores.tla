-------------------------- MODULE DatabaseStores ---------------------------
(***************************************************************************)
(* The backends that run statements or scripts in a database: SQLite,       *)
(* DuckDB, Postgres, Redis and Valkey, one of them in use.                  *)
(***************************************************************************)
EXTENDS EmbeddedSql, Postgres, Redis

KeyValue == {"get", "ttl", "get_many", "ttl_many"} \cup Writes \cup Deletes
Whole == {"cull", "keys", "collections", "destroy_collection", "destroy"}
Swapping == PgSwaps \cup {"get_with_revision"}
RedisKind == {"redis", "redis, scoped", "valkey", "valkey, scoped"}
Supports(b) ==
    CASE b \in {"sqlite", "duckdb"} -> KeyValue \cup Whole \cup {"setup"}
      [] b = "postgres" -> KeyValue \cup Whole \cup Swapping \cup {"setup"}
      [] b \in RedisKind -> KeyValue \cup Whole \cup Swapping

\* What there may be before: a table of this version or an older one, a registry, or
\* entries from before there was one.
MadeFor(b) ==
    LET used == {c \in Collections : \E s \in In(c) : Present(db[s])}
        tables == {{"table", "index", "revision", "changes"}, {"table"}}
        none == IF db = Nothing /\ alien = {} THEN {{}} ELSE {}
    IN  IF b = "postgres" THEN tables \cup none
        ELSE IF b \in {"sqlite", "duckdb"} THEN {m \cap {"table", "index"} : m \in tables} \cup none
        ELSE IF b \in {"redis", "valkey"} THEN {used, {}} ELSE {used}

ASSUME BackendsAssumption == Backends \subseteq {"sqlite", "duckdb", "postgres"} \cup RedisKind

\* The revision a caller expects was given out for an entry.
ASSUME RevisionsAssumption ==
    \A c \in Calls : c.op \in PgSwaps => c.expected # Empty.writer

Init ==
    /\ StoreInit
    /\ made \in MadeFor(backend)
    /\ \A t \in Tasks :
        /\ call[t].op \in Supports(backend)
        /\ TooLong(t) => backend = "postgres"

BackendStep(t) ==
    \/ backend = "sqlite" /\ SqliteNext(t)
    \/ backend = "duckdb" /\ DuckNext(t)
    \/ backend = "postgres" /\ PgNext(t)
    \/ backend \in {"redis", "redis, scoped"} /\ RedisNext(t)
    \/ backend \in {"valkey", "valkey, scoped"} /\ ValkeyNext(t)

Next ==
    /\ \/ \E t \in Tasks : BackendStep(t) \/ Fail(t)
       \/ backend \notin RedisKind /\ Tick
       \/ backend \in RedisKind /\ RedisTick
    /\ Watch
    /\ UNCHANGED <<backend, call>>

Spec == Init /\ [][Next]_vars

-----------------------------------------------------------------------------
(* Properties *)

\* LiveKept: an expired row is deleted only as it was read, an expired key by the server
\* itself (get, get_many, cull).
ExpiryKeepsLive == [][LiveKept]_vars

\* An entry is reported as deleted by one call only (delete, delete_many).
DeletesCounted ==
    \A t, u \in Tasks : t # u /\ Done(t, Deletes) /\ Done(u, Deletes) => DeletedOnce(t, u)

\* keys leaves out what has expired, and only that.
KeysOfLive == \A t \in Tasks : Answers(t, {"keys"}) => KeysExact(t)

\* Of the calls that expect one revision of a key, one succeeds (compare_and_swap,
\* compare_and_delete).
SwapsExclusive ==
    \A t, u \in Tasks :
        /\ t # u /\ Done(t, PgSwaps) /\ Done(u, PgSwaps)
        /\ Target(t) = Target(u) /\ call[t].expected # Absent
        => call[t].expected # call[u].expected

\* What a conflict shows of the entry was there, live, while the call ran; and it shows none
\* only if there was none, or none that decodes, at some time during it.
ConflictsCurrent ==
    \A t \in Tasks : pc[t] = "conflict" /\ window[t] # Unwatched => \A s \in Target(t) :
        IF Present(found[t][s])
          THEN found[t][s] \in window[t][s] /\ ~ExpiredAt(found[t][s], since[t])
          ELSE \E d \in window[t][s] : ~Live(d) \/ ~d.sound

\* Every collection with a live entry that was written here is in the registry, unless
\* the keyspace is being destroyed (PUT and COMPARE_AND_SWAP scripts).
RegistryCovers ==
    backend \in RedisKind => \A s \in Slots :
        Live(db[s]) /\ db[s].writer[1] # NoTask =>
            s[1] \in made \/ \E u \in Tasks : Doing(u, {"destroy"}) /\ pc[u] # "begin"

\* SQL's collections have no registry that could be incomplete.
RowsGiveCollections == backend \notin RedisKind => CollectionsComplete

\* What a call answers was so while it ran: the values of reads, the entries that deletions
\* count, the keys and collections of listings, the entry a conflict shows.
AnswersTrue ==
    ReadsCurrent /\ DeletesCounted /\ KeysOfLive /\ RowsGiveCollections /\ ConflictsCurrent

\* What a call reports is done: a write that succeeds has stored its entries and one that
\* is rejected none, what destroy, destroy_collection and cull report as gone is gone.
EffectsDone == PutsLand /\ RejectedStoreNothing /\ DestroyedGone /\ CullComplete
=============================================================================
