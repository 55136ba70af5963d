------------------------ MODULE DatabaseStoresProofs -------------------------
(***************************************************************************)
(* Theorems about DatabaseStores: whatever the calls, the contents, the     *)
(* backend and the number of tasks, answers are true of a moment while the  *)
(* call ran, effects reported are done, conditional writes exclude each     *)
(* other and clean-ups spare what is live.                                  *)
(*                                                                         *)
(* The argument rests on one fact about documents, and one about calls.  A  *)
(* document is stored once: its writer is spent by then (Spent), so that    *)
(* what has left a slot does not come back.  And an answer is given by a    *)
(* step of the call itself, in which the window of the call takes in the    *)
(* contents before and after: what a call has gathered so far, stage by     *)
(* stage, is an invariant of its own (Gathered).                            *)
(***************************************************************************)
EXTENDS DatabaseStores, ServerStoreProofs

-----------------------------------------------------------------------------
(* The inductive invariant *)

OnRedis == backend \in RedisKind

\* The call may still store the item in that position.
Writable(u, i) ==
    u \in Tasks /\ (pc[u] \in {"begin", "swapping"} \/ (pc[u] = "batch" /\ i \in rest[u]))

\* No document of this writer will be stored from now on.
Spent(w) == ~Writable(w[1], w[2])

\* What is stored, was when a call began, or is expected by a call that succeeded.
DocsSpent ==
    /\ \A s \in Slots : Spent(db[s].writer)
    /\ \A t \in Tasks, s \in Slots : Spent(before[t][s].writer)

\* Redis' server has dropped what has expired.
Dropped ==
    OnRedis =>
        /\ \A s \in Slots : ~Expired(db[s])
        /\ \A t \in Tasks, s \in Slots : ~ExpiredAt(before[t][s], since[t])

\* What the loop of a call is over, by its operation; names on Redis are of the registry.
LoopsTyped ==
    /\ \A t \in Tasks :
        /\ IF Doing(t, {"collections"}) THEN rest[t] \subseteq Collections
           ELSE rest[t] \subseteq DOMAIN call[t].keys
        /\ pc[t] = "batch" => rest[t] # {}
    /\ OnRedis => made \subseteq Collections

\* A call that has not begun has found nothing; time goes on.
Begun(t) == (pc[t] = "begin" => found[t] = Nothing) /\ since[t] <= now

-----------------------------------------------------------------------------
(* What a call has gathered, by the stage it is in *)

\* f answers a read, ReadsCurrent's consequent.
AnswersRead(t, f) ==
    \A s \in Target(t) :
        IF Present(f[s]) THEN f[s] \in window[t][s] /\ ~ExpiredAt(f[s], since[t])
        ELSE \E d \in window[t][s] : ~Live(d)

\* All of f was there, live.
WasLive(t, f) ==
    \A s \in Slots : Present(f[s]) => f[s] \in window[t][s] /\ ~ExpiredAt(f[s], since[t])

\* f lists a collection, KeysExact.
AnswersKeys(t, f) ==
    /\ WasLive(t, f)
    /\ Cardinality({s \in Slots : Present(f[s])}) < call[t].limit =>
            \A s \in In(call[t].coll) : (\A d \in window[t][s] : Live(d)) => Present(f[s])

\* The rows of S give the collections.
AnswersCollections(t, S) ==
    Cardinality({s[1] : s \in S}) < call[t].limit =>
        \A s \in Slots : (\A d \in window[t][s] : Live(d)) => s \in S

\* What had been there and expired when the call began is still to be deleted, or gone.
CullLeft(t, S) ==
    \A s \in Slots : Present(before[t][s]) /\ ExpiredAt(before[t][s], since[t])
        => s \in S /\ seen[t][s] = before[t][s]

\* What was in the slots of S when the call began has left them.
Cleared(t, S) == \A s \in S : Present(before[t][s]) => db[s] # before[t][s]

\* A batch of writes: every item done with has been stored, and of a key's the last one stays.
BatchStored(t) ==
    LET past == DOMAIN call[t].keys \ rest[t] IN
    /\ \A i \in past, j \in rest[t] : i < j
    /\ \A i \in past : \E d \in window[t][<<call[t].coll, call[t].keys[i]>>] : d.writer = <<t, i>>
    /\ \A s \in Slots : db[s].writer[1] = t =>
            /\ s \in Target(t) /\ db[s].writer[2] \in past \cap Positions(t, s)
            /\ \A j \in past \cap Positions(t, s) : j <= db[s].writer[2]

Aging(t) == \A s \in todo[t] : Expired(seen[t][s])

\* get, get_many, ttl, ttl_many and cull of SQL, with expired rows to delete.
Reading(t) == At(t, SqlReads, "expiring") => Aging(t) /\ AnswersRead(t, found[t])
Culling(t) == At(t, {"cull"}, "expiring") => Aging(t) /\ CullLeft(t, todo[t])

\* keys and collections of SQL, with the rows in; keys of Redis, between rounds.
Listing(t) ==
    /\ At(t, {"keys"}, "sifting") => AnswersKeys(t, seen[t])
    /\ At(t, {"keys"}, "scanning") =>
        /\ WasLive(t, found[t])
        /\ \A s \in In(call[t].coll) \ todo[t] : Present(found[t][s]) \/ \E d \in window[t][s] : ~Live(d)
Tabling(t) ==
    /\ pc[t] = "begin" => names[t] = {}
    /\ At(t, {"collections"}, "sifting") => AnswersCollections(t, todo[t])

\* destroy_collection and destroy of Redis, between rounds.
Clearing(t) ==
    /\ At(t, {"destroy_collection"}, "scanning") => Cleared(t, In(call[t].coll) \ todo[t])
    /\ At(t, {"destroy_collection"}, "deleting") =>
        Cleared(t, {s \in In(call[t].coll) \ todo[t] : ~Present(seen[t][s])})
    /\ Doing(t, {"destroy"}) /\ pc[t] \in {"scanning", "passed"} => Cleared(t, Slots \ todo[t])

\* put_many of Redis, between items.
Batching(t) == OnRedis => ~TooLong(t) /\ (At(t, {"put_many"}, "batch") => BatchStored(t))

-----------------------------------------------------------------------------
(* What calls have taken out of the store *)

\* What a call counts as deleted is gone for good.
Counts(t) == Doing(t, Deletes) /\ pc[t] \in {"batch", "ok"}
CountedGone ==
    /\ \A t \in Tasks : Counts(t) => \A s \in Slots : Present(found[t][s]) =>
            Spent(found[t][s].writer) /\ db[s] # found[t][s]
    /\ \A t, u \in Tasks : t # u /\ Counts(t) /\ Counts(u) => DeletedOnce(t, u)

\* So is the revision that a call expected and found.
SwappedGone ==
    \A t \in Tasks : Done(t, PgSwaps) /\ call[t].expected # Absent =>
        Spent(call[t].expected) /\ \A s \in Target(t) : db[s].writer # call[t].expected

\* RegistryCovers, live or not.
Registered ==
    OnRedis => \A s \in Slots :
        Present(db[s]) /\ db[s].writer[1] # NoTask =>
            s[1] \in made \/ \E u \in Tasks : Doing(u, {"destroy"}) /\ pc[u] # "begin"

\* Rows are in the table.
Tabled == ~OnRedis /\ ~SqlTableThere => db = Nothing

Core ==
    /\ TypeOK /\ DocsSpent /\ Dropped /\ LoopsTyped
    /\ \A t \in Tasks : Begun(t)

-----------------------------------------------------------------------------
(* The steps of a call *)

OwnStep(t) == BackendStep(t) \/ Fail(t)

\* A call turned down, one with nothing to do, and one that fails.
Refused(t) == pc[t] = "begin" /\ Return(t, "invalid") /\ UNCHANGED db /\ SqlPlain

Trivial(t) ==
    /\ pc[t] = "begin" /\ call[t].keys = <<>>
    /\ Doing(t, SqlReads \cup {"put", "put_many", "delete_many"})
        \/ (Doing(t, {"keys", "collections"}) /\ call[t].limit = 0)
    /\ Return(t, "ok") /\ UNCHANGED db /\ SqlPlain

Failed(t) == pc[t] \notin Ended /\ Return(t, "error") /\ UNCHANGED db /\ SqlPlain

\* The steps that prepare a schema concern no document.
Schema(t) ==
    /\ Doing(t, {"setup"})
    /\ \/ SqlCreateTable(t) \/ SqlInspectTable(t) \/ SqlEnsureIndex(t)
       \/ PgEnsureColumns(t) \/ PgEnsureIndexAndChanges(t)

SqlSteps(t) ==
    \/ \E op \in SqlReads : SqlRead(t, op)
    \/ \E op \in Writes : SqlUpsert(t, op)
    \/ \E op \in Deletes : SqlDelete(t, op)
    \/ SqlCull(t) \/ SqlKeys(t) \/ SqlCollections(t) \/ SqlDestroyCollection(t)
    \/ \E parts \in SUBSET {"table", "changes"} : SqlDestroy(t, parts)
    \/ PgGetWithRevision(t)
    \/ PgBeginSwap(t) \/ PgCompareAndSwap(t) \/ PgCompareAndDelete(t) \/ PgConflict(t)

RedisSteps(t) ==
    \/ RedisGet(t) \/ RedisGetMany(t) \/ RedisGetWithRevision(t)
    \/ RedisBatch(t) \/ RedisPut(t) \/ RedisPutMany(t) \/ RedisDelete(t) \/ RedisDeleteMany(t)
    \/ RedisCompareAndSwap(t) \/ RedisCompareAndDelete(t) \/ RedisCull(t) \/ RedisKeys(t)
    \/ RedisCollections(t) \/ RedisDestroyCollection(t) \/ RedisDestroy(t)

LEMMA StepCases ==
    ASSUME NEW t \in Tasks, OwnStep(t)
    PROVE  \/ Refused(t) \/ Trivial(t) \/ Failed(t)
           \/ ~OnRedis /\ (Schema(t) \/ SqlSteps(t))
           \/ OnRedis /\ RedisSteps(t)
<1>1. CASE Fail(t)
  BY <1>1 DEF Fail, Failed, SqlPlain, serverVars
<1>2. ASSUME NEW bad \in BOOLEAN, SqlSettled(t, bad),
             bad \/ Doing(t, SqlReads \cup {"put", "put_many", "delete_many"})
                 \/ (Doing(t, {"keys", "collections"}) /\ call[t].limit = 0)
      PROVE  Refused(t) \/ Trivial(t)
  BY <1>2 DEF SqlSettled, Refused, Trivial
<1>3. CASE backend = "sqlite" /\ SqliteNext(t)
  <2>1. CASE SqliteSettled(t)
    BY <1>2, <2>1 DEF SqliteSettled, SqlBad
  <2>2. CASE SqliteNoLimit(t)
    BY <1>2, <2>2 DEF SqliteNoLimit
  <2>3. CASE SqliteCreateTable(t) \/ SqliteInspectTable(t) \/ SqliteEnsureIndex(t)
    BY <1>3, <2>3 DEF SqliteCreateTable, SqliteInspectTable, SqliteEnsureIndex, Schema, OnRedis, RedisKind,
                      SqlCreateTable, SqlInspectTable, SqlEnsureIndex, At
  <2>4. CASE \/ SqliteGet(t) \/ SqliteTtl(t) \/ SqlitePut(t) \/ SqliteDelete(t)
             \/ SqliteGetMany(t) \/ SqliteTtlMany(t) \/ SqlitePutMany(t) \/ SqliteDeleteMany(t)
             \/ SqliteCull(t) \/ SqliteKeys(t) \/ SqliteCollections(t)
             \/ SqliteDestroyCollection(t) \/ SqliteDestroy(t)
    BY <1>3, <2>4 DEF SqliteGet, SqliteTtl, SqlitePut, SqliteDelete, SqliteGetMany, SqliteTtlMany,
                      SqlitePutMany, SqliteDeleteMany, SqliteCull, SqliteKeys, SqliteCollections,
                      SqliteDestroyCollection, SqliteDestroy, SqlSteps, SqlReads, Writes, Deletes, OnRedis, RedisKind
  <2>. QED  BY <1>3, <2>1, <2>2, <2>3, <2>4 DEF SqliteNext
<1>4. CASE backend = "duckdb" /\ DuckNext(t)
  <2>1. CASE DuckSettled(t)
    BY <1>2, <2>1 DEF DuckSettled, SqlBad
  <2>2. CASE DuckNoLimit(t)
    BY <1>2, <2>2 DEF DuckNoLimit
  <2>3. CASE DuckCreateTable(t) \/ DuckInspectTable(t) \/ DuckEnsureIndex(t)
    BY <1>4, <2>3 DEF DuckCreateTable, DuckInspectTable, DuckEnsureIndex, Schema, OnRedis, RedisKind,
                      SqlCreateTable, SqlInspectTable, SqlEnsureIndex, At
  <2>4. CASE \/ DuckGet(t) \/ DuckTtl(t) \/ DuckPut(t) \/ DuckDelete(t)
             \/ DuckGetMany(t) \/ DuckTtlMany(t) \/ DuckPutMany(t) \/ DuckDeleteMany(t)
             \/ DuckCull(t) \/ DuckKeys(t) \/ DuckCollections(t)
             \/ DuckDestroyCollection(t) \/ DuckDestroy(t)
    BY <1>4, <2>4 DEF DuckGet, DuckTtl, DuckPut, DuckDelete, DuckGetMany, DuckTtlMany,
                      DuckPutMany, DuckDeleteMany, DuckCull, DuckKeys, DuckCollections,
                      DuckDestroyCollection, DuckDestroy, SqlSteps, SqlReads, Writes, Deletes, OnRedis, RedisKind
  <2>. QED  BY <1>4, <2>1, <2>2, <2>3, <2>4 DEF DuckNext
<1>5. CASE backend = "postgres" /\ PgNext(t)
  <2>1. CASE PgSettled(t)
    BY <1>2, <2>1 DEF PgSettled, PgRejects, TooLong, Doing
  <2>2. CASE PgNoLimit(t)
    BY <1>2, <2>2 DEF PgNoLimit
  <2>3. CASE PgWriting(t)
    BY <2>3 DEF PgWriting, SqlFail, Failed, Ended
  <2>4. CASE PgEnsureColumns(t) \/ PgEnsureIndexAndChanges(t)
    BY <1>5, <2>4 DEF Schema, OnRedis, RedisKind, PgEnsureColumns, PgEnsureIndexAndChanges, At
  <2>5. CASE \/ PgGet(t) \/ PgTtl(t) \/ PgGetMany(t) \/ PgTtlMany(t)
             \/ PgPut(t) \/ PgPutMany(t) \/ PgDelete(t) \/ PgDeleteMany(t)
    BY <1>5, <2>5 DEF PgGet, PgTtl, PgGetMany, PgTtlMany, PgPut, PgPutMany, PgDelete, PgDeleteMany,
                      SqlSteps, SqlReads, Writes, Deletes, OnRedis, RedisKind
  <2>6. CASE \/ PgGetWithRevision(t) \/ PgBeginSwap(t) \/ PgCompareAndSwap(t) \/ PgCompareAndDelete(t)
             \/ PgConflict(t) \/ PgCull(t) \/ PgKeys(t) \/ PgCollections(t) \/ PgDestroyCollection(t) \/ PgDestroy(t)
    BY <1>5, <2>6 DEF PgCull, PgKeys, PgCollections, PgDestroyCollection, PgDestroy, SqlSteps, OnRedis, RedisKind
  <2>. QED  BY <1>5, <2>1, <2>2, <2>3, <2>4, <2>5, <2>6 DEF PgNext
<1>6. CASE OnRedis /\ (RedisNext(t) \/ ValkeyNext(t))
  <2>1. CASE RedisRefuse(t)
    BY <2>1 DEF RedisRefuse, Refused, RedisStep, SqlPlain
  <2>2. CASE RedisSteps(t)
    BY <1>6, <2>2
  <2>3. RedisNext(t) => RedisRefuse(t) \/ RedisSteps(t)
    BY DEF RedisNext, RedisSteps
  <2>4. ValkeyNext(t) => RedisNext(t)
    BY DEF ValkeyNext, RedisNext, ValkeyGet, ValkeyGetMany, ValkeyGetWithRevision, ValkeyPut, ValkeyPutMany,
           ValkeyDelete, ValkeyDeleteMany, ValkeyCompareAndSwap, ValkeyCompareAndDelete, ValkeyCull, ValkeyKeys,
           ValkeyCollections, ValkeyDestroyCollection, ValkeyDestroy
  <2>. QED  BY <1>6, <2>1, <2>2, <2>3, <2>4
<1>7. backend \in {"redis", "redis, scoped", "valkey", "valkey, scoped"} => OnRedis
  BY DEF OnRedis, RedisKind
<1>. QED  BY <1>1, <1>3, <1>4, <1>5, <1>6, <1>7 DEF OwnStep, BackendStep

\* A step concerns its own call (Moves), which has not returned and does not begin again,
\* nor return to what it has done,
Ordered(t) ==
    /\ pc[t] \notin Ended /\ pc'[t] # "begin" /\ now' = now
    /\ pc'[t] = "swapping" => pc[t] = "begin"
    /\ pc'[t] = "batch" =>
            rest'[t] # {} /\ (pc[t] = "begin" \/ (pc[t] = "batch" /\ rest'[t] \subseteq rest[t]))

\* stores, if anything, what it could store before and cannot store after,
Effect(t) ==
    /\ db' \in [Slots -> Doc]
    /\ \A s \in Slots : db'[s] # db[s] /\ db'[s] # Empty =>
            \E i \in DOMAIN call[t].keys :
                /\ db'[s] = NewDoc(t, i, now) /\ Writable(t, i)
                /\ pc'[t] \notin {"begin", "swapping"} /\ (pc'[t] = "batch" => i \notin rest'[t])

\* and leaves everything of its type.
Typed(t) ==
    /\ pc'[t] \in Stages
    /\ seen'[t] \in [Slots -> Doc] /\ found'[t] \in [Slots -> Doc]
    /\ todo'[t] \subseteq Slots /\ names'[t] \subseteq Collections
    /\ alien' \subseteq Collections
    /\ IF Doing(t, {"collections"}) THEN rest'[t] \subseteq Collections ELSE rest'[t] \subseteq DOMAIN call[t].keys
    /\ OnRedis => made' \subseteq Collections

Legal(t) == Moves(t) /\ Ordered(t) /\ Effect(t) /\ Typed(t)

\* A step that stores nothing and goes nowhere special.
Quiet(t) ==
    /\ pc[t] \notin Ended
    /\ db' \in [Slots -> Doc] /\ \A s \in Slots : db'[s] \in {db[s], Empty}
    /\ UNCHANGED <<rest, names>> /\ now' = now /\ alien' \subseteq Collections
    /\ OnRedis => made' \subseteq Collections

Onward == Stages \ {"begin", "swapping", "batch"}

Going(t) ==
    \E stage \in Onward, o \in [Slots -> Doc], d \in SUBSET Slots, f \in [Slots -> Doc] : Goto(t, stage, o, d, f)

LEMMA QuietStep ==
    ASSUME TypeOK, LoopsTyped, NEW t \in Tasks, Quiet(t), Going(t)
    PROVE  Legal(t)
<1>. PICK stage \in Onward, o \in [Slots -> Doc], d \in SUBSET Slots, f \in [Slots -> Doc] :
        Goto(t, stage, o, d, f)
  BY DEF Going
<1>1. pc'[t] = stage /\ seen'[t] = o /\ todo'[t] = d /\ found'[t] = f
  BY DEF Goto, TypeOK
<1>2. Moves(t)
  BY DEF Moves, Goto, TypeOK, Quiet
<1>3. Ordered(t)
  BY <1>1 DEF Ordered, Quiet, Onward, Stages
<1>4. Effect(t)
  BY DEF Effect, Quiet
<1>5. Typed(t)
  BY <1>1 DEF Typed, LoopsTyped, TypeOK, Quiet, Onward
<1>. QED  BY <1>2, <1>3, <1>4, <1>5 DEF Legal

LEMMA StoringStep ==
    ASSUME TypeOK, LoopsTyped, NEW t \in Tasks, pc[t] \in {"begin", "swapping"},
           Return(t, "ok"), db' = Stored(Target(t), Prepared(t)),
           UNCHANGED <<rest, names>>, now' = now, alien' \in SUBSET Collections, OnRedis => made' \subseteq Collections
    PROVE  Legal(t)
<1>1. pc'[t] = "ok" /\ seen'[t] = Nothing /\ todo'[t] = {} /\ found'[t] = found[t]
  BY DEF Return, Goto, TypeOK
<1>2. Moves(t)
  BY DEF Moves, Return, Goto, TypeOK
<1>3. Ordered(t)
  BY <1>1 DEF Ordered, Ended
<1>4. Effect(t)
  <2>1. ASSUME NEW s \in Slots, db'[s] # db[s]
        PROVE  s \in Target(t)
    BY <2>1, StoredFacts
  <2>2. ASSUME NEW s \in Target(t)
        PROVE  LastPosition(t, s) \in DOMAIN call[t].keys /\ db'[s] = NewDoc(t, LastPosition(t, s), now)
    BY StoredFacts
  <2>3. \A i : Writable(t, i)
    BY DEF Writable
  <2>4. db' \in [Slots -> Doc]
    BY StoredFacts
  <2>. HIDE DEF NewDoc, LastPosition
  <2>. QED  BY <1>1, <2>1, <2>2, <2>3, <2>4 DEF Effect
<1>5. Typed(t)
  <2>1. Nothing \in [Slots -> Doc] /\ found[t] \in [Slots -> Doc] /\ {} \subseteq Slots
    BY DocFacts DEF TypeOK
  <2>. QED  BY <1>1, <2>1 DEF Typed, LoopsTyped, TypeOK, Stages, Ended
<1>. QED  BY <1>2, <1>3, <1>4, <1>5 DEF Legal

\* What the steps may leave in db.
LEMMA DbFacts ==
    ASSUME TypeOK
    PROVE  /\ db \in [Slots -> Doc] /\ \A s \in Slots : db[s] \in {db[s], Empty}
           /\ \A S : Without(S) \in [Slots -> Doc] /\ \A s \in Slots : Without(S)[s] \in {db[s], Empty}
           /\ Nothing \in [Slots -> Doc] /\ \A s \in Slots : Nothing[s] \in {db[s], Empty}
           /\ alien \in SUBSET Collections /\ \A t \in Tasks : found[t] \in [Slots -> Doc] /\ seen[t] \in [Slots -> Doc]
           /\ \A t \in Tasks : todo[t] \in SUBSET Slots /\ Target(t) \in SUBSET Slots
           /\ \A S : ExpiredOf(S) \subseteq S /\ LiveOf(S) \subseteq S
<1>. QED  BY DocFacts DEF TypeOK, Without, Nothing, Target, ExpiredOf, LiveOf

\* The ways a step ends.
LEMMA GoingFacts ==
    ASSUME TypeOK, NEW t \in Tasks
    PROVE  /\ \A how \in Onward : Return(t, how) => Going(t)
           /\ \A how \in Onward : GoOn(t, how) => Going(t)
           /\ \A f \in [Slots -> Doc] : Answer(t, f) => Going(t)
           /\ \A stage \in Onward, o \in [Slots -> Doc], d \in SUBSET Slots, f \in [Slots -> Doc] :
                Goto(t, stage, o, d, f) => Going(t)
<1>1. \A stage \in Onward, o \in [Slots -> Doc], d \in SUBSET Slots, f \in [Slots -> Doc] :
        Goto(t, stage, o, d, f) => Going(t)
  BY DEF Going
<1>2. /\ Nothing \in [Slots -> Doc] /\ found[t] \in [Slots -> Doc] /\ seen[t] \in [Slots -> Doc]
      /\ todo[t] \in SUBSET Slots /\ {} \in SUBSET Slots /\ "ok" \in Onward
  BY DbFacts DEF Onward, Stages, Ended
<1>3. \A how \in Onward : Return(t, how) => Going(t)
  BY <1>1, <1>2 DEF Return
<1>4. \A how \in Onward : GoOn(t, how) => Going(t)
  BY <1>1, <1>2 DEF GoOn
<1>5. \A f \in [Slots -> Doc] : Answer(t, f) => Going(t)
  BY <1>1, <1>2 DEF Answer
<1>. QED  BY <1>1, <1>3, <1>4, <1>5

LEMMA PlainLegal ==
    ASSUME TypeOK, LoopsTyped, NEW t \in Tasks, Refused(t) \/ Trivial(t) \/ Failed(t)
    PROVE  Legal(t)
<1>1. Going(t)
  <2>1. Return(t, "invalid") \/ Return(t, "ok") \/ Return(t, "error")
    BY DEF Refused, Trivial, Failed
  <2>. QED  BY <2>1, GoingFacts DEF Onward, Stages, Ended
<1>2. Quiet(t)
  BY DbFacts DEF Refused, Trivial, Failed, SqlPlain, LoopsTyped, Ended, Quiet
<1>. QED  BY <1>1, <1>2, QuietStep

LEMMA SchemaLegal ==
    ASSUME TypeOK, LoopsTyped, NEW t \in Tasks, ~OnRedis, Schema(t)
    PROVE  Legal(t)
<1>1. Quiet(t)
  BY DbFacts DEF Schema, SqlCreateTable, SqlInspectTable, SqlEnsureIndex, PgEnsureColumns, PgEnsureIndexAndChanges,
                 SqlPlain, At, Ended, Quiet
<1>2. Going(t)
  <2>1. \/ GoOn(t, "inspecting") \/ GoOn(t, "creating") \/ GoOn(t, "indexes") \/ GoOn(t, "indexing")
        \/ GoOn(t, "ok") \/ Return(t, "error") \/ Return(t, "ok")
    BY DEF Schema, SqlCreateTable, SqlInspectTable, SqlEnsureIndex, PgEnsureColumns, PgEnsureIndexAndChanges
  <2>. QED  BY <2>1, GoingFacts DEF Onward, Stages, Ended
<1>. QED  BY <1>1, <1>2, QuietStep

LEMMA SqlReadLegal ==
    ASSUME TypeOK, LoopsTyped, NEW t \in Tasks, ~OnRedis,
           (\E op \in SqlReads : SqlRead(t, op)) \/ PgGetWithRevision(t) \/ SqlCull(t)
           \/ (\E op \in Deletes : SqlDelete(t, op)) \/ SqlDestroyCollection(t)
    PROVE  Legal(t)
<1>0. \A S \in SUBSET Slots : [s \in Slots |-> IF s \in LiveOf(S) THEN db[s] ELSE found[t][s]] \in [Slots -> Doc]
  BY DbFacts
<1>1. ASSUME NEW op \in SqlReads, SqlRead(t, op)
      PROVE  Quiet(t) /\ Going(t)
  <2>1. Quiet(t)
    BY <1>1, DbFacts DEF SqlRead, SqlFail, SqlPlain, At, Ended, Quiet
  <2>2. Fetch(t, \A s \in Target(t) : SqlDecodes(db[s])) => Going(t)
    BY <1>0, DbFacts, DocFacts, GoingFacts DEF Fetch, Onward, Stages, Ended
  <2>3. Fetch(t, \A s \in Target(t) : SqlDecodes(db[s])) \/ Return(t, "error") \/ Answer(t, found[t])
    BY <1>1 DEF SqlRead, SqlFail
  <2>. QED  BY <2>1, <2>2, <2>3, DbFacts, GoingFacts DEF Onward, Stages, Ended
<1>2. ASSUME PgGetWithRevision(t)
      PROVE  Quiet(t) /\ Going(t)
  <2>1. Quiet(t)
    BY <1>2, DbFacts DEF PgGetWithRevision, SqlPlain, At, Ended, Quiet
  <2>2. Answer(t, Of(LiveOf(Target(t)))) \/ Return(t, "error")
    BY <1>2 DEF PgGetWithRevision
  <2>. QED  BY <2>1, <2>2, DocFacts, GoingFacts DEF Onward, Stages, Ended
<1>3. ASSUME SqlCull(t)
      PROVE  Quiet(t) /\ Going(t)
  <2>1. Quiet(t)
    BY <1>3, DbFacts DEF SqlCull, SqlFail, SqlPlain, At, Ended, Quiet
  <2>2. \/ Goto(t, "ok", Of(ExpiredOf(Slots)), ExpiredOf(Slots), Nothing)
        \/ Goto(t, "expiring", Of(ExpiredOf(Slots)), ExpiredOf(Slots), Nothing)
        \/ Return(t, "ok") \/ Return(t, "error")
    BY <1>3 DEF SqlCull, SqlFail
  <2>3. Of(ExpiredOf(Slots)) \in [Slots -> Doc] /\ ExpiredOf(Slots) \in SUBSET Slots /\ Nothing \in [Slots -> Doc]
    BY DbFacts, DocFacts
  <2>. QED  BY <2>1, <2>2, <2>3, GoingFacts DEF Onward, Stages, Ended
<1>4. ASSUME NEW op \in Deletes, SqlDelete(t, op)
      PROVE  Quiet(t) /\ Going(t)
  <2>1. Quiet(t)
    BY <1>4, DbFacts DEF SqlDelete, SqlFail, SqlPlain, At, Ended, Quiet
  <2>2. Answer(t, Of(Target(t))) \/ Return(t, "error")
    BY <1>4 DEF SqlDelete, SqlFail
  <2>. QED  BY <2>1, <2>2, DocFacts, GoingFacts DEF Onward, Stages, Ended
<1>5. ASSUME SqlDestroyCollection(t)
      PROVE  Quiet(t) /\ Going(t)
  <2>1. Quiet(t)
    BY <1>5, DbFacts DEF SqlDestroyCollection, SqlFail, SqlPlain, At, Ended, Quiet
  <2>2. Return(t, "ok") \/ Return(t, "error")
    BY <1>5 DEF SqlDestroyCollection, SqlFail
  <2>. QED  BY <2>1, <2>2, GoingFacts DEF Onward, Stages, Ended
<1>. QED  BY <1>1, <1>2, <1>3, <1>4, <1>5, QuietStep

LEMMA SqlListLegal ==
    ASSUME TypeOK, LoopsTyped, NEW t \in Tasks, ~OnRedis,
           SqlKeys(t) \/ SqlCollections(t) \/ \E parts \in SUBSET {"table", "changes"} : SqlDestroy(t, parts)
    PROVE  Legal(t)
<1>0. ASSUME NEW S \in SUBSET LiveOf(Slots), SqlSelectLive(t, S)
      PROVE  Going(t) /\ UNCHANGED db /\ SqlPlain
  <2>1. Return(t, "error") \/ Goto(t, "sifting", Of(S), S, Nothing)
    BY <1>0 DEF SqlSelectLive
  <2>2. Of(S) \in [Slots -> Doc] /\ S \in SUBSET Slots /\ Nothing \in [Slots -> Doc]
    BY DbFacts, DocFacts
  <2>. QED  BY <1>0, <2>1, <2>2, GoingFacts DEF Onward, Stages, Ended, SqlSelectLive
<1>1. ASSUME SqlKeys(t)
      PROVE  Quiet(t) /\ Going(t)
  <2>0. \A S \in Limited(LiveOf(In(call[t].coll)), call[t].limit) : S \in SUBSET LiveOf(Slots)
    BY DEF Limited, LiveOf, In
  <2>1. \/ \E S \in SUBSET LiveOf(Slots) : SqlSelectLive(t, S)
        \/ (Answer(t, seen[t]) \/ Return(t, "error")) /\ UNCHANGED db /\ SqlPlain
    BY <1>1, <2>0 DEF SqlKeys
  <2>2. Going(t) /\ UNCHANGED db /\ SqlPlain
    BY <1>0, <2>1, DbFacts, GoingFacts DEF Onward, Stages, Ended
  <2>3. pc[t] \notin Ended
    BY <1>1 DEF SqlKeys, At, Ended
  <2>. QED  BY <2>2, <2>3, DbFacts DEF Quiet, SqlPlain
<1>2. ASSUME SqlCollections(t)
      PROVE  Legal(t)
  <2>1. CASE \E S \in SUBSET LiveOf(Slots) : SqlSelectLive(t, S)
    <3>1. Going(t) /\ UNCHANGED db /\ SqlPlain
      BY <1>0, <2>1
    <3>2. pc[t] \notin Ended
      BY <1>2 DEF SqlCollections, At, Ended
    <3>3. Quiet(t)
      BY <3>1, <3>2, DbFacts DEF Quiet, SqlPlain
    <3>. QED  BY <3>1, <3>3, QuietStep
  <2>2. CASE /\ At(t, {"collections"}, "sifting") /\ GoOn(t, "ok")
             /\ names' = [names EXCEPT ![t] = {s[1] : s \in todo[t]}]
             /\ UNCHANGED <<db, made, alien, known, now, rest>>
    <3>1. pc'[t] = "ok" /\ seen'[t] = seen[t] /\ todo'[t] = todo[t] /\ found'[t] = found[t]
          /\ names'[t] = {s[1] : s \in todo[t]}
      BY <2>2 DEF GoOn, Goto, TypeOK
    <3>2. names'[t] \subseteq Collections
      BY <3>1, SlotsAssumption DEF TypeOK
    <3>3. Moves(t)
      BY <2>2 DEF GoOn, Goto, Moves, TypeOK
    <3>4. Ordered(t) /\ Effect(t)
      BY <2>2, <3>1, DbFacts DEF At, Ordered, Effect, Ended
    <3>5. Typed(t)
      BY <2>2, <3>1, <3>2, DbFacts DEF Typed, Stages, Ended, LoopsTyped
    <3>. QED  BY <3>3, <3>4, <3>5 DEF Legal
  <2>3. CASE /\ At(t, {"collections"}, "sifting") /\ Return(t, "error") /\ UNCHANGED names
             /\ UNCHANGED <<db, made, alien, known, now, rest>>
    <3>1. Going(t)
      BY <2>3, GoingFacts DEF Onward, Stages, Ended
    <3>2. Quiet(t)
      BY <2>3, DbFacts DEF Quiet, At, Ended
    <3>. QED  BY <3>1, <3>2, QuietStep
  <2>. QED  BY <1>2, <2>1, <2>2, <2>3 DEF SqlCollections
<1>3. ASSUME NEW parts, SqlDestroy(t, parts)
      PROVE  Quiet(t) /\ Going(t)
  <2>1. Quiet(t)
    BY <1>3, DbFacts DEF SqlDestroy, SqlFail, SqlPlain, At, Ended, Quiet
  <2>2. GoOn(t, "dropping") \/ GoOn(t, "ok") \/ Return(t, "ok") \/ Return(t, "error")
    BY <1>3 DEF SqlDestroy, SqlFail
  <2>. QED  BY <2>1, <2>2, GoingFacts DEF Onward, Stages, Ended
<1>. QED  BY <1>1, <1>2, <1>3, QuietStep

LEMMA SqlWriteLegal ==
    ASSUME TypeOK, LoopsTyped, NEW t \in Tasks, ~OnRedis,
           (\E op \in Writes : SqlUpsert(t, op))
           \/ PgBeginSwap(t) \/ PgCompareAndSwap(t) \/ PgCompareAndDelete(t) \/ PgConflict(t)
    PROVE  Legal(t)
<1>1. CASE PgBeginSwap(t)
  <2>1. pc'[t] = "swapping" /\ seen'[t] = seen[t] /\ todo'[t] = todo[t] /\ found'[t] = found[t]
    BY <1>1 DEF PgBeginSwap, GoOn, Goto, TypeOK
  <2>2. Moves(t)
    BY <1>1 DEF PgBeginSwap, SqlPlain, GoOn, Goto, Moves, TypeOK
  <2>3. Ordered(t) /\ Effect(t)
    BY <1>1, <2>1, DbFacts DEF PgBeginSwap, SqlPlain, At, Ordered, Effect, Ended
  <2>4. Typed(t)
    BY <1>1, <2>1, DbFacts DEF PgBeginSwap, SqlPlain, Typed, LoopsTyped, Stages, TypeOK
  <2>. QED  BY <2>2, <2>3, <2>4 DEF Legal
<1>2. ASSUME pc[t] \in {"begin", "swapping"}, Return(t, "error"), UNCHANGED db, SqlPlain
      PROVE  Legal(t)
  BY <1>2, PlainLegal DEF Failed, Ended
<1>3. ASSUME pc[t] \in {"begin", "swapping"}, Return(t, "ok"), db' = Stored(Target(t), Prepared(t)), SqlPlain
      PROVE  Legal(t)
  BY <1>3, DbFacts, StoringStep DEF SqlPlain
<1>4. ASSUME NEW op \in Writes, SqlUpsert(t, op)
      PROVE  Legal(t)
  BY <1>2, <1>3, <1>4 DEF SqlUpsert, SqlFail, At
<1>5. ASSUME pc[t] \in {"swapping", "fetching"}, UNCHANGED db, SqlPlain,
             GoOn(t, "fetching") \/ Return(t, "error") \/ Goto(t, "conflict", Nothing, {}, PgCurrent(t))
      PROVE  Legal(t)
  <2>1. Going(t)
    BY <1>5, DocFacts, GoingFacts DEF PgCurrent, Onward, Stages, Ended
  <2>2. Quiet(t)
    BY <1>5, DbFacts DEF Quiet, SqlPlain, Ended
  <2>. QED  BY <2>1, <2>2, QuietStep
<1>6. CASE PgCompareAndSwap(t)
  BY <1>3, <1>5, <1>6 DEF PgCompareAndSwap, At
<1>7. ASSUME pc[t] = "swapping", Return(t, "ok"), db' = Without(Target(t)), SqlPlain
      PROVE  Legal(t)
  <2>1. Going(t)
    BY <1>7, GoingFacts DEF Onward, Stages, Ended
  <2>2. Quiet(t)
    BY <1>7, DbFacts DEF Quiet, SqlPlain, Ended
  <2>. QED  BY <2>1, <2>2, QuietStep
<1>8. CASE PgCompareAndDelete(t)
  BY <1>5, <1>7, <1>8 DEF PgCompareAndDelete, At
<1>9. CASE PgConflict(t)
  BY <1>5, <1>9 DEF PgConflict, At
<1>. QED  BY <1>1, <1>4, <1>6, <1>8, <1>9

\* Redis' steps on the documents of one key or more ...
LEMMA RedisKeyLegal ==
    ASSUME TypeOK, LoopsTyped, NEW t \in Tasks, OnRedis,
           \/ RedisGet(t) \/ RedisGetMany(t) \/ RedisGetWithRevision(t) \/ RedisDelete(t)
           \/ RedisPut(t) \/ RedisCompareAndSwap(t) \/ RedisCompareAndDelete(t) \/ RedisCull(t)
    PROVE  Legal(t)
<1>1. ASSUME NEW ops, RedisFetch(t, ops)
      PROVE  Quiet(t) /\ Going(t)
  <2>1. Quiet(t)
    BY <1>1, DbFacts DEF RedisFetch, RedisStep, LoopsTyped, At, Ended, Quiet
  <2>2. Answer(t, Of(LiveOf(Target(t)))) \/ Return(t, "error")
    BY <1>1 DEF RedisFetch
  <2>. QED  BY <2>1, <2>2, DocFacts, GoingFacts DEF Onward, Stages, Ended
<1>2. ASSUME RedisDelete(t)
      PROVE  Quiet(t) /\ Going(t)
  <2>1. Quiet(t)
    BY <1>2, DbFacts DEF RedisDelete, RedisStep, LoopsTyped, At, Ended, Quiet
  <2>2. Answer(t, Of(LiveOf(Target(t))))
    BY <1>2 DEF RedisDelete
  <2>. QED  BY <2>1, <2>2, DocFacts, GoingFacts DEF Onward, Stages, Ended
<1>3. ASSUME RedisCull(t)
      PROVE  Quiet(t) /\ Going(t)
  <2>1. Quiet(t)
    BY <1>3, DbFacts DEF RedisCull, RedisStep, LoopsTyped, At, Ended, Quiet
  <2>. QED  BY <1>3, <2>1, GoingFacts DEF RedisCull, Onward, Stages, Ended
<1>4. ASSUME RedisConflict(t)
      PROVE  Going(t)
  <2>1. \/ Goto(t, "conflict", Nothing, {}, Of(LiveOf(Target(t))))
        \/ Return(t, "error") \/ Return(t, "conflict")
    BY <1>4 DEF RedisConflict
  <2>. QED  BY <2>1, DocFacts, GoingFacts DEF Onward, Stages, Ended
<1>5. ASSUME RedisCompareAndDelete(t)
      PROVE  Quiet(t) /\ Going(t)
  <2>1. Quiet(t)
    BY <1>5, DbFacts DEF RedisCompareAndDelete, RedisStep, LoopsTyped, At, Ended, Quiet
  <2>. QED  BY <1>4, <1>5, <2>1, GoingFacts DEF RedisCompareAndDelete, Onward, Stages, Ended
<1>6. ASSUME NEW s \in Target(t), pc[t] = "begin", ~Doing(t, {"collections"}), Len(call[t].keys) = 1,
             RedisStore(t, s, 1), Return(t, "ok"),
             UNCHANGED <<alien, known, lock, now, rest, names>>
      PROVE  Legal(t)
  <2>1. pc'[t] = "ok" /\ seen'[t] = Nothing /\ todo'[t] = {} /\ found'[t] = found[t]
    BY <1>6 DEF Return, Goto, TypeOK
  <2>2. Moves(t)
    BY <1>6 DEF Moves, Return, Goto, TypeOK
  <2>3. Ordered(t)
    BY <1>6, <2>1 DEF Ordered, Ended
  <2>4. s \in Slots /\ 1 \in DOMAIN call[t].keys
    BY <1>6, CallFacts DEF Target
  <2>5. Effect(t)
    <3>1. NewDoc(t, 1, now) \in Doc
      BY <2>4, DocFacts
    <3>2. db' = [db EXCEPT ![s] = NewDoc(t, 1, now)]
      BY <1>6 DEF RedisStore
    <3>3. Writable(t, 1)
      BY <1>6 DEF Writable
    <3>. HIDE DEF NewDoc
    <3>. QED  BY <2>1, <2>4, <3>1, <3>2, <3>3 DEF Effect, TypeOK
  <2>6. Typed(t)
    BY <1>6, <2>1, <2>4, DbFacts, SlotsAssumption DEF RedisStore, Typed, LoopsTyped, TypeOK, Stages, Ended
  <2>. QED  BY <2>2, <2>3, <2>5, <2>6 DEF Legal
<1>7. ASSUME RedisPut(t)
      PROVE  Legal(t)
  <2>1. Len(call[t].keys) = 1 /\ ~Doing(t, {"collections"})
    BY <1>7, CallsAssumption DEF RedisPut, At, Doing, TypeOK
  <2>. QED  BY <1>6, <1>7, <2>1 DEF RedisPut, At
<1>8. ASSUME RedisCompareAndSwap(t)
      PROVE  Legal(t)
  <2>1. Len(call[t].keys) = 1 /\ ~Doing(t, {"collections"})
    BY <1>8, CallsAssumption DEF RedisCompareAndSwap, At, Doing, TypeOK
  <2>2. CASE RedisConflict(t) /\ UNCHANGED <<db, made>>
    <3>1. Quiet(t)
      BY <1>8, <2>2, DbFacts DEF RedisCompareAndSwap, LoopsTyped, At, Ended, Quiet
    <3>. QED  BY <1>4, <2>2, <3>1, QuietStep
  <2>3. CASE (\E s \in Target(t) : RedisStore(t, s, 1)) /\ Return(t, "ok")
    BY <1>6, <1>8, <2>1, <2>3 DEF RedisCompareAndSwap, At
  <2>. QED  BY <1>8, <2>2, <2>3 DEF RedisCompareAndSwap
<1>. QED  BY <1>1, <1>2, <1>3, <1>5, <1>7, <1>8, QuietStep DEF RedisGet, RedisGetMany, RedisGetWithRevision

\* ... of a batch ...
LEMMA RedisBatchLegal ==
    ASSUME TypeOK, LoopsTyped, NEW t \in Tasks, OnRedis,
           RedisBatch(t) \/ RedisPutMany(t) \/ RedisDeleteMany(t)
    PROVE  Legal(t)
<1>0. ~Doing(t, {"collections"})
  BY DEF RedisBatch, RedisPutMany, RedisDeleteMany, At, Doing
<1>1. CASE RedisBatch(t)
  <2>1. /\ pc'[t] = IF call[t].keys = <<>> THEN "ok" ELSE "batch"
        /\ seen'[t] = Nothing /\ todo'[t] = {} /\ found'[t] = Nothing
        /\ rest'[t] = DOMAIN call[t].keys
    BY <1>1 DEF RedisBatch, Goto, TypeOK
  <2>2. Moves(t)
    BY <1>1 DEF RedisBatch, RedisStep, Moves, Goto, TypeOK
  <2>3. call[t].keys # <<>> => DOMAIN call[t].keys # {}
    <3>. DEFINE K == {s[2] : s \in Slots} \cup LongKeys
    <3>1. call[t].keys \in Seq(K)
      BY CallFacts
    <3>. HIDE DEF K
    <3>2. \A q \in Seq(K) : q # <<>> => DOMAIN q # {}
      OBVIOUS
    <3>. QED  BY <3>1, <3>2
  <2>4. Ordered(t) /\ Effect(t)
    BY <1>1, <2>1, <2>3, DbFacts DEF RedisBatch, RedisStep, At, Ordered, Effect, Ended
  <2>5. Typed(t)
    <3>1. pc'[t] \in Stages /\ rest'[t] \subseteq DOMAIN call[t].keys /\ made' \subseteq Collections
      BY <1>1, <2>1 DEF RedisBatch, RedisStep, LoopsTyped, Stages, Ended
    <3>2. names'[t] \subseteq Collections /\ alien' \subseteq Collections
      BY <1>1 DEF RedisBatch, RedisStep, TypeOK
    <3>. QED  BY <1>0, <2>1, <3>1, <3>2, DbFacts DEF Typed
  <2>. QED  BY <2>2, <2>4, <2>5 DEF Legal
<1>2. ASSUME pc[t] = "batch", NEW f \in [Slots -> Doc], RedisAdvance(t, f),
             NEW s, db' = Without({s}) \/ db' = [db EXCEPT ![s] = NewDoc(t, NextPosition(t), now)],
             made' = made \/ (s[1] = call[t].coll /\ made' = made \cup {s[1]})
      PROVE  Legal(t)
  <2>1. /\ pc'[t] = IF rest[t] = {NextPosition(t)} THEN "ok" ELSE "batch"
        /\ seen'[t] = Nothing /\ todo'[t] = {} /\ found'[t] = f
        /\ rest'[t] = rest[t] \ {NextPosition(t)}
    BY <1>2 DEF RedisAdvance, Goto, TypeOK
  <2>2. Moves(t)
    BY <1>2 DEF RedisAdvance, Moves, Goto, TypeOK
  <2>3. rest[t] # {} /\ rest[t] \subseteq DOMAIN call[t].keys /\ NextPosition(t) \in rest[t]
    BY <1>0, <1>2, PositionFacts DEF LoopsTyped
  <2>. DEFINE i == NextPosition(t)
  <2>. HIDE DEF i
  <2>4. Ordered(t)
    BY <1>2, <2>1, <2>3 DEF RedisAdvance, Ordered, Ended, i
  <2>5. Effect(t)
    <3>1. i \in rest[t] /\ i \in DOMAIN call[t].keys /\ rest'[t] = rest[t] \ {i}
          /\ pc'[t] \in {"ok", "batch"}
      BY <2>1, <2>3 DEF i
    <3>2. NewDoc(t, i, now) \in Doc
      BY <3>1, DocFacts
    <3>3. db' = Without({s}) \/ db' = [db EXCEPT ![s] = NewDoc(t, i, now)]
      BY <1>2 DEF i
    <3>4. Writable(t, i)
      BY <1>2, <3>1 DEF Writable
    <3>. HIDE DEF NewDoc
    <3>5. CASE db' = Without({s})
      BY <3>5, DbFacts DEF Effect
    <3>6. CASE db' = [db EXCEPT ![s] = NewDoc(t, i, now)]
      BY <3>1, <3>2, <3>4, <3>6, DbFacts DEF Effect
    <3>. QED  BY <3>3, <3>5, <3>6
  <2>6. Typed(t)
    <3>1. made' \subseteq Collections
      <4>1. call[t].coll \in Collections /\ made \subseteq Collections
        BY CallFacts DEF LoopsTyped
      <4>. QED  BY <1>2, <4>1
    <3>2. names'[t] \subseteq Collections /\ alien' \subseteq Collections
      BY <1>2 DEF RedisAdvance, TypeOK
    <3>3. pc'[t] \in Stages /\ rest'[t] \subseteq DOMAIN call[t].keys
      BY <2>1, <2>3 DEF Stages, Ended
    <3>4. seen'[t] \in [Slots -> Doc] /\ found'[t] \in [Slots -> Doc] /\ todo'[t] \subseteq Slots
      BY <1>2, <2>1, DbFacts
    <3>. QED  BY <1>0, <3>1, <3>2, <3>3, <3>4 DEF Typed
  <2>. QED  BY <2>2, <2>4, <2>5, <2>6 DEF Legal
<1>3. CASE RedisPutMany(t)
  <2>1. NextSlot(t)[1] = call[t].coll
    BY DEF NextSlot
  <2>2. pc[t] = "batch" /\ RedisAdvance(t, Nothing)
    BY <1>3 DEF RedisPutMany, At
  <2>3. db' = [db EXCEPT ![NextSlot(t)] = NewDoc(t, NextPosition(t), now)] /\ made' = made \cup {NextSlot(t)[1]}
    BY <1>3 DEF RedisPutMany, RedisStore
  <2>4. Nothing \in [Slots -> Doc]
    BY DbFacts
  <2>. HIDE DEF NextSlot
  <2>. QED  BY <1>2, <2>1, <2>2, <2>3, <2>4
<1>4. CASE RedisDeleteMany(t)
  <2>1. pc[t] = "batch" /\ db' = Without({NextSlot(t)}) /\ made' = made
    BY <1>4 DEF RedisDeleteMany, At
  <2>2. \E f \in [Slots -> Doc] : RedisAdvance(t, f)
    <3>1. found[t] \in [Slots -> Doc] /\ db \in [Slots -> Doc]
      BY DbFacts
    <3>2. [found[t] EXCEPT ![NextSlot(t)] = db[NextSlot(t)]] \in [Slots -> Doc]
      BY <3>1
    <3>. QED  BY <1>4, <3>1, <3>2 DEF RedisDeleteMany
  <2>. QED  BY <1>2, <2>1, <2>2
<1>. QED  BY <1>1, <1>3, <1>4

\* ... and on all of them.
LEMMA RedisScanLegal ==
    ASSUME TypeOK, LoopsTyped, NEW t \in Tasks, OnRedis,
           RedisKeys(t) \/ RedisDestroyCollection(t) \/ RedisDestroy(t)
    PROVE  Legal(t)
<1>0. /\ In(call[t].coll) \in SUBSET Slots /\ todo[t] \in SUBSET Slots /\ Slots \in SUBSET Slots
      /\ \A s \in Slots : todo[t] \ {s} \in SUBSET Slots
      /\ Nothing \in [Slots -> Doc] /\ \A S : Of(S) \in [Slots -> Doc]
      /\ "scanning" \in Onward /\ "deleting" \in Onward /\ "passed" \in Onward
      /\ "ok" \in Onward /\ "error" \in Onward
  BY DbFacts, DocFacts DEF In, Onward, Stages, Ended
<1>1. CASE RedisKeys(t)
  <2>1. Quiet(t)
    BY <1>1, DbFacts DEF RedisKeys, RedisStep, LoopsTyped, At, Ended, Quiet
  <2>2. ASSUME Goto(t, IF call[t].limit = 0 THEN "ok" ELSE "scanning", Nothing, In(call[t].coll), Nothing)
        PROVE  Going(t)
    BY <1>0, <2>2, GoingFacts
  <2>3. ASSUME NEW s \in todo[t], NEW f,
               f = [found[t] EXCEPT ![s] = Of(LiveOf({s}))[s]],
               Return(t, "error") \/ Answer(t, f) \/ Goto(t, "scanning", Nothing, todo[t] \ {s}, f)
        PROVE  Going(t)
    <3>1. s \in Slots /\ found[t] \in [Slots -> Doc] /\ Of(LiveOf({s})) \in [Slots -> Doc]
      BY <2>3, DbFacts, DocFacts
    <3>2. f \in [Slots -> Doc]
      BY <2>3, <3>1
    <3>. QED  BY <1>0, <2>3, <3>1, <3>2, DbFacts, GoingFacts DEF Onward, Stages, Ended
  <2>4. At(t, {"keys"}, "scanning") => Going(t)
    BY <1>1, <2>3 DEF RedisKeys, At
  <2>. QED  BY <1>1, <2>1, <2>2, <2>4, QuietStep DEF RedisKeys
<1>2. CASE RedisDestroyCollection(t)
  <2>1. Quiet(t)
    BY <1>2, DbFacts DEF RedisDestroyCollection, RedisStep, LoopsTyped, At, Ended, Quiet
  <2>2. ASSUME Goto(t, "scanning", Nothing, In(call[t].coll), Nothing)
        PROVE  Going(t)
    BY <1>0, <2>2, GoingFacts
  <2>3. ASSUME NEW s \in todo[t],
               Return(t, "error") \/ Goto(t, "deleting", Of(LiveOf({s})), todo[t] \ {s}, Nothing)
        PROVE  Going(t)
    <3>1. s \in Slots
      BY <1>0
    <3>2. CASE Return(t, "error")
      BY <1>0, <3>2, GoingFacts
    <3>3. CASE Goto(t, "deleting", Of(LiveOf({s})), todo[t] \ {s}, Nothing)
      BY <1>0, <3>1, <3>3, GoingFacts
    <3>. QED  BY <2>3, <3>2, <3>3
  <2>4. ASSUME Goto(t, IF todo[t] = {} THEN "ok" ELSE "scanning", Nothing, todo[t], Nothing)
        PROVE  Going(t)
    BY <1>0, <2>4, GoingFacts
  <2>5. \/ Goto(t, "scanning", Nothing, In(call[t].coll), Nothing)
        \/ \E s \in todo[t] : Return(t, "error") \/ Goto(t, "deleting", Of(LiveOf({s})), todo[t] \ {s}, Nothing)
        \/ Goto(t, IF todo[t] = {} THEN "ok" ELSE "scanning", Nothing, todo[t], Nothing)
    BY <1>2 DEF RedisDestroyCollection
  <2>. QED  BY <2>1, <2>2, <2>3, <2>4, <2>5, QuietStep
<1>3. CASE RedisDestroy(t)
  <2>1. Quiet(t)
    <3>1. pc[t] \notin Ended
      BY <1>3 DEF RedisDestroy, At, Ended
    <3>2. UNCHANGED <<now, rest, names>> /\ alien' \in {alien, {}} /\ made' \in {made, {}}
      BY <1>3 DEF RedisDestroy, RedisStep, serverVars
    <3>3. db' = db \/ db' = Nothing \/ \E S : db' = Without(S)
      BY <1>3 DEF RedisDestroy, serverVars
    <3>4. db' \in [Slots -> Doc] /\ \A s \in Slots : db'[s] \in {db[s], Empty}
      BY <3>3, DbFacts
    <3>. QED  BY <3>1, <3>2, <3>4, DbFacts DEF Quiet, LoopsTyped
  <2>2. ASSUME Goto(t, "scanning", Nothing, Slots, Nothing) \/ Return(t, "ok") \/ GoOn(t, "passed")
        PROVE  Going(t)
    BY <1>0, <2>2, GoingFacts
  <2>3. ASSUME pc[t] \in {"scanning", "passed"}, NEW s \in todo[t], Goto(t, pc[t], Nothing, todo[t] \ {s}, Nothing)
        PROVE  Going(t)
    <3>1. pc[t] \in Onward /\ s \in Slots
      BY <1>0, <2>3
    <3>. QED  BY <1>0, <2>3, <3>1, GoingFacts
  <2>. QED  BY <1>3, <2>1, <2>2, <2>3, QuietStep DEF RedisDestroy
<1>. QED  BY <1>1, <1>2, <1>3

LEMMA RedisCollectionsLegal ==
    ASSUME TypeOK, LoopsTyped, NEW t \in Tasks, OnRedis, RedisCollections(t)
    PROVE  Legal(t)
<1>0. Doing(t, {"collections"}) /\ pc[t] \notin Ended /\ UNCHANGED <<db, alien, now>>
  <2>1. At(t, {"collections"}, pc[t]) /\ pc[t] \in {"begin", "members", "scanning", "scanned", "adding"}
    BY DEF RedisCollections, At
  <2>2. UNCHANGED <<db, alien, now>>
    BY DEF RedisCollections, RedisStep, serverVars
  <2>. QED  BY <2>1, <2>2 DEF At, Ended
<1>1. ASSUME NEW stage \in Onward, NEW d \in SUBSET Slots, NEW o \in [Slots -> Doc], NEW f \in [Slots -> Doc],
             Goto(t, stage, o, d, f),
             rest' = [rest EXCEPT ![t] = rest'[t]], rest'[t] \subseteq Collections,
             names' = [names EXCEPT ![t] = names'[t]], names'[t] \subseteq Collections,
             made' \subseteq Collections
      PROVE  Legal(t)
  <2>1. pc'[t] = stage /\ seen'[t] = o /\ todo'[t] = d /\ found'[t] = f
    BY <1>1 DEF Goto, TypeOK
  <2>2. Moves(t)
    BY <1>1 DEF Moves, Goto, TypeOK
  <2>3. Ordered(t)
    <3>1. stage \notin {"begin", "swapping", "batch"}
      BY <1>1 DEF Onward
    <3>. QED  BY <1>0, <2>1, <3>1 DEF Ordered
  <2>4. Effect(t)
    BY <1>0, DbFacts DEF Effect
  <2>5. Typed(t)
    <3>1. stage \in Stages
      BY <1>1 DEF Onward
    <3>. QED  BY <1>0, <1>1, <2>1, <3>1, DbFacts DEF Typed
  <2>. QED  BY <2>2, <2>3, <2>4, <2>5 DEF Legal
<1>2. /\ rest[t] \subseteq Collections /\ made \subseteq Collections /\ names[t] \subseteq Collections
      /\ rest = [rest EXCEPT ![t] = rest[t]] /\ names = [names EXCEPT ![t] = names[t]]
  BY <1>0 DEF LoopsTyped, TypeOK
<1>3. /\ Nothing \in [Slots -> Doc] /\ found[t] \in [Slots -> Doc] /\ seen[t] \in [Slots -> Doc]
      /\ todo[t] \in SUBSET Slots /\ {} \in SUBSET Slots /\ Slots \in SUBSET Slots
      /\ \A s \in Slots : todo[t] \ {s} \in SUBSET Slots
  BY DbFacts
<1>4. ASSUME At(t, {"collections"}, "begin")
      PROVE  Legal(t)
  <2>1. UNCHANGED <<made, rest, names>>
    BY <1>4 DEF RedisCollections, RedisStep, At
  <2>2. GoOn(t, "members") \/ Return(t, "ok") \/ Goto(t, "scanning", Nothing, Slots, Nothing)
    BY <1>4 DEF RedisCollections, At
  <2>3. CASE GoOn(t, "members")
    BY <1>1, <1>2, <1>3, <2>1, <2>3 DEF GoOn, Onward, Stages
  <2>4. CASE Return(t, "ok")
    BY <1>1, <1>2, <1>3, <2>1, <2>4 DEF Return, Onward, Stages, Ended
  <2>5. CASE Goto(t, "scanning", Nothing, Slots, Nothing)
    BY <1>1, <1>2, <1>3, <2>1, <2>5 DEF Onward, Stages
  <2>. QED  BY <2>2, <2>3, <2>4, <2>5
<1>5. ASSUME At(t, {"collections"}, "members")
      PROVE  Legal(t)
  <2>1. PICK N \in Limited(made, call[t].limit) : names' = [names EXCEPT ![t] = N]
    BY <1>5 DEF RedisCollections, At
  <2>2. names'[t] = N /\ N \subseteq Collections
    BY <1>2, <2>1 DEF Limited, TypeOK
  <2>3. UNCHANGED <<made, rest>> /\ GoOn(t, "ok")
    BY <1>5 DEF RedisCollections, At, serverVars
  <2>. QED  BY <1>1, <1>2, <1>3, <2>1, <2>2, <2>3 DEF GoOn, Onward, Stages, Ended
<1>6. ASSUME At(t, {"collections"}, "scanning")
      PROVE  Legal(t)
  <2>1. PICK s \in todo[t] :
            IF Live(db[s]) /\ s[1] \in alien THEN Return(t, "error") /\ UNCHANGED rest
              ELSE /\ Goto(t, IF todo[t] = {s} THEN "scanned" ELSE "scanning", Nothing, todo[t] \ {s}, Nothing)
                   /\ rest' = IF Live(db[s]) THEN [rest EXCEPT ![t] = @ \cup {s[1]}] ELSE rest
    BY <1>6 DEF RedisCollections, At
  <2>2. UNCHANGED <<made, names>>
    BY <1>6 DEF RedisCollections, RedisStep, At
  <2>3. s \in Slots /\ s[1] \in Collections
    BY <1>3, <2>1, SlotsAssumption
  <2>4. /\ rest' = [rest EXCEPT ![t] = rest'[t]] /\ rest'[t] \subseteq Collections
    BY <1>2, <2>1, <2>3 DEF TypeOK
  <2>5. CASE Return(t, "error")
    BY <1>1, <1>2, <1>3, <2>2, <2>4, <2>5 DEF Return, Onward, Stages, Ended
  <2>6. CASE Goto(t, IF todo[t] = {s} THEN "scanned" ELSE "scanning", Nothing, todo[t] \ {s}, Nothing)
    <3>1. (IF todo[t] = {s} THEN "scanned" ELSE "scanning") \in Onward
      BY DEF Onward, Stages
    <3>. QED  BY <1>1, <1>2, <1>3, <2>2, <2>3, <2>4, <2>6, <3>1
  <2>. QED  BY <2>1, <2>5, <2>6
<1>7. ASSUME At(t, {"collections"}, "scanned")
      PROVE  Legal(t)
  <2>1. PICK N \in Limited(rest[t], call[t].limit) : names' = [names EXCEPT ![t] = N]
    BY <1>7 DEF RedisCollections, At
  <2>2. names'[t] = N /\ N \subseteq Collections
    BY <1>2, <2>1 DEF Limited, TypeOK
  <2>3. UNCHANGED <<made, rest>> /\ GoOn(t, IF rest[t] = {} THEN "ok" ELSE "adding")
    BY <1>7 DEF RedisCollections, At, serverVars
  <2>4. (IF rest[t] = {} THEN "ok" ELSE "adding") \in Onward
    BY DEF Onward, Stages, Ended
  <2>. QED  BY <1>1, <1>2, <1>3, <2>1, <2>2, <2>3, <2>4 DEF GoOn
<1>8. ASSUME At(t, {"collections"}, "adding")
      PROVE  Legal(t)
  <2>1. PICK c \in rest[t] :
            /\ made' = made \cup {c}
            /\ rest' = [rest EXCEPT ![t] = @ \ {c}]
            /\ GoOn(t, IF rest[t] = {c} THEN "ok" ELSE "adding")
    BY <1>8 DEF RedisCollections, At
  <2>2. rest' = [rest EXCEPT ![t] = rest'[t]] /\ rest'[t] \subseteq Collections /\ made' \subseteq Collections
    BY <1>2, <2>1 DEF TypeOK
  <2>3. UNCHANGED names
    BY <1>8 DEF RedisCollections, At
  <2>4. (IF rest[t] = {c} THEN "ok" ELSE "adding") \in Onward
    BY DEF Onward, Stages, Ended
  <2>. QED  BY <1>1, <1>2, <1>3, <2>1, <2>2, <2>3, <2>4 DEF GoOn
<1>. QED  BY <1>4, <1>5, <1>6, <1>7, <1>8 DEF RedisCollections

LEMMA StepLegal ==
    ASSUME TypeOK, LoopsTyped, NEW t \in Tasks, OwnStep(t)
    PROVE  Legal(t)
<1>1. CASE Refused(t) \/ Trivial(t) \/ Failed(t)
  BY <1>1, PlainLegal
<1>2. CASE ~OnRedis /\ Schema(t)
  BY <1>2, SchemaLegal
<1>3. CASE ~OnRedis /\ SqlSteps(t)
  BY <1>3, SqlReadLegal, SqlListLegal, SqlWriteLegal DEF SqlSteps
<1>4. CASE OnRedis /\ RedisSteps(t)
  BY <1>4, RedisKeyLegal, RedisBatchLegal, RedisScanLegal, RedisCollectionsLegal DEF RedisSteps
<1>. QED  BY <1>1, <1>2, <1>3, <1>4, StepCases

-----------------------------------------------------------------------------
(* The steps of the system *)

Ticks == (~OnRedis /\ Tick) \/ (OnRedis /\ RedisTick)

LEMMA LockTyped ==
    ASSUME TypeOK, NEW t \in Tasks, OwnStep(t)
    PROVE  lock' \in Tasks \cup {NoTask}
<1>1. CASE Fail(t)
  BY <1>1 DEF Fail, TypeOK
<1>2. CASE SqliteNext(t)
  BY <1>2 DEF SqliteNext, TypeOK
<1>3. CASE DuckNext(t)
  BY <1>3 DEF DuckNext, DuckConnection, TypeOK
<1>4. CASE PgNext(t)
  BY <1>4 DEF PgNext, PgEnsureColumns, PgEnsureIndexAndChanges, TypeOK
<1>5. CASE RedisSteps(t) \/ RedisRefuse(t)
  <2>1. lock' = lock
    BY <1>5 DEF RedisSteps, RedisRefuse, RedisStep, RedisGet, RedisGetMany, RedisGetWithRevision, RedisFetch,
           RedisBatch, RedisPut, RedisPutMany, RedisAdvance, RedisDelete, RedisDeleteMany, RedisCompareAndSwap,
           RedisCompareAndDelete, RedisCull, RedisKeys, RedisCollections, RedisDestroyCollection, RedisDestroy,
           clientVars
  <2>. QED  BY <2>1 DEF TypeOK
<1>6. RedisNext(t) => RedisRefuse(t) \/ RedisSteps(t)
  BY DEF RedisNext, RedisSteps
<1>7. ValkeyNext(t) => RedisNext(t)
  BY DEF ValkeyNext, RedisNext, ValkeyGet, ValkeyGetMany, ValkeyGetWithRevision, ValkeyPut, ValkeyPutMany,
         ValkeyDelete, ValkeyDeleteMany, ValkeyCompareAndSwap, ValkeyCompareAndDelete, ValkeyCull, ValkeyKeys,
         ValkeyCollections, ValkeyDestroyCollection, ValkeyDestroy
<1>. QED  BY <1>1, <1>2, <1>3, <1>4, <1>5, <1>6, <1>7 DEF OwnStep, BackendStep

\* A step is one of a call, which leaves the others where they are, or the clock's.
LEMMA NextCases ==
    ASSUME TypeOK, LoopsTyped, Next
    PROVE  /\ Watch /\ UNCHANGED <<backend, call>>
           /\ \/ \E t \in Tasks : OwnStep(t) /\ Legal(t) /\ \A u \in Tasks \ {t} : Still(u)
              \/ Ticks /\ \A u \in Tasks : Still(u)
<1>1. Watch /\ UNCHANGED <<backend, call>>
  BY DEF Next
<1>2. (\E t \in Tasks : OwnStep(t)) \/ Ticks
  BY DEF Next, OwnStep, Ticks, OnRedis
<1>3. ASSUME NEW t \in Tasks, OwnStep(t)
      PROVE  Legal(t) /\ \A u \in Tasks \ {t} : Still(u)
  <2>1. Legal(t)
    BY <1>3, StepLegal
  <2>. QED  BY <2>1 DEF Legal, Moves, Still, TypeOK
<1>4. Ticks => \A u \in Tasks : Still(u)
  BY DEF Ticks, Tick, RedisTick, taskVars, Still
<1>. QED  BY <1>1, <1>2, <1>3, <1>4

\* A call that moves does so by a step of its own, one that may take no more does not.
LEMMA MovesItself ==
    ASSUME TypeOK, LoopsTyped, Next, NEW u \in Tasks
    PROVE  /\ Still(u) \/ (OwnStep(u) /\ Legal(u))
           /\ pc[u] \in Ended => Still(u)
           /\ pc'[u] # pc[u] => OwnStep(u) /\ Legal(u)
<1>1. Legal(u) => pc[u] \notin Ended
  BY DEF Legal, Ordered
<1>. QED  BY <1>1, NextCases DEF Still

\* Once spent, a writer stays so.
LEMMA SpentStays ==
    ASSUME TypeOK, LoopsTyped, Next
    PROVE  \A u, i : Writable(u, i)' => Writable(u, i)
<1>1. ASSUME NEW u \in Tasks, NEW i, Writable(u, i)'
      PROVE  Writable(u, i)
  <2>1. pc'[u] \in {"begin", "swapping"} \/ (pc'[u] = "batch" /\ i \in rest'[u])
    BY <1>1 DEF Writable
  <2>2. CASE Still(u)
    BY <2>1, <2>2 DEF Still, Writable
  <2>3. CASE Legal(u)
    BY <2>1, <2>3 DEF Legal, Ordered, Writable
  <2>. QED  BY <2>2, <2>3, MovesItself
<1>. QED  BY <1>1 DEF Writable

\* What a slot holds after a step it held before, or is nothing, or new.
LEMMA DbStep ==
    ASSUME TypeOK, LoopsTyped, Next
    PROVE  /\ db' \in [Slots -> Doc]
           /\ \A s \in Slots : db'[s] # db[s] /\ db'[s] # Empty =>
                \E t \in Tasks : /\ OwnStep(t) /\ db'[s].writer[1] = t /\ ~ExpiredAt(db'[s], now')
                                 /\ \E i \in DOMAIN call[t].keys :
                                        db'[s] = NewDoc(t, i, now) /\ Writable(t, i) /\ ~Writable(t, i)'
           /\ now' \in 0 .. MaxTime /\ now <= now'
           /\ \A d \in Doc : ~ExpiredAt(d, now') => ~ExpiredAt(d, now)
<1>1. now' \in 0 .. MaxTime /\ now <= now'
  <2>1. CASE Ticks
    BY <2>1, BoundsAssumption DEF Ticks, Tick, RedisTick, TypeOK
  <2>2. CASE \E t \in Tasks : Legal(t)
    BY <2>2, BoundsAssumption DEF Legal, Ordered, TypeOK
  <2>. QED  BY <2>1, <2>2, NextCases
<1>2. \A d \in Doc : ~ExpiredAt(d, now') => ~ExpiredAt(d, now)
  BY <1>1, BoundsAssumption DEF ExpiredAt, Doc, TypeOK
<1>3. CASE Ticks
  <2>1. db' \in [Slots -> Doc] /\ \A s \in Slots : db'[s] \in {db[s], Empty}
    BY <1>3, DbFacts, DocFacts DEF Ticks, Tick, RedisTick, serverVars
  <2>. QED  BY <1>1, <1>2, <2>1
<1>4. ASSUME NEW t \in Tasks, OwnStep(t), Legal(t)
      PROVE  /\ db' \in [Slots -> Doc]
             /\ \A s \in Slots : db'[s] # db[s] /\ db'[s] # Empty =>
                    /\ db'[s].writer[1] = t /\ ~ExpiredAt(db'[s], now')
                    /\ \E i \in DOMAIN call[t].keys :
                            db'[s] = NewDoc(t, i, now) /\ Writable(t, i) /\ ~Writable(t, i)'
  <2>1. now' = now /\ Effect(t)
    BY <1>4 DEF Legal, Ordered
  <2>2. ASSUME NEW s \in Slots, db'[s] # db[s], db'[s] # Empty
        PROVE  /\ db'[s].writer[1] = t /\ ~ExpiredAt(db'[s], now')
               /\ \E i \in DOMAIN call[t].keys :
                            db'[s] = NewDoc(t, i, now) /\ Writable(t, i) /\ ~Writable(t, i)'
    <3>1. PICK i \in DOMAIN call[t].keys :
                /\ db'[s] = NewDoc(t, i, now) /\ Writable(t, i)
                /\ pc'[t] \notin {"begin", "swapping"} /\ (pc'[t] = "batch" => i \notin rest'[t])
      BY <2>1, <2>2 DEF Effect
    <3>2. NewDoc(t, i, now).writer = <<t, i>> /\ ~ExpiredAt(NewDoc(t, i, now), now)
      BY DocFacts
    <3>3. ~Writable(t, i)'
      BY <3>1 DEF Writable
    <3>. HIDE DEF NewDoc
    <3>. QED  BY <2>1, <3>1, <3>2, <3>3
  <2>. QED  BY <2>1, <2>2 DEF Effect
<1>. QED  BY <1>1, <1>2, <1>3, <1>4, NextCases

-----------------------------------------------------------------------------
(* The core of the invariant *)

LEMMA CoreInit ==
    ASSUME Init
    PROVE  Core
<1>1. PICK st \in Stores : db = st.db /\ alien = st.alien
  BY DEF Init, StoreInit
<1>2. db \in [Slots -> Doc] /\ alien \subseteq Collections /\ \A s \in Slots : db[s].writer[1] = NoTask
  BY <1>1, StoresAssumption
<1>3. /\ Empty \in Doc /\ Nothing \in [Slots -> Doc] /\ \A s \in Slots : Nothing[s] = Empty
      /\ Empty.writer[1] = NoTask /\ Empty.expires = NoExpiry
  BY DEF Empty, Doc, NoExpiry, Nothing
<1>4. TypeOK
  BY <1>2, <1>3, BoundsAssumption DEF Init, StoreInit, TypeOK, Unwatched, Stages
<1>5. DocsSpent
  BY <1>2, <1>3, TasksAssumption DEF Init, StoreInit, DocsSpent, Spent, Writable
<1>6. Dropped
  <2>1. now = 0 /\ \A t \in Tasks : before[t] = Nothing
    BY DEF Init, StoreInit
  <2>2. ASSUME NEW s \in Slots
        PROVE  ~Expired(db[s])
    <3>1. db[s].expires \in Nat
      BY <1>2 DEF Doc
    <3>. QED  BY <2>1, <3>1 DEF Expired, ExpiredAt, NoExpiry
  <2>. QED  BY <1>3, <2>1, <2>2 DEF Dropped, ExpiredAt
<1>7. LoopsTyped
  <2>1. OnRedis => made \subseteq Collections
    <3>1. made \in MadeFor(backend)
      BY DEF Init
    <3>2. backend \in {"redis", "valkey", "redis, scoped", "valkey, scoped"}
            => \A m \in MadeFor(backend) : m \subseteq Collections
      BY DEF MadeFor
    <3>. QED  BY <3>1, <3>2 DEF OnRedis, RedisKind
  <2>. QED  BY <2>1 DEF Init, StoreInit, LoopsTyped
<1>8. \A t \in Tasks : Begun(t)
  BY DEF Init, StoreInit, Begun
<1>. QED  BY <1>4, <1>5, <1>6, <1>7, <1>8 DEF Core

LEMMA CoreTyped ==
    ASSUME Core, Next
    PROVE  TypeOK'
<1>. USE DEF Core
<1>1. Watch /\ backend' = backend /\ call' = call
  BY NextCases
<1>2. db' \in [Slots -> Doc] /\ now' \in 0 .. MaxTime
  BY DbStep
<1>3. /\ since' \in [Tasks -> 0 .. MaxTime] /\ before' \in [Tasks -> [Slots -> Doc]]
      /\ window' \in [Tasks -> [Slots -> SUBSET Doc]]
  <2>1. Nothing \in [Slots -> Doc] /\ db \in [Slots -> Doc] /\ Unwatched \in [Slots -> SUBSET Doc]
    BY DocFacts DEF TypeOK, Unwatched
  <2>2. 0 \in 0 .. MaxTime /\ now \in 0 .. MaxTime
    BY BoundsAssumption DEF TypeOK
  <2>3. since' \in [Tasks -> 0 .. MaxTime]
    BY <1>1, <2>2 DEF Watch, TypeOK
  <2>4. before' \in [Tasks -> [Slots -> Doc]]
    BY <1>1, <2>1 DEF Watch, TypeOK
  <2>5. window' \in [Tasks -> [Slots -> SUBSET Doc]]
    BY <1>1, <1>2, <2>1 DEF Watch, TypeOK
  <2>. QED  BY <2>3, <2>4, <2>5
<1>4. CASE Ticks
  <2>1. UNCHANGED <<lock, alien, pc, seen, todo, rest, found, names>>
    BY <1>4 DEF Ticks, Tick, RedisTick, serverVars, clientVars, taskVars
  <2>. QED  BY <1>1, <1>2, <1>3, <2>1 DEF TypeOK
<1>5. ASSUME NEW t \in Tasks, OwnStep(t), Legal(t)
      PROVE  TypeOK'
  <2>1. lock' \in Tasks \cup {NoTask} /\ Moves(t) /\ Typed(t)
    BY <1>5, LockTyped DEF Legal
  <2>2. /\ pc' \in [Tasks -> Stages]
        /\ seen' \in [Tasks -> [Slots -> Doc]] /\ found' \in [Tasks -> [Slots -> Doc]]
        /\ todo' \in [Tasks -> SUBSET Slots] /\ names' \in [Tasks -> SUBSET Collections]
    BY <2>1 DEF Moves, Typed, TypeOK
  <2>3. rest'[t] \subseteq Collections \/ rest'[t] \subseteq DOMAIN call[t].keys
    BY <2>1 DEF Typed
  <2>4. rest'[t] \subseteq Collections \cup Nat
    <3>1. DOMAIN call[t].keys \subseteq Nat
      <4>1. DOMAIN call[t].keys = 1 .. Len(call[t].keys) /\ Len(call[t].keys) \in Nat
        BY CallFacts
      <4>. QED  BY <4>1
    <3>. QED  BY <2>3, <3>1
  <2>5. /\ rest' \in [Tasks -> SUBSET (Collections \cup Nat)]
        /\ \A u \in Tasks : rest'[u] \subseteq Collections \/ rest'[u] \subseteq DOMAIN call[u].keys
    BY <2>1, <2>3, <2>4 DEF Moves, TypeOK
  <2>6. alien' \subseteq Collections
    BY <2>1 DEF Typed
  <2>. QED  BY <1>1, <1>2, <1>3, <2>1, <2>2, <2>5, <2>6 DEF TypeOK
<1>. QED  BY <1>4, <1>5, NextCases

LEMMA CoreNext ==
    ASSUME Core, Next
    PROVE  Core'
<1>. USE DEF Core
<1>1. Watch /\ backend' = backend /\ call' = call
  BY NextCases
<1>2. TypeOK'
  BY CoreTyped
<1>3. DocsSpent'
  <2>1. ASSUME NEW s \in Slots
        PROVE  Spent(db[s].writer)'
    <3>1. CASE db'[s] = db[s]
      BY <3>1, SpentStays DEF DocsSpent, Spent
    <3>2. CASE db'[s] = Empty
      BY <3>2, TasksAssumption DEF Empty, Spent, Writable
    <3>3. ASSUME NEW t \in Tasks, NEW i \in DOMAIN call[t].keys, db'[s] = NewDoc(t, i, now), ~Writable(t, i)'
          PROVE  Spent(db[s].writer)'
      BY <3>3 DEF NewDoc, Spent
    <3>. QED  BY <3>1, <3>2, <3>3, DbStep
  <2>2. ASSUME NEW t \in Tasks, NEW s \in Slots
        PROVE  Spent(before[t][s].writer)'
    <3>1. before'[t][s] \in {db[s], before[t][s], Nothing[s]}
      BY <1>1, WatchFacts
    <3>2. ~Writable(NoTask, 0)'
      BY TasksAssumption DEF Writable
    <3>3. Nothing[s].writer = <<NoTask, 0>>
      BY DEF Nothing, Empty
    <3>. QED  BY <3>1, <3>2, <3>3, SpentStays DEF DocsSpent, Spent
  <2>. QED  BY <2>1, <2>2 DEF DocsSpent
<1>4. Dropped'
  <2>. SUFFICES ASSUME OnRedis PROVE Dropped'
    BY <1>1 DEF Dropped, OnRedis
  <2>1. ASSUME NEW s \in Slots
        PROVE  ~ExpiredAt(db'[s], now')
    <3>1. CASE Ticks
      <4>1. db'[s] = IF ExpiredAt(db[s], now') THEN Empty ELSE db[s]
        BY <3>1 DEF Ticks, RedisTick
      <4>. QED  BY <4>1, DocFacts
    <3>2. ASSUME NEW t \in Tasks, Legal(t)
          PROVE  ~ExpiredAt(db'[s], now')
      <4>1. now' = now
        BY <3>2 DEF Legal, Ordered
      <4>. QED  BY <4>1, DbStep, DocFacts DEF Dropped, Expired
    <3>. QED  BY <3>1, <3>2, NextCases
  <2>2. ASSUME NEW t \in Tasks, NEW s \in Slots
        PROVE  ~ExpiredAt(before'[t][s], since'[t])
    <3>1. \/ before'[t] = db /\ since'[t] = now
          \/ before'[t] = Nothing
          \/ before'[t] = before[t] /\ since'[t] = since[t]
      BY <1>1, WatchFacts
    <3>. QED  BY <3>1, DocFacts DEF Dropped, Expired
  <2>. QED  BY <2>1, <2>2 DEF Dropped, Expired
<1>5. LoopsTyped'
  <2>1. OnRedis => made' \subseteq Collections
    <3>1. CASE Ticks
      BY <3>1 DEF Ticks, Tick, RedisTick, serverVars, LoopsTyped
    <3>2. ASSUME NEW t \in Tasks, Legal(t)
          PROVE  OnRedis => made' \subseteq Collections
      BY <3>2 DEF Legal, Typed
    <3>. QED  BY <3>1, <3>2, NextCases
  <2>2. ASSUME NEW u \in Tasks
        PROVE  /\ IF Doing(u, {"collections"}) THEN rest'[u] \subseteq Collections
                  ELSE rest'[u] \subseteq DOMAIN call[u].keys
               /\ pc'[u] = "batch" => rest'[u] # {}
    <3>1. CASE Still(u)
      BY <3>1 DEF Still, LoopsTyped
    <3>2. CASE Legal(u)
      BY <3>2 DEF Legal, Typed, Ordered
    <3>. QED  BY <3>1, <3>2, MovesItself
  <2>. QED  BY <1>1, <2>1, <2>2 DEF LoopsTyped, OnRedis, Doing
<1>6. ASSUME NEW t \in Tasks
      PROVE  Begun(t)'
  <2>1. pc'[t] = "begin" => found'[t] = Nothing
    <3>1. CASE Still(t)
      BY <3>1 DEF Still, Begun
    <3>2. CASE Legal(t)
      BY <3>2 DEF Legal, Ordered
    <3>. QED  BY <3>1, <3>2, MovesItself
  <2>2. since'[t] <= now'
    <3>1. since'[t] \in {now, 0, since[t]}
      BY <1>1, WatchFacts
    <3>2. now \in Nat /\ now' \in Nat /\ since[t] \in Nat /\ now <= now' /\ since[t] <= now
      <4>1. now' \in 0 .. MaxTime /\ now <= now'
        BY DbStep
      <4>. QED  BY <4>1, BoundsAssumption DEF TypeOK, Begun
    <3>. QED  BY <3>1, <3>2
  <2>. QED  BY <2>1, <2>2 DEF Begun
<1>. QED  BY <1>2, <1>3, <1>4, <1>5, <1>6

-----------------------------------------------------------------------------
(* The steps of each operation *)

LEMMA SqlStepOps ==
    ASSUME NEW t \in Tasks
    PROVE  /\ \A op : SqlRead(t, op) => call[t].op = op
           /\ \A op : SqlUpsert(t, op) => call[t].op = op
           /\ \A op : SqlDelete(t, op) => call[t].op = op
           /\ SqlCull(t) => call[t].op = "cull"
           /\ SqlKeys(t) => call[t].op = "keys"
           /\ SqlCollections(t) => call[t].op = "collections"
           /\ SqlDestroyCollection(t) => call[t].op = "destroy_collection"
           /\ \A parts : SqlDestroy(t, parts) => call[t].op = "destroy"
           /\ PgGetWithRevision(t) => call[t].op = "get_with_revision"
           /\ PgBeginSwap(t) => call[t].op \in PgSwaps
           /\ PgCompareAndSwap(t) => call[t].op = "compare_and_swap"
           /\ PgCompareAndDelete(t) => call[t].op = "compare_and_delete"
           /\ PgConflict(t) => call[t].op \in PgSwaps
           /\ Schema(t) => call[t].op = "setup"
<1>. QED  BY DEF SqlRead, SqlUpsert, SqlDelete, SqlCull, SqlKeys, SqlCollections, SqlDestroyCollection, SqlDestroy,
                 PgGetWithRevision, PgBeginSwap, PgCompareAndSwap, PgCompareAndDelete, PgConflict, Schema, At, Doing

LEMMA RedisStepOps ==
    ASSUME NEW t \in Tasks
    PROVE  /\ RedisGet(t) => call[t].op \in {"get", "ttl"}
           /\ RedisGetMany(t) => call[t].op \in {"get_many", "ttl_many"}
           /\ RedisGetWithRevision(t) => call[t].op = "get_with_revision"
           /\ RedisBatch(t) => call[t].op \in {"put_many", "delete_many"}
           /\ RedisPut(t) => call[t].op = "put"
           /\ RedisPutMany(t) => call[t].op = "put_many"
           /\ RedisDelete(t) => call[t].op = "delete"
           /\ RedisDeleteMany(t) => call[t].op = "delete_many"
           /\ RedisCompareAndSwap(t) => call[t].op = "compare_and_swap"
           /\ RedisCompareAndDelete(t) => call[t].op = "compare_and_delete"
           /\ RedisCull(t) => call[t].op = "cull"
           /\ RedisKeys(t) => call[t].op = "keys"
           /\ RedisCollections(t) => call[t].op = "collections"
           /\ RedisDestroyCollection(t) => call[t].op = "destroy_collection"
           /\ RedisDestroy(t) => call[t].op = "destroy"
<1>1. /\ RedisGet(t) => call[t].op \in {"get", "ttl"}
      /\ RedisGetMany(t) => call[t].op \in {"get_many", "ttl_many"}
      /\ RedisGetWithRevision(t) => call[t].op = "get_with_revision"
      /\ RedisBatch(t) => call[t].op \in {"put_many", "delete_many"}
      /\ RedisPut(t) => call[t].op = "put"
      /\ RedisPutMany(t) => call[t].op = "put_many"
      /\ RedisDelete(t) => call[t].op = "delete"
      /\ RedisDeleteMany(t) => call[t].op = "delete_many"
  BY DEF RedisGet, RedisGetMany, RedisGetWithRevision, RedisFetch, RedisBatchReads, RedisBatch, RedisPut,
         RedisPutMany, RedisDelete, RedisDeleteMany, At, Doing
<1>2. /\ RedisCompareAndSwap(t) => call[t].op = "compare_and_swap"
      /\ RedisCompareAndDelete(t) => call[t].op = "compare_and_delete"
      /\ RedisCull(t) => call[t].op = "cull"
  BY DEF RedisCompareAndSwap, RedisCompareAndDelete, RedisCull, At, Doing
<1>3. RedisKeys(t) => call[t].op = "keys"
  BY DEF RedisKeys, At, Doing
<1>4. RedisCollections(t) => call[t].op = "collections"
  BY DEF RedisCollections, At, Doing
<1>5. RedisDestroyCollection(t) => call[t].op = "destroy_collection"
  BY DEF RedisDestroyCollection, At, Doing
<1>6. RedisDestroy(t) => call[t].op = "destroy"
  BY DEF RedisDestroy, At, Doing
<1>. QED  BY <1>1, <1>2, <1>3, <1>4, <1>5, <1>6

Plainly(t) == Refused(t) \/ Trivial(t) \/ Failed(t)

LEMMA StepsByOp ==
    ASSUME NEW t \in Tasks, OwnStep(t)
    PROVE  /\ Doing(t, Reads) =>
                \/ Plainly(t)
                \/ ~OnRedis /\ ((Doing(t, SqlReads) /\ SqlRead(t, call[t].op)) \/ PgGetWithRevision(t))
                \/ OnRedis /\ (RedisGet(t) \/ RedisGetMany(t) \/ RedisGetWithRevision(t))
           /\ Doing(t, Writes) =>
                \/ Plainly(t)
                \/ ~OnRedis /\ SqlUpsert(t, call[t].op)
                \/ OnRedis /\ (RedisPut(t) \/ RedisBatch(t) \/ RedisPutMany(t))
           /\ Doing(t, Deletes) =>
                \/ Plainly(t)
                \/ ~OnRedis /\ SqlDelete(t, call[t].op)
                \/ OnRedis /\ (RedisDelete(t) \/ RedisBatch(t) \/ RedisDeleteMany(t))
           /\ Doing(t, PgSwaps) =>
                \/ Refused(t) \/ Failed(t)
                \/ ~OnRedis /\ (PgBeginSwap(t) \/ PgCompareAndSwap(t) \/ PgCompareAndDelete(t) \/ PgConflict(t))
                \/ OnRedis /\ (RedisCompareAndSwap(t) \/ RedisCompareAndDelete(t))
           /\ Doing(t, {"cull"}) => \/ Refused(t) \/ Failed(t)
                                    \/ (~OnRedis /\ SqlCull(t)) \/ (OnRedis /\ RedisCull(t))
           /\ Doing(t, {"keys"}) => \/ Plainly(t)
                                    \/ (~OnRedis /\ SqlKeys(t)) \/ (OnRedis /\ RedisKeys(t))
           /\ Doing(t, {"collections"}) =>
                \/ Plainly(t) \/ (~OnRedis /\ SqlCollections(t)) \/ (OnRedis /\ RedisCollections(t))
           /\ Doing(t, {"destroy_collection"}) =>
                \/ Refused(t) \/ Failed(t)
                \/ (~OnRedis /\ SqlDestroyCollection(t)) \/ (OnRedis /\ RedisDestroyCollection(t))
           /\ Doing(t, {"destroy"}) =>
                \/ Refused(t) \/ Failed(t)
                \/ ~OnRedis /\ \E parts \in SUBSET {"table", "changes"} : SqlDestroy(t, parts)
                \/ OnRedis /\ RedisDestroy(t)
<1>1. CASE Refused(t) \/ Failed(t)
  BY <1>1 DEF Plainly
<1>2. CASE Trivial(t)
  BY <1>2 DEF Trivial, Plainly, Doing, PgSwaps, SqlReads, Writes, Deletes
<1>3. CASE ~OnRedis /\ Schema(t)
  BY <1>3, SqlStepOps DEF Doing, Reads, Writes, Deletes, PgSwaps
<1>4. CASE ~OnRedis /\ SqlSteps(t)
  <2>1. CASE \E op \in SqlReads : SqlRead(t, op)
    BY <1>4, <2>1, SqlStepOps DEF Doing, Reads, Writes, Deletes, PgSwaps, SqlReads
  <2>2. CASE \E op \in Writes : SqlUpsert(t, op)
    BY <1>4, <2>2, SqlStepOps DEF Doing, Reads, Writes, Deletes, PgSwaps
  <2>3. CASE \E op \in Deletes : SqlDelete(t, op)
    BY <1>4, <2>3, SqlStepOps DEF Doing, Reads, Writes, Deletes, PgSwaps
  <2>4. CASE SqlCull(t) \/ SqlKeys(t) \/ SqlCollections(t) \/ SqlDestroyCollection(t)
    BY <1>4, <2>4, SqlStepOps DEF Doing, Reads, Writes, Deletes, PgSwaps
  <2>5. CASE \E parts \in SUBSET {"table", "changes"} : SqlDestroy(t, parts)
    <3>1. call[t].op = "destroy"
      BY <2>5, SqlStepOps
    <3>. QED  BY <1>4, <2>5, <3>1 DEF Doing, Reads, Writes, Deletes, PgSwaps
  <2>6. CASE \/ PgGetWithRevision(t) \/ PgBeginSwap(t) \/ PgCompareAndSwap(t) \/ PgCompareAndDelete(t)
             \/ PgConflict(t)
    BY <1>4, <2>6, SqlStepOps DEF Doing, Reads, Writes, Deletes, PgSwaps
  <2>. QED  BY <1>4, <2>1, <2>2, <2>3, <2>4, <2>5, <2>6 DEF SqlSteps
<1>5. CASE OnRedis /\ RedisSteps(t)
  <2>1. CASE \/ RedisGet(t) \/ RedisGetMany(t) \/ RedisGetWithRevision(t)
             \/ RedisBatch(t) \/ RedisPut(t) \/ RedisPutMany(t) \/ RedisDelete(t) \/ RedisDeleteMany(t)
    BY <1>5, <2>1, RedisStepOps DEF Doing, Reads, Writes, Deletes, PgSwaps
  <2>2. CASE \/ RedisCompareAndSwap(t) \/ RedisCompareAndDelete(t) \/ RedisCull(t) \/ RedisKeys(t)
             \/ RedisCollections(t) \/ RedisDestroyCollection(t) \/ RedisDestroy(t)
    BY <1>5, <2>2, RedisStepOps DEF Doing, Reads, Writes, Deletes, PgSwaps
  <2>. QED  BY <1>5, <2>1, <2>2 DEF RedisSteps
<1>. QED  BY <1>1, <1>2, <1>3, <1>4, <1>5, StepCases


LEMMA CoreAlways ==
    Spec => []Core
<1>1. Init => Core
  BY CoreInit
<1>2. Core /\ [Next]_vars => Core'
  <2>1. CASE Core /\ Next
    BY <2>1, CoreNext
  <2>2. CASE Core /\ UNCHANGED vars
    <3>. USE <2>2 DEF vars, serverVars, clientVars, taskVars
    <3>1. TypeOK'
      BY DEF Core, TypeOK
    <3>2. DocsSpent'
      BY DEF Core, DocsSpent, Spent, Writable
    <3>3. Dropped' /\ LoopsTyped'
      BY DEF Core, Dropped, LoopsTyped, Expired, ExpiredAt, OnRedis, Doing
    <3>4. \A t \in Tasks : Begun(t)'
      BY DEF Core, Begun
    <3>. QED  BY <3>1, <3>2, <3>3, <3>4 DEF Core
  <2>. QED  BY <2>1, <2>2
<1>. QED  BY <1>1, <1>2, PTL DEF Spec

\* What the variables of a store hold is of its type, in every backend.
THEOREM DatabaseTyped ==
    Spec => []TypeOK
<1>1. Core => TypeOK
  BY DEF Core
<1>. QED  BY <1>1, CoreAlways, PTL

-----------------------------------------------------------------------------
(* Redis: the registry of collections *)

\* A script that stores enters the collection; only destroy takes any out.
LEMMA RegistrySteps ==
    ASSUME TypeOK, OnRedis, NEW t \in Tasks, OwnStep(t)
    PROVE  /\ made \subseteq made' \/ Doing(t, {"destroy"})
           /\ \A s \in Slots : db'[s] # db[s] /\ db'[s] # Empty => s[1] \in made'
<1>1. CASE Refused(t) \/ Trivial(t) \/ Failed(t)
  BY <1>1 DEF Refused, Trivial, Failed, SqlPlain
<1>2. ASSUME NEW S, db' = Without(S)
      PROVE  \A s \in Slots : db'[s] \in {db[s], Empty}
  BY <1>2 DEF Without
<1>3. ASSUME NEW r, NEW i, RedisStore(t, r, i)
      PROVE  made \subseteq made' /\ \A s \in Slots : db'[s] # db[s] => s[1] \in made'
  <2>1. \A s \in Slots : s # r => db'[s] = db[s]
    BY <1>3 DEF RedisStore, TypeOK
  <2>. QED  BY <1>3, <2>1 DEF RedisStore
<1>4. CASE RedisGet(t) \/ RedisGetMany(t) \/ RedisGetWithRevision(t) \/ RedisBatch(t) \/ RedisCull(t) \/ RedisKeys(t)
  BY <1>4 DEF RedisGet, RedisGetMany, RedisGetWithRevision, RedisFetch, RedisBatch, RedisCull, RedisKeys, RedisStep
<1>5. CASE RedisPut(t)
  BY <1>3, <1>5 DEF RedisPut
<1>6. CASE RedisPutMany(t)
  BY <1>3, <1>6 DEF RedisPutMany
<1>7. CASE RedisDelete(t)
  BY <1>2, <1>7 DEF RedisDelete, RedisStep
<1>8. CASE RedisDeleteMany(t)
  BY <1>2, <1>8 DEF RedisDeleteMany
<1>9. CASE RedisCompareAndSwap(t)
  BY <1>3, <1>9 DEF RedisCompareAndSwap
<1>10. CASE RedisCompareAndDelete(t)
  BY <1>2, <1>10 DEF RedisCompareAndDelete, RedisStep
<1>11. CASE RedisCollections(t)
  <2>1. UNCHANGED db /\ made \subseteq made'
    BY <1>11 DEF RedisCollections, RedisStep, serverVars
  <2>. QED  BY <2>1
<1>12. CASE RedisDestroyCollection(t)
  BY <1>2, <1>12 DEF RedisDestroyCollection, RedisStep
<1>13. CASE RedisDestroy(t)
  <2>1. call[t].op = "destroy"
    BY <1>13, RedisStepOps
  <2>2. \A s \in Slots : db'[s] \in {db[s], Empty}
    BY <1>2, <1>13 DEF RedisDestroy, serverVars, Nothing
  <2>. QED  BY <2>1, <2>2 DEF Doing
<1>. QED  BY <1>1, <1>4, <1>5, <1>6, <1>7, <1>8, <1>9, <1>10, <1>11, <1>12, <1>13, StepCases DEF RedisSteps

\* Every live entry of Redis that was written here is in a registered collection, unless
\* the keyspace is being destroyed (the scripts of put and compare_and_swap).
THEOREM RegistryIsComplete ==
    Spec => []RegistryCovers
<1>1. Init => Registered
  <2>. SUFFICES ASSUME Init PROVE Registered
    OBVIOUS
  <2>1. PICK st \in Stores : db = st.db
    BY DEF Init, StoreInit
  <2>. QED  BY <2>1, StoresAssumption DEF Registered
<1>2. Core /\ Registered /\ [Next]_vars => Registered'
  <2>. SUFFICES ASSUME Core, Registered, [Next]_vars PROVE Registered'
    OBVIOUS
  <2>1. CASE UNCHANGED vars
    BY <2>1 DEF vars, serverVars, taskVars, Registered, OnRedis, Doing
  <2>2. CASE Next
    <3>. SUFFICES ASSUME OnRedis, NEW s \in Slots, Present(db'[s]), db'[s].writer[1] # NoTask
                  PROVE  s[1] \in made' \/ \E u \in Tasks : Doing(u, {"destroy"}) /\ pc'[u] # "begin"
      <4>1. UNCHANGED <<backend, call>>
        BY <2>2, NextCases DEF Core
      <4>. QED  BY <4>1 DEF Registered, OnRedis, Doing, Present
    <3>1. \A u \in Tasks : pc[u] # "begin" => pc'[u] # "begin"
      <4>. TAKE u \in Tasks
      <4>1. Legal(u) => pc'[u] # "begin"
        BY DEF Legal, Ordered
      <4>. QED  BY <2>2, <4>1, MovesItself DEF Core, Still
    <3>2. CASE Ticks
      <4>1. made' = made /\ db'[s] \in {db[s], Empty}
        BY <3>2 DEF Ticks, RedisTick
      <4>. QED  BY <3>1, <4>1 DEF Registered, Present
    <3>3. ASSUME NEW t \in Tasks, OwnStep(t), Legal(t)
          PROVE  s[1] \in made' \/ \E u \in Tasks : Doing(u, {"destroy"}) /\ pc'[u] # "begin"
      <4>1. pc'[t] # "begin"
        BY <3>3 DEF Legal, Ordered
      <4>2. made \subseteq made' \/ Doing(t, {"destroy"})
        BY <3>3, RegistrySteps DEF Core
      <4>3. db'[s] # db[s] => s[1] \in made'
        BY <3>3, RegistrySteps DEF Core, Present
      <4>. QED  BY <3>1, <4>1, <4>2, <4>3 DEF Registered
    <3>. QED  BY <2>2, <3>2, <3>3, NextCases DEF Core
  <2>. QED  BY <2>1, <2>2
<1>3. Registered => RegistryCovers
  BY DEF Registered, RegistryCovers, OnRedis, Live
<1>. QED  BY <1>1, <1>2, <1>3, CoreAlways, PTL DEF Spec

-----------------------------------------------------------------------------
(* The history of a call *)

\* While it runs, its window takes in what each slot holds.
LEMMA History ==
    ASSUME Core, Next, NEW t \in Tasks, pc[t] \notin Ended, pc'[t] # "begin"
    PROVE  /\ \A s \in Slots : window[t][s] \subseteq window'[t][s] /\ db[s] \in window'[t][s] /\ db'[s] \in window'[t][s]
           /\ IF pc[t] = "begin" THEN since'[t] = now /\ before'[t] = db ELSE since'[t] = since[t] /\ before'[t] = before[t]
<1>. QED  BY NextCases, WatchFacts DEF Core

\* A call that has returned answers no more.
LEMMA AnswersNow ==
    ASSUME Core, Next, NEW t \in Tasks, window'[t] # Unwatched
    PROVE  pc[t] \notin Ended /\ pc'[t] # "begin"
<1>. QED  BY NextCases, WatchFacts DEF Core

\* What is not live will not be.
LEMMA LiveFades ==
    ASSUME Core, Next, NEW d \in Doc, ~Live(d)
    PROVE  ~(Present(d) /\ ~ExpiredAt(d, now'))
<1>. QED  BY DbStep DEF Core, Live, Expired

LEMMA WindowTyped ==
    ASSUME Core, NEW t \in Tasks, NEW s \in Slots
    PROVE  window[t][s] \subseteq Doc /\ db[s] \in Doc /\ found[t][s] \in Doc /\ seen[t][s] \in Doc
<1>. QED  BY DEF Core, TypeOK

\* Nothing that a stage is about changes while the call, not at its beginning, is still.
LEMMA Standing ==
    ASSUME Core, Next, NEW t \in Tasks, pc[t] \notin Ended, pc[t] # "begin", Still(t)
    PROVE  /\ \A s \in Slots : window[t][s] \subseteq window'[t][s]
           /\ since'[t] = since[t] /\ before'[t] = before[t] /\ call'[t] = call[t]
           /\ \A s \in Slots : (\E d \in window[t][s] : ~Live(d))
                => \E d \in window'[t][s] : ~(Present(d) /\ ~ExpiredAt(d, now'))
           /\ Aging(t) => \A s \in todo[t] : ExpiredAt(seen[t][s], now')
<1>1. pc'[t] # "begin"
  BY DEF Still
<1>2. todo[t] \subseteq Slots
  BY DEF Core, TypeOK
<1>3. Aging(t) => \A s \in todo[t] : ExpiredAt(seen[t][s], now')
  BY <1>2, DbStep, WindowTyped DEF Core, Aging, Expired
<1>4. \A s \in Slots : (\E d \in window[t][s] : ~Live(d))
                => \E d \in window'[t][s] : ~(Present(d) /\ ~ExpiredAt(d, now'))
  BY <1>1, History, LiveFades, WindowTyped
<1>. QED  BY <1>1, <1>3, <1>4, History, NextCases DEF Core

-----------------------------------------------------------------------------
(* Reads *)

ReadRight(t) == Answers(t, Reads) => AnswersRead(t, found[t])

LEMMA AnswersReadStays ==
    ASSUME Core, Next, NEW t \in Tasks, pc[t] \notin Ended, pc[t] # "begin", pc'[t] # "begin",
           AnswersRead(t, found[t]), found'[t] = found[t]
    PROVE  AnswersRead(t, found[t])'
<1>1. since'[t] = since[t] /\ \A s \in Slots : window[t][s] \subseteq window'[t][s]
  BY History
<1>2. Target(t)' = Target(t) /\ Target(t) \subseteq Slots
  BY NextCases DEF Core, Target
<1>3. ASSUME NEW s \in Target(t), NEW d \in window[t][s], ~Live(d)
      PROVE  d \in window'[t][s] /\ ~(Present(d) /\ ~ExpiredAt(d, now'))
  BY <1>1, <1>2, <1>3, LiveFades, WindowTyped
<1>4. ASSUME NEW s \in Target(t)
      PROVE  IF Present(found'[t][s]) THEN found'[t][s] \in window'[t][s] /\ ~ExpiredAt(found'[t][s], since'[t])
             ELSE \E d \in window'[t][s] : ~(Present(d) /\ ~ExpiredAt(d, now'))
  BY <1>1, <1>2, <1>3 DEF AnswersRead
<1>. QED  BY <1>2, <1>4 DEF AnswersRead, Live, Expired, Present

LEMMA ReadNow ==
    ASSUME Core, Next, NEW t \in Tasks, pc[t] = "begin", pc'[t] # "begin",
           \A s \in Target(t) : found'[t][s] = IF Live(db[s]) THEN db[s] ELSE Empty
    PROVE  AnswersRead(t, found[t])'
<1>1. since'[t] = now /\ \A s \in Slots : db[s] \in window'[t][s]
  BY History DEF Ended
<1>2. Target(t)' = Target(t) /\ Target(t) \subseteq Slots
  BY NextCases DEF Core, Target
<1>3. \A s \in Target(t) : ~Live(db[s]) => ~(Present(db[s]) /\ ~ExpiredAt(db[s], now'))
  BY <1>2, LiveFades, WindowTyped
<1>4. ASSUME NEW s \in Target(t)
      PROVE  IF Present(found'[t][s]) THEN found'[t][s] \in window'[t][s] /\ ~ExpiredAt(found'[t][s], since'[t])
             ELSE \E d \in window'[t][s] : ~(Present(d) /\ ~ExpiredAt(d, now'))
  BY <1>1, <1>2, <1>3, DocFacts DEF Live, Expired, Core
<1>. QED  BY <1>2, <1>4 DEF AnswersRead, Live, Expired, Present

\* Fetching sorts what is there into what is live, the answer, and what has expired.
LEMMA FetchFacts ==
    ASSUME Core, NEW t \in Tasks, pc[t] = "begin", NEW decoded \in BOOLEAN, Fetch(t, decoded)
    PROVE  /\ pc'[t] \in {"ok", "expiring", "error"}
           /\ pc'[t] # "error" =>
                /\ \A s \in Target(t) : found'[t][s] = IF Live(db[s]) THEN db[s] ELSE Empty
                /\ todo'[t] = ExpiredOf(Target(t)) /\ seen'[t] = Of(Target(t))
<1>1. found[t] = Nothing /\ Target(t) \subseteq Slots
  BY DEF Core, Begun, Target
<1>2. CASE decoded
  <2>1. /\ pc'[t] = (IF ExpiredOf(Target(t)) = {} THEN "ok" ELSE "expiring")
        /\ found'[t] = [s \in Slots |-> IF s \in LiveOf(Target(t)) THEN db[s] ELSE found[t][s]]
        /\ todo'[t] = ExpiredOf(Target(t)) /\ seen'[t] = Of(Target(t))
    BY <1>2 DEF Fetch, Goto, Core, TypeOK
  <2>. QED  BY <1>1, <2>1 DEF LiveOf, Nothing
<1>3. CASE ~decoded
  BY <1>3 DEF Fetch, Return, Goto, Core, TypeOK
<1>. QED  BY <1>2, <1>3

\* The steps of a read: it begins with the answer, all of it, or ends with the one it has.
LEMMA ReadSteps ==
    ASSUME Core, NEW t \in Tasks, Doing(t, Reads), OwnStep(t), pc'[t] \in {"ok", "expiring"}
    PROVE  \/ /\ pc[t] = "begin"
              /\ \A s \in Target(t) : found'[t][s] = IF Live(db[s]) THEN db[s] ELSE Empty
              /\ pc'[t] = "expiring" => todo'[t] = ExpiredOf(Target(t)) /\ seen'[t] = Of(Target(t))
           \/ At(t, SqlReads, "expiring") /\ pc'[t] = "ok" /\ found'[t] = found[t]
<1>1. CASE Plainly(t)
  <2>1. Trivial(t) /\ pc'[t] = "ok"
    BY <1>1 DEF Plainly, Refused, Failed, Trivial, Return, Goto, Core, TypeOK
  <2>2. Target(t) = {}
    BY <2>1 DEF Trivial, Target
  <2>. QED  BY <2>1, <2>2 DEF Trivial
<1>2. CASE Doing(t, SqlReads) /\ SqlRead(t, call[t].op)
  <2>1. CASE At(t, {call[t].op}, "begin")
    <3>1. Fetch(t, \A s \in Target(t) : SqlDecodes(db[s])) \/ Return(t, "error")
      BY <1>2, <2>1 DEF SqlRead, At
    <3>2. ~Return(t, "error")
      BY DEF Return, Goto, Core, TypeOK
    <3>. QED  BY <2>1, <3>1, <3>2, FetchFacts DEF At
  <2>2. CASE At(t, {call[t].op}, "expiring")
    <3>1. Answer(t, found[t]) \/ Return(t, "error")
      BY <1>2, <2>2 DEF SqlRead, At, SqlFail
    <3>2. pc'[t] = "ok" /\ found'[t] = found[t]
      BY <3>1 DEF Return, Answer, Goto, Core, TypeOK
    <3>3. call[t].op \in SqlReads
      BY <1>2 DEF Doing
    <3>. QED  BY <2>2, <3>2, <3>3 DEF At, Doing
  <2>. QED  BY <1>2, <2>1, <2>2 DEF SqlRead
<1>3. CASE PgGetWithRevision(t) \/ RedisGet(t) \/ RedisGetMany(t) \/ RedisGetWithRevision(t)
  <2>1. pc[t] = "begin" /\ (Answer(t, Of(LiveOf(Target(t)))) \/ Return(t, "error"))
    BY <1>3 DEF PgGetWithRevision, RedisGet, RedisGetMany, RedisGetWithRevision, RedisFetch, At
  <2>2. pc'[t] = "ok" /\ found'[t] = Of(LiveOf(Target(t)))
    BY <2>1 DEF Return, Answer, Goto, Core, TypeOK
  <2>. QED  BY <2>1, <2>2 DEF Of, LiveOf, Target
<1>. QED  BY <1>1, <1>2, <1>3, StepsByOp

LEMMA ReadingStep ==
    ASSUME Core, Next, NEW t \in Tasks, Reading(t)
    PROVE  Reading(t)'
<1>0. UNCHANGED <<backend, call>>
  BY NextCases DEF Core
<1>. SUFFICES ASSUME Doing(t, SqlReads), pc'[t] = "expiring"
              PROVE  Aging(t)' /\ AnswersRead(t, found[t])'
  BY <1>0 DEF Reading, At, Doing
<1>1. Doing(t, Reads)
  BY DEF Doing, SqlReads, Reads
<1>2. CASE Still(t)
  <2>1. pc[t] = "expiring" /\ pc[t] \notin Ended
    BY <1>2 DEF Still, Ended
  <2>2. Aging(t) /\ AnswersRead(t, found[t])
    BY <2>1 DEF Reading, At
  <2>3. AnswersRead(t, found[t])'
    BY <1>2, <2>1, <2>2, AnswersReadStays DEF Still
  <2>4. Aging(t)'
    BY <1>2, <2>1, <2>2, Standing DEF Still, Aging, Expired
  <2>. QED  BY <2>3, <2>4
<1>3. CASE OwnStep(t) /\ Legal(t)
  <2>1. /\ pc[t] = "begin"
        /\ \A s \in Target(t) : found'[t][s] = IF Live(db[s]) THEN db[s] ELSE Empty
        /\ todo'[t] = ExpiredOf(Target(t)) /\ seen'[t] = Of(Target(t))
    BY <1>1, <1>3, ReadSteps
  <2>2. now' = now /\ Target(t) \subseteq Slots
    BY <1>3 DEF Legal, Ordered, Target
  <2>3. Aging(t)'
    BY <2>1, <2>2 DEF Aging, ExpiredOf, Of, Expired
  <2>. QED  BY <2>1, <2>3, ReadNow
<1>. QED  BY <1>2, <1>3, MovesItself DEF Core

LEMMA ReadRightStep ==
    ASSUME Core, Next, NEW t \in Tasks, Reading(t), ReadRight(t)
    PROVE  ReadRight(t)'
<1>0. UNCHANGED <<backend, call>>
  BY NextCases DEF Core
<1>. SUFFICES ASSUME Doing(t, Reads), pc'[t] = "ok", window'[t] # Unwatched
              PROVE  AnswersRead(t, found[t])'
  BY <1>0 DEF ReadRight, Answers, Done, At, Doing
<1>1. pc[t] \notin Ended
  BY AnswersNow
<1>2. OwnStep(t)
  BY <1>1, MovesItself DEF Core, Ended
<1>3. CASE At(t, SqlReads, "expiring") /\ found'[t] = found[t]
  <2>1. AnswersRead(t, found[t]) /\ pc[t] # "begin"
    BY <1>3 DEF Reading, At
  <2>. QED  BY <1>1, <1>3, <2>1, AnswersReadStays
<1>. QED  BY <1>2, <1>3, ReadSteps, ReadNow

\* What get, get_many, ttl and ttl_many answer was in the store while the call ran, live
\* when it began, and None is answered for a key only if it was absent or expired at some
\* time during it: fetching and deleting what has expired are two requests of the SQL
\* backends, with any number of other calls between them.
THEOREM ReadsAreCurrent ==
    Spec => []ReadsCurrent
<1>. DEFINE Inv == \A t \in Tasks : Reading(t) /\ ReadRight(t)
<1>1. Init => Inv
  BY DEF Init, StoreInit, Reading, ReadRight, Answers, Done, At
<1>2. Core /\ Inv /\ [Next]_vars => Inv'
  <2>. SUFFICES ASSUME Core, Inv, [Next]_vars, NEW t \in Tasks
                PROVE  (Reading(t) /\ ReadRight(t))'
    OBVIOUS
  <2>1. CASE Next
    BY <2>1, ReadingStep, ReadRightStep
  <2>2. CASE UNCHANGED vars
    <3>1. (Reading(t) <=> Reading(t)') /\ (ReadRight(t) <=> ReadRight(t)')
      BY <2>2 DEF vars, serverVars, clientVars, taskVars, Reading, ReadRight, Answers, Done, At, Doing,
                  AnswersRead, Aging, Target, Live, Expired, ExpiredAt, Present
    <3>. QED  BY <3>1
  <2>. QED  BY <2>1, <2>2
<1>3. Inv => ReadsCurrent
  BY DEF ReadRight, ReadsCurrent, AnswersRead
<1>. QED  BY <1>1, <1>2, <1>3, CoreAlways, PTL DEF Spec

-----------------------------------------------------------------------------
(* Clean-ups *)

CullRight(t) ==
    Answers(t, {"cull"}) =>
        \A s \in Slots : Present(before[t][s]) /\ ExpiredAt(before[t][s], since[t]) => db[s] # before[t][s]

\* cull begins with all that has expired, and ends with what is left of it gone.
LEMMA CullSteps ==
    ASSUME Core, NEW t \in Tasks, Doing(t, {"cull"}), OwnStep(t), pc'[t] \in {"ok", "expiring"}
    PROVE  \/ /\ pc[t] = "begin"
              /\ pc'[t] = "ok" => ExpiredOf(Slots) = {} /\ db' = db
              /\ pc'[t] = "expiring" => todo'[t] = ExpiredOf(Slots) /\ seen'[t] = Of(ExpiredOf(Slots))
           \/ pc[t] = "expiring" /\ pc'[t] = "ok" /\ db' = Without(Unchanged(t, todo[t]))
<1>1. CASE Refused(t) \/ Failed(t)
  BY <1>1 DEF Refused, Failed, Return, Goto, Core, TypeOK
<1>2. CASE SqlCull(t)
  <2>1. CASE At(t, {"cull"}, "begin")
    <3>1. ~Return(t, "error")
      BY DEF Return, Goto, Core, TypeOK
    <3>2. Goto(t, IF ExpiredOf(Slots) = {} THEN "ok" ELSE "expiring", Of(ExpiredOf(Slots)), ExpiredOf(Slots), Nothing)
          /\ db' = db
      BY <1>2, <2>1, <3>1 DEF SqlCull, At
    <3>. QED  BY <2>1, <3>2 DEF Goto, At, Core, TypeOK
  <2>2. CASE At(t, {"cull"}, "expiring")
    <3>1. ~Return(t, "error")
      BY DEF Return, Goto, Core, TypeOK
    <3>2. db' = Without(Unchanged(t, todo[t])) /\ Return(t, "ok")
      BY <1>2, <2>2, <3>1 DEF SqlCull, At, SqlFail
    <3>. QED  BY <2>2, <3>2 DEF Return, Goto, At, Core, TypeOK
  <2>. QED  BY <1>2, <2>1, <2>2 DEF SqlCull
<1>3. CASE OnRedis /\ RedisCull(t)
  <2>1. ExpiredOf(Slots) = {}
    BY <1>3 DEF Core, Dropped, ExpiredOf
  <2>. QED  BY <1>3, <2>1 DEF RedisCull, Return, Goto, At, Core, TypeOK
<1>. QED  BY <1>1, <1>2, <1>3, StepsByOp

LEMMA CullingStep ==
    ASSUME Core, Next, NEW t \in Tasks, Culling(t)
    PROVE  Culling(t)'
<1>0. UNCHANGED <<backend, call>>
  BY NextCases DEF Core
<1>. SUFFICES ASSUME Doing(t, {"cull"}), pc'[t] = "expiring"
              PROVE  Aging(t)' /\ CullLeft(t, todo[t])'
  BY <1>0 DEF Culling, At, Doing
<1>1. CASE Still(t)
  <2>1. pc[t] = "expiring" /\ pc[t] \notin Ended
    BY <1>1 DEF Still, Ended
  <2>2. Aging(t) /\ CullLeft(t, todo[t])
    BY <2>1 DEF Culling, At
  <2>3. since'[t] = since[t] /\ before'[t] = before[t] /\ \A s \in todo[t] : ExpiredAt(seen[t][s], now')
    BY <1>1, <2>1, <2>2, Standing
  <2>4. Aging(t)'
    BY <1>1, <2>3 DEF Still, Aging, Expired
  <2>5. CullLeft(t, todo[t])'
    BY <1>1, <2>2, <2>3 DEF CullLeft, Still, Present, ExpiredAt
  <2>. QED  BY <2>4, <2>5
<1>2. CASE OwnStep(t) /\ Legal(t)
  <2>1. pc[t] = "begin" /\ todo'[t] = ExpiredOf(Slots) /\ seen'[t] = Of(ExpiredOf(Slots))
    BY <1>2, CullSteps
  <2>2. now' = now /\ before'[t] = db /\ since'[t] = now
    <3>1. now' = now /\ pc[t] \notin Ended /\ pc'[t] # "begin"
      BY <1>2 DEF Legal, Ordered
    <3>. QED  BY <2>1, <3>1, History
  <2>3. Aging(t)'
    BY <2>1, <2>2 DEF Aging, ExpiredOf, Of, Expired
  <2>4. CullLeft(t, todo[t])'
    BY <2>1, <2>2 DEF CullLeft, ExpiredOf, Of, Expired, Present, ExpiredAt
  <2>. QED  BY <2>3, <2>4
<1>. QED  BY <1>1, <1>2, MovesItself DEF Core

LEMMA CullRightStep ==
    ASSUME Core, Next, NEW t \in Tasks, Culling(t)
    PROVE  CullRight(t)'
<1>0. UNCHANGED <<backend, call>>
  BY NextCases DEF Core
<1>. SUFFICES ASSUME Doing(t, {"cull"}), pc'[t] = "ok", window'[t] # Unwatched, NEW s \in Slots,
                     Present(before'[t][s]), ExpiredAt(before'[t][s], since'[t])
              PROVE  db'[s] # before'[t][s]
  BY <1>0 DEF CullRight, Answers, Done, At, Doing, Present, ExpiredAt
<1>1. pc[t] \notin Ended /\ pc'[t] # "begin"
  BY AnswersNow
<1>2. OwnStep(t)
  BY <1>1, MovesItself DEF Core, Ended
<1>3. CASE pc[t] = "begin" /\ ExpiredOf(Slots) = {} /\ db' = db
  <2>1. before'[t] = db /\ since'[t] = now
    BY <1>1, <1>3, History
  <2>. QED  BY <1>3, <2>1 DEF ExpiredOf, Expired
<1>4. CASE pc[t] = "expiring" /\ db' = Without(Unchanged(t, todo[t]))
  <2>1. before'[t] = before[t] /\ since'[t] = since[t]
    BY <1>1, <1>4, History
  <2>2. s \in todo[t] /\ seen[t][s] = before[t][s]
    BY <1>4, <2>1 DEF Culling, CullLeft, At
  <2>. QED  BY <1>4, <2>1, <2>2 DEF Without, Unchanged, Present
<1>. QED  BY <1>2, <1>3, <1>4, CullSteps

\* What had expired when cull was called is gone when it reports success, although rows are
\* selected and deleted by two requests and the second one takes only what is as it was.
THEOREM CullsAreComplete ==
    Spec => []CullComplete
<1>. DEFINE Inv == \A t \in Tasks : Culling(t) /\ CullRight(t)
<1>1. Init => Inv
  BY DEF Init, StoreInit, Culling, CullRight, Answers, Done, At
<1>2. Core /\ Inv /\ [Next]_vars => Inv'
  <2>. SUFFICES ASSUME Core, Inv, [Next]_vars, NEW t \in Tasks
                PROVE  (Culling(t) /\ CullRight(t))'
    OBVIOUS
  <2>1. CASE Next
    BY <2>1, CullingStep, CullRightStep
  <2>2. CASE UNCHANGED vars
    <3>1. (Culling(t) <=> Culling(t)') /\ (CullRight(t) <=> CullRight(t)')
      BY <2>2 DEF vars, serverVars, clientVars, taskVars, Culling, CullRight, Answers, Done, At, Doing,
                  CullLeft, Aging, Expired, ExpiredAt, Present
    <3>. QED  BY <3>1
  <2>. QED  BY <2>1, <2>2
<1>3. Inv => CullComplete
  BY DEF CullRight, CullComplete
<1>. QED  BY <1>1, <1>2, <1>3, CoreAlways, PTL DEF Spec

\* A step that takes a live entry out is one of a call that removes, and shows.
LEMMA Removal ==
    ASSUME Core, NEW t \in Tasks, Reading(t), Culling(t), OwnStep(t),
           NEW s \in Slots, Live(db[s]), db'[s] = Empty
    PROVE  Doing(t, Removers) /\ (pc'[t] # pc[t] \/ todo'[t] # todo[t] \/ rest'[t] # rest[t])
<1>0. db'[s] # db[s]
  BY DEF Live, Present
<1>1. CASE Refused(t) \/ Trivial(t) \/ Failed(t)
  BY <1>0, <1>1 DEF Refused, Trivial, Failed
<1>2. CASE Schema(t)
  BY <1>0, <1>2 DEF Schema, SqlCreateTable, SqlInspectTable, SqlEnsureIndex, PgEnsureColumns, PgEnsureIndexAndChanges
<1>3. ASSUME At(t, SqlReads, "expiring") \/ At(t, {"cull"}, "expiring"), db' = Without(Unchanged(t, todo[t]))
      PROVE  FALSE
  <2>1. Aging(t)
    BY <1>3 DEF Reading, Culling
  <2>2. s \in todo[t] /\ db[s] = seen[t][s]
    BY <1>0, <1>3 DEF Without, Unchanged
  <2>. QED  BY <2>1, <2>2 DEF Aging, Live
<1>4. ASSUME db' = Stored(Target(t), Prepared(t))
      PROVE  FALSE
  <2>1. s \in Target(t)
    BY <1>0, <1>4, StoredFacts DEF Core
  <2>2. db'[s] = NewDoc(t, LastPosition(t, s), now) /\ LastPosition(t, s) \in DOMAIN call[t].keys
    BY <1>4, <2>1, StoredFacts DEF Core
  <2>3. Present(NewDoc(t, LastPosition(t, s), now))
    BY <2>2, DocFacts DEF Core
  <2>. HIDE DEF NewDoc, LastPosition
  <2>. QED  BY <2>2, <2>3 DEF Present
<1>5. CASE \E op \in SqlReads : SqlRead(t, op)
  BY <1>0, <1>3, <1>5 DEF SqlRead, SqlFail, At, Doing
<1>6. CASE \E op \in Writes : SqlUpsert(t, op)
  BY <1>0, <1>4, <1>6 DEF SqlUpsert, SqlFail
<1>7. CASE (\E op \in Deletes : SqlDelete(t, op)) \/ SqlDestroyCollection(t)
  <2>1. pc[t] = "begin" /\ Doing(t, Removers)
    BY <1>7 DEF SqlDelete, SqlDestroyCollection, At, Doing, Removers, Deletes
  <2>2. pc'[t] \in {"ok", "error"}
    BY <1>7 DEF SqlDelete, SqlDestroyCollection, SqlFail, Return, Answer, Goto, Core, TypeOK
  <2>. QED  BY <2>1, <2>2
<1>8. CASE SqlCull(t)
  BY <1>0, <1>3, <1>8 DEF SqlCull, SqlFail
<1>9. CASE SqlKeys(t) \/ SqlCollections(t) \/ PgGetWithRevision(t) \/ PgBeginSwap(t) \/ PgConflict(t)
  BY <1>0, <1>9 DEF SqlKeys, SqlCollections, PgGetWithRevision, PgBeginSwap, PgConflict, SqlSelectLive
<1>10. CASE \E parts \in SUBSET {"table", "changes"} : SqlDestroy(t, parts)
  <2>1. pc[t] = "dropping" /\ Return(t, "ok") /\ Doing(t, Removers)
    BY <1>0, <1>10 DEF SqlDestroy, SqlFail, At, Doing, Removers
  <2>. QED  BY <2>1 DEF Return, Goto, Core, TypeOK
<1>11. CASE PgCompareAndSwap(t)
  BY <1>0, <1>4, <1>11 DEF PgCompareAndSwap
<1>12. CASE PgCompareAndDelete(t)
  BY <1>0, <1>12 DEF PgCompareAndDelete, Return, Goto, At, Doing, Removers, Core, TypeOK
<1>13. CASE RedisGet(t) \/ RedisGetMany(t) \/ RedisGetWithRevision(t) \/ RedisBatch(t) \/ RedisCull(t)
            \/ RedisKeys(t) \/ RedisCollections(t)
  <2>1. db' = db
    BY <1>13 DEF RedisGet, RedisGetMany, RedisGetWithRevision, RedisFetch, RedisBatch, RedisCull, RedisKeys,
                 RedisCollections, serverVars
  <2>. QED  BY <1>0, <2>1
<1>14. ASSUME NEW r, NEW i \in DOMAIN call[t].keys, RedisStore(t, r, i)
       PROVE  FALSE
  <2>1. db'[s] = NewDoc(t, i, now)
    BY <1>0, <1>14 DEF RedisStore, Core, TypeOK
  <2>. QED  BY <2>1, DocFacts DEF Core, Present
<1>15. CASE RedisPut(t) \/ RedisCompareAndSwap(t)
  <2>1. PICK r : RedisStore(t, r, 1)
    BY <1>0, <1>15 DEF RedisPut, RedisCompareAndSwap
  <2>2. call[t].op \in {"put", "compare_and_swap"}
    BY <1>15 DEF RedisPut, RedisCompareAndSwap, At, Doing
  <2>3. 1 \in DOMAIN call[t].keys
    <3>1. DOMAIN call[t].keys = 1 .. Len(call[t].keys) /\ call[t] \in Calls
      BY CallFacts DEF Core
    <3>2. Len(call[t].keys) = 1
      BY <2>2, <3>1, CallsAssumption
    <3>. QED  BY <3>1, <3>2
  <2>. QED  BY <1>14, <2>1, <2>3
<1>16. CASE RedisPutMany(t)
  <2>1. NextPosition(t) \in DOMAIN call[t].keys
    <3>1. rest[t] # {} /\ rest[t] \subseteq DOMAIN call[t].keys
      BY <1>16 DEF RedisPutMany, At, Doing, Core, LoopsTyped
    <3>. QED  BY <3>1, PositionFacts DEF Core
  <2>. QED  BY <1>14, <1>16, <2>1 DEF RedisPutMany
<1>17. CASE RedisDelete(t)
  BY <1>17 DEF RedisDelete, Answer, Goto, At, Doing, Removers, Deletes, Core, TypeOK
<1>18. CASE RedisDeleteMany(t)
  <2>1. NextPosition(t) \in rest[t] /\ Doing(t, Removers)
    <3>1. rest[t] # {} /\ rest[t] \subseteq DOMAIN call[t].keys /\ Doing(t, Removers)
      BY <1>18 DEF RedisDeleteMany, At, Doing, Core, LoopsTyped, Removers, Deletes
    <3>. QED  BY <3>1, PositionFacts DEF Core
  <2>2. rest'[t] = rest[t] \ {NextPosition(t)}
    BY <1>18 DEF RedisDeleteMany, RedisAdvance, Core, TypeOK
  <2>. QED  BY <2>1, <2>2
<1>19. CASE RedisCompareAndDelete(t)
  BY <1>0, <1>19 DEF RedisCompareAndDelete, Return, Goto, At, Doing, Removers, Core, TypeOK
<1>20. CASE RedisDestroyCollection(t)
  <2>1. At(t, {"destroy_collection"}, "deleting")
    BY <1>0, <1>20 DEF RedisDestroyCollection
  <2>2. pc'[t] \in {"ok", "scanning"}
    BY <1>20, <2>1 DEF RedisDestroyCollection, At, Goto, Core, TypeOK
  <2>. QED  BY <2>1, <2>2 DEF At, Doing, Removers
<1>21. CASE RedisDestroy(t)
  <2>1. Doing(t, Removers)
    BY <1>21 DEF RedisDestroy, At, Doing, Removers
  <2>2. \/ pc[t] = "begin" /\ Return(t, "ok")
        \/ \E r \in todo[t] : Goto(t, pc[t], Nothing, todo[t] \ {r}, Nothing)
    BY <1>0, <1>21 DEF RedisDestroy, serverVars, At
  <2>3. pc'[t] # pc[t] \/ todo'[t] # todo[t]
    BY <2>2 DEF Return, Goto, Core, TypeOK
  <2>. QED  BY <2>1, <2>3
<1>. QED  BY <1>1, <1>2, <1>5, <1>6, <1>7, <1>8, <1>9, <1>10, <1>11, <1>12, <1>13, <1>15, <1>16, <1>17, <1>18,
             <1>19, <1>20, <1>21, StepCases DEF SqlSteps, RedisSteps

\* An expired row is deleted only as it was read, an expired key by the server itself: no
\* read, cull or enumeration takes a live entry along, though the one it replaced had
\* expired.
THEOREM CleanupsKeepLive ==
    Spec => ExpiryKeepsLive
<1>. DEFINE Inv == \A t \in Tasks : Reading(t) /\ Culling(t)
<1>1. Init => Inv
  BY DEF Init, StoreInit, Culling, Reading, At
<1>2. Core /\ Inv /\ [Next]_vars => Inv'
  <2>. SUFFICES ASSUME Core, Inv, [Next]_vars, NEW t \in Tasks
                PROVE  (Reading(t) /\ Culling(t))'
    OBVIOUS
  <2>1. CASE Next
    BY <2>1, CullingStep, ReadingStep
  <2>2. CASE UNCHANGED vars
    <3>1. (Culling(t) <=> Culling(t)') /\ (Reading(t) <=> Reading(t)')
      BY <2>2 DEF vars, serverVars, clientVars, taskVars, Culling, Reading, At, Doing, AnswersRead, Target,
                  CullLeft, Aging, Live, Expired, ExpiredAt, Present
    <3>. QED  BY <3>1
  <2>. QED  BY <2>1, <2>2
<1>3. Core /\ Inv /\ [Next]_vars => [LiveKept]_vars
  <2>. SUFFICES ASSUME Core, Inv, Next, NEW s \in Slots, Live(db[s]), ~ExpiredAt(db[s], now'), db'[s] = Empty
                PROVE  \E t \in Tasks : Doing(t, Removers) /\ Acts(t)
    BY DEF LiveKept
  <2>1. CASE Ticks
    BY <2>1 DEF Ticks, Tick, RedisTick, serverVars, Live, Present
  <2>2. ASSUME NEW t \in Tasks, OwnStep(t)
        PROVE  Doing(t, Removers) /\ Acts(t)
    BY <2>2, Removal DEF Acts
  <2>. QED  BY <2>1, <2>2, NextCases DEF Core
<1>. QED  BY <1>1, <1>2, <1>3, CoreAlways, PTL DEF Spec, ExpiryKeepsLive

-----------------------------------------------------------------------------
(* Conditional writes *)

\* A key that Postgres does not take is turned down, and the others' are all taken.
Swapper(t) ==
    /\ TooLong(t) => backend = "postgres"
    /\ At(t, PgSwaps, "swapping") => ~TooLong(t)

\* A conditional write is about one slot.
LEMMA SwapTarget ==
    ASSUME Core, NEW t \in Tasks, Doing(t, PgSwaps), ~TooLong(t)
    PROVE  \E s \in Slots : Target(t) = {s}
<1>1. call[t] \in Calls /\ DOMAIN call[t].keys = 1 .. Len(call[t].keys)
      /\ \A i \in DOMAIN call[t].keys : call[t].keys[i] \in LongKeys \/ <<call[t].coll, call[t].keys[i]>> \in Slots
  BY CallFacts DEF Core
<1>2. Len(call[t].keys) = 1
  BY <1>1, CallsAssumption DEF Doing, PgSwaps
<1>3. DOMAIN call[t].keys = {1}
  BY <1>1, <1>2
<1>4. <<call[t].coll, call[t].keys[1]>> \in Slots
  BY <1>1, <1>3 DEF TooLong
<1>5. \A s \in Target(t) : s = <<call[t].coll, call[t].keys[1]>>
  BY <1>3, SlotsAssumption DEF Target
<1>6. <<call[t].coll, call[t].keys[1]>> \in Target(t)
  BY <1>3, <1>4 DEF Target
<1>. QED  BY <1>4, <1>5, <1>6

\* One that succeeds, expecting a revision, has found it, and replaces or deletes it.
LEMMA SwapSteps ==
    ASSUME Core, NEW t \in Tasks, Swapper(t), Doing(t, PgSwaps), OwnStep(t), pc'[t] = "ok",
           call[t].expected # Absent
    PROVE  /\ ~TooLong(t)
           /\ \A s \in Target(t) : db[s].writer = call[t].expected
           /\ \A s \in Target(t) : db'[s] = Empty \/ \E i \in DOMAIN call[t].keys : db'[s] = NewDoc(t, i, now) /\ Writable(t, i)
<1>1. ~(Refused(t) \/ Failed(t) \/ PgBeginSwap(t) \/ PgConflict(t))
  BY DEF Refused, Failed, PgBeginSwap, PgConflict, GoOn, Return, Goto, Core, TypeOK
<1>2. ~GoOn(t, "fetching") /\ \A f : ~Goto(t, "conflict", Nothing, {}, f)
  BY DEF GoOn, Goto, Core, TypeOK
<1>3. ~Return(t, "error") /\ ~Return(t, "conflict")
  BY DEF Return, Goto, Core, TypeOK
<1>4. CASE ~OnRedis /\ (PgCompareAndSwap(t) \/ PgCompareAndDelete(t))
  <2>1. pc[t] = "swapping" /\ ~TooLong(t)
    BY <1>4 DEF PgCompareAndSwap, PgCompareAndDelete, At, Swapper
  <2>2. \A s \in Target(t) : PgMatches(t, db[s])
    BY <1>2, <1>4 DEF PgCompareAndSwap, PgCompareAndDelete
  <2>3. db' = Stored(Target(t), Prepared(t)) \/ db' = Without(Target(t))
    BY <1>2, <1>4 DEF PgCompareAndSwap, PgCompareAndDelete
  <2>4. \A s \in Target(t) : Without(Target(t))[s] = Empty
    BY DEF Without, Target
  <2>5. \A s \in Target(t) : /\ Stored(Target(t), Prepared(t))[s] = NewDoc(t, LastPosition(t, s), now)
                             /\ LastPosition(t, s) \in DOMAIN call[t].keys
    BY StoredFacts DEF Core
  <2>6. \A i : Writable(t, i)
    BY <2>1 DEF Writable
  <2>. HIDE DEF NewDoc, LastPosition
  <2>7. \A s \in Target(t) : db'[s] = Empty \/ \E i \in DOMAIN call[t].keys : db'[s] = NewDoc(t, i, now) /\ Writable(t, i)
    BY <2>3, <2>4, <2>5, <2>6
  <2>. QED  BY <2>1, <2>2, <2>7 DEF PgMatches
<1>5. CASE OnRedis /\ (RedisCompareAndSwap(t) \/ RedisCompareAndDelete(t))
  <2>1. pc[t] = "begin" /\ ~TooLong(t)
    BY <1>5 DEF RedisCompareAndSwap, RedisCompareAndDelete, At, Swapper, OnRedis, RedisKind
  <2>2. PICK r \in Slots : Target(t) = {r}
    BY <2>1, SwapTarget
  <2>3. (\A s \in Target(t) : RedisMatches(t, db[s])) /\ ((\E s \in Target(t) : RedisStore(t, s, 1)) \/ db' = Without(Target(t)))
    BY <1>2, <1>3, <1>5 DEF RedisCompareAndSwap, RedisCompareAndDelete, RedisConflict
  <2>4. 1 \in DOMAIN call[t].keys /\ Writable(t, 1)
    <3>1. call[t] \in Calls /\ DOMAIN call[t].keys = 1 .. Len(call[t].keys)
      BY CallFacts DEF Core
    <3>2. Len(call[t].keys) = 1
      BY <3>1, CallsAssumption DEF Doing, PgSwaps
    <3>3. 1 \in DOMAIN call[t].keys
      BY <3>1, <3>2
    <3>. QED  BY <2>1, <3>3 DEF Writable
  <2>5. RedisStore(t, r, 1) => db'[r] = NewDoc(t, 1, now)
    BY DEF RedisStore, Core, TypeOK
  <2>6. db' = Without(Target(t)) => db'[r] = Empty
    BY <2>2 DEF Without
  <2>7. db'[r] = Empty \/ db'[r] = NewDoc(t, 1, now)
    BY <2>2, <2>3, <2>5, <2>6
  <2>. HIDE DEF NewDoc
  <2>. QED  BY <2>1, <2>2, <2>3, <2>4, <2>7 DEF RedisMatches
<1>. QED  BY <1>1, <1>4, <1>5, StepsByOp

LEMMA SwapperStep ==
    ASSUME Core, Next, NEW t \in Tasks, Swapper(t)
    PROVE  Swapper(t)'
<1>0. UNCHANGED <<backend, call>>
  BY NextCases DEF Core
<1>. SUFFICES ASSUME Doing(t, PgSwaps), pc'[t] = "swapping"
              PROVE  ~TooLong(t)
  BY <1>0 DEF Swapper, At, Doing, TooLong
<1>1. CASE Still(t)
  BY <1>1 DEF Still, Swapper, At
<1>2. CASE OwnStep(t)
  <2>1. CASE Refused(t) \/ Failed(t)
    BY <2>1 DEF Refused, Failed, Return, Goto, Core, TypeOK
  <2>2. CASE PgBeginSwap(t)
    BY <2>2 DEF PgBeginSwap, PgRejects
  <2>3. CASE \/ PgCompareAndSwap(t) \/ PgCompareAndDelete(t) \/ PgConflict(t)
             \/ RedisCompareAndSwap(t) \/ RedisCompareAndDelete(t)
    BY <2>3 DEF PgCompareAndSwap, PgCompareAndDelete, PgConflict, RedisCompareAndSwap, RedisCompareAndDelete,
                RedisConflict, GoOn, Return, Goto, Core, TypeOK
  <2>. QED  BY <1>2, <2>1, <2>2, <2>3, StepsByOp
<1>. QED  BY <1>1, <1>2, MovesItself DEF Core

LEMMA SwappedGoneStep ==
    ASSUME Core, Next, \A t \in Tasks : Swapper(t), SwappedGone
    PROVE  SwappedGone'
<1>0. UNCHANGED <<backend, call>>
  BY NextCases DEF Core
<1>. SUFFICES ASSUME NEW t \in Tasks, Doing(t, PgSwaps), pc'[t] = "ok", call[t].expected # Absent
              PROVE  Spent(call[t].expected)' /\ \A s \in Target(t) : db'[s].writer # call[t].expected
  BY <1>0 DEF SwappedGone, Done, At, Doing, Target, Spent, Writable
<1>1. Target(t) \subseteq Slots
  BY DEF Target
<1>2. Empty.writer # call[t].expected
  BY RevisionsAssumption DEF Doing, Core, TypeOK
<1>3. Spent(call[t].expected) => Spent(call[t].expected)'
  BY <1>0, SpentStays DEF Spent, Core
<1>4. CASE Still(t)
  <2>1. Spent(call[t].expected) /\ \A s \in Target(t) : db[s].writer # call[t].expected
    BY <1>4 DEF Still, SwappedGone, Done, At
  <2>2. ASSUME NEW s \in Target(t)
        PROVE  db'[s].writer # call[t].expected
    <3>1. ASSUME NEW u \in Tasks, NEW i, db'[s] = NewDoc(u, i, now), Writable(u, i)
          PROVE  db'[s].writer # call[t].expected
      BY <2>1, <3>1 DEF NewDoc, Spent
    <3>. QED  BY <1>1, <1>2, <2>1, <3>1, DbStep DEF Core
  <2>. QED  BY <1>3, <2>1, <2>2
<1>5. CASE OwnStep(t)
  <2>1. /\ ~TooLong(t) /\ \A s \in Target(t) : db[s].writer = call[t].expected
        /\ \A s \in Target(t) : db'[s] = Empty \/ \E i \in DOMAIN call[t].keys : db'[s] = NewDoc(t, i, now) /\ Writable(t, i)
    BY <1>5, SwapSteps
  <2>2. \E s \in Slots : s \in Target(t)
    BY <2>1, SwapTarget
  <2>3. Spent(call[t].expected)
    BY <1>1, <2>1, <2>2 DEF Core, DocsSpent
  <2>4. ASSUME NEW s \in Target(t)
        PROVE  db'[s].writer # call[t].expected
    <3>1. ASSUME NEW i, Writable(t, i)
          PROVE  NewDoc(t, i, now).writer # call[t].expected
      <4>1. NewDoc(t, i, now).writer = <<t, i>> /\ ~Writable(call[t].expected[1], call[t].expected[2])
        BY <2>3 DEF NewDoc, Spent
      <4>. QED  BY <3>1, <4>1
    <3>. HIDE DEF NewDoc
    <3>. QED  BY <1>2, <2>1, <3>1
  <2>. QED  BY <1>3, <2>3, <2>4
<1>. QED  BY <1>4, <1>5, MovesItself DEF Core

LEMMA SwapsExclusiveStep ==
    ASSUME Core, Next, \A t \in Tasks : Swapper(t), SwappedGone, SwapsExclusive
    PROVE  SwapsExclusive'
<1>0. UNCHANGED <<backend, call>>
  BY NextCases DEF Core
<1>1. \A t \in Tasks : Target(t)' = Target(t)
  BY <1>0 DEF Target
<1>2. ASSUME NEW t \in Tasks, NEW u \in Tasks, Doing(t, PgSwaps), Doing(u, PgSwaps), pc[t] = "ok", pc[u] # "ok", pc'[u] = "ok",
             Target(t) = Target(u), call[t].expected # Absent, call[t].expected = call[u].expected
      PROVE  FALSE
  <2>1. OwnStep(u)
    BY <1>2, MovesItself DEF Core
  <2>2. ~TooLong(u) /\ \A s \in Target(u) : db[s].writer = call[u].expected
    BY <1>2, <2>1, SwapSteps
  <2>3. \E s \in Slots : s \in Target(u)
    BY <1>2, <2>2, SwapTarget
  <2>. QED  BY <1>2, <2>2, <2>3 DEF SwappedGone, Done, At
<1>3. ASSUME NEW t \in Tasks, NEW u \in Tasks, t # u, Doing(t, PgSwaps), Doing(u, PgSwaps), pc'[t] = "ok", pc'[u] = "ok",
             Target(t) = Target(u), call[t].expected # Absent, call[t].expected = call[u].expected
      PROVE  FALSE
  <2>1. pc[t] = "ok" /\ pc[u] = "ok" => FALSE
    BY <1>3 DEF SwapsExclusive, Done, At
  <2>2. pc[t] = "ok" \/ pc[u] = "ok"
    BY <1>3, NextCases DEF Core, Still
  <2>. QED  BY <1>2, <1>3, <2>1, <2>2
<1>4. ASSUME NEW t \in Tasks, NEW u \in Tasks
      PROVE  (t # u /\ Done(t, PgSwaps) /\ Done(u, PgSwaps) /\ Target(t) = Target(u) /\ call[t].expected # Absent
                => call[t].expected # call[u].expected)'
  BY <1>0, <1>1, <1>3 DEF Done, At, Doing
<1>. QED  BY <1>4 DEF SwapsExclusive

\* Of the calls of compare_and_swap and compare_and_delete that expect one revision of a
\* key, one succeeds: the condition is part of the statement or script that writes, and a
\* revision that has been replaced does not come back.
THEOREM SwapsExclude ==
    Spec => []SwapsExclusive
<1>. DEFINE Inv == (\A t \in Tasks : Swapper(t)) /\ SwappedGone /\ SwapsExclusive
<1>1. Init => Inv
  BY DEF Init, StoreInit, Swapper, SwappedGone, SwapsExclusive, Done, At
<1>2. Core /\ Inv /\ [Next]_vars => Inv'
  <2>. SUFFICES ASSUME Core, Inv, [Next]_vars
                PROVE  Inv'
    OBVIOUS
  <2>1. CASE Next
    BY <2>1, SwapperStep, SwappedGoneStep, SwapsExclusiveStep
  <2>2. CASE UNCHANGED vars
    <3>1. \A t \in Tasks : Swapper(t)'
      BY <2>2 DEF vars, taskVars, Swapper, At, Doing, TooLong
    <3>2. SwappedGone'
      BY <2>2 DEF vars, serverVars, taskVars, SwappedGone, Done, At, Doing, Spent, Writable, Target
    <3>3. SwapsExclusive'
      BY <2>2 DEF vars, taskVars, SwapsExclusive, Done, At, Doing, Target
    <3>. QED  BY <3>1, <3>2, <3>3
  <2>. QED  BY <2>1, <2>2
<1>3. Inv => SwapsExclusive
  OBVIOUS
<1>. QED  BY <1>1, <1>2, <1>3, CoreAlways, PTL DEF Spec

-----------------------------------------------------------------------------
(* Deletes *)

\* What a step of delete or delete_many counts, it has counted or deletes.
LEMMA DeleteSteps ==
    ASSUME Core, NEW t \in Tasks, Doing(t, Deletes), OwnStep(t), pc'[t] \in {"batch", "ok"}
    PROVE  \A s \in Slots :
                /\ Present(found'[t][s]) =>
                    \/ found'[t][s] = found[t][s] /\ pc[t] = "batch"
                    \/ found'[t][s] = db[s] /\ db'[s] = Empty
                /\ db'[s] \in {db[s], Empty}
<1>0. \A S : \A s \in Slots : Without(S)[s] = IF s \in S THEN Empty ELSE db[s]
  BY DEF Without
<1>1. CASE Refused(t) \/ Failed(t)
  BY <1>1 DEF Refused, Failed, Return, Goto, Core, TypeOK
<1>2. CASE Trivial(t)
  <2>1. found'[t] = Nothing /\ db' = db
    BY <1>2 DEF Trivial, Return, Goto, Core, TypeOK, Begun
  <2>. QED  BY <2>1, DocFacts DEF Core
<1>3. CASE SqlDelete(t, call[t].op)
  <2>1. ~Return(t, "error")
    BY DEF Return, Goto, Core, TypeOK
  <2>2. db' = Without(Target(t)) /\ Answer(t, Of(Target(t)))
    BY <1>3, <2>1 DEF SqlDelete, SqlFail
  <2>3. found'[t] = Of(Target(t))
    BY <2>2 DEF Answer, Goto, Core, TypeOK
  <2>4. \A s \in Slots : Of(Target(t))[s] = IF s \in Target(t) THEN db[s] ELSE Empty
    BY DEF Of
  <2>. QED  BY <1>0, <2>2, <2>3, <2>4 DEF Present
<1>4. CASE RedisBatch(t)
  <2>1. found'[t] = Nothing /\ db' = db
    BY <1>4 DEF RedisBatch, Goto, Core, TypeOK
  <2>. QED  BY <2>1, DocFacts DEF Core
<1>5. CASE RedisDelete(t)
  <2>1. db' = Without(Target(t)) /\ Answer(t, Of(LiveOf(Target(t))))
    BY <1>5 DEF RedisDelete
  <2>2. found'[t] = Of(LiveOf(Target(t)))
    BY <2>1 DEF Answer, Goto, Core, TypeOK
  <2>3. \A s \in Slots : Of(LiveOf(Target(t)))[s] = IF s \in LiveOf(Target(t)) THEN db[s] ELSE Empty
    BY DEF Of
  <2>. QED  BY <1>0, <2>1, <2>2, <2>3 DEF Present, LiveOf
<1>6. CASE RedisDeleteMany(t)
  <2>. DEFINE r == NextSlot(t)
  <2>1. /\ db' = Without({r}) /\ pc[t] = "batch"
        /\ found'[t] = IF Live(db[r]) THEN [found[t] EXCEPT ![r] = db[r]] ELSE found[t]
    BY <1>6 DEF RedisDeleteMany, RedisAdvance, Goto, At, Core, TypeOK
  <2>. HIDE DEF r
  <2>2. found[t] \in [Slots -> Doc]
    BY DEF Core, TypeOK
  <2>3. ASSUME NEW s \in Slots
        PROVE  found'[t][s] = IF s = r /\ Live(db[r]) THEN db[s] ELSE found[t][s]
    BY <2>1, <2>2
  <2>4. \A s \in Slots : db'[s] = IF s = r THEN Empty ELSE db[s]
    BY <1>0, <2>1
  <2>. QED  BY <2>1, <2>3, <2>4
<1>. QED  BY <1>1, <1>2, <1>3, <1>4, <1>5, <1>6, StepsByOp DEF Plainly

\* A document counted, and spent, is not stored again.
LEMMA GoneStays ==
    ASSUME Core, Next, NEW s \in Slots, NEW d, Present(d), Spent(d.writer), db[s] # d
    PROVE  db'[s] # d /\ Spent(d.writer)'
<1>1. ~Writable(d.writer[1], d.writer[2])'
  BY SpentStays DEF Core, Spent
<1>2. ASSUME NEW u \in Tasks, NEW i, db'[s] = NewDoc(u, i, now), Writable(u, i)
      PROVE  db'[s] # d
  <2>1. NewDoc(u, i, now).writer = <<u, i>>
    BY DEF NewDoc
  <2>. HIDE DEF NewDoc
  <2>. QED  BY <1>2, <2>1 DEF Spent
<1>3. db'[s] # d
  BY <1>2, DbStep DEF Core, Present
<1>. QED  BY <1>1, <1>3 DEF Spent

LEMMA CountedGoneStep ==
    ASSUME Core, Next, CountedGone
    PROVE  CountedGone'
<1>0. UNCHANGED <<backend, call>>
  BY NextCases DEF Core
<1>1. ASSUME NEW t \in Tasks, Counts(t)', NEW s \in Slots, Present(found'[t][s])
      PROVE  /\ Spent(found[t][s].writer)' /\ db'[s] # found'[t][s]
             /\ \/ Counts(t) /\ found'[t][s] = found[t][s]
                \/ found'[t][s] = db[s] /\ OwnStep(t)
  <2>1. ASSUME Counts(t), found'[t][s] = found[t][s]
        PROVE  Spent(found[t][s].writer)' /\ db'[s] # found'[t][s]
    <3>1. Spent(found[t][s].writer) /\ db[s] # found[t][s] /\ Present(found[t][s])
      BY <1>1, <2>1 DEF CountedGone
    <3>2. PICK d \in Doc : d = found[t][s]
      BY WindowTyped
    <3>3. Spent(d.writer)' /\ db'[s] # d
      BY <3>1, <3>2, GoneStays
    <3>4. found'[t][s] = d
      BY <2>1, <3>2
    <3>. QED  BY <3>3, <3>4 DEF Spent
  <2>2. CASE Still(t)
    <3>1. Counts(t) /\ found'[t][s] = found[t][s]
      BY <1>0, <1>1, <2>2 DEF Counts, Still, Doing
    <3>. QED  BY <2>1, <3>1
  <2>3. CASE OwnStep(t)
    <3>1. Doing(t, Deletes) /\ pc'[t] \in {"batch", "ok"}
      BY <1>0, <1>1 DEF Counts, Doing
    <3>2. \/ found'[t][s] = found[t][s] /\ pc[t] = "batch"
          \/ found'[t][s] = db[s] /\ db'[s] = Empty
      BY <1>1, <2>3, <3>1, DeleteSteps
    <3>3. ASSUME found'[t][s] = db[s], db'[s] = Empty
          PROVE  Spent(found[t][s].writer)' /\ db'[s] # found'[t][s]
      BY <1>1, <3>3, SpentStays DEF Core, DocsSpent, Spent, Present
    <3>. QED  BY <2>1, <2>3, <3>1, <3>2, <3>3 DEF Counts
  <2>. QED  BY <2>2, <2>3, MovesItself DEF Core
<1>2. ASSUME NEW t \in Tasks, NEW u \in Tasks, t # u, Counts(t)', Counts(u)',
             NEW s \in Slots, Present(found'[t][s]), found'[t][s] = found'[u][s]
      PROVE  FALSE
  <2>1. Still(t) \/ Still(u)
    BY <1>2, NextCases DEF Core
  <2>2. \A v \in {t, u} : Still(v) => Counts(v) /\ found'[v][s] = found[v][s]
    BY <1>0, <1>2 DEF Still, Counts, Doing
  <2>3. \A v \in {t, u} : \/ Counts(v) /\ found'[v][s] = found[v][s]
                          \/ found'[v][s] = db[s]
    BY <1>1, <1>2
  <2>4. CASE Counts(t) /\ Counts(u) /\ found'[t][s] = found[t][s] /\ found'[u][s] = found[u][s]
    BY <1>2, <2>4 DEF CountedGone, DeletedOnce
  <2>5. CASE \E v \in {t, u} : Counts(v) /\ found'[v][s] = found[v][s] /\ found'[v][s] = db[s]
    BY <1>2, <2>5 DEF CountedGone
  <2>. QED  BY <1>2, <2>1, <2>2, <2>3, <2>4, <2>5
<1>3. ASSUME NEW t \in Tasks
      PROVE  (Counts(t) => \A s \in Slots : Present(found[t][s]) => Spent(found[t][s].writer) /\ db[s] # found[t][s])'
  BY <1>1 DEF Present
<1>4. ASSUME NEW t \in Tasks, NEW u \in Tasks
      PROVE  (t # u /\ Counts(t) /\ Counts(u) => DeletedOnce(t, u))'
  BY <1>2 DEF DeletedOnce, Present
<1>. QED  BY <1>3, <1>4 DEF CountedGone

\* No entry is reported as deleted by two calls of delete or delete_many, whatever is
\* stored in its place between them.
THEOREM DeletesAreCountedOnce ==
    Spec => []DeletesCounted
<1>1. Init => CountedGone
  BY DEF Init, StoreInit, CountedGone, Counts
<1>2. Core /\ CountedGone /\ [Next]_vars => CountedGone'
  <2>1. UNCHANGED vars /\ CountedGone => CountedGone'
    BY DEF vars, serverVars, taskVars, CountedGone, Counts, Doing, Present, Spent, Writable, DeletedOnce
  <2>. QED  BY <2>1, CountedGoneStep
<1>3. CountedGone => DeletesCounted
  BY DEF CountedGone, Counts, DeletesCounted, Done, At, DeletedOnce
<1>. QED  BY <1>1, <1>2, <1>3, CoreAlways, PTL DEF Spec

-----------------------------------------------------------------------------
(* Listings *)

KeysRight(t) == Answers(t, {"keys"}) => AnswersKeys(t, found[t])

LEMMA WasLiveStays ==
    ASSUME Core, Next, NEW t \in Tasks, pc[t] \notin Ended, pc[t] # "begin", pc'[t] # "begin",
           NEW f, WasLive(t, f)
    PROVE  WasLive(t, f)'
<1>. QED  BY History DEF WasLive, ExpiredAt, Present

\* keys of SQL selects rows and then answers with them; that of Redis passes a slot in each round.
LEMMA KeysSteps ==
    ASSUME Core, NEW t \in Tasks, Doing(t, {"keys"}), OwnStep(t), pc'[t] \in {"sifting", "scanning", "ok"}
    PROVE  \/ pc'[t] = "ok" /\ found'[t] = Nothing /\ call[t].limit = 0
           \/ /\ pc[t] = "begin" /\ pc'[t] = "sifting"
              /\ \E S \in Limited(LiveOf(In(call[t].coll)), call[t].limit) : seen'[t] = Of(S)
           \/ pc[t] = "sifting" /\ pc'[t] = "ok" /\ found'[t] = seen[t]
           \/ pc[t] = "begin" /\ pc'[t] = "scanning" /\ todo'[t] = In(call[t].coll) /\ found'[t] = Nothing
           \/ /\ pc[t] = "scanning"
              /\ \E s \in todo[t] :
                    /\ found'[t] = [found[t] EXCEPT ![s] = IF Live(db[s]) THEN db[s] ELSE Empty]
                    /\ \/ pc'[t] = "scanning" /\ todo'[t] = todo[t] \ {s}
                       \/ /\ pc'[t] = "ok"
                          /\ todo[t] = {s} \/ Cardinality({r \in Slots : Present(found'[t][r])}) = call[t].limit
<1>1. CASE Refused(t) \/ Failed(t)
  BY <1>1 DEF Refused, Failed, Return, Goto, Core, TypeOK
<1>2. CASE Trivial(t)
  <2>1. found'[t] = Nothing /\ pc'[t] = "ok"
    BY <1>2 DEF Trivial, Return, Goto, Core, TypeOK, Begun
  <2>2. call[t].limit = 0
    BY <1>2 DEF Trivial, Doing, SqlReads
  <2>. QED  BY <2>1, <2>2
<1>3. ~Return(t, "error")
  BY DEF Return, Goto, Core, TypeOK
<1>4. CASE SqlKeys(t)
  <2>1. CASE At(t, {"keys"}, "begin")
    <3>1. PICK S \in Limited(LiveOf(In(call[t].coll)), call[t].limit) : SqlSelectLive(t, S)
      BY <1>4, <2>1 DEF SqlKeys, At
    <3>2. Goto(t, "sifting", Of(S), S, Nothing)
      BY <1>3, <3>1 DEF SqlSelectLive
    <3>. QED  BY <2>1, <3>2 DEF Goto, At, Core, TypeOK
  <2>2. CASE At(t, {"keys"}, "sifting")
    <3>1. Answer(t, seen[t])
      BY <1>3, <1>4, <2>2 DEF SqlKeys, At
    <3>. QED  BY <2>2, <3>1 DEF Answer, Goto, At, Core, TypeOK
  <2>. QED  BY <1>4, <2>1, <2>2 DEF SqlKeys
<1>5. CASE RedisKeys(t)
  <2>1. CASE At(t, {"keys"}, "begin")
    <3>1. Goto(t, IF call[t].limit = 0 THEN "ok" ELSE "scanning", Nothing, In(call[t].coll), Nothing)
      BY <1>5, <2>1 DEF RedisKeys, At
    <3>. QED  BY <2>1, <3>1 DEF Goto, At, Core, TypeOK
  <2>2. CASE At(t, {"keys"}, "scanning")
    <3>. DEFINE F(s) == [found[t] EXCEPT ![s] = Of(LiveOf({s}))[s]]
                Full(s) == Cardinality({r \in Slots : Present(F(s)[r])}) = call[t].limit
    <3>1. PICK s \in todo[t] : \/ Return(t, "error")
                               \/ (Full(s) \/ todo[t] = {s}) /\ Answer(t, F(s))
                               \/ Goto(t, "scanning", Nothing, todo[t] \ {s}, F(s))
      BY <1>5, <2>2 DEF RedisKeys, At
    <3>2. s \in Slots
      BY DEF Core, TypeOK
    <3>3. Of(LiveOf({s}))[s] = IF Live(db[s]) THEN db[s] ELSE Empty
      BY <3>2 DEF Of, LiveOf
    <3>4. CASE (Full(s) \/ todo[t] = {s}) /\ Answer(t, F(s))
      <4>. HIDE DEF F
      <4>1. pc'[t] = "ok" /\ found'[t] = F(s)
        BY <3>4 DEF Answer, Goto, Core, TypeOK
      <4>2. pc[t] = "scanning"
        BY <2>2 DEF At
      <4>3. F(s) = [found[t] EXCEPT ![s] = IF Live(db[s]) THEN db[s] ELSE Empty]
        BY <3>3 DEF F
      <4>. QED  BY <3>4, <4>1, <4>2, <4>3
    <3>5. CASE Goto(t, "scanning", Nothing, todo[t] \ {s}, F(s))
      <4>. HIDE DEF F
      <4>1. pc'[t] = "scanning" /\ found'[t] = F(s) /\ todo'[t] = todo[t] \ {s}
        BY <3>5 DEF Goto, Core, TypeOK
      <4>2. pc[t] = "scanning"
        BY <2>2 DEF At
      <4>3. F(s) = [found[t] EXCEPT ![s] = IF Live(db[s]) THEN db[s] ELSE Empty]
        BY <3>3 DEF F
      <4>. QED  BY <4>1, <4>2, <4>3
    <3>. QED  BY <1>3, <3>1, <3>4, <3>5
  <2>. QED  BY <1>5, <2>1, <2>2 DEF RedisKeys
<1>. QED  BY <1>1, <1>2, <1>4, <1>5, StepsByOp DEF Plainly

\* The rows selected answer the call, at once and while it goes on.
LEMMA SelectedKeys ==
    ASSUME Core, Next, NEW t \in Tasks, pc[t] = "begin", pc'[t] # "begin", now' = now,
           NEW S \in Limited(LiveOf(In(call[t].coll)), call[t].limit), seen'[t] = Of(S)
    PROVE  AnswersKeys(t, seen[t])'
<1>0. UNCHANGED <<backend, call>> /\ call[t].limit \in Nat
  BY NextCases, CallFacts DEF Core
<1>1. since'[t] = now /\ \A s \in Slots : db[s] \in window'[t][s]
  BY History DEF Ended
<1>2. LiveOf(In(call[t].coll)) \in SUBSET Slots
  BY DEF LiveOf, In
<1>3. S \subseteq LiveOf(In(call[t].coll)) /\ (Cardinality(S) < call[t].limit => S = LiveOf(In(call[t].coll)))
  BY <1>0, <1>2, LimitedFacts
<1>4. \A s \in Slots : seen'[t][s] = IF s \in S THEN db[s] ELSE Empty
  BY DEF Of
<1>5. \A s \in Slots : Present(seen'[t][s]) <=> s \in S
  BY <1>3, <1>4 DEF LiveOf, Live, Present
<1>6. {s \in Slots : Present(seen'[t][s])} = S
  BY <1>2, <1>3, <1>5
<1>7. WasLive(t, seen[t])'
  BY <1>1, <1>3, <1>4, <1>5 DEF WasLive, LiveOf, Live, Expired, Present, ExpiredAt
<1>8. ASSUME Cardinality(S) < call[t].limit, NEW s \in In(call[t].coll),
             \A d \in window'[t][s] : Present(d) /\ ~ExpiredAt(d, now')
      PROVE  Present(seen'[t][s])
  <2>1. s \in Slots /\ Live(db[s])
    BY <1>1, <1>8 DEF In, Live, Expired
  <2>. QED  BY <1>3, <1>5, <1>8, <2>1 DEF LiveOf
<1>9. In(call[t].coll)' = In(call[t].coll)
  BY <1>0 DEF In
<1>10. {s \in Slots : Present(seen[t][s])}' = {s \in Slots : Present(seen'[t][s])}
  BY DEF Present
<1>11. (Cardinality({s \in Slots : Present(seen[t][s])}) < call[t].limit =>
            \A s \in In(call[t].coll) : (\A d \in window[t][s] : Live(d)) => Present(seen[t][s]))'
  BY <1>0, <1>6, <1>8, <1>9, <1>10 DEF Live, Expired, Present
<1>. QED  BY <1>7, <1>11 DEF AnswersKeys

LEMMA AnswersKeysStays ==
    ASSUME Core, Next, NEW t \in Tasks, pc[t] \notin Ended, pc[t] # "begin", pc'[t] # "begin",
           NEW f, AnswersKeys(t, f)
    PROVE  AnswersKeys(t, f)'
<1>0. UNCHANGED <<backend, call>>
  BY NextCases DEF Core
<1>1. WasLive(t, f)'
  BY WasLiveStays DEF AnswersKeys
<1>2. ASSUME NEW s \in Slots, \A d \in window'[t][s] : Present(d) /\ ~ExpiredAt(d, now')
      PROVE  \A d \in window[t][s] : Live(d)
  BY <1>2, History, LiveFades, WindowTyped
<1>3. In(call[t].coll)' = In(call[t].coll) /\ In(call[t].coll) \subseteq Slots
  BY <1>0 DEF In
<1>4. {s \in Slots : Present(f[s])}' = {s \in Slots : Present(f[s])}
  BY DEF Present
<1>5. (Cardinality({s \in Slots : Present(f[s])}) < call[t].limit =>
            \A s \in In(call[t].coll) : (\A d \in window[t][s] : Live(d)) => Present(f[s]))'
  BY <1>0, <1>2, <1>3, <1>4 DEF AnswersKeys, Live, Expired, Present
<1>. QED  BY <1>1, <1>5 DEF AnswersKeys

\* A round of Redis' keys.
LEMMA KeysRound ==
    ASSUME Core, Next, NEW t \in Tasks, pc[t] = "scanning", pc'[t] # "begin", now' = now,
           WasLive(t, found[t]), NEW s \in todo[t],
           \A r \in In(call[t].coll) \ todo[t] : Present(found[t][r]) \/ \E d \in window[t][r] : ~Live(d),
           found'[t] = [found[t] EXCEPT ![s] = IF Live(db[s]) THEN db[s] ELSE Empty]
    PROVE  /\ WasLive(t, found[t])'
           /\ \A r \in In(call[t].coll) \ (todo[t] \ {s}) :
                Present(found'[t][r]) \/ \E d \in window'[t][r] : ~Live(d)
<1>1. /\ since'[t] = since[t] /\ \A r \in Slots : window[t][r] \subseteq window'[t][r] /\ db[r] \in window'[t][r]
      /\ s \in Slots /\ found[t] \in [Slots -> Doc] /\ In(call[t].coll) \subseteq Slots
  BY History DEF Ended, Core, TypeOK, In
<1>2. \A r \in Slots : found'[t][r] = IF r = s THEN IF Live(db[s]) THEN db[s] ELSE Empty ELSE found[t][r]
  BY <1>1
<1>3. Live(db[s]) => Present(db[s]) /\ ~ExpiredAt(db[s], since[t])
  <2>1. db[s] \in Doc /\ since[t] <= now /\ since[t] \in Nat /\ now \in Nat
    BY <1>1, BoundsAssumption DEF Core, Begun, TypeOK
  <2>2. \A n \in Nat : db[s].expires = n => n = 0 \/ n > now \/ ~Live(db[s])
    BY <2>1 DEF Live, Expired, ExpiredAt, NoExpiry
  <2>3. db[s].expires \in Nat
    BY <2>1 DEF Doc
  <2>. QED  BY <2>1, <2>2, <2>3 DEF Live, ExpiredAt, NoExpiry
<1>4. ASSUME NEW r \in Slots, Present(found'[t][r])
      PROVE  found'[t][r] \in window'[t][r] /\ ~ExpiredAt(found'[t][r], since'[t])
  <2>1. CASE r = s
    BY <1>1, <1>2, <1>3, <1>4, <2>1, DocFacts DEF Core
  <2>2. CASE r # s
    BY <1>1, <1>2, <1>4, <2>2 DEF WasLive
  <2>. QED  BY <2>1, <2>2
<1>5. WasLive(t, found[t])'
  BY <1>4 DEF WasLive, Present, ExpiredAt
<1>6. ASSUME NEW r \in In(call[t].coll) \ (todo[t] \ {s})
      PROVE  Present(found'[t][r]) \/ \E d \in window'[t][r] : ~Live(d)
  <2>1. CASE r = s
    BY <1>1, <1>2, <2>1 DEF Live
  <2>2. CASE r # s
    BY <1>1, <1>2, <1>6, <2>2
  <2>. QED  BY <2>1, <2>2
<1>. QED  BY <1>5, <1>6

LEMMA ListingStep ==
    ASSUME Core, Next, NEW t \in Tasks, Listing(t)
    PROVE  Listing(t)'
<1>0. UNCHANGED <<backend, call>>
  BY NextCases DEF Core
<1>1. In(call[t].coll)' = In(call[t].coll) /\ In(call[t].coll) \subseteq Slots
  BY <1>0 DEF In
<1>2. ASSUME Doing(t, {"keys"}), pc'[t] = "sifting"
      PROVE  AnswersKeys(t, seen[t])'
  <2>1. CASE Still(t)
    <3>1. pc[t] = "sifting" /\ pc[t] \notin Ended /\ pc[t] # "begin" /\ seen'[t] = seen[t]
      BY <1>2, <2>1 DEF Still, Ended
    <3>2. PICK f \in [Slots -> Doc] : f = seen[t]
      BY DEF Core, TypeOK
    <3>3. AnswersKeys(t, f)'
      BY <1>2, <3>1, <3>2, AnswersKeysStays DEF Listing, At
    <3>. QED  BY <3>1, <3>2, <3>3
  <2>2. CASE OwnStep(t) /\ Legal(t)
    <3>1. pc[t] = "begin" /\ \E S \in Limited(LiveOf(In(call[t].coll)), call[t].limit) : seen'[t] = Of(S)
      BY <1>2, <2>2, KeysSteps
    <3>2. now' = now
      BY <2>2 DEF Legal, Ordered
    <3>. QED  BY <1>2, <3>1, <3>2, SelectedKeys
  <2>. QED  BY <2>1, <2>2, MovesItself DEF Core
<1>3. ASSUME Doing(t, {"keys"}), pc'[t] = "scanning"
      PROVE  /\ WasLive(t, found[t])'
             /\ \A s \in In(call[t].coll) \ todo'[t] :
                    Present(found'[t][s]) \/ \E d \in window'[t][s] : ~(Present(d) /\ ~ExpiredAt(d, now'))
  <2>1. CASE Still(t)
    <3>1. /\ pc[t] = "scanning" /\ pc[t] \notin Ended /\ pc[t] # "begin" /\ pc'[t] # "begin"
          /\ found'[t] = found[t] /\ todo'[t] = todo[t]
      BY <1>3, <2>1 DEF Still, Ended
    <3>2. PICK f \in [Slots -> Doc] : f = found[t]
      BY DEF Core, TypeOK
    <3>3. WasLive(t, f)'
      BY <1>3, <3>1, <3>2, WasLiveStays DEF Listing, At
    <3>4. WasLive(t, found[t])'
      BY <3>1, <3>2, <3>3
    <3>5. \A s \in Slots : (\E d \in window[t][s] : ~Live(d))
            => \E d \in window'[t][s] : ~(Present(d) /\ ~ExpiredAt(d, now'))
      BY <2>1, <3>1, Standing
    <3>. QED  BY <1>1, <1>3, <3>1, <3>4, <3>5 DEF Listing, At
  <2>2. CASE OwnStep(t) /\ Legal(t)
    <3>1. now' = now
      BY <2>2 DEF Legal, Ordered
    <3>2. CASE pc[t] = "begin" /\ todo'[t] = In(call[t].coll) /\ found'[t] = Nothing
      <4>1. \A s \in Slots : ~Present(found'[t][s])
        BY <3>2, DocFacts DEF Core
      <4>2. WasLive(t, found[t])'
        BY <4>1 DEF WasLive, Present
      <4>. QED  BY <3>2, <4>2
    <3>3. ASSUME pc[t] = "scanning", NEW s \in todo[t], todo'[t] = todo[t] \ {s},
                 found'[t] = [found[t] EXCEPT ![s] = IF Live(db[s]) THEN db[s] ELSE Empty]
          PROVE  /\ WasLive(t, found[t])'
                 /\ \A r \in In(call[t].coll) \ todo'[t] :
                        Present(found'[t][r]) \/ \E d \in window'[t][r] : ~(Present(d) /\ ~ExpiredAt(d, now'))
      <4>1. /\ WasLive(t, found[t])
            /\ \A r \in In(call[t].coll) \ todo[t] : Present(found[t][r]) \/ \E d \in window[t][r] : ~Live(d)
        BY <1>3, <3>3 DEF Listing, At
      <4>2. /\ WasLive(t, found[t])'
            /\ \A r \in In(call[t].coll) \ (todo[t] \ {s}) : Present(found'[t][r]) \/ \E d \in window'[t][r] : ~Live(d)
        BY <1>3, <3>1, <3>3, <4>1, KeysRound
      <4>. QED  BY <3>1, <3>3, <4>2 DEF Live, Expired
    <3>. QED  BY <1>3, <2>2, <3>2, <3>3, KeysSteps
  <2>. QED  BY <2>1, <2>2, MovesItself DEF Core
<1>4. (At(t, {"keys"}, "sifting") => AnswersKeys(t, seen[t]))'
  BY <1>0, <1>2 DEF At, Doing
<1>5. (At(t, {"keys"}, "scanning") =>
        /\ WasLive(t, found[t])
        /\ \A s \in In(call[t].coll) \ todo[t] : Present(found[t][s]) \/ \E d \in window[t][s] : ~Live(d))'
  BY <1>0, <1>1, <1>3 DEF At, Doing, Live, Expired, Present
<1>. QED  BY <1>4, <1>5 DEF Listing

LEMMA KeysRightStep ==
    ASSUME Core, Next, NEW t \in Tasks, Listing(t)
    PROVE  KeysRight(t)'
<1>0. UNCHANGED <<backend, call>> /\ call[t].limit \in Nat
  BY NextCases, CallFacts DEF Core
<1>. SUFFICES ASSUME Doing(t, {"keys"}), pc'[t] = "ok", window'[t] # Unwatched
              PROVE  AnswersKeys(t, found[t])'
  BY <1>0 DEF KeysRight, Answers, Done, At, Doing
<1>1. pc[t] \notin Ended /\ pc'[t] # "begin"
  BY AnswersNow
<1>2. OwnStep(t) /\ now' = now
  BY <1>1, MovesItself DEF Core, Ended, Legal, Ordered
<1>3. In(call[t].coll)' = In(call[t].coll) /\ In(call[t].coll) \subseteq Slots
  BY <1>0 DEF In
<1>4. {s \in Slots : Present(found[t][s])}' = {s \in Slots : Present(found'[t][s])}
  BY DEF Present
<1>5. CASE found'[t] = Nothing /\ call[t].limit = 0
  <2>1. \A s \in Slots : ~Present(found'[t][s])
    BY <1>5, DocFacts DEF Core
  <2>2. {s \in Slots : Present(found'[t][s])} = {}
    BY <2>1
  <2>3. ~(Cardinality({s \in Slots : Present(found'[t][s])}) < call[t].limit)
    BY <1>5, <2>2, FS_EmptySet
  <2>4. WasLive(t, found[t])'
    BY <2>1 DEF WasLive, Present
  <2>5. (Cardinality({s \in Slots : Present(found[t][s])}) < call[t].limit =>
            \A s \in In(call[t].coll) : (\A d \in window[t][s] : Live(d)) => Present(found[t][s]))'
    BY <1>0, <1>4, <2>3
  <2>. QED  BY <2>4, <2>5 DEF AnswersKeys
<1>6. CASE pc[t] = "sifting" /\ found'[t] = seen[t]
  <2>1. PICK f \in [Slots -> Doc] : f = seen[t]
    BY DEF Core, TypeOK
  <2>2. AnswersKeys(t, f)'
    BY <1>1, <1>6, <2>1, AnswersKeysStays DEF Listing, At
  <2>. QED  BY <1>6, <2>1, <2>2
<1>7. ASSUME pc[t] = "scanning", NEW s \in todo[t],
             found'[t] = [found[t] EXCEPT ![s] = IF Live(db[s]) THEN db[s] ELSE Empty],
             todo[t] = {s} \/ Cardinality({r \in Slots : Present(found'[t][r])}) = call[t].limit
      PROVE  AnswersKeys(t, found[t])'
  <2>1. /\ WasLive(t, found[t])
        /\ \A r \in In(call[t].coll) \ todo[t] : Present(found[t][r]) \/ \E d \in window[t][r] : ~Live(d)
    BY <1>7 DEF Listing, At
  <2>2. /\ WasLive(t, found[t])'
        /\ \A r \in In(call[t].coll) \ (todo[t] \ {s}) : Present(found'[t][r]) \/ \E d \in window'[t][r] : ~Live(d)
    BY <1>1, <1>2, <1>7, <2>1, KeysRound
  <2>3. ASSUME Cardinality({r \in Slots : Present(found'[t][r])}) < call[t].limit,
               NEW r \in In(call[t].coll), \A d \in window'[t][r] : Present(d) /\ ~ExpiredAt(d, now')
        PROVE  Present(found'[t][r])
    <3>1. Cardinality({q \in Slots : Present(found'[t][q])}) # call[t].limit
      <4>. DEFINE c == Cardinality({q \in Slots : Present(found'[t][q])})
      <4>1. c < call[t].limit
        BY <2>3
      <4>2. c \in Nat
        <5>. DEFINE S == {q \in Slots : Present(found'[t][q])}
        <5>1. S \in SUBSET Slots
          OBVIOUS
        <5>. HIDE DEF S
        <5>2. Cardinality(S) \in Nat
          BY <5>1, SlotsAssumption, FS_Subset, FS_CardinalityType
        <5>. QED  BY <5>2 DEF S
      <4>. HIDE DEF c
      <4>3. c # call[t].limit
        BY <1>0, <4>1, <4>2
      <4>. QED  BY <4>3 DEF c
    <3>2. todo[t] = {s}
      BY <1>7, <3>1
    <3>. QED  BY <1>2, <2>2, <2>3, <3>2 DEF Live, Expired
  <2>4. (Cardinality({r \in Slots : Present(found[t][r])}) < call[t].limit =>
            \A r \in In(call[t].coll) : (\A d \in window[t][r] : Live(d)) => Present(found[t][r]))'
    BY <1>0, <1>3, <1>4, <2>3 DEF Live, Expired, Present
  <2>. QED  BY <2>2, <2>4 DEF AnswersKeys
<1>. QED  BY <1>2, <1>5, <1>6, <1>7, KeysSteps

\* A key that keys lists was in its collection, unexpired, while the call ran; one that was
\* so all the time is listed, unless the limit is reached.  SQL selects rows at once and
\* looks at the clock again afterwards, Redis' SCAN passes the keys one after the other.
THEOREM KeysAreOfLive ==
    Spec => []KeysOfLive
<1>. DEFINE Inv == \A t \in Tasks : Listing(t) /\ KeysRight(t)
<1>1. Init => Inv
  BY DEF Init, StoreInit, Listing, KeysRight, Answers, Done, At
<1>2. Core /\ Inv /\ [Next]_vars => Inv'
  <2>. SUFFICES ASSUME Core, Inv, [Next]_vars, NEW t \in Tasks
                PROVE  (Listing(t) /\ KeysRight(t))'
    OBVIOUS
  <2>1. CASE Next
    BY <2>1, ListingStep, KeysRightStep
  <2>2. CASE UNCHANGED vars
    <3>1. (Listing(t) <=> Listing(t)') /\ (KeysRight(t) <=> KeysRight(t)')
      BY <2>2 DEF vars, serverVars, clientVars, taskVars, Listing, KeysRight, Answers, Done, At, Doing,
                  AnswersKeys, WasLive, In, Live, Expired, ExpiredAt, Present
    <3>. QED  BY <3>1
  <2>. QED  BY <2>1, <2>2
<1>3. Inv => KeysOfLive
  BY DEF KeysRight, KeysOfLive, AnswersKeys, WasLive, KeysExact
<1>. QED  BY <1>1, <1>2, <1>3, CoreAlways, PTL DEF Spec

CollectionsRight(t) ==
    ~OnRedis /\ Answers(t, {"collections"}) /\ Cardinality(names[t]) < call[t].limit =>
        \A s \in Slots : (\A d \in window[t][s] : Live(d)) => s[1] \in names[t]

\* collections of SQL selects rows and then answers with the collections they are in.
LEMMA CollectionsSteps ==
    ASSUME Core, NEW t \in Tasks, ~OnRedis, Doing(t, {"collections"}), OwnStep(t), pc'[t] \in {"sifting", "ok"}
    PROVE  \/ pc[t] = "begin" /\ pc'[t] = "ok" /\ names'[t] = names[t] /\ call[t].limit = 0
           \/ /\ pc[t] = "begin" /\ pc'[t] = "sifting" /\ names'[t] = names[t]
              /\ todo'[t] \subseteq LiveOf(Slots)
              /\ todo'[t] # LiveOf(Slots) => Cardinality({s[1] : s \in todo'[t]}) = call[t].limit
           \/ pc[t] = "sifting" /\ pc'[t] = "ok" /\ names'[t] = {s[1] : s \in todo[t]}
<1>1. CASE Refused(t) \/ Failed(t)
  BY <1>1 DEF Refused, Failed, Return, Goto, Core, TypeOK
<1>2. CASE Trivial(t)
  <2>1. pc'[t] = "ok" /\ names'[t] = names[t] /\ pc[t] = "begin"
    BY <1>2 DEF Trivial, SqlPlain, Return, Goto, Core, TypeOK
  <2>2. call[t].limit = 0
    BY <1>2 DEF Trivial, Doing, SqlReads
  <2>. QED  BY <2>1, <2>2
<1>3. ~Return(t, "error")
  BY DEF Return, Goto, Core, TypeOK
<1>4. CASE SqlCollections(t)
  <2>1. CASE At(t, {"collections"}, "begin")
    <3>1. PICK S \in SUBSET LiveOf(Slots) :
            /\ S # LiveOf(Slots) => Cardinality({s[1] : s \in S}) = call[t].limit
            /\ SqlSelectLive(t, S)
      BY <1>4, <2>1 DEF SqlCollections, At
    <3>2. Goto(t, "sifting", Of(S), S, Nothing) /\ names' = names
      BY <1>3, <3>1 DEF SqlSelectLive, SqlPlain
    <3>3. pc'[t] = "sifting" /\ todo'[t] = S /\ pc[t] = "begin"
      BY <2>1, <3>2 DEF Goto, At, Core, TypeOK
    <3>. QED  BY <3>1, <3>2, <3>3
  <2>2. CASE At(t, {"collections"}, "sifting")
    <3>1. GoOn(t, "ok") /\ names' = [names EXCEPT ![t] = {s[1] : s \in todo[t]}]
      BY <1>3, <1>4, <2>2 DEF SqlCollections, At
    <3>. QED  BY <2>2, <3>1 DEF GoOn, Goto, At, Core, TypeOK
  <2>. QED  BY <1>4, <2>1, <2>2 DEF SqlCollections
<1>. QED  BY <1>1, <1>2, <1>4, StepsByOp DEF Plainly

\* What holds of the collections of a set of rows goes on holding.
LEMMA AnswersCollectionsStays ==
    ASSUME Core, Next, NEW t \in Tasks, pc[t] \notin Ended, pc'[t] # "begin",
           NEW s \in Slots, \A d \in window'[t][s] : Present(d) /\ ~ExpiredAt(d, now')
    PROVE  (\A d \in window[t][s] : Live(d)) /\ Live(db[s])
<1>. QED  BY History, LiveFades, WindowTyped

LEMMA TablingStep ==
    ASSUME Core, Next, NEW t \in Tasks, ~OnRedis, Tabling(t)
    PROVE  Tabling(t)'
<1>0. UNCHANGED <<backend, call>>
  BY NextCases DEF Core
<1>1. pc'[t] = "begin" => names'[t] = {}
  <2>1. CASE Still(t)
    BY <2>1 DEF Still, Tabling
  <2>2. CASE Legal(t)
    BY <2>2 DEF Legal, Ordered
  <2>. QED  BY <2>1, <2>2, MovesItself DEF Core
<1>2. ASSUME Doing(t, {"collections"}), pc'[t] = "sifting",
             Cardinality({s[1] : s \in todo'[t]}) < call[t].limit,
             NEW s \in Slots, \A d \in window'[t][s] : Present(d) /\ ~ExpiredAt(d, now')
      PROVE  s \in todo'[t]
  <2>1. CASE Still(t)
    <3>1. pc[t] = "sifting" /\ pc[t] \notin Ended /\ todo'[t] = todo[t]
      BY <1>2, <2>1 DEF Still, Ended
    <3>2. \A d \in window[t][s] : Live(d)
      BY <1>2, <3>1, AnswersCollectionsStays
    <3>. QED  BY <1>2, <3>1, <3>2 DEF Tabling, At, AnswersCollections
  <2>2. CASE OwnStep(t)
    <3>1. /\ pc[t] = "begin"
          /\ todo'[t] # LiveOf(Slots) => Cardinality({r[1] : r \in todo'[t]}) = call[t].limit
      BY <1>2, <2>2, CollectionsSteps
    <3>2. call[t].limit \in Nat
      BY CallFacts DEF Core
    <3>3. todo'[t] = LiveOf(Slots)
      <4>. DEFINE c == Cardinality({r[1] : r \in todo'[t]})
      <4>1. c < call[t].limit /\ (todo'[t] # LiveOf(Slots) => c = call[t].limit)
        BY <1>2, <3>1
      <4>. HIDE DEF c
      <4>. QED  BY <3>2, <4>1
    <3>4. Live(db[s])
      BY <1>2, <3>1, AnswersCollectionsStays DEF Ended
    <3>. QED  BY <3>3, <3>4 DEF LiveOf
  <2>. QED  BY <2>1, <2>2, MovesItself DEF Core
<1>3. (At(t, {"collections"}, "sifting") => AnswersCollections(t, todo[t]))'
  BY <1>0, <1>2 DEF At, Doing, AnswersCollections, Live, Expired, Present
<1>. QED  BY <1>1, <1>3 DEF Tabling

LEMMA CollectionsRightStep ==
    ASSUME Core, Next, NEW t \in Tasks, ~OnRedis, Tabling(t)
    PROVE  CollectionsRight(t)'
<1>0. UNCHANGED <<backend, call>> /\ call[t].limit \in Nat
  BY NextCases, CallFacts DEF Core
<1>. SUFFICES ASSUME Doing(t, {"collections"}), pc'[t] = "ok", window'[t] # Unwatched,
                     Cardinality(names'[t]) < call[t].limit,
                     NEW s \in Slots, \A d \in window'[t][s] : Present(d) /\ ~ExpiredAt(d, now')
              PROVE  s[1] \in names'[t]
  BY <1>0 DEF CollectionsRight, Answers, Done, At, Doing, Live, Expired, Present
<1>1. pc[t] \notin Ended /\ pc'[t] # "begin"
  BY AnswersNow
<1>2. OwnStep(t)
  BY <1>1, MovesItself DEF Core, Ended
<1>3. CASE pc[t] = "begin" /\ names'[t] = names[t] /\ call[t].limit = 0
  <2>1. names'[t] = {}
    BY <1>3 DEF Tabling
  <2>. QED  BY <1>3, <2>1, FS_EmptySet
<1>4. CASE pc[t] = "sifting" /\ names'[t] = {r[1] : r \in todo[t]}
  <2>1. \A d \in window[t][s] : Live(d)
    BY <1>1, AnswersCollectionsStays
  <2>2. s \in todo[t]
    <3>. DEFINE c == Cardinality({r[1] : r \in todo[t]})
    <3>1. AnswersCollections(t, todo[t])
      BY <1>4 DEF Tabling, At
    <3>2. c < call[t].limit
      BY <1>4
    <3>. QED  BY <2>1, <3>1, <3>2 DEF AnswersCollections
  <2>. QED  BY <1>4, <2>2
<1>. QED  BY <1>2, <1>3, <1>4, CollectionsSteps

\* On SQL, a collection that held a live entry all the time collections ran is listed, unless
\* the limit is reached.
THEOREM CollectionsAreOfRows ==
    Spec => []RowsGiveCollections
<1>. DEFINE Inv == ~OnRedis => \A t \in Tasks : Tabling(t) /\ CollectionsRight(t)
<1>1. Init => Inv
  BY DEF Init, StoreInit, Tabling, CollectionsRight, Answers, Done, At
<1>2. Core /\ Inv /\ [Next]_vars => Inv'
  <2>. SUFFICES ASSUME Core, Inv, [Next]_vars, ~OnRedis, NEW t \in Tasks
                PROVE  (Tabling(t) /\ CollectionsRight(t))'
    <3>1. [Next]_vars => backend' = backend
      BY DEF Next, vars
    <3>. QED  BY <3>1 DEF OnRedis
  <2>1. CASE Next
    BY <2>1, TablingStep, CollectionsRightStep
  <2>2. CASE UNCHANGED vars
    <3>1. (Tabling(t) <=> Tabling(t)') /\ (CollectionsRight(t) <=> CollectionsRight(t)')
      BY <2>2 DEF vars, serverVars, clientVars, taskVars, Tabling, CollectionsRight, Answers, Done, At, Doing,
                  AnswersCollections, Live, Expired, ExpiredAt, Present, OnRedis
    <3>. QED  BY <3>1
  <2>. QED  BY <2>1, <2>2
<1>3. Inv => RowsGiveCollections
  BY DEF CollectionsRight, RowsGiveCollections, CollectionsComplete, OnRedis
<1>. QED  BY <1>1, <1>2, <1>3, CoreAlways, PTL DEF Spec

-----------------------------------------------------------------------------
(* Conflicts *)

ConflictRight(t) ==
    pc[t] = "conflict" /\ window[t] # Unwatched => \A s \in Target(t) :
        IF Present(found[t][s])
          THEN found[t][s] \in window[t][s] /\ ~ExpiredAt(found[t][s], since[t])
          ELSE \E d \in window[t][s] : ~Live(d) \/ ~d.sound

\* What a call finds: what is live, or nothing because that does not decode.
Shown(t) ==
    \/ found'[t] = Of(LiveOf(Target(t)))
    \/ found'[t] = Nothing /\ \E s \in Target(t) : ~db[s].sound

\* A conflict shows what is live, if it decodes.  What is turned down is so at once.
LEMMA ConflictSteps ==
    ASSUME Core, NEW t \in Tasks, OwnStep(t), pc'[t] \in {"conflict", "invalid"}
    PROVE  IF pc'[t] = "invalid" THEN pc[t] = "begin" /\ db' = db ELSE Doing(t, PgSwaps) /\ Shown(t)
<1>0. \A stage, o, d, f : Goto(t, stage, o, d, f) => pc'[t] = stage
  BY DEF Goto, Core, TypeOK
<1>1. /\ \A how : Return(t, how) => pc'[t] = how
      /\ \A how : GoOn(t, how) => pc'[t] = how
      /\ \A f : Answer(t, f) => pc'[t] = "ok"
  BY <1>0 DEF Return, GoOn, Answer
<1>2. CASE Refused(t) \/ Trivial(t) \/ Failed(t)
  BY <1>1, <1>2 DEF Refused, Trivial, Failed
<1>3. CASE Schema(t)
  BY <1>1, <1>3 DEF Schema, SqlCreateTable, SqlInspectTable, SqlEnsureIndex, PgEnsureColumns, PgEnsureIndexAndChanges
<1>4. CASE \/ \E op \in SqlReads : SqlRead(t, op)
           \/ \E op \in Writes : SqlUpsert(t, op)
           \/ \E op \in Deletes : SqlDelete(t, op)
  BY <1>0, <1>1, <1>4 DEF SqlRead, SqlUpsert, SqlDelete, SqlFail, Fetch
<1>5. CASE SqlCull(t) \/ SqlKeys(t) \/ SqlCollections(t) \/ SqlDestroyCollection(t)
           \/ \E parts \in SUBSET {"table", "changes"} : SqlDestroy(t, parts)
  BY <1>0, <1>1, <1>5 DEF SqlCull, SqlKeys, SqlCollections, SqlDestroyCollection, SqlDestroy, SqlFail, SqlSelectLive
<1>6. CASE PgGetWithRevision(t) \/ PgBeginSwap(t) \/ PgCompareAndSwap(t) \/ PgCompareAndDelete(t)
  BY <1>1, <1>6 DEF PgGetWithRevision, PgBeginSwap, PgCompareAndSwap, PgCompareAndDelete
<1>7. CASE PgConflict(t)
  <2>1. Goto(t, "conflict", Nothing, {}, Of(LiveOf(Target(t)))) /\ Doing(t, PgSwaps)
    BY <1>1, <1>7 DEF PgConflict, PgCurrent, At
  <2>. QED  BY <1>0, <2>1 DEF Goto, Shown, Core, TypeOK
<1>8. CASE RedisGet(t) \/ RedisGetMany(t) \/ RedisGetWithRevision(t) \/ RedisBatch(t) \/ RedisPut(t)
           \/ RedisPutMany(t) \/ RedisDelete(t) \/ RedisDeleteMany(t)
  BY <1>0, <1>1, <1>8 DEF RedisGet, RedisGetMany, RedisGetWithRevision, RedisFetch, RedisBatch, RedisPut,
                          RedisPutMany, RedisAdvance, RedisDelete, RedisDeleteMany
<1>9. CASE RedisCompareAndSwap(t) \/ RedisCompareAndDelete(t)
  <2>1. \/ Goto(t, "conflict", Nothing, {}, Of(LiveOf(Target(t))))
        \/ Return(t, "conflict") /\ \E s \in LiveOf(Target(t)) : ~RedisDecodes(db[s])
    BY <1>1, <1>9 DEF RedisCompareAndSwap, RedisCompareAndDelete, RedisConflict
  <2>2. pc[t] = "begin" /\ found[t] = Nothing /\ Doing(t, PgSwaps)
    BY <1>9 DEF RedisCompareAndSwap, RedisCompareAndDelete, At, Core, Begun, Doing, PgSwaps
  <2>3. CASE Goto(t, "conflict", Nothing, {}, Of(LiveOf(Target(t))))
    BY <1>0, <2>2, <2>3 DEF Goto, Shown, Core, TypeOK
  <2>4. CASE Return(t, "conflict") /\ \E s \in LiveOf(Target(t)) : ~RedisDecodes(db[s])
    <3>1. pc'[t] = "conflict" /\ found'[t] = Nothing
      BY <2>2, <2>4 DEF Return, Goto, Core, TypeOK
    <3>2. \E s \in Target(t) : ~db[s].sound
      BY <2>4 DEF LiveOf, RedisDecodes
    <3>. QED  BY <2>2, <3>1, <3>2 DEF Shown
  <2>. QED  BY <2>1, <2>3, <2>4
<1>10. CASE RedisCull(t) \/ RedisKeys(t) \/ RedisCollections(t) \/ RedisDestroyCollection(t)
  BY <1>0, <1>1, <1>10 DEF RedisCull, RedisKeys, RedisCollections, RedisDestroyCollection
<1>11. CASE RedisDestroy(t)
  BY <1>0, <1>1, <1>11 DEF RedisDestroy, At
<1>. QED  BY <1>2, <1>3, <1>4, <1>5, <1>6, <1>7, <1>8, <1>9, <1>10, <1>11, StepCases DEF SqlSteps, RedisSteps

\* At most one slot is meant, so that what does not decode is what the call is about.
LEMMA SwapAbout ==
    ASSUME Core, NEW t \in Tasks, Doing(t, PgSwaps), NEW r \in Target(t), NEW s \in Target(t)
    PROVE  r = s
<1>1. call[t] \in Calls /\ DOMAIN call[t].keys = 1 .. Len(call[t].keys)
  BY CallFacts DEF Core
<1>2. DOMAIN call[t].keys = {1}
  <2>1. Len(call[t].keys) = 1
    BY <1>1, CallsAssumption DEF Doing, PgSwaps
  <2>. QED  BY <1>1, <2>1
<1>3. \A p \in Target(t) : p = <<call[t].coll, call[t].keys[1]>>
  BY <1>2, SlotsAssumption DEF Target
<1>. QED  BY <1>3

LEMMA ConflictRightStep ==
    ASSUME Core, Next, NEW t \in Tasks
    PROVE  ConflictRight(t)'
<1>0. UNCHANGED <<backend, call>>
  BY NextCases DEF Core
<1>. SUFFICES ASSUME pc'[t] = "conflict", window'[t] # Unwatched, NEW s \in Target(t)
              PROVE  IF Present(found'[t][s])
                       THEN found'[t][s] \in window'[t][s] /\ ~ExpiredAt(found'[t][s], since'[t])
                       ELSE \E d \in window'[t][s] : ~(Present(d) /\ ~ExpiredAt(d, now')) \/ ~d.sound
  BY <1>0 DEF ConflictRight, Target, Present, ExpiredAt, Live, Expired
<1>1. pc[t] \notin Ended /\ pc'[t] # "begin"
  BY AnswersNow
<1>2. OwnStep(t)
  BY <1>1, MovesItself DEF Core, Ended
<1>3. s \in Slots
  BY DEF Target
<1>4. Doing(t, PgSwaps) /\ Shown(t)
  BY <1>2, ConflictSteps
<1>5. db[s] \in window'[t][s]
  BY <1>1, <1>3, History
<1>6. since'[t] <= now /\ since'[t] \in Nat /\ now \in Nat /\ db[s].expires \in Nat
  <2>1. since[t] <= now /\ since[t] \in Nat /\ now \in Nat /\ db[s].expires \in Nat
    BY <1>3, BoundsAssumption DEF Core, Begun, TypeOK, Doc
  <2>2. since'[t] \in {now, since[t]}
    BY <1>1, History
  <2>. QED  BY <2>1, <2>2
<1>7. now' \in Nat /\ now <= now'
  BY DbStep, BoundsAssumption DEF Core, Begun
<1>8. CASE Present(found'[t][s])
  <2>1. found'[t] # Nothing
    BY <1>3, <1>8, DocFacts DEF Core
  <2>2. found'[t][s] = db[s] /\ Live(db[s])
    BY <1>3, <1>4, <1>8, <2>1 DEF Shown, Of, LiveOf, Present
  <2>3. ~ExpiredAt(db[s], since'[t])
    BY <1>6, <2>2 DEF Live, Expired, ExpiredAt, NoExpiry
  <2>. QED  BY <1>5, <1>8, <2>2, <2>3
<1>9. CASE ~Present(found'[t][s])
  <2>1. CASE found'[t] = Of(LiveOf(Target(t)))
    <3>1. ~Live(db[s])
      <4>1. found'[t][s] = IF s \in LiveOf(Target(t)) THEN db[s] ELSE Empty
        BY <1>3, <2>1 DEF Of
      <4>. QED  BY <1>9, <4>1 DEF LiveOf, Live
    <3>2. ~(Present(db[s]) /\ ~ExpiredAt(db[s], now'))
      BY <1>6, <1>7, <3>1 DEF Live, Expired, ExpiredAt, NoExpiry
    <3>. QED  BY <1>5, <1>9, <3>2
  <2>2. CASE \E r \in Target(t) : ~db[r].sound
    <3>1. ~db[s].sound
      BY <1>4, <2>2, SwapAbout
    <3>. QED  BY <1>5, <1>9, <3>1
  <2>. QED  BY <1>4, <2>1, <2>2 DEF Shown
<1>. QED  BY <1>8, <1>9

\* The entry that a conflict of compare_and_swap or compare_and_delete shows was there, live,
\* while the call ran.
THEOREM ConflictsAreCurrent ==
    Spec => []ConflictsCurrent
<1>. DEFINE Inv == \A t \in Tasks : ConflictRight(t)
<1>1. Init => Inv
  BY DEF Init, StoreInit, ConflictRight
<1>2. Core /\ Inv /\ [Next]_vars => Inv'
  <2>1. UNCHANGED vars /\ Inv => Inv'
    BY DEF vars, taskVars, ConflictRight, Target, Live, Expired, ExpiredAt
  <2>. QED  BY <2>1, ConflictRightStep
<1>3. Inv => ConflictsCurrent
  BY DEF ConflictRight, ConflictsCurrent
<1>. QED  BY <1>1, <1>2, <1>3, CoreAlways, PTL DEF Spec

\* What a call answers was so while it ran: the values of reads, the entries that deletions
\* count, the keys and collections of listings, the entry a conflict shows.
THEOREM AnswersAreTrue ==
    Spec => []AnswersTrue
<1>1. ReadsCurrent /\ DeletesCounted /\ KeysOfLive /\ RowsGiveCollections /\ ConflictsCurrent => AnswersTrue
  BY DEF AnswersTrue
<1>. QED  BY <1>1, ReadsAreCurrent, DeletesAreCountedOnce, KeysAreOfLive, CollectionsAreOfRows, ConflictsAreCurrent, PTL

-----------------------------------------------------------------------------
(* Writes *)

Clean(t) == pc[t] = "invalid" => \A s \in Slots : db[s].writer[1] # t

\* A call that is still stores nothing.
LEMMA OthersWrite ==
    ASSUME Core, Next, NEW t \in Tasks, Still(t), NEW s \in Slots, db'[s].writer[1] = t
    PROVE  db'[s] = db[s]
<1>1. Empty.writer[1] # t
  BY TasksAssumption DEF Empty
<1>2. ASSUME NEW u \in Tasks, NEW i, db'[s].writer[1] = u, Writable(u, i), ~Writable(u, i)'
      PROVE  FALSE
  BY <1>2 DEF Still, Writable
<1>. QED  BY <1>1, <1>2, DbStep DEF Core

\* A call that has not begun has stored nothing.
LEMMA BeginsClean ==
    ASSUME Core, NEW t \in Tasks, pc[t] = "begin", NEW s \in Slots
    PROVE  db[s].writer[1] # t
<1>. QED  BY DEF Core, DocsSpent, Spent, Writable

LEMMA CleanStep ==
    ASSUME Core, Next, NEW t \in Tasks, Clean(t)
    PROVE  Clean(t)'
<1>. SUFFICES ASSUME pc'[t] = "invalid", NEW s \in Slots, db'[s].writer[1] = t
              PROVE  FALSE
  BY DEF Clean
<1>1. CASE Still(t)
  BY <1>1, OthersWrite DEF Still, Clean
<1>2. CASE OwnStep(t)
  BY <1>2, ConflictSteps, BeginsClean
<1>. QED  BY <1>1, <1>2, MovesItself DEF Core

\* A call rejected for its arguments has stored nothing, not even the items of a batch that
\* were in order.
THEOREM RejectedCallsStoreNothing ==
    Spec => []RejectedStoreNothing
<1>. DEFINE Inv == \A t \in Tasks : Clean(t)
<1>1. Init => Inv
  BY DEF Init, StoreInit, Clean
<1>2. Core /\ Inv /\ [Next]_vars => Inv'
  <2>1. UNCHANGED vars /\ Inv => Inv'
    BY DEF vars, serverVars, taskVars, Clean
  <2>. QED  BY <2>1, CleanStep
<1>3. Inv => RejectedStoreNothing
  BY DEF Clean, RejectedStoreNothing
<1>. QED  BY <1>1, <1>2, <1>3, CoreAlways, PTL DEF Spec

\* f is what the slots hold when a write has succeeded, PutsLand's consequent.
PutLands(t) ==
    \A s \in Target(t) :
        /\ \E d \in window[t][s] : d.writer = <<t, LastPosition(t, s)>>
        /\ db[s].writer[1] = t => db[s].writer[2] = LastPosition(t, s)

PutRight(t) == Answers(t, Writes) => PutLands(t)

\* A key given once is at one position.
LEMMA OneKey ==
    ASSUME Core, NEW t \in Tasks, Doing(t, {"put"})
    PROVE  /\ DOMAIN call[t].keys = {1}
           /\ \A s \in Target(t) : s = <<call[t].coll, call[t].keys[1]>> /\ LastPosition(t, s) = 1
<1>1. call[t] \in Calls /\ DOMAIN call[t].keys = 1 .. Len(call[t].keys)
  BY CallFacts DEF Core
<1>2. Len(call[t].keys) = 1
  BY <1>1, CallsAssumption DEF Doing
<1>3. DOMAIN call[t].keys = {1}
  BY <1>1, <1>2
<1>4. \A s \in Target(t) : LastPosition(t, s) = 1
  BY <1>3, PositionFacts DEF Positions, Core
<1>. QED  BY <1>3, <1>4, SlotsAssumption DEF Target

\* The next item of a batch goes to its slot.
LEMMA NextItem ==
    ASSUME Core, NEW t \in Tasks, Batching(t), OnRedis, RedisPutMany(t)
    PROVE  /\ Doing(t, {"put_many"}) /\ pc[t] = "batch" /\ BatchStored(t)
           /\ NextPosition(t) \in rest[t] /\ rest[t] \subseteq DOMAIN call[t].keys
           /\ \A j \in rest[t] : NextPosition(t) <= j
           /\ DOMAIN call[t].keys \subseteq Nat
           /\ NextSlot(t) \in Target(t) /\ NextSlot(t) = <<call[t].coll, call[t].keys[NextPosition(t)]>>
           /\ db' = [db EXCEPT ![NextSlot(t)] = NewDoc(t, NextPosition(t), now)]
           /\ rest'[t] = rest[t] \ {NextPosition(t)}
           /\ pc'[t] = IF rest[t] = {NextPosition(t)} THEN "ok" ELSE "batch"
<1>1. Doing(t, {"put_many"}) /\ pc[t] = "batch" /\ BatchStored(t)
  BY DEF RedisPutMany, At, Batching
<1>2. rest[t] # {} /\ rest[t] \subseteq DOMAIN call[t].keys
  BY <1>1 DEF Core, LoopsTyped, Doing
<1>3. NextPosition(t) \in rest[t] /\ \A j \in rest[t] : NextPosition(t) <= j
  BY <1>2, PositionFacts DEF Core
<1>4. DOMAIN call[t].keys \subseteq Nat
  <2>1. DOMAIN call[t].keys = 1 .. Len(call[t].keys) /\ Len(call[t].keys) \in Nat
    BY CallFacts DEF Core
  <2>. QED  BY <2>1
<1>5. NextSlot(t) \in Target(t) /\ NextSlot(t) = <<call[t].coll, call[t].keys[NextPosition(t)]>>
  <2>1. NextPosition(t) \in DOMAIN call[t].keys
    BY <1>2, <1>3
  <2>2. <<call[t].coll, call[t].keys[NextPosition(t)]>> \in Slots
    BY <2>1, CallFacts DEF Core, Batching, TooLong
  <2>. HIDE DEF NextPosition
  <2>. QED  BY <2>1, <2>2 DEF NextSlot, Target
<1>6. db' = [db EXCEPT ![NextSlot(t)] = NewDoc(t, NextPosition(t), now)]
  BY DEF RedisPutMany, RedisStore
<1>7. /\ rest'[t] = rest[t] \ {NextPosition(t)}
      /\ pc'[t] = IF rest[t] = {NextPosition(t)} THEN "ok" ELSE "batch"
  BY DEF RedisPutMany, RedisAdvance, Goto, Core, TypeOK
<1>. QED  BY <1>1, <1>2, <1>3, <1>4, <1>5, <1>6, <1>7

\* After an item more, the batch is stored as far as it has come.
LEMMA BatchStoredNext ==
    ASSUME Core, Next, NEW t \in Tasks, Batching(t), OnRedis, RedisPutMany(t)
    PROVE  BatchStored(t)'
<1>. DEFINE n == NextPosition(t)
            r == NextSlot(t)
            past == DOMAIN call[t].keys \ rest[t]
            left == rest[t] \ {n}
            done == DOMAIN call[t].keys \ left
<1>0. UNCHANGED <<backend, call>>
  BY NextCases DEF Core
<1>1. /\ Doing(t, {"put_many"}) /\ pc[t] = "batch" /\ BatchStored(t)
      /\ n \in rest[t] /\ rest[t] \subseteq DOMAIN call[t].keys
      /\ \A j \in rest[t] : n <= j
      /\ DOMAIN call[t].keys \subseteq Nat
      /\ r \in Target(t) /\ r = <<call[t].coll, call[t].keys[n]>>
      /\ db' = [db EXCEPT ![r] = NewDoc(t, n, now)]
      /\ rest'[t] = left
      /\ pc'[t] \in {"ok", "batch"}
  BY NextItem
<1>2. NewDoc(t, n, now).writer = <<t, n>>
  BY DEF NewDoc
<1>. HIDE DEF n, r, NewDoc
<1>3. r \in Slots /\ \A s \in Slots : db'[s] = IF s = r THEN NewDoc(t, n, now) ELSE db[s]
  BY <1>1 DEF Target, Core, TypeOK
<1>4. done = past \cup {n}
  BY <1>1
<1>5. /\ \A i \in past, j \in rest[t] : i < j
      /\ \A i \in past : \E d \in window[t][<<call[t].coll, call[t].keys[i]>>] : d.writer = <<t, i>>
      /\ \A s \in Slots : db[s].writer[1] = t =>
            /\ s \in Target(t) /\ db[s].writer[2] \in past \cap Positions(t, s)
            /\ \A j \in past \cap Positions(t, s) : j <= db[s].writer[2]
  BY <1>1 DEF BatchStored
<1>6. \A i \in done, j \in left : i < j
  <2>1. ASSUME NEW j \in left
        PROVE  n < j
    <3>1. n \in Nat /\ j \in Nat /\ n <= j /\ n # j
      BY <1>1
    <3>. QED  BY <3>1
  <2>2. ASSUME NEW i \in done, NEW j \in left
        PROVE  i < j
    <3>1. CASE i = n
      BY <2>1, <3>1
    <3>2. CASE i \in past
      BY <1>5, <3>2
    <3>. QED  BY <1>4, <3>1, <3>2
  <2>. QED  BY <2>2
<1>7. \A s \in Slots : window[t][s] \subseteq window'[t][s] /\ db'[s] \in window'[t][s]
  BY <1>1, History DEF Ended
<1>8. \A i \in done : \E d \in window'[t][<<call[t].coll, call[t].keys[i]>>] : d.writer = <<t, i>>
  <2>1. \A i \in past : <<call[t].coll, call[t].keys[i]>> \in Slots
    BY <1>1, CallFacts DEF Batching, TooLong, Core
  <2>2. ASSUME NEW i \in done
        PROVE  \E d \in window'[t][<<call[t].coll, call[t].keys[i]>>] : d.writer = <<t, i>>
    <3>1. CASE i = n
      BY <1>1, <1>2, <1>3, <1>7, <3>1
    <3>2. CASE i \in past
      BY <1>5, <1>7, <2>1, <3>2
    <3>. QED  BY <1>4, <3>1, <3>2
  <2>. QED  BY <2>2
<1>9. ASSUME NEW s \in Slots, db'[s].writer[1] = t
      PROVE  /\ s \in Target(t) /\ db'[s].writer[2] \in done \cap Positions(t, s)
             /\ \A j \in done \cap Positions(t, s) : j <= db'[s].writer[2]
  <2>1. CASE s = r
    <3>1. db'[s].writer[2] = n /\ n \in Positions(t, s)
      BY <1>1, <1>2, <1>3, <2>1 DEF Positions
    <3>2. ASSUME NEW j \in done
          PROVE  j <= n
      <4>1. j \in Nat /\ n \in Nat
        BY <1>1
      <4>2. j = n \/ j < n
        BY <1>1, <1>4, <1>5
      <4>. QED  BY <4>1, <4>2
    <3>. QED  BY <1>1, <1>4, <2>1, <3>1, <3>2
  <2>2. CASE s # r
    <3>1. db'[s] = db[s] /\ s \in Target(t)
      BY <1>3, <1>5, <1>9, <2>2
    <3>2. n \notin Positions(t, s)
      BY <1>1, <2>2, <3>1, SlotsAssumption DEF Positions, Target
    <3>3. done \cap Positions(t, s) = past \cap Positions(t, s)
      BY <1>4, <3>2
    <3>. QED  BY <1>5, <1>9, <3>1, <3>3
  <2>. QED  BY <2>1, <2>2
<1>10. Target(t)' = Target(t) /\ \A s : Positions(t, s)' = Positions(t, s)
  BY <1>0 DEF Target, Positions
<1>. QED  BY <1>0, <1>1, <1>6, <1>8, <1>9, <1>10 DEF BatchStored

\* What a call stores is not touched by a step of another, except to replace or remove it.
LEMMA BatchStoredStays ==
    ASSUME Core, Next, NEW t \in Tasks, pc[t] = "batch", Batching(t), OnRedis, BatchStored(t), Still(t)
    PROVE  BatchStored(t)'
<1>0. UNCHANGED <<backend, call>> /\ rest'[t] = rest[t]
  BY NextCases DEF Core, Still
<1>1. \A i \in DOMAIN call[t].keys : <<call[t].coll, call[t].keys[i]>> \in Slots
  BY CallFacts DEF Batching, TooLong, Core
<1>2. \A s \in Slots : window[t][s] \subseteq window'[t][s]
  BY History DEF Ended, Still
<1>3. \A s \in Slots : db'[s].writer[1] = t => db'[s] = db[s]
  BY OthersWrite
<1>4. Target(t)' = Target(t) /\ \A s : Positions(t, s)' = Positions(t, s)
  BY <1>0 DEF Target, Positions
<1>. DEFINE past == DOMAIN call[t].keys \ rest[t]
<1>5. /\ \A i \in past, j \in rest[t] : i < j
      /\ \A i \in past : \E d \in window[t][<<call[t].coll, call[t].keys[i]>>] : d.writer = <<t, i>>
      /\ \A s \in Slots : db[s].writer[1] = t =>
            /\ s \in Target(t) /\ db[s].writer[2] \in past \cap Positions(t, s)
            /\ \A j \in past \cap Positions(t, s) : j <= db[s].writer[2]
  BY DEF BatchStored
<1>6. \A i \in past : \E d \in window'[t][<<call[t].coll, call[t].keys[i]>>] : d.writer = <<t, i>>
  BY <1>1, <1>2, <1>5
<1>7. \A s \in Slots : db'[s].writer[1] = t =>
            /\ s \in Target(t) /\ db'[s].writer[2] \in past \cap Positions(t, s)
            /\ \A j \in past \cap Positions(t, s) : j <= db'[s].writer[2]
  BY <1>3, <1>5
<1>. QED  BY <1>0, <1>4, <1>5, <1>6, <1>7 DEF BatchStored

LEMMA BatchingStep ==
    ASSUME Core, Next, NEW t \in Tasks, Batching(t)
    PROVE  Batching(t)'
<1>0. UNCHANGED <<backend, call>>
  BY NextCases DEF Core
<1>. SUFFICES ASSUME OnRedis, Doing(t, {"put_many"}), pc'[t] = "batch"
              PROVE  BatchStored(t)'
  BY <1>0 DEF Batching, At, Doing, OnRedis, TooLong
<1>1. CASE OwnStep(t)
  <2>1. CASE Plainly(t)
    BY <2>1 DEF Plainly, Refused, Trivial, Failed, Return, Goto, Core, TypeOK
  <2>2. CASE ~OnRedis /\ SqlUpsert(t, call[t].op)
    BY <2>2 DEF SqlUpsert, SqlFail, Return, Goto, Core, TypeOK
  <2>3. CASE RedisPut(t)
    BY <2>3 DEF RedisPut, Return, Goto, Core, TypeOK
  <2>4. CASE RedisBatch(t)
    <3>1. rest'[t] = DOMAIN call[t].keys /\ db' = db /\ pc[t] = "begin"
      BY <2>4 DEF RedisBatch, At, Core, TypeOK
    <3>2. \A s \in Slots : db'[s].writer[1] # t
      BY <3>1, BeginsClean
    <3>. QED  BY <1>0, <3>1, <3>2 DEF BatchStored
  <2>5. CASE OnRedis /\ RedisPutMany(t)
    BY <2>5, BatchStoredNext
  <2>6. Doing(t, Writes)
    BY DEF Doing, Writes
  <2>. QED  BY <1>1, <2>1, <2>2, <2>3, <2>4, <2>5, <2>6, StepsByOp
<1>2. CASE Still(t)
  <2>1. pc[t] = "batch" /\ BatchStored(t)
    BY <1>2 DEF Still, Batching, At
  <2>. QED  BY <1>2, <2>1, BatchStoredStays
<1>. QED  BY <1>1, <1>2, MovesItself DEF Core

LEMMA PutRightStep ==
    ASSUME Core, Next, NEW t \in Tasks, Batching(t)
    PROVE  PutRight(t)'
<1>0. UNCHANGED <<backend, call>>
  BY NextCases DEF Core
<1>10. Target(t)' = Target(t) /\ \A s : LastPosition(t, s)' = LastPosition(t, s)
  BY <1>0 DEF Target, LastPosition, Positions
<1>. HIDE DEF LastPosition
<1>. SUFFICES ASSUME Doing(t, Writes), pc'[t] = "ok", window'[t] # Unwatched, NEW s \in Target(t)
              PROVE  /\ \E d \in window'[t][s] : d.writer = <<t, LastPosition(t, s)>>
                     /\ db'[s].writer[1] = t => db'[s].writer[2] = LastPosition(t, s)
  BY <1>0, <1>10 DEF PutRight, PutLands, Answers, Done, At, Doing
<1>1. pc[t] \notin Ended /\ pc'[t] # "begin"
  BY AnswersNow
<1>2. OwnStep(t)
  BY <1>1, MovesItself DEF Core, Ended
<1>3. s \in Slots
  BY DEF Target
<1>4. db'[s] \in window'[t][s] /\ window[t][s] \subseteq window'[t][s]
  BY <1>1, <1>3, History
<1>5. ASSUME db'[s] = NewDoc(t, LastPosition(t, s), now)
      PROVE  /\ \E d \in window'[t][s] : d.writer = <<t, LastPosition(t, s)>>
             /\ db'[s].writer[1] = t => db'[s].writer[2] = LastPosition(t, s)
  <2>1. db'[s].writer = <<t, LastPosition(t, s)>>
    BY <1>5 DEF NewDoc
  <2>. QED  BY <1>4, <2>1
<1>6. CASE Plainly(t)
  <2>1. ~Refused(t) /\ ~Failed(t)
    BY DEF Refused, Failed, Return, Goto, Core, TypeOK
  <2>2. call[t].keys = <<>>
    BY <1>6, <2>1 DEF Plainly, Trivial
  <2>. QED  BY <2>2 DEF Target
<1>7. CASE ~OnRedis /\ SqlUpsert(t, call[t].op)
  <2>1. ~Return(t, "error")
    BY DEF Return, Goto, Core, TypeOK
  <2>2. db' = Stored(Target(t), Prepared(t))
    BY <1>7, <2>1 DEF SqlUpsert, SqlFail
  <2>. QED  BY <1>5, <2>2, StoredFacts DEF Core
<1>8. CASE RedisPut(t)
  <2>1. Doing(t, {"put"})
    BY <1>8 DEF RedisPut, At
  <2>2. PICK r \in Target(t) : RedisStore(t, r, 1)
    BY <1>8 DEF RedisPut
  <2>3. r = s /\ LastPosition(t, s) = 1
    BY <2>1, OneKey
  <2>4. db'[s] = NewDoc(t, 1, now)
    BY <1>3, <2>2, <2>3 DEF RedisStore, Core, TypeOK
  <2>. QED  BY <1>5, <2>3, <2>4
<1>9. CASE RedisBatch(t)
  <2>1. call[t].keys = <<>>
    BY <1>9 DEF RedisBatch, Goto, Core, TypeOK
  <2>. QED  BY <2>1 DEF Target
<1>11. CASE OnRedis /\ RedisPutMany(t)
  <2>1. BatchStored(t)'
    BY <1>11, BatchStoredNext
  <2>2. rest'[t] = {}
    BY <1>11, NextItem
  <2>3. LastPosition(t, s) \in DOMAIN call[t].keys /\ LastPosition(t, s) \in Positions(t, s)
        /\ \A j \in Positions(t, s) : j <= LastPosition(t, s)
    BY PositionFacts DEF Core, Positions
  <2>4. Positions(t, s)' = Positions(t, s) /\ Positions(t, s) \subseteq DOMAIN call[t].keys
    BY <1>0 DEF Positions
  <2>5. s = <<call[t].coll, call[t].keys[LastPosition(t, s)]>>
    BY <1>3, <2>3, SlotsAssumption DEF Positions, Target
  <2>6. \E d \in window'[t][s] : d.writer = <<t, LastPosition(t, s)>>
    <3>1. \A i \in DOMAIN call[t].keys \ {} : \E d \in window'[t][<<call[t].coll, call[t].keys[i]>>] : d.writer = <<t, i>>
      BY <1>0, <2>1, <2>2 DEF BatchStored
    <3>. QED  BY <2>3, <2>5, <3>1
  <2>7. ASSUME db'[s].writer[1] = t
        PROVE  db'[s].writer[2] = LastPosition(t, s)
    <3>1. /\ db'[s].writer[2] \in Positions(t, s)
          /\ \A j \in Positions(t, s) : j <= db'[s].writer[2]
      BY <1>0, <1>3, <2>1, <2>2, <2>4, <2>7 DEF BatchStored
    <3>2. Positions(t, s) \subseteq Nat
      <4>1. DOMAIN call[t].keys = 1 .. Len(call[t].keys) /\ Len(call[t].keys) \in Nat
        BY CallFacts DEF Core
      <4>2. DOMAIN call[t].keys \subseteq Nat
        BY <4>1
      <4>. QED  BY <2>4, <4>2
    <3>. QED  BY <2>3, <3>1, <3>2
  <2>. QED  BY <2>6, <2>7
<1>. QED  BY <1>2, <1>6, <1>7, <1>8, <1>9, <1>11, StepsByOp

\* A put or put_many that reports success has stored every entry: in one statement on SQL, item
\* by item with other calls in between on Redis; of a repeated key the last one and none other
\* stays.
THEOREM PutsDoLand ==
    Spec => []PutsLand
<1>. DEFINE Inv == \A t \in Tasks : Batching(t) /\ PutRight(t)
<1>1. Init => Inv
  BY DEF Init, StoreInit, Batching, PutRight, Answers, Done, At, OnRedis, RedisKind
<1>2. Core /\ Inv /\ [Next]_vars => Inv'
  <2>. SUFFICES ASSUME Core, Inv, [Next]_vars, NEW t \in Tasks
                PROVE  (Batching(t) /\ PutRight(t))'
    OBVIOUS
  <2>1. CASE Next
    BY <2>1, BatchingStep, PutRightStep
  <2>2. CASE UNCHANGED vars
    <3>1. (Batching(t) <=> Batching(t)') /\ (PutRight(t) <=> PutRight(t)')
      BY <2>2 DEF vars, serverVars, clientVars, taskVars, Batching, PutRight, PutLands, Answers, Done, At, Doing,
                  BatchStored, OnRedis, TooLong, Target, Positions, LastPosition
    <3>. QED  BY <3>1
  <2>. QED  BY <2>1, <2>2
<1>3. Inv => PutsLand
  BY DEF PutRight, PutLands, PutsLand
<1>. QED  BY <1>1, <1>2, <1>3, CoreAlways, PTL DEF Spec

-----------------------------------------------------------------------------
(* Destroying *)

\* On SQL, rows are put in only while the table is there, and go with it.
LEMMA TableSteps ==
    ASSUME Core, ~OnRedis, NEW t \in Tasks, OwnStep(t)
    PROVE  /\ ~SqlTableThere => \A s \in Slots : db'[s] \in {db[s], Empty}
           /\ SqlTableThere => SqlTableThere' \/ db' = Nothing
<1>0. \A S : \A s \in Slots : Without(S)[s] \in {db[s], Empty}
  BY DEF Without
<1>1. CASE Refused(t) \/ Trivial(t) \/ Failed(t)
  BY <1>1 DEF Refused, Trivial, Failed, SqlPlain, SqlTableThere
<1>2. CASE Schema(t)
  <2>1. db' = db /\ made \subseteq made'
    BY <1>2 DEF Schema, SqlCreateTable, SqlInspectTable, SqlEnsureIndex, PgEnsureColumns, PgEnsureIndexAndChanges,
                SqlPlain
  <2>. QED  BY <2>1 DEF SqlTableThere
<1>3. CASE (\E op \in SqlReads : SqlRead(t, op)) \/ SqlCull(t) \/ SqlKeys(t) \/ SqlCollections(t)
            \/ PgGetWithRevision(t) \/ PgBeginSwap(t) \/ PgConflict(t)
  <2>1. made' = made /\ (db' = db \/ \E S : db' = Without(S))
    BY <1>3 DEF SqlRead, SqlCull, SqlKeys, SqlCollections, PgGetWithRevision, PgBeginSwap, PgConflict, SqlSelectLive,
                SqlFail, SqlPlain
  <2>. QED  BY <1>0, <2>1 DEF SqlTableThere
<1>4. CASE (\E op \in Writes : SqlUpsert(t, op)) \/ (\E op \in Deletes : SqlDelete(t, op)) \/ SqlDestroyCollection(t)
  BY <1>4 DEF SqlUpsert, SqlDelete, SqlDestroyCollection, SqlFail, SqlPlain, SqlTableThere
<1>5. CASE \E parts \in SUBSET {"table", "changes"} : SqlDestroy(t, parts)
  <2>1. (db' = db /\ made' = made) \/ db' = Nothing
    BY <1>5 DEF SqlDestroy, SqlFail, SqlPlain
  <2>. QED  BY <2>1, DocFacts DEF SqlTableThere, Core
<1>6. CASE PgCompareAndSwap(t) \/ PgCompareAndDelete(t)
  BY <1>6 DEF PgCompareAndSwap, PgCompareAndDelete, PgRecorded, SqlPlain, SqlTableThere
<1>. QED  BY <1>1, <1>2, <1>3, <1>4, <1>5, <1>6, StepCases DEF SqlSteps

LEMMA TabledStep ==
    ASSUME Core, Next, Tabled
    PROVE  Tabled'
<1>0. backend' = backend
  BY NextCases DEF Core
<1>. SUFFICES ASSUME ~OnRedis, ~SqlTableThere', NEW s \in Slots
              PROVE  db'[s] = Empty
  <2>1. db' \in [Slots -> Doc] /\ \A s \in Slots : Nothing[s] = Empty
    BY DbStep, DocFacts DEF Core
  <2>2. (\A s \in Slots : db'[s] = Empty) => db' = Nothing
    BY <2>1 DEF Nothing
  <2>3. Nothing' = Nothing
    BY DEF Nothing, Empty
  <2>. QED  BY <1>0, <2>2, <2>3 DEF Tabled, OnRedis
<1>1. ~SqlTableThere => db[s] = Empty
  BY DocFacts DEF Tabled, Core
<1>2. CASE Ticks
  BY <1>1, <1>2 DEF Ticks, Tick, serverVars, SqlTableThere
<1>3. ASSUME NEW t \in Tasks, OwnStep(t)
      PROVE  db'[s] = Empty
  BY <1>1, <1>3, TableSteps, DocFacts DEF Core
<1>. QED  BY <1>2, <1>3, NextCases DEF Core

DestroyRight(t) ==
    Answers(t, {"destroy_collection", "destroy"}) =>
        Cleared(t, {s \in Slots : Doing(t, {"destroy"}) \/ s[1] = call[t].coll})

\* What has been cleared stays so.
LEMMA ClearedStays ==
    ASSUME Core, Next, NEW t \in Tasks, before'[t] = before[t], NEW S \in SUBSET Slots, Cleared(t, S)
    PROVE  \A s \in S : Present(before'[t][s]) => db'[s] # before'[t][s]
<1>. SUFFICES ASSUME NEW s \in S, Present(before[t][s])
              PROVE  db'[s] # before[t][s]
  OBVIOUS
<1>1. PICK d \in Doc : d = before[t][s]
  BY DEF Core, TypeOK
<1>2. Spent(d.writer) /\ db[s] # d
  BY <1>1 DEF Core, DocsSpent, Cleared
<1>. QED  BY <1>1, <1>2, GoneStays

\* A round of Redis' destroy_collection or destroy, with what it takes out.
LEMMA DestroySteps ==
    ASSUME Core, Tabled, NEW t \in Tasks, Doing(t, {"destroy_collection", "destroy"}), OwnStep(t),
           pc'[t] \in {"scanning", "deleting", "passed", "ok"}
    PROVE  LET S == {s \in Slots : Doing(t, {"destroy"}) \/ s[1] = call[t].coll} IN
           \/ pc[t] = "begin" /\ pc'[t] = "scanning" /\ todo'[t] = S
           \/ pc'[t] = "ok" /\ \A s \in S : db'[s] = Empty
           \/ /\ At(t, {"destroy_collection"}, "scanning") /\ pc'[t] = "deleting" /\ db' = db /\ OnRedis
              /\ \E s \in todo[t] : seen'[t] = Of(LiveOf({s})) /\ todo'[t] = todo[t] \ {s}
           \/ /\ At(t, {"destroy_collection"}, "deleting")
              /\ db' = Without({s \in Slots : Present(seen[t][s])})
              /\ pc'[t] \in {"ok", "scanning"} /\ todo'[t] = todo[t] /\ (pc'[t] = "ok" => todo[t] = {})
           \/ /\ Doing(t, {"destroy"}) /\ pc[t] \in {"scanning", "passed"} /\ pc'[t] \in {"scanning", "passed"}
              /\ \E s \in todo[t] : db' = Without({s}) /\ todo'[t] = todo[t] \ {s}
           \/ Doing(t, {"destroy"}) /\ pc[t] = "scanning" /\ pc'[t] = "passed" /\ todo'[t] = todo[t]
           \/ Doing(t, {"destroy"}) /\ pc[t] = "passed" /\ pc'[t] = "ok" /\ todo[t] = {}
<1>0. \A stage, o, d, f : Goto(t, stage, o, d, f) => pc'[t] = stage /\ seen'[t] = o /\ todo'[t] = d
  BY DEF Goto, Core, TypeOK
<1>1. /\ \A how : Return(t, how) => pc'[t] = how
      /\ \A how : GoOn(t, how) => pc'[t] = how /\ todo'[t] = todo[t]
  BY <1>0 DEF Return, GoOn
<1>2. CASE Refused(t) \/ Failed(t)
  BY <1>1, <1>2 DEF Refused, Failed
<1>3. CASE ~OnRedis /\ SqlDestroyCollection(t)
  <2>1. db' = Without(In(call[t].coll)) /\ pc'[t] = "ok" /\ call[t].op = "destroy_collection"
    BY <1>1, <1>3, SqlStepOps DEF SqlDestroyCollection, SqlFail
  <2>2. \A s \in Slots : Doing(t, {"destroy"}) \/ s[1] = call[t].coll => db'[s] = Empty
    BY <2>1 DEF Without, In, Doing
  <2>. QED  BY <2>1, <2>2
<1>4. CASE ~OnRedis /\ \E parts \in SUBSET {"table", "changes"} : SqlDestroy(t, parts)
  <2>1. pc'[t] = "ok" => (~SqlTableThere /\ db' = db) \/ db' = Nothing
    BY <1>1, <1>4 DEF SqlDestroy, SqlFail
  <2>2. pc'[t] \in {"ok", "error", "dropping"}
    BY <1>1, <1>4 DEF SqlDestroy, SqlFail
  <2>3. pc'[t] = "ok" /\ db' = Nothing
    BY <1>4, <2>1, <2>2 DEF Tabled
  <2>4. \A s \in Slots : db'[s] = Empty
    BY <2>3, DocFacts DEF Core
  <2>. QED  BY <2>3, <2>4
<1>5. CASE OnRedis /\ RedisDestroyCollection(t)
  <2>1. Doing(t, {"destroy_collection"}) /\ ~Doing(t, {"destroy"})
    BY <1>5, RedisStepOps DEF Doing
  <2>2. CASE pc[t] = "begin"
    <3>1. pc'[t] = "scanning" /\ todo'[t] = In(call[t].coll)
      BY <1>0, <1>5, <2>2 DEF RedisDestroyCollection, At
    <3>2. {s \in Slots : Doing(t, {"destroy"}) \/ s[1] = call[t].coll} = In(call[t].coll)
      BY <2>1 DEF In
    <3>. QED  BY <2>2, <3>1, <3>2
  <2>3. CASE pc[t] = "scanning"
    <3>1. db' = db /\ \E s \in todo[t] : Return(t, "error") \/ Goto(t, "deleting", Of(LiveOf({s})), todo[t] \ {s}, Nothing)
      BY <1>5, <2>3 DEF RedisDestroyCollection, At
    <3>2. pc'[t] = "deleting" /\ \E s \in todo[t] : seen'[t] = Of(LiveOf({s})) /\ todo'[t] = todo[t] \ {s}
      BY <1>0, <1>1, <3>1
    <3>. QED  BY <1>5, <2>1, <2>3, <3>1, <3>2 DEF At
  <2>4. CASE pc[t] = "deleting"
    <3>1. /\ db' = Without({s \in Slots : Present(seen[t][s])})
          /\ Goto(t, IF todo[t] = {} THEN "ok" ELSE "scanning", Nothing, todo[t], Nothing)
      BY <1>5, <2>4 DEF RedisDestroyCollection, At
    <3>2. pc'[t] = (IF todo[t] = {} THEN "ok" ELSE "scanning") /\ todo'[t] = todo[t]
      BY <1>0, <3>1
    <3>. QED  BY <2>1, <2>4, <3>1, <3>2 DEF At
  <2>. QED  BY <1>5, <2>2, <2>3, <2>4 DEF RedisDestroyCollection, At
<1>6. CASE RedisDestroy(t)
  <2>1. Doing(t, {"destroy"})
    BY <1>6, RedisStepOps DEF Doing
  <2>2. CASE pc[t] = "begin"
    <3>1. Goto(t, "scanning", Nothing, Slots, Nothing) \/ (Return(t, "ok") /\ db' = Nothing)
      BY <1>6, <2>2 DEF RedisDestroy, At
    <3>2. {s \in Slots : Doing(t, {"destroy"}) \/ s[1] = call[t].coll} = Slots
      BY <2>1
    <3>3. (pc'[t] = "scanning" /\ todo'[t] = Slots) \/ (pc'[t] = "ok" /\ db' = Nothing)
      BY <1>0, <1>1, <3>1
    <3>4. \A s \in Slots : Nothing[s] = Empty
      BY DocFacts DEF Core
    <3>. QED  BY <2>2, <3>2, <3>3, <3>4
  <2>3. CASE pc[t] \in {"scanning", "passed"}
    <3>1. \/ \E s \in todo[t] : db' = Without({s}) /\ Goto(t, pc[t], Nothing, todo[t] \ {s}, Nothing)
          \/ pc[t] = "scanning" /\ GoOn(t, "passed")
          \/ pc[t] = "passed" /\ todo[t] = {} /\ Return(t, "ok")
      BY <1>6, <2>3 DEF RedisDestroy, At
    <3>. QED  BY <1>0, <1>1, <2>1, <2>3, <3>1
  <2>. QED  BY <1>6, <2>2, <2>3 DEF RedisDestroy, At
<1>. QED  BY <1>2, <1>3, <1>4, <1>5, <1>6, StepsByOp DEF Doing

LEMMA ClearingStill ==
    ASSUME Core, Next, NEW t \in Tasks, Clearing(t), Still(t)
    PROVE  Clearing(t)'
<1>0. UNCHANGED <<backend, call>>
  BY NextCases DEF Core
<1>1. In(call[t].coll)' = In(call[t].coll) /\ In(call[t].coll) \subseteq Slots
  BY <1>0 DEF In
<1>2. ASSUME NEW S \in SUBSET Slots, Cleared(t, S), pc[t] \notin Ended \cup {"begin"}
      PROVE  \A s \in S : Present(before'[t][s]) => db'[s] # before'[t][s]
  <2>1. before'[t] = before[t]
    BY <1>2, Standing
  <2>. QED  BY <1>2, <2>1, ClearedStays
<1>3. ASSUME Doing(t, {"destroy_collection"}), pc'[t] = "scanning"
      PROVE  \A s \in In(call[t].coll) \ todo'[t] : Present(before'[t][s]) => db'[s] # before'[t][s]
  <2>1. pc[t] = "scanning" /\ todo'[t] = todo[t]
    BY <1>3 DEF Still
  <2>. QED  BY <1>1, <1>2, <1>3, <2>1 DEF Clearing, At, Ended
<1>4. ASSUME Doing(t, {"destroy_collection"}), pc'[t] = "deleting"
      PROVE  \A s \in {r \in In(call[t].coll) \ todo'[t] : ~Present(seen'[t][r])} :
                Present(before'[t][s]) => db'[s] # before'[t][s]
  <2>1. pc[t] = "deleting" /\ todo'[t] = todo[t] /\ seen'[t] = seen[t]
    BY <1>4 DEF Still
  <2>2. {r \in In(call[t].coll) \ todo[t] : ~Present(seen[t][r])} \in SUBSET Slots
    BY <1>1
  <2>. QED  BY <1>2, <1>4, <2>1, <2>2 DEF Clearing, At, Ended
<1>5. ASSUME Doing(t, {"destroy"}), pc'[t] \in {"scanning", "passed"}
      PROVE  \A s \in Slots \ todo'[t] : Present(before'[t][s]) => db'[s] # before'[t][s]
  <2>1. pc[t] \in {"scanning", "passed"} /\ todo'[t] = todo[t]
    BY <1>5 DEF Still
  <2>. QED  BY <1>2, <1>5, <2>1 DEF Clearing, Ended
<1>. QED  BY <1>0, <1>1, <1>3, <1>4, <1>5 DEF Clearing, Cleared, At, Doing, Present

LEMMA ClearingOwn ==
    ASSUME Core, Next, Tabled, NEW t \in Tasks, Clearing(t), OwnStep(t), Doing(t, {"destroy_collection", "destroy"}),
           pc'[t] \in {"scanning", "deleting", "passed", "ok"}, pc[t] \notin Ended
    PROVE  LET S == {s \in Slots : Doing(t, {"destroy"}) \/ s[1] = call[t].coll}
               Gone(s) == Present(before'[t][s]) => db'[s] # before'[t][s] IN
           /\ pc'[t] \in {"scanning", "passed"} => \A s \in S \ todo'[t] : Gone(s)
           /\ pc'[t] = "deleting" => \A s \in S \ todo'[t] : Present(seen'[t][s]) \/ Gone(s)
           /\ pc'[t] = "ok" => \A s \in S : Gone(s)
           /\ pc'[t] = "deleting" => Doing(t, {"destroy_collection"})
<1>. DEFINE S == {s \in Slots : Doing(t, {"destroy"}) \/ s[1] = call[t].coll}
            Gone(s) == Present(before'[t][s]) => db'[s] # before'[t][s]
<1>0. pc'[t] # "begin"
  OBVIOUS
<1>1. Doing(t, {"destroy_collection"}) => S = In(call[t].coll) /\ ~Doing(t, {"destroy"})
  BY DEF In, Doing
<1>2. Doing(t, {"destroy"}) => S = Slots /\ ~Doing(t, {"destroy_collection"})
  BY DEF Doing
<1>3. S \subseteq Slots /\ \A s \in Slots : db'[s] = Empty => Gone(s)
  BY DEF Present
<1>4. ASSUME NEW T \in SUBSET Slots, Cleared(t, T), pc[t] # "begin"
      PROVE  \A s \in T : Gone(s)
  <2>1. before'[t] = before[t]
    BY <1>0, <1>4, History
  <2>. QED  BY <1>4, <2>1, ClearedStays
<1>. HIDE DEF Gone
<1>5. CASE pc[t] = "begin" /\ pc'[t] = "scanning" /\ todo'[t] = S
  BY <1>5 DEF Gone
<1>6. CASE pc'[t] = "ok" /\ \A s \in S : db'[s] = Empty
  BY <1>3, <1>6 DEF Gone
<1>7. CASE /\ At(t, {"destroy_collection"}, "scanning") /\ pc'[t] = "deleting" /\ db' = db /\ OnRedis
           /\ \E s \in todo[t] : seen'[t] = Of(LiveOf({s})) /\ todo'[t] = todo[t] \ {s}
  <2>1. PICK r \in todo[t] : seen'[t] = Of(LiveOf({r})) /\ todo'[t] = todo[t] \ {r}
    BY <1>7
  <2>2. S = In(call[t].coll) /\ Cleared(t, In(call[t].coll) \ todo[t]) /\ Doing(t, {"destroy_collection"})
    BY <1>1, <1>7 DEF At, Clearing
  <2>3. \A s \in S \ todo[t] : Gone(s)
    BY <1>3, <1>4, <1>7, <2>2 DEF At
  <2>4. r \in Slots /\ seen'[t][r] = IF Live(db[r]) THEN db[r] ELSE Empty
    BY <2>1 DEF Of, LiveOf, Core, TypeOK
  <2>5. Live(db[r]) \/ db[r] = Empty
    BY <1>7, <2>4 DEF Core, Dropped, Live, Present
  <2>6. Present(seen'[t][r]) \/ Gone(r)
    BY <1>3, <1>7, <2>4, <2>5 DEF Live
  <2>. QED  BY <1>7, <2>1, <2>2, <2>3, <2>6 DEF Gone
<1>8. CASE /\ At(t, {"destroy_collection"}, "deleting")
           /\ db' = Without({s \in Slots : Present(seen[t][s])})
           /\ pc'[t] \in {"ok", "scanning"} /\ todo'[t] = todo[t] /\ (pc'[t] = "ok" => todo[t] = {})
  <2>. DEFINE T == {s \in In(call[t].coll) \ todo[t] : ~Present(seen[t][s])}
  <2>1. S = In(call[t].coll) /\ Cleared(t, T)
    BY <1>1, <1>8 DEF At, Clearing
  <2>2. T \in SUBSET Slots
    BY DEF In
  <2>3. \A s \in T : Gone(s)
    BY <1>4, <1>8, <2>1, <2>2 DEF At
  <2>4. \A s \in Slots : Present(seen[t][s]) => db'[s] = Empty
    BY <1>8 DEF Without
  <2>5. \A s \in S \ todo[t] : Gone(s)
    BY <1>3, <2>1, <2>3, <2>4
  <2>. QED  BY <1>8, <2>5 DEF Gone
<1>9. CASE /\ Doing(t, {"destroy"}) /\ pc[t] \in {"scanning", "passed"} /\ pc'[t] \in {"scanning", "passed"}
           /\ \E s \in todo[t] : db' = Without({s}) /\ todo'[t] = todo[t] \ {s}
  <2>1. PICK r \in todo[t] : db' = Without({r}) /\ todo'[t] = todo[t] \ {r}
    BY <1>9
  <2>2. S = Slots /\ Cleared(t, Slots \ todo[t])
    BY <1>2, <1>9 DEF Clearing
  <2>3. \A s \in Slots \ todo[t] : Gone(s)
    BY <1>4, <1>9, <2>2
  <2>4. r \in Slots /\ db'[r] = Empty
    BY <2>1 DEF Without, Core, TypeOK
  <2>. QED  BY <1>3, <1>9, <2>1, <2>2, <2>3, <2>4 DEF Gone
<1>10. CASE \/ Doing(t, {"destroy"}) /\ pc[t] = "scanning" /\ pc'[t] = "passed" /\ todo'[t] = todo[t]
            \/ Doing(t, {"destroy"}) /\ pc[t] = "passed" /\ pc'[t] = "ok" /\ todo[t] = {}
  <2>1. S = Slots /\ Cleared(t, Slots \ todo[t])
    BY <1>2, <1>10 DEF Clearing
  <2>2. \A s \in Slots \ todo[t] : Gone(s)
    BY <1>4, <1>10, <2>1
  <2>. QED  BY <1>10, <2>1, <2>2 DEF Gone
<1>. QED  BY <1>5, <1>6, <1>7, <1>8, <1>9, <1>10, DestroySteps

LEMMA ClearingStep ==
    ASSUME Core, Next, Tabled, NEW t \in Tasks, Clearing(t)
    PROVE  Clearing(t)' /\ DestroyRight(t)'
<1>0. UNCHANGED <<backend, call>>
  BY NextCases DEF Core
<1>1. In(call[t].coll)' = In(call[t].coll)
  BY <1>0 DEF In
<1>2. CASE Still(t)
  <2>1. window'[t] # Unwatched => pc'[t] \notin Ended
    BY <1>2, AnswersNow DEF Still
  <2>2. DestroyRight(t)'
    BY <2>1 DEF DestroyRight, Answers, Done, At, Ended, Unwatched
  <2>. QED  BY <1>2, <2>2, ClearingStill
<1>3. CASE OwnStep(t) /\ Legal(t)
  <2>. DEFINE Gone(s) == Present(before'[t][s]) => db'[s] # before'[t][s]
  <2>0. pc[t] \notin Ended
    BY <1>3 DEF Legal, Ordered
  <2>1. ASSUME Doing(t, {"destroy_collection"})
        PROVE  /\ pc'[t] = "scanning" => \A s \in In(call[t].coll) \ todo'[t] : Gone(s)
               /\ pc'[t] = "deleting" => \A s \in In(call[t].coll) \ todo'[t] : Present(seen'[t][s]) \/ Gone(s)
               /\ pc'[t] = "ok" => \A s \in Slots : s[1] = call[t].coll => Gone(s)
    <3>1. {s \in Slots : Doing(t, {"destroy"}) \/ s[1] = call[t].coll} = In(call[t].coll)
      BY <2>1 DEF In, Doing
    <3>2. Doing(t, {"destroy_collection", "destroy"})
      BY <2>1 DEF Doing
    <3>3. \A s \in Slots : s[1] = call[t].coll => s \in In(call[t].coll)
      BY DEF In
    <3>. QED  BY <1>3, <2>0, <3>1, <3>2, <3>3, ClearingOwn
  <2>2. ASSUME Doing(t, {"destroy"})
        PROVE  /\ pc'[t] \in {"scanning", "passed"} => \A s \in Slots \ todo'[t] : Gone(s)
               /\ pc'[t] = "ok" => \A s \in Slots : Gone(s)
    <3>1. {s \in Slots : Doing(t, {"destroy"}) \/ s[1] = call[t].coll} = Slots
      BY <2>2
    <3>2. Doing(t, {"destroy_collection", "destroy"})
      BY <2>2 DEF Doing
    <3>. QED  BY <1>3, <2>0, <3>1, <3>2, ClearingOwn
  <2>3. Clearing(t)'
    BY <1>0, <1>1, <2>1, <2>2 DEF Clearing, Cleared, At, Doing, Present
  <2>4. DestroyRight(t)'
    BY <1>0, <2>1, <2>2 DEF DestroyRight, Answers, Done, Cleared, At, Doing, Present
  <2>. QED  BY <2>3, <2>4
<1>. QED  BY <1>2, <1>3, MovesItself DEF Core

\* When destroy_collection or destroy reports success, nothing that was there when it was called
\* still is, although Redis deletes in rounds, with any calls between them.
THEOREM DestroyedIsGone ==
    Spec => []DestroyedGone
<1>. DEFINE Inv == Tabled /\ \A t \in Tasks : Clearing(t) /\ DestroyRight(t)
<1>1. Init => Inv
  <2>1. Init => Tabled
    <3>. SUFFICES ASSUME Init, ~OnRedis, ~SqlTableThere PROVE db = Nothing
      BY DEF Tabled
    <3>1. made \in MadeFor(backend)
      BY DEF Init
    <3>2. backend \in {"sqlite", "duckdb", "postgres"}
      BY BackendsAssumption DEF Init, StoreInit, OnRedis
    <3>. QED  BY <3>1, <3>2 DEF MadeFor, SqlTableThere
  <2>. QED  BY <2>1 DEF Init, StoreInit, Clearing, DestroyRight, Answers, Done, At
<1>2. Core /\ Inv /\ [Next]_vars => Inv'
  <2>. SUFFICES ASSUME Core, Inv, [Next]_vars
                PROVE  Inv'
    OBVIOUS
  <2>1. CASE Next
    BY <2>1, TabledStep, ClearingStep
  <2>2. CASE UNCHANGED vars
    <3>1. Tabled'
      BY <2>2 DEF vars, serverVars, Tabled, OnRedis, SqlTableThere, Nothing, Empty
    <3>2. ASSUME NEW t \in Tasks
          PROVE  (Clearing(t) <=> Clearing(t)') /\ (DestroyRight(t) <=> DestroyRight(t)')
      BY <2>2 DEF vars, serverVars, clientVars, taskVars, Clearing, DestroyRight, Cleared, Answers, Done, At, Doing,
                  In, Present
    <3>. QED  BY <3>1, <3>2
  <2>. QED  BY <2>1, <2>2
<1>3. Inv => DestroyedGone
  BY DEF DestroyRight, DestroyedGone, Cleared
<1>. QED  BY <1>1, <1>2, <1>3, CoreAlways, PTL DEF Spec

\* What a call reports is done: a write that succeeds has stored its entries and one that is
\* rejected none, what destroy, destroy_collection and cull report as gone is gone.
THEOREM EffectsAreDone ==
    Spec => []EffectsDone
<1>1. PutsLand /\ RejectedStoreNothing /\ DestroyedGone /\ CullComplete => EffectsDone
  BY DEF EffectsDone
<1>. QED  BY <1>1, PutsDoLand, RejectedCallsStoreNothing, DestroyedIsGone, CullsAreComplete, PTL
=============================================================================
