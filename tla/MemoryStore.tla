---------------------------- MODULE MemoryStore ----------------------------
(***************************************************************************)
(* The memory backend (store/memory/store.rs) over its change feed         *)
(* (MemoryFeed).  Tasks are the callers' futures: any number of them run   *)
(* the store's operations at once, and each operation is the sequence of   *)
(* steps its awaits and locks cut it into:                                 *)
(*                                                                         *)
(*   setup      waiting for the setup_complete lock;                       *)
(*   seeding    holding it, one seed collection after the other;           *)
(*   create     entry(collection).or_default(), then the entry's expiry    *)
(*              and its revision token are made;                           *)
(*   ready      a read: look the collection up and answer;                 *)
(*              a mutation: wait for mutation_lock, then change the map;   *)
(*   recording  holding mutation_lock, one record_change after the other;  *)
(*   clearing   destroy, holding mutation_lock, one shard after the other. *)
(*                                                                         *)
(* A value is identified with the revision token of the write that stored  *)
(* it; tokens are numbers handed out in order, 0 is none.  Time is a       *)
(* counter, and a TTL a number of its ticks.                               *)
(***************************************************************************)
EXTENDS MemoryFeed, Integers, FiniteSets

CONSTANTS
    Tasks,          \* futures calling the store
    NoTask,         \* nobody holds the lock
    Operations,     \* the operations the tasks call
    MaxEntries,     \* max_entries_per_collection, or NoLimit
    NoLimit,        \* max_entries_per_collection is None
    Seed,           \* the collection and key of every seed item
    Ttls,           \* the TTLs tasks pass; see ValidTtl
    MaxBatch,       \* bound on the length of put_many and delete_many
    MaxCalls,       \* bound on the calls made ...
    MaxRivals,      \* ... and on those made beyond it, which expect what a rival expects
    MaxTime,        \* bound on the clock
    MayFail,        \* the operating system's randomness may fail
    MayCancel       \* a caller may drop its future (TimeoutWrapper does)

ASSUME TasksAssumption == NoTask \notin Tasks
ASSUME LimitAssumption == NoLimit \notin Nat /\ MaxEntries \in Nat \cup {NoLimit}
ASSUME SeedAssumption == Seed \subseteq Collections \X Keys
ASSUME CollectionsAssumption == Collections # {}
ASSUME FiniteAssumption == IsFiniteSet(Collections) /\ IsFiniteSet(Keys)
ASSUME TtlsAssumption == Ttls \subseteq Int
ASSUME BoundsAssumption == {MaxBatch, MaxCalls, MaxRivals, MaxTime} \subseteq Nat
ASSUME ModesAssumption == MayFail \in BOOLEAN /\ MayCancel \in BOOLEAN

VARIABLES
    exists,         \* the collections present in the outer DashMap
    store,          \* [Collections, Keys -> Slot], the inner DashMaps
    setupComplete,  \* the flag behind the setup_complete lock
    setupLock,      \* the task holding that lock across steps
    mutationLock,   \* the task holding mutation_lock
    pc,             \* [Tasks -> Stage], the step the task's future is at
    call,           \* [Tasks -> Call], the operation it runs and its locals
    todo,           \* [Tasks -> SUBSET Collections], left of setup's or clear's loop
    pending,        \* [Tasks -> Seq(Announcement)], changes still to be recorded
    held,           \* [Tasks -> Nat], the revision token the caller last learnt
    outcome,        \* [Tasks -> Outcome], how the last call ended
    tokens,         \* number of revision tokens made by Revision::fresh
    now,            \* the clock
    calls,          \* number of calls made
    seedTokens,     \* history variable: tokens of seeded entries
    mirror,         \* history variable: keys a reader of the whole feed believes in
    wins,           \* history variable: expected tokens of conditional writes that applied
    destroyedAt     \* history variable: the feed's revision when destroy last returned

mapVars == <<exists, store>>
lockVars == <<setupComplete, setupLock, mutationLock>>
taskVars == <<pc, call, todo, pending, held, outcome>>
ghostVars == <<seedTokens, mirror, wins, destroyedAt>>
storeVars == <<mapVars, lockVars, taskVars, tokens, now, calls, ghostVars>>
vars == <<feedVars, storeVars>>

-----------------------------------------------------------------------------
(* Entries *)

NoExpiry == 0
NoTtl == 0

\* RevisionedEntry, or an empty slot.
Slot == [token : Nat, expires : Nat]
Empty == [token |-> 0, expires |-> NoExpiry]

\* Mutant: the TTL is used unchecked.
AnyTtl(ttl) == TRUE

\* ManagedEntry::expiration_at: NoTtl stands for None, and a negative number for
\* every TTL it rejects (not finite, not positive, out of range).
ValidTtl(ttl) == ttl >= 0
ExpirationAt(ttl) == IF ttl = NoTtl THEN NoExpiry ELSE now + ttl

\* ManagedEntry::is_expired
IsExpired(e) == e.expires # NoExpiry /\ e.expires <= now

Present(c, k) == store[<<c, k>>].token # 0
Live(c, k) == Present(c, k) /\ ~IsExpired(store[<<c, k>>])

-----------------------------------------------------------------------------
(* Calls *)

Reads == {"get", "ttl", "get_many", "ttl_many", "get_with_revision", "keys"}
Storing == {"put", "put_many", "compare_and_swap"}
Batched == {"get_many", "ttl_many", "put_many", "delete_many"}
Keyed == {"get", "ttl", "get_with_revision", "put", "delete", "compare_and_swap",
          "compare_and_delete"}
Whole == {"collections", "cull", "destroy"}
AllOperations == Batched \cup Keyed \cup Whole \cup {"keys", "destroy_collection"}

ASSUME OperationsAssumption == Operations \subseteq AllOperations

Stage == {"idle", "setup", "seeding", "create", "ready", "recording", "clearing"}
Outcome == {"pending", "ok", "conflict", "missing", "rejected", "failed", "cancelled"}
Announcement == [collection : Collections, key : Keys, operation : ChangeOperation]

\* base: the last token made before this call's own; expires: its entry's expiry.
CallFields == [op : AllOperations, collection : Collections, keys : Seq(Keys), ttl : Int,
               expected : Nat, base : Nat, expires : Nat]
Call ==
    {fields \in CallFields :
        /\ fields.op \in Keyed => Len(fields.keys) = 1
        /\ fields.op = "compare_and_delete" => fields.expected # 0}

KeyLists(op) ==
    CASE op \in Batched -> UNION {[1 .. n -> Keys] : n \in 0 .. MaxBatch}
      [] op \in Keyed -> {<<k>> : k \in Keys}
      [] OTHER -> {<<>>}

\* A caller expects nothing, or the token it last learnt.
Expectations(t, op) ==
    CASE op = "compare_and_swap" -> {0, held[t]}
      [] op = "compare_and_delete" -> {held[t]} \ {0}
      [] OTHER -> {0}

\* What a task may call next (the collection of a Whole operation is not used).
Requests(t, op) ==
    [op : {op},
     collection : IF op \in Whole THEN {CHOOSE c \in Collections : TRUE} ELSE Collections,
     keys : KeyLists(op),
     ttl : IF op \in Storing THEN Ttls ELSE {NoTtl},
     expected : Expectations(t, op), base : {0}, expires : {NoExpiry}]

TokensNeeded(request) == IF request.op \in Storing THEN Len(request.keys) ELSE 0

Goto(t, stage) == pc' = [pc EXCEPT ![t] = stage]
Answer(t, result) == outcome' = [outcome EXCEPT ![t] = result]

Init ==
    /\ FeedInit
    /\ exists = {}
    /\ store = [at \in Collections \X Keys |-> Empty]
    /\ setupComplete = FALSE
    /\ setupLock = NoTask
    /\ mutationLock = NoTask
    /\ pc = [t \in Tasks |-> "idle"]
    /\ call = [t \in Tasks |-> [op |-> "cull", collection |-> CHOOSE c \in Collections : TRUE,
                                keys |-> <<>>, ttl |-> NoTtl, expected |-> 0, base |-> 0,
                                expires |-> NoExpiry]]
    /\ todo = [t \in Tasks |-> {}]
    /\ pending = [t \in Tasks |-> <<>>]
    /\ held = [t \in Tasks |-> 0]
    /\ outcome = [t \in Tasks |-> "ok"]
    /\ tokens = 0
    /\ now = 0
    /\ calls = 0
    /\ seedTokens = {}
    /\ mirror = [at \in Collections \X Keys |-> FALSE]
    /\ wins = <<>>
    /\ destroyedAt = 0

\* Another task's last call expects the same revision.
Rival(t, request) ==
    request.expected # 0 /\ \E u \in Tasks \ {t} : call[u].expected = request.expected

\* A caller starts an operation.  cull and destroy do not run setup; put_many and
\* compare_and_swap validate the TTL before anything else.  A caller that has dropped
\* a future makes no other call.
Begin(t) ==
    /\ pc[t] = "idle" /\ outcome[t] # "cancelled"
    /\ senderAlive
    /\ calls' = calls + 1
    /\ \E op \in Operations : \E request \in Requests(t, op) :
          /\ calls < IF Rival(t, request) THEN MaxCalls + MaxRivals ELSE MaxCalls
          /\ op \in {"put_many", "compare_and_swap"} => ValidTtl(request.ttl)
          /\ call' = [call EXCEPT ![t] = request]
          /\ Goto(t, IF op \in {"cull", "destroy"} THEN "ready" ELSE "setup")
    /\ Answer(t, "pending")
    /\ UNCHANGED <<feedVars, mapVars, lockVars, todo, pending, held, tokens, now, ghostVars>>

\* BatchSizeMismatch, or a TTL refused up front.
Reject(t) ==
    /\ pc[t] = "idle" /\ outcome[t] # "cancelled"
    /\ senderAlive
    /\ Operations \cap {"put_many", "compare_and_swap"} # {}
    /\ Answer(t, "rejected")
    /\ UNCHANGED <<feedVars, mapVars, lockVars, pc, call, todo, pending, held, tokens, now,
                   calls, ghostVars>>

-----------------------------------------------------------------------------
(* Collections *)

\* One collection's DashMap, and the store with that collection replaced.
Column(c) == [k \in Keys |-> store[<<c, k>>]]
WithColumn(c, col) == [at \in Collections \X Keys |-> IF at[1] = c THEN col[at[2]] ELSE store[at]]
Without(col, dropped) == [k \in Keys |-> IF k \in dropped THEN Empty ELSE col[k]]

LapsedKeys(col) == {k \in Keys : col[k].token # 0 /\ IsExpired(col[k])}
LiveKeys(col) == {k \in Keys : col[k].token # 0 /\ ~IsExpired(col[k])}

\* Mutant: the loop runs while len >= max - 1, so one entry too many stays.
SurplusOneShort(col) ==
    {k \in LiveKeys(col) : Cardinality({j \in LiveKeys(col) : j > k}) > MaxEntries}

\* The smallest live keys, as many as there are too many.
Surplus(col) ==
    {k \in LiveKeys(col) : Cardinality({j \in LiveKeys(col) : j > k}) >= MaxEntries}

\* enforce_capacity: what it removes, expired entries first.
EnforceCapacity(col) ==
    IF MaxEntries = NoLimit THEN {} ELSE LapsedKeys(col) \cup Surplus(col)

\* The orders in which a DashMap may visit a set of keys, and the ascending one.
Listings(S) ==
    {seq \in [1 .. Cardinality(S) -> S] : \A x \in S : \E i \in 1 .. Cardinality(S) : seq[i] = x}
Ascending(S) ==
    {seq \in Listings(S) : \A i, j \in 1 .. Cardinality(S) : i < j => seq[i] < seq[j]}

\* Mutant: entries dropped because they expired are not listed.
RemovalsWithoutLapsed(col) ==
    IF MaxEntries = NoLimit THEN {<<>>} ELSE Ascending(Surplus(col))

\* The orders in which enforce_capacity lists what it removed.
Removals(col) ==
    IF MaxEntries = NoLimit THEN {<<>>}
    ELSE {part[1] \o part[2] : part \in Listings(LapsedKeys(col)) \X Ascending(Surplus(col))}

\* The announcements of one operation on a list of keys.
Announce(c, keys, op) ==
    [i \in 1 .. Len(keys) |-> [collection |-> c, key |-> keys[i], operation |-> op]]

\* delete, delete_many, compare_and_swap and compare_and_delete keep a reference
\* into the outer map while they record, which shuts out whoever needs to insert.
Guarded(c) ==
    \E t \in Tasks :
        /\ pc[t] = "recording"
        /\ call[t].op \in {"delete", "delete_many", "compare_and_swap", "compare_and_delete"}
        /\ call[t].collection = c

\* Mutant: setup waits for mutation_lock before it inserts.
MayInsertUnlocked(c) == ~Guarded(c) /\ mutationLock = NoTask

\* Inserting a collection needs a write lock on its shard, and nothing else.
MayInsert(c) == ~Guarded(c)

-----------------------------------------------------------------------------
(* setup and setup_collection *)

AfterSetup(op) == IF op \in {"collections", "destroy_collection"} THEN "ready" ELSE "create"

SetupAlreadyComplete(t) ==
    /\ pc[t] = "setup"
    /\ setupLock = NoTask
    /\ setupComplete
    /\ Goto(t, AfterSetup(call[t].op))
    /\ UNCHANGED <<feedVars, mapVars, lockVars, call, todo, pending, held, outcome, tokens, now,
                   calls, ghostVars>>

SetupBegin(t) ==
    /\ pc[t] = "setup"
    /\ setupLock = NoTask
    /\ ~setupComplete
    /\ setupLock' = t
    /\ todo' = [todo EXCEPT ![t] = {item[1] : item \in Seed}]
    /\ Goto(t, "seeding")
    /\ UNCHANGED <<feedVars, mapVars, setupComplete, mutationLock, call, pending, held, outcome,
                   tokens, now, calls, ghostVars>>

SeedKeys(c) == {k \in Keys : <<c, k>> \in Seed}

\* The collection after the seed items of some of its keys were inserted.
Seeded(c, ks) ==
    [k \in Keys |-> IF k \in ks
                      THEN [token |-> tokens + Cardinality({j \in ks : j <= k}), expires |-> NoExpiry]
                      ELSE store[<<c, k>>]]

NewTokens(n) == tokens + 1 .. tokens + n

\* One seed collection: its items are inserted and the capacity enforced, while
\* the collection is locked.  Nothing is recorded in the feed.
SeedCollection(t, c) ==
    LET col == Seeded(c, SeedKeys(c))
        n == Cardinality(SeedKeys(c))
    IN
    /\ pc[t] = "seeding"
    /\ c \in todo[t]
    /\ MayInsert(c)
    /\ exists' = exists \cup {c}
    /\ store' = WithColumn(c, Without(col, EnforceCapacity(col)))
    /\ tokens' = tokens + n
    /\ seedTokens' = seedTokens \cup NewTokens(n)
    /\ todo' = [todo EXCEPT ![t] = @ \ {c}]
    /\ UNCHANGED <<feedVars, lockVars, pc, call, pending, held, outcome, now, calls, mirror, wins,
                   destroyedAt>>

\* Randomness fails in the middle of a seed collection: the items before it stay.
SeedFails(t, c) ==
    /\ MayFail
    /\ pc[t] = "seeding"
    /\ c \in todo[t]
    /\ MayInsert(c)
    /\ \E ks \in SUBSET SeedKeys(c) :
          /\ ks # SeedKeys(c)
          /\ exists' = exists \cup {c}
          /\ store' = WithColumn(c, Seeded(c, ks))
          /\ tokens' = tokens + Cardinality(ks)
          /\ seedTokens' = seedTokens \cup NewTokens(Cardinality(ks))
    /\ setupLock' = NoTask
    /\ todo' = [todo EXCEPT ![t] = {}]
    /\ Goto(t, "idle")
    /\ Answer(t, "failed")
    /\ UNCHANGED <<feedVars, setupComplete, mutationLock, call, pending, held, now, calls, mirror,
                   wins, destroyedAt>>

SetupDone(t) ==
    /\ pc[t] = "seeding"
    /\ todo[t] = {}
    /\ setupComplete' = TRUE
    /\ setupLock' = NoTask
    /\ Goto(t, AfterSetup(call[t].op))
    /\ UNCHANGED <<feedVars, mapVars, mutationLock, call, todo, pending, held, outcome, tokens, now,
                   calls, ghostVars>>

\* entry(collection).or_default(), and what the call does before it takes
\* mutation_lock: the entry's expiry and the revision tokens.
CreateCollection(t) ==
    LET request == call[t] IN
    /\ pc[t] = "create"
    /\ MayInsert(request.collection)
    /\ ValidTtl(request.ttl)
    /\ exists' = exists \cup {request.collection}
    /\ call' = [call EXCEPT ![t].base = tokens, ![t].expires = ExpirationAt(request.ttl)]
    /\ tokens' = tokens + TokensNeeded(request)
    /\ Goto(t, "ready")
    /\ UNCHANGED <<feedVars, store, lockVars, todo, pending, held, outcome, now, calls, ghostVars>>

\* put refuses the TTL only now; Revision::fresh may fail.
PrepareFails(t) ==
    LET request == call[t] IN
    /\ pc[t] = "create"
    /\ MayInsert(request.collection)
    /\ \/ ~ValidTtl(request.ttl) /\ Answer(t, "rejected")
       \/ ValidTtl(request.ttl) /\ TokensNeeded(request) > 0 /\ MayFail /\ Answer(t, "failed")
    /\ exists' = exists \cup {request.collection}
    /\ Goto(t, "idle")
    /\ UNCHANGED <<feedVars, store, lockVars, call, todo, pending, held, tokens, now, calls,
                   ghostVars>>

-----------------------------------------------------------------------------
(* Reads: get_collection, then the answer; no await in between *)

ReadCollection(t, op) ==
    /\ pc[t] = "ready"
    /\ call[t].op = op
    /\ Goto(t, "idle")
    /\ Answer(t, IF call[t].collection \in exists THEN "ok" ELSE "missing")
    /\ UNCHANGED <<feedVars, mapVars, lockVars, call, todo, pending, tokens, now, calls, ghostVars>>

Get(t) == ReadCollection(t, "get") /\ UNCHANGED held
Ttl(t) == ReadCollection(t, "ttl") /\ UNCHANGED held
GetMany(t) == ReadCollection(t, "get_many") /\ UNCHANGED held
TtlMany(t) == ReadCollection(t, "ttl_many") /\ UNCHANGED held
ListKeys(t) == ReadCollection(t, "keys") /\ UNCHANGED held

\* The caller learns the token of the live entry, read together with its value.
GetWithRevision(t) ==
    LET c == call[t].collection
        k == call[t].keys[1]
    IN  /\ ReadCollection(t, "get_with_revision")
        /\ held' = [held EXCEPT ![t] = IF Live(c, k) THEN store[<<c, k>>].token ELSE 0]

ListCollections(t) ==
    /\ pc[t] = "ready"
    /\ call[t].op = "collections"
    /\ Goto(t, "idle")
    /\ Answer(t, "ok")
    /\ UNCHANGED <<feedVars, mapVars, lockVars, call, todo, pending, held, tokens, now, calls,
                   ghostVars>>

-----------------------------------------------------------------------------
(* Mutations: they wait for mutation_lock, change the map, and record *)

\* Mutant: the map is changed without mutation_lock.
CommitUnlocked(t, op) ==
    /\ pc[t] = "ready"
    /\ call[t].op = op

Commit(t, op) ==
    /\ pc[t] = "ready"
    /\ call[t].op = op
    /\ mutationLock = NoTask

\* The map is changed; the lock is kept until the announcements are recorded.
Record(t, announcements) ==
    /\ mutationLock' = t
    /\ pending' = [pending EXCEPT ![t] = announcements]
    /\ Goto(t, "recording")
    /\ UNCHANGED <<feedVars, setupComplete, setupLock, call, todo, tokens, now, calls, seedTokens,
                   mirror, destroyedAt>>

\* The call ends without a change to record.
Leave(t, result) ==
    /\ Goto(t, "idle")
    /\ Answer(t, result)
    /\ UNCHANGED <<feedVars, lockVars, call, todo, pending, tokens, now, calls, ghostVars>>

\* The collection after the call's keys were inserted in order, each with its own
\* token: a key listed twice keeps the later one.
Inserted(t) ==
    LET keys == call[t].keys
        IsLast(i, k) == keys[i] = k /\ \A j \in DOMAIN keys : keys[j] = k => j <= i
    IN  [k \in Keys |->
            IF \E i \in DOMAIN keys : IsLast(i, k)
              THEN [token |-> call[t].base + (CHOOSE i \in DOMAIN keys : IsLast(i, k)),
                    expires |-> call[t].expires]
              ELSE store[<<call[t].collection, k>>]]

\* put and put_many share this step.  If the collection has been destroyed since
\* the call created it, nothing is stored, and the changes are recorded all the
\* same.
Insert(t) ==
    LET c == call[t].collection
        puts == Announce(c, call[t].keys, "Put")
    IN
    /\ \/ /\ c \in exists
          /\ store' = WithColumn(c, Without(Inserted(t), EnforceCapacity(Inserted(t))))
          /\ \E removed \in Removals(Inserted(t)) :
                Record(t, puts \o Announce(c, removed, "Delete"))
       \/ /\ c \notin exists
          /\ UNCHANGED store
          /\ Record(t, puts)
    /\ Answer(t, "ok")
    /\ UNCHANGED <<exists, held, wins>>

Put(t) == Commit(t, "put") /\ Insert(t)
PutMany(t) == Commit(t, "put_many") /\ Insert(t)

\* delete and delete_many remove the keys they find, in the order they were given.
Asked(t) == {call[t].keys[i] : i \in DOMAIN call[t].keys}
Found(t) == {k \in Asked(t) : Present(call[t].collection, k)}
AskedBefore(t, k, l) ==
    \E i \in DOMAIN call[t].keys :
        call[t].keys[i] = k /\ \A j \in 1 .. i : call[t].keys[j] # l
FoundInOrder(t) ==
    {seq \in Listings(Found(t)) : \A i, j \in DOMAIN seq : i < j => AskedBefore(t, seq[i], seq[j])}

\* delete and delete_many share this step.  An expired entry counts as deleted.
Remove(t) ==
    LET c == call[t].collection IN
    \/ /\ c \in exists
       /\ store' = WithColumn(c, Without(Column(c), Asked(t)))
       /\ \E keys \in FoundInOrder(t) : Record(t, Announce(c, keys, "Delete"))
       /\ Answer(t, "ok")
       /\ UNCHANGED <<exists, held, wins>>
    \/ /\ c \notin exists
       /\ Leave(t, "missing")
       /\ UNCHANGED <<mapVars, held>>

Delete(t) == Commit(t, "delete") /\ Remove(t)
DeleteMany(t) == Commit(t, "delete_many") /\ Remove(t)

\* Mutant: an entry has to be there, of whatever revision.
MatchesLive(slot, expected) ==
    (expected # 0) = (slot.token # 0 /\ ~IsExpired(slot))

\* The condition of compare_and_swap: the expected token is the live entry's, or
\* none is expected and there is no live entry.
MatchesExpected(slot, expected) ==
    expected = (IF slot.token # 0 /\ ~IsExpired(slot) THEN slot.token ELSE 0)

\* Mutant: an update keeps the revision it matched.
KeptToken(t) == IF call[t].expected = 0 THEN call[t].base + 1 ELSE call[t].expected

\* The token of the write candidate, made before the lock was taken.
NewRevision(t) == call[t].base + 1

\* compare_and_swap.  A new entry replaces the slot when the condition holds (the
\* capacity is not enforced).  Otherwise an expired entry is removed, without a
\* record, and the caller learns the live entry's token.
CompareAndSwap(t) ==
    LET c == call[t].collection
        k == call[t].keys[1]
        new == [token |-> NewRevision(t), expires |-> call[t].expires]
        expected == call[t].expected
    IN
    /\ Commit(t, "compare_and_swap")
    /\ UNCHANGED exists
    /\ \/ /\ c \in exists
          /\ MatchesExpected(store[<<c, k>>], expected)
          /\ store' = [store EXCEPT ![<<c, k>>] = new]
          /\ Record(t, Announce(c, <<k>>, "Put"))
          /\ Answer(t, "ok")
          /\ held' = [held EXCEPT ![t] = new.token]
          /\ wins' = IF expected = 0 THEN wins ELSE Append(wins, expected)
       \/ /\ c \in exists
          /\ ~MatchesExpected(store[<<c, k>>], expected)
          /\ store' = IF Live(c, k) THEN store ELSE [store EXCEPT ![<<c, k>>] = Empty]
          /\ Leave(t, "conflict")
          /\ held' = [held EXCEPT ![t] = IF Live(c, k) THEN store[<<c, k>>].token ELSE 0]
       \/ /\ c \notin exists
          /\ Leave(t, "missing")
          /\ UNCHANGED <<store, held>>

\* compare_and_delete, likewise.
CompareAndDelete(t) ==
    LET c == call[t].collection
        k == call[t].keys[1]
        expected == call[t].expected
    IN
    /\ Commit(t, "compare_and_delete")
    /\ UNCHANGED exists
    /\ \/ /\ c \in exists
          /\ MatchesExpected(store[<<c, k>>], expected)
          /\ store' = [store EXCEPT ![<<c, k>>] = Empty]
          /\ Record(t, Announce(c, <<k>>, "Delete"))
          /\ Answer(t, "ok")
          /\ wins' = Append(wins, expected)
          /\ UNCHANGED held
       \/ /\ c \in exists
          /\ ~MatchesExpected(store[<<c, k>>], expected)
          /\ store' = IF Live(c, k) THEN store ELSE [store EXCEPT ![<<c, k>>] = Empty]
          /\ Leave(t, "conflict")
          /\ held' = [held EXCEPT ![t] = IF Live(c, k) THEN store[<<c, k>>].token ELSE 0]
       \/ /\ c \notin exists
          /\ Leave(t, "missing")
          /\ UNCHANGED <<store, held>>

\* cull removes every expired entry of every collection, then records them.
Cull(t) ==
    LET lapsed == {item \in Collections \X Keys :
                      Present(item[1], item[2]) /\ IsExpired(store[item])}
    IN
    /\ Commit(t, "cull")
    /\ store' = [at \in Collections \X Keys |-> IF at \in lapsed THEN Empty ELSE store[at]]
    /\ \E items \in Listings(lapsed) :
          Record(t, [i \in 1 .. Len(items) |-> [collection |-> items[i][1], key |-> items[i][2],
                                                operation |-> "Delete"]])
    /\ Answer(t, "ok")
    /\ UNCHANGED <<exists, held, wins>>

\* destroy_collection removes the collection, then records its keys, expired ones
\* included.
DestroyCollection(t) ==
    LET c == call[t].collection IN
    /\ Commit(t, "destroy_collection")
    /\ UNCHANGED held
    /\ \/ /\ c \in exists
          /\ exists' = exists \ {c}
          /\ store' = WithColumn(c, [k \in Keys |-> Empty])
          /\ \E keys \in Listings({k \in Keys : Present(c, k)}) :
                Record(t, Announce(c, keys, "Delete"))
          /\ Answer(t, "ok")
          /\ UNCHANGED wins
       \/ /\ c \notin exists
          /\ Leave(t, "ok")
          /\ UNCHANGED mapVars

\* destroy clears the outer map shard by shard, and then waits for the setup lock
\* to mark the store as not set up.  It records nothing and keeps the history.
DestroyBegin(t) ==
    /\ Commit(t, "destroy")
    /\ mutationLock' = t
    /\ todo' = [todo EXCEPT ![t] = Collections]
    /\ Goto(t, "clearing")
    /\ UNCHANGED <<feedVars, mapVars, setupComplete, setupLock, call, pending, held, outcome, tokens,
                   now, calls, ghostVars>>

ClearCollection(t, c) ==
    /\ pc[t] = "clearing"
    /\ c \in todo[t]
    /\ todo' = [todo EXCEPT ![t] = @ \ {c}]
    /\ exists' = exists \ {c}
    /\ store' = WithColumn(c, [k \in Keys |-> Empty])
    /\ UNCHANGED <<feedVars, lockVars, pc, call, pending, held, outcome, tokens, now, calls,
                   ghostVars>>

DestroyDone(t) ==
    /\ pc[t] = "clearing"
    /\ todo[t] = {}
    /\ setupLock = NoTask
    /\ setupComplete' = FALSE
    /\ mutationLock' = NoTask
    /\ destroyedAt' = revision
    /\ Goto(t, "idle")
    /\ Answer(t, "ok")
    /\ UNCHANGED <<feedVars, mapVars, setupLock, call, todo, pending, held, tokens, now, calls,
                   seedTokens, mirror, wins>>

\* One record_change of the task that holds mutation_lock.
RecordNext(t) ==
    LET a == Head(pending[t]) IN
    /\ pc[t] = "recording"
    /\ pending[t] # <<>>
    /\ RecordChange(a.collection, a.key, a.operation)
    /\ pending' = [pending EXCEPT ![t] = Tail(@)]
    /\ mirror' = [mirror EXCEPT ![<<a.collection, a.key>>] = (a.operation = "Put")]
    /\ UNCHANGED <<mapVars, lockVars, pc, call, todo, held, outcome, tokens, now, calls, seedTokens,
                   wins, destroyedAt>>

\* The call returns and its guard releases mutation_lock.
Return(t) ==
    /\ pc[t] = "recording"
    /\ pending[t] = <<>>
    /\ mutationLock' = NoTask
    /\ Goto(t, "idle")
    /\ UNCHANGED <<feedVars, mapVars, setupComplete, setupLock, call, todo, pending, held, outcome,
                   tokens, now, calls, ghostVars>>

-----------------------------------------------------------------------------
(* The environment *)

\* The caller drops the future where it awaits: at a lock, or in record_change,
\* which hands control back once the task's cooperation budget is used up.
Cancel(t) ==
    /\ MayCancel
    /\ \/ pc[t] = "setup"
       \/ pc[t] = "recording" /\ pending[t] # <<>>
       \/ pc[t] = "ready" /\ call[t].op \notin Reads \cup {"collections"}
       \/ pc[t] = "clearing" /\ todo[t] = {}
    /\ Goto(t, "idle")
    /\ Answer(t, "cancelled")
    /\ pending' = [pending EXCEPT ![t] = <<>>]
    /\ mutationLock' = IF mutationLock = t THEN NoTask ELSE mutationLock
    /\ UNCHANGED <<feedVars, mapVars, setupComplete, setupLock, call, todo, held, tokens, now, calls,
                   ghostVars>>

Tick ==
    /\ now < MaxTime
    /\ now' = now + 1
    /\ UNCHANGED <<feedVars, mapVars, lockVars, taskVars, tokens, calls, ghostVars>>

\* subscribe waits for mutation_lock before it looks at the feed.
StoreSubscribe(s) ==
    /\ mutationLock = NoTask
    /\ \E start \in Starts, f \in Filters : Subscribe(s, start, f)
    /\ UNCHANGED storeVars

StreamStep(s) == (Recv(s) \/ DropStream(s)) /\ UNCHANGED storeVars

DropStore ==
    /\ \A t \in Tasks : pc[t] = "idle"
    /\ DropClient
    /\ UNCHANGED storeVars

\* What a task does once its call has begun.
Step(t) ==
    \/ SetupAlreadyComplete(t) \/ SetupBegin(t) \/ SetupDone(t)
    \/ \E c \in Collections : SeedCollection(t, c) \/ SeedFails(t, c) \/ ClearCollection(t, c)
    \/ CreateCollection(t) \/ PrepareFails(t)
    \/ Get(t) \/ Ttl(t) \/ GetMany(t) \/ TtlMany(t) \/ GetWithRevision(t)
    \/ ListKeys(t) \/ ListCollections(t)
    \/ Put(t) \/ PutMany(t) \/ Delete(t) \/ DeleteMany(t)
    \/ CompareAndSwap(t) \/ CompareAndDelete(t)
    \/ Cull(t) \/ DestroyCollection(t) \/ DestroyBegin(t) \/ DestroyDone(t)
    \/ RecordNext(t) \/ Return(t)

Next ==
    \/ \E t \in Tasks : Begin(t) \/ Reject(t) \/ Step(t) \/ Cancel(t)
    \/ \E s \in Subscribers : StoreSubscribe(s) \/ StreamStep(s)
    \/ Tick
    \/ DropStore

Spec == Init /\ [][Next]_vars

\* The runtime polls every task that can go on; the locks are first come, first
\* served.
FairSpec == Spec /\ \A t \in Tasks : WF_vars(Step(t))

-----------------------------------------------------------------------------
(* Properties *)

StoreTypeOK ==
    /\ exists \in SUBSET Collections
    /\ store \in [Collections \X Keys -> Slot]
    /\ setupComplete \in BOOLEAN
    /\ setupLock \in Tasks \cup {NoTask}
    /\ mutationLock \in Tasks \cup {NoTask}
    /\ pc \in [Tasks -> Stage]
    /\ call \in [Tasks -> Call]
    /\ todo \in [Tasks -> SUBSET Collections]
    /\ pending \in [Tasks -> Seq(Announcement)]
    /\ held \in [Tasks -> Nat]
    /\ outcome \in [Tasks -> Outcome]
    /\ tokens \in Nat /\ now \in Nat /\ calls \in Nat
    /\ seedTokens \in SUBSET Nat
    /\ mirror \in [Collections \X Keys -> BOOLEAN]
    /\ wins \in Seq(Nat)
    /\ destroyedAt \in Nat

TypeOK == FeedTypeOK /\ StoreTypeOK

\* A revision token is consumed at most once: of all the compare_and_swap and
\* compare_and_delete calls that expect the same revision, one applies, whatever
\* puts, deletes, expiries, re-creations and reseedings come in between.
ExclusiveWins == \A i, j \in DOMAIN wins : wins[i] = wins[j] => i = j

\* A token that a conditional write has consumed is in no slot, and no two slots
\* share a token: a stale revision cannot match again (compare_and_swap gives
\* every write candidate a fresh one).
SpentTokensGone ==
    /\ \A c \in Collections, k \in Keys, i \in DOMAIN wins :
          Present(c, k) => store[<<c, k>>].token # wins[i]
    /\ \A c, d \in Collections, k, l \in Keys :
          Present(c, k) /\ store[<<c, k>>].token = store[<<d, l>>].token => c = d /\ k = l

\* What a reader of the whole feed will believe once the holder of mutation_lock
\* has recorded what it still has to.
Believed(c, k) ==
    \/ \E t \in Tasks : \E i \in DOMAIN pending[t] :
          /\ pending[t][i] = [collection |-> c, key |-> k, operation |-> "Put"]
          /\ \A j \in DOMAIN pending[t] : j > i =>
                pending[t][j] # [collection |-> c, key |-> k, operation |-> "Delete"]
    \/ /\ mirror[<<c, k>>]
       /\ \A t \in Tasks : \A i \in DOMAIN pending[t] :
             pending[t][i] # [collection |-> c, key |-> k, operation |-> "Delete"]

\* An entry that a caller stored has been announced as a Put, or is about to be by
\* the task holding mutation_lock, and no later Delete contradicts it: a consumer
\* of the feed never misses an entry.  (Seeded entries are not announced.)
NoUnannouncedEntry ==
    \A c \in Collections, k \in Keys :
        Present(c, k) /\ store[<<c, k>>].token \notin seedTokens => Believed(c, k)

\* NoUnannouncedEntry, as long as no caller has dropped its future between the change of the
\* map and record_change (store.rs:190-196).
AnnouncedUnlessDropped == (\A t \in Tasks : outcome[t] # "cancelled") => NoUnannouncedEntry

\* Without seeds, conditional writes and destroys: when no mutation is under way,
\* the consumer of the feed believes in exactly the keys the maps hold, expired
\* ones included; eviction, cull and delete report everything they remove.
MirrorExact ==
    mutationLock = NoTask =>
        \A c \in Collections, k \in Keys : mirror[<<c, k>>] = Present(c, k)

\* No collection holds more entries than max_entries_per_collection.
CapacityRespected ==
    MaxEntries # NoLimit =>
        \A c \in Collections : Cardinality({k \in Keys : Present(c, k)}) <= MaxEntries

\* Every call returns: no task waits for ever on setup_complete, mutation_lock or
\* a shard of the map, whoever else is at work.
CallsReturn == \A t \in Tasks : pc[t] # "idle" ~> pc[t] = "idle"

\* protocol.rs on get: "Returns `None` if the key is not found or has expired."
ReadsDoNotFail ==
    \A t \in Tasks : call[t].op \in Reads /\ pc[t] = "idle" => outcome[t] # "missing"

\* change.rs on StoreChange: a "record describing one successful KV mutation".
\* Without TTLs and destroy, a key last reported as Put is there.
NoPhantomPut ==
    mutationLock = NoTask => \A c \in Collections, k \in Keys : mirror[<<c, k>>] => Present(c, k)

\* protocol.rs on AsyncChangeFeed: "TTL expiry is not reported as a change".
ExpiryNotReported == \A t \in Tasks : call[t].op = "cull" => pending[t] = <<>>

\* protocol.rs on AsyncChangeFeed: "the change history dies with the store".
HistoryDiesWithStore == \A i \in DOMAIN entries : entries[i].revision > destroyedAt
=============================================================================
