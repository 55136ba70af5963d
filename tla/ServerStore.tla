---------------------------- MODULE ServerStore ----------------------------
(***************************************************************************)
(* What the backends that keep their entries in a server, in files or in an *)
(* embedded database have in common.  A task is one call of a store's       *)
(* operation, with its arguments; the requests the operation makes are its  *)
(* steps, and tasks take theirs in any order.  Each request is one atomic   *)
(* step of the server.  What a request returned is the task's own copy and  *)
(* may be stale at the next one.                                            *)
(*                                                                         *)
(* A slot is a collection and a key, a document what the server keeps       *)
(* there.  A document is identified by the write that stored it: the task   *)
(* and the position of the item in its batch.                               *)
(***************************************************************************)
EXTENDS Naturals, Sequences, FiniteSets

CONSTANTS
    Tasks,          \* the calls made
    NoTask,         \* the writer of what the store held before
    Backends,       \* the backends explored
    Collections,    \* names of collections
    Slots,          \* pairs of a collection and a key
    LongKeys,       \* keys the backends' physical names cannot hold
    Calls,          \* the calls tasks may make
    Stores,         \* the contents the store may have before
    PageSize,       \* items in a page of a listing, and in a chunk of a batch
    MaxTime         \* bound on the clock

VARIABLES
    backend,        \* the backend in use
    db,             \* [Slots -> Doc], what the server holds
    made,           \* the tables, indexes or physical collections the server has set up
    known,          \* the client's record of these
    lock,           \* the task holding the lock around that record
    alien,          \* SUBSET Collections, those holding a malformed physical name
    now,            \* the clock
    call,           \* [Tasks -> Calls], the calls
    pc,             \* [Tasks -> STRING], their next step
    seen,           \* [Tasks -> [Slots -> Doc]], documents fetched or about to be stored
    todo,           \* [Tasks -> SUBSET Slots], slots left of a loop
    rest,           \* collections, or positions in a batch, left of a loop
    found,          \* [Tasks -> [Slots -> Doc]], the documents the answer is about
    names,          \* [Tasks -> SUBSET Collections], the collections the answer lists
    since,          \* [Tasks -> Nat], the time of the call's first request
    before,         \* history variable: [Tasks -> [Slots -> Doc]], db at that time
    window          \* history variable: [Tasks -> [Slots -> SUBSET Doc]], what each slot
                    \* has held since then

serverVars == <<db, made, alien>>
clientVars == <<known, lock>>
taskVars == <<pc, seen, todo, rest, found, names>>
vars == <<backend, serverVars, clientVars, now, call, taskVars, since, before, window>>

-----------------------------------------------------------------------------
(* Documents *)

NoExpiry == 0
NoTtl == 0
NoLimit == 99

\* What compare_and_swap expects to be there: nothing, or else a revision, which the write
\* that stored an entry stands for.
Absent == <<>>

\* ManagedEntry: what is told apart of an entry is the write it comes from.
Doc == [writer : (Tasks \cup {NoTask}) \X Nat, expires : Nat, sound : BOOLEAN]
Empty == [writer |-> <<NoTask, 0>>, expires |-> NoExpiry, sound |-> TRUE]
Nothing == [s \in Slots |-> Empty]

\* ManagedEntry::is_expired, on a document
ExpiredAt(d, time) == d.expires # NoExpiry /\ d.expires <= time
Expired(d) == ExpiredAt(d, now)
Present(d) == d # Empty
Live(d) == Present(d) /\ ~Expired(d)

\* The collection's slots.
In(c) == {s \in Slots : s[1] = c}

\* n of the elements of S, or all of them: what a limit lets through.
Limited(S, n) ==
    {T \in SUBSET S : Cardinality(T) = IF Cardinality(S) < n THEN Cardinality(S) ELSE n}

\* The physical collections: those set up, and those a write made on the way.
Exists(c) == c \in made \cup alien \/ \E s \in In(c) : Present(db[s])

-----------------------------------------------------------------------------
(* What the parameters may be *)

\* The writer of what was there before makes no call.
ASSUME TasksAssumption == NoTask \notin Tasks

ASSUME SlotsAssumption ==
    /\ IsFiniteSet(Collections) /\ IsFiniteSet(Slots)
    /\ \A s \in Slots : s = <<s[1], s[2]>> /\ s[1] \in Collections

\* A page of a listing holds something, if anything is there.
ASSUME BoundsAssumption == PageSize \in Nat \ {0} /\ MaxTime \in Nat

\* The arguments of an operation; some take one key, the others a list.
ASSUME CallsAssumption ==
    \A c \in Calls :
        /\ c.coll \in Collections
        /\ c.keys \in Seq({s[2] : s \in Slots} \cup LongKeys)
        /\ \A i \in DOMAIN c.keys : c.keys[i] \in LongKeys \/ <<c.coll, c.keys[i]>> \in Slots
        /\ c.op \in {"get", "ttl", "get_with_revision", "put", "delete",
                     "compare_and_swap", "compare_and_delete"} => Len(c.keys) = 1
        /\ c.ttl \in Nat /\ c.limit \in Nat

\* What the store held before no task has written.
ASSUME StoresAssumption ==
    \A st \in Stores :
        /\ st.db \in [Slots -> Doc] /\ st.alien \subseteq Collections
        /\ \A s \in Slots : st.db[s].writer[1] = NoTask

-----------------------------------------------------------------------------
(* Calls *)

Doing(t, ops) == call[t].op \in ops
Target(t) == {s \in Slots : s[1] = call[t].coll /\ \E i \in DOMAIN call[t].keys : call[t].keys[i] = s[2]}

\* The positions of a batch in which the slot's key appears, and the last of them:
\* of a key given twice, the last value is the one stored.
Positions(t, s) == {i \in DOMAIN call[t].keys : call[t].keys[i] = s[2]}
LastPosition(t, s) == CHOOSE i \in Positions(t, s) : \A j \in Positions(t, s) : j <= i

\* Mutant: a batch is taken from its end.
LastLeft(t) == CHOOSE i \in rest[t] : \A j \in rest[t] : j <= i

\* A batch taken item by item, in order: the positions left, and the slot they are at.
NextPosition(t) == CHOOSE i \in rest[t] : \A j \in rest[t] : i <= j
NextSlot(t) == <<call[t].coll, call[t].keys[NextPosition(t)]>>

TooLong(t) == \E i \in DOMAIN call[t].keys : call[t].keys[i] \in LongKeys

\* ManagedEntry::expiration_at: NoTtl stands for None and a TTL above MaxTime for
\* every TTL it rejects.
ValidTtl(ttl) == ttl <= MaxTime
ExpirationAt(ttl, time) == IF ttl = NoTtl THEN NoExpiry ELSE time + ttl

\* ManagedEntry::new and with_ttl: the entry for an item of the call.
NewDoc(t, i, time) ==
    [writer |-> <<t, i>>, expires |-> ExpirationAt(call[t].ttl, time), sound |-> TRUE]

\* Mutant: of a key given twice, the first value.
PreparedFirst(t) ==
    [s \in Slots |->
        IF s \in Target(t) THEN NewDoc(t, CHOOSE i \in Positions(t, s) : \A j \in Positions(t, s) : i <= j, now)
        ELSE Empty]

\* The entries a put or put_many prepares before its first request.
Prepared(t) ==
    [s \in Slots |-> IF s \in Target(t) THEN NewDoc(t, LastPosition(t, s), now) ELSE Empty]

Ended == {"ok", "error", "invalid", "conflict"}

\* The steps a call of some backend may be at.
Stages == {"begin"} \cup Ended \cup
    {"adding", "again", "base", "batch", "checking", "creating", "culling", "deleting", "dropping", "emptied",
     "enabling", "expiring", "fetching", "flushing", "forgetting", "handle", "indexes", "indexing", "inspecting",
     "item", "listing", "making", "members", "opening", "passed", "passing", "query", "ready", "removing",
     "scanned", "scanning", "search", "sifting", "swapping", "ttl", "validating", "verifying", "waiting", "writing"}

-----------------------------------------------------------------------------
(* Steps *)

At(t, ops, stage) == Doing(t, ops) /\ pc[t] = stage

\* The task goes on, having fetched o, with d left to do and f found so far.
Goto(t, stage, o, d, f) ==
    /\ pc' = [pc EXCEPT ![t] = stage]
    /\ seen' = [seen EXCEPT ![t] = o]
    /\ todo' = [todo EXCEPT ![t] = d]
    /\ found' = [found EXCEPT ![t] = f]

GoOn(t, stage) == Goto(t, stage, seen[t], todo[t], found[t])

\* The call returns.  What it fetched is forgotten, and its lock released.
Return(t, how) == Goto(t, how, Nothing, {}, found[t])
Answer(t, f) == Goto(t, "ok", Nothing, {}, f)

\* A step that concerns no collection as such.
Plain == UNCHANGED <<made, alien, known, lock, now, rest, names>>

\* The part of db in a set of slots.
Of(S) == [s \in Slots |-> IF s \in S THEN db[s] ELSE Empty]
\* Mutant: expired or not.
PresentOf(S) == {s \in S : Present(db[s])}
LiveOf(S) == {s \in S : Live(db[s])}
\* Mutant: an entry is kept through the instant of its expiry.
ExpiredBefore(S) == {s \in S : Present(db[s]) /\ db[s].expires # NoExpiry /\ db[s].expires < now}
ExpiredOf(S) == {s \in S : Present(db[s]) /\ Expired(db[s])}

\* db with the documents of o in the slots of S, or without any there.
Stored(S, o) == [s \in Slots |-> IF s \in S THEN o[s] ELSE db[s]]
Without(S) == [s \in Slots |-> IF s \in S THEN Empty ELSE db[s]]

\* The slots of S that still hold the document the task fetched.
Unchanged(t, S) == {s \in S : db[s] = seen[t][s]}

\* Fetching the call's keys at once, to answer with what is live and then delete what is
\* expired (stage "expiring").  Unless everything fetched decodes, the call fails.
Fetch(t, decoded) ==
    LET S == Target(t) IN
    IF decoded
      THEN Goto(t, IF ExpiredOf(S) = {} THEN "ok" ELSE "expiring", Of(S), ExpiredOf(S),
                [s \in Slots |-> IF s \in LiveOf(S) THEN db[s] ELSE found[t][s]])
      ELSE Return(t, "error")

\* A request fails, or the caller drops the call's future: what was done stays.
Fail(t) ==
    /\ pc[t] \notin Ended
    /\ Return(t, "error")
    /\ lock' = IF lock = t THEN NoTask ELSE lock
    /\ UNCHANGED <<serverVars, known, now, rest, names>>

Tick ==
    /\ now < MaxTime
    /\ now' = now + 1
    /\ UNCHANGED <<serverVars, clientVars, taskVars>>

\* The server's own expiry (a TTL index, native TTL): any time after the entry's.
ServerExpires ==
    /\ \E s \in Slots : Present(db[s]) /\ Expired(db[s]) /\ db' = Without({s})
    /\ UNCHANGED <<made, alien, clientVars, now, taskVars>>

\* When the call began, and what each slot held while it ran, until it has returned.
Unwatched == [s \in Slots |-> {}]

Watch ==
    LET Begins(t) == pc[t] = "begin" /\ pc'[t] # "begin" IN
    /\ since' = [t \in Tasks |-> IF Begins(t) THEN now ELSE IF pc[t] \in Ended THEN 0 ELSE since[t]]
    /\ before' = [t \in Tasks |-> IF Begins(t) THEN db ELSE IF pc[t] \in Ended THEN Nothing ELSE before[t]]
    /\ window' = [t \in Tasks |->
            IF pc[t] \in Ended \/ pc'[t] = "begin" THEN Unwatched
            ELSE [s \in Slots |-> window[t][s] \cup {db[s], db'[s]}]]

StoreInit ==
    /\ backend \in Backends
    /\ \E st \in Stores : db = st.db /\ alien = st.alien
    /\ known = {}
    /\ lock = NoTask
    /\ now = 0
    /\ call \in [Tasks -> Calls]
    /\ pc = [t \in Tasks |-> "begin"]
    /\ seen = [t \in Tasks |-> Nothing]
    /\ todo = [t \in Tasks |-> {}]
    /\ rest = [t \in Tasks |-> {}]
    /\ found = [t \in Tasks |-> Nothing]
    /\ names = [t \in Tasks |-> {}]
    /\ since = [t \in Tasks |-> 0]
    /\ before = [t \in Tasks |-> Nothing]
    /\ window = [t \in Tasks |-> Unwatched]

-----------------------------------------------------------------------------
(* What every store owes its callers *)

\* What the variables hold.
TypeOK ==
    /\ backend \in Backends
    /\ db \in [Slots -> Doc]
    /\ lock \in Tasks \cup {NoTask}
    /\ alien \subseteq Collections
    /\ now \in 0 .. MaxTime
    /\ call \in [Tasks -> Calls]
    /\ pc \in [Tasks -> Stages]
    /\ seen \in [Tasks -> [Slots -> Doc]] /\ found \in [Tasks -> [Slots -> Doc]]
    /\ todo \in [Tasks -> SUBSET Slots]
    /\ names \in [Tasks -> SUBSET Collections]
    /\ rest \in [Tasks -> SUBSET (Collections \cup Nat)]
    /\ since \in [Tasks -> 0 .. MaxTime]
    /\ before \in [Tasks -> [Slots -> Doc]]
    /\ window \in [Tasks -> [Slots -> SUBSET Doc]]
    /\ \A t \in Tasks : rest[t] \subseteq Collections \/ rest[t] \subseteq DOMAIN call[t].keys

\* The call has reported success; it has just done so.
Done(t, ops) == At(t, ops, "ok")
Answers(t, ops) == Done(t, ops) /\ window[t] # Unwatched

Reads == {"get", "ttl", "get_many", "ttl_many", "get_with_revision"}
Writes == {"put", "put_many"}
Deletes == {"delete", "delete_many"}
Removers == Deletes \cup {"destroy_collection", "destroy", "compare_and_delete"}

\* The task takes this step.
Acts(t) == <<pc, seen, todo, rest, found, names>>' # <<pc, seen, todo, rest, found, names>>
    /\ (pc'[t] # pc[t] \/ seen'[t] # seen[t] \/ todo'[t] # todo[t] \/ rest'[t] # rest[t]
        \/ found'[t] # found[t] \/ names'[t] # names[t])

\* A live entry leaves the store through a call that deletes or destroys; no read, cull
\* or enumeration takes it along, though the one it replaced had expired (the clean-up
\* of expired entries in get, get_many, keys and cull).
LiveKept ==
    \A s \in Slots :
        Live(db[s]) /\ ~ExpiredAt(db[s], now') /\ db'[s] = Empty => \E t \in Tasks : Doing(t, Removers) /\ Acts(t)

\* What a read answers was in the store, live, while the call ran; and it answers None
\* only for a key that was absent or expired at some time during it (get, ttl,
\* get_many, ttl_many).
ReadsCurrent ==
    \A t \in Tasks : Answers(t, Reads) => \A s \in Target(t) :
        IF Present(found[t][s])
          THEN found[t][s] \in window[t][s] /\ ~ExpiredAt(found[t][s], since[t])
          ELSE \E d \in window[t][s] : ~Live(d)

\* A put or put_many that reports success has stored every entry, of a repeated key the
\* last one and none other to stay (put, put_many).
PutsLand ==
    \A t \in Tasks : Answers(t, Writes) => \A s \in Target(t) :
        /\ \E d \in window[t][s] : d.writer = <<t, LastPosition(t, s)>>
        /\ db[s].writer[1] = t => db[s].writer[2] = LastPosition(t, s)

\* A call rejected for its arguments has stored nothing, not even the items of the batch
\* that were in order (put_many).
RejectedStoreNothing ==
    \A t \in Tasks : pc[t] = "invalid" => \A s \in Slots : db[s].writer[1] # t

\* Of two calls that report an entry as deleted, one is wrong (delete, delete_many).
DeletedOnce(t, u) ==
    \A s \in Slots : Present(found[t][s]) => found[t][s] # found[u][s]

\* When destroy_collection or destroy reports success, nothing that was there when it
\* was called still is.
DestroyedGone ==
    \A t \in Tasks : Answers(t, {"destroy_collection", "destroy"}) =>
        \A s \in Slots : (Doing(t, {"destroy"}) \/ s[1] = call[t].coll) /\ Present(before[t][s])
                            => db[s] # before[t][s]

\* A key listed by keys was in the collection, unexpired, while the call ran, and one that
\* was so all the time is listed, unless the limit is reached.
KeysExact(t) ==
    /\ \A s \in Slots : Present(found[t][s]) =>
            found[t][s] \in window[t][s] /\ ~ExpiredAt(found[t][s], since[t])
    /\ Cardinality({s \in Slots : Present(found[t][s])}) < call[t].limit =>
            \A s \in In(call[t].coll) :
                (\A d \in window[t][s] : Live(d)) => Present(found[t][s])

\* A collection that held a live entry all the time collections ran is listed, unless the
\* limit is reached.
CollectionsComplete ==
    \A t \in Tasks : Answers(t, {"collections"}) /\ Cardinality(names[t]) < call[t].limit =>
        \A s \in Slots : (\A d \in window[t][s] : Live(d)) => s[1] \in names[t]

\* What had expired when cull was called is gone when it reports success.
CullComplete ==
    \A t \in Tasks : Answers(t, {"cull"}) =>
        \A s \in Slots : Present(before[t][s]) /\ ExpiredAt(before[t][s], since[t])
                            => db[s] # before[t][s]
=============================================================================
