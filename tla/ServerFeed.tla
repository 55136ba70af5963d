----------------------------- MODULE ServerFeed ----------------------------
(***************************************************************************)
(* The change feeds that live in a server: the changes table of             *)
(* store/postgres/store.rs and the stream of store/redis/store.rs (Valkey's *)
(* is the same code).  Any change may be written at any time; what the      *)
(* backends' writes do to entries is in Postgres and Redis.                 *)
(*                                                                         *)
(* Redis writes an entry and its change in one script.  Postgres does in a  *)
(* transaction: it locks the entry's row, takes a revision from a sequence, *)
(* prunes the table, and commits; the sequence never goes back.             *)
(***************************************************************************)
EXTENDS Changes, Sequences, FiniteSets

CONSTANTS
    Feeds,          \* the backends explored
    Writers,        \* connections that write
    Subscribers,    \* consumers of the feed
    Retention,      \* change_retention
    MaxRevision     \* bound on the revisions taken

ASSUME EntriesAssumption == Collections # {} /\ Keys # {}
ASSUME FeedBounds == Retention \in Nat \ {0} /\ MaxRevision \in Nat /\ Revisions = 1 .. MaxRevision

VARIABLES
    feed,           \* the backend in use
    counter,        \* the sequence, or the revision counter
    rows,           \* SUBSET StoreChange, the changes the server shows
    txn,            \* [Writers -> Txn], Postgres's open transactions
    stream,         \* [Subscribers -> Streams], the ChangeStreams
    history,        \* history variable: all changes, in the order they took effect
    asked,          \* history variable: where each stream was asked to start
    begin,          \* history variable: the revision it started after
    delivered       \* history variable: the revisions recv returned

vars == <<feed, counter, rows, txn, stream, history, asked, begin, delivered>>
serverVars == <<counter, rows, txn, history>>

\* row: the entry's collection and key; own: the change, once it has a revision.
Txn == [stage : {"none", "locked", "recorded", "pruned"}, row : Collections \X Keys,
        operation : ChangeOperation, own : SUBSET StoreChange, gone : SUBSET StoreChange]

\* last: last_revision, or NoRevision; reply: what was read and not yet passed.
NoRevision == MaxRevision + 1
Streams == [stage : {"none", "reading", "checking", "expired", "dropped"}, cursor : Nat, last : Nat,
            reply : Seq(StoreChange), filter : ChangeFilter]
Open(s) == stream[s].stage \in {"reading", "checking"}

NoTxn == [stage |-> "none", row |-> CHOOSE r \in Collections \X Keys : TRUE, operation |-> "Put",
          own |-> {}, gone |-> {}]

Init ==
    /\ feed \in Feeds
    /\ counter = 0
    /\ rows = {}
    /\ txn = [w \in Writers |-> NoTxn]
    /\ stream = [s \in Subscribers |->
        [stage |-> "none", cursor |-> 0, last |-> 0, reply |-> <<>>, filter |-> DefaultFilter]]
    /\ history = <<>>
    /\ asked = [s \in Subscribers |-> DefaultStart]
    /\ begin = [s \in Subscribers |-> 0]
    /\ delivered = [s \in Subscribers |-> {}]

Revs(R) == {r.revision : r \in R}
Highest(R) == IF R = {} THEN 0 ELSE CHOOSE n \in Revs(R) : \A m \in Revs(R) : m <= n
Lowest(R) == CHOOSE n \in Revs(R) : \A m \in Revs(R) : n <= m

-----------------------------------------------------------------------------
(* Writing *)

Change(n, row, op) == [revision |-> n, collection |-> row[1], key |-> row[2], operation |-> op]

\* The PUT, DELETE and BULK_DELETE scripts: INCR, and XADD with MAXLEN.
RedisReport(row, op) ==
    /\ feed = "redis" /\ counter < MaxRevision
    /\ counter' = counter + 1
    /\ LET all == rows \cup {Change(counter + 1, row, op)}
       IN  rows' = {r \in all : r.revision + Retention > Highest(all)}
    /\ history' = Append(history, Change(counter + 1, row, op))
    /\ UNCHANGED <<feed, txn, stream, asked, begin, delivered>>

PgStep == UNCHANGED <<feed, stream, asked, begin, delivered>>

\* Mutant: the revision is taken without the row's lock.
PgUnlocked(w, row, op) ==
    /\ feed = "postgres" /\ txn[w].stage = "none"
    /\ txn' = [txn EXCEPT ![w] =
                [stage |-> "locked", row |-> row, operation |-> op, own |-> {}, gone |-> {}]]
    /\ UNCHANGED <<counter, rows, history>> /\ PgStep

\* INSERT ... ON CONFLICT or DELETE locks the row until the transaction ends.
PgLock(w, row, op) ==
    /\ feed = "postgres" /\ txn[w].stage = "none"
    /\ \A v \in Writers : txn[v].stage # "none" => txn[v].row # row
    /\ txn' = [txn EXCEPT ![w] =
                [stage |-> "locked", row |-> row, operation |-> op, own |-> {}, gone |-> {}]]
    /\ UNCHANGED <<counter, rows, history>> /\ PgStep

\* record_changes: INSERT takes the next revision ...
PgRecord(w) ==
    /\ txn[w].stage = "locked" /\ counter < MaxRevision
    /\ counter' = counter + 1
    /\ txn' = [txn EXCEPT ![w].stage = "recorded",
                          ![w].own = {Change(counter + 1, txn[w].row, txn[w].operation)}]
    /\ UNCHANGED <<rows, history>> /\ PgStep

\* ... and DELETE prunes what the transaction sees, waiting for others that prune the same.
PgPrune(w) ==
    /\ txn[w].stage = "recorded"
    /\ LET visible == rows \cup txn[w].own
           gone == {r \in visible : r.revision + Retention <= Highest(visible)}
       IN  /\ \A v \in Writers \ {w} : gone \cap txn[v].gone = {}
           /\ txn' = [txn EXCEPT ![w].stage = "pruned", ![w].gone = gone]
    /\ UNCHANGED <<counter, rows, history>> /\ PgStep

PgCommit(w) ==
    /\ txn[w].stage = "pruned"
    /\ rows' = (rows \cup txn[w].own) \ txn[w].gone
    /\ \E change \in txn[w].own : history' = Append(history, change)
    /\ txn' = [txn EXCEPT ![w] = NoTxn]
    /\ UNCHANGED counter /\ PgStep

\* The transaction is rolled back: a statement or the connection failed, or the call was
\* dropped.  Its revision stays taken.
PgRollback(w) ==
    /\ txn[w].stage # "none"
    /\ txn' = [txn EXCEPT ![w] = NoTxn]
    /\ UNCHANGED <<counter, rows, history>> /\ PgStep

-----------------------------------------------------------------------------
(* Subscribing *)

\* What the next change must follow on; none after Beginning.
RedisLast(start, cursor) == IF start.kind = "Beginning" THEN NoRevision ELSE cursor

Begin(s, start, f, cursor, last) ==
    /\ stream[s].stage = "none"
    /\ stream' = [stream EXCEPT ![s] =
                    [stage |-> "reading", cursor |-> cursor, last |-> last, reply |-> <<>>, filter |-> f]]
    /\ asked' = [asked EXCEPT ![s] = start]
    /\ begin' = [begin EXCEPT ![s] = cursor]
    /\ UNCHANGED <<feed, serverVars, delivered>>

StartCursor(start) ==
    CASE start.kind = "Beginning" -> 0 [] start.kind = "Latest" -> Highest(rows) [] OTHER -> start.cursor

\* A cursor in the future, or malformed, is invalid.
Invalid(start) ==
    start.kind = "Malformed" \/ (start.kind = "After" /\ start.cursor > Highest(rows))

\* One whose successor is gone has expired.
Expired(start) ==
    start.kind = "After" /\ rows # {} /\ Lowest(rows) > start.cursor + 1

\* subscribe and validate_after_cursor
RedisSubscribe(s, start, f) ==
    /\ feed = "redis" /\ ~Invalid(start) /\ ~Expired(start)
    /\ Begin(s, start, f, StartCursor(start), RedisLast(start, StartCursor(start)))

\* Postgres's 0 is the beginning, however it was asked for.
PgSubscribe(s, start, f) ==
    /\ feed = "postgres" /\ ~Invalid(start)
    /\ start.cursor > 0 => ~Expired(start)
    /\ Begin(s, start, f, StartCursor(start), NoRevision)

-----------------------------------------------------------------------------
(* Receiving *)

Newer(s) == {r \in rows : r.revision > stream[s].cursor}
Ordered(R) == CHOOSE q \in [1 .. Cardinality(R) -> R] :
                    \A i, j \in 1 .. Cardinality(R) : i < j => q[i].revision < q[j].revision

\* XREAD, which blocks until there is something; or SELECT.
Read(s) ==
    /\ stream[s].stage = "reading" /\ stream[s].reply = <<>>
    /\ feed = "redis" => Newer(s) # {}
    /\ stream' = [stream EXCEPT ![s].reply = Ordered(Newer(s)),
                                ![s].stage = IF Newer(s) = {} THEN "checking" ELSE "reading"]
    /\ UNCHANGED <<feed, serverVars, asked, begin, delivered>>

\* Mutant: any later revision will do.
NoGap(s) == FALSE

\* Mutant: the boundary is off by one.
GapEarly(s) ==
    /\ feed = "redis" /\ stream[s].last # NoRevision
    /\ Head(stream[s].reply).revision > stream[s].last

\* Redis: the next change is not the one after the last; the cursor stays.
Gap(s) ==
    /\ feed = "redis" /\ stream[s].last # NoRevision
    /\ Head(stream[s].reply).revision > stream[s].last + 1

RecvExpired(s) ==
    /\ Open(s) /\ stream[s].reply # <<>> /\ Gap(s)
    /\ stream' = [stream EXCEPT ![s].stage = "expired", ![s].reply = <<>>]
    /\ UNCHANGED <<feed, serverVars, asked, begin, delivered>>

\* Mutant: the rest of what was read is taken for passed.
PassAll(s) ==
    LET change == Head(stream[s].reply)
        end == stream[s].reply[Len(stream[s].reply)].revision
    IN
    /\ Open(s) /\ stream[s].reply # <<>> /\ ~Gap(s)
    /\ stream' = [stream EXCEPT ![s].cursor = end, ![s].last = end, ![s].reply = <<>>]
    /\ delivered' = IF Matches(stream[s].filter, change)
                      THEN [delivered EXCEPT ![s] = @ \cup {change.revision}] ELSE delivered
    /\ UNCHANGED <<feed, serverVars, asked, begin>>

\* The next change is passed.  If the filter matches, recv returns it, and what else was
\* read is forgotten; after the last of it Postgres looks at what has been pruned.
Pass(s) ==
    LET change == Head(stream[s].reply)
        hit == Matches(stream[s].filter, change)
        left == IF hit THEN <<>> ELSE Tail(stream[s].reply)
    IN
    /\ Open(s) /\ stream[s].reply # <<>> /\ ~Gap(s)
    /\ stream' = [stream EXCEPT ![s].cursor = change.revision, ![s].last = change.revision,
                    ![s].reply = left,
                    ![s].stage = IF feed = "postgres" /\ ~hit /\ left = <<>> THEN "checking" ELSE @]
    /\ delivered' = IF hit THEN [delivered EXCEPT ![s] = @ \cup {change.revision}] ELSE delivered
    /\ UNCHANGED <<feed, serverVars, asked, begin>>

\* Mutant: it waits again without reading.
PgCheckWaits(s) ==
    LET pruned == stream[s].cursor > 0 /\ rows # {} /\ Lowest(rows) > stream[s].cursor + 1 IN
    /\ stream[s].stage = "checking"
    /\ stream' = [stream EXCEPT ![s].stage = IF pruned THEN "expired" ELSE "checking"]
    /\ UNCHANGED <<feed, serverVars, asked, begin, delivered>>

\* Postgres: the oldest change left is beyond the next revision; else recv waits for a
\* notification, or a second, and reads again.
PgCheck(s) ==
    LET pruned == stream[s].cursor > 0 /\ rows # {} /\ Lowest(rows) > stream[s].cursor + 1 IN
    /\ stream[s].stage = "checking"
    /\ stream' = [stream EXCEPT ![s].stage = IF pruned THEN "expired" ELSE "reading"]
    /\ UNCHANGED <<feed, serverVars, asked, begin, delivered>>

Recv(s) == Read(s) \/ RecvExpired(s) \/ Pass(s) \/ PgCheck(s)

\* The consumer drops the stream.
Drop(s) ==
    /\ Open(s)
    /\ stream' = [stream EXCEPT ![s].stage = "dropped"]
    /\ UNCHANGED <<feed, serverVars, asked, begin, delivered>>

Next ==
    \/ \E row \in Collections \X Keys, op \in ChangeOperation :
          RedisReport(row, op) \/ \E w \in Writers : PgLock(w, row, op)
    \/ \E w \in Writers : PgRecord(w) \/ PgPrune(w) \/ PgCommit(w) \/ PgRollback(w)
    \/ \E s \in Subscribers :
          \/ \E start \in Starts, f \in Filters : RedisSubscribe(s, start, f) \/ PgSubscribe(s, start, f)
          \/ Recv(s) \/ Drop(s)

Spec == Init /\ [][Next]_vars

\* A consumer that holds a stream keeps calling recv; the server answers.
FairSpec == Spec /\ \A s \in Subscribers : WF_vars(Recv(s))

-----------------------------------------------------------------------------
(* Properties *)

\* What the variables hold.
TypeOK ==
    /\ feed \in Feeds
    /\ counter \in 0 .. MaxRevision
    /\ rows \subseteq StoreChange
    /\ txn \in [Writers -> Txn]
    /\ stream \in [Subscribers -> Streams]
    /\ history \in Seq(StoreChange)
    /\ asked \in [Subscribers -> ChangeStart]
    /\ delivered \in [Subscribers -> SUBSET Revisions]

\* The changes of one key are numbered in the order they took effect, whatever became of
\* other keys' (the row's lock is held from before the revision is taken to the commit).
KeyOrder ==
    \A i, j \in DOMAIN history :
        /\ i < j
        /\ history[i].collection = history[j].collection /\ history[i].key = history[j].key
        => history[i].revision < history[j].revision

\* Redis: ChangeCursorExpired is reported only if a change after the cursor is gone.
ExpiredIsGone ==
    \A s \in Subscribers : feed = "redis" /\ stream[s].stage = "expired" =>
        \E i \in DOMAIN history : history[i].revision > stream[s].cursor /\ history[i] \notin rows

\* A consumer that keeps calling recv passes every change the server shows, or is told
\* that it has expired.
EventuallyPassed ==
    \A s \in Subscribers, n \in Revisions :
        (Open(s) /\ n \in Revs(Newer(s))) ~> (~Open(s) \/ stream[s].cursor >= n)

\* A Redis stream asked for from the beginning starts where its first reply does.
Started(s) == stream[s].stage # "none" /\ (stream[s].last # NoRevision \/ stream[s].reply # <<>>)
Position(s) ==
    IF stream[s].last = NoRevision /\ stream[s].reply # <<>>
      THEN Head(stream[s].reply).revision - 1 ELSE stream[s].cursor

\* What the protocol promises.
Promised == INSTANCE ChangeFeed WITH
    opened <- [s \in Subscribers |-> Started(s) /\ Open(s)],
    asked <- [s \in Subscribers |-> IF Started(s) THEN asked[s] ELSE DefaultStart],
    filter <- [s \in Subscribers |-> IF Started(s) THEN stream[s].filter ELSE DefaultFilter],
    position <- [s \in Subscribers |-> IF Started(s) THEN Position(s) ELSE 0],
    lost <- [s \in Subscribers |-> {}]

\* Every step of Redis's feed is one of the feed the protocol promises, which never skips a
\* change; it never loses any, for it rather stops.
RedisKeepsPromise == [][feed = "redis" => Promised!Next \/ UNCHANGED Promised!vars]_vars

\* The protocol's "ordered, resumable mutation feed": every change between the start and
\* the cursor that the filter matches has been handed over.
NothingSkipped ==
    \A s \in Subscribers : Open(s) =>
        \A i \in DOMAIN history :
            /\ begin[s] < history[i].revision /\ history[i].revision <= stream[s].cursor
            /\ Matches(stream[s].filter, history[i])
            => history[i].revision \in delivered[s]
=============================================================================
