----------------------------- MODULE MemoryFeed -----------------------------
(***************************************************************************)
(* The change feed of the memory backend (store/memory/client.rs): the     *)
(* retained entries behind the `changes` mutex, the broadcast channel, and *)
(* the MemoryChangeStream of each subscriber.                              *)
(*                                                                         *)
(* The mutations themselves are MemoryStore's; here any change may be      *)
(* recorded at any time.  record_change and subscribe each run under the   *)
(* `changes` mutex without releasing it, so each is one action.  recv is a *)
(* loop; each round of it is an action, and other tasks run in between.    *)
(***************************************************************************)
EXTENDS Changes, Sequences

CONSTANTS
    Subscribers,    \* consumers of the feed
    Retention,      \* CHANGE_RETENTION
    RingCapacity,   \* what the broadcast channel holds (tokio rounds it up)
    MaxRevision     \* bound on the changes recorded

ASSUME RetentionAssumption == Retention \in Nat \ {0}
ASSUME RingAssumption == RingCapacity \in Nat \ {0}
ASSUME MaxRevisionAssumption == MaxRevision \in Nat /\ Revisions = 1 .. MaxRevision

VARIABLES
    revision,       \* MemoryChangeState.revision
    entries,        \* MemoryChangeState.entries
    senderAlive,    \* the client, and with it the broadcast sender, still exists
    stream,         \* [Subscribers -> MemoryChangeStream], see Streams
    history,        \* history variable: every change ever recorded
    asked,          \* history variable: where each stream was asked to start
    begin,          \* history variable: the position it started at
    delivered,      \* history variable: the revisions recv returned
    lost            \* history variable: the revisions Lagged errors stood for

feedVars == <<revision, entries, senderAlive, stream, history, asked, begin, delivered, lost>>

\* open: the stream exists; next: the revision the broadcast receiver reads next.
Streams == [open : BOOLEAN, replay : Seq(StoreChange), next : Nat, filter : ChangeFilter]

NoStream == [open |-> FALSE, replay |-> <<>>, next |-> 1, filter |-> DefaultFilter]

FeedInit ==
    /\ revision = 0
    /\ entries = <<>>
    /\ senderAlive = TRUE
    /\ stream = [s \in Subscribers |-> NoStream]
    /\ history = <<>>
    /\ asked = [s \in Subscribers |-> DefaultStart]
    /\ begin = [s \in Subscribers |-> 0]
    /\ delivered = [s \in Subscribers |-> {}]
    /\ lost = [s \in Subscribers |-> {}]

-----------------------------------------------------------------------------
(* Recording a change *)

\* Mutant: the length is compared after the push, so one entry too many is kept.
RetainOneMore(change) ==
    Append(IF Len(entries) > Retention THEN Tail(entries) ELSE entries, change)

\* Drop the oldest entry if Retention are kept, then add the new one.
Retain(change) ==
    Append(IF Len(entries) = Retention THEN Tail(entries) ELSE entries, change)

\* Mutant: the change is built before the revision is incremented.
RecordWithOldRevision(c, k, op) ==
    LET change == [revision |-> revision, collection |-> c, key |-> k, operation |-> op] IN
    /\ senderAlive
    /\ revision < MaxRevision
    /\ revision' = revision + 1
    /\ entries' = Retain(change)
    /\ history' = Append(history, change)
    /\ UNCHANGED <<senderAlive, stream, asked, begin, delivered, lost>>

\* MemoryClient::record_change.  Broadcasting needs no state of its own: the
\* receivers' positions are in `stream`, the ring is the end of the history.
RecordChange(c, k, op) ==
    LET change == [revision |-> revision + 1, collection |-> c, key |-> k, operation |-> op] IN
    /\ senderAlive
    /\ revision < MaxRevision
    /\ revision' = revision + 1
    /\ entries' = Retain(change)
    /\ history' = Append(history, change)
    /\ UNCHANGED <<senderAlive, stream, asked, begin, delivered, lost>>

-----------------------------------------------------------------------------
(* Subscribing *)

\* A cursor is rejected as invalid if it does not parse or lies in the future.
InvalidChangeCursor(start) ==
    \/ start.kind = "Malformed"
    \/ start.kind = "After" /\ start.cursor > revision

\* Mutant: the oldest entry's predecessor is taken for still replayable.
ExpiredOneLate(start) ==
    /\ start.kind = "After"
    /\ entries # <<>>
    /\ start.cursor + 1 < entries[1].revision - 1

\* Mutant: the subtraction of one is forgotten.
ExpiredOneEarly(start) ==
    /\ start.kind = "After"
    /\ entries # <<>>
    /\ start.cursor < entries[1].revision

\* ... and as expired if a change after it has left the retained entries.
ChangeCursorExpired(start) ==
    /\ start.kind = "After"
    /\ entries # <<>>
    /\ start.cursor < entries[1].revision - 1

\* The entries a cursor leaves to be replayed.  They are in the order of their
\* revisions, so those with a greater revision are a suffix.
EntriesAfter(cursor) ==
    LET n == CHOOSE n \in 0 .. Len(entries) :
                \A i \in 1 .. Len(entries) : entries[i].revision > cursor <=> i > n
    IN  SubSeq(entries, n + 1, Len(entries))

Replay(start) ==
    CASE start.kind = "Beginning" -> entries
      [] start.kind = "Latest" -> <<>>
      [] OTHER -> EntriesAfter(start.cursor)

\* The position before the first change that Replay and the receiver cover.
ReplayBase(start) ==
    CASE start.kind = "Beginning" -> revision - Len(entries)
      [] start.kind = "Latest" -> revision
      [] OTHER -> start.cursor

\* Mutant: the receiver is created too late and misses a change.
ReceiverStartLate == revision + 2

\* The broadcast receiver sees what is sent after it was created.
ReceiverStart == revision + 1

\* MemoryClient::subscribe, when it succeeds; otherwise nothing changes.
Subscribe(s, start, f) ==
    /\ senderAlive
    /\ ~stream[s].open
    /\ ~InvalidChangeCursor(start)
    /\ ~ChangeCursorExpired(start)
    /\ stream' = [stream EXCEPT ![s] =
                    [open |-> TRUE, replay |-> Replay(start), next |-> ReceiverStart, filter |-> f]]
    /\ asked' = [asked EXCEPT ![s] = start]
    /\ begin' = [begin EXCEPT ![s] = ReplayBase(start)]
    /\ delivered' = [delivered EXCEPT ![s] = {}]
    /\ lost' = [lost EXCEPT ![s] = {}]
    /\ UNCHANGED <<revision, entries, senderAlive, history>>

-----------------------------------------------------------------------------
(* MemoryChangeStream::recv *)

\* The change is returned if the filter matches, else the loop goes on.
Deliver(s, change) ==
    delivered' = IF Matches(stream[s].filter, change)
                   THEN [delivered EXCEPT ![s] = @ \cup {change.revision}]
                   ELSE delivered

\* Mutant: a change the filter rejects is looked at but not popped.
RecvReplayKeeping(s) ==
    LET change == Head(stream[s].replay) IN
    /\ stream[s].open
    /\ stream[s].replay # <<>>
    /\ Deliver(s, change)
    /\ stream' = [stream EXCEPT ![s].replay =
                    IF Matches(stream[s].filter, change) THEN Tail(@) ELSE @]
    /\ UNCHANGED <<revision, entries, senderAlive, history, asked, begin, lost>>

RecvReplay(s) ==
    /\ stream[s].open
    /\ stream[s].replay # <<>>
    /\ Deliver(s, Head(stream[s].replay))
    /\ stream' = [stream EXCEPT ![s].replay = Tail(@)]
    /\ UNCHANGED <<revision, entries, senderAlive, history, asked, begin, lost>>

\* The receiver has fallen behind by more than the ring holds.
Lagging(s) == revision >= stream[s].next + RingCapacity

\* Mutant: the channel is polled although the replay is not drained.
RecvLiveEarly(s) ==
    /\ stream[s].open
    /\ stream[s].next <= revision
    /\ ~Lagging(s)
    /\ Deliver(s, history[stream[s].next])
    /\ stream' = [stream EXCEPT ![s].next = @ + 1]
    /\ UNCHANGED <<revision, entries, senderAlive, history, asked, begin, lost>>

RecvLive(s) ==
    /\ stream[s].open
    /\ stream[s].replay = <<>>
    /\ stream[s].next <= revision
    /\ ~Lagging(s)
    /\ Deliver(s, history[stream[s].next])
    /\ stream' = [stream EXCEPT ![s].next = @ + 1]
    /\ UNCHANGED <<revision, entries, senderAlive, history, asked, begin, lost>>

\* The oldest change still in the ring.
ResumeAt(s) == revision - RingCapacity + 1

\* RecvError::Lagged: the receiver moves on to the oldest change in the ring.
RecvLagged(s) ==
    /\ stream[s].open
    /\ stream[s].replay = <<>>
    /\ Lagging(s)
    /\ lost' = [lost EXCEPT ![s] = @ \cup (stream[s].next .. ResumeAt(s) - 1)]
    /\ stream' = [stream EXCEPT ![s].next = ResumeAt(s)]
    /\ UNCHANGED <<revision, entries, senderAlive, history, asked, begin, delivered>>

\* RecvError::Closed: the sender is gone and everything sent has been received.
RecvClosed(s) ==
    /\ stream[s].open
    /\ stream[s].replay = <<>>
    /\ stream[s].next > revision
    /\ ~senderAlive
    /\ stream' = [stream EXCEPT ![s].open = FALSE]
    /\ UNCHANGED <<revision, entries, senderAlive, history, asked, begin, delivered, lost>>

Recv(s) == RecvReplay(s) \/ RecvLive(s) \/ RecvLagged(s) \/ RecvClosed(s)

\* The consumer drops its stream.
DropStream(s) ==
    /\ stream[s].open
    /\ stream' = [stream EXCEPT ![s].open = FALSE]
    /\ UNCHANGED <<revision, entries, senderAlive, history, asked, begin, delivered, lost>>

\* The last handle of the store is dropped, and the sender with it.
DropClient ==
    /\ senderAlive
    /\ senderAlive' = FALSE
    /\ UNCHANGED <<revision, entries, stream, history, asked, begin, delivered, lost>>

-----------------------------------------------------------------------------

StreamNext(s) ==
    \/ \E start \in Starts, f \in Filters : Subscribe(s, start, f)
    \/ Recv(s)
    \/ DropStream(s)

FeedNext ==
    \/ \E c \in Collections, k \in Keys, op \in ChangeOperation : RecordChange(c, k, op)
    \/ \E s \in Subscribers : StreamNext(s)
    \/ DropClient

FeedSpec == FeedInit /\ [][FeedNext]_feedVars

\* A consumer that holds a stream keeps calling recv on it.
FeedFairSpec == FeedSpec /\ \A s \in Subscribers : WF_feedVars(Recv(s))

-----------------------------------------------------------------------------
(* Properties *)

FeedTypeOK ==
    /\ revision \in 0 .. MaxRevision
    /\ entries \in Seq(StoreChange)
    /\ senderAlive \in BOOLEAN
    /\ stream \in [Subscribers -> Streams]
    /\ history \in Seq(StoreChange)
    /\ asked \in [Subscribers -> ChangeStart]
    /\ begin \in [Subscribers -> Nat]
    /\ delivered \in [Subscribers -> SUBSET Nat]
    /\ lost \in [Subscribers -> SUBSET Nat]

\* The stream has passed every change up to this one.
Passed(s) ==
    IF stream[s].replay = <<>> THEN stream[s].next - 1 ELSE stream[s].replay[1].revision - 1

\* The retained entries are the last changes recorded, without a hole, as many as
\* CHANGE_RETENTION allows (record_change pops, then pushes).
RetainedSuffix ==
    /\ Len(entries) = IF Len(history) < Retention THEN Len(history) ELSE Retention
    /\ \A i \in 1 .. Len(entries) : entries[i] = history[Len(history) - Len(entries) + i]

\* The history is numbered by the revisions, which is what a cursor relies on.
HistoryNumbered ==
    /\ Len(history) = revision
    /\ \A r \in 1 .. revision : history[r].revision = r

\* What a stream still has to replay is the stretch of the history that ends
\* where its receiver starts, so the two meet without overlap.
ReplayMeetsReceiver ==
    \A s \in Subscribers :
        LET replay == stream[s].replay
            first == stream[s].next - Len(replay)
        IN  /\ begin[s] < first
            /\ stream[s].next <= revision + 1
            /\ \A i \in 1 .. Len(replay) : replay[i] = history[first + i - 1]
            /\ lost[s] \subseteq 1 .. first - 1

\* Between the replay taken at subscribe and the broadcast receiver created with
\* it, a stream neither skips a change nor hands one over twice, and what it left
\* out it left out because of its filter or reported in a Lagged error.
NoSilentGap ==
    \A s \in Subscribers :
        delivered[s] = {r \in begin[s] + 1 .. Passed(s) :
                            r \notin lost[s] /\ Matches(stream[s].filter, history[r])}

\* A consumer sees revisions in strictly increasing order, across the end of the
\* replay and across lags (what recv returns next is newer than all it returned).
DeliveredInOrder ==
    [][\A s \in Subscribers : stream'[s].open /\ stream[s].open =>
         \A new \in delivered'[s] \ delivered[s], old \in delivered[s] : old < new]_feedVars

\* A cursor is refused as expired only if a change after it can no longer be
\* replayed: resuming after the last change received works as long as the store
\* still has what follows it.
RefusedOnlyIfGone ==
    \A start \in Starts :
        ChangeCursorExpired(start) => start.cursor < Len(history) - Retention

\* Every change recorded while a stream is open is eventually handed over, or
\* filtered out, or reported as lost, unless the consumer drops the stream.
EventuallyPassed ==
    \A s \in Subscribers, r \in Revisions :
        (stream[s].open /\ begin[s] < r /\ r <= revision)
            ~> (~stream[s].open \/ Passed(s) >= r)

\* The memory feed implements the feed the protocol promises.
Promised == INSTANCE ChangeFeed WITH
    opened <- [s \in Subscribers |-> stream[s].open],
    filter <- [s \in Subscribers |-> stream[s].filter],
    position <- [s \in Subscribers |-> Passed(s)]

\* Every step of the memory feed is a step of the promised feed, or invisible.
ImplementsChangeFeed == Promised!Spec
=============================================================================
