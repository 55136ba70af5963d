------------------------- MODULE MemoryStoreProofs -------------------------
(***************************************************************************)
(* The memory backend, for every set of tasks, operations, subscribers,    *)
(* limits, seeds and bounds.                                               *)
(*                                                                         *)
(* First its change feed, by itself: it keeps what AsyncChangeFeed         *)
(* promises.  FeedInv is the inductive invariant: the retained entries are *)
(* a suffix of a history numbered by the revisions, and what a stream has  *)
(* left to replay is the stretch of that history ending where its receiver *)
(* starts.                                                                 *)
(*                                                                         *)
(* Then the backend as a whole: its state stays well formed, its steps are *)
(* steps of the feed (so that what is shown of the feed holds of the       *)
(* store), a revision token is consumed at most once, what is stored is    *)
(* announced unless a caller drops its future, the feed mirrors the map    *)
(* under plain use, and collections keep their limit.                      *)
(***************************************************************************)
EXTENDS MemoryStore, FiniteSetTheorems, SequenceTheorems, TLAPS

FeedInv ==
    /\ FeedTypeOK
    /\ HistoryNumbered
    /\ RetainedSuffix
    /\ ReplayMeetsReceiver
    /\ NoSilentGap

\* The position a stream has passed, in terms of its receiver and its replay.
LEMMA PassedIs ==
    ASSUME FeedTypeOK, HistoryNumbered, ReplayMeetsReceiver, NEW s \in Subscribers
    PROVE  /\ Passed(s) = stream[s].next - Len(stream[s].replay) - 1
           /\ Passed(s) \in Nat
           /\ Len(stream[s].replay) \in Nat
           /\ stream[s].next \in Nat
           /\ begin[s] \in Nat
           /\ begin[s] <= Passed(s)
           /\ Passed(s) <= revision
<1>1. stream[s] \in Streams /\ begin[s] \in Nat /\ revision \in Nat
  BY MaxRevisionAssumption DEF FeedTypeOK
<1>2. stream[s].next \in Nat /\ stream[s].replay \in Seq(StoreChange)
      /\ Len(stream[s].replay) \in Nat
  BY <1>1 DEF Streams
<1>3. /\ begin[s] < stream[s].next - Len(stream[s].replay)
      /\ stream[s].next <= revision + 1
      /\ \A i \in 1 .. Len(stream[s].replay) :
            stream[s].replay[i] = history[stream[s].next - Len(stream[s].replay) + i - 1]
  BY DEF ReplayMeetsReceiver
<1>4. CASE stream[s].replay = <<>>
  <2>1. Len(stream[s].replay) = 0
    BY <1>4
  <2>. QED  BY <1>1, <1>2, <1>3, <1>4, <2>1 DEF Passed
<1>5. CASE stream[s].replay # <<>>
  <2>1. Len(stream[s].replay) > 0
    BY <1>2, <1>5
  <2>2. stream[s].replay[1] = history[stream[s].next - Len(stream[s].replay)]
    BY <1>2, <1>3, <2>1
  <2>3. stream[s].next - Len(stream[s].replay) \in 1 .. revision
    BY <1>1, <1>2, <1>3, <2>1
  <2>4. stream[s].replay[1].revision = stream[s].next - Len(stream[s].replay)
    BY <2>2, <2>3 DEF HistoryNumbered
  <2>. QED  BY <1>1, <1>2, <1>3, <1>5, <2>1, <2>3, <2>4 DEF Passed
<1>. QED  BY <1>4, <1>5

\* A new MemoryClient, with no change recorded and no stream, satisfies the invariant.
LEMMA FeedInitially == FeedInit => FeedInv
<1>. SUFFICES ASSUME FeedInit PROVE FeedInv
  OBVIOUS
<1>. USE DEF FeedInit, NoStream, DefaultStart, DefaultFilter
<1>1. FeedTypeOK
  BY MaxRevisionAssumption DEF FeedTypeOK, Streams, ChangeStart, ChangeFilter
<1>2. HistoryNumbered /\ RetainedSuffix
  BY RetentionAssumption DEF HistoryNumbered, RetainedSuffix
<1>3. ReplayMeetsReceiver
  BY DEF ReplayMeetsReceiver
<1>4. NoSilentGap
  BY DEF NoSilentGap, Passed
<1>. QED  BY <1>1, <1>2, <1>3, <1>4 DEF FeedInv

-----------------------------------------------------------------------------
(* One lemma per action: it preserves FeedInv *)

\* The dropped entry is the oldest, so the retained ones stay a suffix; what the
\* streams have passed or will replay is not disturbed by what is appended.
LEMMA RecordKeepsInv ==
    ASSUME FeedInv, NEW c \in Collections, NEW k \in Keys, NEW op \in ChangeOperation,
           RecordChange(c, k, op)
    PROVE  FeedInv'
<1>. DEFINE change == [revision |-> revision + 1, collection |-> c, key |-> k, operation |-> op]
            kept == IF Len(entries) = Retention THEN Tail(entries) ELSE entries
<1>. USE DEF FeedInv
<1>1. /\ revision \in Nat /\ revision < MaxRevision /\ revision' = revision + 1
      /\ entries \in Seq(StoreChange) /\ history \in Seq(StoreChange)
      /\ Len(entries) \in Nat /\ Len(history) = revision
  BY MaxRevisionAssumption DEF RecordChange, FeedTypeOK, HistoryNumbered
<1>2. change \in StoreChange
  BY <1>1, MaxRevisionAssumption DEF StoreChange
<1>3. /\ history' = Append(history, change)
      /\ entries' = Append(kept, change)
      /\ UNCHANGED <<senderAlive, stream, asked, begin, delivered, lost>>
  BY DEF RecordChange, Retain
<1>4. /\ history' \in Seq(StoreChange)
      /\ Len(history') = revision + 1
      /\ history'[revision + 1] = change
      /\ \A r \in 1 .. revision : history'[r] = history[r]
  BY <1>1, <1>2, <1>3
<1>5. HistoryNumbered'
  <2>. SUFFICES ASSUME NEW r \in 1 .. revision + 1 PROVE history'[r].revision = r
    BY <1>1, <1>4 DEF HistoryNumbered
  <2>1. CASE r = revision + 1
    BY <1>4, <2>1
  <2>2. CASE r # revision + 1
    BY <1>1, <1>4, <2>2 DEF HistoryNumbered
  <2>. QED  BY <2>1, <2>2
<1>6. /\ kept \in Seq(StoreChange)
      /\ Len(kept) \in Nat
      /\ Len(kept) = IF revision < Retention THEN revision ELSE Retention - 1
      /\ \A i \in 1 .. Len(kept) : kept[i] = history[revision - Len(kept) + i]
  <2>0. Len(entries) = (IF revision < Retention THEN revision ELSE Retention)
        /\ \A i \in 1 .. Len(entries) : entries[i] = history[revision - Len(entries) + i]
    BY <1>1 DEF RetainedSuffix
  <2>1. CASE Len(entries) = Retention
    <3>1. entries # <<>> /\ kept = Tail(entries)
      BY <2>1, RetentionAssumption
    <3>2. /\ kept \in Seq(StoreChange) /\ Len(kept) = Len(entries) - 1
          /\ \A i \in 1 .. Len(kept) : kept[i] = entries[i + 1]
      BY <1>1, <3>1
    <3>. HIDE DEF kept
    <3>3. revision >= Retention /\ Len(kept) = Retention - 1 /\ Len(kept) \in Nat
      BY <1>1, <2>0, <2>1, <3>2, RetentionAssumption
    <3>4. ASSUME NEW i \in 1 .. Len(kept)
          PROVE  kept[i] = history[revision - Len(kept) + i]
      <4>1. /\ i + 1 \in 1 .. Len(entries)
            /\ revision - Len(entries) + (i + 1) = revision - Len(kept) + i
        BY <1>1, <2>1, <3>2, <3>3
      <4>. QED  BY <2>0, <3>2, <4>1
    <3>. QED  BY <1>1, <3>2, <3>3, <3>4, RetentionAssumption
  <2>2. CASE Len(entries) # Retention
    <3>1. kept = entries
      BY <2>2
    <3>. HIDE DEF kept
    <3>. QED  BY <1>1, <2>0, <2>2, <3>1, RetentionAssumption
  <2>. QED  BY <2>1, <2>2
<1>. HIDE DEF kept
<1>7. /\ entries' \in Seq(StoreChange)
      /\ Len(entries') = Len(kept) + 1
      /\ entries'[Len(kept) + 1] = change
      /\ \A i \in 1 .. Len(kept) : entries'[i] = kept[i]
  BY <1>2, <1>3, <1>6
<1>8. RetainedSuffix'
  <2>1. Len(entries') = IF Len(history') < Retention THEN Len(history') ELSE Retention
    BY <1>1, <1>4, <1>6, <1>7, RetentionAssumption
  <2>2. ASSUME NEW i \in 1 .. Len(entries')
        PROVE  entries'[i] = history'[Len(history') - Len(entries') + i]
    <3>1. CASE i = Len(kept) + 1
      BY <1>1, <1>4, <1>6, <1>7, <3>1
    <3>2. CASE i # Len(kept) + 1
      <4>1. i \in 1 .. Len(kept)
        BY <1>6, <1>7, <3>2
      <4>2. revision - Len(kept) + i \in 1 .. revision
        BY <1>1, <1>6, <4>1, RetentionAssumption
      <4>. QED  BY <1>1, <1>4, <1>6, <1>7, <4>1, <4>2
    <3>. QED  BY <3>1, <3>2
  <2>. QED  BY <2>1, <2>2 DEF RetainedSuffix
<1>9. FeedTypeOK'
  BY <1>1, <1>3, <1>4, <1>7, MaxRevisionAssumption DEF FeedTypeOK
<1>10. ReplayMeetsReceiver'
  <2>. SUFFICES ASSUME NEW s \in Subscribers
                PROVE  LET replay == stream[s].replay
                           first == stream[s].next - Len(replay)
                       IN  /\ begin[s] < first
                           /\ stream[s].next <= revision' + 1
                           /\ \A i \in 1 .. Len(replay) : replay[i] = history'[first + i - 1]
                           /\ lost[s] \subseteq 1 .. first - 1
    BY <1>3 DEF ReplayMeetsReceiver
  <2>1. /\ begin[s] < stream[s].next - Len(stream[s].replay)
        /\ stream[s].next <= revision + 1
        /\ \A i \in 1 .. Len(stream[s].replay) :
              stream[s].replay[i] = history[stream[s].next - Len(stream[s].replay) + i - 1]
        /\ lost[s] \subseteq 1 .. stream[s].next - Len(stream[s].replay) - 1
    BY DEF ReplayMeetsReceiver
  <2>2. stream[s].next \in Nat /\ Len(stream[s].replay) \in Nat /\ begin[s] \in Nat
    BY PassedIs
  <2>3. ASSUME NEW i \in 1 .. Len(stream[s].replay)
        PROVE  stream[s].replay[i] = history'[stream[s].next - Len(stream[s].replay) + i - 1]
    <3>1. stream[s].next - Len(stream[s].replay) + i - 1 \in 1 .. revision
      <4>. DEFINE n == stream[s].next
                  l == Len(stream[s].replay)
      <4>1. n \in Nat /\ l \in Nat /\ begin[s] \in Nat /\ begin[s] < n - l /\ n <= revision + 1
            /\ revision \in Nat /\ i \in 1 .. l
        BY <1>1, <2>1, <2>2
      <4>. HIDE DEF n, l
      <4>2. n - l + i - 1 \in 1 .. revision
        BY <4>1
      <4>. QED  BY <4>2 DEF n, l
    <3>. QED  BY <1>4, <2>1, <3>1
  <2>. QED  BY <1>1, <2>1, <2>2, <2>3
<1>11. NoSilentGap'
  <2>. SUFFICES ASSUME NEW s \in Subscribers
                PROVE  delivered[s] = {r \in begin[s] + 1 .. Passed(s) :
                            r \notin lost[s] /\ Matches(stream[s].filter, history'[r])}
    BY <1>3 DEF NoSilentGap, Passed
  <2>1. begin[s] \in Nat /\ Passed(s) \in Nat /\ Passed(s) <= revision
    BY PassedIs
  <2>2. \A r \in begin[s] + 1 .. Passed(s) : history'[r] = history[r]
    BY <1>1, <1>4, <2>1
  <2>. QED  BY <2>2 DEF NoSilentGap
<1>. QED  BY <1>5, <1>8, <1>9, <1>10, <1>11

\* What ReplayMeetsReceiver and NoSilentGap say of one stream.
First(st) == st.next - Len(st.replay)

Meets(st, b, l) ==
    /\ b < First(st)
    /\ st.next <= revision + 1
    /\ \A i \in 1 .. Len(st.replay) : st.replay[i] = history[First(st) + i - 1]
    /\ l \subseteq 1 .. First(st) - 1

GapFree(st, b, d, l) ==
    d = {r \in b + 1 .. First(st) - 1 : r \notin l /\ Matches(st.filter, history[r])}

\* The invariant says of every stream that it is in order, and nothing else of it.
LEMMA EachStream ==
    ASSUME FeedInv, NEW s \in Subscribers
    PROVE  /\ stream[s] \in Streams /\ asked[s] \in ChangeStart /\ begin[s] \in Nat
           /\ delivered[s] \in SUBSET Nat /\ lost[s] \in SUBSET Nat
           /\ Meets(stream[s], begin[s], lost[s])
           /\ GapFree(stream[s], begin[s], delivered[s], lost[s])
<1>1. /\ stream[s] \in Streams /\ asked[s] \in ChangeStart /\ begin[s] \in Nat
      /\ delivered[s] \in SUBSET Nat /\ lost[s] \in SUBSET Nat
  BY DEF FeedInv, FeedTypeOK
<1>2. Meets(stream[s], begin[s], lost[s])
  BY DEF FeedInv, ReplayMeetsReceiver, Meets, First
<1>3. Passed(s) = First(stream[s]) - 1
  BY PassedIs DEF FeedInv, First
<1>4. GapFree(stream[s], begin[s], delivered[s], lost[s])
  BY <1>3 DEF FeedInv, NoSilentGap, GapFree
<1>. QED  BY <1>1, <1>2, <1>4

\* A step that leaves the recorded changes alone and turns one subscriber's stream
\* into st preserves FeedInv if st is in order.
LEMMA StreamStepKeepsInv ==
    ASSUME FeedInv, NEW s \in Subscribers,
           NEW st \in Streams, NEW a \in ChangeStart, NEW b \in Nat,
           NEW d \in SUBSET Nat, NEW l \in SUBSET Nat,
           UNCHANGED <<revision, entries, senderAlive, history>>,
           stream' = [stream EXCEPT ![s] = st],
           asked' = [asked EXCEPT ![s] = a],
           begin' = [begin EXCEPT ![s] = b],
           delivered' = [delivered EXCEPT ![s] = d],
           lost' = [lost EXCEPT ![s] = l],
           Meets(st, b, l), GapFree(st, b, d, l)
    PROVE  FeedInv'
<1>1. FeedTypeOK'
  BY DEF FeedInv, FeedTypeOK
<1>2. HistoryNumbered' /\ RetainedSuffix'
  BY DEF FeedInv, HistoryNumbered, RetainedSuffix
<1>3. ASSUME NEW u \in Subscribers
      PROVE  /\ Meets(stream'[u], begin'[u], lost'[u])
             /\ GapFree(stream'[u], begin'[u], delivered'[u], lost'[u])
  <2>1. CASE u = s
    BY <2>1 DEF FeedInv, FeedTypeOK
  <2>2. CASE u # s
    <3>1. /\ stream'[u] = stream[u] /\ begin'[u] = begin[u] /\ lost'[u] = lost[u]
          /\ delivered'[u] = delivered[u]
      BY <2>2 DEF FeedInv, FeedTypeOK
    <3>. QED  BY <3>1, EachStream
  <2>. QED  BY <2>1, <2>2
<1>4. ReplayMeetsReceiver'
  BY <1>3 DEF ReplayMeetsReceiver, Meets, First
<1>5. NoSilentGap'
  <2>. SUFFICES ASSUME NEW u \in Subscribers
                PROVE  delivered'[u] = {r \in begin'[u] + 1 .. Passed(u)' :
                          r \notin lost'[u] /\ Matches(stream'[u].filter, history'[r])}
    BY DEF NoSilentGap
  <2>1. Passed(u)' = First(stream'[u]) - 1
    <3>. DEFINE sv == stream'[u]
    <3>1. sv \in Streams
      BY <1>1 DEF FeedTypeOK
    <3>2. sv.next \in Nat /\ sv.replay \in Seq(StoreChange) /\ Len(sv.replay) \in Nat
      BY <3>1 DEF Streams
    <3>3. Passed(u)' = IF sv.replay = <<>> THEN sv.next - 1 ELSE sv.replay[1].revision - 1
      BY DEF Passed
    <3>4. Meets(sv, begin'[u], lost'[u]) /\ begin'[u] \in Nat /\ revision \in Nat
      BY <1>1, <1>3, MaxRevisionAssumption DEF FeedTypeOK, FeedInv
    <3>. HIDE DEF sv
    <3>5. Passed(u)' = First(sv) - 1
      <4>1. CASE sv.replay = <<>>
        BY <3>2, <3>3, <4>1 DEF First
      <4>2. CASE sv.replay # <<>>
        <5>1. Len(sv.replay) > 0
          BY <3>2, <4>2
        <5>2. First(sv) \in 1 .. revision
          BY <3>2, <3>4, <5>1 DEF First, Meets
        <5>3. sv.replay[1] = history[First(sv)]
          BY <3>2, <3>4, <5>1, <5>2 DEF Meets
        <5>4. history[First(sv)].revision = First(sv)
          BY <5>2 DEF FeedInv, HistoryNumbered
        <5>. QED  BY <3>3, <4>2, <5>3, <5>4
      <4>. QED  BY <4>1, <4>2
    <3>. QED  BY <3>5 DEF sv
  <2>. QED  BY <1>3, <2>1 DEF GapFree
<1>. QED  BY <1>1, <1>2, <1>4, <1>5 DEF FeedInv

\* Passing one more change, and delivering it if it matches, leaves no gap.
LEMMA PassOne ==
    ASSUME NEW st \in Streams, NEW next \in Streams, NEW b \in Nat, NEW d \in SUBSET Nat,
           NEW l \in SUBSET Nat,
           revision \in Nat, Meets(st, b, l), GapFree(st, b, d, l),
           next.filter = st.filter, First(next) = First(st) + 1
    PROVE  GapFree(next, b,
                   IF Matches(st.filter, history[First(st)]) THEN d \cup {First(st)} ELSE d, l)
<1>. DEFINE f == First(st)
<1>1. f \in Nat /\ b < f /\ f \notin l
  <2>1. st.next \in Nat /\ Len(st.replay) \in Nat
    BY DEF Streams
  <2>. QED  BY <2>1 DEF Meets, First
<1>2. d = {r \in b + 1 .. f - 1 : r \notin l /\ Matches(st.filter, history[r])}
  BY DEF GapFree
<1>3. First(next) - 1 = f
  BY <1>1
<1>. HIDE DEF f
<1>4. b + 1 .. f = (b + 1 .. f - 1) \cup {f}
  BY <1>1
<1>5. {r \in b + 1 .. f : r \notin l /\ Matches(st.filter, history[r])}
        = IF Matches(st.filter, history[f]) THEN d \cup {f} ELSE d
  <2>. DEFINE P(r) == Matches(st.filter, history[r])
  <2>1. d = {r \in b + 1 .. f - 1 : r \notin l /\ P(r)}
    BY <1>2
  <2>. HIDE DEF P
  <2>2. {r \in b + 1 .. f : r \notin l /\ P(r)} = IF P(f) THEN d \cup {f} ELSE d
    BY <1>1, <1>4, <2>1
  <2>. QED  BY <2>2 DEF P
<1>6. GapFree(next, b, IF Matches(st.filter, history[f]) THEN d \cup {f} ELSE d, l)
  BY <1>3, <1>5 DEF GapFree
<1>. QED  BY <1>6 DEF f

\* The head of the replay is the change right after what the stream has passed.
LEMMA ReplayKeepsInv ==
    ASSUME FeedInv, NEW s \in Subscribers, RecvReplay(s)
    PROVE  FeedInv'
<1>. DEFINE st == stream[s]
            rest == [st EXCEPT !.replay = Tail(@)]
            d == IF Matches(st.filter, history[First(st)])
                   THEN delivered[s] \cup {First(st)} ELSE delivered[s]
<1>1. /\ st \in Streams /\ asked[s] \in ChangeStart /\ begin[s] \in Nat
      /\ delivered[s] \in SUBSET Nat /\ lost[s] \in SUBSET Nat
      /\ Meets(st, begin[s], lost[s]) /\ GapFree(st, begin[s], delivered[s], lost[s])
  BY EachStream
<1>2. st.next \in Nat /\ st.replay \in Seq(StoreChange) /\ st.replay # <<>>
      /\ Len(st.replay) \in Nat /\ Len(st.replay) > 0 /\ revision \in Nat
  BY <1>1, MaxRevisionAssumption DEF RecvReplay, Streams, FeedInv, FeedTypeOK
<1>3. /\ rest \in Streams /\ rest.filter = st.filter /\ rest.next = st.next
      /\ rest.replay = Tail(st.replay) /\ Len(rest.replay) = Len(st.replay) - 1
      /\ \A i \in 1 .. Len(rest.replay) : rest.replay[i] = st.replay[i + 1]
  <2>. DEFINE old == st.replay
  <2>1. old \in Seq(StoreChange) /\ old # <<>>
    BY <1>2
  <2>. HIDE DEF old
  <2>2. /\ Tail(old) \in Seq(StoreChange) /\ Len(Tail(old)) = Len(old) - 1
        /\ \A i \in 1 .. Len(Tail(old)) : Tail(old)[i] = old[i + 1]
    BY <2>1
  <2>3. Tail(st.replay) \in Seq(StoreChange)
    BY <2>2 DEF old
  <2>4. /\ rest \in Streams /\ rest.filter = st.filter /\ rest.next = st.next
        /\ rest.replay = Tail(st.replay)
    BY <1>1, <2>3 DEF Streams
  <2>. QED  BY <2>2, <2>4 DEF old
<1>. HIDE DEF rest
<1>4. First(st) \in 1 .. revision
  BY <1>1, <1>2 DEF First, Meets
<1>5. First(rest) = First(st) + 1
  BY <1>2, <1>3 DEF First
<1>6. Head(st.replay) = history[First(st)]
  <2>1. st.replay[1] = history[First(st) + 1 - 1]
    BY <1>1, <1>2 DEF Meets
  <2>. QED  BY <1>2, <1>4, <2>1
<1>7. history[First(st)].revision = First(st)
  BY <1>4 DEF FeedInv, HistoryNumbered
<1>8. Meets(rest, begin[s], lost[s])
  <2>1. begin[s] < First(rest) /\ rest.next <= revision + 1
        /\ lost[s] \subseteq 1 .. First(rest) - 1
    BY <1>1, <1>3, <1>4, <1>5 DEF Meets
  <2>2. ASSUME NEW i \in 1 .. Len(rest.replay)
        PROVE  rest.replay[i] = history[First(rest) + i - 1]
    <3>1. i + 1 \in 1 .. Len(st.replay) /\ First(rest) + i - 1 = First(st) + (i + 1) - 1
      BY <1>2, <1>3, <1>4, <1>5
    <3>. QED  BY <1>1, <1>3, <3>1 DEF Meets
  <2>. QED  BY <2>1, <2>2 DEF Meets
<1>9. GapFree(rest, begin[s], d, lost[s])
  BY <1>1, <1>2, <1>3, <1>5, PassOne
<1>10. d \in SUBSET Nat
  BY <1>1, <1>4
<1>11. /\ stream' = [stream EXCEPT ![s] = rest]
       /\ delivered' = [delivered EXCEPT ![s] = d]
       /\ asked' = [asked EXCEPT ![s] = asked[s]]
       /\ begin' = [begin EXCEPT ![s] = begin[s]]
       /\ lost' = [lost EXCEPT ![s] = lost[s]]
       /\ UNCHANGED <<revision, entries, senderAlive, history>>
  BY <1>6, <1>7 DEF RecvReplay, Deliver, rest, FeedInv, FeedTypeOK
<1>. HIDE DEF d
<1>. QED  BY <1>1, <1>3, <1>8, <1>9, <1>10, <1>11, StreamStepKeepsInv

\* With the replay drained, the receiver's next change is the one after what the
\* stream has passed.
LEMMA LiveKeepsInv ==
    ASSUME FeedInv, NEW s \in Subscribers, RecvLive(s)
    PROVE  FeedInv'
<1>. DEFINE st == stream[s]
            rest == [st EXCEPT !.next = @ + 1]
            d == IF Matches(st.filter, history[First(st)])
                   THEN delivered[s] \cup {First(st)} ELSE delivered[s]
<1>1. /\ st \in Streams /\ asked[s] \in ChangeStart /\ begin[s] \in Nat
      /\ delivered[s] \in SUBSET Nat /\ lost[s] \in SUBSET Nat
      /\ Meets(st, begin[s], lost[s]) /\ GapFree(st, begin[s], delivered[s], lost[s])
  BY EachStream
<1>2. st.next \in Nat /\ st.replay = <<>> /\ Len(st.replay) = 0 /\ st.next <= revision
      /\ revision \in Nat
  BY <1>1, MaxRevisionAssumption DEF RecvLive, Streams, FeedInv, FeedTypeOK
<1>3. /\ rest \in Streams /\ rest.filter = st.filter /\ rest.next = st.next + 1
      /\ rest.replay = <<>> /\ Len(rest.replay) = 0
  BY <1>1, <1>2 DEF Streams
<1>. HIDE DEF rest
<1>4. First(st) = st.next /\ First(rest) = First(st) + 1
  BY <1>2, <1>3 DEF First
<1>5. First(st) \in 1 .. revision
  BY <1>1, <1>2, <1>4 DEF Meets
<1>6. history[First(st)].revision = First(st)
  BY <1>5 DEF FeedInv, HistoryNumbered
<1>7. Meets(rest, begin[s], lost[s])
  BY <1>1, <1>2, <1>3, <1>4, <1>5 DEF Meets
<1>8. GapFree(rest, begin[s], d, lost[s])
  BY <1>1, <1>2, <1>3, <1>4, PassOne
<1>9. d \in SUBSET Nat
  BY <1>1, <1>5
<1>10. /\ stream' = [stream EXCEPT ![s] = rest]
       /\ delivered' = [delivered EXCEPT ![s] = d]
       /\ asked' = [asked EXCEPT ![s] = asked[s]]
       /\ begin' = [begin EXCEPT ![s] = begin[s]]
       /\ lost' = [lost EXCEPT ![s] = lost[s]]
       /\ UNCHANGED <<revision, entries, senderAlive, history>>
  BY <1>4, <1>6 DEF RecvLive, Deliver, rest, FeedInv, FeedTypeOK
<1>. HIDE DEF d
<1>. QED  BY <1>1, <1>3, <1>7, <1>8, <1>9, <1>10, StreamStepKeepsInv

\* The changes a lagging receiver jumps over are exactly those it reports.
LEMMA LaggedKeepsInv ==
    ASSUME FeedInv, NEW s \in Subscribers, RecvLagged(s)
    PROVE  FeedInv'
<1>. DEFINE st == stream[s]
            rest == [st EXCEPT !.next = ResumeAt(s)]
            l == lost[s] \cup (st.next .. ResumeAt(s) - 1)
<1>1. /\ st \in Streams /\ asked[s] \in ChangeStart /\ begin[s] \in Nat
      /\ delivered[s] \in SUBSET Nat /\ lost[s] \in SUBSET Nat
      /\ Meets(st, begin[s], lost[s]) /\ GapFree(st, begin[s], delivered[s], lost[s])
  BY EachStream
<1>2. st.next \in Nat /\ st.replay = <<>> /\ Len(st.replay) = 0 /\ revision \in Nat
      /\ revision >= st.next + RingCapacity
  BY <1>1, MaxRevisionAssumption DEF RecvLagged, Lagging, Streams, FeedInv, FeedTypeOK
<1>3. ResumeAt(s) \in Nat /\ ResumeAt(s) > st.next /\ ResumeAt(s) <= revision
  BY <1>2, RingAssumption DEF ResumeAt
<1>4. /\ rest \in Streams /\ rest.filter = st.filter /\ rest.next = ResumeAt(s)
      /\ rest.replay = <<>> /\ Len(rest.replay) = 0
  BY <1>1, <1>2, <1>3 DEF Streams
<1>. HIDE DEF rest
<1>5. First(st) = st.next /\ First(rest) = ResumeAt(s)
  BY <1>2, <1>3, <1>4 DEF First
<1>6. begin[s] < st.next /\ lost[s] \subseteq 1 .. st.next - 1
  BY <1>1, <1>5 DEF Meets
<1>7. Meets(rest, begin[s], l)
  BY <1>1, <1>2, <1>3, <1>4, <1>5, <1>6 DEF Meets
<1>8. GapFree(rest, begin[s], delivered[s], l)
  <2>. DEFINE P(r) == Matches(st.filter, history[r])
              n == st.next
              m == ResumeAt(s)
  <2>1. delivered[s] = {r \in begin[s] + 1 .. n - 1 : r \notin lost[s] /\ P(r)}
    BY <1>1, <1>5 DEF GapFree
  <2>2. n \in Nat /\ m \in Nat /\ n < m /\ begin[s] \in Nat /\ begin[s] < n
    BY <1>1, <1>2, <1>3, <1>6
  <2>3. l = lost[s] \cup (n .. m - 1) /\ lost[s] \subseteq 1 .. n - 1
    BY <1>6
  <2>. HIDE DEF P, n, m, l
  <2>4. delivered[s] = {r \in begin[s] + 1 .. m - 1 : r \notin l /\ P(r)}
    BY <2>1, <2>2, <2>3
  <2>5. delivered[s] = {r \in begin[s] + 1 .. First(rest) - 1 :
                            r \notin l /\ Matches(rest.filter, history[r])}
    BY <1>4, <1>5, <2>4 DEF P, m
  <2>. QED  BY <2>5 DEF GapFree
<1>9. l \in SUBSET Nat
  BY <1>1, <1>2, <1>3
<1>10. /\ stream' = [stream EXCEPT ![s] = rest]
       /\ delivered' = [delivered EXCEPT ![s] = delivered[s]]
       /\ asked' = [asked EXCEPT ![s] = asked[s]]
       /\ begin' = [begin EXCEPT ![s] = begin[s]]
       /\ lost' = [lost EXCEPT ![s] = l]
       /\ UNCHANGED <<revision, entries, senderAlive, history>>
  BY DEF RecvLagged, rest, FeedInv, FeedTypeOK
<1>. HIDE DEF l
<1>. QED  BY <1>1, <1>4, <1>7, <1>8, <1>9, <1>10, StreamStepKeepsInv

\* Ending a stream changes nothing else.
LEMMA EndKeepsInv ==
    ASSUME FeedInv, NEW s \in Subscribers, RecvClosed(s) \/ DropStream(s)
    PROVE  FeedInv'
<1>. DEFINE st == stream[s]
            rest == [st EXCEPT !.open = FALSE]
<1>1. /\ st \in Streams /\ asked[s] \in ChangeStart /\ begin[s] \in Nat
      /\ delivered[s] \in SUBSET Nat /\ lost[s] \in SUBSET Nat
      /\ Meets(st, begin[s], lost[s]) /\ GapFree(st, begin[s], delivered[s], lost[s])
  BY EachStream
<1>2. /\ rest \in Streams /\ rest.filter = st.filter /\ rest.next = st.next
      /\ rest.replay = st.replay
  BY <1>1 DEF Streams
<1>3. /\ stream' = [stream EXCEPT ![s] = rest]
      /\ delivered' = [delivered EXCEPT ![s] = delivered[s]]
      /\ asked' = [asked EXCEPT ![s] = asked[s]]
      /\ begin' = [begin EXCEPT ![s] = begin[s]]
      /\ lost' = [lost EXCEPT ![s] = lost[s]]
      /\ UNCHANGED <<revision, entries, senderAlive, history>>
  BY DEF RecvClosed, DropStream, FeedInv, FeedTypeOK
<1>. HIDE DEF rest
<1>4. Meets(rest, begin[s], lost[s]) /\ GapFree(rest, begin[s], delivered[s], lost[s])
  BY <1>1, <1>2 DEF Meets, GapFree, First
<1>. QED  BY <1>1, <1>2, <1>3, <1>4, StreamStepKeepsInv

\* The retained entries carry the last revisions.
LEMMA EntryRevisions ==
    ASSUME FeedInv
    PROVE  /\ Len(entries) \in Nat /\ revision \in Nat /\ Len(entries) <= revision
           /\ entries \in Seq(StoreChange)
           /\ \A i \in 1 .. Len(entries) :
                 /\ entries[i] = history[revision - Len(entries) + i]
                 /\ entries[i].revision = revision - Len(entries) + i
           /\ revision > 0 => Len(entries) > 0
<1>1. /\ Len(entries) \in Nat /\ revision \in Nat /\ entries \in Seq(StoreChange)
      /\ Len(history) = revision
  BY MaxRevisionAssumption DEF FeedInv, FeedTypeOK, HistoryNumbered
<1>2. Len(entries) <= revision /\ (revision > 0 => Len(entries) > 0)
  BY <1>1, RetentionAssumption DEF FeedInv, RetainedSuffix
<1>3. ASSUME NEW i \in 1 .. Len(entries)
      PROVE  /\ entries[i] = history[revision - Len(entries) + i]
             /\ entries[i].revision = revision - Len(entries) + i
  <2>1. entries[i] = history[revision - Len(entries) + i]
    BY <1>1 DEF FeedInv, RetainedSuffix
  <2>2. revision - Len(entries) + i \in 1 .. revision
    BY <1>1, <1>2
  <2>. QED  BY <2>1, <2>2 DEF FeedInv, HistoryNumbered
<1>. QED  BY <1>1, <1>2, <1>3

\* A cursor that is neither invalid nor expired leaves to be replayed exactly the
\* changes after it.
LEMMA EntriesAfterCursor ==
    ASSUME FeedInv, NEW cursor \in Nat, cursor <= revision, cursor >= revision - Len(entries)
    PROVE  /\ EntriesAfter(cursor) \in Seq(StoreChange)
           /\ Len(EntriesAfter(cursor)) = revision - cursor
           /\ \A i \in 1 .. revision - cursor : EntriesAfter(cursor)[i] = history[cursor + i]
<1>. DEFINE len == Len(entries)
            Splits(n) == \A i \in 1 .. len : entries[i].revision > cursor <=> i > n
            m == cursor - (revision - len)
            n == CHOOSE x \in 0 .. len : Splits(x)
<1>1. /\ len \in Nat /\ revision \in Nat /\ len <= revision
      /\ entries \in Seq(StoreChange)
      /\ \A i \in 1 .. len : /\ entries[i] = history[revision - len + i]
                             /\ entries[i].revision = revision - len + i
  BY EntryRevisions
<1>2. m \in 0 .. len /\ m \in Nat
  BY <1>1
<1>3. Splits(m)
  BY <1>1
<1>4. n \in 0 .. len /\ Splits(n)
  BY <1>2, <1>3
<1>5. n = m
  <2>. HIDE DEF n, m, len
  <2>1. CASE n < m
    <3>1. m \in 1 .. len
      BY <1>1, <1>2, <1>4, <2>1
    <3>2. (entries[m].revision > cursor <=> m > m) /\ (entries[m].revision > cursor <=> m > n)
      BY <1>3, <1>4, <3>1
    <3>. QED  BY <1>2, <1>4, <2>1, <3>2
  <2>2. CASE m < n
    <3>1. n \in 1 .. len
      BY <1>1, <1>2, <1>4, <2>2
    <3>2. (entries[n].revision > cursor <=> n > m) /\ (entries[n].revision > cursor <=> n > n)
      BY <1>3, <1>4, <3>1
    <3>. QED  BY <1>2, <1>4, <2>2, <3>2
  <2>. QED  BY <1>1, <1>2, <1>4, <2>1, <2>2
<1>6. EntriesAfter(cursor) = SubSeq(entries, m + 1, len)
  BY <1>5 DEF EntriesAfter
<1>. HIDE DEF n, Splits
<1>7. /\ SubSeq(entries, m + 1, len) \in Seq(StoreChange)
      /\ Len(SubSeq(entries, m + 1, len)) = len - m
      /\ \A i \in 1 .. len - m : SubSeq(entries, m + 1, len)[i] = entries[m + i]
  <2>. HIDE DEF m
  <2>. QED  BY <1>1, <1>2
<1>8. len - m = revision - cursor
  BY <1>1
<1>9. ASSUME NEW i \in 1 .. revision - cursor
      PROVE  entries[m + i] = history[cursor + i]
  <2>1. m + i \in 1 .. len /\ revision - len + (m + i) = cursor + i
    BY <1>1, <1>2, <1>8
  <2>. QED  BY <1>1, <2>1
<1>. QED  BY <1>6, <1>7, <1>8, <1>9

\* The cursor of a request is a number.
LEMMA CursorIsNat ==
    ASSUME NEW start \in ChangeStart
    PROVE  start.cursor \in Nat
<1>1. start.cursor \in Revisions \cup {0}
  BY DEF ChangeStart
<1>2. \A r \in Revisions : r \in Nat
  BY MaxRevisionAssumption
<1>. QED  BY <1>1, <1>2

\* Whatever the start, the replay is the stretch of the history from ReplayBase to
\* the present.
LEMMA ReplayIs ==
    ASSUME FeedInv, NEW start \in ChangeStart,
           ~InvalidChangeCursor(start), ~ChangeCursorExpired(start)
    PROVE  /\ ReplayBase(start) \in Nat
           /\ ReplayBase(start) <= revision
           /\ Replay(start) \in Seq(StoreChange)
           /\ Len(Replay(start)) = revision - ReplayBase(start)
           /\ \A i \in 1 .. Len(Replay(start)) : Replay(start)[i] = history[ReplayBase(start) + i]
<1>1. /\ Len(entries) \in Nat /\ revision \in Nat /\ Len(entries) <= revision
      /\ entries \in Seq(StoreChange)
      /\ \A i \in 1 .. Len(entries) :
            /\ entries[i] = history[revision - Len(entries) + i]
            /\ entries[i].revision = revision - Len(entries) + i
      /\ revision > 0 => Len(entries) > 0
  BY EntryRevisions
<1>2. CASE start.kind = "Beginning"
  <2>1. Replay(start) = entries /\ ReplayBase(start) = revision - Len(entries)
    BY <1>2 DEF Replay, ReplayBase
  <2>. QED  BY <1>1, <2>1
<1>3. CASE start.kind = "Latest"
  <2>1. Replay(start) = <<>> /\ ReplayBase(start) = revision
    BY <1>3 DEF Replay, ReplayBase
  <2>. QED  BY <1>1, <2>1
<1>4. CASE start.kind = "After"
  <2>1. start.cursor \in Nat /\ start.cursor <= revision
    BY <1>1, <1>4, CursorIsNat DEF InvalidChangeCursor
  <2>2. start.cursor >= revision - Len(entries)
    <3>1. CASE entries = <<>>
      BY <1>1, <2>1, <3>1
    <3>2. CASE entries # <<>>
      <4>1. Len(entries) > 0
        BY <1>1, <3>2
      <4>2. entries[1].revision = revision - Len(entries) + 1
        BY <1>1, <4>1
      <4>. QED  BY <1>1, <1>4, <2>1, <3>2, <4>1, <4>2 DEF ChangeCursorExpired
    <3>. QED  BY <3>1, <3>2
  <2>3. Replay(start) = EntriesAfter(start.cursor) /\ ReplayBase(start) = start.cursor
    BY <1>4 DEF Replay, ReplayBase
  <2>. QED  BY <2>1, <2>2, <2>3, EntriesAfterCursor
<1>. QED  BY <1>2, <1>3, <1>4 DEF InvalidChangeCursor, ChangeStart

\* The replay and the receiver of a new stream meet.
LEMMA SubscribeKeepsInv ==
    ASSUME FeedInv, NEW s \in Subscribers, NEW start \in Starts, NEW f \in Filters,
           Subscribe(s, start, f)
    PROVE  FeedInv'
<1>. DEFINE base == ReplayBase(start)
            st == [open |-> TRUE, replay |-> Replay(start), next |-> ReceiverStart, filter |-> f]
<1>1. start \in ChangeStart /\ f \in ChangeFilter
  BY RequestsAssumption
<1>2. ~InvalidChangeCursor(start) /\ ~ChangeCursorExpired(start)
  BY DEF Subscribe
<1>3. /\ base \in Nat /\ base <= revision /\ revision \in Nat
      /\ Replay(start) \in Seq(StoreChange)
      /\ Len(Replay(start)) = revision - base
      /\ \A i \in 1 .. Len(Replay(start)) : Replay(start)[i] = history[base + i]
  BY <1>1, <1>2, ReplayIs, EntryRevisions
<1>4. /\ st \in Streams /\ st.replay = Replay(start) /\ st.next = revision + 1 /\ st.filter = f
  BY <1>1, <1>3 DEF Streams, ReceiverStart
<1>5. /\ stream' = [stream EXCEPT ![s] = st]
      /\ asked' = [asked EXCEPT ![s] = start]
      /\ begin' = [begin EXCEPT ![s] = base]
      /\ delivered' = [delivered EXCEPT ![s] = {}]
      /\ lost' = [lost EXCEPT ![s] = {}]
      /\ UNCHANGED <<revision, entries, senderAlive, history>>
  BY DEF Subscribe
<1>. HIDE DEF st, base
<1>6. First(st) = base + 1
  BY <1>3, <1>4 DEF First
<1>7. Meets(st, base, {})
  BY <1>3, <1>4, <1>6 DEF Meets
<1>8. GapFree(st, base, {}, {})
  BY <1>3, <1>6 DEF GapFree
<1>. QED  BY <1>1, <1>3, <1>4, <1>5, <1>7, <1>8, StreamStepKeepsInv

\* Every step of the feed, record_change, subscribe, a round of recv or a drop,
\* preserves the invariant.
LEMMA FeedStepKeepsInv ==
    ASSUME FeedInv, [FeedNext]_feedVars
    PROVE  FeedInv'
<1>1. ASSUME NEW c \in Collections, NEW k \in Keys, NEW op \in ChangeOperation,
             RecordChange(c, k, op)
      PROVE  FeedInv'
  BY <1>1, RecordKeepsInv
<1>2. ASSUME NEW s \in Subscribers, StreamNext(s)
      PROVE  FeedInv'
  <2>1. CASE \E start \in Starts, f \in Filters : Subscribe(s, start, f)
    BY <2>1, SubscribeKeepsInv
  <2>2. CASE RecvReplay(s)
    BY <2>2, ReplayKeepsInv
  <2>3. CASE RecvLive(s)
    BY <2>3, LiveKeepsInv
  <2>4. CASE RecvLagged(s)
    BY <2>4, LaggedKeepsInv
  <2>5. CASE RecvClosed(s) \/ DropStream(s)
    BY <2>5, EndKeepsInv
  <2>. QED  BY <1>2, <2>1, <2>2, <2>3, <2>4, <2>5 DEF StreamNext, Recv
<1>3. CASE DropClient \/ UNCHANGED feedVars
  <2>1. UNCHANGED <<revision, entries, stream, history, asked, begin, delivered, lost>>
        /\ senderAlive' \in BOOLEAN
    BY <1>3 DEF DropClient, feedVars, FeedInv, FeedTypeOK
  <2>. QED  BY <2>1 DEF FeedInv, FeedTypeOK, HistoryNumbered, RetainedSuffix,
                        ReplayMeetsReceiver, NoSilentGap, Passed
<1>. QED  BY <1>1, <1>2, <1>3 DEF FeedNext

\* The feed's state is well typed, its history is numbered by the revisions, the
\* retained entries are a suffix of it, and no stream has a silent gap: whatever
\* record_change, subscribe and recv do, in whatever order.
THEOREM FeedInvariant == FeedSpec => []FeedInv
<1>1. FeedInit => FeedInv
  BY FeedInitially
<1>2. FeedInv /\ [FeedNext]_feedVars => FeedInv'
  BY FeedStepKeepsInv
<1>. QED  BY <1>1, <1>2, PTL DEF FeedSpec

\* The type invariant of the feed.
THEOREM FeedTypeCorrect == FeedSpec => []FeedTypeOK
<1>1. FeedInv => FeedTypeOK
  BY DEF FeedInv
<1>. QED  BY <1>1, FeedInvariant, PTL

\* No stream of the memory feed skips a matching change without reporting it, or
\* hands one over twice.
THEOREM FeedHasNoSilentGap == FeedSpec => []NoSilentGap
<1>1. FeedInv => NoSilentGap
  BY DEF FeedInv
<1>. QED  BY <1>1, FeedInvariant, PTL

\* What subscribe can replay is always the latest stretch of the history.
THEOREM FeedRetainsSuffix == FeedSpec => []RetainedSuffix
<1>1. FeedInv => RetainedSuffix
  BY DEF FeedInv
<1>. QED  BY <1>1, FeedInvariant, PTL

\* subscribe refuses a cursor as expired only if a change after it is gone.
THEOREM FeedRefusesOnlyIfGone == FeedSpec => []RefusedOnlyIfGone
<1>1. FeedInv => RefusedOnlyIfGone
  <2>. SUFFICES ASSUME FeedInv, NEW start \in Starts, ChangeCursorExpired(start)
                PROVE  start.cursor < Len(history) - Retention
    BY DEF RefusedOnlyIfGone
  <2>1. /\ Len(entries) \in Nat /\ revision \in Nat /\ entries \in Seq(StoreChange)
        /\ \A i \in 1 .. Len(entries) : entries[i].revision = revision - Len(entries) + i
        /\ Len(history) = revision
    BY EntryRevisions DEF FeedInv, HistoryNumbered
  <2>2. start.cursor \in Nat
    BY RequestsAssumption, CursorIsNat
  <2>3. Len(entries) > 0 /\ start.cursor < entries[1].revision - 1
    BY <2>1 DEF ChangeCursorExpired
  <2>4. entries[1].revision = revision - Len(entries) + 1
    BY <2>1, <2>3
  <2>5. start.cursor < revision - Len(entries)
    BY <2>1, <2>2, <2>3, <2>4
  <2>6. Len(entries) = IF revision < Retention THEN revision ELSE Retention
    BY <2>1 DEF FeedInv, RetainedSuffix
  <2>. QED  BY <2>1, <2>2, <2>5, <2>6, RetentionAssumption
<1>. QED  BY <1>1, FeedInvariant, PTL

-----------------------------------------------------------------------------
(* The memory feed implements the promised one *)

\* PassedIs of every stream, so that it can be used after a step too.
AllPassed ==
    \A s \in Subscribers : /\ Passed(s) = stream[s].next - Len(stream[s].replay) - 1
                           /\ Passed(s) \in Nat

\* PassedIs for every stream, before a step ...
LEMMA PassedBefore == FeedInv => AllPassed
BY PassedIs DEF AllPassed, FeedInv

\* ... and after it.
LEMMA PassedAfter == FeedInv' => AllPassed'
BY PassedBefore, PTL

\* A round of recv that takes a change takes the one after what the stream has
\* passed, whether it comes from the replay or from the receiver.
LEMMA RecvTakesNext ==
    ASSUME FeedInv, FeedInv', NEW s \in Subscribers, RecvReplay(s) \/ RecvLive(s)
    PROVE  LET r == Passed(s) + 1 IN
           /\ r \in 1 .. Len(history)
           /\ Passed(s)' = r
           /\ delivered' = IF Matches(stream[s].filter, history[r])
                             THEN [delivered EXCEPT ![s] = @ \cup {r}] ELSE delivered
           /\ stream[s].open /\ stream'[s].open /\ stream'[s].filter = stream[s].filter
           /\ \A u \in Subscribers \ {s} : stream'[u] = stream[u]
           /\ UNCHANGED <<history, asked, lost>>
<1>. DEFINE st == stream[s]
            r == Passed(s) + 1
<1>1. st \in Streams /\ Meets(st, begin[s], lost[s]) /\ begin[s] \in Nat
  BY EachStream
<1>2. /\ Passed(s) = st.next - Len(st.replay) - 1 /\ Passed(s) \in Nat
      /\ Len(st.replay) \in Nat /\ st.next \in Nat
  BY PassedIs DEF FeedInv
<1>3. Passed(s)' = stream'[s].next - Len(stream'[s].replay) - 1
  BY PassedAfter DEF AllPassed
<1>4. revision \in Nat /\ Len(history) = revision /\ stream \in [Subscribers -> Streams]
  BY MaxRevisionAssumption DEF FeedInv, FeedTypeOK, HistoryNumbered
<1>5. CASE RecvReplay(s)
  <2>1. /\ st.replay \in Seq(StoreChange) /\ st.replay # <<>> /\ st.open
        /\ stream' = [stream EXCEPT ![s].replay = Tail(@)]
        /\ Deliver(s, Head(st.replay))
        /\ UNCHANGED <<history, asked, lost>>
    BY <1>1, <1>5 DEF RecvReplay, Streams
  <2>2. Len(st.replay) > 0 /\ Len(Tail(st.replay)) = Len(st.replay) - 1
        /\ Head(st.replay) = st.replay[1]
    BY <2>1
  <2>3. /\ stream'[s].replay = Tail(st.replay) /\ stream'[s].next = st.next
        /\ stream'[s].open = st.open /\ stream'[s].filter = st.filter
        /\ \A u \in Subscribers \ {s} : stream'[u] = stream[u]
    BY <1>1, <1>4, <2>1 DEF Streams
  <2>4. Passed(s)' = r
    BY <1>2, <1>3, <2>2, <2>3
  <2>5. r \in 1 .. revision /\ r = First(st)
    BY <1>1, <1>2, <1>4, <2>2 DEF Meets, First
  <2>6. st.replay[1] = history[r]
    <3>1. st.replay[1] = history[First(st) + 1 - 1]
      BY <1>1, <1>2, <2>2 DEF Meets
    <3>. QED  BY <2>5, <3>1
  <2>7. history[r].revision = r
    BY <2>5 DEF FeedInv, HistoryNumbered
  <2>. QED  BY <1>4, <2>1, <2>2, <2>3, <2>4, <2>5, <2>6, <2>7 DEF Deliver
<1>6. CASE RecvLive(s)
  <2>1. /\ st.replay = <<>> /\ Len(st.replay) = 0 /\ st.open
        /\ stream' = [stream EXCEPT ![s].next = @ + 1]
        /\ Deliver(s, history[st.next])
        /\ st.next <= revision
        /\ UNCHANGED <<history, asked, lost>>
    BY <1>6 DEF RecvLive
  <2>2. /\ stream'[s].replay = <<>> /\ stream'[s].next = st.next + 1
        /\ stream'[s].open = st.open /\ stream'[s].filter = st.filter
        /\ \A u \in Subscribers \ {s} : stream'[u] = stream[u]
    BY <1>1, <1>4, <2>1 DEF Streams
  <2>3. r = st.next /\ r \in 1 .. revision
    BY <1>2, <1>4, <2>1
  <2>4. Passed(s)' = r
    BY <1>2, <1>3, <2>2, <2>3
  <2>5. history[r].revision = r
    BY <2>3 DEF FeedInv, HistoryNumbered
  <2>. QED  BY <1>4, <2>1, <2>2, <2>3, <2>4, <2>5 DEF Deliver
<1>. QED  BY <1>5, <1>6

\* Every step of the memory feed is a step of the promised one, or leaves it alone.
LEMMA FeedStepSimulates ==
    ASSUME FeedInv, FeedInv', [FeedNext]_feedVars
    PROVE  [Promised!Next]_(Promised!vars)
<1>0. /\ stream \in [Subscribers -> Streams] /\ history \in Seq(StoreChange)
      /\ revision \in Nat /\ Len(history) = revision
      /\ \A u \in Subscribers : Passed(u) \in Nat /\ Passed(u)' \in Nat
  <2>1. /\ stream \in [Subscribers -> Streams] /\ history \in Seq(StoreChange)
        /\ revision \in Nat /\ Len(history) = revision
    BY MaxRevisionAssumption DEF FeedInv, FeedTypeOK, HistoryNumbered
  <2>2. AllPassed /\ AllPassed'
    BY PassedBefore, PassedAfter
  <2>. QED  BY <2>1, <2>2 DEF AllPassed
<1>1. ASSUME NEW c \in Collections, NEW k \in Keys, NEW op \in ChangeOperation,
             RecordChange(c, k, op)
      PROVE  Promised!Next
  <2>. DEFINE change == [revision |-> revision + 1, collection |-> c, key |-> k, operation |-> op]
  <2>1. change \in Promised!StoreChange
    BY <1>0, <1>1, MaxRevisionAssumption
       DEF RecordChange, Promised!StoreChange, ChangeOperation, Promised!ChangeOperation
  <2>2. \A i \in DOMAIN history : history[i].revision < change.revision
    <3>1. DOMAIN history = 1 .. revision
      BY <1>0
    <3>. QED  BY <1>0, <3>1 DEF FeedInv, HistoryNumbered
  <2>3. \A u \in Subscribers : Passed(u)' = Passed(u)
    BY <1>1 DEF RecordChange, Passed
  <2>4. Promised!Report(change)
    BY <1>1, <2>2, <2>3 DEF RecordChange, Promised!Report
  <2>. QED  BY <2>1, <2>4 DEF Promised!Next
<1>2. ASSUME NEW s \in Subscribers, NEW start \in Starts, NEW f \in Filters,
             Subscribe(s, start, f)
      PROVE  Promised!Next
  <2>1. start \in ChangeStart /\ ~InvalidChangeCursor(start) /\ ~ChangeCursorExpired(start)
    BY <1>2, RequestsAssumption DEF Subscribe
  <2>2. PICK p \in Nat : /\ p = ReplayBase(start) /\ p <= revision
                         /\ Len(Replay(start)) = revision - p
    BY <2>1, ReplayIs
  <2>3. /\ stream'[s] = [open |-> TRUE, replay |-> Replay(start), next |-> revision + 1,
                         filter |-> f]
        /\ \A u \in Subscribers \ {s} : stream'[u] = stream[u]
    BY <1>0, <1>2 DEF Subscribe, ReceiverStart
  <2>4. Passed(s)' = p
    <3>1. stream'[s].next = revision + 1 /\ stream'[s].replay = Replay(start)
      BY <2>3
    <3>2. Passed(s)' = stream'[s].next - Len(stream'[s].replay) - 1
      BY PassedAfter DEF AllPassed
    <3>. QED  BY <1>0, <2>2, <3>1, <3>2
  <2>5. \A u \in Subscribers \ {s} : Passed(u)' = Passed(u)
    BY <2>3 DEF Passed
  <2>6. Promised!StartsAt(start, p)
    <3>1. CASE start.kind = "After"
      <4>1. p = start.cursor
        BY <2>2, <3>1 DEF ReplayBase
      <4>2. \A i \in 1 .. revision : history[i].revision = i
        BY DEF FeedInv, HistoryNumbered
      <4>. QED  BY <1>0, <2>2, <3>1, <4>1, <4>2 DEF Promised!StartsAt
    <3>2. CASE start.kind = "Latest"
      BY <1>0, <2>2, <3>2 DEF Promised!StartsAt, ReplayBase
    <3>3. CASE start.kind = "Beginning"
      BY <3>3 DEF Promised!StartsAt
    <3>. QED  BY <2>1, <3>1, <3>2, <3>3 DEF InvalidChangeCursor, ChangeStart
  <2>7. Promised!Open(s, start, f, p)
    BY <1>0, <1>2, <2>3, <2>4, <2>5, <2>6 DEF Promised!Open, Subscribe
  <2>8. p \in 0 .. Len(history)
    BY <1>0, <2>2
  <2>9. \E ask \in Starts, g \in Filters, q \in 0 .. Len(history) : Promised!Open(s, ask, g, q)
    BY <2>7, <2>8
  <2>. QED  BY <2>9 DEF Promised!Next
<1>3. ASSUME NEW s \in Subscribers, RecvReplay(s) \/ RecvLive(s)
      PROVE  Promised!Next
  <2>. DEFINE r == Passed(s) + 1
  <2>1. /\ r \in 1 .. Len(history)
        /\ Passed(s)' = r
        /\ delivered' = IF Matches(stream[s].filter, history[r])
                          THEN [delivered EXCEPT ![s] = @ \cup {r}] ELSE delivered
        /\ stream[s].open /\ stream'[s].open /\ stream'[s].filter = stream[s].filter
        /\ \A u \in Subscribers \ {s} : stream'[u] = stream[u]
        /\ UNCHANGED <<history, asked, lost>>
    BY <1>3, RecvTakesNext
  <2>2. \A u \in Subscribers \ {s} : Passed(u)' = Passed(u)
    BY <2>1 DEF Passed
  <2>3. /\ [u \in Subscribers |-> Passed(u)]' = [[u \in Subscribers |-> Passed(u)] EXCEPT ![s] = r]
        /\ UNCHANGED <<[u \in Subscribers |-> stream[u].open],
                       [u \in Subscribers |-> stream[u].filter]>>
    <3>1. stream[s].open \in BOOLEAN /\ stream'[s].open \in BOOLEAN
      BY DEF FeedInv, FeedTypeOK, Streams
    <3>2. \A u \in Subscribers : /\ stream'[u].open = stream[u].open
                                 /\ stream'[u].filter = stream[u].filter
      BY <2>1, <3>1
    <3>3. \A u \in Subscribers : Passed(u)' = IF u = s THEN r ELSE Passed(u)
      BY <2>1, <2>2
    <3>. HIDE DEF r
    <3>. QED  BY <3>2, <3>3
  <2>4. /\ [u \in Subscribers |-> stream[u].open][s] = TRUE
        /\ [u \in Subscribers |-> stream[u].filter][s] = stream[s].filter
        /\ [u \in Subscribers |-> Passed(u)][s] = Passed(s)
    BY <2>1
  <2>5. Matches(stream[s].filter, history[r]) <=> Promised!Matches(stream[s].filter, history[r])
    BY DEF Matches, Promised!Matches
  <2>6. r <= Len(history)
    BY <1>0, <2>1
  <2>. HIDE DEF r
  <2>7. Promised!Advance(s)
    BY <2>1, <2>3, <2>4, <2>5, <2>6 DEF Promised!Advance, r
  <2>. QED  BY <2>7 DEF Promised!Next
<1>4. ASSUME NEW s \in Subscribers, RecvLagged(s)
      PROVE  Promised!Next
  <2>. DEFINE r == ResumeAt(s) - 1
  <2>1. stream[s] \in Streams /\ stream[s].next \in Nat /\ stream[s].replay = <<>>
    BY <1>0, <1>4 DEF RecvLagged, Streams
  <2>2. r \in Nat /\ r >= stream[s].next /\ r <= revision /\ r \in 1 .. revision + 1
        /\ r > Passed(s) /\ Passed(s) = stream[s].next - 1 /\ r \in 1 .. Len(history)
    BY <1>0, <1>4, <2>1, RingAssumption DEF RecvLagged, Lagging, ResumeAt, Passed
  <2>r. ResumeAt(s) = r + 1
    BY <1>0, RingAssumption DEF ResumeAt
  <2>. HIDE DEF r
  <2>3. /\ stream'[s].next = r + 1 /\ stream'[s].replay = <<>>
        /\ stream'[s].open = stream[s].open /\ stream'[s].filter = stream[s].filter
        /\ \A u \in Subscribers \ {s} : stream'[u] = stream[u]
    BY <1>0, <1>4, <2>1, <2>2, <2>r DEF RecvLagged, Streams
  <2>4. Passed(s)' = r /\ \A u \in Subscribers \ {s} : Passed(u)' = Passed(u)
    BY <2>2, <2>3 DEF Passed
  <2>5. lost' = [lost EXCEPT ![s] = @ \cup (Passed(s) + 1 .. r)]
    <3>1. Passed(s) + 1 = stream[s].next /\ ResumeAt(s) - 1 = r
      BY <2>1, <2>2, <2>r
    <3>. QED  BY <1>4, <3>1 DEF RecvLagged
  <2>6. Promised!Lose(s, r)
    BY <1>0, <1>4, <2>2, <2>3, <2>4, <2>5 DEF Promised!Lose, RecvLagged
  <2>. QED  BY <2>2, <2>6 DEF Promised!Next
<1>5. ASSUME NEW s \in Subscribers, RecvClosed(s) \/ DropStream(s)
      PROVE  Promised!Next
  <2>1. /\ stream[s].open /\ stream' = [stream EXCEPT ![s].open = FALSE]
        /\ UNCHANGED <<history, asked, delivered, lost>>
    BY <1>5 DEF RecvClosed, DropStream
  <2>2. /\ stream'[s].open = FALSE /\ stream'[s].filter = stream[s].filter
        /\ stream'[s].next = stream[s].next /\ stream'[s].replay = stream[s].replay
        /\ \A u \in Subscribers \ {s} : stream'[u] = stream[u]
    BY <1>0, <2>1 DEF Streams
  <2>3. \A u \in Subscribers : Passed(u)' = Passed(u)
    BY <2>2 DEF Passed
  <2>4. Promised!Close(s)
    BY <1>0, <2>1, <2>2, <2>3 DEF Promised!Close
  <2>. QED  BY <2>4 DEF Promised!Next
<1>6. CASE DropClient \/ UNCHANGED feedVars
  <2>1. UNCHANGED <<stream, history, asked, delivered, lost>>
    BY <1>6 DEF DropClient, feedVars
  <2>2. \A u \in Subscribers : Passed(u)' = Passed(u)
    BY <2>1 DEF Passed
  <2>. QED  BY <2>1, <2>2 DEF Promised!vars
<1>. QED  BY <1>1, <1>2, <1>3, <1>4, <1>5, <1>6 DEF FeedNext, StreamNext, Recv

\* The change feed of the memory backend keeps the promise of AsyncChangeFeed: an
\* ordered feed, resumable after a cursor, without silent gaps.
THEOREM FeedImplementsPromise == FeedSpec => ImplementsChangeFeed
<1>1. FeedInit => Promised!Init
  BY DEF FeedInit, Promised!Init, NoStream, Passed, DefaultStart, DefaultFilter,
         Promised!DefaultStart, Promised!DefaultFilter
<1>2. FeedInv /\ FeedInv' /\ [FeedNext]_feedVars => [Promised!Next]_(Promised!vars)
  BY FeedStepSimulates
<1>. QED  BY <1>1, <1>2, FeedInvariant, PTL DEF FeedSpec, ImplementsChangeFeed, Promised!Spec

\* Consumers see strictly increasing revisions.
THEOREM FeedDeliversInOrder == FeedSpec => DeliveredInOrder
<1>. DEFINE InOrder == \A s \in Subscribers : stream'[s].open /\ stream[s].open =>
                \A new \in delivered'[s] \ delivered[s], old \in delivered[s] : old < new
<1>1. ASSUME FeedInv, FeedInv', [FeedNext]_feedVars PROVE InOrder
  <2>0. delivered \in [Subscribers -> SUBSET Nat] /\ stream \in [Subscribers -> Streams]
    BY <1>1 DEF FeedInv, FeedTypeOK
  <2>1. ASSUME NEW u \in Subscribers, RecvReplay(u) \/ RecvLive(u) PROVE InOrder
    <3>. DEFINE r == Passed(u) + 1
    <3>1. delivered' = IF Matches(stream[u].filter, history[r])
                         THEN [delivered EXCEPT ![u] = @ \cup {r}] ELSE delivered
      BY <1>1, <2>1, RecvTakesNext
    <3>2. \A old \in delivered[u] : old < r
      BY <1>1, PassedIs DEF FeedInv, NoSilentGap
    <3>3. \A s \in Subscribers \ {u} : delivered'[s] = delivered[s]
      BY <2>0, <3>1
    <3>4. delivered'[u] \ delivered[u] \subseteq {r}
      BY <2>0, <3>1
    <3>. QED  BY <3>2, <3>3, <3>4
  <2>2. ASSUME NEW u \in Subscribers, NEW start \in Starts, NEW f \in Filters,
               Subscribe(u, start, f)
        PROVE  InOrder
    BY <2>0, <2>2 DEF Subscribe
  <2>3. CASE delivered' = delivered
    BY <2>3
  <2>. QED  BY <1>1, <2>1, <2>2, <2>3
       DEF FeedNext, StreamNext, Recv, RecordChange, RecvLagged, RecvClosed, DropStream,
           DropClient, feedVars
<1>2. FeedInv /\ FeedInv' /\ [FeedNext]_feedVars => [InOrder]_feedVars
  BY <1>1
<1>. QED  BY <1>2, FeedInvariant, PTL DEF FeedSpec, DeliveredInOrder

-----------------------------------------------------------------------------
(* The operators the actions are built from *)

\* The store with one collection replaced.
LEMMA WithColumnIs ==
    ASSUME store \in [Collections \X Keys -> Slot], NEW c \in Collections, NEW col \in [Keys -> Slot]
    PROVE  /\ WithColumn(c, col) \in [Collections \X Keys -> Slot]
           /\ \A d \in Collections, k \in Keys :
                 WithColumn(c, col)[<<d, k>>] = IF d = c THEN col[k] ELSE store[<<d, k>>]
BY DEF WithColumn

\* Columns and what is left of them are typed.
LEMMA ColumnsTyped ==
    ASSUME store \in [Collections \X Keys -> Slot]
    PROVE  /\ Empty \in Slot
           /\ \A c \in Collections : Column(c) \in [Keys -> Slot]
           /\ \A dropped : \A col \in [Keys -> Slot] : Without(col, dropped) \in [Keys -> Slot]
BY DEF Column, Without, Slot, Empty, NoExpiry

\* The listings of a finite set are sequences over it.
LEMMA ListingsAreSeqs ==
    ASSUME NEW S, NEW T, S \subseteq T, IsFiniteSet(S)
    PROVE  Listings(S) \subseteq Seq(T) /\ Ascending(S) \subseteq Seq(T)
<1>1. Cardinality(S) \in Nat
  BY FS_CardinalityType
<1>. QED  BY <1>1 DEF Listings, Ascending

\* Announcements are sequences of changes to record.
LEMMA AnnounceTyped ==
    ASSUME NEW c \in Collections, NEW keys \in Seq(Keys), NEW op \in ChangeOperation
    PROVE  Announce(c, keys, op) \in Seq(Announcement)
<1>1. Len(keys) \in Nat /\ \A i \in 1 .. Len(keys) : keys[i] \in Keys
  OBVIOUS
<1>. QED  BY <1>1 DEF Announce, Announcement

\* What enforce_capacity lists are keys.
LEMMA RemovalsTyped ==
    ASSUME NEW col \in [Keys -> Slot]
    PROVE  Removals(col) \subseteq Seq(Keys)
<1>1. IsFiniteSet(LapsedKeys(col)) /\ LapsedKeys(col) \subseteq Keys
  BY FiniteAssumption, FS_Subset DEF LapsedKeys
<1>2. IsFiniteSet(Surplus(col)) /\ Surplus(col) \subseteq Keys
  BY FiniteAssumption, FS_Subset DEF Surplus, LiveKeys
<1>3. Listings(LapsedKeys(col)) \subseteq Seq(Keys) /\ Ascending(Surplus(col)) \subseteq Seq(Keys)
  BY <1>1, <1>2, ListingsAreSeqs
<1>4. \A a, b \in Seq(Keys) : a \o b \in Seq(Keys)
  OBVIOUS
<1>5. ASSUME NEW r \in Removals(col), MaxEntries # NoLimit
      PROVE  r \in Seq(Keys)
  <2>1. PICK part \in Listings(LapsedKeys(col)) \X Ascending(Surplus(col)) :
          r = part[1] \o part[2]
    BY <1>5 DEF Removals
  <2>. QED  BY <1>3, <1>4, <2>1
<1>6. MaxEntries = NoLimit => Removals(col) = {<<>>}
  BY DEF Removals
<1>7. <<>> \in Seq(Keys)
  OBVIOUS
<1>. QED  BY <1>5, <1>6, <1>7

\* A collection with the keys of a call inserted.
LEMMA InsertedTyped ==
    ASSUME store \in [Collections \X Keys -> Slot], NEW t \in Tasks, call[t] \in Call
    PROVE  Inserted(t) \in [Keys -> Slot]
<1>. DEFINE keys == call[t].keys
            IsLast(i, k) == keys[i] = k /\ \A j \in DOMAIN keys : keys[j] = k => j <= i
<1>1. keys \in Seq(Keys) /\ call[t].base \in Nat /\ call[t].expires \in Nat
      /\ call[t].collection \in Collections
  BY DEF Call, CallFields
<1>2. DOMAIN keys = 1 .. Len(keys) /\ Len(keys) \in Nat
  BY <1>1
<1>3. ASSUME NEW k \in Keys, \E i \in DOMAIN keys : IsLast(i, k)
      PROVE  (CHOOSE i \in DOMAIN keys : IsLast(i, k)) \in DOMAIN keys
  BY <1>3
<1>4. ASSUME NEW k \in Keys, \E i \in DOMAIN keys : IsLast(i, k)
      PROVE  [token |-> call[t].base + (CHOOSE i \in DOMAIN keys : IsLast(i, k)),
              expires |-> call[t].expires] \in Slot
  <2>. DEFINE m == CHOOSE i \in DOMAIN keys : IsLast(i, k)
  <2>1. m \in Nat
    BY <1>2, <1>3, <1>4
  <2>. HIDE DEF m
  <2>2. call[t].base + m \in Nat
    BY <1>1, <2>1
  <2>3. [token |-> call[t].base + m, expires |-> call[t].expires] \in Slot
    BY <1>1, <2>2 DEF Slot
  <2>. QED  BY <2>3 DEF m
<1>5. \A k \in Keys : store[<<call[t].collection, k>>] \in Slot
  BY <1>1
<1>. HIDE DEF IsLast
<1>6. Inserted(t) = [k \in Keys |->
            IF \E i \in DOMAIN keys : IsLast(i, k)
              THEN [token |-> call[t].base + (CHOOSE i \in DOMAIN keys : IsLast(i, k)),
                    expires |-> call[t].expires]
              ELSE store[<<call[t].collection, k>>]]
  BY DEF Inserted, IsLast
<1>. QED  BY <1>4, <1>5, <1>6

\* The tokens of the seed items of a collection: each item has its own, and they
\* are the next ones.
LEMMA RankIs ==
    ASSUME NEW ks \in SUBSET Keys, NEW k \in ks
    PROVE  /\ Cardinality({j \in ks : j <= k}) \in 1 .. Cardinality(ks)
           /\ Cardinality(ks) \in Nat
           /\ \A l \in ks : l # k => Cardinality({j \in ks : j <= l}) # Cardinality({j \in ks : j <= k})
<1>1. IsFiniteSet(ks)
  BY FiniteAssumption, FS_Subset
<1>2. \A m \in ks : /\ IsFiniteSet({j \in ks : j <= m})
                    /\ Cardinality({j \in ks : j <= m}) <= Cardinality(ks)
  BY <1>1, FS_Subset
<1>3. \A m \in ks : Cardinality({j \in ks : j <= m}) \in Nat
  BY <1>2, FS_CardinalityType
<1>4. Cardinality(ks) \in Nat
  BY <1>1, FS_CardinalityType
<1>5. \A m \in ks : m \in Nat
  BY KeysAssumption
<1>6. {j \in ks : j <= k} # {}
  BY <1>5
<1>7. Cardinality({j \in ks : j <= k}) # 0
  BY <1>2, <1>6, FS_EmptySet
<1>8. ASSUME NEW l \in ks, l # k,
             Cardinality({j \in ks : j <= l}) = Cardinality({j \in ks : j <= k})
      PROVE  FALSE
  <2>1. CASE l < k
    <3>1. {j \in ks : j <= l} \in SUBSET {j \in ks : j <= k}
      BY <1>5, <2>1
    <3>2. {j \in ks : j <= l} = {j \in ks : j <= k}
      BY <1>2, <1>8, <3>1, FS_Subset
    <3>. QED  BY <1>5, <2>1, <3>2
  <2>2. CASE k < l
    <3>1. {j \in ks : j <= k} \in SUBSET {j \in ks : j <= l}
      BY <1>5, <2>2
    <3>2. {j \in ks : j <= l} = {j \in ks : j <= k}
      BY <1>2, <1>8, <3>1, FS_Subset
    <3>. QED  BY <1>5, <2>2, <3>2
  <2>. QED  BY <1>5, <1>8, <2>1, <2>2
<1>. QED  BY <1>2, <1>3, <1>4, <1>7, <1>8

\* A collection with seed items inserted.
LEMMA SeededTyped ==
    ASSUME store \in [Collections \X Keys -> Slot], tokens \in Nat,
           NEW c \in Collections, NEW ks \in SUBSET Keys
    PROVE  /\ Seeded(c, ks) \in [Keys -> Slot]
           /\ Cardinality(ks) \in Nat
<1>1. IsFiniteSet(ks)
  BY FiniteAssumption, FS_Subset
<1>2. Cardinality(ks) \in Nat
  BY <1>1, FS_CardinalityType
<1>3. \A k \in ks : tokens + Cardinality({j \in ks : j <= k}) \in Nat
  BY <1>2, RankIs
<1>. QED  BY <1>2, <1>3 DEF Seeded, Slot, NoExpiry

-----------------------------------------------------------------------------
(* The state stays well formed *)

\* The initial state is typed.
LEMMA InitTyped == Init => StoreTypeOK
<1>. SUFFICES ASSUME Init PROVE StoreTypeOK
  OBVIOUS
<1>1. (CHOOSE c \in Collections : TRUE) \in Collections
  BY CollectionsAssumption
<1>2. <<>> \in Seq(Keys) /\ <<>> \in Seq(Announcement) /\ <<>> \in Seq(Nat)
  OBVIOUS
<1>3. "cull" \in AllOperations
  BY DEF AllOperations, Whole
<1>4. call \in [Tasks -> Call]
  <2>. DEFINE c0 == CHOOSE c \in Collections : TRUE
              initial == [op |-> "cull", collection |-> c0, keys |-> <<>>, ttl |-> 0,
                          expected |-> 0, base |-> 0, expires |-> 0]
  <2>1. call = [t \in Tasks |-> initial]
    BY DEF Init, NoTtl, NoExpiry
  <2>2. c0 \in Collections
    BY <1>1
  <2>. HIDE DEF c0
  <2>3. initial \in Call
    BY <1>2, <1>3, <2>2 DEF Call, CallFields, Keyed
  <2>. QED  BY <2>1, <2>3
<1>. QED  BY <1>2, <1>4 DEF Init, StoreTypeOK, Slot, Empty, NoExpiry, Stage, Outcome

\* What a task may call is typed.
LEMMA RequestsTyped ==
    ASSUME StoreTypeOK, NEW t \in Tasks, NEW op \in Operations
    PROVE  Requests(t, op) \subseteq Call
<1>. SUFFICES ASSUME NEW request \in Requests(t, op) PROVE request \in Call
  OBVIOUS
<1>1. op \in AllOperations
  BY OperationsAssumption
<1>2. (CHOOSE c \in Collections : TRUE) \in Collections
  BY CollectionsAssumption
<1>3. KeyLists(op) \subseteq Seq(Keys)
  <2>1. \A n \in 0 .. MaxBatch : [1 .. n -> Keys] \subseteq Seq(Keys)
    BY BoundsAssumption
  <2>2. \A k \in Keys : <<k>> \in Seq(Keys)
    OBVIOUS
  <2>4. <<>> \in Seq(Keys)
    OBVIOUS
  <2>3. UNION {[1 .. n -> Keys] : n \in 0 .. MaxBatch} \subseteq Seq(Keys)
    BY <2>1
  <2>. QED  BY <2>2, <2>3, <2>4 DEF KeyLists
<1>4. Expectations(t, op) \subseteq Nat
  BY DEF Expectations, StoreTypeOK
<1>. DEFINE where == IF op \in Whole THEN {CHOOSE c \in Collections : TRUE} ELSE Collections
            howLong == IF op \in Storing THEN Ttls ELSE {NoTtl}
<1>5. where \subseteq Collections /\ howLong \subseteq Int
  BY <1>2, TtlsAssumption DEF NoTtl
<1>6. Requests(t, op) = [op : {op}, collection : where, keys : KeyLists(op), ttl : howLong,
                         expected : Expectations(t, op), base : {0}, expires : {0}]
  BY DEF Requests, NoExpiry
<1>. HIDE DEF where, howLong
<1>9. op \in Keyed => \A ks \in KeyLists(op) : Len(ks) = 1
  <2>1. op \in Keyed => op \notin Batched
    BY DEF Keyed, Batched
  <2>2. op \in Keyed => KeyLists(op) = {<<k>> : k \in Keys}
    BY <2>1 DEF KeyLists
  <2>3. \A k \in Keys : Len(<<k>>) = 1
    OBVIOUS
  <2>. QED  BY <2>2, <2>3
<1>7. where \in SUBSET Collections /\ howLong \in SUBSET Int /\ KeyLists(op) \in SUBSET Seq(Keys)
      /\ Expectations(t, op) \in SUBSET Nat
  BY <1>3, <1>4, <1>5
<1>8. ASSUME NEW w \in SUBSET Collections, NEW h \in SUBSET Int, NEW ks \in SUBSET Seq(Keys),
             NEW x \in SUBSET Nat,
             NEW q \in [op : {op}, collection : w, keys : ks, ttl : h, expected : x, base : {0},
                        expires : {0}]
      PROVE  q \in CallFields /\ q.op = op /\ q.keys \in ks /\ q.expected \in x
  <2>1. q.op \in AllOperations
    BY <1>1
  <2>2. q.collection \in Collections
    BY <1>8
  <2>3. q.keys \in Seq(Keys)
    BY <1>8
  <2>4. q.ttl \in h /\ q.expected \in x /\ q.base \in {0} /\ q.expires \in {0}
    OBVIOUS
  <2>6. q.ttl \in Int /\ q.expected \in Nat
    BY <2>4
  <2>7. q.base \in Nat /\ q.expires \in Nat
    BY <2>4
  <2>5. q = [op |-> q.op, collection |-> q.collection, keys |-> q.keys, ttl |-> q.ttl,
             expected |-> q.expected, base |-> q.base, expires |-> q.expires]
    OBVIOUS
  <2>. QED  BY <2>1, <2>2, <2>3, <2>5, <2>6, <2>7 DEF CallFields
<1>10. /\ request \in CallFields /\ request.op = op /\ request.keys \in KeyLists(op)
       /\ request.expected \in Expectations(t, op)
  BY <1>6, <1>7, <1>8
<1>11. op = "compare_and_delete" => 0 \notin Expectations(t, op)
  BY DEF Expectations
<1>. QED  BY <1>9, <1>10, <1>11 DEF Call

\* A call that begins, or is refused before it does.
LEMMA BeginTyped ==
    ASSUME StoreTypeOK, NEW t \in Tasks, Begin(t) \/ Reject(t)
    PROVE  StoreTypeOK'
<1>1. CASE Begin(t)
  <2>0. PICK op \in Operations : \E request \in Requests(t, op) :
            /\ call' = [call EXCEPT ![t] = request]
            /\ Goto(t, IF op \in {"cull", "destroy"} THEN "ready" ELSE "setup")
    BY <1>1 DEF Begin
  <2>1. PICK request \in Requests(t, op) :
            /\ call' = [call EXCEPT ![t] = request]
            /\ Goto(t, IF op \in {"cull", "destroy"} THEN "ready" ELSE "setup")
    BY <2>0
  <2>2. request \in Call
    BY RequestsTyped
  <2>3. call' \in [Tasks -> Call] /\ pc' \in [Tasks -> Stage]
    BY <2>1, <2>2 DEF StoreTypeOK, Goto, Stage
  <2>4. calls' \in Nat /\ outcome' \in [Tasks -> Outcome]
    BY <1>1 DEF Begin, StoreTypeOK, Answer, Outcome
  <2>. QED  BY <1>1, <2>3, <2>4 DEF Begin, StoreTypeOK, mapVars, lockVars, ghostVars
<1>2. CASE Reject(t)
  BY <1>2 DEF Reject, StoreTypeOK, Answer, Outcome, mapVars, lockVars, ghostVars
<1>. QED  BY <1>1, <1>2

\* setup: the wait for its lock and its end.
LEMMA SetupTyped ==
    ASSUME StoreTypeOK, NEW t \in Tasks, SetupAlreadyComplete(t) \/ SetupBegin(t) \/ SetupDone(t)
    PROVE  StoreTypeOK'
<1>1. AfterSetup(call[t].op) \in Stage
  BY DEF AfterSetup, Stage
<1>2. {item[1] : item \in Seed} \subseteq Collections
  BY SeedAssumption
<1>3. CASE SetupAlreadyComplete(t)
  BY <1>1, <1>3 DEF SetupAlreadyComplete, StoreTypeOK, Goto, mapVars, lockVars, ghostVars
<1>4. CASE SetupBegin(t)
  BY <1>2, <1>4 DEF SetupBegin, StoreTypeOK, Goto, Stage, mapVars, ghostVars
<1>5. CASE SetupDone(t)
  BY <1>1, <1>5 DEF SetupDone, StoreTypeOK, Goto, mapVars, ghostVars
<1>. QED  BY <1>3, <1>4, <1>5

\* Seeding, whether it succeeds or fails half-way.
LEMMA SeedTyped ==
    ASSUME StoreTypeOK, NEW t \in Tasks, NEW c \in Collections,
           SeedCollection(t, c) \/ SeedFails(t, c)
    PROVE  StoreTypeOK'
<1>0. store \in [Collections \X Keys -> Slot] /\ tokens \in Nat
  BY DEF StoreTypeOK
<1>1. \A n \in Nat : NewTokens(n) \subseteq Nat
  BY <1>0 DEF NewTokens
<1>2. CASE SeedCollection(t, c)
  <2>. DEFINE ks == SeedKeys(c)
              col == Seeded(c, ks)
  <2>1. ks \in SUBSET Keys
    BY DEF SeedKeys
  <2>2. col \in [Keys -> Slot] /\ Cardinality(ks) \in Nat
    BY <1>0, <2>1, SeededTyped
  <2>3. Without(col, EnforceCapacity(col)) \in [Keys -> Slot]
    BY <1>0, <2>2, ColumnsTyped
  <2>4. WithColumn(c, Without(col, EnforceCapacity(col))) \in [Collections \X Keys -> Slot]
    BY <1>0, <2>3, WithColumnIs
  <2>. HIDE DEF ks, col
  <2>5. /\ store' = WithColumn(c, Without(col, EnforceCapacity(col)))
        /\ tokens' = tokens + Cardinality(ks)
        /\ seedTokens' = seedTokens \cup NewTokens(Cardinality(ks))
    BY <1>2 DEF SeedCollection, ks, col
  <2>7. NewTokens(Cardinality(ks)) \subseteq Nat
    BY <1>1, <2>2
  <2>8. store' \in [Collections \X Keys -> Slot] /\ tokens' \in Nat
        /\ seedTokens' \in SUBSET Nat
    <3>1. store' \in [Collections \X Keys -> Slot]
      BY <2>4, <2>5
    <3>2. tokens' \in Nat
      BY <1>0, <2>2, <2>5 DEF ks
    <3>3. seedTokens' \in SUBSET Nat
      BY <2>5, <2>7 DEF StoreTypeOK
    <3>. QED  BY <3>1, <3>2, <3>3
  <2>6. exists' \in SUBSET Collections /\ todo' \in [Tasks -> SUBSET Collections]
    BY <1>2 DEF SeedCollection, StoreTypeOK
  <2>. QED  BY <1>2, <2>6, <2>8 DEF SeedCollection, StoreTypeOK, lockVars
<1>3. CASE SeedFails(t, c)
  <2>1. PICK ks \in SUBSET SeedKeys(c) :
          /\ exists' = exists \cup {c}
          /\ store' = WithColumn(c, Seeded(c, ks))
          /\ tokens' = tokens + Cardinality(ks)
          /\ seedTokens' = seedTokens \cup NewTokens(Cardinality(ks))
    BY <1>3 DEF SeedFails
  <2>2. ks \in SUBSET Keys
    BY DEF SeedKeys
  <2>3. Seeded(c, ks) \in [Keys -> Slot] /\ Cardinality(ks) \in Nat
    BY <1>0, <2>2, SeededTyped
  <2>4. store' \in [Collections \X Keys -> Slot]
    BY <1>0, <2>1, <2>3, WithColumnIs
  <2>6. NewTokens(Cardinality(ks)) \subseteq Nat
    BY <1>1, <2>3
  <2>5. tokens' \in Nat /\ seedTokens' \in SUBSET Nat /\ exists' \in SUBSET Collections
    <3>1. tokens' \in Nat
      BY <1>0, <2>1, <2>3
    <3>2. seedTokens' \in SUBSET Nat
      BY <2>1, <2>6 DEF StoreTypeOK
    <3>3. exists' \in SUBSET Collections
      BY <2>1 DEF StoreTypeOK
    <3>. QED  BY <3>1, <3>2, <3>3
  <2>. QED  BY <1>3, <2>4, <2>5 DEF SeedFails, StoreTypeOK, Goto, Answer, Stage, Outcome
<1>. QED  BY <1>2, <1>3

\* The collection is created and the tokens are drawn, or the call fails there.
LEMMA CreateTyped ==
    ASSUME StoreTypeOK, NEW t \in Tasks, CreateCollection(t) \/ PrepareFails(t)
    PROVE  StoreTypeOK'
<1>1. call[t] \in Call /\ call[t].collection \in Collections /\ call[t].ttl \in Int
      /\ call[t].keys \in Seq(Keys)
  BY DEF StoreTypeOK, Call, CallFields
<1>2. Len(call[t].keys) \in Nat /\ tokens \in Nat /\ now \in Nat
  BY <1>1 DEF StoreTypeOK
<1>3. TokensNeeded(call[t]) \in Nat
  BY <1>2 DEF TokensNeeded
<1>4. CASE CreateCollection(t)
  <2>1. ExpirationAt(call[t].ttl) \in Nat
    BY <1>1, <1>2, <1>4 DEF CreateCollection, ValidTtl, ExpirationAt, NoExpiry
  <2>2. call' = [call EXCEPT ![t].base = tokens, ![t].expires = ExpirationAt(call[t].ttl)]
    BY <1>4 DEF CreateCollection
  <2>3. [call[t] EXCEPT !.base = tokens, !.expires = ExpirationAt(call[t].ttl)] \in Call
    BY <1>1, <1>2, <2>1 DEF Call, CallFields
  <2>4. call' = [call EXCEPT ![t] =
                    [call[t] EXCEPT !.base = tokens, !.expires = ExpirationAt(call[t].ttl)]]
    BY <2>2 DEF StoreTypeOK
  <2>5. call' \in [Tasks -> Call]
    BY <2>3, <2>4 DEF StoreTypeOK
  <2>6. tokens' \in Nat /\ exists' \in SUBSET Collections
    BY <1>1, <1>2, <1>3, <1>4 DEF CreateCollection, StoreTypeOK
  <2>. QED  BY <1>4, <2>5, <2>6 DEF CreateCollection, StoreTypeOK, Goto, Stage, lockVars, ghostVars
<1>5. CASE PrepareFails(t)
  <2>1. exists' \in SUBSET Collections
    BY <1>1, <1>5 DEF PrepareFails, StoreTypeOK
  <2>. QED  BY <1>5, <2>1 DEF PrepareFails, StoreTypeOK, Goto, Answer, Stage, Outcome, lockVars,
                             ghostVars
<1>. QED  BY <1>4, <1>5

\* The map is changed and the changes are to be recorded.
LEMMA RecordTyped ==
    ASSUME StoreTypeOK, NEW t \in Tasks, NEW list \in Seq(Announcement), Record(t, list),
           exists' \in SUBSET Collections, store' \in [Collections \X Keys -> Slot],
           held' \in [Tasks -> Nat], outcome' \in [Tasks -> Outcome], wins' \in Seq(Nat)
    PROVE  StoreTypeOK'
BY DEF Record, StoreTypeOK, Goto, Stage

\* The call ends with nothing to record.
LEMMA LeaveTyped ==
    ASSUME StoreTypeOK, NEW t \in Tasks, NEW result \in Outcome, Leave(t, result),
           exists' \in SUBSET Collections, store' \in [Collections \X Keys -> Slot],
           held' \in [Tasks -> Nat]
    PROVE  StoreTypeOK'
BY DEF Leave, StoreTypeOK, Goto, Answer, Stage, lockVars, ghostVars

\* What a call holds on to.
LEMMA CallTyped ==
    ASSUME StoreTypeOK, NEW t \in Tasks
    PROVE  /\ call[t] \in Call /\ call[t].collection \in Collections
           /\ call[t].keys \in Seq(Keys) /\ call[t].expected \in Nat
           /\ call[t].base \in Nat /\ call[t].expires \in Nat
           /\ store \in [Collections \X Keys -> Slot]
           /\ call[t].op \in Keyed => call[t].keys[1] \in Keys /\ Len(call[t].keys) = 1
           /\ call[t].op = "compare_and_delete" => call[t].expected # 0
<1>1. call[t] \in Call /\ store \in [Collections \X Keys -> Slot]
  BY DEF StoreTypeOK
<1>2. /\ call[t] \in CallFields
      /\ call[t].op \in Keyed => Len(call[t].keys) = 1
      /\ call[t].op = "compare_and_delete" => call[t].expected # 0
  BY <1>1 DEF Call
<1>3. /\ call[t].collection \in Collections /\ call[t].keys \in Seq(Keys)
      /\ call[t].expected \in Nat /\ call[t].base \in Nat /\ call[t].expires \in Nat
  BY <1>2 DEF CallFields
<1>. QED  BY <1>1, <1>2, <1>3

\* The tokens a caller may learn.
LEMMA LearntTyped ==
    ASSUME StoreTypeOK, NEW t \in Tasks, NEW c \in Collections, NEW k \in Keys
    PROVE  [held EXCEPT ![t] = IF Live(c, k) THEN store[<<c, k>>].token ELSE 0] \in [Tasks -> Nat]
<1>1. held \in [Tasks -> Nat]
  BY DEF StoreTypeOK
<1>2. store[<<c, k>>].token \in Nat
  BY DEF StoreTypeOK, Slot
<1>. QED  BY <1>1, <1>2

\* A read, or a list of the collections.
LEMMA ReadTyped ==
    ASSUME StoreTypeOK, NEW t \in Tasks,
           \/ Get(t) \/ Ttl(t) \/ GetMany(t) \/ TtlMany(t) \/ ListKeys(t)
           \/ GetWithRevision(t) \/ ListCollections(t)
    PROVE  StoreTypeOK'
<1>1. ASSUME NEW op, ReadCollection(t, op), held' \in [Tasks -> Nat]
      PROVE  StoreTypeOK'
  BY <1>1 DEF ReadCollection, StoreTypeOK, Goto, Answer, Stage, Outcome, mapVars, lockVars, ghostVars
<1>2. CASE Get(t) \/ Ttl(t) \/ GetMany(t) \/ TtlMany(t) \/ ListKeys(t)
  BY <1>1, <1>2 DEF Get, Ttl, GetMany, TtlMany, ListKeys, StoreTypeOK
<1>3. CASE GetWithRevision(t)
  <2>1. call[t].op \in Keyed
    BY <1>3 DEF GetWithRevision, ReadCollection, Keyed
  <2>2. held' \in [Tasks -> Nat]
    BY <1>3, <2>1, CallTyped, LearntTyped DEF GetWithRevision
  <2>. QED  BY <1>1, <1>3, <2>2 DEF GetWithRevision
<1>4. CASE ListCollections(t)
  BY <1>4 DEF ListCollections, StoreTypeOK, Goto, Answer, Stage, Outcome, mapVars, lockVars,
              ghostVars
<1>. QED  BY <1>2, <1>3, <1>4

\* put and put_many.
LEMMA InsertTyped ==
    ASSUME StoreTypeOK, NEW t \in Tasks, Insert(t)
    PROVE  StoreTypeOK'
<1>. DEFINE c == call[t].collection
            puts == Announce(c, call[t].keys, "Put")
<1>1. Inserted(t) \in [Keys -> Slot] /\ c \in Collections
  BY CallTyped, InsertedTyped
<1>2. puts \in Seq(Announcement)
  BY CallTyped, AnnounceTyped DEF ChangeOperation
<1>3. outcome' \in [Tasks -> Outcome] /\ exists' \in SUBSET Collections /\ held' \in [Tasks -> Nat]
      /\ wins' \in Seq(Nat)
  BY DEF Insert, StoreTypeOK, Answer, Outcome
<1>4. CASE /\ store' = WithColumn(c, Without(Inserted(t), EnforceCapacity(Inserted(t))))
           /\ \E removed \in Removals(Inserted(t)) :
                Record(t, puts \o Announce(c, removed, "Delete"))
  <2>1. PICK removed \in Removals(Inserted(t)) : Record(t, puts \o Announce(c, removed, "Delete"))
    BY <1>4
  <2>2. Announce(c, removed, "Delete") \in Seq(Announcement)
    BY <1>1, RemovalsTyped, AnnounceTyped DEF ChangeOperation
  <2>3. puts \o Announce(c, removed, "Delete") \in Seq(Announcement)
    BY <1>2, <2>2
  <2>4. store' \in [Collections \X Keys -> Slot]
    BY <1>1, <1>4, CallTyped, ColumnsTyped, WithColumnIs
  <2>. QED  BY <1>3, <2>1, <2>3, <2>4, RecordTyped
<1>5. CASE UNCHANGED store /\ Record(t, puts)
  BY <1>2, <1>3, <1>5, CallTyped, RecordTyped
<1>. QED  BY <1>4, <1>5 DEF Insert

\* delete and delete_many.
LEMMA RemoveTyped ==
    ASSUME StoreTypeOK, NEW t \in Tasks, Remove(t)
    PROVE  StoreTypeOK'
<1>. DEFINE c == call[t].collection
<1>1. c \in Collections /\ Found(t) \subseteq Keys /\ IsFiniteSet(Keys)
  BY CallTyped, FiniteAssumption DEF Found, Asked
<1>2. FoundInOrder(t) \subseteq Seq(Keys)
  BY <1>1, FS_Subset, ListingsAreSeqs DEF FoundInOrder
<1>3. CASE /\ store' = WithColumn(c, Without(Column(c), Asked(t)))
           /\ \E keys \in FoundInOrder(t) : Record(t, Announce(c, keys, "Delete"))
           /\ Answer(t, "ok")
           /\ UNCHANGED <<exists, held, wins>>
  <2>1. PICK keys \in FoundInOrder(t) : Record(t, Announce(c, keys, "Delete"))
    BY <1>3
  <2>2. Announce(c, keys, "Delete") \in Seq(Announcement)
    BY <1>1, <1>2, AnnounceTyped DEF ChangeOperation
  <2>3. Column(c) \in [Keys -> Slot]
    BY <1>1, CallTyped, ColumnsTyped
  <2>4. store' \in [Collections \X Keys -> Slot]
    BY <1>1, <1>3, <2>3, CallTyped, ColumnsTyped, WithColumnIs
  <2>5. outcome' \in [Tasks -> Outcome] /\ exists' \in SUBSET Collections
        /\ held' \in [Tasks -> Nat] /\ wins' \in Seq(Nat)
    BY <1>3 DEF StoreTypeOK, Answer, Outcome
  <2>. QED  BY <2>1, <2>2, <2>4, <2>5, RecordTyped
<1>4. CASE Leave(t, "missing") /\ UNCHANGED <<mapVars, held>>
  BY <1>4, LeaveTyped DEF StoreTypeOK, Outcome, mapVars
<1>. QED  BY <1>3, <1>4 DEF Remove

\* compare_and_swap and compare_and_delete.
LEMMA ConditionalTyped ==
    ASSUME StoreTypeOK, NEW t \in Tasks, CompareAndSwap(t) \/ CompareAndDelete(t)
    PROVE  StoreTypeOK'
<1>. DEFINE c == call[t].collection
            k == call[t].keys[1]
            expected == call[t].expected
            new == [token |-> NewRevision(t), expires |-> call[t].expires]
<1>1. c \in Collections /\ k \in Keys /\ expected \in Nat /\ new \in Slot /\ Empty \in Slot
  <2>1. call[t].op \in Keyed
    BY DEF CompareAndSwap, CompareAndDelete, Commit, Keyed
  <2>2. call[t].base \in Nat /\ call[t].expires \in Nat
    BY CallTyped
  <2>3. new \in Slot
    BY <2>2 DEF Slot, NewRevision
  <2>4. Empty \in Slot
    BY DEF Slot, Empty, NoExpiry
  <2>. QED  BY <2>1, <2>3, <2>4, CallTyped
<1>2. /\ exists \in SUBSET Collections /\ store \in [Collections \X Keys -> Slot]
      /\ held \in [Tasks -> Nat] /\ outcome \in [Tasks -> Outcome] /\ wins \in Seq(Nat)
  BY DEF StoreTypeOK
<1>3. \A slot \in Slot : [store EXCEPT ![<<c, k>>] = slot] \in [Collections \X Keys -> Slot]
  BY <1>1, <1>2
<1>4. \A op \in ChangeOperation : Announce(c, <<k>>, op) \in Seq(Announcement)
  <2>1. <<k>> \in Seq(Keys)
    BY <1>1
  <2>. QED  BY <1>1, <2>1, AnnounceTyped
<1>5. [held EXCEPT ![t] = IF Live(c, k) THEN store[<<c, k>>].token ELSE 0] \in [Tasks -> Nat]
  BY <1>1, LearntTyped
<1>6. Append(wins, expected) \in Seq(Nat)
  BY <1>1, <1>2
<1>7. [held EXCEPT ![t] = new.token] \in [Tasks -> Nat]
  BY <1>1, <1>2 DEF Slot
<1>. HIDE DEF c, k, expected, new
<1>8. ASSUME NEW op \in ChangeOperation, Record(t, Announce(c, <<k>>, op)), Answer(t, "ok"),
             UNCHANGED exists, held' \in [Tasks -> Nat], wins' \in {wins, Append(wins, expected)},
             \E slot \in Slot : store' = [store EXCEPT ![<<c, k>>] = slot]
      PROVE  StoreTypeOK'
  <2>1. outcome' \in [Tasks -> Outcome]
    BY <1>2, <1>8 DEF Answer, Outcome
  <2>2. wins' \in Seq(Nat) /\ store' \in [Collections \X Keys -> Slot]
        /\ exists' \in SUBSET Collections
    BY <1>2, <1>3, <1>6, <1>8
  <2>. QED  BY <1>4, <1>8, <2>1, <2>2, RecordTyped
<1>9. ASSUME NEW result \in {"conflict", "missing"}, Leave(t, result), UNCHANGED exists,
             held' \in [Tasks -> Nat],
             store' \in {store, [store EXCEPT ![<<c, k>>] = Empty]}
      PROVE  StoreTypeOK'
  <2>1. store' \in [Collections \X Keys -> Slot] /\ exists' \in SUBSET Collections
        /\ result \in Outcome
    BY <1>1, <1>2, <1>3, <1>9 DEF Outcome
  <2>. QED  BY <1>9, <2>1, LeaveTyped
<1>10. CASE CompareAndSwap(t)
  <2>1. \/ /\ store' = [store EXCEPT ![<<c, k>>] = new]
           /\ Record(t, Announce(c, <<k>>, "Put"))
           /\ Answer(t, "ok")
           /\ held' = [held EXCEPT ![t] = new.token]
           /\ wins' \in {wins, Append(wins, expected)}
        \/ /\ store' \in {store, [store EXCEPT ![<<c, k>>] = Empty]}
           /\ Leave(t, "conflict")
           /\ held' = [held EXCEPT ![t] = IF Live(c, k) THEN store[<<c, k>>].token ELSE 0]
        \/ /\ Leave(t, "missing")
           /\ UNCHANGED <<store, held>>
    BY <1>10 DEF CompareAndSwap, c, k, expected, new
  <2>2. UNCHANGED exists
    BY <1>10 DEF CompareAndSwap
  <2>3. "Put" \in ChangeOperation
    BY DEF ChangeOperation
  <2>. QED  BY <1>1, <1>2, <1>5, <1>7, <1>8, <1>9, <2>1, <2>2, <2>3
<1>11. CASE CompareAndDelete(t)
  <2>1. \/ /\ store' = [store EXCEPT ![<<c, k>>] = Empty]
           /\ Record(t, Announce(c, <<k>>, "Delete"))
           /\ Answer(t, "ok")
           /\ wins' = Append(wins, expected)
           /\ UNCHANGED held
        \/ /\ store' \in {store, [store EXCEPT ![<<c, k>>] = Empty]}
           /\ Leave(t, "conflict")
           /\ held' = [held EXCEPT ![t] = IF Live(c, k) THEN store[<<c, k>>].token ELSE 0]
        \/ /\ Leave(t, "missing")
           /\ UNCHANGED <<store, held>>
    BY <1>11 DEF CompareAndDelete, c, k, expected
  <2>2. UNCHANGED exists
    BY <1>11 DEF CompareAndDelete
  <2>3. "Delete" \in ChangeOperation
    BY DEF ChangeOperation
  <2>. QED  BY <1>1, <1>2, <1>5, <1>8, <1>9, <2>1, <2>2, <2>3
<1>. QED  BY <1>10, <1>11

\* cull.
LEMMA CullTyped ==
    ASSUME StoreTypeOK, NEW t \in Tasks, Cull(t)
    PROVE  StoreTypeOK'
<1>. DEFINE lapsed == {item \in Collections \X Keys :
                          Present(item[1], item[2]) /\ IsExpired(store[item])}
            list(items) == [i \in 1 .. Len(items) |->
                               [collection |-> items[i][1], key |-> items[i][2],
                                operation |-> "Delete"]]
<1>1. IsFiniteSet(lapsed) /\ lapsed \subseteq Collections \X Keys
  BY FiniteAssumption, FS_Product, FS_Subset
<1>2. Listings(lapsed) \subseteq Seq(Collections \X Keys)
  BY <1>1, ListingsAreSeqs
<1>. HIDE DEF lapsed
<1>3. PICK items \in Listings(lapsed) : Record(t, list(items))
  BY DEF Cull, lapsed
<1>4. list(items) \in Seq(Announcement)
  <2>1. Len(items) \in Nat /\ \A i \in 1 .. Len(items) : items[i] \in Collections \X Keys
    BY <1>2
  <2>2. \A i \in 1 .. Len(items) : items[i][1] \in Collections /\ items[i][2] \in Keys
    BY <2>1
  <2>. QED  BY <2>1, <2>2 DEF Announcement, ChangeOperation
<1>. HIDE DEF list
<1>5. store' \in [Collections \X Keys -> Slot]
  <2>1. store' = [at \in Collections \X Keys |-> IF at \in lapsed THEN Empty ELSE store[at]]
    BY DEF Cull, lapsed
  <2>. QED  BY <2>1, CallTyped, ColumnsTyped
<1>6. outcome' \in [Tasks -> Outcome] /\ exists' \in SUBSET Collections
      /\ held' \in [Tasks -> Nat] /\ wins' \in Seq(Nat)
  BY DEF Cull, StoreTypeOK, Answer, Outcome
<1>. QED  BY <1>3, <1>4, <1>5, <1>6, RecordTyped

\* Emptying a collection.
LEMMA EmptiedTyped ==
    ASSUME store \in [Collections \X Keys -> Slot], NEW c \in Collections
    PROVE  WithColumn(c, [k \in Keys |-> Empty]) \in [Collections \X Keys -> Slot]
<1>1. [k \in Keys |-> Empty] \in [Keys -> Slot]
  BY ColumnsTyped
<1>. QED  BY <1>1, WithColumnIs

\* destroy_collection.
LEMMA DestroyCollectionTyped ==
    ASSUME StoreTypeOK, NEW t \in Tasks, DestroyCollection(t)
    PROVE  StoreTypeOK'
<1>. DEFINE c == call[t].collection
            there == {k \in Keys : Present(c, k)}
<1>1. c \in Collections /\ store \in [Collections \X Keys -> Slot]
  BY CallTyped
<1>2. Listings(there) \subseteq Seq(Keys)
  BY FiniteAssumption, FS_Subset, ListingsAreSeqs
<1>3. CASE /\ exists' = exists \ {c}
           /\ store' = WithColumn(c, [k \in Keys |-> Empty])
           /\ \E keys \in Listings(there) : Record(t, Announce(c, keys, "Delete"))
           /\ Answer(t, "ok")
           /\ UNCHANGED <<held, wins>>
  <2>1. PICK keys \in Listings(there) : Record(t, Announce(c, keys, "Delete"))
    BY <1>3
  <2>2. Announce(c, keys, "Delete") \in Seq(Announcement)
    BY <1>1, <1>2, AnnounceTyped DEF ChangeOperation
  <2>3. store' \in [Collections \X Keys -> Slot]
    BY <1>1, <1>3, EmptiedTyped
  <2>4. outcome' \in [Tasks -> Outcome] /\ exists' \in SUBSET Collections
        /\ held' \in [Tasks -> Nat] /\ wins' \in Seq(Nat)
    BY <1>3 DEF StoreTypeOK, Answer, Outcome
  <2>. QED  BY <2>1, <2>2, <2>3, <2>4, RecordTyped
<1>4. CASE Leave(t, "ok") /\ UNCHANGED <<mapVars, held>>
  BY <1>4, LeaveTyped DEF StoreTypeOK, Outcome, mapVars
<1>. QED  BY <1>3, <1>4 DEF DestroyCollection

\* destroy, from its start to its end.
LEMMA DestroyTyped ==
    ASSUME FeedTypeOK, StoreTypeOK, NEW t \in Tasks,
           \/ DestroyBegin(t) \/ DestroyDone(t)
           \/ \E c \in Collections : ClearCollection(t, c)
    PROVE  StoreTypeOK'
<1>1. CASE DestroyBegin(t)
  BY <1>1 DEF DestroyBegin, StoreTypeOK, Goto, Stage, mapVars, ghostVars
<1>2. CASE DestroyDone(t)
  <2>1. revision \in Nat
    BY MaxRevisionAssumption DEF FeedTypeOK
  <2>. QED  BY <1>2, <2>1 DEF DestroyDone, StoreTypeOK, Goto, Answer, Stage, Outcome, mapVars
<1>3. ASSUME NEW c \in Collections, ClearCollection(t, c)
      PROVE  StoreTypeOK'
  <2>1. store' \in [Collections \X Keys -> Slot]
    BY <1>3, CallTyped, EmptiedTyped DEF ClearCollection
  <2>2. exists' \in SUBSET Collections /\ todo' \in [Tasks -> SUBSET Collections]
    BY <1>3 DEF ClearCollection, StoreTypeOK
  <2>. QED  BY <1>3, <2>1, <2>2 DEF ClearCollection, StoreTypeOK, lockVars, ghostVars
<1>. QED  BY <1>1, <1>2, <1>3

\* record_change, the end of the call, and its cancellation.
LEMMA RecordingTyped ==
    ASSUME StoreTypeOK, NEW t \in Tasks, RecordNext(t) \/ Return(t) \/ Cancel(t)
    PROVE  StoreTypeOK'
<1>1. CASE RecordNext(t)
  <2>1. pending[t] \in Seq(Announcement)
    BY DEF StoreTypeOK
  <2>2. Tail(pending[t]) \in Seq(Announcement)
    BY <1>1, <2>1 DEF RecordNext
  <2>3. pending' \in [Tasks -> Seq(Announcement)]
    BY <1>1, <2>2 DEF RecordNext, StoreTypeOK
  <2>4. mirror' \in [Collections \X Keys -> BOOLEAN]
    BY <1>1 DEF RecordNext, StoreTypeOK
  <2>. QED  BY <1>1, <2>3, <2>4 DEF RecordNext, StoreTypeOK, mapVars, lockVars
<1>2. CASE Return(t)
  BY <1>2 DEF Return, StoreTypeOK, Goto, Stage, mapVars, ghostVars
<1>3. CASE Cancel(t)
  BY <1>3 DEF Cancel, StoreTypeOK, Goto, Answer, Stage, Outcome, mapVars, ghostVars
<1>. QED  BY <1>1, <1>2, <1>3

\* Steps of the environment that touch the feed, or the clock, and nothing else.
LEMMA OthersTyped ==
    ASSUME StoreTypeOK,
           \/ Tick \/ DropStore \/ UNCHANGED vars
           \/ \E s \in Subscribers : StoreSubscribe(s) \/ StreamStep(s)
    PROVE  StoreTypeOK'
<1>1. CASE Tick
  BY <1>1 DEF Tick, StoreTypeOK, mapVars, lockVars, taskVars, ghostVars
<1>2. CASE UNCHANGED storeVars
  BY <1>2 DEF StoreTypeOK, storeVars, mapVars, lockVars, taskVars, ghostVars
<1>. QED  BY <1>1, <1>2 DEF DropStore, StoreSubscribe, StreamStep, vars

\* Every step keeps the store's state well formed.
LEMMA StoreStepTyped ==
    ASSUME FeedTypeOK, StoreTypeOK, [Next]_vars
    PROVE  StoreTypeOK'
<1>1. ASSUME NEW t \in Tasks, Step(t) PROVE StoreTypeOK'
  <2>1. CASE SetupAlreadyComplete(t) \/ SetupBegin(t) \/ SetupDone(t)
    BY <2>1, SetupTyped
  <2>2. CASE \E c \in Collections : SeedCollection(t, c) \/ SeedFails(t, c)
    BY <2>2, SeedTyped
  <2>3. CASE CreateCollection(t) \/ PrepareFails(t)
    BY <2>3, CreateTyped
  <2>4. CASE \/ Get(t) \/ Ttl(t) \/ GetMany(t) \/ TtlMany(t) \/ ListKeys(t)
             \/ GetWithRevision(t) \/ ListCollections(t)
    BY <2>4, ReadTyped
  <2>5. CASE Put(t) \/ PutMany(t)
    BY <2>5, InsertTyped DEF Put, PutMany
  <2>6. CASE Delete(t) \/ DeleteMany(t)
    BY <2>6, RemoveTyped DEF Delete, DeleteMany
  <2>7. CASE CompareAndSwap(t) \/ CompareAndDelete(t)
    BY <2>7, ConditionalTyped
  <2>8. CASE Cull(t)
    BY <2>8, CullTyped
  <2>9. CASE DestroyCollection(t)
    BY <2>9, DestroyCollectionTyped
  <2>10. CASE \/ DestroyBegin(t) \/ DestroyDone(t)
              \/ \E c \in Collections : ClearCollection(t, c)
    BY <2>10, DestroyTyped
  <2>11. CASE RecordNext(t) \/ Return(t)
    BY <2>11, RecordingTyped
  <2>. QED  BY <1>1, <2>1, <2>2, <2>3, <2>4, <2>5, <2>6, <2>7, <2>8, <2>9, <2>10, <2>11 DEF Step
<1>2. ASSUME NEW t \in Tasks, Begin(t) \/ Reject(t) \/ Cancel(t) PROVE StoreTypeOK'
  BY <1>2, BeginTyped, RecordingTyped
<1>3. CASE \/ Tick \/ DropStore \/ UNCHANGED vars
           \/ \E s \in Subscribers : StoreSubscribe(s) \/ StreamStep(s)
  BY <1>3, OthersTyped
<1>. QED  BY <1>1, <1>2, <1>3 DEF Next

-----------------------------------------------------------------------------
(* The store's steps are steps of its feed *)

\* A call changes the feed only where it records a change.
LEMMA StepIsFeedStep ==
    ASSUME StoreTypeOK, NEW t \in Tasks, Step(t)
    PROVE  \/ UNCHANGED feedVars
           \/ \E c \in Collections, k \in Keys, op \in ChangeOperation : RecordChange(c, k, op)
<1>1. \A list : Record(t, list) => UNCHANGED feedVars
  BY DEF Record
<1>2. \A result : Leave(t, result) => UNCHANGED feedVars
  BY DEF Leave
<1>3. CASE SetupAlreadyComplete(t) \/ SetupBegin(t) \/ SetupDone(t)
  BY <1>3 DEF SetupAlreadyComplete, SetupBegin, SetupDone
<1>4. CASE \E c \in Collections : SeedCollection(t, c) \/ SeedFails(t, c) \/ ClearCollection(t, c)
  BY <1>4 DEF SeedCollection, SeedFails, ClearCollection
<1>5. CASE CreateCollection(t) \/ PrepareFails(t)
  BY <1>5 DEF CreateCollection, PrepareFails
<1>6. CASE \/ Get(t) \/ Ttl(t) \/ GetMany(t) \/ TtlMany(t) \/ ListKeys(t)
           \/ GetWithRevision(t) \/ ListCollections(t)
  BY <1>6 DEF Get, Ttl, GetMany, TtlMany, ListKeys, GetWithRevision, ListCollections, ReadCollection
<1>7. CASE Put(t) \/ PutMany(t)
  BY <1>1, <1>7 DEF Put, PutMany, Insert
<1>8. CASE Delete(t) \/ DeleteMany(t)
  BY <1>1, <1>2, <1>8 DEF Delete, DeleteMany, Remove
<1>9. CASE CompareAndSwap(t)
  BY <1>1, <1>2, <1>9 DEF CompareAndSwap
<1>10. CASE CompareAndDelete(t)
  BY <1>1, <1>2, <1>10 DEF CompareAndDelete
<1>11. CASE Cull(t)
  BY <1>1, <1>11 DEF Cull
<1>12. CASE DestroyCollection(t)
  BY <1>1, <1>2, <1>12 DEF DestroyCollection
<1>13. CASE DestroyBegin(t) \/ DestroyDone(t) \/ Return(t)
  BY <1>13 DEF DestroyBegin, DestroyDone, Return
<1>14. CASE RecordNext(t)
  <2>1. Head(pending[t]) \in Announcement
    BY <1>14 DEF RecordNext, StoreTypeOK
  <2>2. /\ Head(pending[t]).collection \in Collections /\ Head(pending[t]).key \in Keys
        /\ Head(pending[t]).operation \in ChangeOperation
    BY <2>1 DEF Announcement
  <2>. QED  BY <1>14, <2>2 DEF RecordNext
<1>. QED  BY <1>3, <1>4, <1>5, <1>6, <1>7, <1>8, <1>9, <1>10, <1>11, <1>12, <1>13, <1>14 DEF Step

\* So does every other step.
LEMMA StoreStepIsFeedStep ==
    ASSUME StoreTypeOK, [Next]_vars
    PROVE  [FeedNext]_feedVars
<1>1. ASSUME NEW t \in Tasks, Step(t) PROVE [FeedNext]_feedVars
  BY <1>1, StepIsFeedStep DEF FeedNext
<1>2. ASSUME NEW t \in Tasks, Begin(t) \/ Reject(t) \/ Cancel(t) PROVE [FeedNext]_feedVars
  BY <1>2 DEF Begin, Reject, Cancel
<1>3. CASE Tick
  BY <1>3 DEF Tick
<1>4. CASE DropStore
  BY <1>4 DEF DropStore, FeedNext
<1>5. ASSUME NEW s \in Subscribers, StoreSubscribe(s) \/ StreamStep(s) PROVE [FeedNext]_feedVars
  BY <1>5 DEF StoreSubscribe, StreamStep, StreamNext, FeedNext
<1>6. CASE UNCHANGED vars
  BY <1>6 DEF vars
<1>. QED  BY <1>1, <1>2, <1>3, <1>4, <1>5, <1>6 DEF Next

\* The invariant of the store with its feed.
StoreInv == FeedInv /\ StoreTypeOK

\* It holds at the start and is kept by every step.
LEMMA StoreInvariant == Spec => []StoreInv
<1>1. Init => StoreInv
  BY InitTyped, FeedInitially DEF Init, StoreInv
<1>2. StoreInv /\ [Next]_vars => StoreInv'
  <2>. SUFFICES ASSUME StoreInv, [Next]_vars PROVE StoreInv'
    OBVIOUS
  <2>1. FeedInv'
    BY StoreStepIsFeedStep, FeedStepKeepsInv DEF StoreInv
  <2>2. StoreTypeOK'
    BY StoreStepTyped DEF StoreInv, FeedInv
  <2>. QED  BY <2>1, <2>2 DEF StoreInv
<1>. QED  BY <1>1, <1>2, PTL DEF Spec

\* The state of the store and of its feed is well formed, whatever the tasks,
\* their operations, the limits, the seeds, failures and cancellations.
THEOREM StoreTypeCorrect == Spec => []TypeOK
<1>1. StoreInv => TypeOK
  BY DEF StoreInv, FeedInv, TypeOK
<1>. QED  BY <1>1, StoreInvariant, PTL

\* What concurrent calls do to the feed is what the feed's own specification
\* allows: everything proved of the feed holds of the feed of the store.
THEOREM StoreImplementsFeed == Spec => FeedSpec
<1>1. Init => FeedInit
  BY DEF Init
<1>2. StoreInv /\ [Next]_vars => [FeedNext]_feedVars
  BY StoreStepIsFeedStep DEF StoreInv
<1>. QED  BY <1>1, <1>2, StoreInvariant, PTL DEF Spec, FeedSpec

\* A subscriber of the store, whatever calls run beside it, is handed every
\* change after the position it started at that its filter lets through and no
\* Lagged error stood for.
THEOREM StoreHasNoSilentGap == Spec => []NoSilentGap
BY StoreImplementsFeed, FeedHasNoSilentGap, PTL

-----------------------------------------------------------------------------
(* Revision tokens are consumed once *)

Slots == Collections \X Keys

\* The tokens a call has drawn and not yet used.
Drawn(t) ==
    IF pc[t] = "ready" /\ call[t].op \in Storing
      THEN call[t].base + 1 .. call[t].base + Len(call[t].keys)
      ELSE {}

Unused(x) ==
    /\ \A at \in Slots : store[at].token # x
    /\ \A i \in DOMAIN wins : wins[i] # x

\* Why ExclusiveWins holds: a token is with one call that has drawn it, or in one
\* slot, or consumed, and it never comes back.
TokensInStore ==
    /\ \A at \in Slots : store[at].token <= tokens
    /\ \A at, bt \in Slots :
          store[at].token # 0 /\ store[at].token = store[bt].token => at = bt

TokensSpent ==
    /\ \A i \in DOMAIN wins :
          wins[i] > 0 /\ wins[i] <= tokens /\ \A at \in Slots : store[at].token # wins[i]
    /\ ExclusiveWins

TokensDrawn ==
    /\ \A t \in Tasks : \A x \in Drawn(t) : x > 0 /\ x <= tokens /\ Unused(x)
    /\ \A t, u \in Tasks : t # u => Drawn(t) \cap Drawn(u) = {}

TokenInv == TokensInStore /\ TokensSpent /\ TokensDrawn

\* What a step may do to the tokens: put unused ones, F, into slots, each into one;
\* empty slots; consume the token of a slot that no longer holds it; draw tokens
\* that are new.
MovesTokens(F) ==
    /\ tokens' >= tokens
    /\ \A x \in F : x > 0 /\ x <= tokens' /\ Unused(x)
    /\ \A t \in Tasks : \A x \in Drawn(t)' :
          x > 0 /\ x <= tokens' /\ x \notin F /\ (x \in Drawn(t) \/ x > tokens)
    /\ \A t, u \in Tasks : t # u => Drawn(t)' \cap Drawn(u)' = {}
    /\ \A at \in Slots : \/ store'[at].token = 0
                         \/ store'[at].token = store[at].token
                         \/ store'[at].token \in F
    /\ \A at, bt \in Slots :
          store'[at].token \in F /\ store'[at].token = store'[bt].token => at = bt
    /\ \/ wins' = wins
       \/ \E at \in Slots : /\ store[at].token # 0
                            /\ store'[at].token # store[at].token
                            /\ wins' = Append(wins, store[at].token)

\* Such a step keeps the invariant.
LEMMA MovesTokensKeepsInv ==
    ASSUME StoreTypeOK, StoreTypeOK', TokenInv, NEW F \in SUBSET Nat, MovesTokens(F)
    PROVE  TokenInv'
<1>. USE DEF TokenInv
<1>1. /\ tokens \in Nat /\ tokens' \in Nat /\ wins \in Seq(Nat) /\ wins' \in Seq(Nat)
      /\ \A at \in Slots : store[at].token \in Nat /\ store'[at].token \in Nat
  BY DEF StoreTypeOK, Slot, Slots
<1>2. TokensInStore'
  <2>1. \A at \in Slots : store'[at].token <= tokens'
    BY <1>1 DEF MovesTokens, TokensInStore
  <2>2. ASSUME NEW at \in Slots, NEW bt \in Slots, store'[at].token # 0,
               store'[at].token = store'[bt].token
        PROVE  at = bt
    <3>1. CASE store'[at].token \in F
      BY <2>2, <3>1 DEF MovesTokens
    <3>2. CASE store'[at].token \notin F
      <4>1. store'[at].token = store[at].token /\ store'[bt].token = store[bt].token
        BY <2>2, <3>2 DEF MovesTokens
      <4>. QED  BY <2>2, <4>1 DEF TokensInStore
    <3>. QED  BY <3>1, <3>2
  <2>. QED  BY <2>1, <2>2 DEF TokensInStore, Slots
<1>3. \A x : (\A i \in DOMAIN wins : wins[i] # x) \/ x \notin F
  BY DEF MovesTokens, Unused
<1>4. TokensSpent'
  <2>0. \A i \in DOMAIN wins : \A at \in Slots : store'[at].token # wins[i]
    BY <1>1, <1>3 DEF MovesTokens, TokensSpent
  <2>1. CASE wins' = wins
    BY <1>1, <2>0, <2>1 DEF TokensSpent, ExclusiveWins, MovesTokens, Slots
  <2>2. ASSUME NEW at \in Slots, store[at].token # 0, store'[at].token # store[at].token,
               wins' = Append(wins, store[at].token)
        PROVE  TokensSpent'
    <3>. DEFINE x == store[at].token
    <3>1. /\ DOMAIN wins = 1 .. Len(wins) /\ DOMAIN wins' = 1 .. Len(wins) + 1 /\ Len(wins) \in Nat
          /\ \A i \in 1 .. Len(wins) : wins'[i] = wins[i]
          /\ wins'[Len(wins) + 1] = x
      BY <1>1, <2>2
    <3>2. x > 0 /\ x <= tokens' /\ \A i \in DOMAIN wins : wins[i] # x
      BY <1>1, <2>2 DEF TokensInStore, TokensSpent, MovesTokens
    <3>3. \A bt \in Slots : store'[bt].token # x
      <4>. SUFFICES ASSUME NEW bt \in Slots, store'[bt].token = x PROVE FALSE
        OBVIOUS
      <4>1. x \notin F
        BY DEF MovesTokens, Unused
      <4>2. store[bt].token = x
        BY <2>2, <4>1 DEF MovesTokens
      <4>. QED  BY <2>2, <4>2 DEF TokensInStore
    <3>4. \A i \in DOMAIN wins : wins[i] > 0 /\ wins[i] <= tokens'
      BY <1>1 DEF TokensSpent, MovesTokens
    <3>. HIDE DEF x
    <3>5. ASSUME NEW i \in DOMAIN wins'
          PROVE  wins'[i] > 0 /\ wins'[i] <= tokens' /\ \A bt \in Slots : store'[bt].token # wins'[i]
      BY <2>0, <3>1, <3>2, <3>3, <3>4
    <3>6. ASSUME NEW i \in DOMAIN wins', NEW j \in DOMAIN wins', wins'[i] = wins'[j]
          PROVE  i = j
      <4>1. \A k, l \in DOMAIN wins : wins[k] = wins[l] => k = l
        BY DEF TokensSpent, ExclusiveWins
      <4>. QED  BY <3>1, <3>2, <3>6, <4>1
    <3>. QED  BY <3>5, <3>6 DEF TokensSpent, ExclusiveWins, Slots
  <2>. QED  BY <2>1, <2>2 DEF MovesTokens
<1>5. TokensDrawn'
  <2>. SUFFICES ASSUME NEW t \in Tasks, NEW x \in Drawn(t)' PROVE Unused(x)'
    BY DEF TokensDrawn, MovesTokens
  <2>1. x > 0 /\ x \notin F /\ (x \in Drawn(t) \/ x > tokens)
    BY DEF MovesTokens
  <2>2. Unused(x)
    <3>1. CASE x \in Drawn(t)
      BY <3>1 DEF TokensDrawn
    <3>2. CASE x > tokens
      <4>1. \A at \in Slots : store[at].token <= tokens
        BY DEF TokensInStore
      <4>2. \A i \in DOMAIN wins : wins[i] <= tokens /\ wins[i] \in Nat
        BY <1>1 DEF TokensSpent
      <4>3. x \in Int
        BY <2>1, <3>2 DEF Drawn
      <4>. QED  BY <1>1, <3>2, <4>1, <4>2, <4>3 DEF Unused
    <3>. QED  BY <2>1, <3>1, <3>2
  <2>3. \A at \in Slots : store'[at].token # x
    BY <2>1, <2>2 DEF MovesTokens, Unused
  <2>4. \A i \in DOMAIN wins' : wins'[i] # x
    <3>1. CASE wins' = wins
      BY <2>2, <3>1 DEF Unused
    <3>2. ASSUME NEW at \in Slots, wins' = Append(wins, store[at].token)
          PROVE  \A i \in DOMAIN wins' : wins'[i] # x
      <4>1. store[at].token # x
        BY <2>2 DEF Unused
      <4>. QED  BY <1>1, <2>2, <3>2, <4>1 DEF Unused
    <3>. QED  BY <3>1, <3>2 DEF MovesTokens
  <2>. QED  BY <2>3, <2>4 DEF Unused, Slots
<1>. QED  BY <1>2, <1>4, <1>5

\* A task whose call moves on, other than to where its tokens are drawn, has drawn
\* no more than before, and nobody else has.
LEMMA DrawnOnlyShrinks ==
    ASSUME StoreTypeOK, NEW t \in Tasks, NEW stage, Goto(t, stage), UNCHANGED call,
           stage = "ready" => call[t].op \notin Storing
    PROVE  /\ \A u \in Tasks : Drawn(u)' \subseteq Drawn(u)
           /\ Drawn(t)' = {}
<1>1. pc' = [pc EXCEPT ![t] = stage] /\ pc \in [Tasks -> Stage] /\ call' = call
  BY DEF StoreTypeOK, Goto
<1>2. \A u \in Tasks : u # t => pc'[u] = pc[u]
  BY <1>1
<1>3. pc'[t] = stage
  BY <1>1
<1>4. Drawn(t)' = {}
  BY <1>1, <1>3 DEF Drawn
<1>5. ASSUME NEW u \in Tasks, u # t PROVE Drawn(u)' = Drawn(u)
  BY <1>1, <1>2, <1>5 DEF Drawn
<1>. QED  BY <1>4, <1>5

\* A step that at most empties slots and gives up drawn tokens.
Quiet ==
    /\ tokens' = tokens /\ wins' = wins
    /\ \A at \in Slots : store'[at].token \in {0, store[at].token}
    /\ \A u \in Tasks : Drawn(u)' \subseteq Drawn(u)

LEMMA QuietKeepsInv ==
    ASSUME StoreTypeOK, StoreTypeOK', TokenInv, Quiet
    PROVE  TokenInv'
<1>1. tokens \in Nat
  BY DEF StoreTypeOK
<1>2. \A t \in Tasks : \A x \in Drawn(t)' : x > 0 /\ x <= tokens' /\ x \in Drawn(t)
  BY DEF Quiet, TokenInv, TokensDrawn
<1>3. \A t, u \in Tasks : t # u => Drawn(t)' \cap Drawn(u)' = {}
  BY DEF Quiet, TokenInv, TokensDrawn
<1>4. MovesTokens({})
  BY <1>1, <1>2, <1>3 DEF MovesTokens, Quiet
<1>. QED  BY <1>4, MovesTokensKeepsInv

\* Emptying slots of a collection puts no token anywhere.
LEMMA EmptyingIsQuiet ==
    ASSUME StoreTypeOK, NEW c \in Collections, NEW dropped
    PROVE  /\ \A at \in Slots :
                 WithColumn(c, Without(Column(c), dropped))[at].token \in {0, store[at].token}
           /\ \A at \in Slots :
                 WithColumn(c, [k \in Keys |-> Empty])[at].token \in {0, store[at].token}
<1>1. store \in [Collections \X Keys -> Slot]
  BY DEF StoreTypeOK
<1>2. ASSUME NEW at \in Slots
      PROVE  /\ at[1] \in Collections /\ at[2] \in Keys /\ at = <<at[1], at[2]>>
  BY DEF Slots
<1>. QED  BY <1>1, <1>2 DEF WithColumn, Without, Column, Empty, Slots

\* The steps of a call before and after its mutation.
LEMMA CallStepsQuiet ==
    ASSUME StoreTypeOK, NEW t \in Tasks,
           \/ Begin(t) \/ Reject(t) \/ Cancel(t) \/ Return(t) \/ RecordNext(t)
           \/ SetupAlreadyComplete(t) \/ SetupBegin(t) \/ SetupDone(t) \/ PrepareFails(t)
           \/ Get(t) \/ Ttl(t) \/ GetMany(t) \/ TtlMany(t) \/ ListKeys(t)
           \/ GetWithRevision(t) \/ ListCollections(t)
           \/ DestroyBegin(t) \/ DestroyDone(t)
    PROVE  Quiet
<1>1. UNCHANGED <<store, tokens, wins>>
  BY DEF Begin, Reject, Cancel, Return, RecordNext, SetupAlreadyComplete, SetupBegin, SetupDone,
         PrepareFails, Get, Ttl, GetMany, TtlMany, ListKeys, GetWithRevision, ListCollections,
         ReadCollection, DestroyBegin, DestroyDone, mapVars, ghostVars
<1>2. CASE Begin(t)
  <2>1. PICK op \in Operations : \E request \in Requests(t, op) :
            /\ call' = [call EXCEPT ![t] = request]
            /\ Goto(t, IF op \in {"cull", "destroy"} THEN "ready" ELSE "setup")
    BY <1>2 DEF Begin
  <2>2. PICK request \in Requests(t, op) :
            /\ call' = [call EXCEPT ![t] = request]
            /\ Goto(t, IF op \in {"cull", "destroy"} THEN "ready" ELSE "setup")
    BY <2>1
  <2>3. request.op = op
    BY DEF Requests
  <2>4. call'[t].op = op /\ (pc'[t] = "ready" => op \in {"cull", "destroy"})
    BY <2>2, <2>3 DEF StoreTypeOK, Goto
  <2>5. Drawn(t)' = {}
    BY <2>4 DEF Drawn, Storing
  <2>6. ASSUME NEW u \in Tasks, u # t PROVE Drawn(u)' = Drawn(u)
    <3>1. call'[u] = call[u] /\ pc'[u] = pc[u]
      BY <2>2, <2>6 DEF StoreTypeOK, Goto
    <3>. QED  BY <3>1 DEF Drawn
  <2>. QED  BY <1>1, <2>5, <2>6 DEF Quiet
<1>3. CASE Reject(t) \/ RecordNext(t)
  <2>1. pc' = pc /\ call' = call
    BY <1>3 DEF Reject, RecordNext
  <2>2. \A u \in Tasks : Drawn(u)' = Drawn(u)
    BY <2>1 DEF Drawn
  <2>. QED  BY <1>1, <2>2 DEF Quiet
<1>4. CASE ~Begin(t) /\ ~Reject(t) /\ ~RecordNext(t)
  <2>1. AfterSetup(call[t].op) = "ready" => call[t].op \notin Storing
    BY DEF AfterSetup, Storing
  <2>2. UNCHANGED call /\ \E stage : Goto(t, stage) /\ (stage = "ready" => call[t].op \notin Storing)
    <3>1. CASE SetupAlreadyComplete(t) \/ SetupDone(t)
      BY <2>1, <3>1 DEF SetupAlreadyComplete, SetupDone
    <3>2. CASE Cancel(t) \/ Return(t) \/ SetupBegin(t) \/ PrepareFails(t) \/ DestroyBegin(t)
               \/ DestroyDone(t)
      BY <3>2 DEF Cancel, Return, SetupBegin, PrepareFails, DestroyBegin, DestroyDone
    <3>3. CASE \/ Get(t) \/ Ttl(t) \/ GetMany(t) \/ TtlMany(t) \/ ListKeys(t)
               \/ GetWithRevision(t) \/ ListCollections(t)
      BY <3>3 DEF Get, Ttl, GetMany, TtlMany, ListKeys, GetWithRevision, ListCollections,
                  ReadCollection
    <3>. QED  BY <1>4, <3>1, <3>2, <3>3
  <2>3. \A u \in Tasks : Drawn(u)' \subseteq Drawn(u)
    BY <2>2, DrawnOnlyShrinks
  <2>. QED  BY <1>1, <2>3 DEF Quiet
<1>. QED  BY <1>2, <1>3, <1>4

\* The steps that only remove entries.
LEMMA RemovalsQuiet ==
    ASSUME StoreTypeOK, NEW t \in Tasks,
           \/ Remove(t) \/ Cull(t) \/ DestroyCollection(t)
           \/ \E c \in Collections : ClearCollection(t, c)
    PROVE  Quiet
<1>0. call[t].collection \in Collections
  BY CallTyped
<1>1. \A list : Record(t, list) => /\ UNCHANGED <<tokens, call>> /\ Goto(t, "recording")
  BY DEF Record
<1>2. \A result : Leave(t, result) => /\ UNCHANGED <<tokens, call, wins>> /\ Goto(t, "idle")
  BY DEF Leave, ghostVars
<1>3. Goto(t, "recording") /\ UNCHANGED call => \A u \in Tasks : Drawn(u)' \subseteq Drawn(u)
  BY DrawnOnlyShrinks
<1>4. Goto(t, "idle") /\ UNCHANGED call => \A u \in Tasks : Drawn(u)' \subseteq Drawn(u)
  BY DrawnOnlyShrinks
<1>5. CASE Remove(t)
  <2>1. \A at \in Slots : store'[at].token \in {0, store[at].token}
    BY <1>0, <1>5, EmptyingIsQuiet DEF Remove, mapVars
  <2>2. tokens' = tokens /\ wins' = wins /\ \A u \in Tasks : Drawn(u)' \subseteq Drawn(u)
    BY <1>1, <1>2, <1>3, <1>4, <1>5 DEF Remove
  <2>. QED  BY <2>1, <2>2 DEF Quiet
<1>6. CASE Cull(t)
  <2>1. \A at \in Slots : store'[at].token \in {0, store[at].token}
    BY <1>6 DEF Cull, Empty, Slots
  <2>2. tokens' = tokens /\ wins' = wins /\ \A u \in Tasks : Drawn(u)' \subseteq Drawn(u)
    BY <1>1, <1>3, <1>6 DEF Cull
  <2>. QED  BY <2>1, <2>2 DEF Quiet
<1>7. CASE DestroyCollection(t)
  <2>1. \A at \in Slots : store'[at].token \in {0, store[at].token}
    BY <1>0, <1>7, EmptyingIsQuiet DEF DestroyCollection, mapVars
  <2>2. tokens' = tokens /\ wins' = wins /\ \A u \in Tasks : Drawn(u)' \subseteq Drawn(u)
    BY <1>1, <1>2, <1>3, <1>4, <1>7 DEF DestroyCollection
  <2>. QED  BY <2>1, <2>2 DEF Quiet
<1>8. ASSUME NEW c \in Collections, ClearCollection(t, c) PROVE Quiet
  <2>1. \A at \in Slots : store'[at].token \in {0, store[at].token}
    BY <1>8, EmptyingIsQuiet DEF ClearCollection
  <2>2. tokens' = tokens /\ wins' = wins /\ pc' = pc /\ call' = call
    BY <1>8 DEF ClearCollection, ghostVars
  <2>3. \A u \in Tasks : Drawn(u)' = Drawn(u)
    BY <2>2 DEF Drawn
  <2>. QED  BY <2>1, <2>2, <2>3 DEF Quiet
<1>. QED  BY <1>5, <1>6, <1>7, <1>8

\* A collection in which some keys hold unused tokens, each its own, and some
\* have been dropped.
LEMMA ColumnMoves ==
    ASSUME StoreTypeOK, NEW c \in Collections, NEW F,
           NEW col \in [Keys -> Slot], NEW grown \in [Keys -> Slot],
           store' = WithColumn(c, col),
           0 \notin F, \A x \in F : Unused(x),
           \A k \in Keys : col[k].token \in {0, grown[k].token},
           \A k \in Keys : grown[k].token = store[<<c, k>>].token \/ grown[k].token \in F,
           \A k, l \in Keys : grown[k].token \in F /\ grown[k].token = grown[l].token => k = l
    PROVE  /\ \A at \in Slots : \/ store'[at].token = 0
                                \/ store'[at].token = store[at].token
                                \/ store'[at].token \in F
           /\ \A at, bt \in Slots :
                 store'[at].token \in F /\ store'[at].token = store'[bt].token => at = bt
<1>1. \A at \in Slots : at[1] \in Collections /\ at[2] \in Keys /\ at = <<at[1], at[2]>>
  BY DEF Slots
<1>2. ASSUME NEW at \in Slots
      PROVE  store'[at] = IF at[1] = c THEN col[at[2]] ELSE store[at]
  BY DEF WithColumn, Slots
<1>3. ASSUME NEW at \in Slots
      PROVE  \/ store'[at].token = 0
             \/ store'[at].token = store[at].token
             \/ store'[at].token \in F
  <2>1. CASE at[1] = c
    <3>1. at = <<c, at[2]>> /\ at[2] \in Keys
      BY <1>1, <2>1
    <3>. QED  BY <1>2, <2>1, <3>1
  <2>. QED  BY <1>2, <2>1
<1>4. ASSUME NEW at \in Slots, store'[at].token \in F
      PROVE  at[1] = c /\ col[at[2]].token = grown[at[2]].token /\ store'[at] = col[at[2]]
  <2>1. at[1] = c
    BY <1>2, <1>4 DEF Unused
  <2>. QED  BY <1>1, <1>2, <1>4, <2>1
<1>5. ASSUME NEW at \in Slots, NEW bt \in Slots, store'[at].token \in F,
             store'[at].token = store'[bt].token
      PROVE  at = bt
  <2>1. at[1] = c /\ store'[at] = col[at[2]] /\ col[at[2]].token = grown[at[2]].token
    BY <1>4, <1>5
  <2>2. bt[1] = c /\ store'[bt] = col[bt[2]] /\ col[bt[2]].token = grown[bt[2]].token
    BY <1>4, <1>5
  <2>3. at[2] = bt[2]
    BY <1>1, <1>5, <2>1, <2>2
  <2>. QED  BY <1>1, <2>1, <2>2, <2>3
<1>. QED  BY <1>3, <1>5

\* New tokens are unused.
LEMMA NewTokensUnused ==
    ASSUME StoreTypeOK, TokenInv, NEW x \in Nat, x > tokens
    PROVE  Unused(x)
<1>1. tokens \in Nat /\ wins \in Seq(Nat) /\ \A at \in Slots : store[at].token \in Nat
  BY DEF StoreTypeOK, Slot, Slots
<1>2. \A at \in Slots : store[at].token <= tokens
  BY DEF TokenInv, TokensInStore
<1>3. \A i \in DOMAIN wins : wins[i] <= tokens /\ wins[i] \in Nat
  BY <1>1 DEF TokenInv, TokensSpent
<1>. QED  BY <1>1, <1>2, <1>3 DEF Unused

\* Seeding gives every item a new token.
LEMMA SeedingKeepsTokens ==
    ASSUME StoreTypeOK, StoreTypeOK', TokenInv, NEW c \in Collections, NEW ks \in SUBSET Keys,
           NEW col \in [Keys -> Slot], store' = WithColumn(c, col),
           \A k \in Keys : col[k].token \in {0, Seeded(c, ks)[k].token},
           tokens' = tokens + Cardinality(ks), wins' = wins,
           \A u \in Tasks : Drawn(u)' \subseteq Drawn(u)
    PROVE  TokenInv'
<1>. DEFINE F == NewTokens(Cardinality(ks))
            grown == Seeded(c, ks)
            rank(k) == Cardinality({j \in ks : j <= k})
<1>1. tokens \in Nat /\ store \in [Collections \X Keys -> Slot]
  BY DEF StoreTypeOK
<1>2. grown \in [Keys -> Slot] /\ Cardinality(ks) \in Nat
  BY <1>1, SeededTyped
<1>3. \A x \in F : x \in Nat /\ x > tokens /\ x <= tokens'
  BY <1>1, <1>2 DEF NewTokens
<1>4. \A x \in F : Unused(x)
  BY <1>3, NewTokensUnused
<1>5. \A k \in ks : rank(k) \in 1 .. Cardinality(ks)
  BY RankIs
<1>6. \A k, l \in ks : rank(k) = rank(l) => k = l
  BY RankIs
<1>. HIDE DEF rank
<1>7. \A k \in Keys : grown[k].token = IF k \in ks THEN tokens + rank(k)
                                                  ELSE store[<<c, k>>].token
  BY DEF Seeded, rank
<1>. HIDE DEF grown
<1>8. \A k \in ks : tokens + rank(k) \in F
  BY <1>1, <1>2, <1>5 DEF NewTokens
<1>. HIDE DEF F
<1>9. \A k \in Keys : store[<<c, k>>].token \notin F
  BY <1>4 DEF Unused, Slots
<1>10. ASSUME NEW k \in Keys, NEW l \in Keys, grown[k].token \in F,
              grown[k].token = grown[l].token
       PROVE  k = l
  <2>1. k \in ks /\ l \in ks
    BY <1>7, <1>9, <1>10
  <2>2. rank(k) \in Nat /\ rank(l) \in Nat
    BY <1>2, <1>5, <2>1
  <2>3. tokens + rank(k) = tokens + rank(l)
    BY <1>7, <1>10, <2>1
  <2>. QED  BY <1>1, <1>6, <2>1, <2>2, <2>3
<1>11. 0 \notin F
  BY <1>1, <1>3
<1>12. \A k \in Keys : grown[k].token = store[<<c, k>>].token \/ grown[k].token \in F
  BY <1>7, <1>8
<1>13. \A k \in Keys : col[k].token \in {0, grown[k].token}
  BY DEF grown
<1>14. /\ \A at \in Slots : \/ store'[at].token = 0
                            \/ store'[at].token = store[at].token
                            \/ store'[at].token \in F
       /\ \A at, bt \in Slots :
             store'[at].token \in F /\ store'[at].token = store'[bt].token => at = bt
  BY <1>2, <1>4, <1>10, <1>11, <1>12, <1>13, ColumnMoves
<1>15. \A t \in Tasks : \A x \in Drawn(t)' :
          x \in Int /\ x > 0 /\ x <= tokens /\ x \in Drawn(t)
  <2>1. \A t \in Tasks : \A x \in Drawn(t) : x \in Int
    BY CallTyped DEF Drawn
  <2>. QED  BY <2>1 DEF TokenInv, TokensDrawn
<1>16. \A t \in Tasks : \A x \in Drawn(t)' :
          x > 0 /\ x <= tokens' /\ x \notin F /\ (x \in Drawn(t) \/ x > tokens)
  BY <1>1, <1>2, <1>3, <1>15
<1>17. \A t, u \in Tasks : t # u => Drawn(t)' \cap Drawn(u)' = {}
  BY DEF TokenInv, TokensDrawn
<1>18. \A x \in F : x > 0 /\ x <= tokens' /\ Unused(x)
  BY <1>1, <1>3, <1>4
<1>19. tokens' >= tokens /\ F \in SUBSET Nat
  BY <1>1, <1>2, <1>3
<1>20. MovesTokens(F)
  BY <1>14, <1>16, <1>17, <1>18, <1>19 DEF MovesTokens
<1>. QED  BY <1>19, <1>20, MovesTokensKeepsInv

\* A seed collection inserted, all of it or half-way.
LEMMA SeedKeepsTokens ==
    ASSUME StoreTypeOK, StoreTypeOK', TokenInv, NEW t \in Tasks, NEW c \in Collections,
           SeedCollection(t, c) \/ SeedFails(t, c)
    PROVE  TokenInv'
<1>1. tokens \in Nat /\ store \in [Collections \X Keys -> Slot]
  BY DEF StoreTypeOK
<1>2. \A ks \in SUBSET Keys : Seeded(c, ks) \in [Keys -> Slot]
  BY <1>1, SeededTyped
<1>3. SeedKeys(c) \in SUBSET Keys
  BY DEF SeedKeys
<1>4. CASE SeedCollection(t, c)
  <2>. DEFINE ks == SeedKeys(c)
              col == Without(Seeded(c, ks), EnforceCapacity(Seeded(c, ks)))
  <2>1. col \in [Keys -> Slot]
    BY <1>1, <1>2, <1>3, ColumnsTyped
  <2>2. \A k \in Keys : col[k].token \in {0, Seeded(c, ks)[k].token}
    BY DEF Without, Empty
  <2>3. /\ store' = WithColumn(c, col) /\ tokens' = tokens + Cardinality(ks)
        /\ wins' = wins /\ pc' = pc /\ call' = call
    BY <1>4 DEF SeedCollection
  <2>4. \A u \in Tasks : Drawn(u)' = Drawn(u)
    BY <2>3 DEF Drawn
  <2>. HIDE DEF col, ks
  <2>. QED  BY <1>3, <2>1, <2>2, <2>3, <2>4, SeedingKeepsTokens DEF ks
<1>5. CASE SeedFails(t, c)
  <2>1. PICK ks \in SUBSET SeedKeys(c) :
          store' = WithColumn(c, Seeded(c, ks)) /\ tokens' = tokens + Cardinality(ks)
    BY <1>5 DEF SeedFails
  <2>2. wins' = wins /\ Goto(t, "idle") /\ call' = call
    BY <1>5 DEF SeedFails
  <2>3. \A u \in Tasks : Drawn(u)' \subseteq Drawn(u)
    BY <2>2, DrawnOnlyShrinks
  <2>4. ks \in SUBSET Keys
    BY <1>3
  <2>5. Seeded(c, ks) \in [Keys -> Slot]
    BY <1>2, <2>4
  <2>. QED  BY <2>1, <2>2, <2>3, <2>4, <2>5, SeedingKeepsTokens
<1>. QED  BY <1>4, <1>5

\* The calls that store draw tokens that are new, each its own.
LEMMA CreateKeepsTokens ==
    ASSUME StoreTypeOK, StoreTypeOK', TokenInv, NEW t \in Tasks, CreateCollection(t)
    PROVE  TokenInv'
<1>1. /\ tokens \in Nat /\ call \in [Tasks -> Call] /\ pc \in [Tasks -> Stage]
      /\ call[t].keys \in Seq(Keys)
  BY CallTyped DEF StoreTypeOK
<1>2. Len(call[t].keys) \in Nat
  BY <1>1
<1>3. /\ call' = [call EXCEPT ![t].base = tokens, ![t].expires = ExpirationAt(call[t].ttl)]
      /\ tokens' = tokens + TokensNeeded(call[t])
      /\ pc' = [pc EXCEPT ![t] = "ready"] /\ store' = store /\ wins' = wins
  BY DEF CreateCollection, Goto, ghostVars
<1>4. call[t] \in CallFields
  BY <1>1 DEF Call
<1>5. call'[t].base = tokens /\ call'[t].op = call[t].op /\ call'[t].keys = call[t].keys
  BY <1>1, <1>3, <1>4 DEF CallFields
<1>6. Drawn(t)' = IF call[t].op \in Storing THEN tokens + 1 .. tokens + Len(call[t].keys) ELSE {}
  BY <1>1, <1>3, <1>5 DEF Drawn
<1>7. \A x \in Drawn(t)' : x \in Int /\ x > tokens /\ x <= tokens'
  BY <1>1, <1>2, <1>3, <1>6 DEF TokensNeeded
<1>8. ASSUME NEW u \in Tasks, u # t PROVE Drawn(u)' = Drawn(u)
  <2>1. call'[u] = call[u] /\ pc'[u] = pc[u]
    BY <1>1, <1>3, <1>8
  <2>. QED  BY <2>1 DEF Drawn
<1>9. tokens' >= tokens
  BY <1>1, <1>2, <1>3 DEF TokensNeeded
<1>10. \A u \in Tasks : \A x \in Drawn(u) : x \in Int /\ x > 0 /\ x <= tokens
  BY CallTyped DEF Drawn, TokenInv, TokensDrawn
<1>11. \A u, v \in Tasks : u # v => Drawn(u) \cap Drawn(v) = {}
  BY DEF TokenInv, TokensDrawn
<1>12. ASSUME NEW u \in Tasks, NEW v \in Tasks, u # v PROVE Drawn(u)' \cap Drawn(v)' = {}
  <2>1. CASE u = t
    BY <1>1, <1>7, <1>8, <1>10, <1>12, <2>1
  <2>2. CASE v = t
    BY <1>1, <1>7, <1>8, <1>10, <1>12, <2>2
  <2>3. CASE u # t /\ v # t
    BY <1>8, <1>11, <1>12, <2>3
  <2>. QED  BY <2>1, <2>2, <2>3
<1>13. ASSUME NEW u \in Tasks, NEW x \in Drawn(u)'
       PROVE  x > 0 /\ x <= tokens' /\ (x \in Drawn(u) \/ x > tokens)
  <2>1. tokens' \in Nat
    BY DEF StoreTypeOK
  <2>2. CASE u = t
    BY <1>1, <1>7, <1>13, <2>2
  <2>3. CASE u # t
    BY <1>1, <1>8, <1>9, <1>10, <1>13, <2>1, <2>3
  <2>. QED  BY <2>2, <2>3
<1>14. MovesTokens({})
  BY <1>3, <1>9, <1>12, <1>13 DEF MovesTokens
<1>. QED  BY <1>14, MovesTokensKeepsInv

\* A mutation puts the tokens of its call into slots, or gives them up.
LEMMA DrawnIsGone ==
    ASSUME StoreTypeOK, NEW t \in Tasks, UNCHANGED <<call, tokens>>,
           Goto(t, "recording") \/ Goto(t, "idle"), TokenInv
    PROVE  /\ \A u \in Tasks : \A x \in Drawn(u)' :
                 x > 0 /\ x <= tokens' /\ x \notin Drawn(t) /\ (x \in Drawn(u) \/ x > tokens)
           /\ \A u, v \in Tasks : u # v => Drawn(u)' \cap Drawn(v)' = {}
           /\ tokens' >= tokens
           /\ \A x \in Drawn(t) : x \in Nat /\ x > 0 /\ x <= tokens' /\ Unused(x)
<1>1. (\A u \in Tasks : Drawn(u)' \subseteq Drawn(u)) /\ Drawn(t)' = {}
  BY DrawnOnlyShrinks
<1>2. \A u \in Tasks : \A x \in Drawn(u) : x \in Int /\ x > 0 /\ x <= tokens /\ Unused(x)
  BY CallTyped DEF Drawn, TokenInv, TokensDrawn
<1>3. \A u, v \in Tasks : u # v => Drawn(u) \cap Drawn(v) = {}
  BY DEF TokenInv, TokensDrawn
<1>4. tokens \in Nat /\ tokens' = tokens
  BY DEF StoreTypeOK
<1>5. ASSUME NEW u \in Tasks, NEW x \in Drawn(u)'
      PROVE  x > 0 /\ x <= tokens' /\ x \notin Drawn(t) /\ (x \in Drawn(u) \/ x > tokens)
  BY <1>1, <1>2, <1>3, <1>4, <1>5
<1>6. \A u, v \in Tasks : u # v => Drawn(u)' \cap Drawn(v)' = {}
  BY <1>1, <1>3
<1>. QED  BY <1>2, <1>4, <1>5, <1>6

\* put and put_many.
LEMMA InsertKeepsTokens ==
    ASSUME StoreTypeOK, StoreTypeOK', TokenInv, NEW t \in Tasks, pc[t] = "ready",
           call[t].op \in Storing, Insert(t)
    PROVE  TokenInv'
<1>. DEFINE c == call[t].collection
            keys == call[t].keys
            grown == Inserted(t)
            col == Without(grown, EnforceCapacity(grown))
            IsLast(i, k) == keys[i] = k /\ \A j \in DOMAIN keys : keys[j] = k => j <= i
            last(k) == CHOOSE i \in DOMAIN keys : IsLast(i, k)
            Given(k) == \E i \in DOMAIN keys : IsLast(i, k)
            F == Drawn(t)
<1>1. \A list : Record(t, list) => UNCHANGED <<call, tokens>> /\ Goto(t, "recording")
  BY DEF Record
<1>2. UNCHANGED <<call, tokens, wins>> /\ Goto(t, "recording")
  BY <1>1 DEF Insert
<1>3. /\ \A u \in Tasks : \A x \in Drawn(u)' :
            x > 0 /\ x <= tokens' /\ x \notin F /\ (x \in Drawn(u) \/ x > tokens)
      /\ \A u, v \in Tasks : u # v => Drawn(u)' \cap Drawn(v)' = {}
      /\ tokens' >= tokens
      /\ \A x \in F : x \in Nat /\ x > 0 /\ x <= tokens' /\ Unused(x)
  BY <1>2, DrawnIsGone
<1>4. CASE store' = store
  <2>1. \A x \in F : \A at \in Slots : store[at].token # x
    BY <1>3 DEF Unused
  <2>2. MovesTokens(F)
    BY <1>2, <1>3, <1>4, <2>1 DEF MovesTokens
  <2>. QED  BY <1>3, <2>2, MovesTokensKeepsInv
<1>5. CASE store' = WithColumn(c, col)
  <2>1. /\ c \in Collections /\ keys \in Seq(Keys) /\ call[t].base \in Nat /\ grown \in [Keys -> Slot]
        /\ store \in [Collections \X Keys -> Slot]
    BY CallTyped, InsertedTyped
  <2>2. col \in [Keys -> Slot] /\ \A k \in Keys : col[k].token \in {0, grown[k].token}
    <3>1. col \in [Keys -> Slot]
      BY <2>1, ColumnsTyped
    <3>2. \A k \in Keys : col[k].token \in {0, grown[k].token}
      BY DEF Without, Empty
    <3>. QED  BY <3>1, <3>2
  <2>. HIDE DEF IsLast
  <2>3. \A k \in Keys : grown[k] = IF Given(k)
                                     THEN [token |-> call[t].base + last(k),
                                           expires |-> call[t].expires]
                                     ELSE store[<<c, k>>]
    BY DEF Inserted, IsLast
  <2>4. \A k \in Keys : Given(k) => last(k) \in DOMAIN keys /\ IsLast(last(k), k)
    OBVIOUS
  <2>5. DOMAIN keys = 1 .. Len(keys) /\ Len(keys) \in Nat
    BY <2>1
  <2>6. F = call[t].base + 1 .. call[t].base + Len(keys)
    BY DEF Drawn
  <2>7. \A k \in Keys : Given(k) => keys[last(k)] = k
    BY <2>4 DEF IsLast
  <2>. HIDE DEF last, Given
  <2>8. \A k \in Keys : Given(k) => last(k) \in Nat /\ call[t].base + last(k) \in F
    BY <2>1, <2>4, <2>5, <2>6
  <2>. HIDE DEF grown
  <2>9. \A k \in Keys : grown[k].token = IF Given(k) THEN call[t].base + last(k)
                                                     ELSE store[<<c, k>>].token
    <3>1. ASSUME NEW k \in Keys, Given(k) PROVE grown[k].token = call[t].base + last(k)
      <4>. DEFINE x == call[t].base + last(k)
      <4>1. grown[k] = [token |-> x, expires |-> call[t].expires]
        BY <2>3, <3>1
      <4>. HIDE DEF x
      <4>2. grown[k].token = x
        BY <4>1
      <4>. QED  BY <4>2 DEF x
    <3>2. ASSUME NEW k \in Keys, ~Given(k) PROVE grown[k].token = store[<<c, k>>].token
      BY <2>3, <3>2
    <3>. QED  BY <3>1, <3>2
  <2>. HIDE DEF F, keys
  <2>10. \A k \in Keys : grown[k].token = store[<<c, k>>].token \/ grown[k].token \in F
    BY <2>8, <2>9
  <2>11. \A k \in Keys : store[<<c, k>>].token \notin F
    BY <1>3, <2>1 DEF Unused, Slots
  <2>12. ASSUME NEW k \in Keys, NEW l \in Keys, grown[k].token \in F,
                grown[k].token = grown[l].token
         PROVE  k = l
    <3>1. Given(k) /\ Given(l)
      BY <2>9, <2>11, <2>12
    <3>2. call[t].base + last(k) = call[t].base + last(l)
      BY <2>9, <2>12, <3>1
    <3>3. last(k) = last(l)
      BY <2>1, <2>8, <3>1, <3>2
    <3>. QED  BY <2>7, <3>1, <3>3
  <2>13. 0 \notin F
    BY <1>3
  <2>. HIDE DEF col, c
  <2>14. /\ \A at \in Slots : \/ store'[at].token = 0
                              \/ store'[at].token = store[at].token
                              \/ store'[at].token \in F
         /\ \A at, bt \in Slots :
               store'[at].token \in F /\ store'[at].token = store'[bt].token => at = bt
    BY <1>3, <1>5, <2>1, <2>2, <2>10, <2>12, <2>13, ColumnMoves
  <2>15. MovesTokens(F)
    BY <1>2, <1>3, <2>14 DEF MovesTokens
  <2>. QED  BY <1>3, <2>15, MovesTokensKeepsInv
<1>. QED  BY <1>4, <1>5 DEF Insert

\* compare_and_swap and compare_and_delete consume the token they expected when
\* they apply, and the slot then holds a fresh one, or none.
LEMMA ConditionalKeepsTokens ==
    ASSUME StoreTypeOK, StoreTypeOK', TokenInv, NEW t \in Tasks,
           CompareAndSwap(t) \/ CompareAndDelete(t)
    PROVE  TokenInv'
<1>. DEFINE c == call[t].collection
            k == call[t].keys[1]
            expected == call[t].expected
            new == [token |-> NewRevision(t), expires |-> call[t].expires]
            at == <<c, k>>
<1>1. \A op : Record(t, Announce(c, <<k>>, op)) =>
                UNCHANGED <<call, tokens>> /\ Goto(t, "recording")
  BY DEF Record
<1>2. \A result : Leave(t, result) => UNCHANGED <<call, tokens, wins>> /\ Goto(t, "idle")
  BY DEF Leave, ghostVars
<1>3. UNCHANGED <<call, tokens>> /\ (Goto(t, "recording") \/ Goto(t, "idle"))
  BY <1>1, <1>2 DEF CompareAndSwap, CompareAndDelete
<1>4. /\ \A u \in Tasks : \A x \in Drawn(u)' :
            x > 0 /\ x <= tokens' /\ x \notin Drawn(t) /\ (x \in Drawn(u) \/ x > tokens)
      /\ \A u, v \in Tasks : u # v => Drawn(u)' \cap Drawn(v)' = {}
      /\ tokens' >= tokens
      /\ \A x \in Drawn(t) : x \in Nat /\ x > 0 /\ x <= tokens' /\ Unused(x)
  BY <1>3, DrawnIsGone
<1>5. at \in Slots /\ store \in [Slots -> Slot] /\ expected \in Nat
  <2>1. call[t].op \in Keyed
    BY DEF CompareAndSwap, CompareAndDelete, Commit, Keyed
  <2>. QED  BY <2>1, CallTyped DEF Slots
<1>6. \A slot \in Slot : \A bt \in Slots :
          [store EXCEPT ![at] = slot][bt] = IF bt = at THEN slot ELSE store[bt]
  BY <1>5
<1>7. Empty \in Slot /\ Empty.token = 0
  BY DEF Empty, Slot, NoExpiry
<1>8. ASSUME UNCHANGED wins, store' \in {store, [store EXCEPT ![at] = Empty]}
      PROVE  TokenInv'
  <2>1. \A bt \in Slots : store'[bt].token \in {0, store[bt].token}
    BY <1>6, <1>7, <1>8
  <2>2. \A u \in Tasks : Drawn(u)' \subseteq Drawn(u)
    BY <1>3, DrawnOnlyShrinks
  <2>3. Quiet
    BY <1>3, <1>8, <2>1, <2>2 DEF Quiet
  <2>. QED  BY <2>3, QuietKeepsInv
<1>9. ASSUME MatchesExpected(store[at], expected), expected # 0
      PROVE  store[at].token = expected
  BY <1>9 DEF MatchesExpected
<1>10. CASE CompareAndSwap(t)
  <2>1. \/ /\ MatchesExpected(store[at], expected)
           /\ store' = [store EXCEPT ![at] = new]
           /\ wins' = IF expected = 0 THEN wins ELSE Append(wins, expected)
        \/ UNCHANGED wins /\ store' \in {store, [store EXCEPT ![at] = Empty]}
    BY <1>2, <1>10 DEF CompareAndSwap
  <2>2. new.token \in Drawn(t) /\ new \in Slot
    <3>1. call[t].op = "compare_and_swap" /\ pc[t] = "ready"
      BY <1>10 DEF CompareAndSwap, Commit
    <3>2. Len(call[t].keys) = 1 /\ call[t].base \in Nat /\ call[t].expires \in Nat
      BY <3>1, CallTyped DEF Keyed
    <3>. QED  BY <3>1, <3>2 DEF Drawn, Storing, NewRevision, Slot
  <2>. HIDE DEF new
  <2>3. CASE /\ MatchesExpected(store[at], expected)
             /\ store' = [store EXCEPT ![at] = new]
             /\ wins' = IF expected = 0 THEN wins ELSE Append(wins, expected)
    <3>1. \A bt \in Slots : store'[bt] = IF bt = at THEN new ELSE store[bt]
      BY <1>6, <2>2, <2>3
    <3>2. \A x \in Drawn(t) : \A bt \in Slots : store[bt].token # x
      BY <1>4 DEF Unused
    <3>3. \A bt \in Slots : store'[bt].token = store[bt].token \/ store'[bt].token \in Drawn(t)
      BY <2>2, <3>1
    <3>4. \A bt, dt \in Slots :
             store'[bt].token \in Drawn(t) /\ store'[bt].token = store'[dt].token => bt = dt
      BY <3>1, <3>2
    <3>5. \/ wins' = wins
          \/ /\ store[at].token # 0
             /\ store'[at].token # store[at].token
             /\ wins' = Append(wins, store[at].token)
      BY <1>5, <1>9, <2>2, <2>3, <3>1, <3>2
    <3>6. MovesTokens(Drawn(t))
      BY <1>4, <1>5, <3>3, <3>4, <3>5 DEF MovesTokens
    <3>7. Drawn(t) \in SUBSET Nat
      BY <1>4
    <3>. QED  BY <3>6, <3>7, MovesTokensKeepsInv
  <2>. QED  BY <1>8, <2>1, <2>3
<1>11. CASE CompareAndDelete(t)
  <2>1. \/ /\ MatchesExpected(store[at], expected)
           /\ store' = [store EXCEPT ![at] = Empty]
           /\ wins' = Append(wins, expected)
        \/ UNCHANGED wins /\ store' \in {store, [store EXCEPT ![at] = Empty]}
    BY <1>2, <1>11 DEF CompareAndDelete
  <2>2. CASE /\ MatchesExpected(store[at], expected)
             /\ store' = [store EXCEPT ![at] = Empty]
             /\ wins' = Append(wins, expected)
    <3>0. expected # 0
      BY <1>11, CallTyped DEF CompareAndDelete, Commit
    <3>1. \A bt \in Slots : store'[bt] = IF bt = at THEN Empty ELSE store[bt]
      BY <1>6, <1>7, <2>2
    <3>2. \A bt \in Slots : store'[bt].token = 0 \/ store'[bt].token = store[bt].token
      BY <1>7, <3>1
    <3>3. /\ store[at].token # 0
          /\ store'[at].token # store[at].token
          /\ wins' = Append(wins, store[at].token)
      BY <1>5, <1>7, <1>9, <2>2, <3>0, <3>1
    <3>4. MovesTokens({})
      BY <1>4, <1>5, <3>2, <3>3 DEF MovesTokens
    <3>. QED  BY <3>4, MovesTokensKeepsInv
  <2>. QED  BY <1>8, <2>1, <2>2
<1>. QED  BY <1>10, <1>11

\* Every step keeps each token in one place.
LEMMA StepKeepsTokens ==
    ASSUME StoreTypeOK, StoreTypeOK', TokenInv, [Next]_vars
    PROVE  TokenInv'
<1>1. ASSUME NEW t \in Tasks, Step(t) PROVE TokenInv'
  <2>1. CASE \/ SetupAlreadyComplete(t) \/ SetupBegin(t) \/ SetupDone(t) \/ PrepareFails(t)
             \/ Get(t) \/ Ttl(t) \/ GetMany(t) \/ TtlMany(t) \/ ListKeys(t)
             \/ GetWithRevision(t) \/ ListCollections(t)
             \/ DestroyBegin(t) \/ DestroyDone(t) \/ RecordNext(t) \/ Return(t)
    BY <2>1, CallStepsQuiet, QuietKeepsInv
  <2>2. CASE \E c \in Collections : SeedCollection(t, c) \/ SeedFails(t, c)
    BY <2>2, SeedKeepsTokens
  <2>3. CASE CreateCollection(t)
    BY <2>3, CreateKeepsTokens
  <2>4. CASE Put(t) \/ PutMany(t)
    <3>1. pc[t] = "ready" /\ call[t].op \in Storing /\ Insert(t)
      BY <2>4 DEF Put, PutMany, Commit, Storing
    <3>. QED  BY <3>1, InsertKeepsTokens
  <2>5. CASE \/ Delete(t) \/ DeleteMany(t) \/ Cull(t) \/ DestroyCollection(t)
             \/ \E c \in Collections : ClearCollection(t, c)
    BY <2>5, RemovalsQuiet, QuietKeepsInv DEF Delete, DeleteMany
  <2>6. CASE CompareAndSwap(t) \/ CompareAndDelete(t)
    BY <2>6, ConditionalKeepsTokens
  <2>. QED  BY <1>1, <2>1, <2>2, <2>3, <2>4, <2>5, <2>6 DEF Step
<1>2. ASSUME NEW t \in Tasks, Begin(t) \/ Reject(t) \/ Cancel(t) PROVE TokenInv'
  BY <1>2, CallStepsQuiet, QuietKeepsInv
<1>3. CASE \/ Tick \/ DropStore \/ UNCHANGED vars
           \/ \E s \in Subscribers : StoreSubscribe(s) \/ StreamStep(s)
  <2>1. UNCHANGED <<store, tokens, wins, pc, call>>
    BY <1>3 DEF Tick, DropStore, StoreSubscribe, StreamStep, vars, storeVars, mapVars, taskVars,
                ghostVars
  <2>2. \A u \in Tasks : Drawn(u)' = Drawn(u)
    BY <2>1 DEF Drawn
  <2>3. Quiet
    BY <2>1, <2>2 DEF Quiet
  <2>. QED  BY <2>3, QuietKeepsInv
<1>. QED  BY <1>1, <1>2, <1>3 DEF Next

\* It holds at the start, and so always.
LEMMA TokenInvariant == Spec => []TokenInv
<1>1. Init => TokenInv
  BY DEF Init, TokenInv, TokensInStore, TokensSpent, TokensDrawn, ExclusiveWins, Drawn, Empty, Slots
<1>2. StoreInv /\ StoreInv' /\ TokenInv /\ [Next]_vars => TokenInv'
  BY StepKeepsTokens DEF StoreInv
<1>. QED  BY <1>1, <1>2, StoreInvariant, PTL DEF Spec

\* Of all the conditional writes that expect the same revision of an entry, one
\* applies, however the calls, expiries, failures and cancellations interleave.
THEOREM StoreWinsExclusive == Spec => []ExclusiveWins
<1>1. TokenInv => ExclusiveWins
  BY DEF TokenInv, TokensSpent
<1>. QED  BY <1>1, TokenInvariant, PTL

\* A revision that was consumed matches no entry again, and no two entries carry
\* the same revision.
THEOREM StoreSpentTokensGone == Spec => []SpentTokensGone
<1>1. TokenInv => SpentTokensGone
  <2>. SUFFICES ASSUME TokenInv PROVE SpentTokensGone
    OBVIOUS
  <2>1. ASSUME NEW c \in Collections, NEW k \in Keys PROVE <<c, k>> \in Slots
    BY DEF Slots
  <2>2. \A c \in Collections, k \in Keys, i \in DOMAIN wins : store[<<c, k>>].token # wins[i]
    BY <2>1 DEF TokenInv, TokensSpent
  <2>3. ASSUME NEW c \in Collections, NEW d \in Collections, NEW k \in Keys, NEW l \in Keys,
               Present(c, k), store[<<c, k>>].token = store[<<d, l>>].token
        PROVE  c = d /\ k = l
    <3>1. <<c, k>> = <<d, l>>
      BY <2>1, <2>3 DEF TokenInv, TokensInStore, Present
    <3>. QED  BY <3>1
  <2>. QED  BY <2>2, <2>3 DEF SpentTokensGone
<1>. QED  BY <1>1, TokenInvariant, PTL

-----------------------------------------------------------------------------
(* What a list of announcements tells a reader *)

\* One change of the feed's, and what a reader who believed so before believes of an
\* entry after a list of changes.
Change(c, k, op) == [collection |-> c, key |-> k, operation |-> op]
Ends(list, c, k, before) ==
    \/ \E i \in DOMAIN list :
          /\ list[i] = Change(c, k, "Put")
          /\ \A j \in DOMAIN list : j > i => list[j] # Change(c, k, "Delete")
    \/ before /\ \A i \in DOMAIN list : list[i] # Change(c, k, "Delete")

\* The keys of a list.
Listed(keys) == {keys[i] : i \in DOMAIN keys}

\* The first change of a list is heard, then the others.
LEMMA EndsOneByOne ==
    ASSUME NEW list \in Seq(Announcement), list # <<>>, NEW c \in Collections, NEW k \in Keys,
           NEW before \in BOOLEAN
    PROVE  LET a == Head(list)
               heard == IF a.collection = c /\ a.key = k THEN a.operation = "Put" ELSE before
           IN  Ends(list, c, k, before) <=> Ends(Tail(list), c, k, heard)
<1>. DEFINE a == Head(list)
            heard == IF a.collection = c /\ a.key = k THEN a.operation = "Put" ELSE before
            n == Len(list)
<1>1. /\ n \in Nat /\ n > 0 /\ DOMAIN list = 1 .. n /\ a = list[1] /\ a \in Announcement
      /\ DOMAIN Tail(list) = 1 .. n - 1
      /\ \A i \in 1 .. n - 1 : Tail(list)[i] = list[i + 1]
  OBVIOUS
<1>2. /\ a = Change(c, k, "Put") <=> a.collection = c /\ a.key = k /\ a.operation = "Put"
      /\ a = Change(c, k, "Delete") <=> a.collection = c /\ a.key = k /\ a.operation # "Put"
  BY <1>1 DEF Change, Announcement, ChangeOperation
<1>3. ASSUME Ends(list, c, k, before) PROVE Ends(Tail(list), c, k, heard)
  <2>1. CASE \E i \in DOMAIN list :
                /\ list[i] = Change(c, k, "Put")
                /\ \A j \in DOMAIN list : j > i => list[j] # Change(c, k, "Delete")
    <3>1. PICK i \in 1 .. n :
                /\ list[i] = Change(c, k, "Put")
                /\ \A j \in 1 .. n : j > i => list[j] # Change(c, k, "Delete")
      BY <1>1, <2>1
    <3>2. CASE i = 1
      <4>1. heard
        BY <1>1, <1>2, <3>1, <3>2
      <4>2. \A j \in 1 .. n - 1 : Tail(list)[j] # Change(c, k, "Delete")
        BY <1>1, <3>1, <3>2
      <4>. QED  BY <1>1, <4>1, <4>2 DEF Ends
    <3>3. CASE i # 1
      <4>1. i - 1 \in 1 .. n - 1 /\ Tail(list)[i - 1] = Change(c, k, "Put")
        BY <1>1, <3>1, <3>3
      <4>2. \A j \in 1 .. n - 1 : j > i - 1 => Tail(list)[j] # Change(c, k, "Delete")
        BY <1>1, <3>1, <3>3
      <4>. QED  BY <1>1, <4>1, <4>2 DEF Ends
    <3>. QED  BY <3>2, <3>3
  <2>2. CASE before /\ \A i \in DOMAIN list : list[i] # Change(c, k, "Delete")
    <3>1. heard
      BY <1>1, <1>2, <2>2
    <3>2. \A j \in 1 .. n - 1 : Tail(list)[j] # Change(c, k, "Delete")
      BY <1>1, <2>2
    <3>. QED  BY <1>1, <3>1, <3>2 DEF Ends
  <2>. QED  BY <1>3, <2>1, <2>2 DEF Ends
<1>4. ASSUME Ends(Tail(list), c, k, heard) PROVE Ends(list, c, k, before)
  <2>1. CASE \E i \in DOMAIN Tail(list) :
                /\ Tail(list)[i] = Change(c, k, "Put")
                /\ \A j \in DOMAIN Tail(list) : j > i => Tail(list)[j] # Change(c, k, "Delete")
    <3>1. PICK i \in 1 .. n - 1 :
                /\ list[i + 1] = Change(c, k, "Put")
                /\ \A j \in 1 .. n - 1 : j > i => list[j + 1] # Change(c, k, "Delete")
      BY <1>1, <2>1
    <3>2. ASSUME NEW j \in 1 .. n, j > i + 1 PROVE list[j] # Change(c, k, "Delete")
      <4>1. j - 1 \in 1 .. n - 1 /\ j - 1 > i /\ (j - 1) + 1 = j
        BY <1>1, <3>2
      <4>. QED  BY <3>1, <4>1
    <3>3. i + 1 \in 1 .. n
      BY <1>1
    <3>. QED  BY <1>1, <3>1, <3>2, <3>3 DEF Ends
  <2>2. CASE heard /\ \A i \in DOMAIN Tail(list) : Tail(list)[i] # Change(c, k, "Delete")
    <3>1. ASSUME NEW j \in 1 .. n, j > 1 PROVE list[j] # Change(c, k, "Delete")
      <4>1. j - 1 \in 1 .. n - 1 /\ (j - 1) + 1 = j
        BY <1>1, <3>1
      <4>. QED  BY <1>1, <2>2, <4>1
    <3>2. CASE a = Change(c, k, "Put")
      BY <1>1, <3>1, <3>2 DEF Ends
    <3>3. CASE a # Change(c, k, "Put")
      <4>1. before /\ a # Change(c, k, "Delete")
        BY <1>1, <1>2, <2>2, <3>3
      <4>. QED  BY <1>1, <3>1, <4>1 DEF Ends
    <3>. QED  BY <3>2, <3>3
  <2>. QED  BY <1>4, <2>1, <2>2 DEF Ends
<1>. QED  BY <1>3, <1>4

\* The list of a put: what it stored, then what was evicted.
LEMMA EndsOfLists ==
    ASSUME NEW c \in Collections, NEW puts \in Seq(Keys), NEW removed \in Seq(Keys),
           NEW d \in Collections, NEW k \in Keys, NEW before \in BOOLEAN
    PROVE  /\ Ends(Announce(c, puts, "Put") \o Announce(c, removed, "Delete"), d, k, before)
                <=> IF d = c /\ k \in Listed(removed) THEN FALSE
                    ELSE IF d = c /\ k \in Listed(puts) THEN TRUE ELSE before
           /\ Ends(Announce(c, puts, "Put"), d, k, before)
                <=> IF d = c /\ k \in Listed(puts) THEN TRUE ELSE before
           /\ Ends(Announce(c, removed, "Delete"), d, k, before)
                <=> IF d = c /\ k \in Listed(removed) THEN FALSE ELSE before
<1>. DEFINE n == Len(puts)
            m == Len(removed)
            P == Announce(c, puts, "Put")
            D == Announce(c, removed, "Delete")
<1>1. /\ n \in Nat /\ m \in Nat /\ DOMAIN puts = 1 .. n /\ DOMAIN removed = 1 .. m
      /\ P \in Seq(Announcement) /\ D \in Seq(Announcement)
  BY AnnounceTyped DEF ChangeOperation
<1>2. /\ Len(P) = n /\ DOMAIN P = 1 .. n /\ Len(D) = m /\ DOMAIN D = 1 .. m
      /\ \A i \in 1 .. n : P[i] = Change(c, puts[i], "Put")
      /\ \A i \in 1 .. m : D[i] = Change(c, removed[i], "Delete")
  BY <1>1 DEF Announce, Change
<1>3. \A l \in Keys, o1, o2 \in ChangeOperation :
        Change(c, l, o1) = Change(d, k, o2) <=> c = d /\ l = k /\ o1 = o2
  BY DEF Change
<1>4. /\ \A i \in 1 .. n : P[i] # Change(d, k, "Delete") /\ (P[i] = Change(d, k, "Put") <=> c = d /\ puts[i] = k)
      /\ \A i \in 1 .. m : D[i] # Change(d, k, "Put") /\ (D[i] = Change(d, k, "Delete") <=> c = d /\ removed[i] = k)
  BY <1>1, <1>2, <1>3 DEF ChangeOperation
<1>5. k \in Listed(puts) <=> \E i \in 1 .. n : puts[i] = k
  BY <1>1 DEF Listed
<1>6. k \in Listed(removed) <=> \E i \in 1 .. m : removed[i] = k
  BY <1>1 DEF Listed
<1>. HIDE DEF P, D
<1>7. Ends(P, d, k, before) <=> IF d = c /\ k \in Listed(puts) THEN TRUE ELSE before
  BY <1>2, <1>4, <1>5 DEF Ends
<1>8. Ends(D, d, k, before) <=> IF d = c /\ k \in Listed(removed) THEN FALSE ELSE before
  BY <1>2, <1>4, <1>6 DEF Ends
<1>9. /\ P \o D \in Seq(Announcement) /\ DOMAIN (P \o D) = 1 .. n + m
      /\ \A i \in 1 .. n : i \in 1 .. n + m /\ (P \o D)[i] = P[i]
      /\ \A i \in 1 .. n + m : i > n => i - n \in 1 .. m /\ (P \o D)[i] = D[i - n]
      /\ \A i \in 1 .. m : n + i \in 1 .. n + m /\ n + i > n /\ (P \o D)[n + i] = D[i]
  <2>1. /\ P \o D \in Seq(Announcement) /\ Len(P \o D) = Len(P) + Len(D)
        /\ \A i \in 1 .. Len(P) + Len(D) : (P \o D)[i] = IF i <= Len(P) THEN P[i] ELSE D[i - Len(P)]
    BY <1>1, ConcatProperties, Zenon
  <2>2. P \o D \in Seq(Announcement) /\ DOMAIN (P \o D) = 1 .. n + m
    BY <1>1, <1>2, <2>1
  <2>3. \A i \in 1 .. n + m : (P \o D)[i] = IF i <= n THEN P[i] ELSE D[i - n]
    BY <1>2, <2>1
  <2>4. /\ \A i \in 1 .. n : i \in 1 .. n + m /\ i <= n
        /\ \A i \in 1 .. n + m : i > n => i - n \in 1 .. m /\ ~(i <= n)
        /\ \A i \in 1 .. m : n + i \in 1 .. n + m /\ n + i > n /\ (n + i) - n = i
    BY <1>1
  <2>. QED  BY <2>2, <2>3, <2>4
<1>. DEFINE W == P \o D
<1>. HIDE DEF W
<1>10. /\ DOMAIN W = 1 .. n + m
       /\ \A i \in 1 .. n + m : W[i] = Change(d, k, "Put") <=> i <= n /\ c = d /\ puts[i] = k
       /\ \A i \in 1 .. n + m : W[i] = Change(d, k, "Delete") <=> i > n /\ c = d /\ removed[i - n] = k
  <2>1. ASSUME NEW i \in 1 .. n + m
        PROVE  /\ W[i] = Change(d, k, "Put") <=> i <= n /\ c = d /\ puts[i] = k
               /\ W[i] = Change(d, k, "Delete") <=> i > n /\ c = d /\ removed[i - n] = k
    <3>1. CASE i <= n
      <4>1. i \in 1 .. n /\ ~(i > n)
        BY <1>1, <3>1
      <4>2. W[i] = P[i]
        BY <1>9, <4>1 DEF W
      <4>. QED  BY <1>4, <3>1, <4>1, <4>2
    <3>2. CASE ~(i <= n)
      <4>1. i - n \in 1 .. m /\ i > n /\ W[i] = D[i - n]
        BY <1>1, <1>9, <3>2 DEF W
      <4>. QED  BY <1>4, <3>2, <4>1
    <3>. QED  BY <3>1, <3>2
  <2>. QED  BY <1>9, <2>1 DEF W
<1>11. ASSUME d = c /\ k \in Listed(removed) PROVE ~Ends(W, d, k, before)
  <2>1. PICK r \in 1 .. m : removed[r] = k
    BY <1>6, <1>11
  <2>2. /\ n + r \in 1 .. n + m /\ n + r > n /\ (n + r) - n = r
        /\ \A i \in 1 .. n + m : i <= n => n + r > i
    BY <1>1
  <2>3. W[n + r] = Change(d, k, "Delete")
    BY <1>10, <1>11, <2>1, <2>2
  <2>4. ASSUME NEW i \in 1 .. n + m, W[i] = Change(d, k, "Put"),
               \A j \in 1 .. n + m : j > i => W[j] # Change(d, k, "Delete")
        PROVE  FALSE
    BY <1>10, <2>2, <2>3, <2>4
  <2>. QED  BY <1>10, <1>11, <2>2, <2>3, <2>4 DEF Ends
<1>12. ASSUME ~(d = c /\ k \in Listed(removed))
       PROVE  Ends(W, d, k, before) <=> (d = c /\ k \in Listed(puts)) \/ before
  <2>1. \A i \in 1 .. n + m : W[i] # Change(d, k, "Delete")
    <3>1. ASSUME NEW i \in 1 .. n + m, W[i] = Change(d, k, "Delete") PROVE FALSE
      <4>1. i - n \in 1 .. m /\ c = d /\ removed[i - n] = k
        BY <1>1, <1>10, <3>1
      <4>. QED  BY <1>6, <1>12, <4>1
    <3>. QED  BY <3>1
  <2>2. ASSUME NEW i \in 1 .. n + m, W[i] = Change(d, k, "Put")
        PROVE  d = c /\ k \in Listed(puts)
    <3>1. i \in 1 .. n
      BY <1>1, <1>10, <2>2
    <3>. QED  BY <1>5, <1>10, <2>2, <3>1
  <2>3. ASSUME d = c, k \in Listed(puts)
        PROVE  \E i \in 1 .. n + m : W[i] = Change(d, k, "Put")
    <3>1. PICK i \in 1 .. n : puts[i] = k
      BY <1>5, <2>3
    <3>2. i \in 1 .. n + m /\ i <= n
      BY <1>1
    <3>. QED  BY <1>10, <2>3, <3>1, <3>2
  <2>. QED  BY <1>10, <1>12, <2>1, <2>2, <2>3 DEF Ends
<1>13. Ends(W, d, k, before)
          <=> IF d = c /\ k \in Listed(removed) THEN FALSE
              ELSE IF d = c /\ k \in Listed(puts) THEN TRUE ELSE before
  BY <1>11, <1>12
<1>. QED  BY <1>7, <1>8, <1>13 DEF W, P, D

LEMMA EndsOfPuts ==
    ASSUME NEW c \in Collections, NEW puts \in Seq(Keys),
           NEW d \in Collections, NEW k \in Keys, NEW before \in BOOLEAN
    PROVE  Ends(Announce(c, puts, "Put"), d, k, before) <=> (d = c /\ k \in Listed(puts)) \/ before
<1>1. <<>> \in Seq(Keys)
  OBVIOUS
<1>. QED  BY <1>1, EndsOfLists

LEMMA EndsOfDeletes ==
    ASSUME NEW c \in Collections, NEW removed \in Seq(Keys),
           NEW d \in Collections, NEW k \in Keys, NEW before \in BOOLEAN
    PROVE  Ends(Announce(c, removed, "Delete"), d, k, before)
              <=> ~(d = c /\ k \in Listed(removed)) /\ before
<1>1. <<>> \in Seq(Keys)
  OBVIOUS
<1>. QED  BY <1>1, EndsOfLists

-----------------------------------------------------------------------------
(* The stages of a call, its locks and its list *)

\* What a call's stage says of the locks and of its locals.
CallOK(t) ==
    /\ pending[t] # <<>> => pc[t] = "recording"
    /\ pc[t] \in {"recording", "clearing"} => mutationLock = t
    /\ outcome[t] = "cancelled" => pc[t] = "idle"
    /\ pc[t] = "clearing" => call[t].op = "destroy"
    /\ pc[t] # "idle" => call[t].op \in Operations
    /\ pc[t] = "seeding" => todo[t] \subseteq {item[1] : item \in Seed}
CallInv == \A t \in Tasks : CallOK(t)

\* A step of one task leaves what the others hold.
LEMMA MoveKeepsCalls ==
    ASSUME StoreTypeOK, CallInv, NEW t \in Tasks,
           \A u \in Tasks : u # t => /\ pc'[u] = pc[u] /\ call'[u] = call[u] /\ todo'[u] = todo[u]
                                     /\ pending'[u] = pending[u] /\ outcome'[u] = outcome[u],
           mutationLock \notin {t, NoTask} => mutationLock' = mutationLock,
           CallOK(t)'
    PROVE  CallInv'
<1>1. ASSUME NEW u \in Tasks, u # t PROVE CallOK(u)'
  <2>1. CallOK(u)
    BY DEF CallInv
  <2>2. pc[u] \in {"recording", "clearing"} => mutationLock' = u
    BY <1>1, <2>1, TasksAssumption DEF CallOK
  <2>. QED  BY <1>1, <2>1, <2>2 DEF CallOK
<1>. QED  BY <1>1 DEF CallInv

LEMMA CallStepKeepsCalls ==
    ASSUME StoreTypeOK, CallInv, NEW t \in Tasks,
           \/ Reject(t) \/ Cancel(t) \/ Return(t) \/ RecordNext(t)
           \/ SetupAlreadyComplete(t) \/ SetupBegin(t) \/ SetupDone(t) \/ PrepareFails(t)
           \/ CreateCollection(t)
           \/ Get(t) \/ Ttl(t) \/ GetMany(t) \/ TtlMany(t) \/ ListKeys(t)
           \/ GetWithRevision(t) \/ ListCollections(t)
           \/ DestroyBegin(t) \/ DestroyDone(t)
           \/ \E c \in Collections : SeedCollection(t, c) \/ SeedFails(t, c) \/ ClearCollection(t, c)
    PROVE  CallInv'
<1>1. CallOK(t) /\ AfterSetup(call[t].op) \in {"ready", "create"}
  BY DEF CallInv, AfterSetup
<1>. USE DEF StoreTypeOK, Goto, Answer, CallOK, lockVars, ghostVars, mapVars
<1>2. CASE SetupAlreadyComplete(t) \/ SetupDone(t)
  <2>1. /\ pc' = [pc EXCEPT ![t] = AfterSetup(call[t].op)]
        /\ UNCHANGED <<call, todo, pending, outcome, mutationLock>>
        /\ pc[t] \in {"setup", "seeding"}
    BY <1>2 DEF SetupAlreadyComplete, SetupDone
  <2>2. pc'[t] \in {"ready", "create"} /\ \A u \in Tasks : u # t => pc'[u] = pc[u]
    BY <1>1, <2>1
  <2>. QED  BY <1>1, <2>1, <2>2, MoveKeepsCalls
<1>3. CASE SetupBegin(t)
  BY <1>1, <1>3, MoveKeepsCalls DEF SetupBegin
<1>4. CASE PrepareFails(t)
  BY <1>1, <1>4, MoveKeepsCalls DEF PrepareFails
<1>5. CASE CreateCollection(t)
  <2>1. /\ call'[t].op = call[t].op /\ \A u \in Tasks : u # t => call'[u] = call[u]
        /\ pc' = [pc EXCEPT ![t] = "ready"] /\ pc[t] = "create"
        /\ UNCHANGED <<todo, pending, outcome, mutationLock>>
    BY <1>5 DEF CreateCollection, Call, CallFields
  <2>. QED  BY <1>1, <2>1, MoveKeepsCalls
<1>6. CASE \/ Get(t) \/ Ttl(t) \/ GetMany(t) \/ TtlMany(t) \/ ListKeys(t)
           \/ GetWithRevision(t) \/ ListCollections(t)
  <2>1. /\ pc' = [pc EXCEPT ![t] = "idle"] /\ pc[t] = "ready"
        /\ UNCHANGED <<call, todo, pending, mutationLock>>
        /\ \A u \in Tasks : u # t => outcome'[u] = outcome[u]
    BY <1>6 DEF Get, Ttl, GetMany, TtlMany, ListKeys, GetWithRevision, ListCollections, ReadCollection
  <2>. QED  BY <1>1, <2>1, MoveKeepsCalls
<1>7. CASE DestroyBegin(t)
  <2>1. /\ pc' = [pc EXCEPT ![t] = "clearing"] /\ pc[t] = "ready" /\ call[t].op = "destroy"
        /\ UNCHANGED <<call, pending, outcome>> /\ mutationLock = NoTask /\ mutationLock' = t
        /\ \A u \in Tasks : u # t => todo'[u] = todo[u]
    BY <1>7 DEF DestroyBegin, Commit
  <2>. QED  BY <1>1, <2>1, MoveKeepsCalls
<1>8. CASE DestroyDone(t) \/ Return(t)
  <2>1. /\ pc' = [pc EXCEPT ![t] = "idle"] /\ pc[t] \in {"recording", "clearing"}
        /\ UNCHANGED <<call, todo, pending>> /\ mutationLock' = NoTask
        /\ \A u \in Tasks : u # t => outcome'[u] = outcome[u]
        /\ pending[t] = <<>>
    BY <1>1, <1>8 DEF DestroyDone, Return
  <2>2. mutationLock = t
    BY <1>1, <2>1
  <2>. QED  BY <1>1, <2>1, <2>2, MoveKeepsCalls
<1>9. CASE Cancel(t)
  <2>1. /\ pc' = [pc EXCEPT ![t] = "idle"] /\ UNCHANGED <<call, todo>>
        /\ pending' = [pending EXCEPT ![t] = <<>>]
        /\ \A u \in Tasks : u # t => outcome'[u] = outcome[u]
        /\ mutationLock # t => mutationLock' = mutationLock
    BY <1>9 DEF Cancel
  <2>. QED  BY <1>1, <2>1, MoveKeepsCalls
<1>10. CASE RecordNext(t)
  <2>1. /\ pc[t] = "recording" /\ UNCHANGED <<pc, call, todo, outcome, mutationLock>>
        /\ \A u \in Tasks : u # t => pending'[u] = pending[u]
    BY <1>10 DEF RecordNext
  <2>. QED  BY <1>1, <2>1, MoveKeepsCalls
<1>11. CASE Reject(t)
  BY <1>1, <1>11, MoveKeepsCalls DEF Reject
<1>12. ASSUME NEW c \in Collections, SeedCollection(t, c) \/ ClearCollection(t, c)
       PROVE  CallInv'
  <2>1. /\ pc[t] \in {"seeding", "clearing"} /\ UNCHANGED <<pc, call, pending, outcome, mutationLock>>
        /\ todo' = [todo EXCEPT ![t] = @ \ {c}]
    BY <1>12 DEF SeedCollection, ClearCollection
  <2>2. todo'[t] \subseteq todo[t] /\ \A u \in Tasks : u # t => todo'[u] = todo[u]
    BY <2>1
  <2>. QED  BY <1>1, <2>1, <2>2, MoveKeepsCalls
<1>13. ASSUME NEW c \in Collections, SeedFails(t, c)
       PROVE  CallInv'
  <2>1. /\ pc[t] = "seeding" /\ UNCHANGED <<call, pending, mutationLock>>
        /\ pc' = [pc EXCEPT ![t] = "idle"]
        /\ todo' = [todo EXCEPT ![t] = {}]
        /\ \A u \in Tasks : u # t => outcome'[u] = outcome[u]
    BY <1>13 DEF SeedFails
  <2>. QED  BY <1>1, <2>1, MoveKeepsCalls
<1>. QED  BY <1>2, <1>3, <1>4, <1>5, <1>6, <1>7, <1>8, <1>9, <1>10, <1>11, <1>12, <1>13

\* So does the start of a call, and a mutation.
LEMMA BeginKeepsCalls ==
    ASSUME StoreTypeOK, CallInv, NEW t \in Tasks, Begin(t)
    PROVE  CallInv'
<1>1. PICK op \in Operations : \E request \in Requests(t, op) :
            /\ call' = [call EXCEPT ![t] = request]
            /\ Goto(t, IF op \in {"cull", "destroy"} THEN "ready" ELSE "setup")
  BY DEF Begin
<1>2. PICK request \in Requests(t, op) :
            /\ call' = [call EXCEPT ![t] = request]
            /\ Goto(t, IF op \in {"cull", "destroy"} THEN "ready" ELSE "setup")
  BY <1>1
<1>3. request.op = op
  BY DEF Requests
<1>4. /\ call'[t].op \in Operations /\ pc'[t] \in {"ready", "setup"}
      /\ \A u \in Tasks : u # t => call'[u] = call[u] /\ pc'[u] = pc[u]
  BY <1>2, <1>3 DEF StoreTypeOK, Goto
<1>5. /\ outcome'[t] = "pending" /\ UNCHANGED <<pending, todo, mutationLock>> /\ pc[t] = "idle"
      /\ \A u \in Tasks : u # t => outcome'[u] = outcome[u]
  BY DEF Begin, Answer, StoreTypeOK, lockVars
<1>. QED  BY <1>4, <1>5, MoveKeepsCalls DEF CallOK, CallInv

LEMMA MutationKeepsCalls ==
    ASSUME StoreTypeOK, CallInv, NEW t \in Tasks,
           \/ Put(t) \/ PutMany(t) \/ Delete(t) \/ DeleteMany(t) \/ CompareAndSwap(t)
           \/ CompareAndDelete(t) \/ Cull(t) \/ DestroyCollection(t)
    PROVE  CallInv'
<1>1. pc[t] = "ready" /\ mutationLock = NoTask
  BY DEF Put, PutMany, Delete, DeleteMany, CompareAndSwap, CompareAndDelete, Cull,
         DestroyCollection, Commit
<1>2. \/ \E list : Record(t, list) /\ Answer(t, "ok")
      \/ \E result \in {"ok", "conflict", "missing"} : Leave(t, result)
  <2>1. CASE Put(t) \/ PutMany(t)
    BY <2>1 DEF Put, PutMany, Insert
  <2>2. CASE Delete(t) \/ DeleteMany(t)
    BY <2>2 DEF Delete, DeleteMany, Remove
  <2>3. CASE CompareAndSwap(t)
    BY <2>3 DEF CompareAndSwap
  <2>4. CASE CompareAndDelete(t)
    BY <2>4 DEF CompareAndDelete
  <2>5. CASE Cull(t)
    BY <2>5 DEF Cull
  <2>6. CASE DestroyCollection(t)
    BY <2>6 DEF DestroyCollection
  <2>. QED  BY <2>1, <2>2, <2>3, <2>4, <2>5, <2>6
<1>3. \A list : Record(t, list) /\ Answer(t, "ok") => CallInv'
  <2>. SUFFICES ASSUME NEW list, Record(t, list), Answer(t, "ok") PROVE CallInv'
    OBVIOUS
  <2>1. /\ pc'[t] = "recording" /\ outcome'[t] = "ok" /\ mutationLock' = t /\ UNCHANGED <<call, todo>>
        /\ \A u \in Tasks : u # t => /\ pc'[u] = pc[u] /\ pending'[u] = pending[u]
                                     /\ outcome'[u] = outcome[u]
    BY DEF Record, Goto, Answer, StoreTypeOK
  <2>. QED  BY <1>1, <2>1, MoveKeepsCalls DEF CallOK, CallInv
<1>4. ASSUME NEW result \in {"ok", "conflict", "missing"}, Leave(t, result) PROVE CallInv'
  <2>1. /\ pc'[t] = "idle" /\ UNCHANGED <<call, todo, pending, mutationLock>>
        /\ \A u \in Tasks : u # t => pc'[u] = pc[u] /\ outcome'[u] = outcome[u]
    BY <1>4 DEF Leave, Goto, Answer, StoreTypeOK, lockVars
  <2>. QED  BY <1>1, <2>1, MoveKeepsCalls DEF CallOK, CallInv
<1>. QED  BY <1>2, <1>3, <1>4

\* Every step keeps it, so it always holds.
LEMMA CallInvariant == Spec => []CallInv
<1>1. Init => CallInv
  BY DEF Init, CallInv, CallOK
<1>2. StoreInv /\ CallInv /\ [Next]_vars => CallInv'
  <2>. SUFFICES ASSUME StoreTypeOK, CallInv, [Next]_vars PROVE CallInv'
    BY DEF StoreInv
  <2>1. ASSUME NEW t \in Tasks, Step(t) PROVE CallInv'
    BY <2>1, CallStepKeepsCalls, MutationKeepsCalls DEF Step
  <2>2. ASSUME NEW t \in Tasks, Begin(t) \/ Reject(t) \/ Cancel(t) PROVE CallInv'
    BY <2>2, CallStepKeepsCalls, BeginKeepsCalls
  <2>3. CASE \/ Tick \/ DropStore \/ UNCHANGED vars
             \/ \E s \in Subscribers : StoreSubscribe(s) \/ StreamStep(s)
    <3>1. UNCHANGED <<mutationLock, pc, call, todo, pending, outcome>>
      BY <2>3 DEF Tick, DropStore, StoreSubscribe, StreamStep, vars, storeVars, lockVars, taskVars
    <3>. QED  BY <3>1 DEF CallInv, CallOK
  <2>. QED  BY <2>1, <2>2, <2>3 DEF Next
<1>. QED  BY <1>1, <1>2, StoreInvariant, PTL DEF Spec

-----------------------------------------------------------------------------
(* What the reader will believe *)

\* Only the holder of the lock has changes to record, so what the reader will believe is
\* what the holder's list leaves it with.
OneTells ==
    \A c \in Collections, k \in Keys :
        /\ \A h \in Tasks : mutationLock = h =>
              (Believed(c, k) <=> Ends(pending[h], c, k, mirror[<<c, k>>]))
        /\ mutationLock = NoTask => (Believed(c, k) <=> mirror[<<c, k>>])

LEMMA OneHolder == StoreTypeOK /\ CallInv => OneTells
<1>. SUFFICES ASSUME StoreTypeOK, CallInv, NEW c \in Collections, NEW k \in Keys
              PROVE  /\ \A h \in Tasks : mutationLock = h =>
                           (Believed(c, k) <=> Ends(pending[h], c, k, mirror[<<c, k>>]))
                     /\ mutationLock = NoTask => (Believed(c, k) <=> mirror[<<c, k>>])
  BY DEF OneTells
<1>1. \A t \in Tasks : mutationLock # t => pending[t] = <<>>
  BY DEF CallInv, CallOK
<1>2. \A t \in Tasks : pending[t] \in Seq(Announcement)
  BY DEF StoreTypeOK
<1>3. DOMAIN <<>> = {}
  OBVIOUS
<1>4. ASSUME NEW h \in Tasks, mutationLock = h
      PROVE  Believed(c, k) <=> Ends(pending[h], c, k, mirror[<<c, k>>])
  BY <1>1, <1>3, <1>4 DEF Believed, Ends, Change
<1>5. ASSUME mutationLock = NoTask PROVE Believed(c, k) <=> mirror[<<c, k>>]
  <2>1. \A t \in Tasks : DOMAIN pending[t] = {}
    BY <1>1, <1>3, <1>5, TasksAssumption
  <2>. QED  BY <2>1 DEF Believed
<1>. QED  BY <1>4, <1>5

LEMMA OneHolderNext == StoreTypeOK' /\ CallInv' => OneTells'
BY OneHolder, PTL

\* When a mutation of the lock's begins, the reader's belief is the mirror's, and the list it
\* leaves to record decides what it becomes.
LEMMA RecordTells ==
    ASSUME StoreTypeOK, StoreTypeOK', CallInv, CallInv', NEW t \in Tasks, mutationLock = NoTask,
           NEW list, Record(t, list), NEW c \in Collections, NEW k \in Keys
    PROVE  Believed(c, k)' <=> Ends(list, c, k, Believed(c, k))
<1>1. mutationLock' = t /\ pending'[t] = list /\ mirror' = mirror
  BY DEF Record, StoreTypeOK
<1>2. Believed(c, k) <=> mirror[<<c, k>>]
  BY OneHolder DEF OneTells
<1>3. Believed(c, k)' <=> Ends(pending'[t], c, k, mirror'[<<c, k>>])
  BY <1>1, OneHolderNext DEF OneTells
<1>. QED  BY <1>1, <1>2, <1>3 DEF Ends

-----------------------------------------------------------------------------
(* What the listings of a step list *)

\* A finite set of numbers has a least and a greatest element.
LEMMA ExtremesExist ==
    ASSUME NEW S \in SUBSET Nat, IsFiniteSet(S), S # {}
    PROVE  /\ \E m \in S : \A j \in S : j <= m
           /\ \E m \in S : \A j \in S : m <= j
<1>1. IsWellFoundedOn(StrictSubsetOrdering(S), FiniteSubsetsOf(S)) /\ FiniteSubsetsOf(S) = SUBSET S
  BY FS_StrictSubsetOrderingWellFounded, FS_FiniteSubsetsOfFinite
<1>2. ASSUME NEW F \in SUBSET SUBSET S, F # {}
      PROVE  \E x \in F : \A y \in F : y \subseteq x => y = x
  <2>1. \E x \in F : \A y \in F : ~(<<y, x>> \in StrictSubsetOrdering(S))
    <3>. DEFINE R == StrictSubsetOrdering(S)
                D == FiniteSubsetsOf(S)
    <3>1. IsWellFoundedOn(R, D) /\ F \subseteq D
      BY <1>1, <1>2
    <3>. HIDE DEF R, D
    <3>2. \E x \in F : \A y \in F : ~(<<y, x>> \in R)
      BY <1>2, <3>1, WFMin, Zenon
    <3>. QED  BY <3>2 DEF R
  <2>. QED  BY <1>2, <2>1 DEF StrictSubsetOrdering
<1>3. \E m \in S : \A j \in S : j <= m
  <2>. DEFINE Above(i) == {l \in S : l > i}
              Family == {Above(i) : i \in S}
  <2>0. \A i \in S : Above(i) \subseteq S /\ Above(i) \in Family
    OBVIOUS
  <2>1. Family \in SUBSET SUBSET S /\ Family # {}
    <3>. HIDE DEF Above
    <3>1. Family \in SUBSET SUBSET S
      BY <2>0
    <3>2. PICK s \in S : TRUE
      OBVIOUS
    <3>3. Above(s) \in Family
      BY <2>0
    <3>. QED  BY <3>1, <3>3, Zenon
  <2>. HIDE DEF Family
  <2>2. PICK x \in Family : \A y \in Family : y \subseteq x => y = x
    BY <1>2, <2>1
  <2>3. PICK m \in S : x = Above(m)
    BY <2>2 DEF Family
  <2>4. ASSUME NEW j \in S, ~(j <= m) PROVE FALSE
    <3>1. j \in Nat /\ m \in Nat /\ \A l \in S : l \in Nat
      OBVIOUS
    <3>2. j \in Above(m) /\ j \notin Above(j)
      BY <2>4, <3>1
    <3>3. ASSUME NEW l \in S, l > j PROVE l > m
      BY <2>4, <3>1, <3>3
    <3>4. Above(j) \subseteq Above(m)
      BY <3>3
    <3>. HIDE DEF Above
    <3>. QED  BY <2>0, <2>2, <2>3, <3>2, <3>4
  <2>. QED  BY <2>4
<1>4. \E m \in S : \A j \in S : m <= j
  <2>. DEFINE Below(i) == {l \in S : l < i}
              Family == {Below(i) : i \in S}
  <2>0. \A i \in S : Below(i) \subseteq S /\ Below(i) \in Family
    OBVIOUS
  <2>1. Family \in SUBSET SUBSET S /\ Family # {}
    <3>. HIDE DEF Below
    <3>1. Family \in SUBSET SUBSET S
      BY <2>0
    <3>2. PICK s \in S : TRUE
      OBVIOUS
    <3>3. Below(s) \in Family
      BY <2>0
    <3>. QED  BY <3>1, <3>3, Zenon
  <2>. HIDE DEF Family
  <2>2. PICK x \in Family : \A y \in Family : y \subseteq x => y = x
    BY <1>2, <2>1
  <2>3. PICK m \in S : x = Below(m)
    BY <2>2 DEF Family
  <2>4. ASSUME NEW j \in S, ~(m <= j) PROVE FALSE
    <3>1. j \in Nat /\ m \in Nat /\ \A l \in S : l \in Nat
      OBVIOUS
    <3>2. j \in Below(m) /\ j \notin Below(j)
      BY <2>4, <3>1
    <3>3. ASSUME NEW l \in S, l < j PROVE l < m
      BY <2>4, <3>1, <3>3
    <3>4. Below(j) \subseteq Below(m)
      BY <3>3
    <3>. HIDE DEF Below
    <3>. QED  BY <2>0, <2>2, <2>3, <3>2, <3>4
  <2>. QED  BY <2>4
<1>. QED  BY <1>3, <1>4

\* A listing lists every element, and two lists list what each does.
LEMMA ListedIs ==
    /\ \A S : IsFiniteSet(S) => \A seq \in Listings(S) : Listed(seq) = S
    /\ \A a, b \in Seq(Keys) : Listed(a \o b) = Listed(a) \cup Listed(b)
    /\ Listed(<<>>) = {}
<1>1. ASSUME NEW S, IsFiniteSet(S), NEW seq \in Listings(S) PROVE Listed(seq) = S
  BY FS_CardinalityType DEF Listings, Listed
<1>2. ASSUME NEW a \in Seq(Keys), NEW b \in Seq(Keys) PROVE Listed(a \o b) = Listed(a) \cup Listed(b)
  <2>1. /\ a \o b \in Seq(Keys) /\ Len(a \o b) = Len(a) + Len(b)
        /\ \A i \in 1 .. Len(a) + Len(b) :
              (a \o b)[i] = IF i <= Len(a) THEN a[i] ELSE b[i - Len(a)]
    BY ConcatProperties, Zenon
  <2>2. /\ DOMAIN (a \o b) = 1 .. Len(a) + Len(b) /\ DOMAIN a = 1 .. Len(a) /\ DOMAIN b = 1 .. Len(b)
        /\ Len(a) \in Nat /\ Len(b) \in Nat
    BY <2>1
  <2>. DEFINE w == a \o b
              n == Len(a)
              m == Len(b)
  <2>. HIDE DEF w, n, m
  <2>3. /\ DOMAIN w = 1 .. n + m /\ DOMAIN a = 1 .. n /\ DOMAIN b = 1 .. m
        /\ n \in Nat /\ m \in Nat
        /\ \A i \in 1 .. n + m : w[i] = IF i <= n THEN a[i] ELSE b[i - n]
    BY <2>1, <2>2 DEF w, n, m
  <2>4. ASSUME NEW i \in 1 .. n + m PROVE w[i] \in Listed(a) \cup Listed(b)
    <3>1. CASE i <= n
      <4>1. i \in 1 .. n
        BY <2>3, <3>1
      <4>. QED  BY <2>3, <3>1, <4>1 DEF Listed
    <3>2. CASE ~(i <= n)
      <4>1. i - n \in 1 .. m
        BY <2>3, <3>2
      <4>. QED  BY <2>3, <3>2, <4>1 DEF Listed
    <3>. QED  BY <3>1, <3>2
  <2>5. ASSUME NEW i \in 1 .. n PROVE a[i] \in Listed(w)
    <3>1. i \in 1 .. n + m /\ i <= n
      BY <2>3
    <3>. QED  BY <2>3, <3>1 DEF Listed
  <2>6. ASSUME NEW i \in 1 .. m PROVE b[i] \in Listed(w)
    <3>1. n + i \in 1 .. n + m /\ ~(n + i <= n) /\ (n + i) - n = i
      BY <2>3
    <3>. QED  BY <2>3, <3>1 DEF Listed
  <2>7. Listed(w) = Listed(a) \cup Listed(b)
    <3>1. \A x \in Listed(w) : \E i \in 1 .. n + m : x = w[i]
      BY <2>3 DEF Listed
    <3>2. \A x \in Listed(a) : \E i \in 1 .. n : x = a[i]
      BY <2>3 DEF Listed
    <3>3. \A x \in Listed(b) : \E i \in 1 .. m : x = b[i]
      BY <2>3 DEF Listed
    <3>. QED  BY <2>4, <2>5, <2>6, <3>1, <3>2, <3>3
  <2>. QED  BY <2>7 DEF w
<1>3. Listed(<<>>) = {}
  BY DEF Listed
<1>. QED  BY <1>1, <1>2, <1>3

\* What enforce_capacity lists is what it removes.
LEMMA RemovalsAre ==
    ASSUME NEW col \in [Keys -> Slot], NEW removed \in Removals(col)
    PROVE  removed \in Seq(Keys) /\ Listed(removed) = EnforceCapacity(col)
<1>1. removed \in Seq(Keys)
  BY RemovalsTyped
<1>2. CASE MaxEntries = NoLimit
  BY <1>1, <1>2, ListedIs DEF Removals, EnforceCapacity
<1>3. CASE MaxEntries # NoLimit
  <2>1. IsFiniteSet(LapsedKeys(col)) /\ LapsedKeys(col) \subseteq Keys
    BY FiniteAssumption, FS_Subset DEF LapsedKeys
  <2>2. IsFiniteSet(Surplus(col)) /\ Surplus(col) \subseteq Keys
    BY FiniteAssumption, FS_Subset DEF Surplus, LiveKeys
  <2>3. PICK part \in Listings(LapsedKeys(col)) \X Ascending(Surplus(col)) :
          removed = part[1] \o part[2]
    BY <1>3 DEF Removals
  <2>4. part[1] \in Listings(LapsedKeys(col)) /\ part[2] \in Listings(Surplus(col))
    BY DEF Ascending
  <2>5. part[1] \in Seq(Keys) /\ part[2] \in Seq(Keys)
    BY <2>1, <2>2, <2>4, ListingsAreSeqs
  <2>6. Listed(part[1]) = LapsedKeys(col) /\ Listed(part[2]) = Surplus(col)
    BY <2>1, <2>2, <2>4, ListedIs
  <2>. QED  BY <1>1, <1>3, <2>3, <2>5, <2>6, ListedIs DEF EnforceCapacity
<1>. QED  BY <1>2, <1>3

\* The keys of a call are where it inserts, with tokens; the others keep their slots.
LEMMA InsertedIs ==
    ASSUME StoreTypeOK, NEW t \in Tasks, NEW k \in Keys
    PROVE  /\ k \in Listed(call[t].keys) => Inserted(t)[k].token # 0
           /\ k \notin Listed(call[t].keys) => Inserted(t)[k] = store[<<call[t].collection, k>>]
<1>. DEFINE keys == call[t].keys
            IsLast(i, l) == keys[i] = l /\ \A j \in DOMAIN keys : keys[j] = l => j <= i
            At == {i \in DOMAIN keys : keys[i] = k}
<1>1. keys \in Seq(Keys) /\ call[t].base \in Nat
  BY CallTyped
<1>2. DOMAIN keys = 1 .. Len(keys) /\ Len(keys) \in Nat
  BY <1>1
<1>3. Inserted(t)[k] = IF \E i \in DOMAIN keys : IsLast(i, k)
                         THEN [token |-> call[t].base + (CHOOSE i \in DOMAIN keys : IsLast(i, k)),
                               expires |-> call[t].expires]
                         ELSE store[<<call[t].collection, k>>]
  BY DEF Inserted
<1>4. ASSUME k \in Listed(keys) PROVE Inserted(t)[k].token # 0
  <2>0. PICK i \in DOMAIN keys : keys[i] = k
    BY <1>4 DEF Listed
  <2>1. At # {} /\ At \subseteq 1 .. Len(keys) /\ At \in SUBSET Nat
    <3>1. i \in At /\ At \subseteq DOMAIN keys
      BY <2>0, Zenon
    <3>2. 1 .. Len(keys) \subseteq Nat
      BY <1>2
    <3>. HIDE DEF At
    <3>. QED  BY <1>2, <3>1, <3>2
  <2>2. IsFiniteSet(At)
    <3>1. IsFiniteSet(1 .. Len(keys))
      BY <1>2, FS_Interval
    <3>. HIDE DEF At
    <3>. QED  BY <2>1, <3>1, FS_Subset
  <2>3. PICK l \in At : \A j \in At : j <= l
    BY <2>1, <2>2, ExtremesExist
  <2>4. \E j \in DOMAIN keys : IsLast(j, k)
    BY <2>3
  <2>. DEFINE m == CHOOSE j \in DOMAIN keys : IsLast(j, k)
  <2>5. m \in DOMAIN keys
    BY <2>4
  <2>6. Inserted(t)[k] = [token |-> call[t].base + m, expires |-> call[t].expires]
    BY <1>3, <2>4
  <2>. HIDE DEF m
  <2>7. call[t].base + m # 0
    BY <1>1, <1>2, <2>5
  <2>. QED  BY <2>6, <2>7
<1>5. ASSUME k \notin Listed(keys) PROVE Inserted(t)[k] = store[<<call[t].collection, k>>]
  BY <1>3, <1>5 DEF Listed
<1>. QED  BY <1>4, <1>5

-----------------------------------------------------------------------------
(* Every change of the map is told *)

\* What a step does to an entry and to what the reader will believe of it: it leaves them
\* in agreement, or as they were.
Agrees(c, k) ==
    \/ Present(c, k)' <=> Believed(c, k)'
    \/ store'[<<c, k>>].token = store[<<c, k>>].token /\ (Believed(c, k)' <=> Believed(c, k))

\* Weaker: the entry is gone, seeded, believed in, or as before and no less believed in.
Covers(c, k) ==
    \/ ~Present(c, k)'
    \/ store'[<<c, k>>].token \in seedTokens'
    \/ Believed(c, k)'
    \/ store'[<<c, k>>].token = store[<<c, k>>].token /\ (Believed(c, k) => Believed(c, k)')

LEMMA AgreesCovers ==
    ASSUME NEW c \in Collections, NEW k \in Keys, Agrees(c, k) PROVE Covers(c, k)
BY DEF Agrees, Covers

\* Steps that leave the map, the lists and the mirror as they are.
LEMMA UntouchedAgrees ==
    ASSUME UNCHANGED <<store, pending, mirror>>, NEW c \in Collections, NEW k \in Keys
    PROVE  Agrees(c, k)
BY DEF Agrees, Believed

\* Steps that leave the lists and the mirror as they are, and at most remove entries.
LEMMA RemovedCovers ==
    ASSUME UNCHANGED <<pending, mirror>>, NEW c \in Collections, NEW k \in Keys,
           store'[<<c, k>>].token \in {0, store[<<c, k>>].token}
    PROVE  Covers(c, k)
BY DEF Covers, Believed, Present

\* put and put_many announce what they store and what they evict.
LEMMA InsertTells ==
    ASSUME StoreTypeOK, StoreTypeOK', CallInv, CallInv', NEW t \in Tasks, mutationLock = NoTask,
           Insert(t), NEW d \in Collections, NEW k \in Keys
    PROVE  Covers(d, k) /\ (call[t].collection \in exists => Agrees(d, k))
<1>. DEFINE c == call[t].collection
            keys == call[t].keys
            col == Inserted(t)
            puts == Announce(c, keys, "Put")
<1>1. /\ c \in Collections /\ keys \in Seq(Keys) /\ store \in [Collections \X Keys -> Slot]
      /\ col \in [Keys -> Slot] /\ "Put" \in ChangeOperation
  BY CallTyped, InsertedTyped DEF ChangeOperation
<1>2. Believed(d, k) \in BOOLEAN
  BY DEF Believed
<1>3. CASE c \in exists
  <2>1. /\ store' = WithColumn(c, Without(col, EnforceCapacity(col)))
        /\ \E removed \in Removals(col) : Record(t, puts \o Announce(c, removed, "Delete"))
    BY <1>3 DEF Insert
  <2>2. PICK removed \in Removals(col) : Record(t, puts \o Announce(c, removed, "Delete"))
    BY <2>1
  <2>3. removed \in Seq(Keys) /\ Listed(removed) = EnforceCapacity(col)
    BY <1>1, RemovalsAre
  <2>4. Believed(d, k)' <=> Ends(puts \o Announce(c, removed, "Delete"), d, k, Believed(d, k))
    BY <2>2, RecordTells
  <2>5. Believed(d, k)' <=> IF d = c /\ k \in EnforceCapacity(col) THEN FALSE
                            ELSE IF d = c /\ k \in Listed(keys) THEN TRUE ELSE Believed(d, k)
    BY <1>1, <1>2, <2>3, <2>4, EndsOfLists
  <2>6. Without(col, EnforceCapacity(col)) \in [Keys -> Slot]
    BY <1>1, ColumnsTyped
  <2>7. store'[<<d, k>>] = IF d = c THEN Without(col, EnforceCapacity(col))[k] ELSE store[<<d, k>>]
    BY <1>1, <2>1, <2>6, WithColumnIs
  <2>8. Without(col, EnforceCapacity(col))[k] = IF k \in EnforceCapacity(col) THEN Empty ELSE col[k]
    BY DEF Without
  <2>. HIDE DEF col
  <2>9. Agrees(d, k)
    <3>1. CASE d # c
      BY <2>5, <2>7, <3>1 DEF Agrees
    <3>2. CASE d = c /\ k \in EnforceCapacity(col)
      BY <2>5, <2>7, <2>8, <3>2 DEF Agrees, Present, Empty
    <3>3. CASE d = c /\ k \notin EnforceCapacity(col) /\ k \in Listed(keys)
      <4>1. store'[<<d, k>>].token # 0
        BY <2>7, <2>8, <3>3, InsertedIs DEF col
      <4>. QED  BY <2>5, <3>3, <4>1 DEF Agrees, Present
    <3>4. CASE d = c /\ k \notin EnforceCapacity(col) /\ k \notin Listed(keys)
      <4>1. store'[<<d, k>>] = store[<<d, k>>]
        BY <2>7, <2>8, <3>4, InsertedIs DEF col
      <4>. QED  BY <2>5, <3>4, <4>1 DEF Agrees
    <3>. QED  BY <3>1, <3>2, <3>3, <3>4
  <2>. QED  BY <2>9, AgreesCovers
<1>4. CASE c \notin exists
  <2>1. store' = store /\ Record(t, puts)
    BY <1>4 DEF Insert
  <2>2. Believed(d, k)' <=> Ends(puts, d, k, Believed(d, k))
    BY <2>1, RecordTells
  <2>3. Believed(d, k) => Believed(d, k)'
    BY <1>1, <1>2, <2>2, EndsOfPuts
  <2>. QED  BY <1>4, <2>1, <2>3 DEF Covers
<1>. QED  BY <1>3, <1>4

\* delete, delete_many and destroy_collection announce what they remove.
LEMMA RemoveTells ==
    ASSUME StoreTypeOK, StoreTypeOK', CallInv, CallInv', NEW t \in Tasks, mutationLock = NoTask,
           NEW c \in Collections, NEW gone \in SUBSET Keys, NEW keys,
           keys \in Listings({k \in gone : Present(c, k)}),
           Record(t, Announce(c, keys, "Delete")),
           store' = WithColumn(c, Without(Column(c), gone)),
           NEW d \in Collections, NEW k \in Keys
    PROVE  Agrees(d, k)
<1>. DEFINE found == {l \in gone : Present(c, l)}
<1>1. found \subseteq Keys /\ IsFiniteSet(found)
  BY FiniteAssumption, FS_Subset
<1>2. keys \in Seq(Keys) /\ Listed(keys) = found
  BY <1>1, ListingsAreSeqs, ListedIs
<1>3. Believed(d, k) \in BOOLEAN
  BY DEF Believed
<1>4. Believed(d, k)' <=> Ends(Announce(c, keys, "Delete"), d, k, Believed(d, k))
  BY RecordTells
<1>5. Believed(d, k)' <=> IF d = c /\ k \in found THEN FALSE ELSE Believed(d, k)
  BY <1>2, <1>3, <1>4, EndsOfLists
<1>6. store \in [Collections \X Keys -> Slot] /\ Without(Column(c), gone) \in [Keys -> Slot]
  BY ColumnsTyped DEF StoreTypeOK
<1>7. store'[<<d, k>>] = IF d = c THEN Without(Column(c), gone)[k] ELSE store[<<d, k>>]
  BY <1>6, WithColumnIs
<1>8. Without(Column(c), gone)[k] = IF k \in gone THEN Empty ELSE store[<<c, k>>]
  BY DEF Without, Column
<1>. QED  BY <1>5, <1>7, <1>8 DEF Agrees, Present, Empty

LEMMA DeleteTells ==
    ASSUME StoreTypeOK, StoreTypeOK', CallInv, CallInv', NEW t \in Tasks, mutationLock = NoTask,
           Remove(t), NEW d \in Collections, NEW k \in Keys
    PROVE  Agrees(d, k)
<1>. DEFINE c == call[t].collection
<1>1. c \in Collections /\ call[t].keys \in Seq(Keys)
  BY CallTyped
<1>2. Asked(t) \in SUBSET Keys
  BY <1>1 DEF Asked
<1>3. CASE c \in exists
  <2>1. PICK keys \in FoundInOrder(t) : Record(t, Announce(c, keys, "Delete"))
    BY <1>3 DEF Remove
  <2>2. keys \in Listings({l \in Asked(t) : Present(c, l)})
    BY <2>1 DEF FoundInOrder, Found
  <2>3. store' = WithColumn(c, Without(Column(c), Asked(t)))
    BY <1>3 DEF Remove
  <2>. QED  BY <1>1, <1>2, <2>1, <2>2, <2>3, RemoveTells
<1>4. CASE c \notin exists
  BY <1>4, UntouchedAgrees DEF Remove, Leave, mapVars, ghostVars
<1>. QED  BY <1>3, <1>4

LEMMA DestroyCollectionTells ==
    ASSUME StoreTypeOK, StoreTypeOK', CallInv, CallInv', NEW t \in Tasks, mutationLock = NoTask,
           DestroyCollection(t), NEW d \in Collections, NEW k \in Keys
    PROVE  Agrees(d, k)
<1>. DEFINE c == call[t].collection
<1>1. c \in Collections
  BY CallTyped
<1>2. CASE c \in exists
  <2>1. PICK keys \in Listings({l \in Keys : Present(c, l)}) : Record(t, Announce(c, keys, "Delete"))
    BY <1>2 DEF DestroyCollection
  <2>2. [l \in Keys |-> Empty] = Without(Column(c), Keys)
    BY DEF Without
  <2>3. store' = WithColumn(c, Without(Column(c), Keys))
    BY <1>2, <2>2 DEF DestroyCollection
  <2>. QED  BY <1>1, <2>1, <2>3, RemoveTells
<1>3. CASE c \notin exists
  BY <1>3, UntouchedAgrees DEF DestroyCollection, Leave, mapVars, ghostVars
<1>. QED  BY <1>2, <1>3

\* A conditional write or delete that applies announces what it did; one that does not may
\* remove an expired entry without a word.
LEMMA ConditionalTells ==
    ASSUME StoreTypeOK, StoreTypeOK', CallInv, CallInv', NEW t \in Tasks,
           CompareAndSwap(t) \/ CompareAndDelete(t), NEW d \in Collections, NEW l \in Keys
    PROVE  Covers(d, l)
<1>. DEFINE c == call[t].collection
            k == call[t].keys[1]
            at == <<c, k>>
            new == [token |-> NewRevision(t), expires |-> call[t].expires]
<1>1. /\ mutationLock = NoTask /\ call[t].op \in Keyed
      /\ c \in Collections /\ k \in Keys /\ call[t].base \in Nat
      /\ store \in [Collections \X Keys -> Slot]
  BY CallTyped DEF CompareAndSwap, CompareAndDelete, Commit, Keyed
<1>2. Believed(d, l) \in BOOLEAN /\ <<k>> \in Seq(Keys) /\ Listed(<<k>>) = {k}
  BY <1>1 DEF Believed, Listed
<1>3. CASE CompareAndSwap(t) /\ c \in exists /\ MatchesExpected(store[at], call[t].expected)
  <2>1. store' = [store EXCEPT ![at] = new] /\ Record(t, Announce(c, <<k>>, "Put"))
    BY <1>3 DEF CompareAndSwap
  <2>2. Believed(d, l)' <=> Ends(Announce(c, <<k>>, "Put"), d, l, Believed(d, l))
    BY <1>1, <2>1, RecordTells
  <2>3. Believed(d, l)' <=> IF d = c /\ l = k THEN TRUE ELSE Believed(d, l)
    <3>. DEFINE one == <<k>>
    <3>1. one \in Seq(Keys) /\ Listed(one) = {k}
      BY <1>2
    <3>. HIDE DEF one
    <3>2. Ends(Announce(c, one, "Put"), d, l, Believed(d, l))
             <=> (d = c /\ l \in Listed(one)) \/ Believed(d, l)
      BY <1>1, <1>2, <3>1, EndsOfPuts
    <3>. QED  BY <2>2, <3>1, <3>2 DEF one
  <2>4. store'[<<d, l>>] = IF d = c /\ l = k THEN new ELSE store[<<d, l>>]
    BY <1>1, <2>1
  <2>. QED  BY <2>3, <2>4 DEF Covers
<1>4. CASE CompareAndDelete(t) /\ c \in exists /\ MatchesExpected(store[at], call[t].expected)
  <2>1. store' = [store EXCEPT ![at] = Empty] /\ Record(t, Announce(c, <<k>>, "Delete"))
    BY <1>4 DEF CompareAndDelete
  <2>2. Believed(d, l)' <=> Ends(Announce(c, <<k>>, "Delete"), d, l, Believed(d, l))
    BY <1>1, <2>1, RecordTells
  <2>3. Believed(d, l)' <=> IF d = c /\ l = k THEN FALSE ELSE Believed(d, l)
    <3>. DEFINE one == <<k>>
    <3>1. one \in Seq(Keys) /\ Listed(one) = {k}
      BY <1>2
    <3>. HIDE DEF one
    <3>2. Ends(Announce(c, one, "Delete"), d, l, Believed(d, l))
             <=> ~(d = c /\ l \in Listed(one)) /\ Believed(d, l)
      BY <1>1, <1>2, <3>1, EndsOfDeletes
    <3>. QED  BY <2>2, <3>1, <3>2 DEF one
  <2>4. store'[<<d, l>>] = IF d = c /\ l = k THEN Empty ELSE store[<<d, l>>]
    BY <1>1, <2>1
  <2>. QED  BY <2>3, <2>4 DEF Covers, Present, Empty
<1>5. CASE ~(c \in exists /\ MatchesExpected(store[at], call[t].expected))
  <2>1. store' \in {store, [store EXCEPT ![at] = Empty]} /\ UNCHANGED <<pending, mirror>>
    BY <1>5 DEF CompareAndSwap, CompareAndDelete, Leave, ghostVars
  <2>2. store'[<<d, l>>].token \in {0, store[<<d, l>>].token}
    BY <1>1, <2>1 DEF Empty
  <2>. QED  BY <2>1, <2>2, RemovedCovers
<1>. QED  BY <1>3, <1>4, <1>5

\* cull announces every entry it removes.
LEMMA CullTells ==
    ASSUME StoreTypeOK, StoreTypeOK', CallInv, CallInv', NEW t \in Tasks, Cull(t),
           NEW d \in Collections, NEW l \in Keys
    PROVE  Agrees(d, l)
<1>. DEFINE lapsed == {item \in Collections \X Keys :
                          Present(item[1], item[2]) /\ IsExpired(store[item])}
            list(items) == [i \in 1 .. Len(items) |->
                               [collection |-> items[i][1], key |-> items[i][2], operation |-> "Delete"]]
            at == <<d, l>>
<1>1. PICK items \in Listings(lapsed) : Record(t, list(items))
  BY DEF Cull
<1>2. store' = [bt \in Collections \X Keys |-> IF bt \in lapsed THEN Empty ELSE store[bt]]
      /\ mutationLock = NoTask
  BY DEF Cull, Commit
<1>3. lapsed \subseteq Collections \X Keys /\ IsFiniteSet(lapsed)
  <2>1. IsFiniteSet(Collections \X Keys)
    BY FiniteAssumption, FS_Product
  <2>. QED  BY <2>1, FS_Subset
<1>4. items \in Seq(Collections \X Keys) /\ Listed(items) = lapsed
  BY <1>3, ListingsAreSeqs, ListedIs
<1>5. Believed(d, l) \in BOOLEAN
  BY DEF Believed
<1>6. Believed(d, l)' <=> Ends(list(items), d, l, Believed(d, l))
  BY <1>1, <1>2, RecordTells
<1>7. DOMAIN items = 1 .. Len(items) /\ DOMAIN list(items) = 1 .. Len(items)
  BY <1>4
<1>8. \A i \in 1 .. Len(items) :
        /\ list(items)[i] # Change(d, l, "Put")
        /\ list(items)[i] = Change(d, l, "Delete") <=> items[i] = at
  <2>1. ASSUME NEW i \in 1 .. Len(items)
        PROVE  /\ list(items)[i] # Change(d, l, "Put")
               /\ list(items)[i] = Change(d, l, "Delete") <=> items[i] = at
    <3>1. items[i] \in Collections \X Keys
      BY <1>4
    <3>2. items[i] = <<items[i][1], items[i][2]>>
      BY <3>1
    <3>. QED  BY <3>2 DEF Change
  <2>. QED  BY <2>1
<1>. HIDE DEF lapsed, list
<1>9. Believed(d, l)' <=> IF at \in lapsed THEN FALSE ELSE Believed(d, l)
  BY <1>4, <1>5, <1>6, <1>7, <1>8 DEF Ends, Listed
<1>10. store'[at] = IF at \in lapsed THEN Empty ELSE store[at]
  BY <1>2
<1>. QED  BY <1>9, <1>10 DEF Agrees, Present, Empty

\* A recorded change moves from the list to the mirror.
LEMMA RecordingTells ==
    ASSUME StoreTypeOK, StoreTypeOK', CallInv, CallInv', NEW t \in Tasks, RecordNext(t),
           NEW d \in Collections, NEW l \in Keys
    PROVE  Agrees(d, l)
<1>. DEFINE a == Head(pending[t])
            heard == IF a.collection = d /\ a.key = l THEN a.operation = "Put" ELSE mirror[<<d, l>>]
<1>1. /\ pc[t] = "recording" /\ pending[t] # <<>> /\ pending[t] \in Seq(Announcement)
      /\ mirror \in [Collections \X Keys -> BOOLEAN]
      /\ pending'[t] = Tail(pending[t]) /\ UNCHANGED <<store, mutationLock>>
      /\ mirror' = [mirror EXCEPT ![<<a.collection, a.key>>] = (a.operation = "Put")]
  BY DEF RecordNext, StoreTypeOK, mapVars, lockVars
<1>2. mutationLock = t
  BY <1>1 DEF CallInv, CallOK
<1>3. Believed(d, l) <=> Ends(pending[t], d, l, mirror[<<d, l>>])
  BY <1>2, OneHolder DEF OneTells
<1>4. Believed(d, l)' <=> Ends(pending'[t], d, l, mirror'[<<d, l>>])
  BY <1>1, <1>2, OneHolderNext DEF OneTells
<1>5. mirror[<<d, l>>] \in BOOLEAN
  BY <1>1
<1>6. Ends(pending[t], d, l, mirror[<<d, l>>]) <=> Ends(Tail(pending[t]), d, l, heard)
  BY <1>1, <1>5, EndsOneByOne
<1>7. a \in Announcement
  BY <1>1
<1>8. mirror'[<<d, l>>] = heard
  BY <1>1, <1>7 DEF Announcement
<1>. QED  BY <1>1, <1>3, <1>4, <1>6, <1>8 DEF Agrees

\* A seed collection's entries carry seed tokens.
LEMMA SeedCovers ==
    ASSUME StoreTypeOK, NEW t \in Tasks, NEW c \in Collections,
           SeedCollection(t, c) \/ SeedFails(t, c),
           NEW d \in Collections, NEW k \in Keys
    PROVE  Covers(d, k)
<1>1. tokens \in Nat /\ store \in [Collections \X Keys -> Slot]
  BY DEF StoreTypeOK
<1>2. SeedKeys(c) \in SUBSET Keys
  BY DEF SeedKeys
<1>3. \E ks, dropped :
        /\ ks \in SUBSET Keys
        /\ store' = WithColumn(c, Without(Seeded(c, ks), dropped))
        /\ seedTokens' = seedTokens \cup NewTokens(Cardinality(ks))
  <2>1. CASE SeedCollection(t, c)
    BY <1>2, <2>1 DEF SeedCollection
  <2>2. CASE SeedFails(t, c)
    <3>1. PICK ks \in SUBSET SeedKeys(c) :
            /\ store' = WithColumn(c, Seeded(c, ks))
            /\ seedTokens' = seedTokens \cup NewTokens(Cardinality(ks))
      BY <2>2 DEF SeedFails
    <3>2. Without(Seeded(c, ks), {}) = Seeded(c, ks)
      BY DEF Without, Seeded
    <3>. QED  BY <1>2, <3>1, <3>2
  <2>. QED  BY <2>1, <2>2
<1>4. PICK ks, dropped :
        /\ ks \in SUBSET Keys
        /\ store' = WithColumn(c, Without(Seeded(c, ks), dropped))
        /\ seedTokens' = seedTokens \cup NewTokens(Cardinality(ks))
  BY <1>3
<1>5. UNCHANGED <<pending, mirror>>
  BY DEF SeedCollection, SeedFails
<1>6. Seeded(c, ks) \in [Keys -> Slot] /\ Cardinality(ks) \in Nat
  BY <1>1, <1>4, SeededTyped
<1>7. Without(Seeded(c, ks), dropped) \in [Keys -> Slot]
  BY <1>1, <1>6, ColumnsTyped
<1>8. store'[<<d, k>>] = IF d = c THEN Without(Seeded(c, ks), dropped)[k] ELSE store[<<d, k>>]
  BY <1>1, <1>4, <1>7, WithColumnIs
<1>9. CASE d = c /\ k \in ks /\ k \notin dropped
  <2>1. Cardinality({j \in ks : j <= k}) \in 1 .. Cardinality(ks)
    BY <1>4, <1>9, RankIs
  <2>2. store'[<<d, k>>].token = tokens + Cardinality({j \in ks : j <= k})
    BY <1>8, <1>9 DEF Without, Seeded
  <2>3. store'[<<d, k>>].token \in NewTokens(Cardinality(ks))
    BY <1>1, <1>6, <2>1, <2>2 DEF NewTokens
  <2>. QED  BY <1>4, <2>3 DEF Covers
<1>10. CASE ~(d = c /\ k \in ks /\ k \notin dropped)
  <2>1. store'[<<d, k>>].token \in {0, store[<<d, k>>].token}
    BY <1>8, <1>10 DEF Without, Seeded, Empty
  <2>. QED  BY <1>5, <2>1, RemovedCovers
<1>. QED  BY <1>9, <1>10

\* What a call does before and after it touches the map changes neither the map nor what is
\* told of it.
LEMMA BesideTheMap ==
    ASSUME NEW t \in Tasks,
           \/ Begin(t) \/ Reject(t) \/ Return(t)
           \/ SetupAlreadyComplete(t) \/ SetupBegin(t) \/ SetupDone(t) \/ PrepareFails(t)
           \/ CreateCollection(t)
           \/ Get(t) \/ Ttl(t) \/ GetMany(t) \/ TtlMany(t) \/ ListKeys(t)
           \/ GetWithRevision(t) \/ ListCollections(t)
           \/ DestroyBegin(t) \/ DestroyDone(t)
    PROVE  UNCHANGED <<store, pending, mirror>>
BY DEF Begin, Reject, Return, SetupAlreadyComplete, SetupBegin, SetupDone, PrepareFails,
       CreateCollection, Get, Ttl, GetMany, TtlMany, ListKeys, GetWithRevision, ListCollections,
       ReadCollection, DestroyBegin, DestroyDone, mapVars, ghostVars

LEMMA ElsewhereUntouched ==
    ASSUME \/ Tick \/ DropStore \/ UNCHANGED vars
           \/ \E s \in Subscribers : StoreSubscribe(s) \/ StreamStep(s)
    PROVE  UNCHANGED <<exists, store, pending, mirror, pc, call, outcome, seedTokens>>
BY DEF Tick, DropStore, StoreSubscribe, StreamStep, vars, storeVars, mapVars, lockVars, taskVars,
       ghostVars

LEMMA SeedTokensStay ==
    ASSUME NEW t \in Tasks, Step(t) PROVE seedTokens \subseteq seedTokens'
<1>1. CASE \/ SetupAlreadyComplete(t) \/ SetupBegin(t) \/ SetupDone(t)
           \/ \E c \in Collections : SeedCollection(t, c) \/ SeedFails(t, c) \/ ClearCollection(t, c)
  BY <1>1 DEF SetupAlreadyComplete, SetupBegin, SetupDone, SeedCollection, SeedFails, ClearCollection,
              ghostVars
<1>2. CASE \/ CreateCollection(t) \/ PrepareFails(t)
           \/ Get(t) \/ Ttl(t) \/ GetMany(t) \/ TtlMany(t) \/ ListKeys(t)
           \/ GetWithRevision(t) \/ ListCollections(t)
  BY <1>2 DEF CreateCollection, PrepareFails, Get, Ttl, GetMany, TtlMany, ListKeys, GetWithRevision,
              ListCollections, ReadCollection, ghostVars
<1>3. \A list : Record(t, list) => seedTokens' = seedTokens
  BY DEF Record
<1>4. \A result : Leave(t, result) => seedTokens' = seedTokens
  BY DEF Leave, ghostVars
<1>5. CASE Put(t) \/ PutMany(t) \/ Delete(t) \/ DeleteMany(t) \/ Cull(t) \/ DestroyCollection(t)
  BY <1>3, <1>4, <1>5 DEF Put, PutMany, Insert, Delete, DeleteMany, Remove, Cull, DestroyCollection
<1>6. CASE CompareAndSwap(t) \/ CompareAndDelete(t)
  BY <1>3, <1>4, <1>6 DEF CompareAndSwap, CompareAndDelete
<1>7. CASE DestroyBegin(t) \/ DestroyDone(t) \/ RecordNext(t) \/ Return(t)
  BY <1>7 DEF DestroyBegin, DestroyDone, RecordNext, Return, ghostVars
<1>. QED  BY <1>1, <1>2, <1>5, <1>6, <1>7 DEF Step

\* Every step of a call that is not dropped covers what it leaves in the map.
LEMMA StepCovers ==
    ASSUME StoreTypeOK, StoreTypeOK', CallInv, CallInv', NEW t \in Tasks, Step(t),
           NEW d \in Collections, NEW k \in Keys
    PROVE  Covers(d, k)
<1>1. CASE \/ SetupAlreadyComplete(t) \/ SetupBegin(t) \/ SetupDone(t)
           \/ CreateCollection(t) \/ PrepareFails(t)
           \/ Get(t) \/ Ttl(t) \/ GetMany(t) \/ TtlMany(t) \/ ListKeys(t)
           \/ GetWithRevision(t) \/ ListCollections(t)
           \/ DestroyBegin(t) \/ DestroyDone(t) \/ Return(t)
  <2>1. UNCHANGED <<store, pending, mirror>>
    BY <1>1, BesideTheMap
  <2>. QED  BY <2>1, UntouchedAgrees, AgreesCovers
<1>2. CASE \E c \in Collections : SeedCollection(t, c) \/ SeedFails(t, c)
  BY <1>2, SeedCovers
<1>3. ASSUME NEW c \in Collections, ClearCollection(t, c) PROVE Covers(d, k)
  <2>1. store \in [Collections \X Keys -> Slot] /\ [l \in Keys |-> Empty] \in [Keys -> Slot]
    BY ColumnsTyped DEF StoreTypeOK
  <2>2. store'[<<d, k>>] = IF d = c THEN Empty ELSE store[<<d, k>>]
    BY <1>3, <2>1, WithColumnIs DEF ClearCollection
  <2>3. UNCHANGED <<pending, mirror>>
    BY <1>3 DEF ClearCollection, ghostVars
  <2>. QED  BY <2>2, <2>3, RemovedCovers DEF Empty
<1>4. CASE Put(t) \/ PutMany(t)
  BY <1>4, InsertTells DEF Put, PutMany, Commit
<1>5. CASE Delete(t) \/ DeleteMany(t)
  BY <1>5, DeleteTells, AgreesCovers DEF Delete, DeleteMany, Commit
<1>6. CASE CompareAndSwap(t) \/ CompareAndDelete(t)
  BY <1>6, ConditionalTells
<1>7. CASE Cull(t)
  BY <1>7, CullTells, AgreesCovers
<1>8. CASE DestroyCollection(t)
  <2>1. mutationLock = NoTask
    BY <1>8 DEF DestroyCollection, Commit
  <2>. QED  BY <1>8, <2>1, DestroyCollectionTells, AgreesCovers
<1>9. CASE RecordNext(t)
  BY <1>9, RecordingTells, AgreesCovers
<1>. QED  BY <1>1, <1>2, <1>3, <1>4, <1>5, <1>6, <1>7, <1>8, <1>9 DEF Step

\* A task whose caller has dropped a future never moves again.
LEMMA CancelledStays ==
    ASSUME StoreTypeOK, CallInv, NEW t \in Tasks, Step(t) \/ Begin(t) \/ Reject(t),
           NEW u \in Tasks, outcome[u] = "cancelled"
    PROVE  outcome'[u] = "cancelled"
<1>1. pc[u] = "idle"
  BY DEF CallInv, CallOK
<1>2. u # t
  <2>1. Step(t) => pc[t] # "idle"
    <3>1. Put(t) \/ PutMany(t) \/ Delete(t) \/ DeleteMany(t) \/ CompareAndSwap(t)
            \/ CompareAndDelete(t) \/ Cull(t) \/ DestroyCollection(t) \/ DestroyBegin(t)
              => pc[t] = "ready"
      BY DEF Put, PutMany, Delete, DeleteMany, CompareAndSwap, CompareAndDelete, Cull,
             DestroyCollection, DestroyBegin, Commit
    <3>2. Get(t) \/ Ttl(t) \/ GetMany(t) \/ TtlMany(t) \/ ListKeys(t) \/ GetWithRevision(t)
            \/ ListCollections(t) => pc[t] = "ready"
      BY DEF Get, Ttl, GetMany, TtlMany, ListKeys, GetWithRevision, ListCollections, ReadCollection
    <3>3. \A c \in Collections :
            SeedCollection(t, c) \/ SeedFails(t, c) \/ ClearCollection(t, c) => pc[t] # "idle"
      BY DEF SeedCollection, SeedFails, ClearCollection
    <3>4. SetupAlreadyComplete(t) \/ SetupBegin(t) \/ SetupDone(t) \/ CreateCollection(t)
            \/ PrepareFails(t) \/ DestroyDone(t) \/ RecordNext(t) \/ Return(t) => pc[t] # "idle"
      BY DEF SetupAlreadyComplete, SetupBegin, SetupDone, CreateCollection, PrepareFails,
             DestroyDone, RecordNext, Return
    <3>. QED  BY <3>1, <3>2, <3>3, <3>4 DEF Step
  <2>. QED  BY <1>1, <2>1 DEF Begin, Reject
<1>3. \A v \in Tasks : v # t => outcome'[v] = outcome[v]
  <2>1. \A result : Answer(t, result) => \A v \in Tasks : v # t => outcome'[v] = outcome[v]
    BY DEF Answer, StoreTypeOK
  <2>2. CASE Begin(t) \/ Reject(t)
    BY <2>1, <2>2 DEF Begin, Reject
  <2>3. CASE \/ SetupAlreadyComplete(t) \/ SetupBegin(t) \/ SetupDone(t)
             \/ CreateCollection(t) \/ PrepareFails(t) \/ DestroyBegin(t) \/ DestroyDone(t)
             \/ RecordNext(t) \/ Return(t)
             \/ \E c \in Collections : SeedCollection(t, c) \/ SeedFails(t, c) \/ ClearCollection(t, c)
    BY <2>1, <2>3 DEF SetupAlreadyComplete, SetupBegin, SetupDone, CreateCollection, PrepareFails,
                      DestroyBegin, DestroyDone, RecordNext, Return, SeedCollection, SeedFails,
                      ClearCollection
  <2>4. CASE \/ Get(t) \/ Ttl(t) \/ GetMany(t) \/ TtlMany(t) \/ ListKeys(t)
             \/ GetWithRevision(t) \/ ListCollections(t)
    BY <2>1, <2>4 DEF Get, Ttl, GetMany, TtlMany, ListKeys, GetWithRevision, ListCollections,
                      ReadCollection
  <2>5. CASE Put(t) \/ PutMany(t) \/ Delete(t) \/ DeleteMany(t) \/ Cull(t) \/ DestroyCollection(t)
    BY <2>1, <2>5 DEF Put, PutMany, Insert, Delete, DeleteMany, Remove, Cull, DestroyCollection, Leave
  <2>6. CASE CompareAndSwap(t) \/ CompareAndDelete(t)
    BY <2>1, <2>6 DEF CompareAndSwap, CompareAndDelete, Leave
  <2>. QED  BY <2>2, <2>3, <2>4, <2>5, <2>6 DEF Step
<1>. QED  BY <1>2, <1>3

\* As long as no caller drops its future, an entry that a caller stored has been announced, or
\* is about to be, and no later Delete contradicts it: for every set of tasks, all operations,
\* all limits, TTLs and seeds, and whatever fails.
THEOREM StoreAnnouncesUnlessDropped == Spec => []AnnouncedUnlessDropped
<1>1. Init => AnnouncedUnlessDropped
  BY DEF Init, AnnouncedUnlessDropped, NoUnannouncedEntry, Present, Empty
<1>2. StoreTypeOK /\ StoreTypeOK' /\ CallInv /\ CallInv' /\ AnnouncedUnlessDropped /\ [Next]_vars
        => AnnouncedUnlessDropped'
  <2>. SUFFICES ASSUME StoreTypeOK, StoreTypeOK', CallInv, CallInv',
                       AnnouncedUnlessDropped, [Next]_vars
                PROVE  AnnouncedUnlessDropped'
    OBVIOUS
  <2>. SUFFICES ASSUME \A u \in Tasks : outcome'[u] # "cancelled"
                PROVE  NoUnannouncedEntry'
    BY DEF AnnouncedUnlessDropped
  <2>1. ASSUME NEW t \in Tasks, Step(t) \/ Begin(t) \/ Reject(t) PROVE NoUnannouncedEntry'
    <3>1. \A u \in Tasks : outcome[u] # "cancelled"
      BY <2>1, CancelledStays
    <3>2. NoUnannouncedEntry
      BY <3>1 DEF AnnouncedUnlessDropped
    <3>3. \A c \in Collections, k \in Keys : Covers(c, k)
      BY <2>1, StepCovers, BesideTheMap, UntouchedAgrees, AgreesCovers
    <3>4. seedTokens \subseteq seedTokens'
      BY <2>1, SeedTokensStay DEF Begin, Reject, ghostVars
    <3>. QED  BY <3>2, <3>3, <3>4 DEF NoUnannouncedEntry, Covers, Present
  <2>2. ASSUME NEW t \in Tasks, Cancel(t) PROVE FALSE
    BY <2>2 DEF Cancel, Answer, StoreTypeOK
  <2>3. CASE \/ Tick \/ DropStore \/ UNCHANGED vars
             \/ \E s \in Subscribers : StoreSubscribe(s) \/ StreamStep(s)
    <3>1. UNCHANGED <<store, pending, mirror, outcome, seedTokens>>
      BY <2>3, ElsewhereUntouched
    <3>2. NoUnannouncedEntry
      BY <3>1 DEF AnnouncedUnlessDropped
    <3>. QED  BY <3>1, <3>2 DEF NoUnannouncedEntry, Believed, Present
  <2>. QED  BY <2>1, <2>2, <2>3 DEF Next
<1>3. StoreInv => StoreTypeOK
  BY DEF StoreInv
<1>. QED  BY <1>1, <1>2, <1>3, StoreInvariant, CallInvariant, PTL DEF Spec

-----------------------------------------------------------------------------
(* Plain use: the reader believes in exactly what is there *)

\* A store whose callers neither write conditionally nor destroy anything, without seeds, and
\* whose callers wait for their calls.
PlainUse ==
    /\ Seed = {} /\ ~MayCancel
    /\ Operations \cap {"compare_and_swap", "compare_and_delete", "destroy_collection", "destroy"} = {}

\* Why MirrorExact holds of it: the reader believes in what is there at every step, and a
\* mutation finds the collection its call created.
Tracked ==
    /\ \A c \in Collections, k \in Keys : Present(c, k) <=> Believed(c, k)
    /\ \A t \in Tasks : pc[t] = "ready" /\ call[t].op \in Keyed \cup Batched =>
          call[t].collection \in exists

LEMMA AgreesTracks ==
    ASSUME NEW c \in Collections, NEW k \in Keys, Agrees(c, k), Present(c, k) <=> Believed(c, k)
    PROVE  (Present(c, k) <=> Believed(c, k))'
BY DEF Agrees, Present

\* No call in plain use takes one of these steps.
LEMMA PlainSteps ==
    ASSUME PlainUse, StoreTypeOK, CallInv, NEW t \in Tasks
    PROVE  /\ ~Cancel(t) /\ ~CompareAndSwap(t) /\ ~CompareAndDelete(t)
           /\ ~DestroyCollection(t) /\ ~DestroyBegin(t) /\ ~DestroyDone(t)
           /\ \A c \in Collections : ~SeedCollection(t, c) /\ ~SeedFails(t, c) /\ ~ClearCollection(t, c)
<1>1. CallOK(t)
  BY DEF CallInv
<1>2. pc[t] # "idle" => call[t].op \notin {"compare_and_swap", "compare_and_delete",
                                           "destroy_collection", "destroy"}
  BY <1>1 DEF CallOK, PlainUse
<1>3. ~CompareAndSwap(t) /\ ~CompareAndDelete(t) /\ ~DestroyCollection(t) /\ ~DestroyBegin(t)
  BY <1>2 DEF CompareAndSwap, CompareAndDelete, DestroyCollection, DestroyBegin, Commit
<1>4. pc[t] # "clearing" /\ (pc[t] = "seeding" => todo[t] = {})
  BY <1>1, <1>2 DEF CallOK, PlainUse
<1>. QED  BY <1>3, <1>4 DEF Cancel, PlainUse, DestroyDone, SeedCollection, SeedFails, ClearCollection

\* The collection a call created is there when the call reads or changes it.
LEMMA StepKeepsHoused ==
    ASSUME PlainUse, StoreTypeOK, CallInv, Tracked, NEW t \in Tasks,
           Step(t) \/ Begin(t) \/ Reject(t)
    PROVE  \A u \in Tasks : pc'[u] = "ready" /\ call'[u].op \in Keyed \cup Batched =>
              call'[u].collection \in exists'
<1>1. \A u \in Tasks : pc[u] = "ready" /\ call[u].op \in Keyed \cup Batched =>
              call[u].collection \in exists
  BY DEF Tracked
<1>2. CASE Begin(t)
  <2>1. PICK op \in Operations : \E request \in Requests(t, op) :
            /\ call' = [call EXCEPT ![t] = request]
            /\ Goto(t, IF op \in {"cull", "destroy"} THEN "ready" ELSE "setup")
    BY <1>2 DEF Begin
  <2>2. PICK request \in Requests(t, op) :
            /\ call' = [call EXCEPT ![t] = request]
            /\ Goto(t, IF op \in {"cull", "destroy"} THEN "ready" ELSE "setup")
    BY <2>1
  <2>3. request.op = op
    BY DEF Requests
  <2>4. pc'[t] = "ready" => call'[t].op \in {"cull", "destroy"}
    BY <2>2, <2>3 DEF StoreTypeOK, Goto
  <2>5. \A u \in Tasks : u # t => call'[u] = call[u] /\ pc'[u] = pc[u]
    BY <2>2 DEF StoreTypeOK, Goto
  <2>6. exists' = exists
    BY <1>2 DEF Begin, mapVars
  <2>. QED  BY <1>1, <2>4, <2>5, <2>6 DEF Keyed, Batched
<1>3. CASE CreateCollection(t)
  <2>1. /\ exists' = exists \cup {call[t].collection}
        /\ \A u \in Tasks : u # t => call'[u] = call[u] /\ pc'[u] = pc[u]
        /\ call'[t].collection = call[t].collection
    BY <1>3 DEF CreateCollection, StoreTypeOK, Goto, Call, CallFields
  <2>. QED  BY <1>1, <2>1
<1>4. CASE SetupAlreadyComplete(t) \/ SetupDone(t)
  <2>1. /\ pc' = [pc EXCEPT ![t] = AfterSetup(call[t].op)] /\ UNCHANGED <<call, exists>>
    BY <1>4 DEF SetupAlreadyComplete, SetupDone, Goto, mapVars
  <2>2. AfterSetup(call[t].op) = "ready" => call[t].op \notin Keyed \cup Batched
    BY DEF AfterSetup, Keyed, Batched
  <2>. QED  BY <1>1, <2>1, <2>2 DEF StoreTypeOK
<1>5. ASSUME UNCHANGED call, exists \subseteq exists', \E stage : Goto(t, stage) /\ stage # "ready"
      PROVE  \A u \in Tasks : pc'[u] = "ready" /\ call'[u].op \in Keyed \cup Batched =>
                call'[u].collection \in exists'
  BY <1>1, <1>5 DEF StoreTypeOK, Goto
<1>6. CASE SetupBegin(t) \/ PrepareFails(t)
  BY <1>5, <1>6 DEF SetupBegin, PrepareFails, mapVars
<1>7. CASE \/ Get(t) \/ Ttl(t) \/ GetMany(t) \/ TtlMany(t) \/ ListKeys(t)
           \/ GetWithRevision(t) \/ ListCollections(t)
  BY <1>5, <1>7 DEF Get, Ttl, GetMany, TtlMany, ListKeys, GetWithRevision, ListCollections,
                    ReadCollection, mapVars
<1>8. \A list : Record(t, list) => UNCHANGED call /\ Goto(t, "recording")
  BY DEF Record
<1>9. \A result : Leave(t, result) => UNCHANGED call /\ Goto(t, "idle")
  BY DEF Leave
<1>10. CASE Put(t) \/ PutMany(t) \/ Delete(t) \/ DeleteMany(t) \/ Cull(t)
  <2>1. UNCHANGED <<call, exists>> /\ \E stage : Goto(t, stage) /\ stage # "ready"
    <3>1. CASE Put(t) \/ PutMany(t)
      BY <1>8, <3>1 DEF Put, PutMany, Insert
    <3>2. CASE Delete(t) \/ DeleteMany(t)
      <4>1. /\ UNCHANGED exists
            /\ \/ \E list : Record(t, list)
               \/ Leave(t, "missing")
        BY <3>2 DEF Delete, DeleteMany, Remove, mapVars
      <4>. QED  BY <1>8, <1>9, <4>1
    <3>3. CASE Cull(t)
      BY <1>8, <3>3 DEF Cull
    <3>. QED  BY <1>10, <3>1, <3>2, <3>3
  <2>. QED  BY <1>5, <2>1
<1>11. CASE Return(t)
  BY <1>5, <1>11 DEF Return, mapVars
<1>12. CASE RecordNext(t) \/ Reject(t)
  BY <1>1, <1>12 DEF RecordNext, Reject, mapVars
<1>. QED  BY <1>2, <1>3, <1>4, <1>6, <1>7, <1>10, <1>11, <1>12, PlainSteps DEF Step

\* The reader goes on believing in what is there.
LEMMA StepKeepsTold ==
    ASSUME PlainUse, StoreTypeOK, StoreTypeOK', CallInv, CallInv', Tracked, NEW t \in Tasks,
           Step(t) \/ Begin(t) \/ Reject(t), NEW d \in Collections, NEW k \in Keys
    PROVE  Agrees(d, k)
<1>1. CASE \/ SetupAlreadyComplete(t) \/ SetupBegin(t) \/ SetupDone(t) \/ Begin(t) \/ Reject(t)
           \/ CreateCollection(t) \/ PrepareFails(t)
           \/ Get(t) \/ Ttl(t) \/ GetMany(t) \/ TtlMany(t) \/ ListKeys(t)
           \/ GetWithRevision(t) \/ ListCollections(t) \/ Return(t)
  <2>1. UNCHANGED <<store, pending, mirror>>
    BY <1>1, BesideTheMap
  <2>. QED  BY <2>1, UntouchedAgrees
<1>2. CASE Put(t) \/ PutMany(t)
  <2>1. Insert(t) /\ mutationLock = NoTask /\ pc[t] = "ready" /\ call[t].op \in Keyed \cup Batched
    BY <1>2 DEF Put, PutMany, Commit, Keyed, Batched
  <2>2. call[t].collection \in exists
    BY <2>1 DEF Tracked
  <2>. QED  BY <2>1, <2>2, InsertTells
<1>3. CASE Delete(t) \/ DeleteMany(t)
  BY <1>3, DeleteTells DEF Delete, DeleteMany, Commit
<1>4. CASE Cull(t)
  BY <1>4, CullTells
<1>5. CASE RecordNext(t)
  BY <1>5, RecordingTells
<1>. QED  BY <1>1, <1>2, <1>3, <1>4, <1>5, PlainSteps DEF Step

LEMMA TrackedStep ==
    ASSUME PlainUse, StoreTypeOK, StoreTypeOK', CallInv, CallInv', Tracked, [Next]_vars
    PROVE  Tracked'
<1>1. ASSUME NEW t \in Tasks, Step(t) \/ Begin(t) \/ Reject(t) PROVE Tracked'
  <2>1. \A c \in Collections, k \in Keys : Agrees(c, k)
    BY <1>1, StepKeepsTold
  <2>2. \A c \in Collections, k \in Keys : (Present(c, k) <=> Believed(c, k))'
    BY <2>1, AgreesTracks DEF Tracked
  <2>. QED  BY <1>1, <2>2, StepKeepsHoused DEF Tracked
<1>2. CASE \/ Tick \/ DropStore \/ UNCHANGED vars
           \/ \E s \in Subscribers : StoreSubscribe(s) \/ StreamStep(s)
  <2>1. UNCHANGED <<exists, store, pending, mirror, pc, call>>
    BY <1>2, ElsewhereUntouched
  <2>. QED  BY <2>1 DEF Tracked, Present, Believed
<1>. QED  BY <1>1, <1>2, PlainSteps DEF Next

\* In plain use, whenever no mutation is under way, the consumer of the whole feed believes in
\* exactly the entries the store holds, expired ones included: every put, eviction, cull and
\* delete is told, for all limits, TTLs and interleavings.
THEOREM StoreMirrorsExactly == PlainUse => (Spec => []MirrorExact)
<1>. SUFFICES ASSUME PlainUse PROVE Spec => []MirrorExact
  OBVIOUS
<1>1. Init => Tracked
  BY DEF Init, Tracked, Present, Believed, Empty
<1>2. StoreTypeOK /\ StoreTypeOK' /\ CallInv /\ CallInv' /\ Tracked /\ [Next]_vars => Tracked'
  BY TrackedStep
<1>3. StoreTypeOK /\ CallInv /\ Tracked => MirrorExact
  <2>. SUFFICES ASSUME StoreTypeOK, CallInv, Tracked, mutationLock = NoTask,
                       NEW c \in Collections, NEW k \in Keys
                PROVE  mirror[<<c, k>>] = Present(c, k)
    BY DEF MirrorExact
  <2>1. Present(c, k) <=> mirror[<<c, k>>]
    BY OneHolder DEF OneTells, Tracked
  <2>2. mirror[<<c, k>>] \in BOOLEAN
    BY DEF StoreTypeOK
  <2>. QED  BY <2>1, <2>2 DEF Present
<1>4. StoreInv => StoreTypeOK
  BY DEF StoreInv
<1>. QED  BY <1>1, <1>2, <1>3, <1>4, StoreInvariant, CallInvariant, PTL DEF Spec

-----------------------------------------------------------------------------
(* The limit of a collection *)

\* A store whose callers write no conditional updates, and whose seeds are inserted whole.
LimitedUse ==
    /\ "compare_and_swap" \notin Operations
    /\ MayFail => Seed = {}

\* enforce_capacity leaves no more entries than the limit.
LEMMA EnforcedIsLimited ==
    ASSUME NEW col \in [Keys -> Slot], MaxEntries # NoLimit
    PROVE  Cardinality({k \in Keys : Without(col, EnforceCapacity(col))[k].token # 0}) <= MaxEntries
<1>. DEFINE S == LiveKeys(col)
            Above(k) == {j \in S : j > k}
            T == {k \in S : Cardinality(Above(k)) < MaxEntries}
            Left == {k \in Keys : Without(col, EnforceCapacity(col))[k].token # 0}
<1>1. MaxEntries \in Nat
  BY LimitAssumption
<1>2. S \subseteq Keys /\ IsFiniteSet(S) /\ S \in SUBSET Nat
  BY FiniteAssumption, KeysAssumption, FS_Subset DEF LiveKeys
<1>3. \A k \in S : IsFiniteSet(Above(k)) /\ Cardinality(Above(k)) \in Nat
  BY <1>2, FS_Subset, FS_CardinalityType
<1>4. Left = T
  <2>1. ASSUME NEW k \in Keys
        PROVE  Without(col, EnforceCapacity(col))[k].token # 0 <=> k \in T
    <3>1. Without(col, EnforceCapacity(col))[k].token # 0
             <=> k \notin EnforceCapacity(col) /\ col[k].token # 0
      BY DEF Without, Empty
    <3>2. k \in EnforceCapacity(col) <=> k \in LapsedKeys(col) \/ k \in Surplus(col)
      BY DEF EnforceCapacity
    <3>3. k \in LapsedKeys(col) \/ k \in S <=> col[k].token # 0
      BY DEF LapsedKeys, LiveKeys
    <3>4. ~(k \in LapsedKeys(col) /\ k \in S)
      BY DEF LapsedKeys, LiveKeys
    <3>5. k \in Surplus(col) <=> k \in S /\ Cardinality(Above(k)) >= MaxEntries
      BY DEF Surplus
    <3>6. k \in T <=> k \in S /\ Cardinality(Above(k)) < MaxEntries
      OBVIOUS
    <3>. HIDE DEF S, T, Above
    <3>. QED  BY <1>1, <1>3, <3>1, <3>2, <3>3, <3>4, <3>5, <3>6
  <2>2. T \subseteq Keys
    BY <1>2
  <2>. HIDE DEF T
  <2>. QED  BY <2>1, <2>2
<1>. SUFFICES Cardinality(Left) <= MaxEntries
  OBVIOUS
<1>5. CASE T = {}
  <2>1. Cardinality(Left) = 0
    BY <1>4, <1>5, FS_EmptySet, Zenon
  <2>. HIDE DEF Left
  <2>. QED  BY <1>1, <2>1
<1>6. CASE T # {}
  <2>1. T \in SUBSET Nat /\ IsFiniteSet(T)
    BY <1>2, FS_Subset
  <2>2. PICK m \in T : \A j \in T : m <= j
    BY <1>6, <2>1, ExtremesExist
  <2>. DEFINE A == Above(m)
  <2>3. IsFiniteSet(A) /\ Cardinality(A) \in Nat /\ Cardinality(A) < MaxEntries /\ m \notin A
    BY <1>2, <1>3, <2>2
  <2>4. T \subseteq A \cup {m}
    BY <1>2, <2>1, <2>2
  <2>. HIDE DEF A, T, Left
  <2>5. IsFiniteSet(A \cup {m}) /\ Cardinality(A \cup {m}) = Cardinality(A) + 1
    BY <2>3, FS_AddElement
  <2>6. Cardinality(T) <= Cardinality(A \cup {m}) /\ Cardinality(T) \in Nat
    BY <2>1, <2>4, <2>5, FS_Subset, FS_CardinalityType
  <2>. QED  BY <1>1, <1>4, <2>3, <2>5, <2>6
<1>. QED  BY <1>5, <1>6

\* Each collection keeps its limit when a step removes entries only.
Shrinks == \A at \in Slots : store'[at].token \in {0, store[at].token}

LEMMA ShrinkingKeepsLimit ==
    ASSUME CapacityRespected, Shrinks
    PROVE  CapacityRespected'
<1>. SUFFICES ASSUME MaxEntries # NoLimit, NEW c \in Collections
              PROVE  Cardinality({k \in Keys : Present(c, k)'}) <= MaxEntries
  BY DEF CapacityRespected
<1>1. {k \in Keys : Present(c, k)'} \subseteq {k \in Keys : Present(c, k)}
  BY DEF Shrinks, Present, Slots
<1>2. IsFiniteSet({k \in Keys : Present(c, k)})
  BY FiniteAssumption, FS_Subset
<1>3. Cardinality({k \in Keys : Present(c, k)}) <= MaxEntries
  BY DEF CapacityRespected
<1>4. /\ Cardinality({k \in Keys : Present(c, k)'}) \in Nat
      /\ Cardinality({k \in Keys : Present(c, k)}) \in Nat
      /\ Cardinality({k \in Keys : Present(c, k)'}) <= Cardinality({k \in Keys : Present(c, k)})
  BY <1>1, <1>2, FS_Subset, FS_CardinalityType
<1>. QED  BY <1>3, <1>4, LimitAssumption

\* And when a collection is replaced by one whose capacity was enforced.
LEMMA EnforcingKeepsLimit ==
    ASSUME StoreTypeOK, CapacityRespected, NEW c \in Collections, NEW col \in [Keys -> Slot],
           store' = WithColumn(c, Without(col, EnforceCapacity(col)))
    PROVE  CapacityRespected'
<1>. SUFFICES ASSUME MaxEntries # NoLimit, NEW d \in Collections
              PROVE  Cardinality({k \in Keys : Present(d, k)'}) <= MaxEntries
  BY DEF CapacityRespected
<1>. DEFINE kept == Without(col, EnforceCapacity(col))
<1>1. kept \in [Keys -> Slot]
  BY ColumnsTyped DEF StoreTypeOK
<1>2. \A k \in Keys : store'[<<d, k>>] = IF d = c THEN kept[k] ELSE store[<<d, k>>]
  BY <1>1, WithColumnIs DEF StoreTypeOK
<1>. HIDE DEF kept
<1>3. CASE d = c
  <2>1. {k \in Keys : Present(d, k)'} = {k \in Keys : kept[k].token # 0}
    BY <1>2, <1>3 DEF Present
  <2>. QED  BY <2>1, EnforcedIsLimited DEF kept
<1>4. CASE d # c
  <2>1. {k \in Keys : Present(d, k)'} = {k \in Keys : Present(d, k)}
    BY <1>2, <1>4 DEF Present
  <2>. QED  BY <2>1 DEF CapacityRespected
<1>. QED  BY <1>3, <1>4

LEMMA StepKeepsLimit ==
    ASSUME LimitedUse, StoreTypeOK, CallInv, CapacityRespected, NEW t \in Tasks, Step(t)
    PROVE  CapacityRespected'
<1>1. store \in [Collections \X Keys -> Slot] /\ call[t].collection \in Collections
  BY CallTyped
<1>2. UNCHANGED store => Shrinks
  BY DEF Shrinks
<1>3. CASE \/ SetupAlreadyComplete(t) \/ SetupBegin(t) \/ SetupDone(t)
           \/ CreateCollection(t) \/ PrepareFails(t)
           \/ Get(t) \/ Ttl(t) \/ GetMany(t) \/ TtlMany(t) \/ ListKeys(t)
           \/ GetWithRevision(t) \/ ListCollections(t)
           \/ DestroyBegin(t) \/ DestroyDone(t) \/ Return(t)
  BY <1>2, <1>3, BesideTheMap, ShrinkingKeepsLimit
<1>4. CASE RecordNext(t)
  BY <1>2, <1>4, ShrinkingKeepsLimit DEF RecordNext, mapVars
<1>5. CASE Put(t) \/ PutMany(t)
  <2>1. Inserted(t) \in [Keys -> Slot]
    BY <1>1, CallTyped, InsertedTyped
  <2>2. \/ store' = WithColumn(call[t].collection, Without(Inserted(t), EnforceCapacity(Inserted(t))))
        \/ UNCHANGED store
    BY <1>5 DEF Put, PutMany, Insert
  <2>. QED  BY <1>1, <1>2, <2>1, <2>2, EnforcingKeepsLimit, ShrinkingKeepsLimit
<1>6. CASE \/ Delete(t) \/ DeleteMany(t) \/ Cull(t) \/ DestroyCollection(t)
           \/ \E c \in Collections : ClearCollection(t, c)
  BY <1>6, RemovalsQuiet, ShrinkingKeepsLimit DEF Delete, DeleteMany, Quiet, Shrinks
<1>7. CASE CompareAndDelete(t)
  <2>. DEFINE at == <<call[t].collection, call[t].keys[1]>>
  <2>1. store' \in {store, [store EXCEPT ![at] = Empty]}
    BY <1>7 DEF CompareAndDelete
  <2>2. Shrinks
    BY <1>1, <2>1 DEF Shrinks, Slots, Empty
  <2>. QED  BY <2>2, ShrinkingKeepsLimit
<1>8. ~CompareAndSwap(t)
  BY DEF CompareAndSwap, Commit, CallInv, CallOK, LimitedUse
<1>9. ASSUME NEW c \in Collections, SeedCollection(t, c) PROVE CapacityRespected'
  <2>1. SeedKeys(c) \in SUBSET Keys
    BY DEF SeedKeys
  <2>2. Seeded(c, SeedKeys(c)) \in [Keys -> Slot]
    BY <1>1, <2>1, SeededTyped DEF StoreTypeOK
  <2>. QED  BY <1>9, <2>2, EnforcingKeepsLimit DEF SeedCollection
<1>10. ASSUME NEW c \in Collections, SeedFails(t, c) PROVE FALSE
  BY <1>10 DEF SeedFails, LimitedUse, CallInv, CallOK
<1>. QED  BY <1>3, <1>4, <1>5, <1>6, <1>7, <1>8, <1>9, <1>10 DEF Step

\* No collection ever holds more entries than max_entries_per_collection, whatever puts, seeds,
\* deletes and expiries come together, as long as nobody writes conditionally and seeds are
\* inserted whole (compare_and_swap and an interrupted setup skip enforce_capacity).
THEOREM StoreRespectsCapacity == LimitedUse => (Spec => []CapacityRespected)
<1>. SUFFICES ASSUME LimitedUse PROVE Spec => []CapacityRespected
  OBVIOUS
<1>1. Init => CapacityRespected
  <2>. SUFFICES ASSUME Init, MaxEntries # NoLimit, NEW c \in Collections
                PROVE  Cardinality({k \in Keys : Present(c, k)}) <= MaxEntries
    BY DEF CapacityRespected
  <2>1. {k \in Keys : Present(c, k)} = {}
    BY DEF Init, Present, Empty
  <2>. QED  BY <2>1, FS_EmptySet, LimitAssumption
<1>2. StoreTypeOK /\ CallInv /\ CapacityRespected /\ [Next]_vars => CapacityRespected'
  <2>. SUFFICES ASSUME StoreTypeOK, CallInv, CapacityRespected, [Next]_vars
                PROVE  CapacityRespected'
    OBVIOUS
  <2>1. ASSUME UNCHANGED store PROVE CapacityRespected'
    BY <2>1, ShrinkingKeepsLimit DEF Shrinks
  <2>2. ASSUME NEW t \in Tasks, Begin(t) \/ Reject(t) \/ Cancel(t) PROVE CapacityRespected'
    BY <2>1, <2>2 DEF Begin, Reject, Cancel, mapVars
  <2>3. CASE \/ Tick \/ DropStore \/ UNCHANGED vars
             \/ \E s \in Subscribers : StoreSubscribe(s) \/ StreamStep(s)
    BY <2>1, <2>3, ElsewhereUntouched
  <2>. QED  BY <2>2, <2>3, StepKeepsLimit DEF Next
<1>3. StoreInv => StoreTypeOK
  BY DEF StoreInv
<1>. QED  BY <1>1, <1>2, <1>3, StoreInvariant, CallInvariant, PTL DEF Spec

=============================================================================
