------------------------- MODULE ServerFeedProofs --------------------------
(***************************************************************************)
(* Proofs about the feeds that live in a server (ServerFeed).               *)
(*                                                                         *)
(* A revision is taken when a change is inserted and takes effect when its  *)
(* transaction commits, so KeyOrder needs to know what lies between: the    *)
(* rows that transactions hold are different, and a change that waits for   *)
(* its commit is later than all of its entry's history.                     *)
(*                                                                         *)
(* Redis' feed implements ChangeFeed because the changes are numbered one   *)
(* by one, what the server shows is a tail of them, and so what a stream    *)
(* has read is a stretch of the history without holes.                      *)
(***************************************************************************)
EXTENDS ServerFeed, FiniteSetTheorems, FunctionTheorems, TLAPS

\* What the writers' part of the state holds.
WritersTyped ==
    /\ counter \in Nat
    /\ rows \subseteq StoreChange
    /\ txn \in [Writers -> Txn]
    /\ history \in Seq(StoreChange)

\* A transaction that writes holds its row alone, and Redis has none.
RowsHeld ==
    /\ \A v, w \in Writers :
          txn[v].stage # "none" /\ txn[w].stage # "none" /\ txn[v].row = txn[w].row => v = w
    /\ \A w \in Writers : txn[w].stage # "none" => feed = "postgres"

\* Only a transaction that has taken a revision has a change of its own, which is its row's.
OwnOfRow ==
    \A w \in Writers : \A change \in txn[w].own :
        /\ txn[w].stage \in {"recorded", "pruned"}
        /\ change.collection = txn[w].row[1] /\ change.key = txn[w].row[2]

\* No change has a revision that was not taken.
Taken ==
    /\ \A i \in DOMAIN history : history[i].revision <= counter
    /\ \A w \in Writers : \A change \in txn[w].own : change.revision <= counter

\* What waits for its commit is later than what its entry's history has.
OwnIsLater ==
    \A w \in Writers : \A change \in txn[w].own : \A i \in DOMAIN history :
        history[i].collection = change.collection /\ history[i].key = change.key
            => history[i].revision < change.revision

OrderInv == WritersTyped /\ RowsHeld /\ OwnOfRow /\ Taken /\ OwnIsLater /\ KeyOrder

-----------------------------------------------------------------------------

\* NoTxn is the state of a connection without a transaction.
LEMMA NoTxnTyped == NoTxn \in Txn /\ NoTxn.stage = "none" /\ NoTxn.own = {}
<1>1. \E r \in Collections \X Keys : TRUE
  <2>1. PICK c \in Collections, k \in Keys : TRUE
    BY EntriesAssumption
  <2>2. <<c, k>> \in Collections \X Keys
    OBVIOUS
  <2> QED BY <2>2
<1>2. (CHOOSE r \in Collections \X Keys : TRUE) \in Collections \X Keys
  BY <1>1
<1> QED BY <1>2 DEF NoTxn, Txn, ChangeOperation

\* Revisions are numbers.
LEMMA RevisionIsNat == \A change \in StoreChange : change.revision \in Nat
BY RevisionsAssumption DEF StoreChange

\* Change makes a StoreChange of what a writer has.
LEMMA ChangeTyped ==
    ASSUME NEW n \in Nat, n < MaxRevision, NEW row \in Collections \X Keys, NEW op \in ChangeOperation
    PROVE  /\ Change(n + 1, row, op) \in StoreChange
           /\ Change(n + 1, row, op).revision = n + 1
           /\ Change(n + 1, row, op).collection = row[1] /\ Change(n + 1, row, op).key = row[2]
BY FeedBounds DEF Change, StoreChange

\* A change that is later than its entry's history may be appended to it.
LEMMA AppendKeepsOrder ==
    ASSUME history \in Seq(StoreChange), KeyOrder, NEW change \in StoreChange,
           \A i \in DOMAIN history :
               history[i].collection = change.collection /\ history[i].key = change.key
                   => history[i].revision < change.revision,
           history' = Append(history, change)
    PROVE  /\ history' \in Seq(StoreChange)
           /\ DOMAIN history' = DOMAIN history \cup {Len(history) + 1}
           /\ \A i \in DOMAIN history : history'[i] = history[i] /\ i < Len(history) + 1
           /\ history'[Len(history) + 1] = change
           /\ KeyOrder'
<1>1. /\ history' \in Seq(StoreChange)
      /\ DOMAIN history' = DOMAIN history \cup {Len(history) + 1}
      /\ \A i \in DOMAIN history : history'[i] = history[i] /\ i < Len(history) + 1
      /\ history'[Len(history) + 1] = change
  OBVIOUS
<1>2. KeyOrder'
  <2> SUFFICES ASSUME NEW i \in DOMAIN history', NEW j \in DOMAIN history', i < j,
                      history'[i].collection = history'[j].collection,
                      history'[i].key = history'[j].key
               PROVE  history'[i].revision < history'[j].revision
    BY DEF KeyOrder
  <2>1. CASE j \in DOMAIN history
    <3>1. i \in DOMAIN history
      BY <1>1, <2>1
    <3> QED BY <1>1, <2>1, <3>1 DEF KeyOrder
  <2>2. CASE j = Len(history) + 1
    <3>1. i \in DOMAIN history
      BY <1>1, <2>2
    <3> QED BY <1>1, <2>2, <3>1
  <2> QED BY <1>1, <2>1, <2>2
<1> QED BY <1>1, <1>2

\* At first there is no transaction and no change.
LEMMA InitOrdered == Init => OrderInv
<1> SUFFICES ASSUME Init PROVE OrderInv
  OBVIOUS
<1>1. \A w \in Writers : txn[w] = NoTxn
  BY DEF Init
<1>2. WritersTyped
  BY NoTxnTyped DEF Init, WritersTyped
<1>3. RowsHeld /\ OwnOfRow
  BY <1>1, NoTxnTyped DEF RowsHeld, OwnOfRow
<1>4. Taken /\ OwnIsLater /\ KeyOrder
  BY <1>1, NoTxnTyped DEF Init, Taken, OwnIsLater, KeyOrder
<1> QED BY <1>2, <1>3, <1>4 DEF OrderInv

\* Redis' script takes the revision and writes the change at once.
LEMMA RedisReportKeepsOrder ==
    ASSUME OrderInv, NEW row \in Collections \X Keys, NEW op \in ChangeOperation,
           RedisReport(row, op)
    PROVE  OrderInv'
<1> DEFINE new == Change(counter + 1, row, op)
<1>1. counter \in Nat /\ counter < MaxRevision /\ history' = Append(history, new)
      /\ counter' = counter + 1 /\ UNCHANGED <<feed, txn>> /\ feed = "redis"
  BY FeedBounds DEF OrderInv, WritersTyped, RedisReport
<1>2. new \in StoreChange /\ new.revision = counter + 1
  BY <1>1, ChangeTyped
<1> HIDE DEF new
<1>3. \A i \in DOMAIN history : history[i].revision < new.revision
  <2> SUFFICES ASSUME NEW i \in DOMAIN history PROVE history[i].revision < counter + 1
    BY <1>2
  <2>1. history[i] \in StoreChange
    BY DEF OrderInv, WritersTyped
  <2>2. history[i].revision \in Nat /\ history[i].revision <= counter
    BY <2>1, RevisionIsNat DEF OrderInv, Taken
  <2> QED BY <1>1, <2>2
<1>4. /\ history' \in Seq(StoreChange)
      /\ DOMAIN history' = DOMAIN history \cup {Len(history) + 1}
      /\ \A i \in DOMAIN history : history'[i] = history[i] /\ i < Len(history) + 1
      /\ history'[Len(history) + 1] = new
      /\ KeyOrder'
  BY <1>1, <1>2, <1>3, AppendKeepsOrder DEF OrderInv, WritersTyped
<1>5. \A w \in Writers : txn[w].stage = "none" /\ txn[w].own = {}
  <2> SUFFICES ASSUME NEW w \in Writers PROVE txn[w].stage = "none" /\ txn[w].own = {}
    OBVIOUS
  <2>1. txn[w].stage = "none"
    BY <1>1 DEF OrderInv, RowsHeld
  <2> QED BY <2>1 DEF OrderInv, OwnOfRow
<1>6. WritersTyped' /\ RowsHeld' /\ OwnOfRow' /\ OwnIsLater'
  <2>1. rows' \subseteq StoreChange
    BY <1>2 DEF OrderInv, WritersTyped, RedisReport, new
  <2> QED BY <1>1, <1>4, <1>5, <2>1 DEF OrderInv, WritersTyped, RowsHeld, OwnOfRow, OwnIsLater
<1>7. Taken'
  <2> SUFFICES ASSUME NEW i \in DOMAIN history' PROVE history'[i].revision <= counter + 1
    BY <1>1, <1>5 DEF Taken
  <2>1. CASE i \in DOMAIN history
    <3>1. history[i] \in StoreChange
      BY <2>1 DEF OrderInv, WritersTyped
    <3>2. history[i].revision \in Nat /\ history[i].revision <= counter
      BY <2>1, <3>1, RevisionIsNat DEF OrderInv, Taken
    <3> QED BY <1>1, <1>4, <2>1, <3>2
  <2>2. CASE i = Len(history) + 1
    BY <1>1, <1>2, <1>4, <2>2
  <2> QED BY <1>4, <2>1, <2>2
<1> QED BY <1>4, <1>6, <1>7 DEF OrderInv

\* A transaction starts by locking a row that no other holds.
LEMMA PgLockKeepsOrder ==
    ASSUME OrderInv, NEW w \in Writers, NEW row \in Collections \X Keys,
           NEW op \in ChangeOperation, PgLock(w, row, op)
    PROVE  OrderInv'
<1> DEFINE new == [stage |-> "locked", row |-> row, operation |-> op, own |-> {}, gone |-> {}]
<1>1. /\ txn \in [Writers -> Txn] /\ txn' = [txn EXCEPT ![w] = new]
      /\ UNCHANGED <<feed, counter, rows, history>> /\ feed = "postgres"
      /\ \A v \in Writers : txn[v].stage # "none" => txn[v].row # row
  BY DEF OrderInv, WritersTyped, PgLock, PgStep
<1>2. new \in Txn /\ new.stage = "locked" /\ new.row = row /\ new.own = {}
  BY DEF Txn
<1> HIDE DEF new
<1>3. /\ \A v \in Writers \ {w} : txn'[v] = txn[v]
      /\ txn'[w] = new
  BY <1>1
<1>4. WritersTyped' /\ KeyOrder'
  BY <1>1, <1>2 DEF OrderInv, WritersTyped, KeyOrder
<1>5. RowsHeld'
  BY <1>1, <1>2, <1>3 DEF OrderInv, RowsHeld
<1>6. OwnOfRow' /\ Taken' /\ OwnIsLater'
  <2>1. \A v \in Writers : \A change \in txn'[v].own : v # w /\ change \in txn[v].own
    BY <1>2, <1>3
  <2> QED BY <1>1, <1>3, <2>1 DEF OrderInv, OwnOfRow, Taken, OwnIsLater
<1> QED BY <1>4, <1>5, <1>6 DEF OrderInv

\* The revision that a transaction takes is later than every other.
LEMMA PgRecordKeepsOrder ==
    ASSUME OrderInv, NEW w \in Writers, PgRecord(w)
    PROVE  OrderInv'
<1> DEFINE own == Change(counter + 1, txn[w].row, txn[w].operation)
<1>1. /\ counter \in Nat /\ counter < MaxRevision /\ counter' = counter + 1
      /\ txn \in [Writers -> Txn] /\ history \in Seq(StoreChange)
      /\ txn' = [txn EXCEPT ![w].stage = "recorded", ![w].own = {own}]
      /\ UNCHANGED <<feed, rows, history>> /\ txn[w].stage = "locked"
  BY FeedBounds DEF OrderInv, WritersTyped, PgRecord, PgStep
<1>2. txn[w].row \in Collections \X Keys /\ txn[w].operation \in ChangeOperation
  BY <1>1 DEF Txn
<1>3. /\ own \in StoreChange /\ own.revision = counter + 1
      /\ own.collection = txn[w].row[1] /\ own.key = txn[w].row[2]
  BY <1>1, <1>2, ChangeTyped
<1> HIDE DEF own
<1>4. /\ \A v \in Writers \ {w} : txn'[v] = txn[v]
      /\ txn'[w] \in Txn /\ txn'[w].stage = "recorded" /\ txn'[w].own = {own}
      /\ txn'[w].row = txn[w].row
  <2> DEFINE new == [txn[w] EXCEPT !.stage = "recorded", !.own = {own}]
  <2>1. /\ new \in Txn /\ new.stage = "recorded" /\ new.own = {own} /\ new.row = txn[w].row
    BY <1>1, <1>3 DEF Txn
  <2>2. txn' = [txn EXCEPT ![w] = new]
    BY <1>1
  <2> HIDE DEF new
  <2> QED BY <1>1, <2>1, <2>2
<1>5. WritersTyped' /\ KeyOrder'
  <2>1. txn' \in [Writers -> Txn]
    BY <1>1, <1>4
  <2> QED BY <1>1, <2>1 DEF OrderInv, WritersTyped, KeyOrder
<1>6. RowsHeld' /\ OwnOfRow'
  BY <1>1, <1>3, <1>4 DEF OrderInv, RowsHeld, OwnOfRow
<1>7. \A i \in DOMAIN history : history[i].revision \in Nat /\ history[i].revision <= counter
  <2> SUFFICES ASSUME NEW i \in DOMAIN history
               PROVE  history[i].revision \in Nat /\ history[i].revision <= counter
    OBVIOUS
  <2>1. history[i] \in StoreChange
    BY <1>1
  <2> QED BY <2>1, RevisionIsNat DEF OrderInv, Taken
<1>8. \A v \in Writers : \A change \in txn[v].own : change.revision \in Nat /\ change.revision <= counter
  <2> SUFFICES ASSUME NEW v \in Writers, NEW change \in txn[v].own
               PROVE  change.revision \in Nat /\ change.revision <= counter
    OBVIOUS
  <2>1. change \in StoreChange
    BY <1>1 DEF Txn
  <2> QED BY <2>1, RevisionIsNat DEF OrderInv, Taken
<1>9. Taken'
  BY <1>1, <1>3, <1>4, <1>7, <1>8 DEF Taken
<1>10. OwnIsLater'
  <2> SUFFICES ASSUME NEW v \in Writers, NEW change \in txn'[v].own, NEW i \in DOMAIN history,
                      history[i].collection = change.collection, history[i].key = change.key
               PROVE  history[i].revision < change.revision
    BY <1>1 DEF OwnIsLater
  <2>1. CASE v = w
    BY <1>1, <1>3, <1>4, <1>7, <2>1
  <2>2. CASE v # w
    BY <1>4, <2>2 DEF OrderInv, OwnIsLater
  <2> QED BY <2>1, <2>2
<1> QED BY <1>5, <1>6, <1>9, <1>10 DEF OrderInv

\* Pruning notes what the transaction will delete.
LEMMA PgPruneKeepsOrder ==
    ASSUME OrderInv, NEW w \in Writers, PgPrune(w)
    PROVE  OrderInv'
<1> DEFINE gone == txn'[w].gone
<1>1. /\ txn \in [Writers -> Txn] /\ rows \subseteq StoreChange
      /\ UNCHANGED <<feed, counter, rows, history>> /\ txn[w].stage = "recorded"
  BY DEF OrderInv, WritersTyped, PgPrune, PgStep
<1>2. /\ \A v \in Writers \ {w} : txn'[v] = txn[v]
      /\ txn'[w] \in Txn /\ txn'[w].stage = "pruned" /\ txn'[w].own = txn[w].own
      /\ txn'[w].row = txn[w].row
      /\ txn' \in [Writers -> Txn]
  <2>1. PICK lost \in SUBSET StoreChange :
            txn' = [txn EXCEPT ![w].stage = "pruned", ![w].gone = lost]
    <3>1. txn[w].own \subseteq StoreChange
      BY <1>1 DEF Txn
    <3> QED BY <1>1, <3>1 DEF PgPrune
  <2>2. [txn[w] EXCEPT !.stage = "pruned", !.gone = lost] \in Txn
    BY <1>1 DEF Txn
  <2> QED BY <1>1, <2>1, <2>2 DEF Txn
<1>3. WritersTyped' /\ KeyOrder'
  BY <1>1, <1>2 DEF OrderInv, WritersTyped, KeyOrder
<1>4. RowsHeld' /\ OwnOfRow'
  BY <1>1, <1>2 DEF OrderInv, RowsHeld, OwnOfRow
<1>5. Taken' /\ OwnIsLater'
  BY <1>1, <1>2 DEF OrderInv, Taken, OwnIsLater
<1> QED BY <1>3, <1>4, <1>5 DEF OrderInv

\* A transaction that ends, however it does, leaves a connection without one.
LEMMA PgEndTxn ==
    ASSUME OrderInv, NEW w \in Writers, txn' = [txn EXCEPT ![w] = NoTxn], UNCHANGED feed
    PROVE  /\ txn' \in [Writers -> Txn]
           /\ \A v \in Writers : \A change \in txn'[v].own :
                 v # w /\ change \in txn[v].own /\ txn'[v] = txn[v]
           /\ RowsHeld' /\ OwnOfRow'
<1>1. txn \in [Writers -> Txn]
  BY DEF OrderInv, WritersTyped
<1>2. /\ \A v \in Writers \ {w} : txn'[v] = txn[v]
      /\ txn'[w].stage = "none" /\ txn'[w].own = {}
      /\ txn' \in [Writers -> Txn]
  BY <1>1, NoTxnTyped
<1>3. RowsHeld' /\ OwnOfRow'
  BY <1>2 DEF OrderInv, RowsHeld, OwnOfRow
<1> QED BY <1>2, <1>3

\* A rolled-back transaction leaves no change.
LEMMA PgRollbackKeepsOrder ==
    ASSUME OrderInv, NEW w \in Writers, PgRollback(w)
    PROVE  OrderInv'
<1>1. txn' = [txn EXCEPT ![w] = NoTxn] /\ UNCHANGED <<feed, counter, rows, history>>
  BY DEF PgRollback, PgStep
<1>2. /\ txn' \in [Writers -> Txn]
      /\ \A v \in Writers : \A change \in txn'[v].own : change \in txn[v].own
      /\ RowsHeld' /\ OwnOfRow'
  BY <1>1, PgEndTxn
<1>3. WritersTyped' /\ KeyOrder'
  BY <1>1, <1>2 DEF OrderInv, WritersTyped, KeyOrder
<1>4. Taken' /\ OwnIsLater'
  BY <1>1, <1>2 DEF OrderInv, Taken, OwnIsLater
<1> QED BY <1>2, <1>3, <1>4 DEF OrderInv

\* A commit appends the transaction's change to the history of its row, which nobody else
\* can have extended meanwhile.
LEMMA PgCommitKeepsOrder ==
    ASSUME OrderInv, NEW w \in Writers, PgCommit(w)
    PROVE  OrderInv'
<1>1. PICK new \in txn[w].own : history' = Append(history, new)
  BY DEF PgCommit
<1>2. /\ txn' = [txn EXCEPT ![w] = NoTxn] /\ UNCHANGED <<feed, counter>>
      /\ rows' = (rows \cup txn[w].own) \ txn[w].gone
  BY DEF PgCommit, PgStep
<1>3. /\ txn \in [Writers -> Txn] /\ history \in Seq(StoreChange) /\ rows \subseteq StoreChange
      /\ counter \in Nat /\ KeyOrder
  BY DEF OrderInv, WritersTyped
<1>4. new \in StoreChange /\ txn[w].own \subseteq StoreChange
  BY <1>1, <1>3 DEF Txn
<1>5. /\ new.collection = txn[w].row[1] /\ new.key = txn[w].row[2]
      /\ txn[w].stage # "none" /\ new.revision <= counter
  BY <1>1 DEF OrderInv, OwnOfRow, Taken
<1>6. /\ history' \in Seq(StoreChange)
      /\ DOMAIN history' = DOMAIN history \cup {Len(history) + 1}
      /\ \A i \in DOMAIN history : history'[i] = history[i] /\ i < Len(history) + 1
      /\ history'[Len(history) + 1] = new
      /\ KeyOrder'
  <2>1. \A i \in DOMAIN history :
            history[i].collection = new.collection /\ history[i].key = new.key
                => history[i].revision < new.revision
    BY <1>1 DEF OrderInv, OwnIsLater
  <2> QED BY <1>1, <1>3, <1>4, <2>1, AppendKeepsOrder
<1>7. /\ txn' \in [Writers -> Txn]
      /\ \A v \in Writers : \A change \in txn'[v].own : v # w /\ change \in txn[v].own
      /\ RowsHeld' /\ OwnOfRow'
  BY <1>2, PgEndTxn
<1>8. WritersTyped'
  BY <1>2, <1>3, <1>4, <1>6, <1>7 DEF WritersTyped
<1>9. Taken'
  BY <1>2, <1>5, <1>6, <1>7 DEF OrderInv, Taken
<1>10. OwnIsLater'
  <2> SUFFICES ASSUME NEW v \in Writers, NEW change \in txn'[v].own, NEW i \in DOMAIN history',
                      history'[i].collection = change.collection,
                      history'[i].key = change.key
               PROVE  history'[i].revision < change.revision
    BY DEF OwnIsLater
  <2>1. v # w /\ change \in txn[v].own
    BY <1>7
  <2>2. CASE i \in DOMAIN history
    BY <1>6, <2>1, <2>2 DEF OrderInv, OwnIsLater
  <2>3. CASE i = Len(history) + 1
    <3>1. change.collection = txn[v].row[1] /\ change.key = txn[v].row[2] /\ txn[v].stage # "none"
      BY <2>1 DEF OrderInv, OwnOfRow
    <3>2. txn[v].row[1] = txn[w].row[1] /\ txn[v].row[2] = txn[w].row[2]
      BY <1>5, <1>6, <2>3, <3>1
    <3>3. txn[v].row \in Collections \X Keys /\ txn[w].row \in Collections \X Keys
      BY <1>3 DEF Txn
    <3>4. txn[v].row = txn[w].row
      BY <3>2, <3>3
    <3> QED BY <1>5, <2>1, <3>1, <3>4 DEF OrderInv, RowsHeld
  <2> QED BY <1>6, <2>2, <2>3
<1> QED BY <1>6, <1>7, <1>8, <1>9, <1>10 DEF OrderInv

\* Consumers change nothing of this.
LEMMA ConsumersKeepOrder ==
    ASSUME OrderInv, UNCHANGED <<feed, serverVars>>
    PROVE  OrderInv'
BY DEF OrderInv, WritersTyped, RowsHeld, OwnOfRow, Taken, OwnIsLater, KeyOrder, serverVars

\* Every step keeps the order.
LEMMA NextKeepsOrder ==
    ASSUME OrderInv, [Next]_vars
    PROVE  OrderInv'
<1>1. ASSUME NEW row \in Collections \X Keys, NEW op \in ChangeOperation, RedisReport(row, op)
      PROVE  OrderInv'
  BY <1>1, RedisReportKeepsOrder
<1>2. ASSUME NEW row \in Collections \X Keys, NEW op \in ChangeOperation, NEW w \in Writers,
             PgLock(w, row, op)
      PROVE  OrderInv'
  BY <1>2, PgLockKeepsOrder
<1>3. ASSUME NEW w \in Writers, PgRecord(w) \/ PgPrune(w) \/ PgCommit(w) \/ PgRollback(w)
      PROVE  OrderInv'
  BY <1>3, PgRecordKeepsOrder, PgPruneKeepsOrder, PgCommitKeepsOrder, PgRollbackKeepsOrder
<1>4. ASSUME NEW s \in Subscribers,
             (\E start \in Starts, f \in Filters : RedisSubscribe(s, start, f) \/ PgSubscribe(s, start, f))
                 \/ Recv(s) \/ Drop(s)
      PROVE  OrderInv'
  <2>1. UNCHANGED <<feed, serverVars>>
    BY <1>4 DEF RedisSubscribe, PgSubscribe, Begin, Recv, Read, RecvExpired, Pass, PgCheck, Drop
  <2> QED BY <2>1, ConsumersKeepOrder
<1>5. CASE UNCHANGED vars
  BY <1>5, ConsumersKeepOrder DEF vars, serverVars
<1> QED BY <1>1, <1>2, <1>3, <1>4, <1>5 DEF Next

\* The changes of one key are numbered in the order they took effect: in Redis because the
\* script does both at once, in Postgres because the row's lock is held from before the
\* revision is taken to the commit.
THEOREM ServerFeedKeyOrder == Spec => []KeyOrder
<1>1. OrderInv /\ [Next]_vars => OrderInv'
  BY NextKeepsOrder
<1>2. OrderInv => KeyOrder
  BY DEF OrderInv
<1> QED BY InitOrdered, <1>1, <1>2, PTL DEF Spec
-----------------------------------------------------------------------------
(* Redis' feed.  Its revisions number the history, what the server shows is a *)
(* tail of the history, and what a stream has read is a stretch of it.        *)

\* Redis counts changes as it writes them.
Numbered ==
    /\ counter \in 0 .. MaxRevision
    /\ history \in Seq(StoreChange)
    /\ Len(history) = counter
    /\ \A i \in DOMAIN history : history[i].revision = i

\* The stream is trimmed at its old end.
From(n) == {history[i] : i \in {j \in DOMAIN history : j >= n}}
RowsAreTail == rows = From(counter - Retention + 1)

\* What the variables of a stream hold.
StreamTyped(s) ==
    /\ stream[s] \in Streams
    /\ stream[s].stage # "checking"
    /\ stream[s].cursor <= counter
    /\ stream[s].last \in {stream[s].cursor, NoRevision}
    /\ delivered[s] \in SUBSET Nat
    /\ stream[s].stage = "none" => stream[s].reply = <<>> /\ delivered[s] = {}
    /\ stream[s].stage # "none" => asked[s] \in Starts /\ stream[s].filter \in Filters

\* Only a stream asked for from the beginning follows on nothing, until it has passed a change.
FollowsUnlessBeginning(s) ==
    stream[s].last = NoRevision => asked[s].kind = "Beginning" /\ delivered[s] = {}

\* What was read is of the history, in its order, with nothing left out, and after the cursor.
ReplyIsStretch(s) ==
    LET reply == stream[s].reply IN
    /\ \A i \in DOMAIN reply :
          /\ reply[i].revision \in DOMAIN history /\ reply[i] = history[reply[i].revision]
          /\ reply[i].revision > stream[s].cursor
          /\ i + 1 \in DOMAIN reply => reply[i + 1].revision = reply[i].revision + 1
    /\ \A i, j \in DOMAIN reply : i < j => reply[i].revision < reply[j].revision

\* The change that follows the cursor is no longer shown.
NextIsGone(s) ==
    stream[s].cursor + 1 \in DOMAIN history /\ history[stream[s].cursor + 1] \notin rows

\* What was read starts after the next change only if that one is gone, and nothing else
\* ends a stream.
GapIsGone(s) ==
    /\ stream[s].reply # <<>> /\ Head(stream[s].reply).revision > stream[s].cursor + 1 => NextIsGone(s)
    /\ stream[s].stage = "expired" => NextIsGone(s)

StreamInv(s) == StreamTyped(s) /\ FollowsUnlessBeginning(s) /\ ReplyIsStretch(s) /\ GapIsGone(s)

RedisFeedInv ==
    /\ Numbered /\ RowsAreTail
    /\ stream \in [Subscribers -> Streams]
    /\ asked \in [Subscribers -> ChangeStart]
    /\ delivered \in [Subscribers -> SUBSET Nat]
    /\ \A s \in Subscribers : StreamInv(s)

RedisInv == feed = "redis" => RedisFeedInv

-----------------------------------------------------------------------------

\* What the server shows are the last changes of the history.
LEMMA ShownAreLast ==
    ASSUME Numbered, RowsAreTail
    PROVE  /\ \A i \in DOMAIN history : history[i] \in rows <=> i + Retention > counter
           /\ \A change \in rows : /\ change \in StoreChange
                                   /\ change.revision \in DOMAIN history
                                   /\ change = history[change.revision]
                                   /\ change.revision + Retention > counter
<1>1. /\ counter \in Nat /\ Retention \in Nat /\ DOMAIN history = 1 .. counter
      /\ \A i \in DOMAIN history : history[i] \in StoreChange /\ history[i].revision = i
  BY FeedBounds DEF Numbered
<1>2. rows = {history[i] : i \in {j \in DOMAIN history : j >= counter - Retention + 1}}
  BY DEF RowsAreTail, From
<1>3. \A i \in 1 .. counter : i >= counter - Retention + 1 <=> i + Retention > counter
  BY <1>1
<1> QED BY <1>1, <1>2, <1>3

\* What the highest revision is.
LEMMA HighestIs ==
    ASSUME NEW R, NEW n \in Revs(R), n \in Nat, \A r \in R : r.revision \in Nat /\ r.revision <= n
    PROVE  Highest(R) = n
<1> DEFINE most == CHOOSE m \in Revs(R) : \A k \in Revs(R) : k <= m
<1>1. \A k \in Revs(R) : k \in Nat /\ k <= n
  BY DEF Revs
<1>2. most \in Revs(R) /\ \A k \in Revs(R) : k <= most
  <2>1. \E m \in Revs(R) : \A k \in Revs(R) : k <= m
    BY <1>1
  <2> QED BY <2>1
<1>3. R # {}
  BY DEF Revs
<1>4. Highest(R) = most
  BY <1>3 DEF Highest
<1> HIDE DEF most
<1> QED BY <1>1, <1>2, <1>4

\* The last of them is the last change of all.
LEMMA HighestIsCounter ==
    ASSUME Numbered, RowsAreTail
    PROVE  Highest(rows) = counter
<1>1. counter \in Nat /\ DOMAIN history = 1 .. counter /\ Retention \in Nat \ {0}
  BY FeedBounds DEF Numbered
<1>2. CASE counter = 0
  <2>1. rows = {}
    BY <1>1, <1>2, ShownAreLast
  <2> QED BY <1>2, <2>1 DEF Highest
<1>3. CASE counter # 0
  <2>1. counter \in DOMAIN history /\ counter + Retention > counter
    BY <1>1, <1>3
  <2>2. history[counter] \in rows /\ history[counter].revision = counter
    BY <2>1, ShownAreLast DEF Numbered
  <2>3. counter \in Revs(rows) /\ \A r \in rows : r.revision \in 1 .. counter
    BY <1>1, <2>2, ShownAreLast DEF Revs
  <2> QED BY <1>1, <2>3, HighestIs
<1> QED BY <1>2, <1>3

\* The end of the history that starts at a, when it is put in order.
LEMMA OrderedIsStretch ==
    ASSUME Numbered, NEW a \in DOMAIN history, NEW q, q = Ordered(From(a))
    PROVE  /\ q \in Seq(StoreChange) /\ q # <<>> /\ Head(q) = history[a]
           /\ \A i \in DOMAIN q :
                 /\ q[i].revision \in DOMAIN history /\ q[i] = history[q[i].revision]
                 /\ q[i].revision >= a
                 /\ i + 1 \in DOMAIN q => q[i + 1].revision = q[i].revision + 1
           /\ \A i, j \in DOMAIN q : i < j => q[i].revision < q[j].revision
<1> DEFINE R == From(a)
           n == counter - a + 1
           f == [i \in 1 .. n |-> history[a + i - 1]]
           InOrder(g) == \A i, j \in 1 .. n : i < j => g[i].revision < g[j].revision
<1>1. /\ counter \in Nat /\ DOMAIN history = 1 .. counter /\ a \in 1 .. counter /\ n \in Nat \ {0}
      /\ \A i \in DOMAIN history : history[i] \in StoreChange /\ history[i].revision = i
  BY DEF Numbered
<1>2. /\ \A change \in R : /\ change.revision \in a .. counter
                           /\ change = history[change.revision]
      /\ \A i \in a .. counter : history[i] \in R
  <2>1. R = {history[i] : i \in {j \in 1 .. counter : j >= a}}
    BY <1>1 DEF From
  <2>2. {j \in 1 .. counter : j >= a} = a .. counter
    BY <1>1
  <2> HIDE DEF R
  <2>3. R = {history[i] : i \in a .. counter}
    BY <2>1, <2>2
  <2>4. \A i \in a .. counter : history[i].revision = i
    BY <1>1
  <2> QED BY <2>3, <2>4
<1>3. \A i \in 1 .. n : a + i - 1 \in a .. counter /\ f[i] = history[a + i - 1] /\ f[i].revision = a + i - 1
  BY <1>1
<1>4. f \in [1 .. n -> R] /\ InOrder(f)
  BY <1>1, <1>2, <1>3
<1> HIDE DEF R
<1>5. f \in Bijection(1 .. n, R)
  <2>1. \A i, j \in 1 .. n : f[i] = f[j] => i = j
    BY <1>1, <1>3
  <2>2. \A change \in R : \E i \in 1 .. n : f[i] = change
    <3> TAKE change \in R
    <3>1. change.revision \in a .. counter /\ change = history[change.revision]
      BY <1>2
    <3>2. change.revision - a + 1 \in 1 .. n /\ a + (change.revision - a + 1) - 1 = change.revision
      BY <1>1, <3>1
    <3>3. f[change.revision - a + 1] = change
      BY <1>3, <3>1, <3>2
    <3> QED BY <3>2, <3>3
  <2> HIDE DEF f
  <2> QED BY <1>4, <2>1, <2>2, Fun_IsBij
<1> HIDE DEF f
<1>6. Cardinality(R) = n /\ IsFiniteSet(R)
  <2>1. ExistsBijection(1 .. n, R)
    BY <1>5 DEF ExistsBijection
  <2>2. n \in Nat
    BY <1>1
  <2> HIDE DEF n
  <2> QED BY <2>1, <2>2, FS_CountingElements, FS_NatBijection
<1>7. q \in [1 .. n -> R] /\ InOrder(q)
  <2>1. Ordered(R) = CHOOSE g \in [1 .. n -> R] : InOrder(g)
    BY <1>6 DEF Ordered
  <2> HIDE DEF n, InOrder
  <2>2. q = CHOOSE g \in [1 .. n -> R] : InOrder(g)
    BY <2>1 DEF R
  <2> QED BY <1>4, <2>2
<1>8. \A change \in R : \E i \in 1 .. n : q[i] = change
  <2>1. \A i, j \in 1 .. n : q[i] = q[j] => i = j
    <3> SUFFICES ASSUME NEW i \in 1 .. n, NEW j \in 1 .. n, q[i] = q[j], i # j PROVE FALSE
      OBVIOUS
    <3>1. q[i].revision \in Nat /\ q[i].revision = q[j].revision
      BY <1>1, <1>2, <1>7
    <3>2. i < j \/ j < i
      BY <1>1
    <3> QED BY <1>7, <3>1, <3>2
  <2>2. q \in Injection(1 .. n, R)
    BY <1>7, <2>1, Fun_IsInj
  <2>3. Cardinality(1 .. n) = n
    <3>1. n \in Int /\ 1 \in Int
      BY <1>1
    <3> HIDE DEF n
    <3>2. Cardinality(1 .. n) = IF 1 > n THEN 0 ELSE n - 1 + 1
      BY <3>1, FS_Interval
    <3>3. n >= 1
      BY <1>1 DEF n
    <3> QED BY <3>1, <3>2, <3>3
  <2>4. q \in Surjection(1 .. n, R)
    BY <1>6, <2>2, <2>3, FS_Injection
  <2> HIDE DEF n
  <2> QED BY <2>4 DEF Surjection
<1>9. \A i \in 1 .. n : /\ q[i] \in R /\ q[i] \in StoreChange
                        /\ q[i].revision \in a .. counter /\ q[i] = history[q[i].revision]
  BY <1>1, <1>2, <1>7
<1>10. q \in Seq(StoreChange) /\ DOMAIN q = 1 .. n /\ q # <<>> /\ Head(q) = q[1]
  <2>1. q \in [1 .. n -> StoreChange]
    BY <1>7, <1>9
  <2>2. n \in Nat /\ n # 0
    BY <1>1
  <2> HIDE DEF n
  <2> QED BY <2>1, <2>2
<1>11. q[1] = history[a]
  <2>1. PICK i \in 1 .. n : q[i] = history[a]
    BY <1>1, <1>2, <1>8
  <2>2. 1 \in 1 .. n /\ q[1].revision >= a /\ q[1].revision \in Nat /\ q[i].revision = a
    BY <1>1, <1>9, <2>1
  <2>3. i = 1
    <3>1. CASE 1 < i
      BY <1>1, <1>7, <2>2, <3>1
    <3> QED BY <1>1, <3>1
  <2> QED BY <2>1, <2>3
<1>12. \A i \in 1 .. n : i + 1 \in 1 .. n => q[i + 1].revision = q[i].revision + 1
  <2> SUFFICES ASSUME NEW i \in 1 .. n, i + 1 \in 1 .. n, q[i + 1].revision # q[i].revision + 1
               PROVE  FALSE
    OBVIOUS
  <2>1. q[i].revision < q[i + 1].revision /\ i \in Nat
    BY <1>1, <1>7
  <2>2. q[i].revision + 1 \in a .. counter /\ q[i].revision + 1 < q[i + 1].revision
    <3>1. q[i].revision \in a .. counter /\ q[i + 1].revision \in a .. counter
      BY <1>9
    <3>2. counter \in Nat /\ a \in Nat /\ q[i + 1].revision # q[i].revision + 1
      BY <1>1
    <3> HIDE DEF n
    <3> QED BY <2>1, <3>1, <3>2
  <2>3. PICK k \in 1 .. n : q[k] = history[q[i].revision + 1]
    BY <1>2, <1>8, <2>2
  <2>4. q[k].revision = q[i].revision + 1 /\ k \in Nat
    BY <1>1, <2>2, <2>3
  <2>5. CASE k <= i
    <3>1. q[k].revision <= q[i].revision
      BY <1>1, <1>7, <1>9, <2>4, <2>5
    <3> QED BY <1>1, <1>9, <2>4, <3>1
  <2>6. CASE k >= i + 1
    <3>1. q[k].revision >= q[i + 1].revision
      <4>1. CASE k = i + 1
        BY <1>1, <1>9, <2>4, <4>1
      <4>2. CASE i + 1 < k
        BY <1>1, <1>7, <1>9, <2>4, <4>2
      <4> QED BY <2>1, <2>4, <2>6, <4>1, <4>2
    <3> QED BY <1>1, <1>9, <2>2, <2>4, <3>1
  <2> QED BY <2>1, <2>4, <2>5, <2>6
<1> QED BY <1>1, <1>7, <1>9, <1>10, <1>11, <1>12

-----------------------------------------------------------------------------

\* At first nothing is written and nothing is asked for.
LEMMA InitRedis == Init => RedisInv
<1> SUFFICES ASSUME Init PROVE RedisFeedInv
  BY DEF RedisInv
<1>1. Numbered /\ RowsAreTail
  BY FeedBounds DEF Init, Numbered, RowsAreTail, From
<1>2. DefaultFilter \in ChangeFilter /\ DefaultStart \in ChangeStart
  BY DEF DefaultFilter, ChangeFilter, DefaultStart, ChangeStart
<1>3. /\ stream \in [Subscribers -> Streams]
      /\ asked \in [Subscribers -> ChangeStart]
      /\ delivered \in [Subscribers -> SUBSET Nat]
  BY <1>2 DEF Init, Streams
<1>4. ASSUME NEW s \in Subscribers PROVE StreamInv(s)
  <2>1. /\ stream[s].stage = "none" /\ stream[s].cursor = 0 /\ stream[s].last = 0
        /\ stream[s].reply = <<>> /\ delivered[s] = {} /\ counter = 0
    BY DEF Init
  <2>2. 0 # NoRevision
    BY FeedBounds DEF NoRevision
  <2> QED BY <1>3, <2>1, <2>2
       DEF StreamInv, StreamTyped, FollowsUnlessBeginning, ReplyIsStretch, GapIsGone
<1> QED BY <1>1, <1>3, <1>4 DEF RedisFeedInv

\* Trimming happens as the change is added, so what is left is a tail again; and what a
\* stream has read, or missed, stays read or missed.
LEMMA RedisReportKeeps ==
    ASSUME RedisFeedInv, NEW row \in Collections \X Keys, NEW op \in ChangeOperation,
           RedisReport(row, op)
    PROVE  RedisFeedInv'
<1> DEFINE new == Change(counter + 1, row, op)
           all == rows \cup {new}
<1>1. /\ counter \in Nat /\ counter < MaxRevision /\ counter' = counter + 1
      /\ history \in Seq(StoreChange) /\ DOMAIN history = 1 .. counter /\ Len(history) = counter
      /\ history' = Append(history, new) /\ UNCHANGED <<stream, asked, delivered>>
      /\ rows' = {r \in all : r.revision + Retention > Highest(all)}
      /\ \A i \in 1 .. counter : history[i].revision = i
      /\ Retention \in Nat \ {0} /\ MaxRevision \in Nat
  BY FeedBounds DEF RedisFeedInv, Numbered, RedisReport
<1>2. new \in StoreChange /\ new.revision = counter + 1
  BY <1>1, ChangeTyped
<1> HIDE DEF new
<1>3. /\ history' \in Seq(StoreChange) /\ Len(history') = counter + 1
      /\ DOMAIN history' = 1 .. counter + 1 /\ history'[counter + 1] = new
      /\ \A i \in 1 .. counter : history'[i] = history[i]
  BY <1>1, <1>2
<1>4. \A change \in rows : change.revision \in 1 .. counter /\ change = history[change.revision]
  BY <1>1, ShownAreLast DEF RedisFeedInv
<1>5. Highest(all) = counter + 1
  <2>1. \A r \in all : r.revision \in 1 .. counter + 1
    BY <1>1, <1>2, <1>4
  <2>2. counter + 1 \in Revs(all)
    BY <1>2 DEF Revs
  <2> HIDE DEF all
  <2> QED BY <1>1, <2>1, <2>2, HighestIs
<1>6. Numbered'
  <2>1. \A i \in 1 .. counter + 1 : history'[i].revision = i
    BY <1>1, <1>2, <1>3
  <2> QED BY <1>1, <1>3, <2>1 DEF Numbered
<1>7. RowsAreTail'
  <2> DEFINE later == {history'[i] : i \in {j \in 1 .. counter + 1 : j >= (counter + 1) - Retention + 1}}
  <2>1. rows' = {r \in all : r.revision + Retention > counter + 1}
    BY <1>1, <1>5
  <2>2. ASSUME NEW r \in rows' PROVE r \in later
    <3>1. CASE r \in rows
      <4>1. r.revision \in 1 .. counter /\ r = history'[r.revision]
        BY <1>3, <1>4, <3>1
      <4>2. r.revision >= (counter + 1) - Retention + 1
        <5>1. r.revision + Retention > counter + 1
          BY <2>1, <2>2
        <5> QED BY <1>1, <4>1, <5>1
      <4> QED BY <1>1, <4>1, <4>2
    <3>2. CASE r = new
      <4>1. counter + 1 \in 1 .. counter + 1 /\ counter + 1 >= (counter + 1) - Retention + 1
        BY <1>1
      <4> QED BY <1>3, <3>2, <4>1
    <3> QED BY <2>1, <2>2, <3>1, <3>2
  <2>3. ASSUME NEW r \in later PROVE r \in rows'
    <3>1. PICK i \in 1 .. counter + 1 : i >= (counter + 1) - Retention + 1 /\ r = history'[i]
      OBVIOUS
    <3>2. CASE i = counter + 1
      <4>1. r = new /\ (counter + 1) + Retention > counter + 1
        BY <1>1, <1>3, <3>1, <3>2
      <4> QED BY <1>2, <2>1, <4>1
    <3>3. CASE i \in 1 .. counter
      <4>1. r = history[i] /\ r.revision = i /\ i + Retention > counter + 1 /\ i + Retention > counter
        BY <1>1, <1>3, <3>1, <3>3
      <4>2. r \in rows
        BY <1>1, <3>3, <4>1, ShownAreLast DEF RedisFeedInv
      <4>3. r.revision + Retention > counter + 1
        BY <4>1
      <4>4. r \in all
        BY <4>2
      <4> HIDE DEF all, later
      <4> QED BY <2>1, <4>3, <4>4
    <3>4. i = counter + 1 \/ i \in 1 .. counter
      BY <1>1
    <3> QED BY <3>2, <3>3, <3>4
  <2>4. rows' = later
    <3> HIDE DEF later
    <3> QED BY <2>2, <2>3
  <2> QED BY <1>1, <1>3, <2>4 DEF RowsAreTail, From
<1>8. ASSUME NEW s \in Subscribers PROVE StreamInv(s)'
  <2>1. StreamTyped(s) /\ FollowsUnlessBeginning(s) /\ ReplyIsStretch(s) /\ GapIsGone(s)
    BY DEF RedisFeedInv, StreamInv
  <2>2. StreamTyped(s)'
    <3>1. stream[s].cursor \in Nat /\ stream[s].cursor <= counter
      BY <2>1 DEF StreamTyped, Streams
    <3>2. stream[s].cursor <= counter + 1
      BY <1>1, <3>1
    <3> QED BY <1>1, <2>1, <3>2 DEF StreamTyped
  <2>3. FollowsUnlessBeginning(s)'
    BY <1>1, <2>1 DEF FollowsUnlessBeginning
  <2>4. ReplyIsStretch(s)'
    <3>1. \A r \in DOMAIN history : r \in DOMAIN history' /\ history'[r] = history[r]
      BY <1>1, <1>3
    <3> QED BY <1>1, <2>1, <3>1 DEF ReplyIsStretch
  <2>5. NextIsGone(s) => NextIsGone(s)'
    <3> SUFFICES ASSUME NextIsGone(s) PROVE NextIsGone(s)'
      OBVIOUS
    <3> DEFINE i == stream[s].cursor + 1
    <3>1. i \in 1 .. counter /\ history[i] \notin rows /\ i = stream'[s].cursor + 1
      BY <1>1 DEF NextIsGone
    <3>2. i \in DOMAIN history' /\ history'[i] = history[i] /\ history[i].revision # counter + 1
      BY <1>1, <1>3, <3>1
    <3>3. history'[i] \notin rows'
      BY <1>1, <1>2, <3>1, <3>2
    <3> QED BY <3>1, <3>2, <3>3 DEF NextIsGone
  <2>6. GapIsGone(s)'
    BY <1>1, <2>1, <2>5 DEF GapIsGone
  <2> QED BY <2>2, <2>3, <2>4, <2>6 DEF StreamInv
<1> QED BY <1>1, <1>6, <1>7, <1>8 DEF RedisFeedInv

\* What a subscriber does concerns its own stream.
LEMMA StreamKeeps ==
    ASSUME RedisFeedInv, NEW s \in Subscribers, UNCHANGED serverVars,
           stream' \in [Subscribers -> Streams],
           asked' \in [Subscribers -> ChangeStart],
           delivered' \in [Subscribers -> SUBSET Nat],
           \A u \in Subscribers \ {s} : /\ stream'[u] = stream[u] /\ asked'[u] = asked[u]
                                        /\ delivered'[u] = delivered[u],
           StreamInv(s)'
    PROVE  RedisFeedInv'
<1>1. UNCHANGED <<counter, rows, history>>
  BY DEF serverVars
<1>2. Numbered' /\ RowsAreTail'
  BY <1>1 DEF RedisFeedInv, Numbered, RowsAreTail, From
<1>3. ASSUME NEW u \in Subscribers, u # s PROVE StreamInv(u)'
  BY <1>1, <1>3
  DEF RedisFeedInv, StreamInv, StreamTyped, FollowsUnlessBeginning, ReplyIsStretch, GapIsGone, NextIsGone
<1> QED BY <1>2, <1>3 DEF RedisFeedInv

\* A subscription starts after a change of the history, or at its beginning.
LEMMA RedisSubscribeIs ==
    ASSUME RedisFeedInv, NEW s \in Subscribers, NEW start \in Starts, NEW f \in Filters,
           RedisSubscribe(s, start, f)
    PROVE  /\ stream[s].stage = "none" /\ stream[s].reply = <<>> /\ delivered[s] = {}
           /\ start \in ChangeStart /\ start.kind \in {"Beginning", "Latest", "After"}
           /\ start.kind = "After" => start.cursor = StartCursor(start)
           /\ start.kind = "Latest" => StartCursor(start) = counter
           /\ StartCursor(start) \in Nat /\ StartCursor(start) <= counter /\ counter <= MaxRevision
           /\ stream' = [stream EXCEPT ![s] =
                            [stage |-> "reading", cursor |-> StartCursor(start),
                             last |-> RedisLast(start, StartCursor(start)), reply |-> <<>>, filter |-> f]]
           /\ asked' = [asked EXCEPT ![s] = start]
           /\ UNCHANGED <<feed, serverVars, delivered>>
<1>1. start \in ChangeStart /\ start.cursor \in Nat
  <2>1. start \in ChangeStart
    BY RequestsAssumption
  <2>2. start.cursor \in Revisions \cup {0}
    BY <2>1 DEF ChangeStart
  <2>3. \A n \in Revisions \cup {0} : n \in Nat
    BY RevisionsAssumption
  <2> QED BY <2>1, <2>2, <2>3
<1>2. Highest(rows) = counter /\ counter \in Nat /\ counter <= MaxRevision
  BY HighestIsCounter, FeedBounds DEF RedisFeedInv, Numbered
<1>3. stream[s].stage = "none" /\ stream[s].reply = <<>> /\ delivered[s] = {}
  BY DEF RedisSubscribe, Begin, RedisFeedInv, StreamInv, StreamTyped
<1>4. start.kind \in {"Beginning", "Latest", "After"} /\ (start.kind = "After" => start.cursor <= counter)
  BY <1>1, <1>2 DEF RedisSubscribe, Invalid, ChangeStart
<1>5. /\ start.kind = "After" => start.cursor = StartCursor(start)
      /\ start.kind = "Latest" => StartCursor(start) = counter
      /\ StartCursor(start) \in Nat /\ StartCursor(start) <= counter
  BY <1>1, <1>2, <1>4 DEF StartCursor
<1> QED BY <1>1, <1>2, <1>3, <1>4, <1>5 DEF RedisSubscribe, Begin

LEMMA RedisSubscribeKeeps ==
    ASSUME RedisFeedInv, NEW s \in Subscribers, NEW start \in Starts, NEW f \in Filters,
           RedisSubscribe(s, start, f)
    PROVE  RedisFeedInv'
<1> DEFINE c == StartCursor(start)
           l == RedisLast(start, c)
           new == [stage |-> "reading", cursor |-> c, last |-> l, reply |-> <<>>, filter |-> f]
<1>1. /\ delivered[s] = {} /\ start \in ChangeStart
      /\ c \in Nat /\ c <= counter /\ counter <= MaxRevision
      /\ stream' = [stream EXCEPT ![s] = new] /\ asked' = [asked EXCEPT ![s] = start]
      /\ UNCHANGED <<feed, serverVars, delivered>>
  BY RedisSubscribeIs
<1>2. l \in Nat /\ l \in {c, NoRevision} /\ (l = NoRevision => start.kind = "Beginning")
  <2>1. MaxRevision \in Nat /\ counter \in Nat
    BY FeedBounds DEF RedisFeedInv, Numbered
  <2>2. NoRevision \in Nat /\ c # NoRevision
    BY <1>1, <2>1 DEF NoRevision
  <2> QED BY <1>1, <2>2 DEF RedisLast
<1>3. new \in Streams
  BY <1>1, <1>2, RequestsAssumption DEF Streams
<1>4. /\ stream[s].stage = stream[s].stage
      /\ stream' \in [Subscribers -> Streams] /\ stream'[s] = new
      /\ asked' \in [Subscribers -> ChangeStart] /\ asked'[s] = start
      /\ delivered' \in [Subscribers -> SUBSET Nat] /\ delivered'[s] = {}
      /\ \A u \in Subscribers \ {s} : stream'[u] = stream[u] /\ asked'[u] = asked[u]
  BY <1>1, <1>3 DEF RedisFeedInv
<1>5. StreamInv(s)'
  <2>1. /\ stream'[s] \in Streams /\ stream'[s].stage = "reading" /\ stream'[s].cursor = c
        /\ stream'[s].last = l /\ stream'[s].reply = <<>> /\ stream'[s].filter = f
    BY <1>3, <1>4
  <2> HIDE DEF new, c, l
  <2>2. counter' = counter
    BY <1>1 DEF serverVars
  <2> QED BY <1>1, <1>2, <1>4, <2>1, <2>2
       DEF StreamInv, StreamTyped, FollowsUnlessBeginning, ReplyIsStretch, GapIsGone
<1> HIDE DEF new
<1> QED BY <1>1, <1>4, <1>5, StreamKeeps

\* XREAD answers with the stretch that starts after the cursor, or at what is left.
LEMMA ReadIs ==
    ASSUME RedisFeedInv, feed = "redis", NEW s \in Subscribers, Read(s), NEW q, q = Ordered(Newer(s))
    PROVE  /\ stream[s].stage = "reading" /\ stream[s].reply = <<>>
           /\ stream' = [stream EXCEPT ![s].reply = q]
           /\ UNCHANGED <<feed, serverVars, asked, begin, delivered>>
           /\ q \in Seq(StoreChange) /\ q # <<>>
           /\ \A i \in DOMAIN q :
                 /\ q[i].revision \in DOMAIN history /\ q[i] = history[q[i].revision]
                 /\ q[i].revision > stream[s].cursor
                 /\ i + 1 \in DOMAIN q => q[i + 1].revision = q[i].revision + 1
           /\ \A i, j \in DOMAIN q : i < j => q[i].revision < q[j].revision
           /\ Head(q).revision > stream[s].cursor + 1 => NextIsGone(s)
<1>1. /\ counter \in Nat /\ DOMAIN history = 1 .. counter /\ Retention \in Nat \ {0}
      /\ \A i \in 1 .. counter : history[i].revision = i
      /\ stream[s].cursor \in Nat /\ stream \in [Subscribers -> Streams]
  <2>1. stream \in [Subscribers -> Streams] /\ Numbered
    BY DEF RedisFeedInv
  <2>2. stream[s].cursor \in Nat
    BY <2>1 DEF Streams
  <2> QED BY <2>1, <2>2, FeedBounds DEF Numbered
<1> DEFINE next == stream[s].cursor + 1
           kept == counter - Retention + 1
           a == IF next >= kept THEN next ELSE kept
<1>2. Newer(s) = From(a)
  <2>1. ASSUME NEW r \in Newer(s) PROVE r \in From(a)
    <3>1. /\ r.revision \in 1 .. counter /\ r = history[r.revision]
          /\ r.revision + Retention > counter /\ r.revision > stream[s].cursor
      BY <1>1, ShownAreLast DEF Newer, RedisFeedInv
    <3>2. r.revision >= next /\ r.revision >= kept
      BY <1>1, <3>1
    <3> QED BY <1>1, <3>1, <3>2 DEF From
  <2>2. ASSUME NEW r \in From(a) PROVE r \in Newer(s)
    <3>1. PICK i \in 1 .. counter : i >= a /\ r = history[i]
      BY <1>1 DEF From
    <3>2. i + Retention > counter /\ i > stream[s].cursor
      BY <1>1, <3>1
    <3>3. r \in rows
      BY <1>1, <3>1, <3>2, ShownAreLast DEF RedisFeedInv
    <3> QED BY <1>1, <3>1, <3>2, <3>3 DEF Newer
  <2> HIDE DEF a
  <2> QED BY <2>1, <2>2
<1>3. /\ Newer(s) # {} /\ stream[s].stage = "reading" /\ stream[s].reply = <<>>
      /\ UNCHANGED <<feed, serverVars, asked, begin, delivered>>
  BY DEF Read
<1>4. stream' = [stream EXCEPT ![s].reply = q]
  <2>1. stream' = [stream EXCEPT ![s].reply = q, ![s].stage = "reading"]
    BY <1>3 DEF Read
  <2>2. stream[s].stage = "reading" /\ stream[s] \in Streams
    BY <1>1, <1>3
  <2>3. [stream[s] EXCEPT !.reply = q, !.stage = "reading"] = [stream[s] EXCEPT !.reply = q]
    BY <2>2 DEF Streams
  <2> QED BY <1>1, <2>1, <2>3
<1>5. a \in 1 .. counter
  <2>1. PICK i \in 1 .. counter : i >= a
    BY <1>1, <1>2, <1>3 DEF From
  <2>2. a \in Int /\ a >= 1
    BY <1>1
  <2> HIDE DEF a
  <2> QED BY <1>1, <2>1, <2>2
<1>6. q = Ordered(From(a))
  BY <1>2
<1>7. /\ q \in Seq(StoreChange) /\ q # <<>> /\ Head(q) = history[a]
      /\ \A i \in DOMAIN q :
            /\ q[i].revision \in DOMAIN history /\ q[i] = history[q[i].revision]
            /\ q[i].revision >= a
            /\ i + 1 \in DOMAIN q => q[i + 1].revision = q[i].revision + 1
      /\ \A i, j \in DOMAIN q : i < j => q[i].revision < q[j].revision
  <2> HIDE DEF a
  <2> QED BY <1>1, <1>5, <1>6, OrderedIsStretch DEF RedisFeedInv
<1>8. \A n \in 1 .. counter : n >= a => n > stream[s].cursor
  BY <1>1
<1>9. Head(q).revision > stream[s].cursor + 1 => NextIsGone(s)
  <2> SUFFICES ASSUME Head(q).revision > next PROVE NextIsGone(s)
    OBVIOUS
  <2>1. Head(q).revision = a
    <3> HIDE DEF a
    <3> QED BY <1>1, <1>5, <1>7
  <2>2. next < kept /\ next \in 1 .. counter /\ ~(next + Retention > counter)
    BY <1>1, <1>5, <2>1
  <2>3. history[next] \notin rows
    BY <1>1, <2>2, ShownAreLast DEF RedisFeedInv
  <2> QED BY <1>1, <2>2, <2>3 DEF NextIsGone
<1> HIDE DEF a, kept
<1> QED BY <1>1, <1>3, <1>4, <1>7, <1>8, <1>9

\* A read starts where something is left, and leaves nothing out after that.
LEMMA ReadKeeps ==
    ASSUME RedisFeedInv, feed = "redis", NEW s \in Subscribers, Read(s)
    PROVE  RedisFeedInv'
<1>1. PICK q : q = Ordered(Newer(s))
  OBVIOUS
<1>2. /\ stream[s].stage = "reading"
      /\ stream' = [stream EXCEPT ![s].reply = q]
      /\ UNCHANGED <<feed, serverVars, asked, begin, delivered>>
      /\ q \in Seq(StoreChange) /\ q # <<>>
      /\ \A i \in DOMAIN q :
            /\ q[i].revision \in DOMAIN history /\ q[i] = history[q[i].revision]
            /\ q[i].revision > stream[s].cursor
            /\ i + 1 \in DOMAIN q => q[i + 1].revision = q[i].revision + 1
      /\ \A i, j \in DOMAIN q : i < j => q[i].revision < q[j].revision
      /\ Head(q).revision > stream[s].cursor + 1 => NextIsGone(s)
  BY <1>1, ReadIs
<1>3. /\ stream \in [Subscribers -> Streams] /\ stream[s] \in Streams
      /\ asked \in [Subscribers -> ChangeStart] /\ delivered \in [Subscribers -> SUBSET Nat]
      /\ StreamTyped(s) /\ FollowsUnlessBeginning(s)
  BY DEF RedisFeedInv, StreamInv
<1>4. /\ stream'[s] \in Streams /\ stream'[s].reply = q
      /\ stream'[s].stage = "reading" /\ stream'[s].cursor = stream[s].cursor
      /\ stream'[s].last = stream[s].last /\ stream'[s].filter = stream[s].filter
  BY <1>2, <1>3 DEF Streams
<1>5. stream' \in [Subscribers -> Streams] /\ \A u \in Subscribers \ {s} : stream'[u] = stream[u]
  BY <1>2, <1>3, <1>4
<1>6. UNCHANGED <<counter, rows, history>>
  BY <1>2 DEF serverVars
<1>7. StreamTyped(s)' /\ FollowsUnlessBeginning(s)'
  BY <1>2, <1>3, <1>4, <1>6 DEF StreamTyped, FollowsUnlessBeginning
<1>8. ReplyIsStretch(s)'
  BY <1>2, <1>4, <1>6 DEF ReplyIsStretch
<1>9. GapIsGone(s)'
  BY <1>2, <1>4, <1>6 DEF GapIsGone, NextIsGone
<1> QED BY <1>2, <1>3, <1>5, <1>7, <1>8, <1>9, StreamKeeps DEF StreamInv

\* A stream that ends keeps its cursor; it says that it has expired when what it has read
\* starts too late.
LEMMA EndKeeps ==
    ASSUME RedisFeedInv, feed = "redis", NEW s \in Subscribers, RecvExpired(s) \/ Drop(s)
    PROVE  RedisFeedInv'
<1>1. /\ stream \in [Subscribers -> Streams] /\ stream[s] \in Streams
      /\ asked \in [Subscribers -> ChangeStart] /\ delivered \in [Subscribers -> SUBSET Nat]
      /\ StreamTyped(s) /\ FollowsUnlessBeginning(s) /\ ReplyIsStretch(s) /\ GapIsGone(s)
  BY DEF RedisFeedInv, StreamInv
<1>2. UNCHANGED <<feed, serverVars, asked, begin, delivered>> /\ UNCHANGED <<counter, rows, history>>
  BY DEF RecvExpired, Drop, serverVars
<1>3. CASE RecvExpired(s)
  <2>1. /\ stream' = [stream EXCEPT ![s].stage = "expired", ![s].reply = <<>>]
        /\ stream[s].reply # <<>> /\ Gap(s) /\ stream[s].stage # "none"
    BY <1>3 DEF RecvExpired, Open
  <2>2. /\ stream'[s] \in Streams /\ stream'[s].reply = <<>>
        /\ stream'[s].stage = "expired" /\ stream'[s].cursor = stream[s].cursor
        /\ stream'[s].last = stream[s].last /\ stream'[s].filter = stream[s].filter
    BY <1>1, <2>1 DEF Streams
  <2>3. stream' \in [Subscribers -> Streams] /\ \A u \in Subscribers \ {s} : stream'[u] = stream[u]
    BY <1>1, <2>1, <2>2
  <2>4. StreamTyped(s)' /\ FollowsUnlessBeginning(s)' /\ ReplyIsStretch(s)'
    BY <1>1, <1>2, <2>1, <2>2 DEF StreamTyped, FollowsUnlessBeginning, ReplyIsStretch
  <2>5. NextIsGone(s)
    BY <1>1, <2>1 DEF Gap, StreamTyped, GapIsGone
  <2>6. GapIsGone(s)'
    BY <1>2, <2>2, <2>5 DEF GapIsGone, NextIsGone
  <2> QED BY <1>1, <1>2, <2>3, <2>4, <2>6, StreamKeeps DEF StreamInv
<1>4. CASE Drop(s)
  <2>1. stream' = [stream EXCEPT ![s].stage = "dropped"] /\ stream[s].stage # "none"
    BY <1>4 DEF Drop, Open
  <2>2. /\ stream'[s] \in Streams /\ stream'[s].reply = stream[s].reply
        /\ stream'[s].stage = "dropped" /\ stream'[s].cursor = stream[s].cursor
        /\ stream'[s].last = stream[s].last /\ stream'[s].filter = stream[s].filter
    BY <1>1, <2>1 DEF Streams
  <2>3. stream' \in [Subscribers -> Streams] /\ \A u \in Subscribers \ {s} : stream'[u] = stream[u]
    BY <1>1, <2>1, <2>2
  <2>4. StreamTyped(s)' /\ FollowsUnlessBeginning(s)'
    BY <1>1, <1>2, <2>1, <2>2 DEF StreamTyped, FollowsUnlessBeginning
  <2>5. ReplyIsStretch(s)' /\ GapIsGone(s)'
    BY <1>1, <1>2, <2>2 DEF ReplyIsStretch, GapIsGone, NextIsGone
  <2> QED BY <1>1, <1>2, <2>3, <2>4, <2>5, StreamKeeps DEF StreamInv
<1> QED BY <1>3, <1>4

\* A change is passed only when it is the next one, or the first of all.
LEMMA PassIs ==
    ASSUME RedisFeedInv, feed = "redis", NEW s \in Subscribers, Pass(s)
    PROVE  /\ stream[s].stage = "reading" /\ stream[s].reply # <<>> /\ stream[s].reply \in Seq(StoreChange)
           /\ Head(stream[s].reply).revision \in DOMAIN history
           /\ Head(stream[s].reply) = history[Head(stream[s].reply).revision]
           /\ stream[s].last # NoRevision => Head(stream[s].reply).revision = stream[s].cursor + 1
           /\ Head(stream[s].reply).revision # NoRevision
           /\ stream' = [stream EXCEPT
                  ![s].cursor = Head(stream[s].reply).revision,
                  ![s].last = Head(stream[s].reply).revision,
                  ![s].reply = IF Matches(stream[s].filter, Head(stream[s].reply))
                                 THEN <<>> ELSE Tail(stream[s].reply)]
           /\ delivered' = IF Matches(stream[s].filter, Head(stream[s].reply))
                             THEN [delivered EXCEPT ![s] = @ \cup {Head(stream[s].reply).revision}]
                             ELSE delivered
           /\ UNCHANGED <<feed, serverVars, asked, begin>>
<1> DEFINE reply == stream[s].reply
           change == Head(reply)
           left == IF Matches(stream[s].filter, change) THEN <<>> ELSE Tail(reply)
<1>1. /\ stream \in [Subscribers -> Streams] /\ stream[s] \in Streams
      /\ StreamTyped(s) /\ ReplyIsStretch(s) /\ Numbered
  BY DEF RedisFeedInv, StreamInv
<1>2. /\ stream[s].stage = "reading" /\ reply # <<>> /\ ~Gap(s)
      /\ UNCHANGED <<feed, serverVars, asked, begin>>
      /\ delivered' = IF Matches(stream[s].filter, change)
                        THEN [delivered EXCEPT ![s] = @ \cup {change.revision}] ELSE delivered
  BY <1>1 DEF Pass, Open, StreamTyped
<1>3. reply \in Seq(StoreChange) /\ 1 \in DOMAIN reply /\ change = reply[1]
  <2>1. reply \in Seq(StoreChange)
    BY <1>1 DEF Streams
  <2> HIDE DEF reply
  <2> QED BY <1>2, <2>1
<1>4. change.revision \in DOMAIN history /\ change = history[change.revision]
      /\ change.revision > stream[s].cursor
  BY <1>1, <1>3 DEF ReplyIsStretch
<1>5. stream[s].cursor \in Nat /\ change.revision \in Nat /\ counter \in Nat
      /\ change.revision <= counter /\ counter <= MaxRevision /\ MaxRevision \in Nat
  <2>1. stream[s].cursor \in Nat
    BY <1>1 DEF Streams
  <2>2. DOMAIN history = 1 .. counter /\ counter \in 0 .. MaxRevision
    BY <1>1 DEF Numbered
  <2> HIDE DEF change
  <2> QED BY <1>4, <2>1, <2>2, FeedBounds
<1>6. change.revision # NoRevision
  BY <1>5 DEF NoRevision
<1>7. stream[s].last # NoRevision => change.revision = stream[s].cursor + 1
  <2> SUFFICES ASSUME stream[s].last # NoRevision PROVE change.revision = stream[s].cursor + 1
    OBVIOUS
  <2>1. stream[s].last = stream[s].cursor
    BY <1>1 DEF StreamTyped
  <2>2. ~(change.revision > stream[s].cursor + 1)
    BY <1>2, <2>1 DEF Gap
  <2> HIDE DEF change
  <2> QED BY <1>4, <1>5, <2>2
<1>8. stream' = [stream EXCEPT ![s].cursor = change.revision, ![s].last = change.revision, ![s].reply = left]
  <2>1. stream' = [stream EXCEPT ![s].cursor = change.revision, ![s].last = change.revision,
                                 ![s].reply = left, ![s].stage = "reading"]
    BY <1>2 DEF Pass
  <2> DEFINE old == stream[s]
             new == [old EXCEPT !.cursor = change.revision, !.last = change.revision, !.reply = left]
  <2>2. [new EXCEPT !.stage = "reading"] = new
    <3>1. old \in Streams /\ old.stage = "reading"
      BY <1>1, <1>2
    <3> HIDE DEF old, change, left
    <3> QED BY <3>1 DEF Streams
  <2>3. /\ stream' = [stream EXCEPT ![s] = [new EXCEPT !.stage = "reading"]]
        /\ [stream EXCEPT ![s] = new]
            = [stream EXCEPT ![s].cursor = change.revision, ![s].last = change.revision, ![s].reply = left]
    <3> HIDE DEF change, left
    <3> QED BY <1>1, <2>1
  <2> HIDE DEF new
  <2> QED BY <2>2, <2>3
<1> HIDE DEF left
<1> QED BY <1>2, <1>3, <1>4, <1>6, <1>7, <1>8 DEF left

\* The rest of what was read still follows on it.
LEMMA PassKeeps ==
    ASSUME RedisFeedInv, feed = "redis", NEW s \in Subscribers, Pass(s)
    PROVE  RedisFeedInv'
<1> DEFINE reply == stream[s].reply
           n == Head(reply).revision
           left == IF Matches(stream[s].filter, Head(reply)) THEN <<>> ELSE Tail(reply)
<1>1. /\ stream \in [Subscribers -> Streams] /\ stream[s] \in Streams
      /\ asked \in [Subscribers -> ChangeStart] /\ delivered \in [Subscribers -> SUBSET Nat]
      /\ StreamTyped(s) /\ ReplyIsStretch(s) /\ Numbered
  BY DEF RedisFeedInv, StreamInv
<1>2. /\ stream[s].stage = "reading" /\ reply # <<>> /\ reply \in Seq(StoreChange)
      /\ n \in DOMAIN history /\ n # NoRevision
      /\ stream' = [stream EXCEPT ![s].cursor = n, ![s].last = n, ![s].reply = left]
      /\ delivered' = IF Matches(stream[s].filter, Head(reply))
                        THEN [delivered EXCEPT ![s] = @ \cup {n}] ELSE delivered
      /\ UNCHANGED <<feed, serverVars, asked, begin>>
  BY PassIs
<1>3. UNCHANGED <<counter, rows, history>> /\ n \in Nat /\ n <= counter
  <2>1. DOMAIN history = 1 .. counter /\ counter \in Nat
    BY <1>1, FeedBounds DEF Numbered
  <2> HIDE DEF n
  <2> QED BY <1>2, <2>1 DEF serverVars
<1>4. /\ left \in Seq(StoreChange) /\ DOMAIN reply = 1 .. Len(reply) /\ Len(reply) \in Nat \ {0}
      /\ Head(reply) = reply[1]
      /\ \A i \in DOMAIN left : i \in Nat \ {0} /\ i + 1 \in DOMAIN reply /\ left[i] = reply[i + 1]
  <2> HIDE DEF reply
  <2>1. CASE left = <<>>
    BY <1>2, <2>1
  <2>2. CASE left = Tail(reply)
    BY <1>2, <2>2
  <2> QED BY <2>1, <2>2
<1>5. stream'[s] \in Streams /\ stream'[s].cursor = n /\ stream'[s].last = n /\ stream'[s].reply = left
      /\ stream'[s].stage = "reading" /\ stream'[s].filter = stream[s].filter
  <2> HIDE DEF n, left
  <2> QED BY <1>1, <1>2, <1>3, <1>4 DEF Streams
<1>6. stream' \in [Subscribers -> Streams] /\ \A u \in Subscribers \ {s} : stream'[u] = stream[u]
  BY <1>1, <1>2, <1>5
<1>7. delivered' \in [Subscribers -> SUBSET Nat] /\ \A u \in Subscribers \ {s} : delivered'[u] = delivered[u]
  <2> HIDE DEF n
  <2> QED BY <1>1, <1>2, <1>3
<1> HIDE DEF n, left
<1>8. StreamTyped(s)' /\ FollowsUnlessBeginning(s)'
  BY <1>1, <1>2, <1>3, <1>5, <1>7 DEF StreamTyped, FollowsUnlessBeginning
<1>9. /\ \A i \in DOMAIN left :
            /\ left[i].revision \in DOMAIN history /\ left[i] = history[left[i].revision]
            /\ left[i].revision > n
            /\ i + 1 \in DOMAIN left => left[i + 1].revision = left[i].revision + 1
      /\ \A i, j \in DOMAIN left : i < j => left[i].revision < left[j].revision
      /\ left # <<>> => Head(left).revision = n + 1
  <2>1. ASSUME NEW i \in DOMAIN left
        PROVE  /\ left[i].revision \in DOMAIN history /\ left[i] = history[left[i].revision]
               /\ left[i].revision > n
               /\ i + 1 \in DOMAIN left => left[i + 1].revision = left[i].revision + 1
    <3>1. i + 1 \in DOMAIN reply /\ left[i] = reply[i + 1] /\ 1 \in DOMAIN reply /\ 1 < i + 1
      BY <1>4
    <3>2. left[i].revision \in DOMAIN history /\ left[i] = history[left[i].revision]
      BY <1>1, <3>1 DEF ReplyIsStretch
    <3>3. reply[1].revision < reply[i + 1].revision
      BY <1>1, <3>1 DEF ReplyIsStretch
    <3>4. ASSUME i + 1 \in DOMAIN left PROVE left[i + 1].revision = left[i].revision + 1
      <4>1. (i + 1) + 1 \in DOMAIN reply /\ left[i + 1] = reply[(i + 1) + 1]
        BY <1>4, <3>4
      <4> QED BY <1>1, <3>1, <4>1 DEF ReplyIsStretch
    <3>5. left[i].revision > n
      <4>1. left[i].revision \in Nat /\ n = reply[1].revision /\ n < left[i].revision
        BY <1>1, <1>4, <3>1, <3>2, <3>3, FeedBounds DEF n, Numbered
      <4> QED BY <1>3, <4>1
    <3> QED BY <3>2, <3>4, <3>5
  <2>2. ASSUME NEW i \in DOMAIN left, NEW j \in DOMAIN left, i < j
        PROVE  left[i].revision < left[j].revision
    <3>1. /\ i + 1 \in DOMAIN reply /\ left[i] = reply[i + 1]
          /\ j + 1 \in DOMAIN reply /\ left[j] = reply[j + 1] /\ i + 1 < j + 1
      BY <1>4, <2>2
    <3> QED BY <1>1, <3>1 DEF ReplyIsStretch
  <2>3. ASSUME left # <<>> PROVE Head(left).revision = n + 1
    <3>1. 1 \in DOMAIN left /\ Head(left) = left[1]
      BY <1>4, <2>3
    <3>2. 1 \in DOMAIN reply /\ 1 + 1 \in DOMAIN reply /\ left[1] = reply[1 + 1]
      BY <1>4, <3>1
    <3>3. reply[1 + 1].revision = reply[1].revision + 1
      BY <1>1, <3>2 DEF ReplyIsStretch
    <3> QED BY <1>4, <3>1, <3>2, <3>3 DEF n
  <2> QED BY <2>1, <2>2, <2>3
<1>10. ReplyIsStretch(s)'
  BY <1>3, <1>5, <1>9 DEF ReplyIsStretch
<1>11. GapIsGone(s)'
  BY <1>3, <1>5, <1>9 DEF GapIsGone
<1> QED BY <1>1, <1>2, <1>6, <1>7, <1>8, <1>10, <1>11, StreamKeeps DEF StreamInv

\* Redis has no transactions, and nobody changes the backend.
LEMMA RedisSteps ==
    ASSUME OrderInv, Next, feed = "redis"
    PROVE  \/ \E row \in Collections \X Keys, op \in ChangeOperation : RedisReport(row, op)
           \/ \E s \in Subscribers :
                \/ \E start \in Starts, f \in Filters : RedisSubscribe(s, start, f)
                \/ Read(s) \/ RecvExpired(s) \/ Pass(s) \/ PgCheck(s) \/ Drop(s)
<1>1. \A w \in Writers : txn[w].stage = "none"
  BY DEF OrderInv, RowsHeld
<1>2. \A w \in Writers : ~(PgRecord(w) \/ PgPrune(w) \/ PgCommit(w) \/ PgRollback(w))
  BY <1>1 DEF PgRecord, PgPrune, PgCommit, PgRollback
<1>3. \A w \in Writers, row \in Collections \X Keys, op \in ChangeOperation : ~PgLock(w, row, op)
  BY DEF PgLock
<1>4. \A s \in Subscribers, start \in Starts, f \in Filters : ~PgSubscribe(s, start, f)
  BY DEF PgSubscribe
<1> QED BY <1>2, <1>3, <1>4 DEF Next, Recv

LEMMA FeedStays == ASSUME Next PROVE feed' = feed
BY DEF Next, Recv, RedisReport, PgLock, PgRecord, PgPrune, PgCommit, PgRollback, PgStep, RedisSubscribe,
       PgSubscribe, Begin, Read, RecvExpired, Pass, PgCheck, Drop

\* Every step keeps what holds of Redis' feed.
LEMMA NextKeepsRedis ==
    ASSUME OrderInv, RedisInv, [Next]_vars
    PROVE  RedisInv'
<1>1. CASE UNCHANGED vars
  <2>1. UNCHANGED <<feed, counter, rows, history, stream, asked, delivered>>
    BY <1>1 DEF vars
  <2> QED BY <2>1 DEF RedisInv, RedisFeedInv, Numbered, RowsAreTail, From, StreamInv, StreamTyped,
                      FollowsUnlessBeginning, ReplyIsStretch, GapIsGone, NextIsGone
<1>2. ASSUME Next, feed' = "redis" PROVE RedisFeedInv'
  <2>1. feed = "redis" /\ RedisFeedInv
    BY <1>2, FeedStays DEF RedisInv
  <2>2. ASSUME NEW row \in Collections \X Keys, NEW op \in ChangeOperation, RedisReport(row, op)
        PROVE  RedisFeedInv'
    BY <2>1, <2>2, RedisReportKeeps
  <2>3. ASSUME NEW s \in Subscribers, NEW start \in Starts, NEW f \in Filters, RedisSubscribe(s, start, f)
        PROVE  RedisFeedInv'
    BY <2>1, <2>3, RedisSubscribeKeeps
  <2>4. ASSUME NEW s \in Subscribers, Read(s) \/ RecvExpired(s) \/ Pass(s) \/ Drop(s)
        PROVE  RedisFeedInv'
    BY <2>1, <2>4, ReadKeeps, EndKeeps, PassKeeps
  <2>5. ASSUME NEW s \in Subscribers PROVE ~PgCheck(s)
    BY <2>1 DEF RedisFeedInv, StreamInv, StreamTyped, PgCheck
  <2> QED BY <1>2, <2>1, <2>2, <2>3, <2>4, <2>5, RedisSteps
<1> QED BY <1>1, <1>2 DEF RedisInv

LEMMA RedisInvariant == Spec => [](OrderInv /\ RedisInv)
<1>1. OrderInv /\ [Next]_vars => OrderInv'
  BY NextKeepsOrder
<1>2. OrderInv /\ RedisInv /\ [Next]_vars => RedisInv'
  BY NextKeepsRedis
<1> QED BY InitOrdered, InitRedis, <1>1, <1>2, PTL DEF Spec

\* Redis reports ChangeCursorExpired only if a change after the cursor is gone: what it has
\* read starts too late only if the server had trimmed what comes before.
THEOREM RedisExpiresOnlyIfGone == Spec => []ExpiredIsGone
<1>1. RedisInv => ExpiredIsGone
  <2> SUFFICES ASSUME RedisInv, NEW s \in Subscribers, feed = "redis", stream[s].stage = "expired"
               PROVE  \E i \in DOMAIN history : history[i].revision > stream[s].cursor /\ history[i] \notin rows
    BY DEF ExpiredIsGone
  <2>1. NextIsGone(s) /\ Numbered /\ stream \in [Subscribers -> Streams]
    BY DEF RedisInv, RedisFeedInv, StreamInv, GapIsGone
  <2>2. stream[s].cursor \in Nat
    BY <2>1 DEF Streams
  <2>3. history[stream[s].cursor + 1].revision = stream[s].cursor + 1
    BY <2>1 DEF NextIsGone, Numbered
  <2> QED BY <2>1, <2>2, <2>3 DEF NextIsGone
<1> QED BY RedisInvariant, <1>1, PTL

-----------------------------------------------------------------------------
(* Redis' feed is one that the protocol promises.                             *)

\* What the promise sees of the streams.
ViewOpened == [s \in Subscribers |-> Started(s) /\ Open(s)]
ViewAsked == [s \in Subscribers |-> IF Started(s) THEN asked[s] ELSE DefaultStart]
ViewFilter == [s \in Subscribers |-> IF Started(s) THEN stream[s].filter ELSE DefaultFilter]
ViewPosition == [s \in Subscribers |-> IF Started(s) THEN Position(s) ELSE 0]
ViewStays == UNCHANGED <<ViewOpened, ViewAsked, ViewFilter, ViewPosition>>

\* A step of one stream changes the view of that stream.
LEMMA ViewAfter ==
    ASSUME NEW s \in Subscribers,
           \A u \in Subscribers \ {s} : stream'[u] = stream[u] /\ asked'[u] = asked[u]
    PROVE  /\ ViewOpened' = [ViewOpened EXCEPT ![s] = Started(s)' /\ Open(s)']
           /\ ViewAsked' = [ViewAsked EXCEPT ![s] = IF Started(s)' THEN asked'[s] ELSE DefaultStart]
           /\ ViewFilter' = [ViewFilter EXCEPT ![s] = IF Started(s)' THEN stream'[s].filter ELSE DefaultFilter]
           /\ ViewPosition' = [ViewPosition EXCEPT ![s] = IF Started(s)' THEN Position(s)' ELSE 0]
           /\ ViewOpened[s] <=> Started(s) /\ Open(s)
           /\ ViewAsked[s] = IF Started(s) THEN asked[s] ELSE DefaultStart
           /\ ViewFilter[s] = IF Started(s) THEN stream[s].filter ELSE DefaultFilter
           /\ ViewPosition[s] = IF Started(s) THEN Position(s) ELSE 0
<1>1. \A u \in Subscribers \ {s} : /\ Started(u)' <=> Started(u)
                                   /\ Open(u)' <=> Open(u)
                                   /\ Position(u)' = Position(u)
  BY DEF Started, Open, Position
<1>2. ViewOpened' = [ViewOpened EXCEPT ![s] = Started(s)' /\ Open(s)']
  BY <1>1 DEF ViewOpened
<1>3. ViewAsked' = [ViewAsked EXCEPT ![s] = IF Started(s)' THEN asked'[s] ELSE DefaultStart]
  BY <1>1 DEF ViewAsked
<1>4. ViewFilter' = [ViewFilter EXCEPT ![s] = IF Started(s)' THEN stream'[s].filter ELSE DefaultFilter]
  BY <1>1 DEF ViewFilter
<1>5. ViewPosition' = [ViewPosition EXCEPT ![s] = IF Started(s)' THEN Position(s)' ELSE 0]
  BY <1>1 DEF ViewPosition
<1>6. /\ ViewOpened[s] <=> Started(s) /\ Open(s)
      /\ ViewAsked[s] = IF Started(s) THEN asked[s] ELSE DefaultStart
      /\ ViewFilter[s] = IF Started(s) THEN stream[s].filter ELSE DefaultFilter
      /\ ViewPosition[s] = IF Started(s) THEN Position(s) ELSE 0
  BY DEF ViewOpened, ViewAsked, ViewFilter, ViewPosition
<1> QED BY <1>2, <1>3, <1>4, <1>5, <1>6

\* It keeps the view if it keeps that of its stream.
LEMMA ViewKept ==
    ASSUME NEW s \in Subscribers,
           \A u \in Subscribers \ {s} : stream'[u] = stream[u] /\ asked'[u] = asked[u],
           Started(s)' <=> Started(s),
           Started(s) => /\ Open(s)' <=> Open(s)
                         /\ asked'[s] = asked[s] /\ stream'[s].filter = stream[s].filter
                         /\ Position(s)' = Position(s)
    PROVE  ViewStays
<1>1. \A u \in Subscribers : /\ Started(u)' <=> Started(u)
                             /\ Started(u) => /\ Open(u)' <=> Open(u)
                                              /\ asked'[u] = asked[u]
                                              /\ stream'[u].filter = stream[u].filter
                                              /\ Position(u)' = Position(u)
  <2> TAKE u \in Subscribers
  <2>1. CASE u = s
    BY <2>1
  <2>2. CASE u # s
    BY <2>2 DEF Started, Open, Position
  <2> QED BY <2>1, <2>2
<1>2. ViewOpened' = ViewOpened /\ ViewAsked' = ViewAsked
  BY <1>1 DEF ViewOpened, ViewAsked
<1>3. ViewFilter' = ViewFilter /\ ViewPosition' = ViewPosition
  BY <1>1 DEF ViewFilter, ViewPosition
<1> QED BY <1>2, <1>3 DEF ViewStays

\* Nothing the promise sees has changed.
LEMMA NothingSeen ==
    ASSUME ViewStays, UNCHANGED <<history, delivered>>
    PROVE  UNCHANGED Promised!vars
BY DEF ViewStays, ViewOpened, ViewAsked, ViewFilter, ViewPosition, Promised!vars,
       DefaultStart, DefaultFilter, Promised!DefaultStart, Promised!DefaultFilter

\* A change that Redis numbers comes after all others.
LEMMA ReportSimulates ==
    ASSUME RedisFeedInv, NEW row \in Collections \X Keys, NEW op \in ChangeOperation,
           RedisReport(row, op)
    PROVE  Promised!Next
<1> DEFINE new == Change(counter + 1, row, op)
<1>1. /\ counter \in Nat /\ counter < MaxRevision /\ DOMAIN history = 1 .. counter
      /\ \A i \in DOMAIN history : history[i].revision = i
      /\ history' = Append(history, new) /\ UNCHANGED <<stream, asked, delivered>>
  BY FeedBounds DEF RedisFeedInv, Numbered, RedisReport
<1>2. new \in StoreChange /\ new.revision = counter + 1
  BY <1>1, ChangeTyped
<1> HIDE DEF new
<1>3. ViewStays
  BY <1>1 DEF ViewStays, ViewOpened, ViewAsked, ViewFilter, ViewPosition, Started, Open, Position
<1>4. \A i \in DOMAIN history : history[i].revision < new.revision
  BY <1>1, <1>2
<1>5. Promised!Report(new)
  BY <1>1, <1>3, <1>4 DEF Promised!Report, ViewStays, ViewOpened, ViewAsked, ViewFilter, ViewPosition,
       DefaultStart, DefaultFilter, Promised!DefaultStart, Promised!DefaultFilter
<1>6. new \in Promised!StoreChange
  BY <1>2 DEF StoreChange, ChangeOperation, Promised!StoreChange, Promised!ChangeOperation
<1> QED BY <1>5, <1>6 DEF Promised!Next

\* A subscription opened in the promise.
LEMMA OpenSimulates ==
    ASSUME NEW s \in Subscribers, NEW start \in Starts, NEW f \in Filters, NEW p \in 0 .. Len(history),
           UNCHANGED <<history, delivered>>, delivered \in [Subscribers -> SUBSET Nat], delivered[s] = {},
           Promised!StartsAt(start, p),
           ~ViewOpened[s],
           ViewOpened' = [ViewOpened EXCEPT ![s] = TRUE],
           ViewAsked' = [ViewAsked EXCEPT ![s] = start],
           ViewFilter' = [ViewFilter EXCEPT ![s] = f],
           ViewPosition' = [ViewPosition EXCEPT ![s] = p]
    PROVE  Promised!Next
<1>1. delivered' = [delivered EXCEPT ![s] = {}]
  OBVIOUS
<1>2. [u \in Subscribers |-> {}]' = [[u \in Subscribers |-> {}] EXCEPT ![s] = {}]
  OBVIOUS
<1>3. Promised!Open(s, start, f, p)
  BY <1>1, <1>2 DEF Promised!Open, ViewOpened, ViewAsked, ViewFilter, ViewPosition,
       DefaultStart, DefaultFilter, Promised!DefaultStart, Promised!DefaultFilter
<1>4. \E ask \in Starts, g \in Filters, q \in 0 .. Len(history) : Promised!Open(s, ask, g, q)
  BY <1>3
<1> QED BY <1>4 DEF Promised!Next

\* A subscription after a cursor, or at the end, is opened there; one from the beginning
\* when it first reads.
LEMMA SubscribeSimulates ==
    ASSUME RedisFeedInv, NEW s \in Subscribers, NEW start \in Starts, NEW f \in Filters,
           RedisSubscribe(s, start, f)
    PROVE  Promised!Next \/ UNCHANGED Promised!vars
<1> DEFINE p == StartCursor(start)
           l == RedisLast(start, p)
           new == [stage |-> "reading", cursor |-> p, last |-> l, reply |-> <<>>, filter |-> f]
<1>1. /\ stream[s].stage = "none" /\ delivered[s] = {}
      /\ start.kind \in {"Beginning", "Latest", "After"}
      /\ start.kind = "After" => start.cursor = p
      /\ start.kind = "Latest" => p = counter
      /\ p \in Nat /\ p <= counter /\ counter <= MaxRevision
      /\ stream' = [stream EXCEPT ![s] = new] /\ asked' = [asked EXCEPT ![s] = start]
      /\ UNCHANGED <<feed, serverVars, delivered>>
  BY RedisSubscribeIs
<1>2. /\ stream \in [Subscribers -> Streams] /\ asked \in [Subscribers -> ChangeStart]
      /\ delivered \in [Subscribers -> SUBSET Nat] /\ UNCHANGED history
      /\ counter \in Nat /\ Len(history) = counter /\ DOMAIN history = 1 .. counter
      /\ \A i \in DOMAIN history : history[i].revision = i
  BY <1>1, FeedBounds DEF RedisFeedInv, Numbered, serverVars
<1>3. /\ stream'[s].stage = "reading" /\ stream'[s].cursor = p /\ stream'[s].last = l
      /\ stream'[s].reply = <<>> /\ stream'[s].filter = f /\ asked'[s] = start
      /\ \A u \in Subscribers \ {s} : stream'[u] = stream[u] /\ asked'[u] = asked[u]
  <2> HIDE DEF p, l
  <2> QED BY <1>1, <1>2
<1>4. ~Started(s) /\ Open(s)' /\ (Started(s)' <=> l # NoRevision)
  BY <1>1, <1>3 DEF Started, Open
<1>5. l # NoRevision => Position(s)' = p
  BY <1>3 DEF Position
<1> HIDE DEF p, l, new
<1>6. CASE l = NoRevision
  <2>1. ViewStays
    BY <1>3, <1>4, <1>6, ViewKept
  <2> QED BY <1>1, <1>2, <2>1, NothingSeen
<1>7. CASE l # NoRevision
  <2>1. start.kind \in {"Latest", "After"}
    BY <1>1, <1>7 DEF l, RedisLast
  <2>2. Promised!StartsAt(start, p)
    <3>1. CASE start.kind = "Latest"
      BY <1>1, <1>2, <3>1 DEF Promised!StartsAt
    <3>2. CASE start.kind = "After"
      <4>1. \A i \in 1 .. p : history[i].revision <= start.cursor
        BY <1>1, <1>2, <3>2
      <4>2. \A i \in p + 1 .. Len(history) : history[i].revision > start.cursor
        BY <1>1, <1>2, <3>2
      <4> QED BY <3>2, <4>1, <4>2 DEF Promised!StartsAt
    <3> QED BY <2>1, <3>1, <3>2
  <2>3. /\ ViewOpened' = [ViewOpened EXCEPT ![s] = TRUE]
        /\ ViewAsked' = [ViewAsked EXCEPT ![s] = start]
        /\ ViewFilter' = [ViewFilter EXCEPT ![s] = f]
        /\ ViewPosition' = [ViewPosition EXCEPT ![s] = p]
        /\ ~ViewOpened[s]
    <3>1. (Started(s)' /\ Open(s)') = TRUE
      BY <1>4, <1>7
    <3> QED BY <1>3, <1>4, <1>5, <1>7, <3>1, ViewAfter
  <2>4. p \in 0 .. Len(history)
    BY <1>1, <1>2
  <2> QED BY <1>1, <1>2, <2>2, <2>3, <2>4, OpenSimulates
<1> QED BY <1>6, <1>7

\* The first read of a stream from the beginning decides where it starts.
LEMMA ReadSimulates ==
    ASSUME RedisFeedInv, feed = "redis", NEW s \in Subscribers, Read(s)
    PROVE  Promised!Next \/ UNCHANGED Promised!vars
<1>1. PICK q : q = Ordered(Newer(s))
  OBVIOUS
<1>2. /\ stream[s].stage = "reading" /\ stream[s].reply = <<>>
      /\ stream' = [stream EXCEPT ![s].reply = q]
      /\ UNCHANGED <<feed, serverVars, asked, begin, delivered>>
      /\ q \in Seq(StoreChange) /\ q # <<>>
      /\ \A i \in DOMAIN q : q[i].revision \in DOMAIN history
  BY <1>1, ReadIs
<1>3. /\ stream \in [Subscribers -> Streams] /\ stream[s] \in Streams
      /\ delivered \in [Subscribers -> SUBSET Nat] /\ Numbered
      /\ StreamTyped(s) /\ FollowsUnlessBeginning(s)
  BY DEF RedisFeedInv, StreamInv
<1>4. /\ stream'[s].reply = q /\ stream'[s].stage = "reading"
      /\ stream'[s].cursor = stream[s].cursor /\ stream'[s].last = stream[s].last
      /\ stream'[s].filter = stream[s].filter
      /\ \A u \in Subscribers \ {s} : stream'[u] = stream[u] /\ asked'[u] = asked[u]
  BY <1>2, <1>3 DEF Streams
<1>5. UNCHANGED <<history, asked, delivered>>
  BY <1>2 DEF serverVars
<1>6. CASE stream[s].last # NoRevision
  <2>1. Started(s) /\ Started(s)' /\ Open(s) /\ Open(s)' /\ Position(s)' = Position(s)
    BY <1>2, <1>4, <1>6 DEF Started, Open, Position
  <2>2. ViewStays
    BY <1>4, <1>5, <2>1, ViewKept
  <2> QED BY <1>5, <2>2, NothingSeen
<1>7. CASE stream[s].last = NoRevision
  <2> DEFINE p == Head(q).revision - 1
  <2>1. asked[s] \in Starts /\ asked[s].kind = "Beginning" /\ stream[s].filter \in Filters /\ delivered[s] = {}
    BY <1>2, <1>3, <1>7 DEF StreamTyped, FollowsUnlessBeginning
  <2>2. ~Started(s) /\ Started(s)' /\ Open(s)' /\ Position(s)' = p
    BY <1>2, <1>4, <1>7 DEF Started, Open, Position
  <2>3. p \in 0 .. Len(history)
    <3>1. 1 \in DOMAIN q /\ Head(q) = q[1]
      BY <1>2
    <3>2. Head(q).revision \in 1 .. counter /\ counter \in Nat /\ Len(history) = counter
      BY <1>2, <1>3, <3>1, FeedBounds DEF Numbered
    <3> QED BY <3>2
  <2> HIDE DEF p
  <2>4. Promised!StartsAt(asked[s], p)
    BY <2>1 DEF Promised!StartsAt
  <2>5. /\ ViewOpened' = [ViewOpened EXCEPT ![s] = TRUE]
        /\ ViewAsked' = [ViewAsked EXCEPT ![s] = asked[s]]
        /\ ViewFilter' = [ViewFilter EXCEPT ![s] = stream[s].filter]
        /\ ViewPosition' = [ViewPosition EXCEPT ![s] = p]
        /\ ~ViewOpened[s]
    <3>1. (Started(s)' /\ Open(s)') = TRUE
      BY <2>2
    <3> QED BY <1>4, <1>5, <2>2, <3>1, ViewAfter
  <2>6. PICK start \in Starts, f \in Filters : start = asked[s] /\ f = stream[s].filter
    BY <2>1
  <2> QED BY <1>3, <1>5, <2>1, <2>3, <2>4, <2>5, <2>6, OpenSimulates
<1> QED BY <1>6, <1>7

\* What a stream passes is the change after its position.
LEMMA PassSimulates ==
    ASSUME RedisFeedInv, feed = "redis", NEW s \in Subscribers, Pass(s)
    PROVE  Promised!Next
<1> DEFINE n == Head(stream[s].reply).revision
           left == IF Matches(stream[s].filter, Head(stream[s].reply)) THEN <<>> ELSE Tail(stream[s].reply)
<1>1. /\ stream[s].stage = "reading" /\ stream[s].reply # <<>>
      /\ n \in DOMAIN history /\ Head(stream[s].reply) = history[n]
      /\ stream[s].last # NoRevision => n = stream[s].cursor + 1
      /\ n # NoRevision
      /\ stream' = [stream EXCEPT ![s].cursor = n, ![s].last = n, ![s].reply = left]
      /\ delivered' = IF Matches(stream[s].filter, Head(stream[s].reply))
                        THEN [delivered EXCEPT ![s] = @ \cup {n}] ELSE delivered
      /\ UNCHANGED <<feed, serverVars, asked, begin>>
  BY PassIs
<1>2. stream \in [Subscribers -> Streams] /\ stream[s] \in Streams /\ stream[s].cursor \in Nat
  BY DEF RedisFeedInv, Streams
<1>3. n \in Nat \ {0} /\ n <= Len(history)
  <2>1. DOMAIN history = 1 .. Len(history) /\ Len(history) \in Nat
    BY DEF RedisFeedInv, Numbered
  <2> HIDE DEF n
  <2> QED BY <1>1, <2>1
<1>4. Started(s) /\ Open(s) /\ Position(s) = n - 1
  <2>1. Started(s) /\ Open(s)
    BY <1>1 DEF Started, Open
  <2>2. CASE stream[s].last = NoRevision
    BY <1>1, <2>1, <2>2 DEF Position
  <2>3. CASE stream[s].last # NoRevision
    <3>1. Position(s) = stream[s].cursor /\ n = stream[s].cursor + 1
      BY <1>1, <2>3 DEF Position
    <3> HIDE DEF n
    <3> QED BY <1>2, <2>1, <3>1
  <2> QED BY <2>1, <2>2, <2>3
<1>5. Matches(stream[s].filter, Head(stream[s].reply)) <=> Promised!Matches(ViewFilter[s], history[n])
  BY <1>1, <1>4 DEF Matches, Promised!Matches, ViewFilter
<1> HIDE DEF n, left
<1>6. /\ stream'[s].stage = "reading" /\ stream'[s].cursor = n /\ stream'[s].last = n
      /\ stream'[s].filter = stream[s].filter
      /\ \A u \in Subscribers \ {s} : stream'[u] = stream[u] /\ asked'[u] = asked[u]
  BY <1>1, <1>2 DEF Streams
<1>7. Started(s)' /\ Open(s)' /\ Position(s)' = n
  BY <1>1, <1>6 DEF Started, Open, Position
<1>8. UNCHANGED <<history, asked>>
  BY <1>1 DEF serverVars
<1>9. /\ ViewOpened[s] /\ ViewPosition[s] = n - 1 /\ ViewPosition[s] + 1 = n
      /\ ViewPosition' = [ViewPosition EXCEPT ![s] = n]
      /\ UNCHANGED <<ViewOpened, ViewAsked, ViewFilter>>
  <2>1. /\ ViewOpened[s] /\ ViewPosition[s] = n - 1
        /\ ViewPosition' = [ViewPosition EXCEPT ![s] = n]
    BY <1>4, <1>6, <1>7, ViewAfter
  <2>2. n - 1 + 1 = n
    BY <1>3
  <2>3. \A u \in Subscribers : /\ Started(u)' <=> Started(u)
                               /\ Started(u) => /\ Open(u)' <=> Open(u)
                                                /\ asked'[u] = asked[u]
                                                /\ stream'[u].filter = stream[u].filter
    <3> TAKE u \in Subscribers
    <3>1. CASE u = s
      BY <1>4, <1>6, <1>7, <1>8, <3>1
    <3>2. CASE u # s
      BY <1>6, <3>2 DEF Started, Open
    <3> QED BY <3>1, <3>2
  <2>4. UNCHANGED <<ViewOpened, ViewAsked, ViewFilter>>
    BY <2>3 DEF ViewOpened, ViewAsked, ViewFilter
  <2> QED BY <2>1, <2>2, <2>4
<1>10. delivered' = IF Promised!Matches(ViewFilter[s], history[ViewPosition[s] + 1])
                      THEN [delivered EXCEPT ![s] = @ \cup {ViewPosition[s] + 1}] ELSE delivered
  BY <1>1, <1>5, <1>9
<1>11. Promised!Advance(s)
  BY <1>3, <1>8, <1>9, <1>10 DEF Promised!Advance, ViewOpened, ViewAsked, ViewFilter, ViewPosition,
       DefaultStart, DefaultFilter, Promised!DefaultStart, Promised!DefaultFilter
<1> QED BY <1>11 DEF Promised!Next

\* A stream that ends is closed, if it had been opened.
LEMMA EndSimulates ==
    ASSUME RedisFeedInv, feed = "redis", NEW s \in Subscribers, RecvExpired(s) \/ Drop(s)
    PROVE  Promised!Next \/ UNCHANGED Promised!vars
<1>1. stream \in [Subscribers -> Streams] /\ stream[s] \in Streams
  BY DEF RedisFeedInv
<1>2. UNCHANGED <<history, asked, delivered>>
  BY DEF RecvExpired, Drop, serverVars
<1>3. /\ Open(s) /\ stream'[s].stage \in {"expired", "dropped"}
      /\ stream'[s].cursor = stream[s].cursor /\ stream'[s].last = stream[s].last
      /\ stream'[s].filter = stream[s].filter
      /\ stream'[s].reply = stream[s].reply \/ stream[s].last # NoRevision
      /\ \A u \in Subscribers \ {s} : stream'[u] = stream[u] /\ asked'[u] = asked[u]
  <2>1. CASE RecvExpired(s)
    BY <1>1, <1>2, <2>1 DEF RecvExpired, Gap, Streams
  <2>2. CASE Drop(s)
    BY <1>1, <1>2, <2>2 DEF Drop, Streams
  <2> QED BY <2>1, <2>2
<1>4. ~Open(s)' /\ (Started(s)' <=> Started(s)) /\ Position(s)' = Position(s)
  BY <1>3 DEF Open, Started, Position
<1>5. CASE ~Started(s)
  <2>1. ViewStays
    BY <1>3, <1>4, <1>5, ViewKept
  <2> QED BY <1>2, <2>1, NothingSeen
<1>6. CASE Started(s)
  <2>1. ViewOpened[s] /\ ViewOpened' = [ViewOpened EXCEPT ![s] = FALSE]
    <3>1. (Started(s)' /\ Open(s)') = FALSE
      BY <1>4
    <3> QED BY <1>3, <1>6, <3>1, ViewAfter
  <2>2. \A u \in Subscribers : /\ Started(u)' <=> Started(u)
                               /\ Started(u) => /\ Position(u)' = Position(u)
                                                /\ asked'[u] = asked[u]
                                                /\ stream'[u].filter = stream[u].filter
    <3> TAKE u \in Subscribers
    <3>1. CASE u = s
      BY <1>2, <1>3, <1>4, <3>1
    <3>2. CASE u # s
      BY <1>3, <3>2 DEF Started, Position
    <3> QED BY <3>1, <3>2
  <2>3. UNCHANGED <<ViewAsked, ViewFilter, ViewPosition>>
    BY <2>2 DEF ViewAsked, ViewFilter, ViewPosition
  <2>4. Promised!Close(s)
    BY <1>2, <2>1, <2>3 DEF Promised!Close, ViewOpened, ViewAsked, ViewFilter, ViewPosition,
         DefaultStart, DefaultFilter, Promised!DefaultStart, Promised!DefaultFilter
  <2> QED BY <2>4 DEF Promised!Next
<1> QED BY <1>5, <1>6

\* Every step of Redis's feed is one of the feed the protocol promises, or none: a stream
\* passes the changes one after the other and stops where one is missing.
THEOREM RedisImplementsPromise == Spec => RedisKeepsPromise
<1>1. ASSUME OrderInv, RedisInv, Next, feed = "redis"
      PROVE  Promised!Next \/ UNCHANGED Promised!vars
  <2>1. RedisFeedInv
    BY <1>1 DEF RedisInv
  <2>2. ASSUME NEW s \in Subscribers PROVE ~PgCheck(s)
    BY <2>1 DEF RedisFeedInv, StreamInv, StreamTyped, PgCheck
  <2>3. ASSUME NEW row \in Collections \X Keys, NEW op \in ChangeOperation, RedisReport(row, op)
        PROVE  Promised!Next
    BY <2>1, <2>3, ReportSimulates
  <2>4. ASSUME NEW s \in Subscribers, NEW start \in Starts, NEW f \in Filters, RedisSubscribe(s, start, f)
        PROVE  Promised!Next \/ UNCHANGED Promised!vars
    BY <2>1, <2>4, SubscribeSimulates
  <2>5. ASSUME NEW s \in Subscribers, Read(s) \/ RecvExpired(s) \/ Pass(s) \/ Drop(s)
        PROVE  Promised!Next \/ UNCHANGED Promised!vars
    BY <1>1, <2>1, <2>5, ReadSimulates, EndSimulates, PassSimulates
  <2> QED BY <1>1, <2>2, <2>3, <2>4, <2>5, RedisSteps
<1>2. OrderInv /\ RedisInv /\ [Next]_vars
        => [feed = "redis" => Promised!Next \/ UNCHANGED Promised!vars]_vars
  BY <1>1
<1> QED BY RedisInvariant, <1>2, PTL DEF Spec, RedisKeepsPromise
=============================================================================
