--------------------------- MODULE LocalStoresProofs --------------------------
(***************************************************************************)
(* What LocalStores says of the file tree, sled, RocksDB, the simple and    *)
(* the null store, the keyring and Memcached, proved for any calls, keys    *)
(* and contents.                                                            *)
(***************************************************************************)
EXTENDS LocalStores, ServerStoreProofs, SequenceTheorems

-----------------------------------------------------------------------------
(* The inductive invariant *)

\* The call may still store the item in that position of its batch.
Writable(u, i) ==
    /\ u \in Tasks /\ Doing(u, Writes)
    /\ pc[u] = "begin" \/ (pc[u] \in {"item", "writing"} /\ i \in rest[u])

\* Unless it is torn, the document will not be stored from now on.
Spent(d) ==
    IF Torn(d) THEN backend = "filetree" /\ d.expires = NoExpiry
    ELSE ~Writable(d.writer[1], d.writer[2])

\* What is stored, or was when a call began.
DocsSpent ==
    /\ \A s \in Slots : Spent(db[s])
    /\ \A t \in Tasks, s \in Slots : Spent(before[t][s])

\* The calls are of the backend's operations.
Supported(t) == call[t].op \in Supports(backend) /\ (TooLong(t) => backend \in KeyBounded)

\* The stages at which a call takes the next key of its batch.
Takes(t, stage) ==
    /\ Doing(t, KeyValue)
    /\ \/ stage = "item"
       \/ stage = "writing" /\ backend = "filetree" /\ Doing(t, Writes)
       \/ stage = "expiring" /\ backend = "keyring" /\ Doing(t, LocalReads)
Taking(t) == Takes(t, pc[t])

\* What the loop of a call is over: a batch's positions, and else collections.
LoopOk(t, stage, left) ==
    /\ IF Doing(t, KeyValue) THEN left \subseteq DOMAIN call[t].keys ELSE left \subseteq Collections
    /\ Takes(t, stage) => left # {} /\ ~TooLong(t)
LoopsTyped(t) == LoopOk(t, pc[t], rest[t])

\* A call that has not begun has found nothing.
Begun(t) == pc[t] = "begin" => found[t] = Nothing /\ names[t] = {} /\ rest[t] = {}

\* What a call has stored is under its keys.
OwnDocs(t) ==
    \A s \in Slots : db[s].writer[1] = t =>
        /\ Doing(t, Writes) /\ s \in Target(t) /\ pc[t] \notin {"begin", "invalid"}
        /\ db[s].writer[2] \in Positions(t, s)

\* The directories, trees and maps; what is in no base directory is not there.
MadeOk ==
    /\ backend \in {"disk", "simple"} => made \subseteq Collections
    /\ backend = "filetree" => made \subseteq Collections \cup {"base"} /\ ("base" \notin made => made = {})

NullEmpty == backend = "null" => db = Nothing

Core ==
    /\ TypeOK /\ DocsSpent /\ MadeOk /\ NullEmpty
    /\ \A t \in Tasks : Supported(t) /\ LoopsTyped(t) /\ Begun(t) /\ OwnDocs(t) /\ since[t] <= now

-----------------------------------------------------------------------------
(* The steps of a call *)

OwnStep(t) == (BackendStep(t) \/ Fail(t)) /\ UNCHANGED <<backend, call>>

\* A step is one of a call that has not returned and does not begin again, nor return to
\* what it has done,
Ordered(t) ==
    /\ pc[t] \notin Ended /\ pc'[t] # "begin" /\ now' = now
    /\ pc'[t] = "invalid" => pc[t] = "begin" /\ db' = db
    /\ \A i : Writable(t, i)' => Writable(t, i)

\* stores, if anything, what it could store before and, unless it is torn, cannot after,
Effect(t) ==
    /\ db' \in [Slots -> Doc]
    /\ \A s \in Slots : db'[s] # db[s] /\ db'[s] # Empty =>
            /\ Doing(t, Writes) /\ s \in Target(t) /\ pc'[t] # "invalid" /\ backend # "null"
            /\ \E i \in Positions(t, s) :
                /\ db'[s].writer = <<t, i>> /\ Writable(t, i)
                /\ IF Torn(db'[s]) THEN backend = "filetree" /\ db'[s].expires = NoExpiry ELSE ~Writable(t, i)'

\* and leaves everything of its type.
Typed(t) ==
    /\ pc'[t] \in Stages
    /\ seen'[t] \in [Slots -> Doc] /\ found'[t] \in [Slots -> Doc]
    /\ todo'[t] \subseteq Slots /\ names'[t] \subseteq Collections
    /\ alien' \subseteq Collections /\ lock' \in Tasks \cup {NoTask}

Legal(t) == Moves(t) /\ Ordered(t) /\ Effect(t) /\ Typed(t) /\ LoopsTyped(t)'

\* A step that stores nothing.
Going(t, stages) ==
    \E stage \in stages, o \in [Slots -> Doc], d \in SUBSET Slots, f \in [Slots -> Doc] : Goto(t, stage, o, d, f)

Looping(t) ==
    /\ rest' = [rest EXCEPT ![t] = rest'[t]] /\ names' = [names EXCEPT ![t] = names'[t]]
    /\ names'[t] \subseteq Collections

Quiet(t) ==
    /\ pc[t] \notin Ended /\ now' = now /\ UNCHANGED <<backend, call>>
    /\ Drops /\ Looping(t)
    /\ alien' \subseteq Collections /\ lock' \in Tasks \cup {NoTask}

Onward == Stages \ {"begin", "invalid"}

\* What is right for a loop does not change.
LEMMA CarriedOver ==
    ASSUME NEW t \in Tasks, UNCHANGED <<backend, call>>, LoopOk(t, pc'[t], rest'[t])
    PROVE  LoopsTyped(t)'
<1>. QED  BY DEF LoopOk, LoopsTyped, Takes, Doing, TooLong

LEMMA QuietLegal ==
    ASSUME Core, NEW t \in Tasks, ~Doing(t, Writes), Quiet(t), Going(t, Onward), LoopOk(t, pc'[t], rest'[t])
    PROVE  Legal(t)
<1>. PICK stage \in Onward, o \in [Slots -> Doc], d \in SUBSET Slots, f \in [Slots -> Doc] :
        Goto(t, stage, o, d, f)
  BY DEF Going
<1>1. pc'[t] = stage /\ seen'[t] = o /\ todo'[t] = d /\ found'[t] = f
  BY GotoIs DEF Core
<1>2. Moves(t)
  BY GotoIs DEF Moves, Quiet, Looping, Core
<1>3. ~Doing(t, Writes)' /\ \A i : ~Writable(t, i)'
  BY DEF Quiet, Doing, Writable
<1>4. Ordered(t)
  BY <1>1, <1>3 DEF Ordered, Quiet, Onward
<1>5. Effect(t)
  BY DEF Effect, Quiet, Drops
<1>6. Typed(t)
  BY <1>1 DEF Typed, Quiet, Looping, Onward
<1>7. LoopsTyped(t)'
  BY CarriedOver DEF Quiet
<1>. QED  BY <1>2, <1>4, <1>5, <1>6, <1>7 DEF Legal

\* A call that returns, whatever its operation.
LEMMA ReturnLegal ==
    ASSUME Core, NEW t \in Tasks, Quiet(t), NEW how \in {"ok", "error", "invalid"}, Return(t, how),
           rest' = rest, names' = names, how = "invalid" => pc[t] = "begin" /\ db' = db
    PROVE  Legal(t)
<1>1. pc'[t] = how /\ seen'[t] = Nothing /\ todo'[t] = {} /\ found'[t] = found[t]
  BY GoingIs DEF Core
<1>2. Moves(t)
  BY GotoIs DEF Moves, Quiet, Looping, Core, Return
<1>3. \A i : ~Writable(t, i)'
  BY <1>1 DEF Writable
<1>4. Ordered(t) /\ Effect(t)
  BY <1>1, <1>3 DEF Ordered, Effect, Quiet, Drops
<1>5. Typed(t)
  BY <1>1, DbIs DEF Typed, Quiet, Looping, Stages, Ended, Core, TypeOK
<1>6. LoopsTyped(t)'
  <2>1. LoopOk(t, how, rest[t])
    BY DEF LoopOk, Takes, Core, LoopsTyped
  <2>. QED  BY <1>1, <2>1, CarriedOver DEF Quiet
<1>. QED  BY <1>2, <1>4, <1>5, <1>6 DEF Legal

LEMMA GoingTo ==
    ASSUME TypeOK, NEW t \in Tasks, NEW stages
    PROVE  /\ \A stage \in stages : GoOn(t, stage) => Going(t, stages)
           /\ \A stage \in stages : Return(t, stage) => Going(t, stages)
           /\ \A f \in [Slots -> Doc] : "ok" \in stages /\ Answer(t, f) => Going(t, stages)
           /\ \A stage \in stages, o \in [Slots -> Doc], d \in SUBSET Slots, f \in [Slots -> Doc] :
                Goto(t, stage, o, d, f) => Going(t, stages)
<1>1. \A stage \in stages, o \in [Slots -> Doc], d \in SUBSET Slots, f \in [Slots -> Doc] :
         Goto(t, stage, o, d, f) => Going(t, stages)
  BY DEF Going
<1>2. \A stage \in stages : GoOn(t, stage) => Going(t, stages)
  BY <1>1, DbIs DEF GoOn
<1>3. \A stage \in stages : Return(t, stage) => Going(t, stages)
  BY <1>1, DbIs DEF Return
<1>4. \A f \in [Slots -> Doc] : "ok" \in stages /\ Answer(t, f) => Going(t, stages)
  BY <1>1, DbIs DEF Answer
<1>. QED  BY <1>1, <1>2, <1>3, <1>4

\* The loop of a call, and what its other variables are.
LEMMA PlainLoop ==
    ASSUME Core, NEW t \in Tasks
    PROVE  /\ UNCHANGED <<rest, names>> => Looping(t)
           /\ names[t] \subseteq Collections
           /\ alien \subseteq Collections /\ lock \in Tasks \cup {NoTask}
           /\ \A stage : ~Takes(t, stage) => LoopOk(t, stage, rest[t])
           /\ ~Doing(t, KeyValue) => rest[t] \subseteq Collections
                /\ \A stage, left : LoopOk(t, stage, left) <=> left \subseteq Collections
<1>1. UNCHANGED <<rest, names>> => Looping(t)
  BY DEF Looping, Core, TypeOK
<1>2. \A stage : ~Takes(t, stage) => LoopOk(t, stage, rest[t])
  BY DEF Core, LoopsTyped, LoopOk
<1>3. ~Doing(t, KeyValue) => rest[t] \subseteq Collections
                /\ \A stage, left : LoopOk(t, stage, left) <=> left \subseteq Collections
  BY DEF Core, LoopsTyped, LoopOk, Takes
<1>. QED  BY <1>1, <1>2, <1>3 DEF Core, TypeOK

\* A step that leaves its loop alone,
LEMMA PlainQuiet ==
    ASSUME Core, NEW t \in Tasks, pc[t] \notin Ended, Drops, UNCHANGED <<backend, call, rest, names, alien, lock, now>>
    PROVE  Quiet(t)
<1>. QED  BY PlainLoop DEF Quiet, Core, TypeOK

\* of a call that is no write,
LEMMA PlainLegal ==
    ASSUME Core, NEW t \in Tasks, ~Doing(t, Writes), pc[t] \notin Ended, Drops,
           UNCHANGED <<backend, call, rest, names, alien, lock, now>>,
           NEW stages \in SUBSET Onward, Going(t, stages), \A stage \in stages : ~Takes(t, stage)
    PROVE  Legal(t)
<1>. PICK stage \in stages, o \in [Slots -> Doc], d \in SUBSET Slots, f \in [Slots -> Doc] :
        Goto(t, stage, o, d, f)
  BY DEF Going
<1>1. pc'[t] = stage
  BY GotoIs DEF Core
<1>2. Going(t, Onward)
  BY DEF Going
<1>3. LoopOk(t, pc'[t], rest'[t])
  BY <1>1, PlainLoop
<1>. QED  BY <1>2, <1>3, PlainQuiet, QuietLegal

\* or goes through collections.
LEMMA WideLegal ==
    ASSUME Core, NEW t \in Tasks, ~Doing(t, KeyValue), Quiet(t), rest'[t] \subseteq Collections,
           NEW stages \in SUBSET Onward, Going(t, stages)
    PROVE  Legal(t)
<1>1. Going(t, Onward)
  BY DEF Going
<1>2. ~Doing(t, Writes)
  BY DEF Doing, KeyValue, Writes
<1>3. LoopOk(t, pc'[t], rest'[t])
  BY PlainLoop
<1>. QED  BY <1>1, <1>2, <1>3, QuietLegal

LEMMA FailLegal ==
    ASSUME Core, NEW t \in Tasks, Fail(t), UNCHANGED <<backend, call>>
    PROVE  Legal(t)
<1>1. Quiet(t)
  BY PlainLoop, DropsIs DEF Fail, Quiet, serverVars, Core, TypeOK
<1>. QED  BY <1>1, ReturnLegal DEF Fail

-----------------------------------------------------------------------------
(* Batches, key by key *)

\* The next key of a batch.
LEMMA NextIs ==
    ASSUME Core, NEW t \in Tasks, Taking(t)
    PROVE  /\ rest[t] \subseteq DOMAIN call[t].keys /\ NextPosition(t) \in rest[t] /\ ~TooLong(t)
           /\ \A j \in rest[t] : NextPosition(t) <= j
           /\ NextSlot(t) \in Target(t) /\ NextSlot(t) \in Slots
           /\ NextPosition(t) \in Positions(t, NextSlot(t)) /\ NextPosition(t) \in DOMAIN call[t].keys
<1>0. TypeOK
  BY DEF Core
<1>1. rest[t] # {} /\ rest[t] \subseteq DOMAIN call[t].keys /\ ~TooLong(t)
  BY DEF Core, LoopsTyped, LoopOk, Taking, Takes
<1>2. NextPosition(t) \in rest[t] /\ \A j \in rest[t] : NextPosition(t) <= j
  BY <1>0, <1>1, PositionFacts
<1>3. NextPosition(t) \in DOMAIN call[t].keys
  BY <1>1, <1>2
<1>4. NextSlot(t) \in Slots
  BY <1>0, <1>1, <1>3, CallFacts DEF TooLong, NextSlot
<1>. HIDE DEF NextPosition
<1>. QED  BY <1>1, <1>2, <1>3, <1>4 DEF NextSlot, Target, Positions

\* The batch is a key shorter.
LEMMA AdvanceIs ==
    ASSUME Core, NEW t \in Tasks, Taking(t), NEW last \in Onward, ~Takes(t, last), NEW f \in [Slots -> Doc],
           Advance(t, last, f)
    PROVE  /\ pc'[t] = (IF rest[t] = {NextPosition(t)} THEN last ELSE "item")
           /\ seen'[t] = Nothing /\ todo'[t] = {} /\ found'[t] = f
           /\ rest'[t] = rest[t] \ {NextPosition(t)} /\ rest' = [rest EXCEPT ![t] = rest'[t]]
           /\ LoopOk(t, pc'[t], rest'[t])
           /\ Going(t, {last, "item"}) /\ {last, "item"} \subseteq Onward /\ pc[t] \notin Ended
           /\ pc' = [pc EXCEPT ![t] = pc'[t]] /\ seen' = [seen EXCEPT ![t] = seen'[t]]
           /\ todo' = [todo EXCEPT ![t] = todo'[t]] /\ found' = [found EXCEPT ![t] = found'[t]]
<1>0. TypeOK
  BY DEF Core
<1>. DEFINE stage == IF rest[t] = {NextPosition(t)} THEN last ELSE "item"
            i == NextPosition(t)
<1>1. Goto(t, stage, Nothing, {}, f) /\ rest' = [rest EXCEPT ![t] = @ \ {i}]
  BY DEF Advance
<1>2. rest[t] \subseteq DOMAIN call[t].keys /\ i \in rest[t] /\ ~TooLong(t)
  BY NextIs
<1>3. stage \in {last, "item"} /\ (stage # last => rest[t] \ {i} # {})
  BY <1>2
<1>. HIDE DEF stage, i
<1>4. /\ pc'[t] = stage /\ seen'[t] = Nothing /\ todo'[t] = {} /\ found'[t] = f
      /\ pc' = [pc EXCEPT ![t] = pc'[t]] /\ seen' = [seen EXCEPT ![t] = seen'[t]]
      /\ todo' = [todo EXCEPT ![t] = todo'[t]] /\ found' = [found EXCEPT ![t] = found'[t]]
  BY <1>0, <1>1, GotoIs
<1>5. rest'[t] = rest[t] \ {i} /\ rest' = [rest EXCEPT ![t] = rest'[t]]
  BY <1>0, <1>1 DEF TypeOK
<1>6. LoopOk(t, stage, rest[t] \ {i})
  BY <1>2, <1>3 DEF LoopOk, Taking, Takes
<1>7. Going(t, {last, "item"})
  <2>1. Nothing \in [Slots -> Doc] /\ {} \in SUBSET Slots
    BY <1>0, DbIs
  <2>. QED  BY <1>1, <1>3, <2>1 DEF Going
<1>8. {last, "item"} \subseteq Onward /\ pc[t] \notin Ended
  BY DEF Onward, Stages, Ended, Taking, Takes
<1>. QED  BY <1>4, <1>5, <1>6, <1>7, <1>8 DEF stage, i

\* A call is turned down,
LEMMA RefuseLegal ==
    ASSUME Core, NEW t \in Tasks, NEW bounded, LocalRefuse(t, bounded), UNCHANGED <<backend, call>>
    PROVE  Legal(t)
<1>1. Quiet(t) /\ rest' = rest /\ names' = names /\ db' = db /\ pc[t] = "begin"
  BY PlainQuiet, DropsIs DEF LocalRefuse, LocalPlain, Ended, Core
<1>. QED  BY <1>1, ReturnLegal DEF LocalRefuse

\* begins its loop,
LEMMA LoopIs ==
    ASSUME Core, NEW t \in Tasks, Doing(t, KeyValue), NEW last, Loop(t, last)
    PROVE  /\ pc'[t] = (IF call[t].keys = <<>> THEN last ELSE "item")
           /\ seen'[t] = Nothing /\ todo'[t] = {} /\ found'[t] = Nothing
           /\ rest'[t] = DOMAIN call[t].keys /\ rest' = [rest EXCEPT ![t] = rest'[t]]
           /\ call[t].keys # <<>> => DOMAIN call[t].keys # {}
           /\ call[t].keys = <<>> => DOMAIN call[t].keys = {}
           /\ pc' = [pc EXCEPT ![t] = pc'[t]] /\ seen' = [seen EXCEPT ![t] = seen'[t]]
           /\ todo' = [todo EXCEPT ![t] = todo'[t]] /\ found' = [found EXCEPT ![t] = found'[t]]
<1>0. TypeOK
  BY DEF Core
<1>. DEFINE stage == IF call[t].keys = <<>> THEN last ELSE "item"
<1>1. Goto(t, stage, Nothing, {}, Nothing) /\ rest' = [rest EXCEPT ![t] = DOMAIN call[t].keys]
  BY DEF Loop
<1>. HIDE DEF stage
<1>2. /\ pc'[t] = stage /\ seen'[t] = Nothing /\ todo'[t] = {} /\ found'[t] = Nothing
      /\ pc' = [pc EXCEPT ![t] = pc'[t]] /\ seen' = [seen EXCEPT ![t] = seen'[t]]
      /\ todo' = [todo EXCEPT ![t] = todo'[t]] /\ found' = [found EXCEPT ![t] = found'[t]]
  BY <1>0, <1>1, GotoIs
<1>3. rest'[t] = DOMAIN call[t].keys /\ rest' = [rest EXCEPT ![t] = rest'[t]]
  BY <1>0, <1>1 DEF TypeOK
<1>4. call[t].keys \in Seq({s[2] : s \in Slots} \cup LongKeys)
  BY <1>0, CallFacts
<1>5. ASSUME NEW S, NEW q \in Seq(S)
      PROVE  (q # <<>> => DOMAIN q # {}) /\ (q = <<>> => DOMAIN q = {})
  <2>1. Len(q) \in Nat /\ DOMAIN q = 1 .. Len(q) /\ (q # <<>> => Len(q) # 0)
    BY EmptySeq
  <2>2. Len(q) # 0 => 1 \in 1 .. Len(q)
    BY <2>1
  <2>. QED  BY <2>1, <2>2
<1>. QED  BY <1>2, <1>3, <1>4, <1>5 DEF stage

LEMMA LoopLegal ==
    ASSUME Core, NEW t \in Tasks, Doing(t, KeyValue), ~TooLong(t), pc[t] = "begin",
           NEW last \in Onward, ~Takes(t, last), Loop(t, last), db' = db, UNCHANGED <<backend, call, alien, lock, now, names>>
    PROVE  Legal(t)
<1>0. TypeOK
  BY DEF Core
<1>1. /\ pc'[t] = (IF call[t].keys = <<>> THEN last ELSE "item")
      /\ seen'[t] = Nothing /\ todo'[t] = {} /\ found'[t] = Nothing
      /\ rest'[t] = DOMAIN call[t].keys /\ rest' = [rest EXCEPT ![t] = rest'[t]]
      /\ call[t].keys # <<>> => DOMAIN call[t].keys # {}
      /\ pc' = [pc EXCEPT ![t] = pc'[t]] /\ seen' = [seen EXCEPT ![t] = seen'[t]]
      /\ todo' = [todo EXCEPT ![t] = todo'[t]] /\ found' = [found EXCEPT ![t] = found'[t]]
  BY LoopIs
<1>2. Moves(t)
  BY <1>0, <1>1 DEF Moves, TypeOK
<1>3. \A i : Writable(t, i)' => Writable(t, i)
  BY DEF Writable, Doing
<1>4. pc'[t] \in Onward
  BY <1>1 DEF Onward, Stages, Ended
<1>5. Ordered(t) /\ Effect(t)
  BY <1>0, <1>3, <1>4, DbIs DEF Ordered, Effect, Onward, Ended
<1>6. Typed(t)
  <2>1. Nothing \in [Slots -> Doc] /\ names'[t] \subseteq Collections /\ alien' \subseteq Collections
        /\ lock' \in Tasks \cup {NoTask}
    BY <1>0, DbIs DEF TypeOK
  <2>2. pc'[t] \in Stages
    BY <1>4 DEF Onward
  <2>. QED  BY <1>1, <2>1, <2>2 DEF Typed
<1>7. LoopsTyped(t)'
  <2>1. LoopOk(t, pc'[t], rest'[t])
    BY <1>1 DEF LoopOk
  <2>. QED  BY <2>1, CarriedOver
<1>. QED  BY <1>2, <1>5, <1>6, <1>7 DEF Legal

\* reads what the next key has,
LEMMA ReadNextIs ==
    ASSUME Core, NEW t \in Tasks, Taking(t), ReadNext(t)
    PROVE  \/ Return(t, "error") /\ rest' = rest
           \/ \E f \in [Slots -> Doc] :
                /\ Advance(t, "ok", f)
                /\ f = IF Live(db[NextSlot(t)]) THEN [found[t] EXCEPT ![NextSlot(t)] = db[NextSlot(t)]] ELSE found[t]
<1>1. found[t] \in [Slots -> Doc] /\ db \in [Slots -> Doc] /\ NextSlot(t) \in Slots
  BY NextIs, DbIs DEF Core
<1>. QED  BY <1>1 DEF ReadNext, Finding

LEMMA ReadNextLegal ==
    ASSUME Core, NEW t \in Tasks, ~Doing(t, Writes), Taking(t), ReadNext(t), UNCHANGED <<backend, call>>, LocalPlain
    PROVE  Legal(t)
<1>0. TypeOK /\ "ok" \in Onward /\ ~Takes(t, "ok") /\ pc[t] \notin Ended /\ Drops /\ db' = db
  BY DropsIs DEF Core, Onward, Stages, Ended, Takes, Taking, ReadNext
<1>1. CASE Return(t, "error") /\ rest' = rest
  BY <1>0, <1>1, PlainQuiet, ReturnLegal DEF LocalPlain
<1>2. CASE \E f \in [Slots -> Doc] : Advance(t, "ok", f)
  <2>1. PICK f \in [Slots -> Doc] : Advance(t, "ok", f)
    BY <1>2
  <2>2. LoopOk(t, pc'[t], rest'[t]) /\ Going(t, Onward) /\ rest' = [rest EXCEPT ![t] = rest'[t]]
    BY <1>0, <2>1, AdvanceIs DEF Going
  <2>3. Quiet(t)
    BY <1>0, <2>2 DEF Quiet, Looping, LocalPlain, Core, TypeOK
  <2>. QED  BY <2>2, <2>3, QuietLegal
<1>. QED  BY <1>1, <1>2, ReadNextIs

\* goes on to the next key, having removed this one's entry, or not,
LEMMA PassLegal ==
    ASSUME Core, NEW t \in Tasks, ~Doing(t, Writes), Taking(t), NEW last \in Onward, ~Takes(t, last),
           NEW f \in [Slots -> Doc], Advance(t, last, f), Drops, UNCHANGED <<backend, call>>, LocalPlain
    PROVE  Legal(t)
<1>1. LoopOk(t, pc'[t], rest'[t]) /\ Going(t, Onward) /\ rest' = [rest EXCEPT ![t] = rest'[t]] /\ pc[t] \notin Ended
  BY AdvanceIs DEF Going
<1>2. Quiet(t)
  BY <1>1 DEF Quiet, Looping, LocalPlain, Core, TypeOK
<1>. QED  BY <1>1, <1>2, QuietLegal

LEMMA RemoveNextIs ==
    ASSUME Core, NEW t \in Tasks, Taking(t), RemoveNext(t)
    PROVE  \E f \in [Slots -> Doc] :
              /\ Advance(t, "ok", f) /\ db' = Without({NextSlot(t)})
              /\ f = IF Present(db[NextSlot(t)]) THEN [found[t] EXCEPT ![NextSlot(t)] = db[NextSlot(t)]] ELSE found[t]
<1>1. found[t] \in [Slots -> Doc] /\ db \in [Slots -> Doc] /\ NextSlot(t) \in Slots
  BY NextIs, DbIs DEF Core
<1>. QED  BY <1>1 DEF RemoveNext, Finding

LEMMA RemoveNextLegal ==
    ASSUME Core, NEW t \in Tasks, ~Doing(t, Writes), Taking(t), RemoveNext(t), UNCHANGED <<backend, call>>, LocalPlain
    PROVE  Legal(t)
<1>0. "ok" \in Onward /\ ~Takes(t, "ok") /\ TypeOK
  BY DEF Core, Onward, Stages, Ended, Takes
<1>1. PICK f \in [Slots -> Doc] : Advance(t, "ok", f) /\ db' = Without({NextSlot(t)})
  BY RemoveNextIs
<1>. QED  BY <1>0, <1>1, DropsIs, PassLegal

\* or stores its item, torn or not, or leaves it.
ItemFor(t, e, s) ==
    \/ e \in {db[s], Empty}
    \/ e \in Doc /\ e.writer = <<t, NextPosition(t)>> /\ (Torn(e) => backend = "filetree" /\ e.expires = NoExpiry)

LEMMA StoreNextLegal ==
    ASSUME Core, NEW t \in Tasks, Doing(t, Writes), Taking(t), backend # "null", NEW last \in Onward, ~Takes(t, last),
           NEW e, ItemFor(t, e, NextSlot(t)), db' = [db EXCEPT ![NextSlot(t)] = e],
           Advance(t, last, found[t]), UNCHANGED <<backend, call>>, LocalPlain
    PROVE  Legal(t)
<1>0. TypeOK /\ found[t] \in [Slots -> Doc] /\ db \in [Slots -> Doc] /\ Empty \in Doc /\ pc[t] \in {"item", "writing", "expiring"}
  BY DbIs DEF Core, Taking, Takes
<1>1. /\ pc'[t] = (IF rest[t] = {NextPosition(t)} THEN last ELSE "item")
      /\ seen'[t] = Nothing /\ todo'[t] = {} /\ found'[t] = found[t]
      /\ rest'[t] = rest[t] \ {NextPosition(t)} /\ rest' = [rest EXCEPT ![t] = rest'[t]]
      /\ LoopOk(t, pc'[t], rest'[t]) /\ pc[t] \notin Ended
      /\ pc' = [pc EXCEPT ![t] = pc'[t]] /\ seen' = [seen EXCEPT ![t] = seen'[t]]
      /\ todo' = [todo EXCEPT ![t] = todo'[t]] /\ found' = [found EXCEPT ![t] = found'[t]]
  BY <1>0, AdvanceIs
<1>2. NextSlot(t) \in Target(t) /\ NextSlot(t) \in Slots /\ NextPosition(t) \in Positions(t, NextSlot(t)) /\ NextPosition(t) \in rest[t]
  BY NextIs
<1>. PICK i, s : i = NextPosition(t) /\ s = NextSlot(t)
  OBVIOUS
<1>3. Moves(t)
  BY <1>0, <1>1 DEF Moves, LocalPlain, TypeOK
<1>4. Writable(t, i)
  BY <1>0, <1>2 DEF Writable, Taking, Takes, Doing, Writes, LocalReads
<1>5. ItemFor(t, e, s) /\ db' = [db EXCEPT ![s] = e] /\ rest'[t] = rest[t] \ {i} /\ s \in Target(t) /\ s \in Slots
      /\ i \in Positions(t, s) /\ i \in rest[t] /\ (pc'[t] = "item" \/ rest[t] = {i}) /\ pc'[t] \in Onward
  BY <1>1, <1>2 DEF Onward, Stages, Ended
<1>6. \A j : Writable(t, j)' => Writable(t, j) /\ j # i
  <2>1. ASSUME NEW j, Writable(t, j)' PROVE j \in rest'[t]
    BY <1>5, <2>1 DEF Writable, Onward
  <2>2. pc[t] \in {"item", "writing"} /\ t \in Tasks /\ Doing(t, Writes)
    BY DEF Taking, Takes, Doing, Writes, LocalReads
  <2>. QED  BY <1>5, <2>1, <2>2 DEF Writable
<1>7. Ordered(t)
  BY <1>1, <1>5, <1>6 DEF Ordered, LocalPlain, Onward
<1>8. Effect(t)
  <2>1. db' \in [Slots -> Doc] /\ \A r \in Slots : db'[r] = IF r = s THEN e ELSE db[r]
    BY <1>0, <1>5 DEF ItemFor
  <2>2. e \notin {db[s], Empty} => e.writer = <<t, i>> /\ (Torn(e) => backend = "filetree" /\ e.expires = NoExpiry)
    BY <1>5 DEF ItemFor
  <2>3. Writable(t, i) /\ ~Writable(t, i)'
    BY <1>4, <1>6
  <2>4. (\A r : Torn(db'[r]) <=> Torn(db[r])') /\ db'[s] = e /\ pc'[t] # "invalid"
    BY <1>5, <2>1 DEF Torn, Onward
  <2>. HIDE DEF Writable, Target, Positions, Torn
  <2>. QED  BY <1>5, <2>1, <2>2, <2>3, <2>4 DEF Effect
<1>9. Typed(t)
  <2>1. Nothing \in [Slots -> Doc] /\ names'[t] \subseteq Collections /\ alien' \subseteq Collections
        /\ lock' \in Tasks \cup {NoTask}
    BY <1>0, DbIs DEF TypeOK, LocalPlain
  <2>2. pc'[t] \in Stages
    BY <1>5 DEF Onward
  <2>. QED  BY <1>0, <1>1, <2>1, <2>2 DEF Typed
<1>10. LoopsTyped(t)'
  BY <1>1, CarriedOver
<1>. QED  BY <1>3, <1>7, <1>8, <1>9, <1>10 DEF Legal
\* The item that is next.
LEMMA NextDocIs ==
    ASSUME Core, NEW t \in Tasks, Taking(t)
    PROVE  /\ NewDoc(t, NextPosition(t), since[t]) \in Doc
           /\ NewDoc(t, NextPosition(t), since[t]).writer = <<t, NextPosition(t)>>
           /\ Present(NewDoc(t, NextPosition(t), since[t])) /\ NewDoc(t, NextPosition(t), since[t]).sound
           /\ \A s : ItemFor(t, NewDoc(t, NextPosition(t), since[t]), s)
<1>1. NextPosition(t) \in DOMAIN call[t].keys /\ since[t] \in Nat /\ TypeOK
  <2>1. NextPosition(t) \in DOMAIN call[t].keys
    BY NextIs
  <2>2. TypeOK
    BY DEF Core
  <2>3. since[t] \in Nat
    BY <2>2, BoundsAssumption DEF TypeOK
  <2>. QED  BY <2>1, <2>2, <2>3
<1>2. /\ NewDoc(t, NextPosition(t), since[t]) \in Doc
      /\ NewDoc(t, NextPosition(t), since[t]).writer = <<t, NextPosition(t)>>
      /\ Present(NewDoc(t, NextPosition(t), since[t]))
  BY <1>1, NewDocIs
<1>3. NewDoc(t, NextPosition(t), since[t]).sound
  BY DEF NewDoc
<1>. QED  BY <1>2, <1>3 DEF ItemFor, Torn

\* RocksDB's guess at what is there.
LEMMA MayExistIs ==
    ASSUME Core, NEW t \in Tasks, Taking(t), RocksMayExist(t)
    PROVE  \E f \in [Slots -> Doc] : Advance(t, "writing", f)
<1>1. found[t] \in [Slots -> Doc] /\ db \in [Slots -> Doc] /\ NextSlot(t) \in Slots
  BY NextIs, DbIs DEF Core
<1>2. [Empty EXCEPT !.writer = <<t, 0>>] \in Doc /\ Empty \in Doc
  BY DEF Empty, Doc, NoExpiry
<1>. QED  BY <1>1, <1>2 DEF RocksMayExist

\* A read of all its keys at once.
LEMMA FetchGoing ==
    ASSUME TypeOK, NEW t \in Tasks, NEW decoded, Fetch(t, decoded)
    PROVE  Going(t, {"ok", "expiring", "error"})
<1>1. [s \in Slots |-> IF s \in LiveOf(Target(t)) THEN db[s] ELSE found[t][s]] \in [Slots -> Doc]
  BY DbIs
<1>2. ExpiredOf(Target(t)) \in SUBSET Slots /\ Of(Target(t)) \in [Slots -> Doc]
  BY DbIs
<1>3. Return(t, "error") \/ Goto(t, IF ExpiredOf(Target(t)) = {} THEN "ok" ELSE "expiring", Of(Target(t)), ExpiredOf(Target(t)),
           [s \in Slots |-> IF s \in LiveOf(Target(t)) THEN db[s] ELSE found[t][s]])
  BY DEF Fetch
<1>. QED  BY <1>1, <1>2, <1>3, GoingTo
\* A listing passes a place.
TakesIn(t, s, f) ==
    f = IF Cardinality({r \in Slots : Present(found[t][r])}) < call[t].limit /\ Present(db[s])
          THEN [found[t] EXCEPT ![s] = db[s]] ELSE found[t]

LEMMA ListNextIs ==
    ASSUME TypeOK, NEW t \in Tasks, NEW s \in todo[t], ListNext(t, s)
    PROVE  \E stage \in {"ok", "listing"}, f \in [Slots -> Doc] :
              /\ Goto(t, stage, Nothing, todo[t] \ {s}, f) /\ (stage = "ok" => todo[t] = {s})
              /\ TakesIn(t, s, f)
              /\ Nothing \in [Slots -> Doc] /\ todo[t] \ {s} \in SUBSET Slots
<1>1. found[t] \in [Slots -> Doc] /\ db \in [Slots -> Doc] /\ s \in Slots /\ Nothing \in [Slots -> Doc]
      /\ todo[t] \ {s} \in SUBSET Slots
  BY DbIs
<1>. DEFINE room == Cardinality({r \in Slots : Present(found[t][r])}) < call[t].limit
<1>2. Goto(t, IF todo[t] = {s} THEN "ok" ELSE "listing", Nothing, todo[t] \ {s},
         IF room /\ Present(db[s]) THEN [found[t] EXCEPT ![s] = db[s]] ELSE found[t])
  BY DEF ListNext, Finding
<1>. HIDE DEF room
<1>3. (IF room /\ Present(db[s]) THEN [found[t] EXCEPT ![s] = db[s]] ELSE found[t]) \in [Slots -> Doc]
  BY <1>1
<1>4. \E stage \in {"ok", "listing"}, f \in [Slots -> Doc] :
              /\ Goto(t, stage, Nothing, todo[t] \ {s}, f) /\ (stage = "ok" => todo[t] = {s})
              /\ f = IF room /\ Present(db[s]) THEN [found[t] EXCEPT ![s] = db[s]] ELSE found[t]
  BY <1>2, <1>3
<1>. QED  BY <1>1, <1>4 DEF room, TakesIn

-----------------------------------------------------------------------------
(* The backends *)

\* A call that stores all its items at once.
LEMMA StoreAllLegal ==
    ASSUME Core, NEW t \in Tasks, Doing(t, Writes), pc[t] = "begin", backend # "null",
           db' = Stored(Target(t), Prepared(t)), Return(t, "ok"),
           UNCHANGED <<backend, call, rest, names, alien, lock, now>>
    PROVE  Legal(t)
<1>0. TypeOK
  BY DEF Core
<1>1. pc'[t] = "ok" /\ seen'[t] = Nothing /\ todo'[t] = {} /\ found'[t] = found[t]
  BY <1>0, GoingIs
<1>2. Moves(t)
  BY <1>0, GotoIs DEF Moves, Return, TypeOK
<1>3. \A i : Writable(t, i) /\ ~Writable(t, i)'
  BY <1>1 DEF Writable
<1>4. Ordered(t)
  BY <1>1, <1>3 DEF Ordered, Ended
<1>5. /\ Target(t) \subseteq Slots /\ db' \in [Slots -> Doc]
      /\ \A s \in Slots \ Target(t) : db'[s] = db[s]
      /\ \A s \in Target(t) : db'[s] = NewDoc(t, LastPosition(t, s), now) /\ LastPosition(t, s) \in Positions(t, s)
  <2>1. Target(t) \subseteq Slots
    BY DEF Target
  <2>. QED  BY <1>0, <2>1, StoredFacts, PositionFacts
<1>6. \A i, m : NewDoc(t, i, m).writer = <<t, i>> /\ NewDoc(t, i, m).sound
  BY DEF NewDoc
<1>7. \A s \in Slots : db'[s].sound => ~Torn(db'[s])
  BY DEF Torn
<1>8. Effect(t)
  <2>. HIDE DEF Writable, Target, LastPosition, Positions, NewDoc, Torn
  <2>. QED  BY <1>1, <1>3, <1>5, <1>6, <1>7 DEF Effect
<1>9. Typed(t)
  BY <1>0, <1>1, DbIs DEF Typed, Stages, Ended, TypeOK
<1>10. LoopsTyped(t)'
  <2>1. LoopOk(t, "ok", rest[t])
    BY PlainLoop DEF Takes
  <2>. QED  BY <1>1, <2>1, CarriedOver
<1>. QED  BY <1>2, <1>4, <1>8, <1>9, <1>10 DEF Legal

\* A call whose names bear its collections.
LEMMA NamesQuiet ==
    ASSUME Core, NEW t \in Tasks, pc[t] \notin Ended, Drops, UNCHANGED <<backend, call, rest, alien, lock, now>>,
           NEW N \in SUBSET Collections, names' = [names EXCEPT ![t] = N]
    PROVE  Quiet(t)
<1>1. names'[t] = N /\ Looping(t)
  BY DEF Looping, Core, TypeOK
<1>. QED  BY <1>1, PlainLoop DEF Quiet

LEMMA NullLegal ==
    ASSUME Core, NEW t \in Tasks, NullNext(t), UNCHANGED <<backend, call>>
    PROVE  Legal(t)
<1>1. Quiet(t) /\ rest' = rest /\ names' = names /\ db' = db /\ pc[t] = "begin"
  BY PlainQuiet, DropsIs DEF NullNext, SimpleQuiet, SimpleStep, Ended, Core
<1>2. PICK how \in {"ok", "invalid"} : Return(t, how)
  BY DEF NullNext
<1>. QED  BY <1>1, <1>2, ReturnLegal

LEMMA SimpleLegal ==
    ASSUME Core, NEW t \in Tasks, backend = "simple", SimpleNext(t), UNCHANGED <<backend, call>>
    PROVE  Legal(t)
<1>0. TypeOK /\ made \subseteq Collections /\ (\A S : Of(S) \in [Slots -> Doc]) /\ "ok" \in Onward /\ ~Takes(t, "ok")
  BY DbIs DEF Core, MadeOk, Onward, Stages, Ended, Takes
<1>1. CASE SimpleRefuse(t)
  <2>1. Quiet(t) /\ rest' = rest /\ names' = names /\ db' = db /\ pc[t] = "begin"
    BY <1>0, <1>1, PlainQuiet, DropsIs DEF SimpleRefuse, SimpleQuiet, SimpleStep, At, Ended
  <2>. QED  BY <1>1, <2>1, ReturnLegal DEF SimpleRefuse
<1>2. CASE SimplePut(t) \/ SimplePutMany(t)
  <2>1. /\ Doing(t, Writes) /\ pc[t] = "begin" /\ db' = Stored(Target(t), Prepared(t)) /\ Return(t, "ok")
        /\ UNCHANGED <<rest, names, alien, lock, now>>
    BY <1>2 DEF SimplePut, SimplePutMany, SimpleWrite, SimpleStep, At, Doing, Writes
  <2>. QED  BY <2>1, StoreAllLegal
<1>3. CASE SimpleGet(t) \/ SimpleTtl(t) \/ SimpleGetMany(t) \/ SimpleTtlMany(t) \/ SimpleDelete(t) \/ SimpleDeleteMany(t)
           \/ SimpleKeys(t) \/ SimpleCull(t) \/ SimpleDestroyCollection(t) \/ SimpleDestroy(t)
  <2>1. ~Doing(t, Writes) /\ pc[t] \notin Ended /\ UNCHANGED <<rest, names, alien, lock, now>>
    BY <1>3 DEF SimpleGet, SimpleTtl, SimpleGetMany, SimpleTtlMany, SimpleRead, SimpleDelete, SimpleDeleteMany, SimpleRemove,
        SimpleKeys, SimpleCull, SimpleDestroyCollection, SimpleDestroy, SimpleQuiet, SimpleStep, At, Doing, Writes, Ended
  <2>2. Drops
    BY <1>0, <1>3, DropsIs DEF SimpleGet, SimpleTtl, SimpleGetMany, SimpleTtlMany, SimpleRead, SimpleDelete, SimpleDeleteMany,
        SimpleRemove, SimpleKeys, SimpleCull, SimpleDestroyCollection, SimpleDestroy
  <2>3. (\E S : Answer(t, Of(S))) \/ Return(t, "ok")
    BY <1>3 DEF SimpleGet, SimpleTtl, SimpleGetMany, SimpleTtlMany, SimpleRead, SimpleDelete, SimpleDeleteMany,
        SimpleRemove, SimpleKeys, SimpleCull, SimpleDestroyCollection, SimpleDestroy
  <2>4. Going(t, {"ok"})
    BY <1>0, <2>3, GoingTo
  <2>. QED  BY <1>0, <2>1, <2>2, <2>4, PlainLegal
<1>4. CASE SimpleCollections(t)
  <2>1. PICK N \in Limited(made, call[t].limit) : names' = [names EXCEPT ![t] = N]
    BY <1>4 DEF SimpleCollections
  <2>2. N \in SUBSET Collections
    BY <1>0 DEF Limited
  <2>3. Quiet(t) /\ ~Doing(t, KeyValue)
    BY <1>0, <1>4, <2>1, <2>2, NamesQuiet, DropsIs DEF SimpleCollections, SimpleStep, At, Ended, Doing, KeyValue, LocalReads, Writes, Deletes
  <2>4. Going(t, {"ok"}) /\ rest'[t] \subseteq Collections
    BY <1>0, <1>4, <2>3, GoingTo, PlainLoop DEF SimpleCollections, SimpleStep
  <2>. QED  BY <1>0, <2>3, <2>4, WideLegal
<1>. QED  BY <1>1, <1>2, <1>3, <1>4 DEF SimpleNext

LEMMA KeyringLegal ==
    ASSUME Core, NEW t \in Tasks, backend = "keyring", KeyringNext(t), UNCHANGED <<backend, call>>
    PROVE  Legal(t)
<1>0. /\ TypeOK /\ "ok" \in Onward /\ "expiring" \in Onward /\ ~Takes(t, "ok") /\ Doing(t, KeyValue)
      /\ found[t] \in [Slots -> Doc]
  BY DEF Core, Onward, Stages, Ended, Takes, Supported, Supports, Doing, TypeOK
<1>1. CASE KeyringRefuse(t)
  BY <1>1, RefuseLegal DEF KeyringRefuse
<1>2. CASE KeyringOpen(t)
  BY <1>0, <1>2, LoopLegal DEF KeyringOpen, LocalRejects, LocalPlain
<1>3. CASE KeyringGet(t) \/ KeyringTtl(t) \/ KeyringGetMany(t) \/ KeyringTtlMany(t)
  <2>1. PICK op \in LocalReads : KeyringRead(t, op)
    BY <1>3 DEF KeyringGet, KeyringTtl, KeyringGetMany, KeyringTtlMany, LocalReads
  <2>2. ~Doing(t, Writes) /\ Taking(t) /\ LocalPlain /\ pc[t] \notin Ended
    BY <1>0, <2>1 DEF KeyringRead, At, Doing, LocalReads, Writes, Taking, Takes, Ended
  <2>3. CASE ReadNext(t)
    BY <2>2, <2>3, ReadNextLegal
  <2>4. CASE GoOn(t, "expiring") /\ UNCHANGED rest /\ db' = db
    <3>1. LoopOk(t, "expiring", rest[t]) /\ pc'[t] = "expiring"
      <4>1. LoopOk(t, pc[t], rest[t]) /\ Takes(t, pc[t])
        BY <2>2 DEF Core, LoopsTyped, Taking
      <4>. QED  BY <1>0, <2>4, <4>1, GoingIs DEF LoopOk
    <3>2. Quiet(t) /\ Going(t, Onward)
      BY <1>0, <2>2, <2>4, PlainQuiet, DropsIs, GoingTo DEF LocalPlain
    <3>. QED  BY <2>2, <2>4, <3>1, <3>2, QuietLegal
  <2>5. CASE db' = Without({NextSlot(t)}) /\ Advance(t, "ok", found[t])
    BY <1>0, <2>2, <2>5, PassLegal, DropsIs
  <2>. QED  BY <2>1, <2>3, <2>4, <2>5 DEF KeyringRead
<1>4. CASE KeyringPut(t) \/ KeyringPutMany(t)
  <2>1. PICK op \in Writes : KeyringSet(t, op)
    BY <1>4 DEF KeyringPut, KeyringPutMany, Writes
  <2>2. Doing(t, Writes) /\ Taking(t) /\ LocalPlain
    BY <1>0, <2>1 DEF KeyringSet, At, Doing, Writes, Taking, Takes
  <2>3. ItemFor(t, NewDoc(t, NextPosition(t), since[t]), NextSlot(t))
    BY <1>0, <2>2, NextDocIs
  <2>. QED  BY <1>0, <2>1, <2>2, <2>3, StoreNextLegal DEF KeyringSet
<1>5. CASE KeyringDelete(t) \/ KeyringDeleteMany(t)
  <2>1. ~Doing(t, Writes) /\ Taking(t) /\ LocalPlain /\ RemoveNext(t)
    BY <1>0, <1>5 DEF KeyringDelete, KeyringDeleteMany, At, Doing, Writes, Taking, Takes
  <2>. QED  BY <2>1, RemoveNextLegal
<1>. QED  BY <1>1, <1>2, <1>3, <1>4, <1>5 DEF KeyringNext

LEMMA MemcachedLegal ==
    ASSUME Core, NEW t \in Tasks, backend = "memcached", McNext(t), UNCHANGED <<backend, call>>
    PROVE  Legal(t)
<1>0. /\ TypeOK /\ "ok" \in Onward /\ ~Takes(t, "ok") /\ found[t] \in [Slots -> Doc]
      /\ {"ok", "expiring", "error"} \in SUBSET Onward /\ \A stage \in {"ok", "expiring", "error"} : ~Takes(t, stage)
  BY DEF Core, Onward, Stages, Ended, Takes, TypeOK
<1>1. CASE McRefuse(t)
  BY <1>1, RefuseLegal DEF McRefuse
<1>2. CASE McGet(t) \/ McTtl(t) \/ McGetMany(t) \/ McTtlMany(t)
  <2>1. PICK op \in LocalReads : McFetch(t, op)
    BY <1>2 DEF McGet, McTtl, McGetMany, McTtlMany, LocalReads
  <2>2. ~Doing(t, Writes) /\ pc[t] \notin Ended /\ Drops /\ UNCHANGED <<rest, names, alien, lock, now>>
    BY <1>0, <2>1, DropsIs DEF McFetch, At, Doing, LocalReads, Writes, Ended, LocalPlain
  <2>3. Going(t, {"ok", "expiring", "error"})
    <3>1. CASE Fetch(t, \A s \in Target(t) : db[s].sound)
      BY <1>0, <3>1, FetchGoing
    <3>2. CASE \E s \in todo[t] : Goto(t, IF todo[t] = {s} THEN "ok" ELSE "expiring", Nothing, todo[t] \ {s}, found[t])
      <4>1. PICK s \in todo[t], stage \in {"ok", "expiring", "error"} : Goto(t, stage, Nothing, todo[t] \ {s}, found[t])
        BY <3>2
      <4>2. todo[t] \ {s} \in SUBSET Slots /\ Nothing \in [Slots -> Doc]
        BY <1>0, DbIs DEF TypeOK
      <4>. QED  BY <1>0, <4>1, <4>2, GoingTo
    <3>. QED  BY <2>1, <3>1, <3>2 DEF McFetch
  <2>. QED  BY <1>0, <2>2, <2>3, PlainLegal
<1>3. CASE McOpen(t)
  BY <1>0, <1>3, LoopLegal DEF McOpen, LocalRejects, LocalPlain, At, Doing, KeyValue
<1>4. CASE McPut(t) \/ McPutMany(t)
  <2>1. PICK op \in Writes : McSet(t, op)
    BY <1>4 DEF McPut, McPutMany, Writes
  <2>2. Doing(t, Writes) /\ Taking(t) /\ LocalPlain
    BY <1>0, <2>1 DEF McSet, At, Doing, Writes, Taking, Takes, KeyValue
  <2>3. ItemFor(t, NewDoc(t, NextPosition(t), since[t]), NextSlot(t))
    BY <1>0, <2>2, NextDocIs
  <2>. QED  BY <1>0, <2>1, <2>2, <2>3, StoreNextLegal DEF McSet
<1>5. CASE McDelete(t) \/ McDeleteMany(t)
  <2>1. ~Doing(t, Writes) /\ Taking(t) /\ LocalPlain /\ RemoveNext(t)
    BY <1>0, <1>5 DEF McDelete, McDeleteMany, At, Doing, Writes, Deletes, KeyValue, Taking, Takes
  <2>. QED  BY <2>1, RemoveNextLegal
<1>6. CASE McDestroy(t)
  <2>1. ~Doing(t, Writes) /\ pc[t] \notin Ended /\ Drops /\ UNCHANGED <<rest, names, alien, lock, now>>
    BY <1>0, <1>6, DropsIs DEF McDestroy, At, Doing, Writes, Ended, LocalPlain
  <2>2. Going(t, {"ok", "expiring", "error"})
    BY <1>0, <1>6, GoingTo DEF McDestroy
  <2>. QED  BY <1>0, <2>1, <2>2, PlainLegal
<1>. QED  BY <1>1, <1>2, <1>3, <1>4, <1>5, <1>6 DEF McNext

LEMMA RocksLegal ==
    ASSUME Core, NEW t \in Tasks, backend = "rocksdb", RocksNext(t), UNCHANGED <<backend, call>>
    PROVE  Legal(t)
<1>0. /\ TypeOK /\ found[t] \in [Slots -> Doc] /\ (\A S : Of(S) \in [Slots -> Doc]) /\ ~TooLong(t)
      /\ {"ok", "writing", "error"} \in SUBSET Onward /\ \A stage \in {"ok", "writing", "error"} : ~Takes(t, stage)
  BY DbIs DEF Core, Onward, Stages, Ended, Takes, TypeOK, Supported, KeyBounded
<1>1. CASE RocksRefuse(t)
  BY <1>1, RefuseLegal DEF RocksRefuse
<1>2. CASE RocksOpen(t)
  <2>1. PICK last \in {"ok", "writing"} : Loop(t, last)
    BY <1>2 DEF RocksOpen
  <2>2. last \in Onward /\ ~Takes(t, last) /\ Doing(t, KeyValue) /\ pc[t] = "begin" /\ db' = db /\ UNCHANGED <<alien, lock, now, names>>
    BY <1>0, <1>2 DEF RocksOpen, LocalPlain, At, Doing, KeyValue
  <2>. QED  BY <1>0, <2>1, <2>2, LoopLegal
<1>3. CASE RocksGet(t) \/ RocksTtl(t) \/ RocksGetMany(t) \/ RocksTtlMany(t)
  <2>1. ~Doing(t, Writes) /\ Taking(t) /\ LocalPlain /\ ReadNext(t)
    BY <1>3 DEF RocksGet, RocksTtl, RocksGetMany, RocksTtlMany, At, Doing, Writes, LocalReads, KeyValue, Taking, Takes
  <2>. QED  BY <2>1, ReadNextLegal
<1>4. CASE RocksPut(t) \/ RocksPutMany(t)
  <2>1. /\ Doing(t, Writes) /\ pc[t] = "begin" /\ db' = Stored(Target(t), Prepared(t)) /\ Return(t, "ok")
        /\ UNCHANGED <<rest, names, alien, lock, now>>
    BY <1>4 DEF RocksPut, RocksPutMany, RocksStep, LocalPlain, At, Doing, Writes
  <2>. QED  BY <2>1, StoreAllLegal
<1>5. CASE RocksDelete(t) \/ RocksDeleteMany(t)
  <2>0. ~Doing(t, Writes) /\ pc[t] \in {"item", "writing"} /\ Doing(t, KeyValue)
    BY <1>5 DEF RocksDelete, RocksDeleteMany, RocksDeleteEither, At, Doing, Writes, Deletes, KeyValue
  <2>1. CASE pc[t] = "item"
    <3>0. LocalPlain /\ RocksMayExist(t) /\ Taking(t)
      BY <1>5, <2>0, <2>1 DEF RocksDelete, RocksDeleteMany, RocksDeleteEither, At, Taking, Takes
    <3>1. PICK f \in [Slots -> Doc] : Advance(t, "writing", f)
      BY <1>0, <3>0, MayExistIs
    <3>. QED  BY <1>0, <2>0, <3>0, <3>1, PassLegal, DropsIs DEF RocksMayExist
  <2>2. CASE pc[t] = "writing"
    <3>1. Drops /\ Going(t, {"ok", "writing", "error"}) /\ UNCHANGED <<rest, names, alien, lock, now>> /\ pc[t] \notin Ended
      BY <1>0, <1>5, <2>2, DropsIs, GoingTo DEF RocksDelete, RocksDeleteMany, RocksDeleteEither, At, RocksStep, LocalPlain, Ended
    <3>. QED  BY <1>0, <2>0, <3>1, PlainLegal
  <2>. QED  BY <2>0, <2>1, <2>2
<1>6. CASE RocksMalformed(t) \/ RocksCull(t) \/ RocksKeys(t) \/ RocksDestroyCollection(t)
  <2>1. ~Doing(t, Writes) /\ pc[t] \notin Ended /\ Drops /\ UNCHANGED <<rest, names, alien, lock, now>>
    BY <1>0, <1>6, DropsIs DEF RocksMalformed, RocksCull, RocksKeys, RocksDestroyCollection, RocksBatch, RocksStep, LocalPlain,
        At, Doing, Writes, Ended
  <2>2. Going(t, {"ok", "writing", "error"})
    <3>1. CASE RocksMalformed(t) \/ RocksKeys(t)
      BY <1>0, <3>1, GoingTo DEF RocksMalformed, RocksKeys
    <3>2. CASE \E op, due : due \in SUBSET Slots /\ RocksBatch(t, op, due)
      <4>1. PICK op, due : due \in SUBSET Slots /\ RocksBatch(t, op, due)
        BY <3>2
      <4>2. CASE Return(t, "ok")
        BY <1>0, <4>2, GoingTo
      <4>3. CASE \E stage \in {"ok", "writing"} : Goto(t, stage, Nothing, due, Nothing)
        <5>1. PICK stage \in {"ok", "writing", "error"} : Goto(t, stage, Nothing, due, Nothing)
          BY <4>3
        <5>2. Nothing \in [Slots -> Doc] /\ due \in SUBSET Slots
          BY <1>0, <4>1, DbIs
        <5>. QED  BY <1>0, <5>1, <5>2, GoingTo
      <4>. QED  BY <4>1, <4>2, <4>3 DEF RocksBatch
    <3>3. ExpiredOf(Slots) \in SUBSET Slots /\ {s \in In(call[t].coll) : Present(db[s])} \in SUBSET Slots
      BY DEF ExpiredOf, In
    <3>. QED  BY <1>6, <3>1, <3>2, <3>3 DEF RocksCull, RocksDestroyCollection
  <2>. QED  BY <1>0, <2>1, <2>2, PlainLegal
<1>7. CASE RocksCollections(t)
  <2>1. PICK N \in SUBSET Collections : names' = [names EXCEPT ![t] = N]
    <3>1. {s[1] : s \in {r \in Slots : Present(db[r])}} \subseteq Collections
      BY SlotsAssumption
    <3>. QED  BY <1>7, <3>1 DEF RocksCollections, Limited
  <2>2. Quiet(t) /\ ~Doing(t, KeyValue)
    BY <1>0, <1>7, <2>1, NamesQuiet, DropsIs DEF RocksCollections, serverVars, clientVars, At, Ended, Doing, KeyValue, LocalReads, Writes, Deletes
  <2>3. Going(t, {"ok", "writing", "error"}) /\ rest'[t] \subseteq Collections
    BY <1>0, <1>7, <2>2, GoingTo, PlainLoop DEF RocksCollections
  <2>. QED  BY <1>0, <2>2, <2>3, WideLegal
<1>8. CASE RocksDestroy(t)
  <2>1. ~Doing(t, KeyValue) /\ pc[t] \notin Ended /\ Drops
    BY <1>0, <1>8, DropsIs DEF RocksDestroy, At, Ended, Doing, KeyValue, LocalReads, Writes, Deletes
  <2>2. Quiet(t) /\ rest'[t] \subseteq Collections
    BY <1>0, <1>8, <2>1, PlainLoop DEF RocksDestroy, RocksStep, LocalPlain, clientVars, Quiet
  <2>3. Going(t, {"ok", "writing", "error"})
    <3>1. Return(t, "ok") \/ Goto(t, "writing", Nothing, {s \in Slots : Present(db[s])}, Nothing)
      BY <1>8 DEF RocksDestroy
    <3>2. {s \in Slots : Present(db[s])} \in SUBSET Slots
      OBVIOUS
    <3>. QED  BY <1>0, <3>1, <3>2, GoingTo, DbIs
  <2>. QED  BY <1>0, <2>1, <2>2, <2>3, WideLegal
<1>. QED  BY <1>1, <1>2, <1>3, <1>4, <1>5, <1>6, <1>7, <1>8 DEF RocksNext

LEMMA DiskLegal ==
    ASSUME Core, NEW t \in Tasks, backend = "disk", DiskNext(t), UNCHANGED <<backend, call>>
    PROVE  Legal(t)
<1>0. /\ TypeOK /\ made \subseteq Collections /\ found[t] \in [Slots -> Doc] /\ ~TooLong(t)
      /\ {"ok", "flushing", "listing", "error"} \in SUBSET Onward
      /\ \A stage \in {"ok", "flushing", "listing", "error"} : ~Takes(t, stage)
      /\ {"ok", "checking", "expiring", "dropping", "error"} \in SUBSET Onward
  BY DEF Core, Onward, Stages, Ended, Takes, TypeOK, Supported, KeyBounded, MadeOk
<1>1. CASE DiskRefuse(t)
  BY <1>1, RefuseLegal DEF DiskRefuse
<1>2. CASE DiskOpen(t)
  <2>1. PICK last \in {"ok", "flushing"} : Loop(t, last)
    BY <1>2 DEF DiskOpen
  <2>2. last \in Onward /\ ~Takes(t, last) /\ Doing(t, KeyValue) /\ pc[t] = "begin" /\ db' = db /\ UNCHANGED <<alien, lock, now, names>>
    BY <1>0, <1>2 DEF DiskOpen, DiskOpenTree, At, Doing, KeyValue
  <2>. QED  BY <1>0, <2>1, <2>2, LoopLegal
<1>3. ASSUME pc[t] = "item", Return(t, "error"), UNCHANGED <<db, rest>>, LocalPlain
      PROVE  Legal(t)
  <2>1. Quiet(t) /\ rest' = rest /\ names' = names
    BY <1>0, <1>3, PlainQuiet, DropsIs DEF Ended, LocalPlain
  <2>. QED  BY <1>3, <2>1, ReturnLegal
<1>4. ASSUME NEW op \in KeyValue, At(t, {op}, "item")
      PROVE  Taking(t) /\ (op \notin Writes => ~Doing(t, Writes)) /\ (op \in Writes => Doing(t, Writes))
  BY <1>4 DEF At, Taking, Takes, Doing
<1>5. CASE DiskGet(t) \/ DiskTtl(t) \/ DiskGetMany(t) \/ DiskTtlMany(t)
  <2>0. PICK op \in LocalReads : DiskItem(t, op, ReadNext(t))
    BY <1>5 DEF DiskGet, DiskTtl, DiskGetMany, DiskTtlMany, LocalReads
  <2>1. /\ At(t, {op}, "item") /\ LocalPlain
        /\ ReadNext(t) \/ (Return(t, "error") /\ UNCHANGED <<db, rest>>)
    BY <2>0 DEF DiskItem
  <2>2. Taking(t) /\ ~Doing(t, Writes)
    BY <1>4, <2>1 DEF LocalReads, KeyValue, Writes
  <2>. QED  BY <1>3, <2>1, <2>2, ReadNextLegal DEF At
<1>6. CASE DiskDelete(t) \/ DiskDeleteMany(t)
  <2>0. PICK op \in Deletes : DiskItem(t, op, RemoveNext(t))
    BY <1>6 DEF DiskDelete, DiskDeleteMany, Deletes
  <2>1. /\ At(t, {op}, "item") /\ LocalPlain
        /\ RemoveNext(t) \/ (Return(t, "error") /\ UNCHANGED <<db, rest>>)
    BY <2>0 DEF DiskItem
  <2>2. Taking(t) /\ ~Doing(t, Writes)
    BY <1>4, <2>1 DEF Deletes, KeyValue, Writes
  <2>. QED  BY <1>3, <2>1, <2>2, RemoveNextLegal DEF At
<1>7. CASE DiskPut(t) \/ DiskPutMany(t)
  <2>0. PICK op \in Writes : DiskItem(t, op, DiskInsert(t)) \/ DiskFlush(t, op)
    BY <1>7 DEF DiskPut, DiskPutMany, Writes
  <2>1. \/ /\ At(t, {op}, "item") /\ LocalPlain
           /\ DiskInsert(t) \/ (Return(t, "error") /\ UNCHANGED <<db, rest>>)
        \/ DiskFlush(t, op)
    BY <2>0 DEF DiskItem
  <2>2. CASE At(t, {op}, "item") /\ LocalPlain /\ Return(t, "error") /\ UNCHANGED <<db, rest>>
    BY <1>3, <2>2 DEF At
  <2>3. CASE At(t, {op}, "item") /\ LocalPlain /\ DiskInsert(t)
    <3>1. Taking(t) /\ Doing(t, Writes)
      BY <1>4, <2>3 DEF KeyValue
    <3>2. ItemFor(t, NewDoc(t, NextPosition(t), since[t]), NextSlot(t)) /\ "flushing" \in Onward /\ ~Takes(t, "flushing")
      BY <1>0, <3>1, NextDocIs
    <3>. QED  BY <1>0, <2>3, <3>1, <3>2, StoreNextLegal DEF DiskInsert
  <2>4. CASE DiskFlush(t, op)
    <3>1. Quiet(t) /\ rest' = rest /\ names' = names
      BY <1>0, <2>4, PlainQuiet, DropsIs DEF DiskFlush, At, Ended, LocalPlain
    <3>. QED  BY <2>4, <3>1, ReturnLegal DEF DiskFlush
  <2>. QED  BY <2>1, <2>2, <2>3, <2>4
<1>8. CASE DiskKeys(t)
  <2>1. ~Doing(t, Writes) /\ pc[t] \notin Ended /\ Drops /\ UNCHANGED <<rest, names, alien, lock, now>>
    BY <1>0, <1>8, DropsIs DEF DiskKeys, DiskOpenTree, LocalPlain, At, Doing, Writes, Ended
  <2>2. Going(t, {"ok", "flushing", "listing", "error"})
    <3>1. CASE Return(t, "error")
      BY <1>0, <3>1, GoingTo
    <3>2. CASE Goto(t, "listing", Nothing, In(call[t].coll), Nothing)
      BY <1>0, <3>2, GoingTo, DbIs
    <3>3. CASE \E s \in todo[t] : ListNext(t, s)
      <4>1. PICK s \in todo[t] : ListNext(t, s)
        BY <3>3
      <4>2. TypeOK /\ s \in todo[t]
        BY <1>0, <4>1
      <4>3. \E stage \in {"ok", "listing"}, f \in [Slots -> Doc] :
              /\ Goto(t, stage, Nothing, todo[t] \ {s}, f) /\ (stage = "ok" => todo[t] = {s})
              /\ TakesIn(t, s, f)
              /\ Nothing \in [Slots -> Doc] /\ todo[t] \ {s} \in SUBSET Slots
        BY <4>1, <4>2, ListNextIs
      <4>. QED  BY <1>0, <4>3, GoingTo
    <3>. QED  BY <1>8, <3>1, <3>2, <3>3 DEF DiskKeys
  <2>. QED  BY <1>0, <2>1, <2>2, PlainLegal
<1>9. ASSUME NEW op \in Whole, Doing(t, {op})
      PROVE  ~Doing(t, KeyValue)
  BY <1>9 DEF Doing, Whole, KeyValue, LocalReads, Writes, Deletes
<1>10. CASE DiskCollections(t)
  <2>1. PICK N \in SUBSET Collections : names' = [names EXCEPT ![t] = N]
    BY <1>0, <1>10 DEF DiskCollections, Limited
  <2>2. Quiet(t) /\ ~Doing(t, KeyValue)
    BY <1>0, <1>9, <1>10, <2>1, NamesQuiet, DropsIs DEF DiskCollections, serverVars, clientVars, At, Ended, Whole
  <2>3. Going(t, {"ok", "checking", "expiring", "dropping", "error"}) /\ rest'[t] \subseteq Collections
    BY <1>0, <1>10, <2>2, GoingTo, PlainLoop DEF DiskCollections
  <2>. QED  BY <1>0, <2>2, <2>3, WideLegal
<1>11. CASE DiskCull(t)
  <2>1. ~Doing(t, KeyValue) /\ pc[t] \notin Ended /\ Drops /\ UNCHANGED <<rest, names, alien, lock, now>>
    BY <1>0, <1>9, <1>11, DropsIs DEF DiskCull, LocalPlain, At, Ended, Whole, clientVars
  <2>2. Quiet(t) /\ rest'[t] \subseteq Collections
    BY <1>0, <2>1, PlainQuiet, PlainLoop
  <2>3. Going(t, {"ok", "checking", "expiring", "dropping", "error"})
    <3>1. ASSUME NEW stage \in {"ok", "checking", "expiring", "dropping", "error"}, NEW o \in [Slots -> Doc],
                 NEW d \in SUBSET Slots, Goto(t, stage, o, d, Nothing)
          PROVE  Going(t, {"ok", "checking", "expiring", "dropping", "error"})
      <4>1. Nothing \in [Slots -> Doc]
        BY <1>0, DbIs
      <4>. QED  BY <3>1, <4>1 DEF Going
    <3>2. CASE Return(t, "error")
      BY <1>0, <3>2, GoingTo
    <3>3. CASE pc[t] = "begin"
      <4>. DEFINE trees == {s \in Slots : s[1] \in made}
      <4>1. PICK stage \in {"ok", "checking", "expiring", "dropping", "error"} : Goto(t, stage, Nothing, trees, Nothing)
        BY <1>11, <3>3 DEF DiskCull, At
      <4>. QED  BY <1>0, <3>1, <4>1, DbIs
    <3>4. CASE pc[t] = "checking" /\ ~Return(t, "error")
      <4>1. PICK s \in todo[t] :
              LET o == [seen[t] EXCEPT ![s] = Of(ExpiredOf({s}))[s]]
                  expired == {r \in Slots : Present(o[r])}
              IN  IF todo[t] # {s} THEN Goto(t, "checking", o, todo[t] \ {s}, Nothing)
                        ELSE Goto(t, IF expired = {} THEN "ok" ELSE "expiring", o, expired, Nothing)
        BY <1>11, <3>4 DEF DiskCull, At
      <4>. DEFINE o == [seen[t] EXCEPT ![s] = Of(ExpiredOf({s}))[s]]
                  expired == {r \in Slots : Present(o[r])}
      <4>2. o \in [Slots -> Doc] /\ todo[t] \ {s} \in SUBSET Slots /\ expired \in SUBSET Slots
        BY <1>0, DbIs
      <4>3. PICK stage \in {"ok", "checking", "expiring", "dropping", "error"}, d \in {todo[t] \ {s}, expired} : Goto(t, stage, o, d, Nothing)
        BY <4>1
      <4>. HIDE DEF o, expired
      <4>. QED  BY <3>1, <4>2, <4>3
    <3>5. CASE pc[t] = "expiring" /\ ~Return(t, "error")
      <4>1. PICK s \in todo[t] : Goto(t, IF todo[t] = {s} THEN "ok" ELSE "expiring", Nothing, todo[t] \ {s}, Nothing)
        BY <1>11, <3>5 DEF DiskCull, At
      <4>2. Nothing \in [Slots -> Doc] /\ todo[t] \ {s} \in SUBSET Slots
        BY <1>0, DbIs
      <4>3. PICK stage \in {"ok", "checking", "expiring", "dropping", "error"} : Goto(t, stage, Nothing, todo[t] \ {s}, Nothing)
        BY <4>1
      <4>. QED  BY <3>1, <4>2, <4>3
    <3>. QED  BY <1>11, <3>2, <3>3, <3>4, <3>5 DEF DiskCull, At
  <2>. QED  BY <1>0, <2>1, <2>2, <2>3, WideLegal
<1>12. CASE DiskDestroyCollection(t) \/ DiskDestroy(t)
  <2>1. ~Doing(t, KeyValue) /\ pc[t] \notin Ended /\ Drops
    BY <1>0, <1>9, <1>12, DropsIs DEF DiskDestroyCollection, DiskDestroy, DiskDrop, At, Ended, Whole
  <2>2. Going(t, {"ok", "checking", "expiring", "dropping", "error"})
    BY <1>0, <1>12, GoingTo DEF DiskDestroyCollection, DiskDestroy, DiskDrop
  <2>3. Quiet(t) /\ rest'[t] \subseteq Collections
    <3>1. /\ rest' = rest \/ rest' = [rest EXCEPT ![t] = {call[t].coll} \cap made] \/ rest' = [rest EXCEPT ![t] = made]
             \/ \E c : rest' = [rest EXCEPT ![t] = @ \ {c}]
          /\ UNCHANGED <<names, alien, lock, now>>
      BY <1>12 DEF DiskDestroyCollection, DiskDestroy, DiskDrop, LocalPlain, clientVars
    <3>2. rest[t] \subseteq Collections
      BY <2>1, PlainLoop
    <3>3. rest' = [rest EXCEPT ![t] = rest'[t]] /\ rest'[t] \subseteq Collections
      BY <1>0, <3>1, <3>2 DEF TypeOK
    <3>. QED  BY <1>0, <2>1, <3>1, <3>3, PlainLoop DEF Quiet, Looping, TypeOK
  <2>. QED  BY <1>0, <2>1, <2>2, <2>3, WideLegal
<1>. QED  BY <1>1, <1>2, <1>5, <1>6, <1>7, <1>8, <1>10, <1>11, <1>12 DEF DiskNext
\* FileTree: an item is opened, or an error.
LEMMA FtPutLegal ==
    ASSUME Core, NEW t \in Tasks, backend = "filetree", NEW op \in Writes, FtPutEither(t, op), UNCHANGED <<backend, call>>
    PROVE  Legal(t)
<1>0. /\ TypeOK /\ found[t] \in [Slots -> Doc] /\ Doing(t, Writes) /\ LocalPlain /\ Taking(t)
      /\ "ok" \in Onward /\ ~Takes(t, "ok") /\ "writing" \in Onward /\ pc[t] \in {"item", "writing"}
  BY DEF Core, TypeOK, FtPutEither, At, Doing, Taking, Takes, KeyValue, Onward, Stages, Ended
<1>1. /\ NewDoc(t, NextPosition(t), since[t]) \in Doc
      /\ NewDoc(t, NextPosition(t), since[t]).writer = <<t, NextPosition(t)>>
      /\ \A s : ItemFor(t, NewDoc(t, NextPosition(t), since[t]), s)
  BY <1>0, NextDocIs
<1>2. /\ FtTorn(NewDoc(t, NextPosition(t), since[t])) \in Doc
      /\ FtTorn(NewDoc(t, NextPosition(t), since[t])).writer = <<t, NextPosition(t)>>
      /\ FtTorn(NewDoc(t, NextPosition(t), since[t])).expires = NoExpiry
  <2>1. ASSUME NEW d \in Doc PROVE FtTorn(d) \in Doc /\ FtTorn(d).writer = d.writer /\ FtTorn(d).expires = NoExpiry
    BY DEF FtTorn, Doc, NoExpiry
  <2>. QED  BY <1>1, <2>1
<1>3. CASE At(t, {op}, "writing") /\ FtWrite(t)
  <2>1. PICK e \in {NewDoc(t, NextPosition(t), since[t]), FtTorn(NewDoc(t, NextPosition(t), since[t])), db[NextSlot(t)], Empty} :
           db' = [db EXCEPT ![NextSlot(t)] = e]
    BY <1>3 DEF FtWrite
  <2>2. ItemFor(t, e, NextSlot(t))
    BY <1>1, <1>2, <2>1 DEF ItemFor
  <2>3. Advance(t, "ok", found[t])
    BY <1>3 DEF FtWrite
  <2>. QED  BY <1>0, <2>1, <2>2, <2>3, StoreNextLegal
<1>4. CASE Return(t, "error") /\ UNCHANGED <<db, rest>>
  <2>1. Quiet(t) /\ rest' = rest /\ names' = names
    BY <1>0, <1>4, PlainQuiet, DropsIs DEF Ended, LocalPlain
  <2>. QED  BY <1>4, <2>1, ReturnLegal
<1>5. CASE /\ At(t, {op}, "item") /\ UNCHANGED rest /\ GoOn(t, "writing")
           /\ db' = [db EXCEPT ![NextSlot(t)] = FtTorn(NewDoc(t, NextPosition(t), since[t]))]
  <2>1. /\ pc'[t] = "writing" /\ seen'[t] = seen[t] /\ todo'[t] = todo[t] /\ found'[t] = found[t]
        /\ pc' = [pc EXCEPT ![t] = pc'[t]] /\ seen' = [seen EXCEPT ![t] = seen'[t]]
        /\ todo' = [todo EXCEPT ![t] = todo'[t]] /\ found' = [found EXCEPT ![t] = found'[t]]
    BY <1>0, <1>5, GotoIs DEF GoOn
  <2>2. Moves(t)
    BY <1>0, <1>5, <2>1 DEF Moves, LocalPlain, TypeOK
  <2>3. NextSlot(t) \in Target(t) /\ NextSlot(t) \in Slots /\ NextPosition(t) \in Positions(t, NextSlot(t)) /\ NextPosition(t) \in rest[t]
    BY <1>0, NextIs
  <2>4. \A j : Writable(t, j) <=> j \in rest[t]
    BY <1>0, <1>5 DEF Writable, At
  <2>5. \A j : Writable(t, j)' => Writable(t, j)
    BY <1>0, <1>5, <2>1, <2>4 DEF Writable
  <2>6. Ordered(t)
    BY <1>0, <2>1, <2>5 DEF Ordered, LocalPlain, Ended
  <2>7. Effect(t)
    <3>. PICK i, s, e : i = NextPosition(t) /\ s = NextSlot(t) /\ e = FtTorn(NewDoc(t, NextPosition(t), since[t]))
      OBVIOUS
    <3>1. /\ db' \in [Slots -> Doc] /\ (\A r \in Slots : db'[r] = IF r = s THEN e ELSE db[r]) /\ e.writer = <<t, i>>
          /\ e.expires = NoExpiry
      BY <1>0, <1>2, <1>5, <2>3 DEF TypeOK
    <3>2. Torn(e)
      BY <1>2, <3>1, TasksAssumption DEF Torn, FtTorn
    <3>3. (\A r : Torn(db'[r]) <=> Torn(db[r])') /\ db'[s] = e /\ s \in Target(t) /\ s \in Slots /\ Writable(t, i) /\ i \in Positions(t, s)
      BY <2>3, <2>4, <3>1 DEF Torn
    <3>. HIDE DEF Writable, Target, Positions, Torn
    <3>. QED  BY <1>0, <2>1, <3>1, <3>2, <3>3 DEF Effect
  <2>8. Typed(t)
    BY <1>0, <2>1 DEF Typed, TypeOK, LocalPlain, Onward
  <2>9. LoopsTyped(t)'
    <3>1. LoopOk(t, pc[t], rest[t]) /\ Takes(t, pc[t])
      BY <1>0 DEF Core, LoopsTyped, Taking
    <3>2. LoopOk(t, pc'[t], rest'[t])
      BY <1>5, <2>1, <3>1 DEF LoopOk
    <3>. QED  BY <3>2, CarriedOver
  <2>. QED  BY <2>2, <2>6, <2>7, <2>8, <2>9 DEF Legal
<1>. QED  BY <1>3, <1>4, <1>5 DEF FtPutEither, FtTruncate

LEMMA FtLegal ==
    ASSUME Core, NEW t \in Tasks, backend = "filetree", FtNext(t), UNCHANGED <<backend, call>>
    PROVE  Legal(t)
<1>0. /\ TypeOK /\ found[t] \in [Slots -> Doc] /\ "ok" \in Onward /\ ~Takes(t, "ok")
      /\ made \subseteq Collections \cup {"base"}
      /\ {"ok", "passing", "removing", "error"} \in SUBSET Onward
      /\ {"ok", "opening", "listing", "error"} \in SUBSET Onward
      /\ \A stage \in {"ok", "opening", "listing", "error"} : ~Takes(t, stage)
      /\ {"ok", "listing", "removing", "base", "error"} \in SUBSET Onward
  BY DEF Core, Onward, Stages, Ended, Takes, TypeOK, MadeOk
<1>1. CASE FtRefuse(t)
  BY <1>1, RefuseLegal DEF FtRefuse
<1>2. CASE FtOpen(t)
  <2>1. Doing(t, KeyValue) /\ ~TooLong(t) /\ pc[t] = "begin" /\ db' = db /\ UNCHANGED <<alien, lock, now, names>> /\ Loop(t, "ok")
    BY <1>2 DEF FtOpen, FtEnsure, At, Doing, KeyValue, LocalRejects
  <2>. QED  BY <1>0, <2>1, LoopLegal
<1>3. CASE FtGet(t) \/ FtTtl(t) \/ FtGetMany(t) \/ FtTtlMany(t)
  <2>1. ~Doing(t, Writes) /\ Taking(t) /\ LocalPlain /\ ReadNext(t)
    BY <1>3 DEF FtGet, FtTtl, FtGetMany, FtTtlMany, At, Doing, Writes, LocalReads, KeyValue, Taking, Takes
  <2>. QED  BY <2>1, ReadNextLegal
<1>4. CASE FtPut(t) \/ FtPutMany(t)
  <2>1. PICK op \in Writes : FtPutEither(t, op)
    BY <1>4 DEF FtPut, FtPutMany, Writes
  <2>. QED  BY <2>1, FtPutLegal
<1>5. CASE FtDelete(t) \/ FtDeleteMany(t)
  <2>1. PICK op \in Deletes : FtDeleteEither(t, op)
    BY <1>5 DEF FtDelete, FtDeleteMany, Deletes
  <2>2. Doing(t, KeyValue) /\ ~Doing(t, Writes) /\ LocalPlain /\ pc[t] \in {"begin", "item"}
    BY <2>1 DEF FtDeleteEither, At, Doing, KeyValue, Deletes, Writes
  <2>3. CASE pc[t] = "begin"
    <3>0. db' = db /\ ~TooLong(t) /\ (Loop(t, "ok") \/ (Return(t, "ok") /\ UNCHANGED rest))
      BY <2>1, <2>3 DEF FtDeleteEither, At, LocalRejects
    <3>1. CASE Loop(t, "ok")
      BY <1>0, <2>2, <2>3, <3>0, <3>1, LoopLegal DEF LocalPlain
    <3>2. CASE Return(t, "ok") /\ UNCHANGED rest
      <4>1. Quiet(t) /\ rest' = rest /\ names' = names
        BY <1>0, <2>2, <2>3, <3>0, <3>2, PlainQuiet, DropsIs DEF Ended, LocalPlain
      <4>. QED  BY <3>2, <4>1, ReturnLegal
    <3>. QED  BY <3>0, <3>1, <3>2
  <2>4. CASE pc[t] = "item"
    <3>1. Taking(t) /\ RemoveNext(t)
      BY <2>1, <2>2, <2>4 DEF FtDeleteEither, At, Taking, Takes
    <3>. QED  BY <2>2, <3>1, RemoveNextLegal
  <2>. QED  BY <2>2, <2>3, <2>4
<1>6. ASSUME NEW op \in Whole, Doing(t, {op})
      PROVE  ~Doing(t, KeyValue)
  BY <1>6 DEF Doing, Whole, KeyValue, LocalReads, Writes, Deletes
<1>7. CASE FtCull(t)
  <2>1. ~Doing(t, KeyValue) /\ pc[t] \notin Ended /\ Drops /\ UNCHANGED <<rest, names, alien, lock, now>>
    BY <1>0, <1>6, <1>7, DropsIs DEF FtCull, LocalPlain, At, Ended, Whole
  <2>2. Quiet(t) /\ rest'[t] \subseteq Collections
    BY <1>0, <2>1, PlainQuiet, PlainLoop
  <2>3. Going(t, {"ok", "passing", "removing", "error"})
    <3>1. CASE \E how \in {"ok", "error"} : Return(t, how)
      BY <1>0, <3>1, GoingTo
    <3>2. ASSUME NEW stage \in {"passing", "removing"}, NEW o \in [Slots -> Doc], NEW d \in SUBSET Slots,
                 Goto(t, stage, o, d, Nothing)
          PROVE  Going(t, {"ok", "passing", "removing", "error"})
      <4>1. Nothing \in [Slots -> Doc] /\ stage \in {"ok", "passing", "removing", "error"}
        BY <1>0, DbIs
      <4>. QED  BY <3>2, <4>1 DEF Going
    <3>3. CASE Goto(t, "passing", Nothing, Slots, Nothing) \/ Goto(t, "passing", Nothing, todo[t], Nothing)
      BY <1>0, <3>3, GoingTo, DbIs
    <3>4. CASE \E s \in todo[t] :
                  IF Present(db[s]) /\ ~db[s].sound THEN Return(t, "error")
                    ELSE Goto(t, IF s \in ExpiredOf(Slots) THEN "removing" ELSE "passing",
                              Of(ExpiredOf({s})), todo[t] \ {s}, Nothing)
      <4>1. PICK s \in todo[t] :
                  \/ Return(t, "error")
                  \/ Goto(t, IF s \in ExpiredOf(Slots) THEN "removing" ELSE "passing",
                              Of(ExpiredOf({s})), todo[t] \ {s}, Nothing)
        BY <3>4
      <4>2. todo[t] \ {s} \in SUBSET Slots /\ Of(ExpiredOf({s})) \in [Slots -> Doc]
        BY <1>0, DbIs
      <4>. DEFINE stage == IF s \in ExpiredOf(Slots) THEN "removing" ELSE "passing"
      <4>3. stage \in {"passing", "removing"}
        OBVIOUS
      <4>4. Return(t, "error") \/ Goto(t, stage, Of(ExpiredOf({s})), todo[t] \ {s}, Nothing)
        BY <4>1
      <4>. HIDE DEF stage
      <4>. QED  BY <3>1, <3>2, <4>2, <4>3, <4>4
    <3>. QED  BY <1>7, <3>1, <3>3, <3>4 DEF FtCull
  <2>. QED  BY <1>0, <2>1, <2>2, <2>3, WideLegal
<1>8. CASE FtKeys(t)
  <2>1. ~Doing(t, Writes) /\ pc[t] \notin Ended /\ Drops /\ UNCHANGED <<rest, names, alien, lock, now>>
    BY <1>0, <1>8, DropsIs DEF FtKeys, FtEnsure, LocalPlain, At, Doing, Writes, Ended
  <2>2. Going(t, {"ok", "opening", "listing", "error"})
    <3>1. CASE Return(t, "error") \/ GoOn(t, "opening")
      BY <1>0, <3>1, GoingTo
    <3>2. CASE Goto(t, "listing", Nothing, In(call[t].coll), Nothing)
      BY <1>0, <3>2, GoingTo, DbIs
    <3>3. CASE \E s \in todo[t] : ListNext(t, s)
      <4>1. PICK s \in todo[t] : ListNext(t, s)
        BY <3>3
      <4>2. TypeOK /\ s \in todo[t]
        BY <1>0, <4>1
      <4>3. \E stage \in {"ok", "listing"}, f \in [Slots -> Doc] :
              /\ Goto(t, stage, Nothing, todo[t] \ {s}, f) /\ (stage = "ok" => todo[t] = {s})
              /\ TakesIn(t, s, f)
              /\ Nothing \in [Slots -> Doc] /\ todo[t] \ {s} \in SUBSET Slots
        BY <4>1, <4>2, ListNextIs
      <4>. QED  BY <1>0, <4>3, GoingTo
    <3>. QED  BY <1>8, <3>1, <3>2, <3>3 DEF FtKeys
  <2>. QED  BY <1>0, <2>1, <2>2, PlainLegal
<1>9. CASE FtCollections(t)
  <2>1. ~Doing(t, KeyValue) /\ pc[t] \notin Ended /\ Drops /\ UNCHANGED <<alien, lock, now>>
    BY <1>0, <1>6, <1>9, DropsIs DEF FtCollections, LocalPlain, serverVars, clientVars, At, Ended, Whole
  <2>2. Going(t, {"ok", "listing", "removing", "base", "error"})
    BY <1>0, <1>9, GoingTo DEF FtCollections
  <2>3. rest' = [rest EXCEPT ![t] = rest'[t]] /\ rest'[t] \subseteq Collections
    <3>1. rest[t] \subseteq Collections
      BY <2>1, PlainLoop
    <3>2. rest' = [rest EXCEPT ![t] = Collections] \/ \E c \in rest[t] : rest' = [rest EXCEPT ![t] = @ \ {c}]
      BY <1>9 DEF FtCollections
    <3>. QED  BY <1>0, <3>1, <3>2 DEF TypeOK
  <2>4. names' = [names EXCEPT ![t] = names'[t]] /\ names'[t] \subseteq Collections
    <3>1. \/ names' = names
          \/ \E c \in rest[t] : \E N \in {names[t], names[t] \cup {c}} : names' = [names EXCEPT ![t] = N]
      <4>1. CASE LocalPlain
        BY <4>1 DEF LocalPlain
      <4>2. CASE \E c \in rest[t] : names' = [names EXCEPT ![t] = IF c \in made THEN FtTake(t, c) ELSE @]
        <5>1. PICK c \in rest[t] : names' = [names EXCEPT ![t] = IF c \in made THEN FtTake(t, c) ELSE @]
          BY <4>2
        <5>. DEFINE N == IF c \in made THEN FtTake(t, c) ELSE names[t]
        <5>2. N \in {names[t], names[t] \cup {c}}
          BY DEF FtTake
        <5>3. names' = [names EXCEPT ![t] = N]
          BY <5>1
        <5>. HIDE DEF N
        <5>. QED  BY <5>2, <5>3
      <4>. QED  BY <1>9, <4>1, <4>2 DEF FtCollections
    <3>2. rest[t] \subseteq Collections /\ names[t] \subseteq Collections /\ names = [names EXCEPT ![t] = names[t]]
      BY <1>0, <2>1, PlainLoop DEF TypeOK
    <3>3. ASSUME NEW N, names' = [names EXCEPT ![t] = N], N \subseteq Collections
          PROVE  names' = [names EXCEPT ![t] = names'[t]] /\ names'[t] \subseteq Collections
      BY <1>0, <3>3 DEF TypeOK
    <3>. QED  BY <3>1, <3>2, <3>3
  <2>5. Quiet(t)
    BY <1>0, <2>1, <2>3, <2>4, PlainLoop DEF Quiet, Looping
  <2>. QED  BY <1>0, <2>1, <2>2, <2>3, <2>5, WideLegal
<1>10. CASE FtDestroyCollection(t) \/ FtDestroy(t)
  <2>1. ~Doing(t, KeyValue) /\ pc[t] \notin Ended /\ Drops
    BY <1>0, <1>6, <1>10, DropsIs DEF FtDestroyCollection, FtDestroy, FtRemoveFile, FtRemoveDirectory, At, Ended, Whole
  <2>2. Going(t, {"ok", "listing", "removing", "base", "error"})
    <3>1. CASE \E s \in todo[t] : Goto(t, pc[t], Nothing, todo[t] \ {s}, Nothing)
      <4>1. PICK s \in todo[t] : Goto(t, pc[t], Nothing, todo[t] \ {s}, Nothing)
        BY <3>1
      <4>2. pc[t] = "removing" \/ Return(t, "ok") \/ Return(t, "error")
                \/ \E stage \in {"ok", "removing", "base"} : GoOn(t, stage) \/ Goto(t, stage, Nothing, In(call[t].coll), Nothing)
                                                                 \/ Goto(t, stage, Nothing, Slots, Nothing)
        BY <1>10 DEF FtDestroyCollection, FtDestroy, At
      <4>3. CASE pc[t] = "removing"
        <5>1. todo[t] \ {s} \in SUBSET Slots /\ Nothing \in [Slots -> Doc]
          BY <1>0, DbIs
        <5>. QED  BY <1>0, <4>1, <4>3, <5>1, GoingTo
      <4>4. CASE \E stage \in {"ok", "removing", "base"} : GoOn(t, stage) \/ Goto(t, stage, Nothing, In(call[t].coll), Nothing)
                                                                 \/ Goto(t, stage, Nothing, Slots, Nothing)
        BY <1>0, <4>4, GoingTo, DbIs
      <4>. QED  BY <1>0, <4>2, <4>3, <4>4, GoingTo
    <3>2. CASE Return(t, "ok") \/ Return(t, "error")
                \/ \E stage \in {"ok", "removing", "base"} : GoOn(t, stage) \/ Goto(t, stage, Nothing, In(call[t].coll), Nothing)
                                                                 \/ Goto(t, stage, Nothing, Slots, Nothing)
      BY <1>0, <3>2, GoingTo, DbIs
    <3>. QED  BY <1>10, <3>1, <3>2 DEF FtDestroyCollection, FtDestroy, FtRemoveFile, FtRemoveDirectory, At
  <2>3. rest' = [rest EXCEPT ![t] = rest'[t]] /\ rest'[t] \subseteq Collections /\ names' = names
        /\ alien' \subseteq Collections /\ UNCHANGED <<lock, now>>
    <3>1. rest[t] \subseteq Collections /\ call[t].coll \in Collections
      BY <1>0, <2>1, PlainLoop, CallFacts
    <3>2. \/ rest' = rest \/ \E C \in SUBSET Collections : rest' = [rest EXCEPT ![t] = C]
          \/ \E c \in rest[t] : rest' = [rest EXCEPT ![t] = @ \ {c}]
      <4>1. \/ rest' = rest \/ rest' = [rest EXCEPT ![t] = {call[t].coll}] \/ rest' = [rest EXCEPT ![t] = made \cap Collections]
            \/ \E c \in rest[t] : rest' = [rest EXCEPT ![t] = @ \ {c}]
        BY <1>10 DEF FtDestroyCollection, FtDestroy, FtRemoveFile, FtRemoveDirectory
      <4>2. {call[t].coll} \in SUBSET Collections /\ made \cap Collections \in SUBSET Collections
        BY <3>1
      <4>. QED  BY <4>1, <4>2
    <3>3. /\ alien' = alien \/ \E c : alien' = alien \ {c}
          /\ UNCHANGED <<names, lock, now>>
      BY <1>10 DEF FtDestroyCollection, FtDestroy, FtRemoveFile, FtRemoveDirectory, LocalPlain, clientVars
    <3>. QED  BY <1>0, <3>1, <3>2, <3>3 DEF TypeOK
  <2>4. Quiet(t)
    BY <1>0, <2>1, <2>3, PlainLoop DEF Quiet, Looping, TypeOK
  <2>. QED  BY <1>0, <2>1, <2>2, <2>3, <2>4, WideLegal
<1>. QED  BY <1>1, <1>2, <1>3, <1>4, <1>5, <1>7, <1>8, <1>9, <1>10 DEF FtNext

-----------------------------------------------------------------------------
(* The invariant holds *)

LEMMA StepLegal ==
    ASSUME Core, NEW t \in Tasks, OwnStep(t)
    PROVE  Legal(t)
<1>1. CASE Fail(t)
  BY <1>1, FailLegal DEF OwnStep
<1>2. CASE BackendStep(t)
  BY <1>2, FtLegal, DiskLegal, RocksLegal, SimpleLegal, NullLegal, KeyringLegal, MemcachedLegal DEF OwnStep, BackendStep
<1>. QED  BY <1>1, <1>2 DEF OwnStep

\* Time passes, or Memcached drops an entry.
Idle ==
    /\ Drops /\ UNCHANGED <<backend, call, made, alien, known, lock>>
    /\ now' \in 0 .. MaxTime /\ now <= now'
    /\ UNCHANGED taskVars /\ \A u \in Tasks : Still(u)

\* A step is one call's, or none's.
Moved(t) == OwnStep(t) /\ Legal(t) /\ \A u \in Tasks \ {t} : Still(u)

LEMMA NextCases ==
    ASSUME Core, Next
    PROVE  Watch /\ (Idle \/ \E t \in Tasks : Moved(t))
<1>0. Watch /\ TypeOK
  BY DEF Next, Core
<1>1. CASE Tick
  <2>1. now' \in 0 .. MaxTime /\ now <= now' /\ Drops
    <3>1. now \in 0 .. MaxTime /\ MaxTime \in Nat /\ now < MaxTime /\ now' = now + 1
      BY <1>0, <1>1, BoundsAssumption DEF Tick, TypeOK
    <3>2. now' \in 0 .. MaxTime /\ now <= now'
      BY <3>1
    <3>. QED  BY <1>0, <1>1, <3>2, DropsIs DEF Tick, serverVars
  <2>. QED  BY <1>0, <1>1, <2>1 DEF Tick, Idle, Still, serverVars, clientVars, taskVars, Next
<1>2. CASE McServerExpires
  <2>2. Drops /\ now <= now
    <3>1. now \in 0 .. MaxTime /\ MaxTime \in Nat
      BY <1>0, BoundsAssumption DEF TypeOK
    <3>2. now <= now
      BY <3>1
    <3>. QED  BY <1>0, <1>2, <3>2, DropsIs DEF McServerExpires
  <2>. QED  BY <1>0, <1>2, <2>2 DEF McServerExpires, Idle, Still, clientVars, taskVars, Next, TypeOK
<1>3. CASE \E t \in Tasks : BackendStep(t) \/ Fail(t)
  <2>1. PICK t \in Tasks : BackendStep(t) \/ Fail(t)
    BY <1>3
  <2>2. OwnStep(t)
    BY <2>1 DEF OwnStep, Next
  <2>3. Legal(t)
    BY <2>2, StepLegal
  <2>. QED  BY <1>0, <2>2, <2>3, MovesOnly DEF Moved, Legal
<1>. QED  BY <1>1, <1>2, <1>3 DEF Next

\* What is not torn, and who has written will not write again.
LEMMA TornAlways ==
    ASSUME NEW d
    PROVE  Torn(d)' <=> Torn(d)
<1>. QED  BY DEF Torn

LEMMA SpentStays ==
    ASSUME Core, Idle \/ \E t \in Tasks : Moved(t), NEW d, Spent(d)
    PROVE  Spent(d)'
<1>. PICK w : w = d.writer
  OBVIOUS
<1>0. UNCHANGED <<backend, call>>
  BY DEF Idle, Moved, OwnStep
<1>1. ASSUME NEW u \in Tasks, Still(u), NEW i, Writable(u, i)'
      PROVE  Writable(u, i)
  BY <1>0, <1>1 DEF Writable, Still, Doing
<1>2. ASSUME Writable(w[1], w[2])'
      PROVE  Writable(w[1], w[2])
  <2>1. CASE Idle
    BY <1>1, <1>2, <2>1 DEF Idle, Writable
  <2>2. ASSUME NEW t \in Tasks, Moved(t)
        PROVE  Writable(w[1], w[2])
    <3>1. (\A i : Writable(t, i)' => Writable(t, i)) /\ \A u \in Tasks \ {t} : Still(u)
      BY <2>2 DEF Moved, Legal, Ordered
    <3>2. w[1] \in Tasks
      BY <1>2 DEF Writable
    <3>3. CASE w[1] = t
      BY <1>2, <3>1, <3>3
    <3>4. CASE w[1] # t
      BY <1>1, <1>2, <3>1, <3>2, <3>4
    <3>. QED  BY <3>3, <3>4
  <2>. QED  BY <2>1, <2>2
<1>3. CASE Torn(d)
  BY <1>0, <1>3, TornAlways DEF Spent
<1>4. CASE ~Torn(d)
  <2>1. ~Writable(w[1], w[2])'
    BY <1>2, <1>4 DEF Spent
  <2>2. ~Torn(d)'
    BY <1>4, TornAlways
  <2>. HIDE DEF Writable, Torn
  <2>. QED  BY <2>1, <2>2 DEF Spent
<1>. QED  BY <1>3, <1>4

\* What a step leaves in a slot.
LEMMA DbBecomes ==
    ASSUME Core, Idle \/ \E t \in Tasks : Moved(t), NEW s \in Slots
    PROVE  /\ db' \in [Slots -> Doc]
           /\ \/ db'[s] \in {db[s], Empty}
              \/ \E t \in Tasks, i \in Nat :
                    /\ Moved(t) /\ Doing(t, Writes) /\ db'[s].writer = <<t, i>> /\ Writable(t, i)
                    /\ IF Torn(db'[s]) THEN backend = "filetree" /\ db'[s].expires = NoExpiry ELSE ~Writable(t, i)'
<1>1. CASE Idle
  BY <1>1 DEF Idle, Drops
<1>2. ASSUME NEW t \in Tasks, Moved(t)
      PROVE  /\ db' \in [Slots -> Doc]
             /\ \/ db'[s] \in {db[s], Empty}
                \/ \E i \in Nat :
                    /\ Doing(t, Writes) /\ db'[s].writer = <<t, i>> /\ Writable(t, i)
                    /\ IF Torn(db'[s]) THEN backend = "filetree" /\ db'[s].expires = NoExpiry ELSE ~Writable(t, i)'
  <2>1. Effect(t) /\ TypeOK
    BY <1>2 DEF Moved, Legal, Core
  <2>2. Positions(t, s) \subseteq Nat
    BY <2>1, KeysNumbered DEF Positions
  <2>. HIDE DEF Writable, Positions, Torn
  <2>. QED  BY <2>1, <2>2 DEF Effect
<1>. QED  BY <1>1, <1>2

\* What has left a slot does not come back.
LEMMA OldStays ==
    ASSUME Core, Idle \/ \E t \in Tasks : Moved(t), NEW s \in Slots, NEW d, Present(d), ~Torn(d), Spent(d), db[s] # d
    PROVE  db'[s] # d /\ Spent(d)'
<1>1. Spent(d)'
  BY SpentStays
<1>2. ASSUME db'[s] = d PROVE FALSE
  <2>1. PICK t \in Tasks, i \in Nat : db'[s].writer = <<t, i>> /\ Writable(t, i)
    <3>. HIDE DEF Writable, Torn
    <3>. QED  BY <1>2, DbBecomes DEF Present
  <2>. QED  BY <1>2, <2>1 DEF Spent
<1>. QED  BY <1>1, <1>2

LEMMA CoreInit ==
    ASSUME Init
    PROVE  Core
<1>1. TypeOK
  <2>1. db \in [Slots -> Doc] /\ alien \subseteq Collections
    BY StoresAssumption DEF Init, StoreInit
  <2>2. Nothing \in [Slots -> Doc] /\ Unwatched \in [Slots -> SUBSET Doc]
    BY DEF Nothing, Empty, Doc, NoExpiry, Unwatched
  <2>. QED  BY <2>1, <2>2, BoundsAssumption DEF Init, StoreInit, TypeOK, Stages
<1>2. \A s \in Slots : db[s].writer[1] = NoTask
  BY StoresAssumption DEF Init, StoreInit
<1>3. DocsSpent
  BY <1>2, TasksAssumption DEF Init, StoreInit, DocsSpent, Spent, Torn, Writable, Nothing, Empty
<1>4. \A t \in Tasks : Supported(t) /\ OwnDocs(t) /\ since[t] <= now
  BY <1>2, TasksAssumption, BoundsAssumption DEF Init, StoreInit, Supported, OwnDocs
<1>5. ASSUME NEW t \in Tasks
      PROVE  LoopsTyped(t) /\ Begun(t)
  BY DEF Init, StoreInit, LoopsTyped, LoopOk, Takes, Begun
<1>6. MadeOk /\ NullEmpty
  <2>1. alien \subseteq Collections /\ made \in MadeFor(backend)
    BY <1>1 DEF Init, TypeOK
  <2>. QED  BY <2>1 DEF MadeOk, MadeFor, NullEmpty, Init
<1>. QED  BY <1>1, <1>3, <1>4, <1>5, <1>6 DEF Core

\* The directories, trees and maps after a step.
LEMMA MadeKept ==
    ASSUME Core, NEW t \in Tasks, OwnStep(t)
    PROVE  MadeOk'
<1>0. TypeOK /\ MadeOk /\ call[t].coll \in Collections /\ backend' = backend /\ rest[t] \in SUBSET (Collections \cup Nat)
  <2>1. TypeOK
    BY DEF Core
  <2>. QED  BY <2>1, CallFacts DEF Core, OwnStep, TypeOK
<1>. USE <1>0
<1>1. CASE made' = made
  BY <1>1 DEF MadeOk
<1>2. CASE backend = "filetree" /\ (made' = made \cup {"base", call[t].coll} \/ made' = {})
  BY <1>2 DEF MadeOk
<1>3. CASE backend = "filetree" /\ \E c \in Collections : made' = made \ {c}
  BY <1>3, BaseAssumption DEF MadeOk
<1>4. CASE backend \in {"disk", "simple"} /\ made' \subseteq Collections
  BY <1>4 DEF MadeOk
<1>5. CASE backend = "filetree" /\ FtNext(t)
  <2>1. CASE FtRefuse(t) \/ FtGet(t) \/ FtTtl(t) \/ FtGetMany(t) \/ FtTtlMany(t)
    BY <1>1, <2>1 DEF FtRefuse, LocalRefuse, FtGet, FtTtl, FtGetMany, FtTtlMany, LocalPlain
  <2>2. CASE FtPut(t) \/ FtPutMany(t) \/ FtDelete(t) \/ FtDeleteMany(t) \/ FtCull(t) \/ FtCollections(t)
    <3>1. made' = made
      BY <2>2 DEF FtPut, FtPutMany, FtPutEither, FtDelete, FtDeleteMany, FtDeleteEither, FtCull, FtCollections, LocalPlain, serverVars
    <3>. QED  BY <1>1, <3>1
  <2>3. CASE FtOpen(t) \/ FtKeys(t)
    <3>1. made' = made \/ made' = made \cup {"base", call[t].coll}
      BY <2>3 DEF FtOpen, FtKeys, FtEnsure, LocalPlain
    <3>. QED  BY <1>1, <1>2, <1>5, <3>1
  <2>4. ASSUME NEW then, FtRemoveFile(t) \/ FtRemoveDirectory(t, then), rest[t] \subseteq Collections
        PROVE  made' = made \/ \E c \in Collections : made' = made \ {c}
    BY <2>4 DEF FtRemoveFile, FtRemoveDirectory, LocalPlain
  <2>5. Doing(t, {"destroy_collection", "destroy"}) => rest[t] \subseteq Collections
    BY PlainLoop DEF Doing, KeyValue, LocalReads, Writes, Deletes
  <2>6. CASE FtDestroyCollection(t)
    <3>1. made' = made \/ \E then : FtRemoveFile(t) \/ FtRemoveDirectory(t, then)
      BY <2>6 DEF FtDestroyCollection, LocalPlain
    <3>2. rest[t] \subseteq Collections
      BY <2>5, <2>6 DEF FtDestroyCollection, At, Doing
    <3>. QED  BY <1>1, <1>3, <1>5, <2>4, <3>1, <3>2
  <2>7. CASE FtDestroy(t)
    <3>1. made' = made \/ made' = {} \/ \E then : FtRemoveFile(t) \/ FtRemoveDirectory(t, then)
      BY <2>7 DEF FtDestroy, LocalPlain
    <3>2. rest[t] \subseteq Collections
      BY <2>5, <2>7 DEF FtDestroy, At, Doing
    <3>. QED  BY <1>1, <1>2, <1>3, <1>5, <2>4, <3>1, <3>2
  <2>. QED  BY <1>5, <2>1, <2>2, <2>3, <2>6, <2>7 DEF FtNext
<1>6. CASE backend = "disk" /\ DiskNext(t)
  <2>0. made \subseteq Collections
    BY <1>6 DEF MadeOk
  <2>1. CASE DiskRefuse(t) \/ DiskGet(t) \/ DiskTtl(t) \/ DiskGetMany(t) \/ DiskTtlMany(t)
    BY <1>1, <2>1 DEF DiskRefuse, LocalRefuse, DiskGet, DiskTtl, DiskGetMany, DiskTtlMany, DiskItem, LocalPlain
  <2>2. CASE DiskPut(t) \/ DiskPutMany(t) \/ DiskDelete(t) \/ DiskDeleteMany(t) \/ DiskCollections(t)
    <3>1. made' = made
      BY <2>2 DEF DiskPut, DiskPutMany, DiskFlush, DiskDelete, DiskDeleteMany, DiskItem, DiskCollections, LocalPlain, serverVars
    <3>. QED  BY <1>1, <3>1
  <2>3. CASE DiskOpen(t) \/ DiskKeys(t)
    <3>1. made' = made \/ made' = made \cup {call[t].coll}
      BY <2>3 DEF DiskOpen, DiskKeys, DiskOpenTree, LocalPlain
    <3>. QED  BY <1>1, <1>4, <1>6, <2>0, <3>1
  <2>4. CASE DiskCull(t)
    <3>1. made' = made \/ \E s \in todo[t] : made' = made \cup {s[1]}
      BY <2>4 DEF DiskCull, LocalPlain
    <3>2. \A s \in todo[t] : s[1] \in Collections
      BY SlotsAssumption DEF TypeOK
    <3>. QED  BY <1>1, <1>4, <1>6, <2>0, <3>1, <3>2
  <2>5. ASSUME NEW op, DiskDrop(t, op), rest[t] \subseteq Collections
        PROVE  made' \subseteq Collections
    BY <2>0, <2>5 DEF DiskDrop
  <2>6. Doing(t, {"destroy_collection", "destroy"}) => rest[t] \subseteq Collections
    BY PlainLoop DEF Doing, KeyValue, LocalReads, Writes, Deletes
  <2>7. CASE DiskDestroyCollection(t)
    <3>1. made' = made \/ DiskDrop(t, "destroy_collection")
      BY <2>7 DEF DiskDestroyCollection, LocalPlain
    <3>2. rest[t] \subseteq Collections
      BY <2>6, <2>7 DEF DiskDestroyCollection, DiskDrop, At, Doing
    <3>. QED  BY <1>1, <1>4, <1>6, <2>5, <3>1, <3>2
  <2>8. CASE DiskDestroy(t)
    <3>1. made' = made \/ DiskDrop(t, "destroy")
      BY <2>8 DEF DiskDestroy, LocalPlain
    <3>2. rest[t] \subseteq Collections
      BY <2>6, <2>8 DEF DiskDestroy, DiskDrop, At, Doing
    <3>. QED  BY <1>1, <1>4, <1>6, <2>5, <3>1, <3>2
  <2>. QED  BY <1>6, <2>1, <2>2, <2>3, <2>4, <2>7, <2>8 DEF DiskNext
<1>7. CASE backend = "simple" /\ SimpleNext(t)
  <2>1. \/ made' = made \/ made' = made \cup {call[t].coll} \/ made' = made \ {call[t].coll} \/ made' = {}
    BY <1>7 DEF SimpleNext, SimpleRefuse, SimpleGet, SimpleTtl, SimpleGetMany, SimpleTtlMany, SimpleRead, SimplePut, SimplePutMany,
        SimpleWrite, SimpleDelete, SimpleDeleteMany, SimpleRemove, SimpleCull, SimpleKeys, SimpleCollections, SimpleDestroyCollection,
        SimpleDestroy, SimpleQuiet
  <2>2. made \subseteq Collections
    BY <1>7 DEF MadeOk
  <2>. QED  BY <1>4, <1>7, <2>1, <2>2
<1>8. CASE backend \notin {"filetree", "disk", "simple"}
  BY <1>8 DEF MadeOk
<1>9. CASE Fail(t)
  BY <1>1, <1>9 DEF Fail, serverVars
<1>. QED  BY <1>5, <1>6, <1>7, <1>8, <1>9 DEF OwnStep, BackendStep

LEMMA CoreNext ==
    ASSUME Core, Next
    PROVE  Core'
<1>0. Watch /\ (Idle \/ \E t \in Tasks : Moved(t)) /\ TypeOK
  BY NextCases DEF Core
<1>1. UNCHANGED <<backend, call>>
  BY DEF Next
<1>2. \A u \in Tasks : (Typed(u) /\ Ordered(u)) \/ Still(u)
  BY <1>0 DEF Idle, Moved, Legal
<1>3. \A u \in Tasks : LoopsTyped(u)' /\ Begun(u)'
  <2>1. ASSUME NEW u \in Tasks, Still(u)
        PROVE  LoopsTyped(u)' /\ Begun(u)'
    <3>1. LoopsTyped(u) /\ Begun(u)
      BY DEF Core
    <3>2. LoopOk(u, pc'[u], rest'[u])
      BY <2>1, <3>1 DEF LoopsTyped, Still
    <3>3. LoopsTyped(u)'
      BY <1>1, <3>2, CarriedOver
    <3>4. Begun(u)'
      BY <2>1, <3>1 DEF Begun, Still
    <3>. QED  BY <3>3, <3>4
  <2>2. ASSUME NEW u \in Tasks, Legal(u)
        PROVE  LoopsTyped(u)' /\ Begun(u)'
    BY <2>2 DEF Legal, Ordered, Begun
  <2>. QED  BY <1>0, <2>1, <2>2 DEF Idle, Moved
<1>4. TypeOK'
  <2>1. backend' \in Backends /\ call' \in [Tasks -> Calls]
    BY <1>0, <1>1 DEF TypeOK
  <2>2. now' \in 0 .. MaxTime /\ db' \in [Slots -> Doc] /\ alien' \subseteq Collections /\ lock' \in Tasks \cup {NoTask}
    BY <1>0 DEF Idle, Drops, Moved, Legal, Typed, Effect, Ordered, TypeOK
  <2>3. \A u \in Tasks : /\ pc'[u] \in Stages /\ seen'[u] \in [Slots -> Doc] /\ found'[u] \in [Slots -> Doc]
                         /\ todo'[u] \in SUBSET Slots /\ names'[u] \in SUBSET Collections
    BY <1>0, <1>2 DEF Typed, Still, TypeOK
  <2>4. \A u \in Tasks : \/ rest'[u] \subseteq Collections
                         \/ rest'[u] \subseteq DOMAIN call[u].keys
    BY <1>1, <1>3 DEF LoopsTyped, LoopOk
  <2>5. \A u \in Tasks : rest'[u] \in SUBSET (Collections \cup Nat)
    <3>1. \A u \in Tasks : DOMAIN call[u].keys \in SUBSET Nat
      BY <1>0, KeysNumbered
    <3>. QED  BY <2>4, <3>1
  <2>6. Domains'
    BY <1>0, DomainsKept DEF Idle, Moved, Legal
  <2>7. since' \in [Tasks -> 0 .. MaxTime] /\ before' \in [Tasks -> [Slots -> Doc]]
        /\ window' \in [Tasks -> [Slots -> SUBSET Doc]]
    <3>1. Nothing \in [Slots -> Doc] /\ Unwatched \in [Slots -> SUBSET Doc] /\ 0 \in 0 .. MaxTime
      BY <1>0, DbIs, BoundsAssumption DEF Unwatched
    <3>. QED  BY <1>0, <2>2, <3>1 DEF Watch, TypeOK
  <2>. QED  BY <1>1, <2>1, <2>2, <2>3, <2>4, <2>5, <2>6, <2>7 DEF TypeOK, Domains
<1>5. DocsSpent'
  <2>0. \A d : d = Empty => Spent(d) /\ Spent(d)'
    BY TasksAssumption DEF Spent, Torn, Writable, Empty
  <2>1. ASSUME NEW s \in Slots PROVE Spent(db[s])'
    <3>. PICK d : d = db'[s]
      OBVIOUS
    <3>1. CASE d = Empty
      BY <2>0, <3>1
    <3>2. CASE d = db[s]
      <4>1. Spent(d)
        BY <3>2 DEF Core, DocsSpent
      <4>. QED  BY <1>0, <4>1, SpentStays
    <3>3. CASE d # db[s] /\ d # Empty
      <4>1. PICK t \in Tasks, i \in Nat : /\ d.writer = <<t, i>>
                /\ IF Torn(d) THEN backend = "filetree" /\ d.expires = NoExpiry ELSE ~Writable(t, i)'
        <5>. HIDE DEF Writable, Torn
        <5>. QED  BY <1>0, <3>3, DbBecomes
      <4>2. Torn(d)' <=> Torn(d)
        BY TornAlways
      <4>3. CASE Torn(d)
        <5>. HIDE DEF Torn, Writable
        <5>. QED  BY <1>1, <4>1, <4>2, <4>3 DEF Spent
      <4>4. CASE ~Torn(d)
        <5>1. ~Writable(d.writer[1], d.writer[2])'
          BY <4>1, <4>4
        <5>. HIDE DEF Torn, Writable
        <5>. QED  BY <4>2, <4>4, <5>1 DEF Spent
      <4>. QED  BY <4>3, <4>4
    <3>. QED  BY <3>1, <3>2, <3>3
  <2>2. ASSUME NEW u \in Tasks, NEW s \in Slots PROVE Spent(before[u][s])'
    <3>1. before'[u][s] \in {db[s], Empty, before[u][s]}
      BY <1>0, WatchFacts, DbIs
    <3>. PICK d : d = before'[u][s]
      OBVIOUS
    <3>3. Spent(d)
      BY <2>0, <3>1 DEF Core, DocsSpent
    <3>. QED  BY <1>0, <3>3, SpentStays
  <2>. QED  BY <2>1, <2>2 DEF DocsSpent
<1>6. ASSUME NEW u \in Tasks PROVE Supported(u)' /\ since'[u] <= now'
  <2>1. Supported(u)'
    BY <1>1 DEF Core, Supported, TooLong, Doing
  <2>2. now <= now' /\ now \in Nat /\ now' \in Nat /\ since[u] \in Nat /\ since[u] <= now
    <3>1. now <= now' \/ now' = now
      BY <1>0 DEF Idle, Moved, Legal, Ordered
    <3>2. now \in Nat /\ now' \in Nat /\ since[u] \in Nat /\ since[u] <= now
      BY <1>0, <1>4, BoundsAssumption DEF TypeOK, Core
    <3>. QED  BY <3>1, <3>2
  <2>. QED  BY <1>0, <2>1, <2>2, WatchFacts
<1>7. ASSUME NEW u \in Tasks PROVE OwnDocs(u)'
  <2>. SUFFICES ASSUME NEW s \in Slots, db'[s].writer[1] = u
                PROVE  /\ Doing(u, Writes) /\ s \in Target(u) /\ pc'[u] \notin {"begin", "invalid"}
                       /\ db'[s].writer[2] \in Positions(u, s)
    BY <1>1 DEF OwnDocs, Doing, Target, Positions
  <2>1. CASE db'[s] = db[s]
    <3>1. OwnDocs(u)
      BY DEF Core
    <3>2. pc'[u] = pc[u] \/ Ordered(u)
      BY <1>2 DEF Still
    <3>. QED  BY <2>1, <3>1, <3>2 DEF OwnDocs, Ordered
  <2>2. CASE db'[s] = Empty
    BY <2>2, TasksAssumption DEF Empty
  <2>3. CASE db'[s] # db[s] /\ db'[s] # Empty
    <3>1. PICK t \in Tasks : Moved(t)
      BY <1>0, <2>3 DEF Idle, Drops
    <3>2. Effect(t) /\ pc'[t] # "begin"
      BY <3>1 DEF Moved, Legal, Ordered
    <3>. HIDE DEF Target, Positions, Torn, Writable
    <3>. QED  BY <2>3, <3>2 DEF Effect
  <2>. QED  BY <2>1, <2>2, <2>3
<1>8. MadeOk' /\ NullEmpty'
  <2>1. MadeOk'
    <3>1. CASE Idle
      BY <1>1, <3>1 DEF Core, MadeOk, Idle
    <3>. QED  BY <1>0, <3>1, MadeKept DEF Moved
  <2>2. ASSUME backend = "null"
        PROVE  db' = Nothing
    <3>1. db = Nothing
      BY <2>2 DEF Core, NullEmpty
    <3>2. \A s \in Slots : db'[s] \in {db[s], Empty}
      <4>1. CASE Idle
        BY <4>1 DEF Idle, Drops
      <4>2. ASSUME NEW t \in Tasks, Moved(t)
            PROVE  \A s \in Slots : db'[s] \in {db[s], Empty}
        BY <2>2, <4>2 DEF Moved, Legal, Effect
      <4>. QED  BY <1>0, <4>1, <4>2
    <3>. QED  BY <1>4, <3>1, <3>2 DEF TypeOK, Nothing
  <2>. QED  BY <1>1, <2>1, <2>2 DEF NullEmpty, Nothing
<1>. QED  BY <1>3, <1>4, <1>5, <1>6, <1>7, <1>8 DEF Core

LEMMA NextLawful ==
    ASSUME Core, Next
    PROVE  Lawful
<1>1. TypeOK /\ Watch /\ UNCHANGED <<backend, call>> /\ (\A t \in Tasks : since[t] <= now) /\ TypeOK'
  BY CoreNext, NextCases DEF Core, Next
<1>2. now <= now'
  <2>1. now <= now' \/ now' = now
    BY NextCases DEF Idle, Moved, Legal, Ordered
  <2>. QED  BY <1>1, <2>1, BoundsAssumption DEF TypeOK
<1>. QED  BY <1>1, <1>2 DEF Lawful, TypeOK

-----------------------------------------------------------------------------
(* Directories, trees and maps hold what there is *)

\* An entry is in a directory, tree or map that is there.
EntriesHoused ==
    backend \in {"filetree", "disk", "simple"} =>
        \A s \in Slots : Present(db[s]) => s[1] \in made

LEMMA Runs ==
    ASSUME Core, NEW t \in Tasks, Moved(t)
    PROVE  Running(t) /\ pc'[t] # "begin" /\ pc[t] \notin Ended /\ UNCHANGED <<backend, call>>
<1>. QED  BY DEF Moved, Legal, Ordered, Running, OwnStep

\* Only writes store.
LEMMA OthersDrop ==
    ASSUME Core, NEW t \in Tasks, Moved(t), ~Doing(t, Writes)
    PROVE  Drops
<1>. QED  BY DEF Moved, Legal, Effect, Drops

\* A step that neither takes a directory away nor stores where there is none,
LEMMA HousedKept ==
    ASSUME EntriesHoused, UNCHANGED backend, backend \in {"filetree", "disk", "simple"},
           \A s \in Slots : Present(db'[s]) => (Present(db[s]) /\ (s[1] \in made => s[1] \in made')) \/ s[1] \in made'
    PROVE  EntriesHoused'
<1>. QED  BY DEF EntriesHoused, Present

\* of the file tree,
LEMMA FtHoused ==
    ASSUME Core, EntriesHoused, NEW t \in Tasks, Moved(t), backend = "filetree", FtNext(t)
    PROVE  EntriesHoused'
<1>0. TypeOK /\ UNCHANGED <<backend, call>> /\ (~Doing(t, Writes) => Drops) /\ ~Present(Empty)
  BY OthersDrop DEF Core, Moved, OwnStep, Present, Drops
<1>1. ASSUME db' = db \/ Drops, made \subseteq made'
      PROVE  EntriesHoused'
  <2>1. \A s \in Slots : Present(db'[s]) => Present(db[s])
    BY <1>0, <1>1 DEF Drops, Present
  <2>. QED  BY <1>0, <1>1, <2>1, HousedKept
<1>2. CASE FtRefuse(t) \/ FtOpen(t)
  <2>1. db' = db /\ made \subseteq made'
    BY <1>2 DEF FtRefuse, LocalRefuse, FtOpen, FtEnsure, LocalPlain
  <2>. QED  BY <1>1, <2>1
<1>3. CASE FtPut(t) \/ FtPutMany(t)
  <2>. PICK op \in Writes : FtPutEither(t, op)
    BY <1>3 DEF FtPut, FtPutMany, Writes
  <2>0. made' = made /\ pc[t] \in {"item", "writing"} /\ Doing(t, {op})
    BY DEF FtPutEither, LocalPlain, At
  <2>1. Taking(t)
    BY <2>0, DbIs DEF Taking, Takes, Doing, Writes, KeyValue
  <2>2. NextSlot(t) \in Slots /\ NextSlot(t)[1] = call[t].coll /\ db \in [Slots -> Doc]
    BY <1>0, <2>1, NextIs DEF NextSlot, TypeOK
  <2>3. CASE FtTruncate(t)
    <3>1. db' = db \/ (call[t].coll \in made /\ \E e : db' = [db EXCEPT ![NextSlot(t)] = e])
      BY <2>3 DEF FtTruncate, FtDirectory
    <3>2. \A s \in Slots : db'[s] = db[s] \/ s[1] \in made
      BY <2>2, <3>1
    <3>. QED  BY <1>0, <2>0, <3>2, HousedKept
  <2>4. CASE FtWrite(t)
    <3>. DEFINE d == NewDoc(t, NextPosition(t), since[t])
    <3>0. d.writer[1] = t /\ t # NoTask /\ Empty.writer[1] = NoTask
      BY <2>1, NextDocIs, TasksAssumption DEF Empty
    <3>1. PICK e : /\ db' = [db EXCEPT ![NextSlot(t)] = e]
                   /\ e \in IF db[NextSlot(t)].writer = d.writer THEN {d}
                            ELSE IF Present(db[NextSlot(t)]) THEN {d, FtTorn(d), db[NextSlot(t)]} ELSE {Empty}
      BY <2>4 DEF FtWrite
    <3>2. e # Empty => Present(db[NextSlot(t)])
      BY <3>0, <3>1 DEF Present
    <3>3. \A s \in Slots : Present(db'[s]) => Present(db[s])
      BY <2>2, <3>1, <3>2 DEF Present
    <3>. QED  BY <1>0, <2>0, <3>3, HousedKept
  <2>. QED  BY <2>3, <2>4 DEF FtPutEither
<1>4. CASE FtGet(t) \/ FtTtl(t) \/ FtGetMany(t) \/ FtTtlMany(t) \/ FtDelete(t) \/ FtDeleteMany(t)
  <2>1. made' = made
    BY <1>4 DEF FtGet, FtTtl, FtGetMany, FtTtlMany, FtDelete, FtDeleteMany, FtDeleteEither, LocalPlain
  <2>2. ~Doing(t, Writes)
    BY <1>4 DEF FtGet, FtTtl, FtGetMany, FtTtlMany, FtDelete, FtDeleteMany, FtDeleteEither, At, Doing, Writes
  <2>. QED  BY <1>0, <1>1, <2>1, <2>2
<1>5. CASE FtCull(t) \/ FtKeys(t) \/ FtCollections(t)
  <2>1. made \subseteq made'
    BY <1>5 DEF FtCull, FtKeys, FtEnsure, FtCollections, LocalPlain, serverVars
  <2>2. ~Doing(t, Writes)
    BY <1>5 DEF FtCull, FtKeys, FtCollections, At, Doing, Writes
  <2>. QED  BY <1>0, <1>1, <2>1, <2>2
<1>6. ASSUME NEW then, FtRemoveFile(t) \/ FtRemoveDirectory(t, then), ~Doing(t, Writes)
      PROVE  EntriesHoused'
  <2>1. CASE made' = made
    BY <1>0, <1>1, <1>6, <2>1
  <2>2. CASE made' # made
    <3>1. PICK c : made' = made \ {c} /\ (\A s \in In(c) : ~Present(db[s])) /\ db' = db
      BY <1>6, <2>2 DEF FtRemoveFile, FtRemoveDirectory, LocalPlain
    <3>2. \A s \in Slots : Present(db'[s]) => Present(db[s]) /\ s[1] # c
      BY <3>1 DEF In
    <3>. QED  BY <1>0, <3>1, <3>2, HousedKept
  <2>. QED  BY <2>1, <2>2
<1>7. CASE FtDestroyCollection(t)
  <2>1. ~Doing(t, Writes)
    BY <1>7 DEF FtDestroyCollection, At, Doing, Writes
  <2>2. made' = made \/ \E then : FtRemoveFile(t) \/ FtRemoveDirectory(t, then)
    BY <1>7 DEF FtDestroyCollection, LocalPlain
  <2>. QED  BY <1>0, <1>1, <1>6, <2>1, <2>2
<1>8. CASE FtDestroy(t)
  <2>1. ~Doing(t, Writes)
    BY <1>8 DEF FtDestroy, At, Doing, Writes
  <2>2. made' = made \/ (made = {"base"} /\ db' = db) \/ \E then : FtRemoveFile(t) \/ FtRemoveDirectory(t, then)
    BY <1>8 DEF FtDestroy, LocalPlain
  <2>3. CASE made = {"base"} /\ db' = db
    <3>1. \A s \in Slots : ~Present(db[s])
      BY <2>3, BaseAssumption, SlotsAssumption DEF EntriesHoused
    <3>. QED  BY <1>0, <2>3, <3>1, HousedKept
  <2>. QED  BY <1>0, <1>1, <1>6, <2>1, <2>2, <2>3
<1>. QED  BY <1>2, <1>3, <1>4, <1>5, <1>7, <1>8 DEF FtNext

\* of the disk store
LEMMA DiskHoused ==
    ASSUME Core, EntriesHoused, NEW t \in Tasks, Moved(t), backend = "disk", DiskNext(t)
    PROVE  EntriesHoused'
<1>0. TypeOK /\ UNCHANGED <<backend, call>> /\ (~Doing(t, Writes) => Drops) /\ ~Present(Empty)
  BY OthersDrop DEF Core, Moved, OwnStep, Present
<1>1. ASSUME db' = db \/ Drops, made \subseteq made'
      PROVE  EntriesHoused'
  <2>1. \A s \in Slots : Present(db'[s]) => Present(db[s])
    BY <1>0, <1>1 DEF Drops, Present
  <2>. QED  BY <1>0, <1>1, <2>1, HousedKept
<1>2. CASE DiskRefuse(t) \/ DiskOpen(t)
  <2>1. db' = db /\ made \subseteq made'
    BY <1>2 DEF DiskRefuse, LocalRefuse, DiskOpen, DiskOpenTree, LocalPlain
  <2>. QED  BY <1>1, <2>1
<1>3. CASE DiskPut(t) \/ DiskPutMany(t)
  <2>. PICK op \in Writes : DiskItem(t, op, DiskInsert(t)) \/ DiskFlush(t, op)
    BY <1>3 DEF DiskPut, DiskPutMany, Writes
  <2>0. made' = made
    BY DEF DiskItem, DiskFlush, LocalPlain
  <2>1. CASE db' = db
    BY <1>1, <2>0, <2>1
  <2>2. CASE db' # db
    <3>1. DiskTree(t) /\ DiskInsert(t) /\ At(t, {op}, "item")
      BY <2>2 DEF DiskItem, DiskFlush, LocalPlain
    <3>2. Taking(t)
      BY <3>1 DEF Taking, Takes, At, Doing, Writes, KeyValue
    <3>3. NextSlot(t) \in Slots /\ NextSlot(t)[1] = call[t].coll /\ db \in [Slots -> Doc]
      BY <1>0, <3>2, NextIs DEF NextSlot, TypeOK
    <3>4. \A s \in Slots : db'[s] = db[s] \/ s[1] \in made
      BY <3>1, <3>3 DEF DiskInsert, DiskTree
    <3>. QED  BY <1>0, <2>0, <3>4, HousedKept
  <2>. QED  BY <2>1, <2>2
<1>4. CASE DiskGet(t) \/ DiskTtl(t) \/ DiskGetMany(t) \/ DiskTtlMany(t) \/ DiskDelete(t) \/ DiskDeleteMany(t)
  <2>1. made' = made
    BY <1>4 DEF DiskGet, DiskTtl, DiskGetMany, DiskTtlMany, DiskDelete, DiskDeleteMany, DiskItem, LocalPlain
  <2>2. ~Doing(t, Writes)
    BY <1>4 DEF DiskGet, DiskTtl, DiskGetMany, DiskTtlMany, DiskDelete, DiskDeleteMany, DiskItem, At, Doing, Writes
  <2>. QED  BY <1>0, <1>1, <2>1, <2>2
<1>5. CASE DiskCull(t) \/ DiskKeys(t) \/ DiskCollections(t)
  <2>1. made \subseteq made'
    BY <1>5 DEF DiskCull, DiskKeys, DiskOpenTree, DiskCollections, LocalPlain, serverVars
  <2>2. ~Doing(t, Writes)
    BY <1>5 DEF DiskCull, DiskKeys, DiskCollections, At, Doing, Writes
  <2>. QED  BY <1>0, <1>1, <2>1, <2>2
<1>6. CASE DiskDestroyCollection(t) \/ DiskDestroy(t)
  <2>1. ~Doing(t, Writes)
    BY <1>6 DEF DiskDestroyCollection, DiskDestroy, DiskDrop, At, Doing, Writes
  <2>2. made' = made \/ \E op : DiskDrop(t, op)
    BY <1>6 DEF DiskDestroyCollection, DiskDestroy, LocalPlain
  <2>3. made \subseteq made' \/ \E c : made' = made \ {c} /\ db' = Without(In(c))
    BY <2>2 DEF DiskDrop
  <2>4. ASSUME NEW c, made' = made \ {c}, db' = Without(In(c))
        PROVE  EntriesHoused'
    <3>1. \A s \in Slots : Present(db'[s]) => Present(db[s]) /\ s[1] # c
      BY <1>0, <2>4, DbIs DEF In
    <3>. QED  BY <1>0, <2>4, <3>1, HousedKept
  <2>. QED  BY <1>0, <1>1, <2>1, <2>3, <2>4
<1>. QED  BY <1>2, <1>3, <1>4, <1>5, <1>6 DEF DiskNext

\* and of the simple store.
LEMMA SimpleHoused ==
    ASSUME Core, EntriesHoused, NEW t \in Tasks, Moved(t), backend = "simple", SimpleNext(t)
    PROVE  EntriesHoused'
<1>0. TypeOK /\ UNCHANGED <<backend, call>> /\ (~Doing(t, Writes) => Drops) /\ ~Present(Empty)
  BY OthersDrop DEF Core, Moved, OwnStep, Present
<1>1. ASSUME db' = db \/ Drops, made' = made
      PROVE  EntriesHoused'
  <2>1. \A s \in Slots : Present(db'[s]) => Present(db[s])
    BY <1>0, <1>1 DEF Drops, Present
  <2>. QED  BY <1>0, <1>1, <2>1, HousedKept
<1>2. CASE SimpleRefuse(t) \/ SimpleGet(t) \/ SimpleTtl(t) \/ SimpleGetMany(t) \/ SimpleTtlMany(t) \/ SimpleKeys(t) \/ SimpleCollections(t)
  <2>1. db' = db /\ made' = made
    BY <1>2 DEF SimpleRefuse, SimpleGet, SimpleTtl, SimpleGetMany, SimpleTtlMany, SimpleRead, SimpleKeys, SimpleCollections, SimpleQuiet
  <2>. QED  BY <1>1, <2>1
<1>3. CASE SimpleDelete(t) \/ SimpleDeleteMany(t) \/ SimpleCull(t)
  <2>1. made' = made
    BY <1>3 DEF SimpleDelete, SimpleDeleteMany, SimpleRemove, SimpleCull, SimpleQuiet
  <2>2. ~Doing(t, Writes)
    BY <1>3 DEF SimpleDelete, SimpleDeleteMany, SimpleRemove, SimpleCull, At, Doing, Writes
  <2>. QED  BY <1>0, <1>1, <2>1, <2>2
<1>4. CASE SimplePut(t) \/ SimplePutMany(t)
  <2>1. db' = Stored(Target(t), Prepared(t)) /\ made' = made \cup {call[t].coll}
    BY <1>4 DEF SimplePut, SimplePutMany, SimpleWrite
  <2>2. \A s \in Slots : db'[s] = db[s] \/ s[1] = call[t].coll
    BY <2>1 DEF Stored, Target
  <2>. QED  BY <1>0, <2>1, <2>2, HousedKept
<1>5. CASE SimpleDestroyCollection(t)
  <2>1. db' = Without(In(call[t].coll)) /\ made' = made \ {call[t].coll}
    BY <1>5 DEF SimpleDestroyCollection
  <2>2. \A s \in Slots : Present(db'[s]) => Present(db[s]) /\ s[1] # call[t].coll
    BY <1>0, <2>1, DbIs DEF In
  <2>. QED  BY <1>0, <2>1, <2>2, HousedKept
<1>6. CASE SimpleDestroy(t)
  <2>1. \A s \in Slots : db'[s] = Empty
    BY <1>0, <1>6, DbIs DEF SimpleDestroy
  <2>. QED  BY <1>0, <2>1, HousedKept
<1>. QED  BY <1>2, <1>3, <1>4, <1>5, <1>6 DEF SimpleNext

LEMMA HousedInit ==
    Init => EntriesHoused
<1>. SUFFICES ASSUME Init, backend \in {"filetree", "disk", "simple"}, NEW s \in Slots, Present(db[s])
              PROVE  s[1] \in made
  BY DEF EntriesHoused
<1>. DEFINE used == alien \cup {c \in Collections : \E r \in In(c) : Present(db[r])}
<1>1. s[1] \in used
  BY SlotsAssumption DEF In
<1>2. used \subseteq made
  BY DEF Init, MadeFor
<1>. QED  BY <1>1, <1>2

LEMMA HousedNext ==
    ASSUME Core, EntriesHoused, Next
    PROVE  EntriesHoused'
<1>0. UNCHANGED backend /\ (Idle \/ \E t \in Tasks : Moved(t))
  BY NextCases DEF Next
<1>1. CASE backend \notin {"filetree", "disk", "simple"}
  BY <1>0, <1>1 DEF EntriesHoused
<1>2. CASE backend \in {"filetree", "disk", "simple"} /\ (Idle \/ \E t \in Tasks : Fail(t))
  <2>1. made' = made /\ \A s \in Slots : db'[s] \in {db[s], Empty}
    BY <1>2 DEF Idle, Drops, Fail, serverVars
  <2>2. \A s \in Slots : Present(db'[s]) => Present(db[s])
    BY <2>1 DEF Present
  <2>. QED  BY <1>0, <1>2, <2>1, <2>2, HousedKept
<1>3. ASSUME NEW t \in Tasks, Moved(t), BackendStep(t), backend \in {"filetree", "disk", "simple"}
      PROVE  EntriesHoused'
  BY <1>3, FtHoused, DiskHoused, SimpleHoused DEF BackendStep
<1>. QED  BY <1>0, <1>1, <1>2, <1>3 DEF Moved, OwnStep

-----------------------------------------------------------------------------
(* Torn files *)

\* A put has its own file before it, or none, or another call's.
FtWriting(t) ==
    backend = "filetree" /\ At(t, Writes, "writing") =>
        LET d == db[NextSlot(t)] IN d = Empty \/ d.writer = <<t, NextPosition(t)>> \/ d.writer[1] \in Tasks \ {t}

\* Another call has set out to write the slot.
Raced(s, w) == \E u \in Tasks \ {w} : Doing(u, Writes) /\ s \in Target(u) /\ pc[u] # "begin"

\* A torn file is one that is being written, or its call has failed or had company.
TornBy(s) ==
    Torn(db[s]) =>
        /\ backend = "filetree"
        /\ LET w == db[s].writer[1] IN
            \/ pc[w] = "writing" /\ s = NextSlot(w) /\ db[s].writer = <<w, NextPosition(w)>>
            \/ pc[w] = "error"
            \/ Raced(s, w)

TearingOk == (\A t \in Tasks : FtWriting(t)) /\ \A s \in Slots : TornBy(s)

\* What a call that does not step is about to do.
LEMMA NextStill ==
    ASSUME NEW t \in Tasks, Still(t), UNCHANGED call
    PROVE  NextSlot(t)' = NextSlot(t) /\ NextPosition(t)' = NextPosition(t)
<1>. QED  BY DEF NextSlot, NextPosition, Still

LEMMA RacedStays ==
    ASSUME Core, Idle \/ \E t \in Tasks : Moved(t), NEW s, NEW w, Raced(s, w)
    PROVE  Raced(s, w)'
<1>1. UNCHANGED call
  BY DEF Idle, Moved, OwnStep
<1>2. \A u \in Tasks : pc[u] # "begin" => pc'[u] # "begin"
  BY DEF Idle, Moved, Still, Legal, Ordered
<1>. QED  BY <1>1, <1>2 DEF Raced, Doing, Target

\* The steps by which the file tree stores.
LEMMA FtStores ==
    ASSUME Core, NEW t \in Tasks, Moved(t), backend = "filetree", Doing(t, Writes), pc[t] \in {"item", "writing"}
    PROVE  \/ Fail(t)
           \/ pc[t] = "item" /\ FtTruncate(t) /\ UNCHANGED rest
           \/ pc[t] = "writing" /\ FtWrite(t)
<1>1. BackendStep(t) \/ Fail(t)
  BY DEF Moved, OwnStep
<1>2. CASE BackendStep(t)
  <2>1. FtNext(t)
    BY <1>2 DEF BackendStep
  <2>2. FtPut(t) \/ FtPutMany(t)
    BY <2>1 DEF FtNext, FtRefuse, LocalRefuse, FtOpen, FtGet, FtTtl, FtGetMany, FtTtlMany, FtDelete, FtDeleteMany, FtDeleteEither,
        FtCull, FtKeys, FtCollections, FtDestroyCollection, FtDestroy, At, Doing, Writes
  <2>. QED  BY <2>2 DEF FtPut, FtPutMany, FtPutEither, At
<1>. QED  BY <1>1, <1>2

LEMMA FtTakes ==
    ASSUME Core, NEW t \in Tasks, backend = "filetree", Doing(t, Writes), pc[t] \in {"item", "writing"}
    PROVE  /\ Taking(t) /\ NextSlot(t) \in Slots /\ NextSlot(t) \in Target(t) /\ db \in [Slots -> Doc]
           /\ NewDoc(t, NextPosition(t), since[t]).writer = <<t, NextPosition(t)>>
           /\ NewDoc(t, NextPosition(t), since[t]).sound
<1>1. Taking(t)
  BY DEF Taking, Takes, Doing, Writes, KeyValue
<1>. QED  BY <1>1, NextIs, NextDocIs DEF Core, TypeOK

LEMMA FtWritingNext ==
    ASSUME Core, Next, NEW t \in Tasks, FtWriting(t)
    PROVE  FtWriting(t)'
<1>. SUFFICES ASSUME backend = "filetree", At(t, Writes, "writing")'
              PROVE  (LET d == db[NextSlot(t)] IN d = Empty \/ d.writer = <<t, NextPosition(t)>> \/ d.writer[1] \in Tasks \ {t})'
  BY DEF FtWriting, Next
<1>0. UNCHANGED <<backend, call>> /\ (Idle \/ \E u \in Tasks : Moved(u)) /\ Doing(t, Writes) /\ pc'[t] = "writing" /\ TypeOK
  BY NextCases DEF Next, At, Doing, Core
<1>1. ASSUME Still(t), Idle \/ \E u \in Tasks \ {t} : Moved(u)
      PROVE  (LET d == db[NextSlot(t)] IN d = Empty \/ d.writer = <<t, NextPosition(t)>> \/ d.writer[1] \in Tasks \ {t})'
  <2>1. pc[t] = "writing" /\ NextSlot(t)' = NextSlot(t) /\ NextPosition(t)' = NextPosition(t)
    BY <1>0, <1>1, NextStill DEF Still
  <2>. PICK s \in Slots : s = NextSlot(t)
    BY <1>0, <2>1, FtTakes
  <2>2. db[s] = Empty \/ db[s].writer = <<t, NextPosition(t)>> \/ db[s].writer[1] \in Tasks \ {t}
    BY <1>0, <2>1 DEF FtWriting, At
  <2>3. db'[s] \in {db[s], Empty} \/ db'[s].writer[1] \in Tasks \ {t}
    <3>1. CASE Idle
      BY <3>1 DEF Idle, Drops
    <3>2. ASSUME NEW u \in Tasks \ {t}, Moved(u)
          PROVE  db'[s] \in {db[s], Empty} \/ db'[s].writer[1] \in Tasks \ {t}
      BY <3>2 DEF Moved, Legal, Effect
    <3>. QED  BY <1>1, <3>1, <3>2
  <2>. QED  BY <2>1, <2>2, <2>3
<1>2. CASE Moved(t)
  <2>1. pc[t] = "item" /\ FtTruncate(t) /\ UNCHANGED rest
    <3>1. BackendStep(t)
      BY <1>0, <1>2, GoingIs DEF Moved, OwnStep, Fail
    <3>2. FtNext(t)
      BY <3>1 DEF BackendStep
    <3>3. CASE FtPut(t) \/ FtPutMany(t)
      <4>. QED  BY <1>0, <1>2, <3>3, FtStores, GoingIs, FtTakes, AdvanceIs DEF FtPut, FtPutMany, FtPutEither, At, FtWrite, Advance, Fail, Onward, Stages, Takes, Ended, Goto, TypeOK
    <3>4. CASE FtRefuse(t) \/ FtOpen(t)
      <4>1. CASE FtRefuse(t)
        BY <1>0, <4>1, GoingIs DEF FtRefuse, LocalRefuse
      <4>2. CASE FtOpen(t)
        <5>1. Loop(t, "ok") /\ Doing(t, KeyValue)
          BY <4>2 DEF FtOpen, At, Doing, KeyValue
        <5>. QED  BY <1>0, <5>1, LoopIs
      <4>. QED  BY <3>4, <4>1, <4>2
    <3>. QED  BY <1>0, <3>2, <3>3, <3>4 DEF FtNext, FtGet, FtTtl, FtGetMany, FtTtlMany, FtDelete, FtDeleteMany, FtDeleteEither,
           FtCull, FtKeys, FtCollections, FtDestroyCollection, FtDestroy, At, Doing, Writes
  <2>2. NextSlot(t)' = NextSlot(t) /\ NextPosition(t)' = NextPosition(t)
    BY <1>0, <2>1 DEF NextSlot, NextPosition
  <2>3. db'[NextSlot(t)] = FtTorn(NewDoc(t, NextPosition(t), since[t]))
    BY <1>0, <2>1, FtTakes, GoingIs DEF FtTruncate
  <2>4. db'[NextSlot(t)].writer = <<t, NextPosition(t)>>
    BY <1>0, <2>1, <2>3, FtTakes DEF FtTorn, NewDoc
  <2>. QED  BY <2>2, <2>4
<1>. QED  BY <1>0, <1>1, <1>2 DEF Idle, Moved

LEMMA TornByNext ==
    ASSUME Core, Next, \A t \in Tasks : FtWriting(t), NEW s \in Slots, TornBy(s)
    PROVE  TornBy(s)'
<1>. SUFFICES ASSUME Torn(db'[s])
              PROVE  TornBy(s)'
  BY DEF TornBy, Torn
<1>0. UNCHANGED <<backend, call>> /\ (Idle \/ \E u \in Tasks : Moved(u)) /\ TypeOK
  BY NextCases DEF Next, Core
<1>. PICK w : w = db'[s].writer[1]
  OBVIOUS
<1>1. SUFFICES /\ backend = "filetree"
               /\ \/ pc'[w] = "writing" /\ s = NextSlot(w)' /\ db'[s].writer = <<w, NextPosition(w)'>>
                  \/ pc'[w] = "error"
                  \/ Raced(s, w)'
  <2>1. Raced(s, db[s].writer[1])' <=> Raced(s, w)'
    BY DEF Raced
  <2>2. NextSlot(db[s].writer[1])' = NextSlot(w)' /\ NextPosition(db[s].writer[1])' = NextPosition(w)'
    BY DEF NextSlot, NextPosition
  <2>. QED  BY <1>0, <2>1, <2>2 DEF TornBy
<1>2. CASE db'[s] = db[s]
  <2>1. Torn(db[s]) /\ w = db[s].writer[1] /\ w \in Tasks /\ OwnDocs(w)
    <3>1. db[s] \in Doc
      BY <1>0 DEF TypeOK
    <3>. QED  BY <1>2, <3>1 DEF Torn, Doc, Core
  <2>2. /\ backend = "filetree"
        /\ \/ pc[w] = "writing" /\ s = NextSlot(w) /\ db[s].writer = <<w, NextPosition(w)>>
           \/ pc[w] = "error"
           \/ Raced(s, w)
    BY <2>1 DEF TornBy
  <2>3. CASE Raced(s, w)
    BY <1>0, <2>2, <2>3, RacedStays
  <2>4. CASE Still(w)
    <3>1. NextSlot(w)' = NextSlot(w) /\ NextPosition(w)' = NextPosition(w) /\ pc'[w] = pc[w]
      BY <1>0, <2>1, <2>4, NextStill DEF Still
    <3>2. Raced(s, w) => Raced(s, w)'
      BY <1>0, RacedStays
    <3>. QED  BY <1>2, <2>2, <3>1, <3>2
  <2>5. CASE Moved(w) /\ ~Raced(s, w)
    <3>1. pc[w] = "writing" /\ s = NextSlot(w) /\ db[s].writer = <<w, NextPosition(w)>> /\ Doing(w, Writes)
      BY <2>1, <2>2, <2>5, Runs DEF Ended, OwnDocs
    <3>2. Fail(w) \/ FtWrite(w)
      BY <2>1, <2>2, <2>5, <3>1, FtStores
    <3>3. CASE Fail(w)
      BY <1>0, <2>1, <2>2, <3>3, GoingIs DEF Fail
    <3>4. CASE FtWrite(w)
      <4>. DEFINE d == NewDoc(w, NextPosition(w), since[w])
      <4>1. d.writer = <<w, NextPosition(w)>> /\ d.sound
        BY <2>1, <2>2, <3>1, FtTakes
      <4>2. db' = [db EXCEPT ![s] = d]
        <5>1. PICK e : /\ db' = [db EXCEPT ![NextSlot(w)] = e]
                       /\ e \in IF db[NextSlot(w)].writer = d.writer THEN {d}
                                ELSE IF Present(db[NextSlot(w)]) THEN {d, FtTorn(d), db[NextSlot(w)]} ELSE {Empty}
          BY <3>4 DEF FtWrite
        <5>. HIDE DEF d
        <5>. QED  BY <3>1, <4>1, <5>1
      <4>3. db'[s] = d
        BY <1>0, <4>2 DEF TypeOK
      <4>. HIDE DEF d
      <4>. QED  BY <4>1, <4>3 DEF Torn
    <3>. QED  BY <3>2, <3>3, <3>4
  <2>. QED  BY <1>0, <2>1, <2>3, <2>4, <2>5 DEF Idle, Moved
<1>3. CASE db'[s] # db[s]
  <2>0. db'[s] # Empty
    BY DEF Torn, Empty
  <2>1. PICK t \in Tasks, i \in Nat : /\ Moved(t) /\ Doing(t, Writes) /\ db'[s].writer = <<t, i>> /\ Writable(t, i)
            /\ backend = "filetree"
    <3>. HIDE DEF Torn, Writable
    <3>. QED  BY <1>0, <1>3, <2>0, DbBecomes
  <2>2. w = t
    BY <2>1
  <2>3. pc[t] \in {"item", "writing"}
    <3>1. pc[t] # "begin"
      <4>. SUFFICES ASSUME pc[t] = "begin"
                    PROVE  FALSE
        OBVIOUS
      <4>1. FtNext(t) \/ Fail(t)
        BY <2>1 DEF Moved, OwnStep, BackendStep
      <4>2. db' = db
        BY <2>1, <4>1 DEF FtNext, FtRefuse, LocalRefuse, FtOpen, FtEnsure, FtGet, FtTtl, FtGetMany, FtTtlMany, FtPut, FtPutMany, FtPutEither,
            FtDelete, FtDeleteMany, FtDeleteEither, FtCull, FtKeys, FtCollections, FtDestroyCollection, FtDestroy, At, Doing, Writes, Fail, serverVars
      <4>. QED  BY <1>3, <4>2
    <3>. QED  BY <2>1, <3>1 DEF Writable
  <2>4. ~Fail(t)
    BY <1>3 DEF Fail, serverVars
  <2>5. db \in [Slots -> Doc] /\ NextSlot(t) \in Slots /\ NewDoc(t, NextPosition(t), since[t]).writer = <<t, NextPosition(t)>>
        /\ NewDoc(t, NextPosition(t), since[t]).sound
    BY <2>1, <2>3, FtTakes
  <2>. DEFINE d == NewDoc(t, NextPosition(t), since[t])
  <2>6. CASE FtTruncate(t) /\ UNCHANGED rest
    <3>1. db' = [db EXCEPT ![NextSlot(t)] = FtTorn(d)] /\ GoOn(t, "writing")
      BY <1>3, <2>6 DEF FtTruncate
    <3>2. s = NextSlot(t) /\ db'[s] = FtTorn(d)
      BY <1>3, <2>5, <3>1
    <3>3. db'[s].writer = <<t, NextPosition(t)>>
      BY <2>5, <3>2 DEF FtTorn, NewDoc
    <3>4. NextSlot(t)' = NextSlot(t) /\ NextPosition(t)' = NextPosition(t)
      BY <1>0, <2>6 DEF NextSlot, NextPosition
    <3>5. pc'[t] = "writing"
      BY <1>0, <3>1, GoingIs
    <3>. QED  BY <2>1, <2>2, <3>2, <3>3, <3>4, <3>5
  <2>7. CASE FtWrite(t) /\ pc[t] = "writing"
    <3>1. PICK e : /\ db' = [db EXCEPT ![NextSlot(t)] = e]
                   /\ e \in IF db[NextSlot(t)].writer = d.writer THEN {d}
                            ELSE IF Present(db[NextSlot(t)]) THEN {d, FtTorn(d), db[NextSlot(t)]} ELSE {Empty}
      BY <2>7 DEF FtWrite
    <3>2. s = NextSlot(t) /\ db'[s] = e
      BY <1>3, <2>5, <3>1
    <3>3. db[s].writer # <<t, NextPosition(t)>> /\ Present(db[s])
      <4>. HIDE DEF d
      <4>1. ~Torn(d)
        BY <2>5 DEF Torn, d
      <4>2. d.writer = <<t, NextPosition(t)>>
        BY <2>5 DEF d
      <4>. HIDE DEF Torn
      <4>. QED  BY <2>0, <3>1, <3>2, <4>1, <4>2
    <3>4. PICK u \in Tasks \ {t} : db[s].writer[1] = u
      BY <2>1, <2>7, <3>2, <3>3 DEF FtWriting, At, Present
    <3>5. Raced(s, t)
      BY <3>4 DEF Core, OwnDocs, Raced
    <3>. QED  BY <1>0, <2>1, <2>2, <3>5, RacedStays
  <2>. QED  BY <2>1, <2>3, <2>4, <2>6, <2>7, FtStores
<1>. QED  BY <1>2, <1>3

LEMMA TearingNext ==
    ASSUME Core, Next, TearingOk
    PROVE  TearingOk'
<1>1. \A t \in Tasks : FtWriting(t)'
  BY FtWritingNext DEF TearingOk
<1>2. \A s \in Slots : TornBy(s)'
  BY TornByNext DEF TearingOk
<1>. QED  BY <1>1, <1>2 DEF TearingOk

LEMMA TearingAnswers ==
    ASSUME TearingOk
    PROVE  TornOnlyByRace
<1>. QED  BY DEF TearingOk, TornBy, TornOnlyByRace, Raced

-----------------------------------------------------------------------------
(* Answers of reads: what was there while the call ran *)

\* What has been found answers for the slots of S, and wherever there is something.
Answered(t, S) == \A s \in S : ReadOk(found[t][s], window[t][s], since[t], now)
Heard(t, S) == \A s \in Slots : Present(found[t][s]) \/ s \in S => ReadOk(found[t][s], window[t][s], since[t], now)

\* The slots a batch taken in order has passed.
Past(t) == {<<call[t].coll, call[t].keys[i]>> : i \in DOMAIN call[t].keys \ rest[t]}

\* A read has its answer when it returns, for Memcached before it deletes what had expired,
\* and in a batch taken in order for the keys that have been passed.
Reading(t) ==
    Doing(t, LocalReads) =>
        /\ pc[t] = "ok" /\ window[t] # Unwatched => Answered(t, Target(t))
        /\ backend = "memcached" /\ pc[t] = "expiring" => Answered(t, Target(t))
        /\ Taking(t) => Heard(t, Past(t) \cap Slots)
        /\ backend = "keyring" /\ pc[t] = "expiring" => \E e \in window[t][NextSlot(t)] : Faded(e, now)

\* An answer that is right stays so.
LEMMA AnsweredStays ==
    ASSUME Lawful, NEW t \in Tasks, Running(t), pc[t] # "begin", NEW S \in SUBSET Slots
    PROVE  /\ Answered(t, S) => \A s \in S : ReadOk(found[t][s], window'[t][s], since'[t], now')
           /\ Heard(t, S) => \A s \in Slots : Present(found[t][s]) \/ s \in S =>
                    ReadOk(found[t][s], window'[t][s], since'[t], now')
<1>. QED  BY ReadOkStays DEF Answered, Heard

LEMMA ReadingStill ==
    ASSUME Lawful, Core, NEW t \in Tasks, Still(t), Reading(t)
    PROVE  Reading(t)'
<1>0. Taking(t)' <=> Taking(t)
  BY DEF Lawful, Still, Taking, Takes, Doing
<1>1. CASE pc[t] \in Ended
  <2>1. window'[t] = Unwatched /\ pc'[t] = pc[t]
    BY <1>1, WatchFacts DEF Lawful, Still
  <2>. QED  BY <1>1, <2>1 DEF Reading, Ended, Taking, Takes
<1>2. CASE pc[t] = "begin"
  BY <1>2 DEF Reading, Still, Taking, Takes
<1>3. CASE pc[t] \notin Ended /\ pc[t] # "begin"
  <2>1. /\ Running(t) /\ pc'[t] = pc[t] /\ found'[t] = found[t]
        /\ rest'[t] = rest[t] /\ UNCHANGED <<backend, call>> /\ pc[t] # "ok"
    BY <1>3 DEF Running, Still, Lawful, Ended
  <2>2. Target(t)' = Target(t) /\ Past(t)' = Past(t) /\ NextSlot(t)' = NextSlot(t) /\ Target(t) \subseteq Slots
    BY <2>1 DEF Target, Past, NextSlot, NextPosition
  <2>3. \A S \in SUBSET Slots :
            /\ Answered(t, S) => \A s \in S : ReadOk(found'[t][s], window'[t][s], since'[t], now')
            /\ Heard(t, S) => \A s \in Slots : Present(found'[t][s]) \/ s \in S =>
                    ReadOk(found'[t][s], window'[t][s], since'[t], now')
    BY <1>3, <2>1, AnsweredStays
  <2>5. \A s \in Slots : (\E e \in window[t][s] : Faded(e, now)) => \E e \in window'[t][s] : Faded(e, now')
    BY <2>1, FadedStays
  <2>6. SUFFICES ASSUME Doing(t, LocalReads)
                 PROVE  /\ backend = "memcached" /\ pc[t] = "expiring" =>
                            \A s \in Target(t) : ReadOk(found'[t][s], window'[t][s], since'[t], now')
                        /\ Taking(t) => \A s \in Slots : Present(found'[t][s]) \/ s \in Past(t) \cap Slots =>
                            ReadOk(found'[t][s], window'[t][s], since'[t], now')
                        /\ backend = "keyring" /\ pc[t] = "expiring" =>
                            \E e \in window'[t][NextSlot(t)] : Faded(e, now')
    BY <1>0, <2>1, <2>2 DEF Reading, Doing, Answered, Heard, Present
  <2>7. backend = "keyring" /\ pc[t] = "expiring" => NextSlot(t) \in Slots
    BY <2>6, NextIs DEF KeyValue, Doing, Taking, Takes
  <2>. HIDE DEF Target, Past, NextSlot, ReadOk, Taking
  <2>. QED  BY <2>2, <2>3, <2>5, <2>6, <2>7 DEF Reading
<1>. QED  BY <1>1, <1>2, <1>3

\* The last step of a read, or Memcached's last but that it deletes what it found expired.
LEMMA ReadReturns ==
    ASSUME Core, NEW t \in Tasks, Moved(t), pc'[t] \in {"ok", "error", "invalid", "expiring"},
           pc'[t] = "expiring" => backend = "memcached",
           pc'[t] \in {"ok", "expiring"} => \A s \in Target(t) : ReadOk(found'[t][s], window'[t][s], since'[t], now')
    PROVE  Reading(t)'
<1>1. UNCHANGED <<backend, call>>
  BY Runs
<1>2. Target(t)' = Target(t)
  BY <1>1 DEF Target
<1>3. Doing(t, LocalReads)' => ~Taking(t)'
  BY <1>1 DEF Taking, Takes, Doing, LocalReads, Writes
<1>. QED  BY <1>1, <1>2, <1>3 DEF Reading, Answered

\* A batch taken in order has the slot it was at behind it.
LEMMA PastGrows ==
    ASSUME Core, Lawful, NEW t \in Tasks, Taking(t), NEW last \in Onward, ~Takes(t, last),
           NEW f \in [Slots -> Doc], Advance(t, last, f)
    PROVE  /\ Past(t)' \subseteq Past(t) \cup {NextSlot(t)}
           /\ pc'[t] = last => Target(t) \subseteq Past(t) \cup {NextSlot(t)}
           /\ pc'[t] \in {last, "item"} /\ found'[t] = f
<1>1. /\ NextSlot(t) = <<call[t].coll, call[t].keys[NextPosition(t)]>>
      /\ rest'[t] = rest[t] \ {NextPosition(t)} /\ found'[t] = f
      /\ pc'[t] = (IF rest[t] = {NextPosition(t)} THEN last ELSE "item")
  BY AdvanceIs DEF NextSlot
<1>2. call' = call /\ last # "item"
  BY DEF Lawful, Taking, Takes
<1>3. \A s \in Target(t) : \E i \in DOMAIN call[t].keys : s = <<call[t].coll, call[t].keys[i]>>
  BY SlotsAssumption DEF Target
<1>. HIDE DEF NextPosition, NextSlot
<1>4. Past(t)' = {<<call[t].coll, call[t].keys[i]>> : i \in DOMAIN call[t].keys \ rest'[t]}
  BY <1>2 DEF Past
<1>5. Past(t)' \subseteq Past(t) \cup {NextSlot(t)}
  BY <1>1, <1>4 DEF Past
<1>6. pc'[t] = last => Target(t) \subseteq Past(t) \cup {NextSlot(t)}
  BY <1>1, <1>2, <1>3 DEF Past
<1>. QED  BY <1>1, <1>5, <1>6

LEMMA ReadAdvances ==
    ASSUME Core, Lawful, NEW t \in Tasks, Moved(t), Doing(t, LocalReads), Taking(t),
           NEW f \in [Slots -> Doc], Advance(t, "ok", f),
           \A s \in Slots : Present(f[s]) \/ s \in Past(t) \cup {NextSlot(t)} =>
                ReadOk(f[s], window'[t][s], since'[t], now')
    PROVE  Reading(t)'
<1>0. "ok" \in Onward /\ ~Takes(t, "ok")
  BY DEF Onward, Stages, Ended, Takes
<1>1. /\ Past(t)' \subseteq Past(t) \cup {NextSlot(t)}
      /\ pc'[t] = "ok" => Target(t) \subseteq Past(t) \cup {NextSlot(t)}
      /\ pc'[t] \in {"ok", "item"} /\ found'[t] = f
  BY <1>0, PastGrows
<1>2. Target(t) \subseteq Slots /\ UNCHANGED <<backend, call>> /\ Target(t)' = Target(t)
  BY Runs DEF Target
<1>3. CASE pc'[t] = "ok"
  BY <1>1, <1>2, <1>3, ReadReturns
<1>4. CASE pc'[t] = "item"
  <2>. PICK P : P = Past(t)'
    OBVIOUS
  <2>1. \A s \in Slots : Present(found'[t][s]) \/ s \in P \cap Slots => ReadOk(found'[t][s], window'[t][s], since'[t], now')
    BY <1>1
  <2>. HIDE DEF Past
  <2>. QED  BY <1>2, <1>4, <2>1 DEF Reading, Heard, Present
<1>. QED  BY <1>1, <1>3, <1>4

\* The batch begins.
LEMMA LoopReading ==
    ASSUME Core, Lawful, NEW t \in Tasks, Moved(t), Doing(t, LocalReads), Loop(t, "ok")
    PROVE  Reading(t)'
<1>0. UNCHANGED <<backend, call>> /\ Doing(t, KeyValue) /\ TypeOK
  BY Runs DEF Doing, KeyValue, Core
<1>1. pc'[t] = (IF call[t].keys = <<>> THEN "ok" ELSE "item") /\ rest'[t] = DOMAIN call[t].keys /\ found'[t] = Nothing
  BY <1>0, LoopIs
<1>2. CASE call[t].keys = <<>>
  <2>1. Target(t) = {}
    BY <1>2 DEF Target
  <2>. QED  BY <1>1, <1>2, <2>1, ReadReturns
<1>3. CASE call[t].keys # <<>>
  <2>1. Past(t)' = {}
    BY <1>0, <1>1 DEF Past
  <2>2. \A s \in Slots : ~Present(found'[t][s])
    BY <1>0, <1>1, DbIs DEF Present
  <2>3. Heard(t, Past(t) \cap Slots)'
    BY <2>1, <2>2 DEF Heard, Present
  <2>. QED  BY <1>0, <1>1, <1>3, <2>3 DEF Reading
<1>. QED  BY <1>2, <1>3

\* Each key is answered by what is there then.
LEMMA NextReading ==
    ASSUME Core, Lawful, NEW t \in Tasks, Moved(t), Doing(t, LocalReads), Reading(t), Taking(t), ReadNext(t)
    PROVE  Reading(t)'
<1>0. TypeOK /\ Running(t) /\ pc[t] # "begin" /\ Past(t) \cap Slots \in SUBSET Slots
  BY Runs DEF Core, Taking, Takes
<1>1. CASE Return(t, "error")
  BY <1>0, <1>1, GoingIs, ReadReturns
<1>2. ASSUME NEW f \in [Slots -> Doc], Advance(t, "ok", f),
             f = IF Live(db[NextSlot(t)]) THEN [found[t] EXCEPT ![NextSlot(t)] = db[NextSlot(t)]] ELSE found[t]
      PROVE  Reading(t)'
  <2>. PICK s \in Slots : s = NextSlot(t)
    BY NextIs
  <2>1. \A r \in Slots : Present(found[t][r]) \/ r \in Past(t) => ReadOk(found[t][r], window'[t][r], since'[t], now')
    <3>1. Heard(t, Past(t) \cap Slots)
      BY DEF Reading
    <3>. HIDE DEF Past
    <3>. QED  BY <1>0, <3>1, AnsweredStays
  <2>2. ReadOk(IF Live(db[s]) THEN db[s] ELSE Empty, window'[t][s], since'[t], now')
    BY <1>0, ReadOkNow
  <2>3. \A r \in Slots : f[r] = IF r = s /\ Live(db[s]) THEN db[s] ELSE found[t][r]
    BY <1>0, <1>2, DbIs
  <2>4. \A r \in Slots : Present(f[r]) \/ r \in Past(t) \cup {NextSlot(t)} => ReadOk(f[r], window'[t][r], since'[t], now')
    <3>. TAKE r \in Slots
    <3>1. CASE r # s
      BY <2>1, <2>3, <3>1
    <3>2. CASE r = s /\ Live(db[s])
      BY <2>2, <2>3, <3>2
    <3>3. CASE r = s /\ ~Live(db[s]) /\ Present(found[t][s])
      BY <2>1, <2>3, <3>3
    <3>4. CASE r = s /\ ~Live(db[s]) /\ ~Present(found[t][s])
      BY <2>2, <2>3, <3>4 DEF Present
    <3>. QED  BY <3>1, <3>2, <3>3, <3>4
  <2>. QED  BY <1>2, <2>4, ReadAdvances
<1>. QED  BY <1>1, <1>2, ReadNextIs

\* The keyring deletes what had expired and answers None.
LEMMA KeyringReading ==
    ASSUME Core, Lawful, NEW t \in Tasks, Moved(t), Doing(t, LocalReads), Reading(t), backend = "keyring",
           NEW op, KeyringRead(t, op)
    PROVE  Reading(t)'
<1>0. TypeOK /\ Running(t) /\ UNCHANGED <<backend, call>> /\ Taking(t) /\ pc[t] # "begin"
  BY Runs DEF Core, KeyringRead, Taking, Takes, At, Doing, KeyValue
<1>1. NextSlot(t) \in Slots /\ Past(t) \cap Slots \in SUBSET Slots
  BY <1>0, NextIs
<1>2. \A r \in Slots : Present(found[t][r]) \/ r \in Past(t) => ReadOk(found[t][r], window'[t][r], since'[t], now')
  <2>1. Heard(t, Past(t) \cap Slots)
    BY <1>0 DEF Reading
  <2>. HIDE DEF Past
  <2>. QED  BY <1>0, <1>1, <2>1, AnsweredStays
<1>3. CASE ReadNext(t)
  BY <1>0, <1>3, NextReading
<1>4. CASE Expired(db[NextSlot(t)]) /\ GoOn(t, "expiring") /\ UNCHANGED rest
  <2>1. pc'[t] = "expiring" /\ found'[t] = found[t] /\ rest' = rest
    BY <1>0, <1>4, GoingIs
  <2>2. Past(t)' = Past(t) /\ NextSlot(t)' = NextSlot(t)
    BY <1>0, <2>1 DEF Past, NextSlot, NextPosition
  <2>. PICK s \in Slots : s = NextSlot(t)
    BY <1>1
  <2>3. \E e \in window'[t][s] : Faded(e, now')
    <3>1. db[s] \in window'[t][s] /\ now \in Nat /\ now' \in Nat /\ now <= now' /\ db[s].expires \in Nat
      BY <1>0, WindowGrows, DbIs DEF Lawful, Doc
    <3>2. ExpiredAt(db[s], now')
      BY <1>4, <3>1 DEF Expired, ExpiredAt
    <3>. QED  BY <3>1, <3>2 DEF Faded
  <2>. PICK S : S = Past(t)
    OBVIOUS
  <2>4. Past(t)' = S /\ NextSlot(t)' = s
    BY <2>2
  <2>5. \A q \in Slots : Present(found'[t][q]) \/ q \in S \cap Slots => ReadOk(found'[t][q], window'[t][q], since'[t], now')
    BY <1>2, <2>1
  <2>. HIDE DEF Past, NextSlot
  <2>. QED  BY <1>0, <2>1, <2>3, <2>4, <2>5 DEF Reading, Heard, Present
<1>5. CASE pc[t] = "expiring" /\ Advance(t, "ok", found[t])
  <2>. PICK s \in Slots : s = NextSlot(t)
    BY <1>1
  <2>1. \E e \in window'[t][s] : Faded(e, now')
    BY <1>0, <1>5, FadedStays DEF Reading
  <2>2. \A r \in Slots : Present(found[t][r]) \/ r \in Past(t) \cup {s} => ReadOk(found[t][r], window'[t][r], since'[t], now')
    <3>. TAKE r \in Slots
    <3>1. CASE r # s \/ Present(found[t][r])
      BY <1>2, <3>1
    <3>2. CASE r = s /\ ~Present(found[t][r])
      BY <2>1, <3>2 DEF ReadOk
    <3>. QED  BY <3>1, <3>2
  <2>3. found[t] \in [Slots -> Doc]
    BY <1>0, DbIs
  <2>. QED  BY <1>0, <1>5, <2>2, <2>3, ReadAdvances
<1>. QED  BY <1>3, <1>4, <1>5 DEF KeyringRead, At

\* Memcached answers at once and then deletes.
LEMMA MemcachedReading ==
    ASSUME Core, Lawful, NEW t \in Tasks, Moved(t), Doing(t, LocalReads), Reading(t), backend = "memcached",
           NEW op, McFetch(t, op)
    PROVE  Reading(t)'
<1>0. TypeOK /\ Running(t) /\ Target(t) \in SUBSET Slots
  BY Runs DEF Core, Target
<1>1. CASE pc[t] = "begin" /\ Fetch(t, \A s \in Target(t) : db[s].sound)
  <2>1. found[t] = Nothing
    BY <1>1 DEF Core, Begun
  <2>. PICK decoded \in BOOLEAN : Fetch(t, decoded)
    BY <1>1
  <2>2. pc'[t] \in {"ok", "expiring", "error"}
        /\ (pc'[t] # "error" => \A s \in Target(t) : found'[t][s] = IF Live(db[s]) THEN db[s] ELSE Empty)
    BY <1>0, <2>1, FetchIs
  <2>3. pc'[t] # "error" => \A s \in Target(t) : ReadOk(found'[t][s], window'[t][s], since'[t], now')
    BY <1>0, <2>2, ReadOkNow
  <2>. QED  BY <2>2, <2>3, ReadReturns
<1>2. CASE pc[t] = "expiring" /\ \E s \in todo[t] :
              Goto(t, IF todo[t] = {s} THEN "ok" ELSE "expiring", Nothing, todo[t] \ {s}, found[t])
  <2>1. pc'[t] \in {"ok", "expiring"} /\ found'[t] = found[t]
    BY <1>0, <1>2, GotoIs
  <2>2. Answered(t, Target(t))
    BY <1>2 DEF Reading
  <2>3. \A s \in Target(t) : ReadOk(found[t][s], window'[t][s], since'[t], now')
    BY <1>0, <1>2, <2>2, AnsweredStays
  <2>. QED  BY <2>1, <2>3, ReadReturns
<1>. QED  BY <1>1, <1>2 DEF McFetch, At

\* The steps that reads take.
LEMMA ReadSteps ==
    ASSUME NEW t \in Tasks, OwnStep(t), Doing(t, LocalReads)
    PROVE  \/ Return(t, "error") \/ Return(t, "invalid")
           \/ Loop(t, "ok")
           \/ pc[t] = "item" /\ ReadNext(t)
           \/ backend = "keyring" /\ \E op : KeyringRead(t, op)
           \/ backend = "memcached" /\ \E op : McFetch(t, op)
           \/ backend = "simple" /\ Answer(t, Of(LiveOf(Target(t))))
           \/ backend = "null" /\ Return(t, "ok")
<1>. USE DEF Doing, LocalReads
<1>1. CASE backend = "filetree" /\ FtNext(t)
  BY <1>1 DEF FtNext, FtRefuse, LocalRefuse, FtOpen, FtGet, FtTtl, FtGetMany, FtTtlMany, FtPut, FtPutMany, FtPutEither,
      FtDelete, FtDeleteMany, FtDeleteEither, FtCull, FtKeys, FtCollections, FtDestroyCollection, FtDestroy, At
<1>2. CASE backend = "disk" /\ DiskNext(t)
  BY <1>2 DEF DiskNext, DiskRefuse, LocalRefuse, DiskOpen, DiskGet, DiskTtl, DiskGetMany, DiskTtlMany, DiskItem, DiskPut, DiskPutMany,
      DiskFlush, DiskDelete, DiskDeleteMany, DiskCull, DiskKeys, DiskCollections, DiskDestroyCollection, DiskDestroy, DiskDrop,
      At, Writes
<1>3. CASE backend = "rocksdb" /\ RocksNext(t)
  BY <1>3 DEF RocksNext, RocksRefuse, LocalRefuse, RocksOpen, RocksMalformed, RocksGet, RocksTtl, RocksGetMany, RocksTtlMany,
      RocksPut, RocksPutMany, RocksDelete, RocksDeleteMany, RocksDeleteEither, RocksCull, RocksBatch, RocksKeys, RocksCollections,
      RocksDestroyCollection, RocksDestroy, At, Deletes
<1>4. CASE backend = "simple" /\ SimpleNext(t)
  BY <1>4 DEF SimpleNext, SimpleRefuse, SimpleGet, SimpleTtl, SimpleGetMany, SimpleTtlMany, SimpleRead, SimplePut, SimplePutMany,
      SimpleWrite, SimpleDelete, SimpleDeleteMany, SimpleRemove, SimpleCull, SimpleKeys, SimpleCollections, SimpleDestroyCollection,
      SimpleDestroy, At, Writes
<1>5. CASE backend = "null" /\ NullNext(t)
  BY <1>5 DEF NullNext
<1>6. CASE backend = "keyring" /\ KeyringNext(t)
  BY <1>6 DEF KeyringNext, KeyringRefuse, LocalRefuse, KeyringOpen, KeyringGet, KeyringTtl, KeyringGetMany, KeyringTtlMany,
      KeyringPut, KeyringPutMany, KeyringSet, KeyringDelete, KeyringDeleteMany, At
<1>7. CASE backend = "memcached" /\ McNext(t)
  BY <1>7 DEF McNext, McRefuse, LocalRefuse, McGet, McTtl, McGetMany, McTtlMany, McOpen, McPut, McPutMany, McSet, McDelete, McDeleteMany,
      McDestroy, At, Writes, Deletes
<1>8. CASE Fail(t)
  BY <1>8 DEF Fail
<1>. QED  BY <1>1, <1>2, <1>3, <1>4, <1>5, <1>6, <1>7, <1>8 DEF OwnStep, BackendStep

LEMMA ReadingNext ==
    ASSUME Core, Next, NEW t \in Tasks, Reading(t)
    PROVE  Reading(t)'
<1>0. Lawful /\ (Idle \/ \E u \in Tasks : Moved(u)) /\ UNCHANGED <<backend, call>> /\ TypeOK
  BY NextLawful, NextCases DEF Next, Core
<1>1. CASE Still(t)
  BY <1>0, <1>1, ReadingStill
<1>2. ASSUME Moved(t), Doing(t, LocalReads)
      PROVE  Reading(t)'
  <2>0. OwnStep(t) /\ Running(t) /\ Target(t) \subseteq Slots
    BY <1>2, Runs DEF Moved, Target
  <2>1. CASE Return(t, "error") \/ Return(t, "invalid")
    BY <1>0, <1>2, <2>1, GoingIs, ReadReturns
  <2>2. CASE Loop(t, "ok")
    BY <1>0, <1>2, <2>2, LoopReading
  <2>3. CASE pc[t] = "item" /\ ReadNext(t)
    <3>1. Taking(t)
      BY <1>2, <2>3 DEF Taking, Takes, Doing, KeyValue
    <3>. QED  BY <1>0, <1>2, <2>3, <3>1, NextReading
  <2>4. CASE backend = "keyring" /\ \E op : KeyringRead(t, op)
    BY <1>0, <1>2, <2>4, KeyringReading
  <2>5. CASE backend = "memcached" /\ \E op : McFetch(t, op)
    BY <1>0, <1>2, <2>5, MemcachedReading
  <2>6. CASE Answer(t, Of(LiveOf(Target(t))))
    <3>1. pc'[t] = "ok" /\ found'[t] = Of(LiveOf(Target(t)))
      BY <1>0, <2>6, GoingIs
    <3>2. \A s \in Target(t) : found'[t][s] = IF Live(db[s]) THEN db[s] ELSE Empty
      BY <1>0, <2>0, <3>1, DbIs DEF LiveOf
    <3>3. \A s \in Target(t) : ReadOk(found'[t][s], window'[t][s], since'[t], now')
      BY <1>0, <2>0, <3>2, ReadOkNow
    <3>. QED  BY <1>2, <3>1, <3>3, ReadReturns
  <2>7. CASE backend = "null" /\ Return(t, "ok")
    <3>1. pc'[t] = "ok" /\ found'[t] = found[t]
      BY <1>0, <2>7, GoingIs
    <3>2. pc[t] = "begin" /\ found[t] = Nothing /\ db = Nothing
      <4>1. pc[t] = "begin"
        <5>1. BackendStep(t)
          BY <1>0, <2>0, <3>1, GoingIs DEF OwnStep, Fail
        <5>. QED  BY <2>7, <5>1 DEF BackendStep, NullNext
      <4>. QED  BY <2>7, <4>1 DEF Core, Begun, NullEmpty
    <3>3. \A s \in Target(t) : found'[t][s] = IF Live(db[s]) THEN db[s] ELSE Empty
      BY <1>0, <2>0, <3>1, <3>2, DbIs
    <3>4. \A s \in Target(t) : ReadOk(found'[t][s], window'[t][s], since'[t], now')
      BY <1>0, <2>0, <3>3, ReadOkNow
    <3>. QED  BY <1>2, <3>1, <3>4, ReadReturns
  <2>. QED  BY <1>2, <2>0, <2>1, <2>2, <2>3, <2>4, <2>5, <2>6, <2>7, ReadSteps
<1>3. CASE ~Doing(t, LocalReads)
  BY <1>0, <1>3 DEF Reading, Doing
<1>. QED  BY <1>0, <1>1, <1>2, <1>3 DEF Idle, Moved

\* ReadsCurrent (the answers of get, get_many, ttl and ttl_many) is what Reading says of a
\* call that has returned.
LEMMA ReadingAnswers ==
    ASSUME Core, \A t \in Tasks : Reading(t)
    PROVE  ReadsCurrent
<1>. SUFFICES ASSUME NEW t \in Tasks, Answers(t, Reads), NEW s \in Target(t)
              PROVE  IF Present(found[t][s])
                       THEN found[t][s] \in window[t][s] /\ ~ExpiredAt(found[t][s], since[t])
                       ELSE \E d \in window[t][s] : ~Live(d)
  BY DEF ReadsCurrent
<1>1. Doing(t, LocalReads)
  <2>1. call[t].op \in Supports(backend) /\ call[t].op \in Reads
    BY DEF Core, Supported, Answers, Done, At, Doing
  <2>. QED  BY <2>1 DEF Supports, KeyValue, Whole, LocalReads, Writes, Deletes, Reads, Doing
<1>2. ReadOk(found[t][s], window[t][s], since[t], now)
  BY <1>1 DEF Reading, Answers, Done, At, Answered
<1>. QED  BY <1>2 DEF ReadOk, Faded, Live, Expired

-----------------------------------------------------------------------------
(* What calls have counted as deleted *)

\* Those that know what they delete: a call counts it once it is gone.
Counts(t) == backend # "rocksdb" /\ Doing(t, Deletes)
Gone(t) ==
    \A s \in Slots : Present(found[t][s]) /\ ~Torn(found[t][s]) => Spent(found[t][s]) /\ db[s] # found[t][s]
CountedGone ==
    /\ \A t \in Tasks : Counts(t) => Gone(t)
    /\ \A t, u \in Tasks : t # u /\ Counts(t) /\ Counts(u) =>
            \A s \in Slots : Present(found[t][s]) /\ found[t][s] = found[u][s] => Torn(found[t][s])

\* A document is counted as it is deleted, or was before.
Counting(t) ==
    Counts(t) => \A s \in Slots : Present(found'[t][s]) =>
        found'[t][s] = found[t][s] \/ (found'[t][s] = db[s] /\ db'[s] = Empty)

\* The steps that deletions take.
LEMMA DeleteSteps ==
    ASSUME NEW t \in Tasks, OwnStep(t), Doing(t, Deletes)
    PROVE  \/ \E how : Return(t, how)
           \/ \E last : Loop(t, last)
           \/ pc[t] = "item" /\ RemoveNext(t)
           \/ backend = "rocksdb" /\ RocksNext(t)
           \/ backend = "simple" /\ db' = Without(Target(t)) /\ Answer(t, Of(Target(t)))
<1>. USE DEF Doing, Deletes
<1>1. CASE backend = "filetree" /\ FtNext(t)
  BY <1>1 DEF FtNext, FtRefuse, LocalRefuse, FtOpen, FtGet, FtTtl, FtGetMany, FtTtlMany, FtPut, FtPutMany, FtPutEither,
      FtDelete, FtDeleteMany, FtDeleteEither, FtCull, FtKeys, FtCollections, FtDestroyCollection, FtDestroy, At
<1>2. CASE backend = "disk" /\ DiskNext(t)
  BY <1>2 DEF DiskNext, DiskRefuse, LocalRefuse, DiskOpen, DiskGet, DiskTtl, DiskGetMany, DiskTtlMany, DiskItem, DiskPut, DiskPutMany,
      DiskFlush, DiskDelete, DiskDeleteMany, DiskCull, DiskKeys, DiskCollections, DiskDestroyCollection, DiskDestroy, DiskDrop, At
<1>4. CASE backend = "simple" /\ SimpleNext(t)
  BY <1>4 DEF SimpleNext, SimpleRefuse, SimpleGet, SimpleTtl, SimpleGetMany, SimpleTtlMany, SimpleRead, SimplePut, SimplePutMany,
      SimpleWrite, SimpleDelete, SimpleDeleteMany, SimpleRemove, SimpleCull, SimpleKeys, SimpleCollections, SimpleDestroyCollection,
      SimpleDestroy, At
<1>5. CASE backend = "null" /\ NullNext(t)
  BY <1>5 DEF NullNext
<1>6. CASE backend = "keyring" /\ KeyringNext(t)
  BY <1>6 DEF KeyringNext, KeyringRefuse, LocalRefuse, KeyringOpen, KeyringGet, KeyringTtl, KeyringGetMany, KeyringTtlMany,
      KeyringPut, KeyringPutMany, KeyringSet, KeyringRead, KeyringDelete, KeyringDeleteMany, At
<1>7. CASE backend = "memcached" /\ McNext(t)
  BY <1>7 DEF McNext, McRefuse, LocalRefuse, McGet, McTtl, McGetMany, McTtlMany, McFetch, McOpen, McPut, McPutMany, McSet, McDelete,
      McDeleteMany, McDestroy, At
<1>8. CASE Fail(t)
  BY <1>8 DEF Fail
<1>. QED  BY <1>1, <1>2, <1>4, <1>5, <1>6, <1>7, <1>8 DEF OwnStep, BackendStep

LEMMA CountingStep ==
    ASSUME Core, NEW t \in Tasks, Moved(t)
    PROVE  Counting(t)
<1>0. TypeOK /\ OwnStep(t) /\ UNCHANGED <<backend, call>>
  BY Runs DEF Core, Moved
<1>. SUFFICES ASSUME Counts(t) PROVE Counting(t)
  BY DEF Counting
<1>1. Doing(t, Deletes) /\ backend # "rocksdb"
  BY DEF Counts
<1>2. ASSUME NEW how, Return(t, how)
      PROVE  Counting(t)
  BY <1>0, <1>2, GoingIs DEF Counting
<1>3. ASSUME NEW last, Loop(t, last)
      PROVE  Counting(t)
  <2>1. found'[t] = Nothing
    BY <1>1, <1>3, LoopIs DEF Doing, KeyValue
  <2>. QED  BY <1>0, <2>1, DbIs DEF Counting, Present
<1>4. CASE pc[t] = "item" /\ RemoveNext(t)
  <2>1. Taking(t)
    BY <1>1, <1>4 DEF Taking, Takes, Doing, KeyValue
  <2>. PICK s \in Slots : s = NextSlot(t)
    BY <2>1, NextIs
  <2>2. PICK f \in [Slots -> Doc] :
            /\ Advance(t, "ok", f) /\ db' = Without({s})
            /\ f = IF Present(db[s]) THEN [found[t] EXCEPT ![s] = db[s]] ELSE found[t]
    BY <1>4, <2>1, RemoveNextIs
  <2>3. found'[t] = f
    <3>1. "ok" \in Onward /\ ~Takes(t, "ok")
      BY DEF Onward, Stages, Ended, Takes
    <3>2. Advance(t, "ok", f)
      BY <2>2
    <3>. QED  BY <2>1, <3>1, <3>2, AdvanceIs
  <2>4. \A r \in Slots : f[r] = IF r = s /\ Present(db[s]) THEN db[s] ELSE found[t][r]
    BY <1>0, <2>2, DbIs
  <2>5. db'[s] = Empty
    BY <1>0, <2>2, DbIs
  <2>. QED  BY <2>3, <2>4, <2>5 DEF Counting
<1>5. CASE db' = Without(Target(t)) /\ Answer(t, Of(Target(t)))
  <2>1. found'[t] = Of(Target(t))
    BY <1>0, <1>5, GoingIs
  <2>. QED  BY <1>0, <1>5, <2>1, DbIs DEF Counting, Present
<1>. QED  BY <1>0, <1>1, <1>2, <1>3, <1>4, <1>5, DeleteSteps

LEMMA CountedNext ==
    ASSUME Core, Next, CountedGone
    PROVE  CountedGone'
<1>0. (Idle \/ \E t \in Tasks : Moved(t)) /\ UNCHANGED <<backend, call>> /\ TypeOK
  BY NextCases DEF Next, Core
<1>1. \A t \in Tasks : Still(t) \/ Counting(t)
  BY <1>0, CountingStep DEF Idle, Moved
<1>2. \A t \in Tasks : Counts(t)' <=> Counts(t)
  BY <1>0 DEF Counts, Doing
<1>3. ASSUME NEW t \in Tasks, Counts(t), NEW s \in Slots, Present(found'[t][s])
      PROVE  \/ found'[t][s] = found[t][s]
             \/ ~Still(t) /\ found'[t][s] = db[s] /\ db'[s] = Empty
  BY <1>1, <1>3 DEF Counting, Still
<1>4. ASSUME NEW t \in Tasks, Counts(t)
      PROVE  Gone(t)'
  <2>. SUFFICES ASSUME NEW s \in Slots, NEW d, d = found'[t][s], Present(d), ~Torn(d)
                PROVE  Spent(d)' /\ db'[s] # d
    <3>1. \A s : (Present(found[t][s])' <=> Present(found'[t][s])) /\ (Torn(found[t][s])' <=> Torn(found'[t][s]))
                 /\ (Spent(found[t][s])' <=> \A d : d = found'[t][s] => Spent(d)')
      BY DEF Present, Torn, Spent
    <3>. HIDE DEF Present, Torn, Spent
    <3>. QED  BY <3>1 DEF Gone
  <2>1. CASE d = found[t][s]
    BY <1>0, <1>4, <2>1, OldStays DEF CountedGone, Gone
  <2>2. CASE d = db[s] /\ db'[s] = Empty
    <3>1. Spent(d)
      BY <2>2 DEF Core, DocsSpent
    <3>. QED  BY <1>0, <2>2, <3>1, SpentStays DEF Present
  <2>. QED  BY <1>3, <1>4, <2>1, <2>2
<1>5. ASSUME NEW t \in Tasks, NEW u \in Tasks, t # u, Counts(t), Counts(u), NEW s \in Slots,
             Present(found'[t][s]), found'[t][s] = found'[u][s], ~Torn(found'[t][s])
      PROVE  FALSE
  <2>1. Still(t) \/ Still(u)
    BY <1>0, <1>5 DEF Idle, Moved
  <2>2. \/ found'[t][s] = found[t][s]
        \/ ~Still(t) /\ found'[t][s] = db[s]
    BY <1>3, <1>5
  <2>3. \/ found'[u][s] = found[u][s]
        \/ ~Still(u) /\ found'[u][s] = db[s]
    BY <1>3, <1>5
  <2>. HIDE DEF Torn
  <2>. QED  BY <1>5, <2>1, <2>2, <2>3 DEF CountedGone, Gone
<1>. QED  BY <1>2, <1>4, <1>5 DEF CountedGone, Torn, Present

LEMMA CountedOnce ==
    ASSUME CountedGone
    PROVE  DeletesCounted
<1>. QED  BY DEF CountedGone, DeletesCounted, Counts, Done, At, Doing

-----------------------------------------------------------------------------
(* The keys of a collection *)

\* What is listed was there, and of S nothing is left out that was there all the time.
Shown(t) == {s \in Slots : Present(found[t][s])}
Kept(t, S) ==
    /\ \A s \in Shown(t) : found[t][s] \in window[t][s]
    /\ Cardinality(Shown(t)) < call[t].limit => \A s \in S : Empty \in window[t][s] \/ s \in Shown(t)

Listing(t) ==
    Doing(t, {"keys"}) =>
        /\ pc[t] = "ok" /\ window[t] # Unwatched => Kept(t, In(call[t].coll))
        /\ pc[t] = "listing" => Kept(t, In(call[t].coll) \ todo[t])

LEMMA KeptStays ==
    ASSUME Lawful, NEW t \in Tasks, Running(t), NEW S \in SUBSET Slots, Kept(t, S), found'[t] = found[t]
    PROVE  Kept(t, S)'
<1>1. Shown(t)' = Shown(t) /\ Shown(t) \subseteq Slots /\ call'[t] = call[t]
  BY DEF Shown, Present, Lawful
<1>2. \A s \in Slots : window[t][s] \subseteq window'[t][s]
  BY WindowGrows
<1>. HIDE DEF Shown
<1>. QED  BY <1>1, <1>2 DEF Kept, Empty

\* A listing at once.
LEMMA KeptAtOnce ==
    ASSUME Lawful, Core, NEW t \in Tasks, Moved(t), NEW n \in Nat, call[t].limit <= n,
           NEW S \in SUBSET {s \in In(call[t].coll) : Present(db[s])}, found'[t] = Of(S),
           Cardinality(S) < n => S = {s \in In(call[t].coll) : Present(db[s])}
    PROVE  Kept(t, In(call[t].coll))'
<1>0. TypeOK /\ Running(t) /\ UNCHANGED call /\ S \subseteq Slots /\ call[t].limit \in Nat
  BY Runs, CallFacts DEF Core, In
<1>1. \A s \in Slots : found'[t][s] = IF s \in S THEN db[s] ELSE Empty
  BY <1>0, DbIs
<1>2. Shown(t)' = S
  BY <1>0, <1>1 DEF Shown, Present
<1>3. \A s \in Slots : db[s] \in window'[t][s]
  BY <1>0, WindowGrows
<1>4. \A s \in Shown(t)' : found'[t][s] \in window'[t][s]
  BY <1>0, <1>1, <1>2, <1>3
<1>5. ASSUME Cardinality(S) < call[t].limit, NEW s \in In(call[t].coll)
      PROVE  Empty \in window'[t][s] \/ s \in S
  <2>1. call[t].limit \in Nat /\ S = {r \in In(call[t].coll) : Present(db[r])}
    <3>1. IsFiniteSet(S)
      BY <1>0, SlotsAssumption, FS_Subset
    <3>2. Cardinality(S) \in Nat
      BY <3>1, FS_CardinalityType
    <3>3. Cardinality(S) < n
      BY <1>0, <1>5, <3>2
    <3>. QED  BY <1>0, <3>3
  <2>. QED  BY <1>3, <2>1 DEF Present, In
<1>6. \A s : In(call[t].coll)' = In(call[t].coll) /\ Empty' = Empty
  BY <1>0 DEF In, Empty
<1>. HIDE DEF Shown
<1>. QED  BY <1>0, <1>2, <1>4, <1>5, <1>6 DEF Kept

LEMMA ListingStill ==
    ASSUME Lawful, Core, NEW t \in Tasks, Still(t), Listing(t)
    PROVE  Listing(t)'
<1>1. CASE pc[t] \in Ended
  <2>1. window'[t] = Unwatched /\ pc'[t] = pc[t]
    BY <1>1, WatchFacts DEF Lawful, Still
  <2>. QED  BY <1>1, <2>1 DEF Listing, Ended
<1>2. CASE pc[t] \notin Ended
  <2>. SUFFICES ASSUME Doing(t, {"keys"}), pc[t] = "listing"
                PROVE  (Kept(t, In(call[t].coll) \ todo[t]))'
    BY <1>2 DEF Listing, Still, Lawful, Doing, Ended
  <2>1. Running(t) /\ found'[t] = found[t] /\ call' = call /\ todo'[t] = todo[t]
    BY DEF Running, Still, Lawful, Ended
  <2>. PICK S \in SUBSET Slots : S = In(call[t].coll) \ todo[t]
    BY DEF In
  <2>2. (In(call[t].coll) \ todo[t])' = S
    BY <2>1 DEF In
  <2>3. Kept(t, S)'
    BY <2>1, KeptStays DEF Listing
  <2>. HIDE DEF Shown
  <2>. QED  BY <2>2, <2>3 DEF Kept
<1>. QED  BY <1>1, <1>2

LEMMA KeysSteps ==
    ASSUME NEW t \in Tasks, OwnStep(t), Doing(t, {"keys"})
    PROVE  \/ \E how \in {"error", "invalid"} : Return(t, how)
           \/ GoOn(t, "opening")
           \/ Goto(t, "listing", Nothing, In(call[t].coll), Nothing)
           \/ pc[t] = "listing" /\ \E s \in todo[t] : ListNext(t, s)
           \/ \E S \in Limited({s \in In(call[t].coll) : Present(db[s])}, call[t].limit) : Answer(t, Of(S))
           \/ \E S \in Limited({s \in In(call[t].coll) : Present(db[s])}, RocksLimit(t)) : Answer(t, Of(S))
           \/ backend = "null" /\ pc[t] = "begin" /\ Return(t, "ok")
           \/ backend \in {"keyring", "memcached"}
<1>. USE DEF Doing
<1>1. CASE backend = "filetree" /\ FtNext(t)
  BY <1>1 DEF FtNext, FtRefuse, LocalRefuse, FtOpen, FtGet, FtTtl, FtGetMany, FtTtlMany, FtPut, FtPutMany, FtPutEither,
      FtDelete, FtDeleteMany, FtDeleteEither, FtCull, FtKeys, FtCollections, FtDestroyCollection, FtDestroy, At, LocalReads, Writes
<1>2. CASE backend = "disk" /\ DiskNext(t)
  BY <1>2 DEF DiskNext, DiskRefuse, LocalRefuse, DiskOpen, DiskGet, DiskTtl, DiskGetMany, DiskTtlMany, DiskItem, DiskPut, DiskPutMany,
      DiskFlush, DiskDelete, DiskDeleteMany, DiskCull, DiskKeys, DiskCollections, DiskDestroyCollection, DiskDestroy, DiskDrop, At,
      LocalReads, Writes, Deletes
<1>3. CASE backend = "rocksdb" /\ RocksNext(t)
  BY <1>3 DEF RocksNext, RocksRefuse, LocalRefuse, RocksOpen, RocksMalformed, RocksGet, RocksTtl, RocksGetMany, RocksTtlMany,
      RocksPut, RocksPutMany, RocksDelete, RocksDeleteMany, RocksDeleteEither, RocksCull, RocksBatch, RocksKeys, RocksCollections,
      RocksDestroyCollection, RocksDestroy, At, LocalReads, Deletes
<1>4. CASE backend = "simple" /\ SimpleNext(t)
  BY <1>4 DEF SimpleNext, SimpleRefuse, SimpleGet, SimpleTtl, SimpleGetMany, SimpleTtlMany, SimpleRead, SimplePut, SimplePutMany,
      SimpleWrite, SimpleDelete, SimpleDeleteMany, SimpleRemove, SimpleCull, SimpleKeys, SimpleCollections, SimpleDestroyCollection,
      SimpleDestroy, At, Writes
<1>5. CASE backend = "null" /\ NullNext(t)
  BY <1>5 DEF NullNext
<1>8. CASE Fail(t)
  BY <1>8 DEF Fail
<1>. QED  BY <1>1, <1>2, <1>3, <1>4, <1>5, <1>8 DEF OwnStep, BackendStep

\* A listing place by place.
LEMMA ListingGoes ==
    ASSUME Lawful, Core, NEW t \in Tasks, Moved(t), Doing(t, {"keys"}), Listing(t), pc[t] = "listing",
           NEW s \in todo[t], ListNext(t, s)
    PROVE  Listing(t)'
<1>0. TypeOK /\ Running(t) /\ UNCHANGED call /\ s \in Slots /\ todo[t] \subseteq Slots /\ found[t] \in [Slots -> Doc]
  BY Runs, DbIs DEF Core
<1>1. PICK stage \in {"ok", "listing"}, f \in [Slots -> Doc] :
              /\ Goto(t, stage, Nothing, todo[t] \ {s}, f) /\ (stage = "ok" => todo[t] = {s})
              /\ TakesIn(t, s, f)
  BY <1>0, ListNextIs
<1>2. pc'[t] = stage /\ todo'[t] = todo[t] \ {s} /\ found'[t] = f
  <2>1. Goto(t, stage, Nothing, todo[t] \ {s}, f)
    BY <1>1
  <2>. QED  BY <1>0, <2>1, GotoIs
<1>. PICK In_ \in SUBSET Slots : In_ = In(call[t].coll)
  BY DEF In
<1>3. Kept(t, In_ \ todo[t])
  BY DEF Listing
<1>4. CASE Cardinality(Shown(t)) < call[t].limit /\ Present(db[s])
  <2>1. f = [found[t] EXCEPT ![s] = db[s]]
    BY <1>1, <1>4 DEF TakesIn, Shown
  <2>2. \A r \in Slots : f[r] = IF r = s THEN db[s] ELSE found[t][r]
    BY <1>0, <2>1
  <2>3. \A r \in Slots : (r \in Shown(t) => r \in Shown(t)') /\ (r \in Shown(t)' <=> Present(f[r])) /\ (r \in Shown(t) <=> Present(found[t][r]))
    BY <1>2, <1>4, <2>2 DEF Shown, Present
  <2>4. s \in Shown(t)' /\ Shown(t)' \subseteq Shown(t) \cup {s}
    BY <1>0, <1>2, <1>4, <2>2 DEF Shown, Present
  <2>5. \A r \in Slots : window[t][r] \subseteq window'[t][r] /\ db[r] \in window'[t][r]
    BY <1>0, WindowGrows
  <2>6. \A r \in Shown(t)' : found'[t][r] \in window'[t][r]
    <3>1. \A r \in Shown(t) : found[t][r] \in window[t][r] /\ r \in Slots
      BY <1>3 DEF Kept, Shown
    <3>. HIDE DEF Shown
    <3>. QED  BY <1>0, <1>2, <2>2, <2>4, <2>5, <3>1
  <2>7. \A r \in In_ \ (todo[t] \ {s}) : Empty \in window'[t][r] \/ r \in Shown(t)'
    <3>1. \A r \in In_ \ todo[t] : Empty \in window[t][r] \/ r \in Shown(t)
      BY <1>3, <1>4 DEF Kept
    <3>. HIDE DEF Shown
    <3>. QED  BY <2>3, <2>4, <2>5, <3>1
  <2>8. In(call[t].coll)' = In_ /\ Empty' = Empty
    BY <1>0 DEF In, Empty
  <2>9. stage = "ok" => todo[t] \ {s} = {}
    BY <1>1
  <2>. HIDE DEF Shown
  <2>. QED  BY <1>0, <1>2, <2>6, <2>7, <2>8, <2>9 DEF Listing, Kept
<1>5. CASE ~(Cardinality(Shown(t)) < call[t].limit /\ Present(db[s]))
  <2>1. found'[t] = found[t]
    BY <1>1, <1>2, <1>5 DEF TakesIn, Shown
  <2>. PICK Q \in SUBSET Slots : Q = In_ \ todo[t]
    OBVIOUS
  <2>2. Kept(t, Q)'
    BY <1>0, <1>3, <2>1, KeptStays
  <2>3. Shown(t)' = Shown(t)
    BY <2>1 DEF Shown, Present
  <2>4. db[s] \in window'[t][s]
    BY <1>0, WindowGrows
  <2>5. Cardinality(Shown(t)') < call'[t].limit => Empty \in window'[t][s]
    <3>. HIDE DEF Shown
    <3>. QED  BY <1>0, <1>5, <2>3, <2>4 DEF Present
  <2>6. In_ \ (todo[t] \ {s}) \subseteq Q \cup {s}
    OBVIOUS
  <2>7. \A r \in Shown(t)' : found'[t][r] \in window'[t][r]
    BY <2>2 DEF Kept
  <2>8. Cardinality(Shown(t)') < call'[t].limit => \A r \in Q : Empty \in window'[t][r] \/ r \in Shown(t)'
    <3>. HIDE DEF Shown
    <3>. QED  BY <2>2 DEF Kept, Empty
  <2>9. In(call[t].coll)' = In_ /\ Empty' = Empty
    BY <1>0 DEF In, Empty
  <2>10. stage = "ok" => todo[t] \ {s} = {}
    BY <1>1
  <2>. HIDE DEF Shown
  <2>. QED  BY <1>0, <1>2, <2>5, <2>6, <2>7, <2>8, <2>9, <2>10 DEF Listing, Kept
<1>. QED  BY <1>4, <1>5

LEMMA ListingNext ==
    ASSUME Core, Next, NEW t \in Tasks, Listing(t)
    PROVE  Listing(t)'
<1>0. Lawful /\ (Idle \/ \E u \in Tasks : Moved(u)) /\ UNCHANGED <<backend, call>> /\ TypeOK
  BY NextLawful, NextCases DEF Next, Core
<1>1. CASE Still(t)
  BY <1>0, <1>1, ListingStill
<1>2. ASSUME Moved(t), Doing(t, {"keys"})
      PROVE  Listing(t)'
  <2>0. OwnStep(t) /\ Running(t) /\ {s \in In(call[t].coll) : Present(db[s])} \subseteq Slots /\ call[t].limit \in Nat
    BY <1>0, <1>2, Runs, CallFacts DEF Moved, In
  <2>1. ASSUME NEW how \in {"error", "invalid", "opening"}, Return(t, how) \/ GoOn(t, how)
        PROVE  Listing(t)'
    <3>1. pc'[t] = how
      BY <1>0, <2>1, GoingIs
    <3>. QED  BY <3>1 DEF Listing
  <2>2. CASE Goto(t, "listing", Nothing, In(call[t].coll), Nothing)
    <3>1. pc'[t] = "listing" /\ todo'[t] = In(call[t].coll) /\ found'[t] = Nothing
      BY <1>0, <2>2, GotoIs
    <3>2. Shown(t)' = {}
      BY <1>0, <3>1, DbIs DEF Shown, Present
    <3>3. (In(call[t].coll) \ todo[t])' = {}
      BY <1>0, <3>1 DEF In
    <3>. HIDE DEF Shown
    <3>. QED  BY <3>1, <3>2, <3>3 DEF Listing, Kept
  <2>3. CASE pc[t] = "listing" /\ \E s \in todo[t] : ListNext(t, s)
    BY <1>0, <1>2, <2>3, ListingGoes
  <2>4. ASSUME NEW n \in Nat, call[t].limit <= n, NEW S \in Limited({s \in In(call[t].coll) : Present(db[s])}, n), Answer(t, Of(S))
        PROVE  Listing(t)'
    <3>. DEFINE P == {s \in In(call[t].coll) : Present(db[s])}
    <3>1. P \in SUBSET Slots /\ S \in Limited(P, n)
      BY <2>0
    <3>2. pc'[t] = "ok" /\ found'[t] = Of(S)
      BY <1>0, <2>4, GoingIs
    <3>3. S \subseteq P /\ (Cardinality(S) < n => S = P)
      <4>. HIDE DEF P
      <4>. QED  BY <3>1, LimitedFacts
    <3>4. Kept(t, In(call[t].coll))'
      BY <1>0, <1>2, <2>4, <3>2, <3>3, KeptAtOnce
    <3>. QED  BY <3>2, <3>4 DEF Listing
  <2>5. CASE backend = "null" /\ pc[t] = "begin" /\ Return(t, "ok")
    <3>1. found[t] = Nothing /\ db = Nothing
      BY <2>5 DEF Core, Begun, NullEmpty
    <3>2. pc'[t] = "ok" /\ found'[t] = Nothing
      BY <1>0, <2>5, <3>1, GoingIs
    <3>3. Shown(t)' = {}
      BY <1>0, <3>2, DbIs DEF Shown, Present
    <3>4. \A s \in Slots : Empty \in window'[t][s]
      BY <1>0, <2>0, <3>1, WindowGrows, DbIs
    <3>5. In(call[t].coll)' \subseteq Slots /\ Empty' = Empty
      BY DEF In, Empty
    <3>. HIDE DEF Shown
    <3>. QED  BY <3>2, <3>3, <3>4, <3>5 DEF Listing, Kept
  <2>6. CASE backend \in {"keyring", "memcached"}
    BY <1>2, <2>6 DEF Core, Supported, Supports, Doing, KeyValue, LocalReads, Writes, Deletes
  <2>7. call[t].limit <= call[t].limit /\ RocksLimit(t) \in Nat /\ call[t].limit <= RocksLimit(t)
    <3>1. \A n \in Nat : n <= n /\ (IF n = 0 THEN 1 ELSE n) \in Nat /\ n <= IF n = 0 THEN 1 ELSE n
      OBVIOUS
    <3>. QED  BY <2>0, <3>1 DEF RocksLimit
  <2>8. ASSUME NEW n \in {call[t].limit, RocksLimit(t)},
               \E S \in Limited({s \in In(call[t].coll) : Present(db[s])}, n) : Answer(t, Of(S))
        PROVE  Listing(t)'
    BY <2>0, <2>4, <2>7, <2>8
  <2>. QED  BY <1>2, <2>0, <2>1, <2>2, <2>3, <2>5, <2>6, <2>8, KeysSteps
<1>3. CASE ~Doing(t, {"keys"})
  BY <1>0, <1>3 DEF Listing, Doing
<1>. QED  BY <1>0, <1>1, <1>2, <1>3 DEF Idle, Moved

LEMMA ListingAnswers ==
    ASSUME \A t \in Tasks : Listing(t)
    PROVE  KeysHeld
<1>. SUFFICES ASSUME NEW t \in Tasks, Answers(t, {"keys"})
              PROVE  /\ \A s \in Slots : Present(found[t][s]) => found[t][s] \in window[t][s]
                     /\ Cardinality(Shown(t)) < call[t].limit =>
                            \A s \in In(call[t].coll) : Empty \notin window[t][s] => Present(found[t][s])
  BY DEF KeysHeld, Shown
<1>1. Kept(t, In(call[t].coll))
  BY DEF Listing, Answers, Done, At, Doing
<1>2. \A s \in Slots : s \in Shown(t) <=> Present(found[t][s])
  BY DEF Shown
<1>3. In(call[t].coll) \subseteq Slots
  BY DEF In
<1>. HIDE DEF Shown
<1>. QED  BY <1>1, <1>2, <1>3 DEF Kept

-----------------------------------------------------------------------------
(* The collections there are *)

\* Unless the limit is reached, what has been listed or is yet to be looked at holds every
\* collection that had an entry all the time.
Named(t, C) ==
    Cardinality(names[t]) < call[t].limit =>
        \A s \in Slots : Empty \in window[t][s] \/ s[1] \in names[t] \/ s[1] \in C

Naming(t) ==
    Doing(t, {"collections"}) =>
        /\ pc[t] = "ok" /\ window[t] # Unwatched => Named(t, {})
        /\ pc[t] = "listing" => Named(t, rest[t])

LEMMA NamedStays ==
    ASSUME Lawful, NEW t \in Tasks, Running(t), NEW C, Named(t, C), names'[t] = names[t]
    PROVE  Named(t, C)'
<1>1. \A s \in Slots : window[t][s] \subseteq window'[t][s]
  BY WindowGrows
<1>. QED  BY <1>1 DEF Named, Empty, Lawful

LEMMA NamingStill ==
    ASSUME Lawful, Core, NEW t \in Tasks, Still(t), Naming(t)
    PROVE  Naming(t)'
<1>1. CASE pc[t] \in Ended
  <2>1. window'[t] = Unwatched /\ pc'[t] = pc[t]
    BY <1>1, WatchFacts DEF Lawful, Still
  <2>. QED  BY <1>1, <2>1 DEF Naming, Ended
<1>2. CASE pc[t] \notin Ended
  <2>. SUFFICES ASSUME Doing(t, {"collections"}), pc[t] = "listing"
                PROVE  Named(t, rest[t])'
    BY <1>2 DEF Naming, Still, Lawful, Doing, Ended
  <2>1. Running(t) /\ names'[t] = names[t] /\ rest'[t] = rest[t]
    BY DEF Running, Still, Lawful, Ended
  <2>. PICK C : C = rest[t]
    OBVIOUS
  <2>2. Named(t, C)'
    BY <2>1, NamedStays DEF Naming
  <2>. QED  BY <2>1, <2>2 DEF Named
<1>. QED  BY <1>1, <1>2

LEMMA CollectionsSteps ==
    ASSUME NEW t \in Tasks, OwnStep(t), Doing(t, {"collections"})
    PROVE  \/ \E how \in {"error", "invalid"} : Return(t, how)
           \/ backend = "filetree" /\ FtCollections(t)
           \/ backend \in {"disk", "simple"} /\ Return(t, "ok") /\ \E N \in Limited(made, call[t].limit) : names' = [names EXCEPT ![t] = N]
           \/ Return(t, "ok") /\ \E N \in Limited({s[1] : s \in {r \in Slots : Present(db[r])}}, RocksLimit(t)) :
                    names' = [names EXCEPT ![t] = N]
           \/ backend = "null" /\ pc[t] = "begin" /\ Return(t, "ok")
           \/ backend \in {"keyring", "memcached"}
<1>. USE DEF Doing
<1>1. CASE backend = "filetree" /\ FtNext(t)
  BY <1>1 DEF FtNext, FtRefuse, LocalRefuse, FtOpen, FtGet, FtTtl, FtGetMany, FtTtlMany, FtPut, FtPutMany, FtPutEither,
      FtDelete, FtDeleteMany, FtDeleteEither, FtCull, FtKeys, FtDestroyCollection, FtDestroy, At, LocalReads, Writes
<1>2. CASE backend = "disk" /\ DiskNext(t)
  BY <1>2 DEF DiskNext, DiskRefuse, LocalRefuse, DiskOpen, DiskGet, DiskTtl, DiskGetMany, DiskTtlMany, DiskItem, DiskPut, DiskPutMany,
      DiskFlush, DiskDelete, DiskDeleteMany, DiskCull, DiskKeys, DiskCollections, DiskDestroyCollection, DiskDestroy, DiskDrop, At,
      LocalReads, Writes, Deletes
<1>3. CASE backend = "rocksdb" /\ RocksNext(t)
  BY <1>3 DEF RocksNext, RocksRefuse, LocalRefuse, RocksOpen, RocksMalformed, RocksGet, RocksTtl, RocksGetMany, RocksTtlMany,
      RocksPut, RocksPutMany, RocksDelete, RocksDeleteMany, RocksDeleteEither, RocksCull, RocksBatch, RocksKeys, RocksCollections,
      RocksDestroyCollection, RocksDestroy, At, LocalReads, Deletes
<1>4. CASE backend = "simple" /\ SimpleNext(t)
  BY <1>4 DEF SimpleNext, SimpleRefuse, SimpleGet, SimpleTtl, SimpleGetMany, SimpleTtlMany, SimpleRead, SimplePut, SimplePutMany,
      SimpleWrite, SimpleDelete, SimpleDeleteMany, SimpleRemove, SimpleCull, SimpleKeys, SimpleCollections, SimpleDestroyCollection,
      SimpleDestroy, At, Writes
<1>5. CASE backend = "null" /\ NullNext(t)
  BY <1>5 DEF NullNext
<1>8. CASE Fail(t)
  BY <1>8 DEF Fail
<1>. QED  BY <1>1, <1>2, <1>3, <1>4, <1>5, <1>8 DEF OwnStep, BackendStep

\* A listing at once, of all collections that hold an entry.
LEMMA NamedAtOnce ==
    ASSUME Lawful, Core, NEW t \in Tasks, Moved(t), NEW C \in SUBSET Collections, \A s \in Slots : Present(db[s]) => s[1] \in C,
           NEW n \in Nat, call[t].limit <= n, NEW N \in Limited(C, n), names' = [names EXCEPT ![t] = N], pc'[t] = "ok"
    PROVE  Naming(t)'
<1>0. TypeOK /\ Running(t) /\ UNCHANGED call /\ call[t].limit \in Nat
  BY Runs, CallFacts DEF Core
<1>1. names'[t] = N
  BY <1>0 DEF TypeOK
<1>2. IsFiniteSet(C)
  BY SlotsAssumption, FS_Subset
<1>3. Cardinality(N) \in Nat /\ (Cardinality(N) < n => N = C)
  BY <1>2, LimitedIs
<1>4. \A s \in Slots : db[s] \in window'[t][s]
  BY <1>0, WindowGrows
<1>5. Cardinality(N) < call[t].limit => \A s \in Slots : Empty \in window'[t][s] \/ s[1] \in N
  <2>1. Cardinality(N) < call[t].limit => Cardinality(N) < n
    BY <1>0, <1>3
  <2>. QED  BY <1>3, <1>4, <2>1 DEF Present
<1>. QED  BY <1>0, <1>1, <1>5 DEF Naming, Named, Empty

\* The file tree's listing, directory by directory.
LEMMA FtNaming ==
    ASSUME Lawful, Core, EntriesHoused, NEW t \in Tasks, Moved(t), backend = "filetree", FtCollections(t), Naming(t)
    PROVE  Naming(t)'
<1>0. TypeOK /\ Running(t) /\ UNCHANGED <<backend, call>> /\ \A s \in Slots : s[1] \in Collections
  BY Runs, SlotsAssumption DEF Core
<1>1. CASE pc[t] = "begin"
  <2>1. rest'[t] = Collections /\ pc'[t] \in {"listing", "error"}
    <3>1. GoOn(t, "listing") \/ GoOn(t, "error")
      BY <1>1 DEF FtCollections, At
    <3>2. pc'[t] \in {"listing", "error"}
      BY <1>0, <3>1, GoingIs
    <3>. QED  BY <1>0, <1>1, <3>2 DEF FtCollections, At, TypeOK
  <2>. QED  BY <1>0, <2>1 DEF Naming, Named
<1>2. CASE pc[t] = "listing"
  <2>1. PICK c \in rest[t] :
            /\ rest' = [rest EXCEPT ![t] = @ \ {c}]
            /\ names' = [names EXCEPT ![t] = IF c \in made THEN FtTake(t, c) ELSE @]
            /\ GoOn(t, IF rest[t] = {c} THEN "ok" ELSE "listing")
    BY <1>2 DEF FtCollections, At
  <2>2. rest'[t] = rest[t] \ {c} /\ names'[t] = (IF c \in made THEN FtTake(t, c) ELSE names[t])
    BY <1>0, <2>1 DEF TypeOK
  <2>3. pc'[t] = (IF rest[t] = {c} THEN "ok" ELSE "listing")
    BY <1>0, <2>1, GoingIs
  <2>4. Named(t, rest[t])
    BY <1>2 DEF Naming, FtCollections, At, Doing
  <2>5. \A s \in Slots : Empty \in window[t][s] => Empty \in window'[t][s]
    BY <1>0, WindowGrows
  <2>6. \A s \in Slots : Empty \in window'[t][s] \/ s[1] \in made
    <3>1. \A s \in Slots : db[s] \in window'[t][s]
      BY <1>0, WindowGrows
    <3>. QED  BY <3>1 DEF EntriesHoused, Present
  <2>7. ASSUME Cardinality(names'[t]) < call[t].limit
        PROVE  \A s \in Slots : Empty \in window'[t][s] \/ s[1] \in names'[t] \/ s[1] \in rest'[t]
    <3>1. Cardinality(names[t]) < call[t].limit
      BY <2>2, <2>7 DEF FtTake
    <3>2. names'[t] = IF c \in made THEN names[t] \cup {c} ELSE names[t]
      BY <2>2, <3>1 DEF FtTake
    <3>. QED  BY <2>2, <2>4, <2>5, <2>6, <3>1, <3>2 DEF Named
  <2>8. rest[t] = {c} => rest'[t] = {}
    BY <2>2
  <2>. QED  BY <1>0, <2>3, <2>7, <2>8 DEF Naming, Named, Empty
<1>. QED  BY <1>1, <1>2 DEF FtCollections, At

LEMMA NamingNext ==
    ASSUME Core, Next, EntriesHoused, NEW t \in Tasks, Naming(t)
    PROVE  Naming(t)'
<1>0. Lawful /\ (Idle \/ \E u \in Tasks : Moved(u)) /\ UNCHANGED <<backend, call>> /\ TypeOK
  BY NextLawful, NextCases DEF Next, Core
<1>1. CASE Still(t)
  BY <1>0, <1>1, NamingStill
<1>2. ASSUME Moved(t), Doing(t, {"collections"})
      PROVE  Naming(t)'
  <2>0. OwnStep(t) /\ Running(t) /\ call[t].limit \in Nat
    BY <1>0, <1>2, Runs, CallFacts DEF Moved
  <2>1. ASSUME NEW how \in {"error", "invalid"}, Return(t, how)
        PROVE  Naming(t)'
    <3>1. pc'[t] = how
      BY <1>0, <2>1, GoingIs
    <3>. QED  BY <3>1 DEF Naming
  <2>2. CASE backend = "filetree" /\ FtCollections(t)
    BY <1>0, <1>2, <2>2, FtNaming
  <2>3. ASSUME backend \in {"disk", "simple"}, Return(t, "ok"),
               NEW N \in Limited(made, call[t].limit), names' = [names EXCEPT ![t] = N]
        PROVE  Naming(t)'
    <3>1. pc'[t] = "ok"
      BY <1>0, <2>3, GoingIs
    <3>2. made \in SUBSET Collections /\ \A s \in Slots : Present(db[s]) => s[1] \in made
      BY <2>3 DEF Core, MadeOk, EntriesHoused
    <3>3. call[t].limit <= call[t].limit
      BY <2>0
    <3>. QED  BY <1>0, <1>2, <2>0, <2>3, <3>1, <3>2, <3>3, NamedAtOnce
  <2>4. ASSUME Return(t, "ok"), NEW N \in Limited({s[1] : s \in {r \in Slots : Present(db[r])}}, RocksLimit(t)),
               names' = [names EXCEPT ![t] = N]
        PROVE  Naming(t)'
    <3>1. pc'[t] = "ok"
      BY <1>0, <2>4, GoingIs
    <3>. DEFINE C == {s[1] : s \in {r \in Slots : Present(db[r])}}
    <3>2. C \in SUBSET Collections /\ (\A s \in Slots : Present(db[s]) => s[1] \in C) /\ N \in Limited(C, RocksLimit(t))
      BY <2>4, SlotsAssumption
    <3>3. RocksLimit(t) \in Nat /\ call[t].limit <= RocksLimit(t)
      <4>1. \A n \in Nat : (IF n = 0 THEN 1 ELSE n) \in Nat /\ n <= IF n = 0 THEN 1 ELSE n
        OBVIOUS
      <4>. QED  BY <2>0, <4>1 DEF RocksLimit
    <3>. HIDE DEF C
    <3>. QED  BY <1>0, <1>2, <2>4, <3>1, <3>2, <3>3, NamedAtOnce
  <2>5. CASE backend = "null" /\ pc[t] = "begin" /\ Return(t, "ok")
    <3>1. db = Nothing /\ pc'[t] = "ok"
      BY <1>0, <2>5, GoingIs DEF Core, NullEmpty
    <3>2. \A s \in Slots : Empty \in window'[t][s]
      BY <1>0, <2>0, <3>1, WindowGrows, DbIs
    <3>. QED  BY <3>1, <3>2 DEF Naming, Named, Empty
  <2>6. CASE backend \in {"keyring", "memcached"}
    BY <1>2, <2>6 DEF Core, Supported, Supports, Doing, KeyValue, LocalReads, Writes, Deletes
  <2>. QED  BY <1>2, <2>0, <2>1, <2>2, <2>3, <2>4, <2>5, <2>6, CollectionsSteps
<1>3. CASE ~Doing(t, {"collections"})
  BY <1>0, <1>3 DEF Naming, Doing
<1>. QED  BY <1>0, <1>1, <1>2, <1>3 DEF Idle, Moved

LEMMA NamingAnswers ==
    ASSUME \A t \in Tasks : Naming(t)
    PROVE  CollectionsComplete
<1>. SUFFICES ASSUME NEW t \in Tasks, Answers(t, {"collections"}), Cardinality(names[t]) < call[t].limit,
                     NEW s \in Slots, \A d \in window[t][s] : Live(d)
              PROVE  s[1] \in names[t]
  BY DEF CollectionsComplete
<1>1. Named(t, {})
  BY DEF Naming, Answers, Done, At, Doing
<1>2. Empty \notin window[t][s]
  BY DEF Live, Present
<1>. QED  BY <1>1, <1>2 DEF Named

-----------------------------------------------------------------------------
(* What writes have stored *)

\* A call has stored what it has passed, in order; of what it has stored under a key the
\* last is what it left there.
Storing(t) == pc[t] \in {"item", "writing", "flushing"} \/ (pc[t] = "ok" /\ window[t] # Unwatched)
Behind(t) == {j \in DOMAIN call[t].keys : j \notin rest[t] \/ (pc[t] = "writing" /\ j = NextPosition(t))}
Landeds(t, B) ==
    \A s \in Target(t) :
        /\ LastPosition(t, s) \in B => Landed(t, s)
        /\ db[s].writer[1] = t => \A j \in Positions(t, s) \cap B : j <= db[s].writer[2]
Landing(t) ==
    backend # "null" /\ Doing(t, Writes) /\ Storing(t) =>
        /\ pc[t] \in {"ok", "flushing"} => rest[t] = {}
        /\ \A i \in DOMAIN call[t].keys \ rest[t] : \A j \in rest[t] : i < j
        /\ Landeds(t, Behind(t))

LEMMA LandedsStay ==
    ASSUME Lawful, NEW t \in Tasks, Running(t), NEW B, Landeds(t, B),
           \A s \in Slots : db'[s].writer[1] = t => db'[s] = db[s]
    PROVE  Landeds(t, B)'
<1>1. /\ Target(t)' = Target(t) /\ Target(t) \subseteq Slots /\ \A s : Positions(t, s)' = Positions(t, s)
      /\ \A s : LastPosition(t, s)' = LastPosition(t, s)
  BY DEF Lawful, Target, Positions, LastPosition
<1>2. \A s \in Slots : Landed(t, s) => Landed(t, s)'
  BY LandedStays
<1>. HIDE DEF Target, Positions, LastPosition, Landed
<1>. SUFFICES ASSUME NEW s \in Target(t)
              PROVE  /\ LastPosition(t, s) \in B => Landed(t, s)'
                     /\ db'[s].writer[1] = t => \A j \in Positions(t, s) \cap B : j <= db'[s].writer[2]
  BY <1>1 DEF Landeds
<1>3. s \in Slots /\ (LastPosition(t, s) \in B => Landed(t, s))
      /\ (db[s].writer[1] = t => \A j \in Positions(t, s) \cap B : j <= db[s].writer[2])
  BY <1>1 DEF Landeds
<1>. QED  BY <1>2, <1>3

\* One more of the items is stored.
LEMMA LandsOne ==
    ASSUME Lawful, NEW t \in Tasks, Running(t), NEW B \in SUBSET Nat, Landeds(t, B), NEW n \in Nat, \A j \in B : j <= n,
           NEW z \in Slots, \A s \in Target(t) : n \in Positions(t, s) => s = z,
           db'[z].writer = <<t, n>>, \A s \in Slots \ {z} : db'[s] = db[s]
    PROVE  Landeds(t, B \cup {n})'
<1>1. /\ Target(t)' = Target(t) /\ Target(t) \subseteq Slots /\ \A s : Positions(t, s)' = Positions(t, s)
      /\ \A s : LastPosition(t, s)' = LastPosition(t, s)
      /\ \A s \in Target(t) : LastPosition(t, s) \in Positions(t, s)
  <2>1. /\ Target(t)' = Target(t) /\ Target(t) \subseteq Slots /\ \A s : Positions(t, s)' = Positions(t, s)
        /\ \A s : LastPosition(t, s)' = LastPosition(t, s)
    BY DEF Lawful, Target, Positions, LastPosition
  <2>2. \A s \in Target(t) : LastPosition(t, s) \in Positions(t, s)
    BY PositionFacts DEF Lawful
  <2>. QED  BY <2>1, <2>2
<1>2. \A s \in Slots : Landed(t, s) \/ db'[s].writer = <<t, LastPosition(t, s)>> => Landed(t, s)'
  BY LandedStays
<1>3. \A j \in B \cup {n} : j <= n
  OBVIOUS
<1>. HIDE DEF Target, Positions, LastPosition, Landed
<1>. SUFFICES ASSUME NEW s \in Target(t)
              PROVE  /\ LastPosition(t, s) \in B \cup {n} => Landed(t, s)'
                     /\ db'[s].writer[1] = t => \A j \in Positions(t, s) \cap (B \cup {n}) : j <= db'[s].writer[2]
  BY <1>1 DEF Landeds
<1>4. s \in Slots /\ (LastPosition(t, s) \in B => Landed(t, s))
      /\ (db[s].writer[1] = t => \A j \in Positions(t, s) \cap B : j <= db[s].writer[2])
  BY <1>1 DEF Landeds
<1>5. LastPosition(t, s) \in B \cup {n} => Landed(t, s)'
  BY <1>1, <1>2, <1>4
<1>6. CASE s = z
  <2>1. db'[s].writer[2] = n
    BY <1>6
  <2>. QED  BY <1>3, <1>5, <2>1
<1>7. CASE s # z
  <2>1. db'[s] = db[s] /\ n \notin Positions(t, s)
    BY <1>1, <1>4, <1>7
  <2>. QED  BY <1>4, <1>5, <2>1
<1>. QED  BY <1>6, <1>7

LEMMA LandingStill ==
    ASSUME Core, Next, NEW t \in Tasks, Still(t), Landing(t), Idle \/ \E u \in Tasks \ {t} : Moved(u)
    PROVE  Landing(t)'
<1>0. Lawful /\ UNCHANGED <<backend, call>>
  BY NextLawful DEF Next
<1>1. CASE pc[t] \in Ended
  <2>1. window'[t] = Unwatched /\ pc'[t] = pc[t]
    BY <1>0, <1>1, WatchFacts DEF Lawful, Still
  <2>. QED  BY <1>1, <2>1 DEF Landing, Storing, Ended
<1>2. CASE pc[t] = "begin"
  BY <1>2 DEF Landing, Storing, Still
<1>3. CASE pc[t] \notin Ended /\ pc[t] # "begin"
  <2>1. /\ Running(t) /\ pc'[t] = pc[t] /\ rest'[t] = rest[t] /\ pc[t] # "ok" /\ NextPosition(t)' = NextPosition(t)
    BY <1>0, <1>3, NextStill DEF Running, Still, Ended
  <2>. SUFFICES ASSUME backend # "null", Doing(t, Writes), Storing(t)
                PROVE  Landing(t)'
    BY <1>0, <2>1 DEF Landing, Storing, Doing
  <2>2. \A s \in Slots : db'[s].writer[1] = t => db'[s] = db[s]
    <3>1. CASE Idle
      BY <3>1, TasksAssumption DEF Idle, Drops, Empty
    <3>2. ASSUME NEW u \in Tasks \ {t}, Moved(u)
          PROVE  \A s \in Slots : db'[s].writer[1] = t => db'[s] = db[s]
      BY <3>2, TasksAssumption DEF Moved, Legal, Effect, Empty
    <3>. QED  BY <3>1, <3>2
  <2>. PICK B : B = Behind(t)
    OBVIOUS
  <2>3. Behind(t)' = B
    BY <1>0, <2>1 DEF Behind
  <2>4. Landeds(t, B)'
    BY <1>0, <2>1, <2>2, LandedsStay DEF Landing
  <2>5. Landeds(t, Behind(t))'
    <3>1. Landeds(t, Behind(t))' <=> Landeds(t, B)'
      BY <2>3 DEF Landeds
    <3>. QED  BY <2>4, <3>1
  <2>. HIDE DEF Landeds
  <2>. QED  BY <1>0, <2>1, <2>5 DEF Landing
<1>. QED  BY <1>1, <1>2, <1>3

\* The steps that writes take.
WriteSteps(t) ==
    \/ \E how \in {"error", "invalid"} : Return(t, how)
    \/ pc[t] = "begin" /\ db' = db /\ \E last \in {"ok", "flushing"} : Loop(t, last)
    \/ pc[t] = "begin" /\ db' = Stored(Target(t), Prepared(t)) /\ Return(t, "ok") /\ rest' = rest
    \/ /\ pc[t] = "item" /\ \E last \in {"ok", "flushing"} : Advance(t, last, found[t])
       /\ db' = [db EXCEPT ![NextSlot(t)] = NewDoc(t, NextPosition(t), since[t])]
    \/ pc[t] = "flushing" /\ db' = db /\ Return(t, "ok") /\ rest' = rest
    \/ pc[t] = "item" /\ backend = "filetree" /\ FtTruncate(t) /\ rest' = rest
    \/ pc[t] = "writing" /\ backend = "filetree" /\ FtWrite(t)

LEMMA WritesStep ==
    ASSUME NEW t \in Tasks, OwnStep(t), Doing(t, Writes), backend # "null"
    PROVE  WriteSteps(t)
<1>. USE DEF Doing, Writes
<1>1. CASE backend = "filetree" /\ FtNext(t)
  <2>1. FtRefuse(t) \/ FtOpen(t) \/ FtPut(t) \/ FtPutMany(t)
    BY <1>1 DEF FtNext, FtGet, FtTtl, FtGetMany, FtTtlMany,
      FtDelete, FtDeleteMany, FtDeleteEither, FtCull, FtKeys, FtCollections, FtDestroyCollection, FtDestroy, At
  <2>2. CASE FtRefuse(t)
    BY <2>2 DEF FtRefuse, LocalRefuse, WriteSteps
  <2>3. CASE FtOpen(t)
    BY <2>3 DEF FtOpen, FtEnsure, At, WriteSteps
  <2>4. CASE FtPut(t) \/ FtPutMany(t)
    BY <1>1, <2>4 DEF FtPut, FtPutMany, FtPutEither, At, WriteSteps
  <2>. QED  BY <2>1, <2>2, <2>3, <2>4
<1>2. CASE backend = "disk" /\ DiskNext(t)
  <2>1. DiskRefuse(t) \/ DiskOpen(t) \/ DiskPut(t) \/ DiskPutMany(t)
    BY <1>2 DEF DiskNext, DiskGet, DiskTtl, DiskGetMany, DiskTtlMany, DiskItem, DiskDelete, DiskDeleteMany, DiskCull, DiskKeys,
      DiskCollections, DiskDestroyCollection, DiskDestroy, DiskDrop, At
  <2>2. CASE DiskRefuse(t)
    BY <2>2 DEF DiskRefuse, LocalRefuse, WriteSteps
  <2>3. CASE DiskOpen(t)
    BY <2>3 DEF DiskOpen, DiskOpenTree, At, WriteSteps
  <2>4. CASE DiskPut(t) \/ DiskPutMany(t)
    BY <2>4 DEF DiskPut, DiskPutMany, DiskItem, DiskInsert, DiskFlush, At, WriteSteps
  <2>. QED  BY <2>1, <2>2, <2>3, <2>4
<1>3. CASE backend = "rocksdb" /\ RocksNext(t)
  <2>1. RocksRefuse(t) \/ RocksPut(t) \/ RocksPutMany(t) \/ RocksMalformed(t)
    BY <1>3 DEF RocksNext, RocksOpen, RocksGet, RocksTtl, RocksGetMany, RocksTtlMany, LocalReads, Deletes,
      RocksDelete, RocksDeleteMany, RocksDeleteEither, RocksCull, RocksBatch, RocksKeys, RocksCollections, RocksDestroyCollection, RocksDestroy, At
  <2>2. CASE RocksRefuse(t)
    BY <2>2 DEF RocksRefuse, LocalRefuse, WriteSteps
  <2>3. CASE RocksPut(t) \/ RocksPutMany(t)
    BY <2>3 DEF RocksPut, RocksPutMany, RocksStep, At, WriteSteps
  <2>4. CASE RocksMalformed(t)
    BY <2>4 DEF RocksMalformed, WriteSteps
  <2>. QED  BY <2>1, <2>2, <2>3, <2>4
<1>4. CASE backend = "simple" /\ SimpleNext(t)
  <2>1. SimpleRefuse(t) \/ SimplePut(t) \/ SimplePutMany(t)
    BY <1>4 DEF SimpleNext, SimpleGet, SimpleTtl, SimpleGetMany, SimpleTtlMany, SimpleRead,
      SimpleDelete, SimpleDeleteMany, SimpleRemove, SimpleCull, SimpleKeys, SimpleCollections, SimpleDestroyCollection, SimpleDestroy, At
  <2>. QED  BY <2>1 DEF SimpleRefuse, SimplePut, SimplePutMany, SimpleWrite, SimpleStep, At, WriteSteps
<1>6. CASE backend = "keyring" /\ KeyringNext(t)
  <2>1. KeyringRefuse(t) \/ KeyringOpen(t) \/ KeyringPut(t) \/ KeyringPutMany(t)
    BY <1>6 DEF KeyringNext, KeyringGet, KeyringTtl, KeyringGetMany, KeyringTtlMany, KeyringRead, KeyringDelete, KeyringDeleteMany, At
  <2>2. CASE KeyringRefuse(t)
    BY <2>2 DEF KeyringRefuse, LocalRefuse, WriteSteps
  <2>3. CASE KeyringOpen(t)
    BY <2>3 DEF KeyringOpen, WriteSteps
  <2>4. CASE KeyringPut(t) \/ KeyringPutMany(t)
    BY <2>4 DEF KeyringPut, KeyringPutMany, KeyringSet, At, WriteSteps
  <2>. QED  BY <2>1, <2>2, <2>3, <2>4
<1>7. CASE backend = "memcached" /\ McNext(t)
  <2>1. McRefuse(t) \/ McOpen(t) \/ McPut(t) \/ McPutMany(t)
    BY <1>7 DEF McNext, McGet, McTtl, McGetMany, McTtlMany, McFetch, McDelete, McDeleteMany, McDestroy, At
  <2>2. CASE McRefuse(t)
    BY <2>2 DEF McRefuse, LocalRefuse, WriteSteps
  <2>3. CASE McOpen(t)
    BY <2>3 DEF McOpen, At, WriteSteps
  <2>4. CASE McPut(t) \/ McPutMany(t)
    BY <2>4 DEF McPut, McPutMany, McSet, At, WriteSteps
  <2>. QED  BY <2>1, <2>2, <2>3, <2>4
<1>8. CASE Fail(t)
  BY <1>8 DEF Fail, WriteSteps
<1>. QED  BY <1>1, <1>2, <1>3, <1>4, <1>6, <1>7, <1>8 DEF OwnStep, BackendStep

\* What a call at an item has before it.
LEMMA ItemFacts ==
    ASSUME Core, NEW t \in Tasks, Doing(t, Writes), Landing(t), backend # "null",
           pc[t] = "item" \/ (pc[t] = "writing" /\ backend = "filetree")
    PROVE  \E n \in Nat, z \in Slots, D \in SUBSET Nat, R \in SUBSET Nat :
              /\ n = NextPosition(t) /\ z = NextSlot(t) /\ D = DOMAIN call[t].keys /\ R = rest[t] /\ n \in R /\ R \subseteq D
              /\ \A s \in Target(t) : n \in Positions(t, s) => s = z
              /\ \A i \in D \ (R \ {n}) : \A j \in R \ {n} : i < j
              /\ \A i \in D \ R : \A j \in R : i < j
              /\ \A i \in D \ (R \ {n}) : i <= n
              /\ Landeds(t, Behind(t)) /\ Behind(t) = D \ (IF pc[t] = "writing" THEN R \ {n} ELSE R)
              /\ NewDoc(t, n, since[t]).writer = <<t, n>> /\ Taking(t)
<1>1. Taking(t)
  BY DEF Taking, Takes, Doing, Writes, KeyValue
<1>. PICK n, z, D, R : n = NextPosition(t) /\ z = NextSlot(t) /\ D = DOMAIN call[t].keys /\ R = rest[t]
  OBVIOUS
<1>2. /\ R \subseteq D /\ n \in R /\ (\A j \in R : n <= j) /\ z \in Slots /\ n \in Positions(t, z) /\ n \in D
  BY <1>1, NextIs
<1>3. D \in SUBSET Nat /\ R \in SUBSET Nat /\ n \in Nat
  BY <1>2, KeysNumbered DEF Core
<1>4. NewDoc(t, n, since[t]).writer = <<t, n>>
  BY <1>1, NextDocIs
<1>5. (\A i \in D \ R : \A j \in R : i < j) /\ Landeds(t, Behind(t))
  BY DEF Landing, Storing
<1>6. /\ \A i \in D \ (R \ {n}) : \A j \in R \ {n} : i < j
      /\ \A i \in D \ (R \ {n}) : i <= n
  BY <1>2, <1>3, <1>5, AfterAll
<1>7. \A s \in Target(t) : n \in Positions(t, s) => s = z
  BY SlotsAssumption DEF Positions, NextSlot, Target
<1>8. Behind(t) = D \ (IF pc[t] = "writing" THEN R \ {n} ELSE R)
  BY <1>2 DEF Behind
<1>. QED  BY <1>1, <1>2, <1>3, <1>4, <1>5, <1>6, <1>7, <1>8

\* What is right after a step.
LEMMA LandingAfter ==
    ASSUME Lawful, NEW t \in Tasks, NEW B, Landeds(t, B)', B = Behind(t)',
           pc'[t] \in {"ok", "flushing"} => rest'[t] = {},
           \A i \in DOMAIN call[t].keys \ rest'[t] : \A j \in rest'[t] : i < j
    PROVE  Landing(t)'
<1>1. Landeds(t, Behind(t))'
  BY DEF Landeds
<1>. HIDE DEF Landeds, Behind
<1>. QED  BY <1>1 DEF Landing, Lawful

LEMMA LandingStep ==
    ASSUME Core, Next, NEW t \in Tasks, Moved(t), Doing(t, Writes), backend # "null", Landing(t)
    PROVE  Landing(t)'
<1>0. /\ Lawful /\ TypeOK /\ OwnStep(t) /\ UNCHANGED <<backend, call>> /\ Running(t) /\ Begun(t)
      /\ OwnDocs(t) /\ Target(t)' = Target(t) /\ Doing(t, KeyValue)
      /\ pc[t] \notin Ended
  BY Runs, NextLawful DEF Core, Moved, Target, Doing, KeyValue
<1>1. WriteSteps(t)
  BY <1>0, WritesStep
<1>2. CASE \E how \in {"error", "invalid"} : Return(t, how)
  BY <1>0, <1>2, GoingIs DEF Landing, Storing
<1>3. CASE pc[t] = "begin" /\ db' = db /\ \E last \in {"ok", "flushing"} : Loop(t, last)
  <2>. PICK last \in {"ok", "flushing"} : Loop(t, last)
    BY <1>3
  <2>1. /\ pc'[t] = (IF call[t].keys = <<>> THEN last ELSE "item") /\ rest'[t] = DOMAIN call[t].keys
        /\ call[t].keys = <<>> => DOMAIN call[t].keys = {}
    BY <1>0, LoopIs
  <2>2. {} = Behind(t)'
    BY <1>0, <2>1 DEF Behind
  <2>3. \A s \in Slots : db'[s].writer[1] # t
    BY <1>0, <1>3 DEF OwnDocs
  <2>4. Landeds(t, {})'
    BY <1>0, <2>3 DEF Landeds, Target
  <2>. HIDE DEF Landeds
  <2>. QED  BY <1>0, <2>1, <2>2, <2>4, LandingAfter
<1>4. CASE pc[t] = "begin" /\ db' = Stored(Target(t), Prepared(t)) /\ Return(t, "ok") /\ rest' = rest
  <2>1. pc'[t] = "ok" /\ rest'[t] = {}
    BY <1>0, <1>4, GoingIs DEF Begun
  <2>. PICK D : D = DOMAIN call[t].keys
    OBVIOUS
  <2>2. D = Behind(t)'
    BY <1>0, <2>1 DEF Behind
  <2>3. \A s \in Target(t) : db'[s].writer = <<t, LastPosition(t, s)>>
    <3>1. Prepared(t) \in [Slots -> Doc] /\ \A s \in Target(t) : Prepared(t)[s].writer = <<t, LastPosition(t, s)>>
      BY <1>0, PreparedIs
    <3>2. Target(t) \in SUBSET Slots
      BY DEF Target
    <3>. HIDE DEF Target, LastPosition, Prepared
    <3>. QED  BY <1>0, <1>4, <3>1, <3>2, DbIs
  <2>4. \A s \in Target(t) : Landed(t, s)' /\ s \in Slots
    BY <1>0, <2>3, LandedStays DEF Target
  <2>5. \A s \in Target(t) : \A j \in Positions(t, s) : j <= LastPosition(t, s)
    BY <1>0, PositionFacts
  <2>6. \A s : Positions(t, s)' = Positions(t, s)
    BY <1>0 DEF Positions
  <2>. HIDE DEF Target, LastPosition, Landed, Positions
  <2>7. Landeds(t, D)'
    BY <1>0, <2>3, <2>4, <2>5, <2>6 DEF Landeds
  <2>. HIDE DEF Landeds
  <2>. QED  BY <1>0, <2>1, <2>2, <2>7, LandingAfter
<1>5. CASE /\ pc[t] = "item" /\ \E last \in {"ok", "flushing"} : Advance(t, last, found[t])
           /\ db' = [db EXCEPT ![NextSlot(t)] = NewDoc(t, NextPosition(t), since[t])]
  <2>. PICK n \in Nat, z \in Slots, D \in SUBSET Nat, R \in SUBSET Nat :
              /\ n = NextPosition(t) /\ z = NextSlot(t) /\ D = DOMAIN call[t].keys /\ R = rest[t] /\ n \in R /\ R \subseteq D
              /\ \A s \in Target(t) : n \in Positions(t, s) => s = z
              /\ \A i \in D \ (R \ {n}) : \A j \in R \ {n} : i < j
              /\ \A i \in D \ R : \A j \in R : i < j
              /\ \A i \in D \ (R \ {n}) : i <= n
              /\ Landeds(t, Behind(t)) /\ Behind(t) = D \ (IF pc[t] = "writing" THEN R \ {n} ELSE R)
              /\ NewDoc(t, n, since[t]).writer = <<t, n>> /\ Taking(t)
    BY <1>5, ItemFacts
  <2>. PICK last \in {"ok", "flushing"} : Advance(t, last, found[t])
    BY <1>5
  <2>1. /\ pc'[t] = (IF R = {n} THEN last ELSE "item") /\ rest'[t] = R \ {n}
    <3>1. last \in Onward /\ ~Takes(t, last) /\ found[t] \in [Slots -> Doc]
      BY <1>0, DbIs DEF Onward, Stages, Ended, Takes
    <3>2. Advance(t, last, found[t]) /\ Taking(t)
      OBVIOUS
    <3>. QED  BY <3>1, <3>2, AdvanceIs
  <2>2. /\ db'[z].writer = <<t, n>> /\ \A s \in Slots \ {z} : db'[s] = db[s]
    <3>1. db' = [db EXCEPT ![z] = NewDoc(t, n, since[t])] /\ NewDoc(t, n, since[t]).writer = <<t, n>>
      BY <1>5
    <3>2. db \in [Slots -> Doc]
      BY <1>0 DEF TypeOK
    <3>. HIDE DEF NewDoc
    <3>. QED  BY <3>1, <3>2
  <2>. PICK B \in SUBSET Nat : B = D \ R
    OBVIOUS
  <2>3. Landeds(t, B) /\ \A j \in B : j <= n
    <3>1. Landeds(t, Behind(t)) /\ Behind(t) = B
      BY <1>5
    <3>2. Landeds(t, B)
      BY <3>1
    <3>. QED  BY <3>2
  <2>4. Landeds(t, B \cup {n})'
    BY <1>0, <2>2, <2>3, LandsOne
  <2>5. B \cup {n} = Behind(t)'
    BY <1>0, <2>1 DEF Behind
  <2>. HIDE DEF Landeds, Behind
  <2>6. \A i \in DOMAIN call[t].keys \ rest'[t] : \A j \in rest'[t] : i < j
    BY <2>1
  <2>. QED  BY <1>0, <2>1, <2>4, <2>5, <2>6, LandingAfter
<1>6. CASE pc[t] = "flushing" /\ db' = db /\ Return(t, "ok") /\ rest' = rest
  <2>1. pc'[t] = "ok" /\ rest'[t] = {} /\ rest[t] = {} /\ Landeds(t, Behind(t))
    BY <1>0, <1>6, GoingIs DEF Landing, Storing
  <2>. PICK B : B = Behind(t)
    OBVIOUS
  <2>2. B = Behind(t)'
    BY <1>0, <1>6, <2>1 DEF Behind
  <2>3. Landeds(t, B)'
    BY <1>0, <1>6, <2>1, LandedsStay
  <2>. HIDE DEF Landeds, Behind
  <2>. QED  BY <1>0, <2>1, <2>2, <2>3, LandingAfter
<1>7. CASE pc[t] = "item" /\ backend = "filetree" /\ FtTruncate(t) /\ rest' = rest
  <2>. PICK n \in Nat, z \in Slots, D \in SUBSET Nat, R \in SUBSET Nat :
              /\ n = NextPosition(t) /\ z = NextSlot(t) /\ D = DOMAIN call[t].keys /\ R = rest[t] /\ n \in R /\ R \subseteq D
              /\ \A s \in Target(t) : n \in Positions(t, s) => s = z
              /\ \A i \in D \ (R \ {n}) : \A j \in R \ {n} : i < j
              /\ \A i \in D \ R : \A j \in R : i < j
              /\ \A i \in D \ (R \ {n}) : i <= n
              /\ Landeds(t, Behind(t)) /\ Behind(t) = D \ (IF pc[t] = "writing" THEN R \ {n} ELSE R)
              /\ NewDoc(t, n, since[t]).writer = <<t, n>> /\ Taking(t)
    BY <1>7, ItemFacts
  <2>1. CASE Return(t, "error")
    BY <1>0, <2>1, GoingIs DEF Landing, Storing
  <2>2. CASE GoOn(t, "writing") /\ db' = [db EXCEPT ![z] = FtTorn(NewDoc(t, n, since[t]))]
    <3>1. pc'[t] = "writing" /\ rest'[t] = R
      BY <1>0, <1>7, <2>2, GoingIs
    <3>2. /\ db'[z].writer = <<t, n>> /\ \A s \in Slots \ {z} : db'[s] = db[s]
      <4>1. FtTorn(NewDoc(t, n, since[t])).writer = <<t, n>>
        BY DEF FtTorn, NewDoc
      <4>2. db \in [Slots -> Doc]
        BY <1>0 DEF TypeOK
      <4>. HIDE DEF NewDoc, FtTorn
      <4>. QED  BY <2>2, <4>1, <4>2
    <3>. PICK B \in SUBSET Nat : B = D \ R
      OBVIOUS
    <3>3. Landeds(t, B) /\ \A j \in B : j <= n
      <4>1. Landeds(t, Behind(t)) /\ Behind(t) = B
        BY <1>7
      <4>. QED  BY <4>1
    <3>4. Landeds(t, B \cup {n})'
      BY <1>0, <3>2, <3>3, LandsOne
    <3>5. B \cup {n} = Behind(t)'
      <4>1. NextPosition(t)' = n
        BY <1>0, <1>7 DEF NextPosition
      <4>. QED  BY <1>0, <3>1, <4>1 DEF Behind
    <3>. HIDE DEF Landeds, Behind
    <3>6. \A i \in DOMAIN call[t].keys \ rest'[t] : \A j \in rest'[t] : i < j
      BY <3>1
    <3>. QED  BY <1>0, <3>1, <3>4, <3>5, <3>6, LandingAfter
  <2>. QED  BY <1>7, <2>1, <2>2 DEF FtTruncate
<1>8. CASE pc[t] = "writing" /\ backend = "filetree" /\ FtWrite(t)
  <2>. PICK n \in Nat, z \in Slots, D \in SUBSET Nat, R \in SUBSET Nat :
              /\ n = NextPosition(t) /\ z = NextSlot(t) /\ D = DOMAIN call[t].keys /\ R = rest[t] /\ n \in R /\ R \subseteq D
              /\ \A s \in Target(t) : n \in Positions(t, s) => s = z
              /\ \A i \in D \ (R \ {n}) : \A j \in R \ {n} : i < j
              /\ \A i \in D \ R : \A j \in R : i < j
              /\ \A i \in D \ (R \ {n}) : i <= n
              /\ Landeds(t, Behind(t)) /\ Behind(t) = D \ (IF pc[t] = "writing" THEN R \ {n} ELSE R)
              /\ NewDoc(t, n, since[t]).writer = <<t, n>> /\ Taking(t)
    BY <1>8, ItemFacts
  <2>1. /\ pc'[t] = (IF R = {n} THEN "ok" ELSE "item") /\ rest'[t] = R \ {n}
    <3>1. "ok" \in Onward /\ ~Takes(t, "ok") /\ found[t] \in [Slots -> Doc]
      BY <1>0, DbIs DEF Onward, Stages, Ended, Takes
    <3>2. Advance(t, "ok", found[t]) /\ Taking(t)
      BY <1>8 DEF FtWrite
    <3>. QED  BY <3>1, <3>2, AdvanceIs
  <2>2. /\ db'[z] \in {db[z], Empty} \/ db'[z].writer = <<t, n>>
        /\ \A s \in Slots \ {z} : db'[s] = db[s]
    <3>. PICK d : d = NewDoc(t, n, since[t])
      OBVIOUS
    <3>1. PICK e : db' = [db EXCEPT ![z] = e] /\ e \in {d, FtTorn(d), db[z], Empty}
      BY <1>8 DEF FtWrite
    <3>2. FtTorn(d).writer = <<t, n>> /\ d.writer = <<t, n>>
      BY DEF FtTorn, NewDoc
    <3>3. db \in [Slots -> Doc]
      BY <1>0 DEF TypeOK
    <3>. HIDE DEF FtTorn
    <3>. QED  BY <3>1, <3>2, <3>3
  <2>. PICK B \in SUBSET Nat : B = D \ (R \ {n})
    OBVIOUS
  <2>3. Landeds(t, B) /\ \A j \in B : j <= n
    <3>1. Landeds(t, Behind(t)) /\ Behind(t) = B
      BY <1>8
    <3>. QED  BY <3>1
  <2>4. Landeds(t, B)'
    <3>1. CASE db'[z] \in {db[z], Empty}
      <4>1. \A s \in Slots : db'[s].writer[1] = t => db'[s] = db[s]
        BY <2>2, <3>1, TasksAssumption DEF Empty
      <4>. QED  BY <1>0, <2>3, <4>1, LandedsStay
    <3>2. CASE db'[z].writer = <<t, n>>
      <4>1. B \cup {n} = B
        OBVIOUS
      <4>2. Landeds(t, B \cup {n})'
        BY <1>0, <2>2, <2>3, <3>2, LandsOne
      <4>. QED  BY <4>1, <4>2
    <3>. QED  BY <2>2, <3>1, <3>2
  <2>5. B = Behind(t)'
    BY <1>0, <2>1 DEF Behind
  <2>. HIDE DEF Landeds, Behind
  <2>6. \A i \in DOMAIN call[t].keys \ rest'[t] : \A j \in rest'[t] : i < j
    BY <2>1
  <2>. QED  BY <1>0, <2>1, <2>4, <2>5, <2>6, LandingAfter
<1>. QED  BY <1>1, <1>2, <1>3, <1>4, <1>5, <1>6, <1>7, <1>8 DEF WriteSteps

LEMMA LandingNext ==
    ASSUME Core, Next, NEW t \in Tasks, Landing(t)
    PROVE  Landing(t)'
<1>0. (Idle \/ \E u \in Tasks : Moved(u)) /\ UNCHANGED <<backend, call>>
  BY NextCases DEF Next
<1>1. CASE ~Doing(t, Writes) \/ backend = "null"
  BY <1>0, <1>1 DEF Landing, Doing
<1>2. CASE Moved(t) /\ Doing(t, Writes) /\ backend # "null"
  BY <1>2, LandingStep
<1>3. CASE Still(t) /\ (Idle \/ \E u \in Tasks \ {t} : Moved(u))
  BY <1>3, LandingStill
<1>. QED  BY <1>0, <1>1, <1>2, <1>3 DEF Idle, Moved

\* PutsStored and RejectedStoreNothing (put, put_many) follow.
LEMMA LandingAnswers ==
    ASSUME Core, \A t \in Tasks : Landing(t)
    PROVE  PutsStored /\ RejectedStoreNothing
<1>1. RejectedStoreNothing
  BY DEF RejectedStoreNothing, Core, OwnDocs
<1>. SUFFICES ASSUME backend # "null", NEW t \in Tasks, Answers(t, Writes), NEW s \in Target(t)
              PROVE  /\ \E d \in window[t][s] : d.writer = <<t, LastPosition(t, s)>>
                     /\ db[s].writer[1] = t => db[s].writer[2] = LastPosition(t, s)
  BY <1>1 DEF PutsStored, PutsLand
<1>2. rest[t] = {} /\ Landeds(t, Behind(t)) /\ pc[t] = "ok"
  BY DEF Landing, Storing, Answers, Done, At
<1>3. Behind(t) = DOMAIN call[t].keys
  BY <1>2 DEF Behind
<1>4. /\ LastPosition(t, s) \in Positions(t, s) /\ \A j \in Positions(t, s) : j <= LastPosition(t, s)
      /\ s \in Slots /\ Positions(t, s) \subseteq DOMAIN call[t].keys
  BY PositionFacts DEF Core, Target, Positions
<1>5. db[s].writer[1] = t => db[s].writer[2] \in Positions(t, s)
  BY <1>4 DEF Core, OwnDocs
<1>6. Positions(t, s) \in SUBSET Nat
  BY <1>4, KeysNumbered DEF Core
<1>. HIDE DEF Positions, LastPosition, Target
<1>7. Landed(t, s) /\ (db[s].writer[1] = t => \A j \in Positions(t, s) : j <= db[s].writer[2])
  BY <1>2, <1>3, <1>4 DEF Landeds
<1>. QED  BY <1>4, <1>5, <1>6, <1>7 DEF Landed

-----------------------------------------------------------------------------
(* What cull and the destroying calls have removed *)

Clears == {"cull", "destroy_collection", "destroy"}

\* What there was to be removed when the call began.
Due(t, s) ==
    /\ Present(before[t][s])
    /\ Doing(t, {"cull"}) => ExpiredAt(before[t][s], since[t])
    /\ Doing(t, {"destroy_collection"}) => s[1] = call[t].coll

\* The call is still to remove what is there; the file tree's destroying calls look
\* whether anything is left.
Pending(t, s) ==
    IF Doing(t, {"cull"}) \/ backend = "rocksdb"
      THEN s \in todo[t] \/ (pc[t] \in {"removing", "checking"} /\ Present(seen[t][s]))
      ELSE s[1] \in rest[t]
Looks(t) == backend = "filetree" /\ ~Doing(t, {"cull"})

Clearing(t) ==
    Doing(t, Clears) =>
        /\ pc[t] \notin Ended \cup {"begin"} \/ (pc[t] = "ok" /\ window[t] # Unwatched) =>
            \A s \in Slots : Due(t, s) /\ db[s] = before[t][s] => pc[t] # "ok" /\ (Looks(t) \/ Pending(t, s))
        /\ backend = "filetree" /\ At(t, {"destroy_collection"}, "removing") => rest[t] \subseteq {call[t].coll}

Failed == {"error", "invalid"}

\* A cull does not pass over what has expired.
LEMMA FtCullStep ==
    ASSUME Core, NEW t \in Tasks, backend = "filetree", FtCull(t), NEW s \in ExpiredOf(Slots), s \in Slots,
           db'[s] = db[s], pc[t] # "begin" => s \in todo[t] \/ (pc[t] \in {"removing", "checking"} /\ Present(seen[t][s]))
    PROVE  \/ pc'[t] \in Failed
           \/ pc'[t] # "ok" /\ (s \in todo'[t] \/ (pc'[t] \in {"removing", "checking"} /\ Present(seen'[t][s])))
<1>0. TypeOK /\ Present(db[s])
  BY DEF Core, ExpiredOf
<1>1. CASE Return(t, "error")
  BY <1>0, <1>1, GoingIs DEF Failed
<1>2. CASE pc[t] = "begin" /\ Goto(t, "passing", Nothing, Slots, Nothing)
  BY <1>0, <1>2, GotoIs
<1>3. CASE At(t, {"cull"}, "passing") /\ todo[t] = {}
  BY <1>3 DEF At
<1>4. ASSUME At(t, {"cull"}, "passing"), NEW r \in todo[t],
             Goto(t, IF r \in ExpiredOf(Slots) THEN "removing" ELSE "passing", Of(ExpiredOf({r})), todo[t] \ {r}, Nothing)
      PROVE  pc'[t] # "ok" /\ (s \in todo'[t] \/ (pc'[t] \in {"removing", "checking"} /\ Present(seen'[t][s])))
  <2>1. /\ pc'[t] = (IF r \in ExpiredOf(Slots) THEN "removing" ELSE "passing")
        /\ seen'[t] = Of(ExpiredOf({r})) /\ todo'[t] = todo[t] \ {r}
    BY <1>0, <1>4, GotoIs
  <2>2. s \in todo[t]
    BY <1>4 DEF At
  <2>3. s \in ExpiredOf({s}) /\ Of(ExpiredOf({s}))[s] = db[s]
    BY DEF ExpiredOf, Of
  <2>. QED  BY <1>0, <2>1, <2>2, <2>3
<1>5. CASE /\ At(t, {"cull"}, "removing")
           /\ db' = Without({q \in Slots : Present(seen[t][q])}) /\ Goto(t, "passing", Nothing, todo[t], Nothing)
  <2>1. pc'[t] = "passing" /\ todo'[t] = todo[t]
    BY <1>0, <1>5, GotoIs
  <2>2. ~Present(seen[t][s])
    BY <1>0, <1>5, DbIs DEF Present
  <2>. QED  BY <1>5, <2>1, <2>2 DEF At
<1>. QED  BY <1>1, <1>2, <1>3, <1>4, <1>5 DEF FtCull, At

LEMMA DiskCullStep ==
    ASSUME Core, EntriesHoused, NEW t \in Tasks, backend = "disk", DiskCull(t), NEW s \in ExpiredOf(Slots), s \in Slots,
           db'[s] = db[s], pc[t] # "begin" => s \in todo[t] \/ (pc[t] \in {"removing", "checking"} /\ Present(seen[t][s]))
    PROVE  \/ pc'[t] \in Failed
           \/ pc'[t] # "ok" /\ (s \in todo'[t] \/ (pc'[t] \in {"removing", "checking"} /\ Present(seen'[t][s])))
<1>0. TypeOK /\ Present(db[s]) /\ s[1] \in made
  BY DEF Core, ExpiredOf, EntriesHoused
<1>1. CASE Return(t, "error")
  BY <1>0, <1>1, GoingIs DEF Failed
<1>2. ASSUME pc[t] = "begin", NEW trees, trees = {r \in Slots : r[1] \in made},
             Goto(t, IF trees = {} THEN "ok" ELSE "checking", Nothing, trees, Nothing)
      PROVE  pc'[t] # "ok" /\ s \in todo'[t]
  <2>1. pc'[t] = (IF trees = {} THEN "ok" ELSE "checking") /\ todo'[t] = trees /\ s \in trees
    BY <1>0, <1>2, GotoIs
  <2>. QED  BY <2>1
<1>3. ASSUME At(t, {"cull"}, "checking"), NEW r \in todo[t], NEW o, o = [seen[t] EXCEPT ![r] = Of(ExpiredOf({r}))[r]],
             NEW expired, expired = {q \in Slots : Present(o[q])},
             IF todo[t] # {r} THEN Goto(t, "checking", o, todo[t] \ {r}, Nothing)
               ELSE Goto(t, IF expired = {} THEN "ok" ELSE "expiring", o, expired, Nothing)
      PROVE  pc'[t] # "ok" /\ (s \in todo'[t] \/ (pc'[t] \in {"removing", "checking"} /\ Present(seen'[t][s])))
  <2>0. s \in todo[t] \/ Present(seen[t][s])
    BY <1>3 DEF At
  <2>1. s = r => o[s] = db[s]
    <3>1. s \in ExpiredOf({s}) /\ Of(ExpiredOf({s}))[s] = db[s]
      BY DEF ExpiredOf, Of
    <3>2. seen[t] \in [Slots -> Doc]
      BY <1>0, DbIs
    <3>. QED  BY <1>3, <3>1, <3>2
  <2>2. s # r => o[s] = seen[t][s]
    <3>1. seen[t] \in [Slots -> Doc]
      BY <1>0, DbIs
    <3>. QED  BY <1>3, <3>1
  <2>3. CASE todo[t] # {r}
    <3>1. pc'[t] = "checking" /\ seen'[t] = o /\ todo'[t] = todo[t] \ {r}
      BY <1>0, <1>3, <2>3, GotoIs
    <3>. QED  BY <1>0, <2>0, <2>1, <2>2, <3>1
  <2>4. CASE todo[t] = {r}
    <3>1. pc'[t] = (IF expired = {} THEN "ok" ELSE "expiring") /\ todo'[t] = expired
      <4>1. Goto(t, IF expired = {} THEN "ok" ELSE "expiring", o, expired, Nothing)
        BY <1>3, <2>4
      <4>. QED  BY <1>0, <4>1, GotoIs
    <3>2. s \in expired
      BY <1>0, <1>3, <2>0, <2>1, <2>2, <2>4
    <3>. QED  BY <3>1, <3>2
  <2>. QED  BY <2>3, <2>4
<1>4. ASSUME At(t, {"cull"}, "expiring"), NEW r \in todo[t], db' = Without({r}),
             Goto(t, IF todo[t] = {r} THEN "ok" ELSE "expiring", Nothing, todo[t] \ {r}, Nothing)
      PROVE  pc'[t] # "ok" /\ s \in todo'[t]
  <2>1. pc'[t] = (IF todo[t] = {r} THEN "ok" ELSE "expiring") /\ todo'[t] = todo[t] \ {r}
    BY <1>0, <1>4, GotoIs
  <2>2. s # r
    BY <1>0, <1>4, DbIs DEF Present
  <2>3. s \in todo[t]
    BY <1>4 DEF At
  <2>. QED  BY <2>1, <2>2, <2>3
<1>5. CASE At(t, {"cull"}, "begin")
  BY <1>2, <1>5 DEF DiskCull, At
<1>6. CASE At(t, {"cull"}, "checking")
  BY <1>1, <1>3, <1>6 DEF DiskCull, At
<1>7. CASE At(t, {"cull"}, "expiring")
  BY <1>1, <1>4, <1>7 DEF DiskCull, At
<1>. QED  BY <1>5, <1>6, <1>7 DEF DiskCull

\* RocksDB's two steps, whatever is due.
LEMMA RocksBatchStep ==
    ASSUME Core, NEW t \in Tasks, NEW op, NEW due, RocksBatch(t, op, due), NEW s \in Slots, Present(db[s]), db'[s] = db[s],
           pc[t] = "begin" => s \in due, pc[t] = "writing" => s \in todo[t]
    PROVE  pc'[t] # "ok" /\ s \in todo'[t]
<1>0. TypeOK
  BY DEF Core
<1>1. CASE pc[t] = "begin" /\ Goto(t, IF due = {} THEN "ok" ELSE "writing", Nothing, due, Nothing)
  <2>1. pc'[t] = (IF due = {} THEN "ok" ELSE "writing") /\ todo'[t] = due
    BY <1>0, <1>1, GotoIs
  <2>. QED  BY <1>1, <2>1
<1>2. CASE pc[t] = "writing" /\ db' = Without(todo[t])
  BY <1>0, <1>2, DbIs DEF Present
<1>. QED  BY <1>1, <1>2 DEF RocksBatch, At

LEMMA CullStep ==
    ASSUME Core, EntriesHoused, NEW t \in Tasks, OwnStep(t), Doing(t, {"cull"}), NEW s \in Slots, s \in ExpiredOf(Slots),
           db'[s] = db[s], pc[t] # "begin" => Pending(t, s)
    PROVE  pc'[t] \in Failed \/ (pc'[t] # "ok" /\ Pending(t, s)')
<1>0. TypeOK /\ Present(db[s]) /\ Supported(t) /\ UNCHANGED <<backend, call>>
  BY DEF Core, ExpiredOf, OwnStep
<1>. USE DEF Doing
<1>1. Doing(t, {"cull"})'
  BY <1>0
<1>2. CASE \E how \in Failed : Return(t, how)
  BY <1>0, <1>2, GoingIs
<1>3. pc[t] # "begin" => s \in todo[t] \/ (pc[t] \in {"removing", "checking"} /\ Present(seen[t][s]))
  BY DEF Pending
<1>4. CASE pc'[t] # "ok" /\ (s \in todo'[t] \/ (pc'[t] \in {"removing", "checking"} /\ Present(seen'[t][s])))
  BY <1>1, <1>4 DEF Pending
<1>5. CASE backend = "filetree" /\ FtNext(t)
  <2>1. FtRefuse(t) \/ FtCull(t)
    BY <1>5 DEF FtNext, FtOpen, FtGet, FtTtl, FtGetMany, FtTtlMany, FtPut, FtPutMany, FtPutEither, LocalReads, Writes,
      FtDelete, FtDeleteMany, FtDeleteEither, FtKeys, FtCollections, FtDestroyCollection, FtDestroy, At
  <2>2. CASE FtRefuse(t)
    BY <1>2, <2>2 DEF FtRefuse, LocalRefuse, Failed
  <2>3. CASE FtCull(t)
    <3>. HIDE DEF Doing
    <3>1. \/ pc'[t] \in Failed
          \/ pc'[t] # "ok" /\ (s \in todo'[t] \/ (pc'[t] \in {"removing", "checking"} /\ Present(seen'[t][s])))
      BY <1>3, <1>5, <2>3, FtCullStep
    <3>. QED  BY <1>4, <3>1
  <2>. QED  BY <2>1, <2>2, <2>3
<1>6. CASE backend = "disk" /\ DiskNext(t)
  <2>1. DiskRefuse(t) \/ DiskCull(t)
    BY <1>6 DEF DiskNext, DiskOpen, DiskGet, DiskTtl, DiskGetMany, DiskTtlMany, DiskItem, DiskPut, DiskPutMany, DiskFlush, LocalReads, Writes,
      Deletes, DiskDelete, DiskDeleteMany, DiskKeys, DiskCollections, DiskDestroyCollection, DiskDestroy, DiskDrop, At
  <2>2. CASE DiskRefuse(t)
    BY <1>2, <2>2 DEF DiskRefuse, LocalRefuse, Failed
  <2>3. CASE DiskCull(t)
    <3>. HIDE DEF Doing
    <3>1. \/ pc'[t] \in Failed
          \/ pc'[t] # "ok" /\ (s \in todo'[t] \/ (pc'[t] \in {"removing", "checking"} /\ Present(seen'[t][s])))
      BY <1>3, <1>6, <2>3, DiskCullStep
    <3>. QED  BY <1>4, <3>1
  <2>. QED  BY <2>1, <2>2, <2>3
<1>7. CASE backend = "rocksdb" /\ RocksNext(t)
  <2>1. RocksRefuse(t) \/ RocksMalformed(t) \/ RocksCull(t)
    BY <1>7 DEF RocksNext, RocksOpen, RocksGet, RocksTtl, RocksGetMany, RocksTtlMany, LocalReads, Deletes, RocksPut, RocksPutMany,
      RocksDelete, RocksDeleteMany, RocksDeleteEither, RocksBatch, RocksKeys, RocksCollections, RocksDestroyCollection, RocksDestroy, At
  <2>2. CASE RocksRefuse(t) \/ RocksMalformed(t)
    BY <1>2, <2>2 DEF RocksRefuse, LocalRefuse, RocksMalformed, Failed
  <2>3. CASE RocksCull(t)
    <3>1. RocksBatch(t, "cull", ExpiredOf(Slots)) /\ (pc[t] = "writing" => s \in todo[t])
      BY <1>3, <2>3 DEF RocksCull
    <3>2. pc'[t] # "ok" /\ s \in todo'[t]
      BY <1>0, <3>1, RocksBatchStep
    <3>. QED  BY <1>4, <3>2
  <2>. QED  BY <2>1, <2>2, <2>3
<1>8. CASE backend = "simple" /\ SimpleNext(t)
  <2>1. SimpleCull(t)
    BY <1>8 DEF SimpleNext, SimpleRefuse, SimpleGet, SimpleTtl, SimpleGetMany, SimpleTtlMany, SimpleRead, SimplePut, SimplePutMany,
      SimpleWrite, SimpleDelete, SimpleDeleteMany, SimpleRemove, SimpleKeys, SimpleCollections, SimpleDestroyCollection, SimpleDestroy, At, Writes
  <2>2. db'[s] = Empty
    BY <1>0, <2>1, DbIs DEF SimpleCull
  <2>. QED  BY <1>0, <2>2 DEF Present
<1>9. CASE backend = "null"
  BY <1>0, <1>9, DbIs DEF Core, NullEmpty, Present
<1>10. CASE backend \in {"keyring", "memcached"}
  BY <1>0, <1>10 DEF Supported, Supports, KeyValue, LocalReads, Writes, Deletes
<1>11. CASE Fail(t)
  BY <1>2, <1>11 DEF Fail, Failed
<1>. QED  BY <1>5, <1>6, <1>7, <1>8, <1>9, <1>10, <1>11 DEF OwnStep, BackendStep

\* Where anything is left, the file tree's calls do not succeed.
LEMMA FtDestroyStep ==
    ASSUME Core, EntriesHoused, NEW t \in Tasks, backend = "filetree", FtDestroyCollection(t) \/ FtDestroy(t),
           At(t, {"destroy_collection"}, "removing") => rest[t] \subseteq {call[t].coll},
           NEW s \in Slots, Present(db'[s]), Doing(t, {"destroy_collection"}) => s[1] = call[t].coll
    PROVE  pc'[t] # "ok"
<1>0. TypeOK /\ MadeOk /\ s[1] \in Collections /\ (Present(db[s]) => s[1] \in made)
  BY SlotsAssumption DEF Core, EntriesHoused
<1>1. CASE FtDestroyCollection(t)
  <2>1. Doing(t, {"destroy_collection"}) /\ s[1] = call[t].coll
    BY <1>1 DEF FtDestroyCollection, At
  <2>2. CASE At(t, {"destroy_collection"}, "begin") /\ db' = db
    <3>1. FtDirectory(t)
      BY <1>0, <2>1, <2>2 DEF FtDirectory
    <3>2. Return(t, "error") \/ Goto(t, "removing", Nothing, In(call[t].coll), Nothing)
      BY <1>1, <2>2, <3>1 DEF FtDestroyCollection, At
    <3>. QED  BY <1>0, <3>2, GoingIs, GotoIs
  <2>3. CASE At(t, {"destroy_collection"}, "removing") /\ FtRemoveFile(t)
    BY <1>0, <2>3, GotoIs DEF FtRemoveFile, At
  <2>4. CASE At(t, {"destroy_collection"}, "removing") /\ FtRemoveDirectory(t, "ok")
    <3>1. PICK c \in rest[t] :
            IF \A r \in In(c) : ~Present(db[r]) THEN TRUE ELSE Return(t, "error")
      BY <2>4 DEF FtRemoveDirectory
    <3>2. c = s[1] /\ s \in In(c)
      BY <2>1, <2>4 DEF In
    <3>3. db' = db
      BY <2>4 DEF FtRemoveDirectory
    <3>4. Return(t, "error")
      BY <3>1, <3>2, <3>3
    <3>. QED  BY <1>0, <3>4, GoingIs
  <2>. QED  BY <1>1, <2>2, <2>3, <2>4 DEF FtDestroyCollection
<1>2. CASE FtDestroy(t)
  <2>1. CASE At(t, {"destroy"}, "begin") /\ db' = db
    <3>1. "base" \in made
      BY <1>0, <2>1 DEF MadeOk
    <3>2. Goto(t, IF made = {"base"} THEN "base" ELSE "removing", Nothing, Slots, Nothing)
      BY <1>2, <2>1, <3>1 DEF FtDestroy, At
    <3>. QED  BY <1>0, <3>2, GotoIs
  <2>2. CASE At(t, {"destroy"}, "removing") /\ FtRemoveFile(t)
    BY <1>0, <2>2, GotoIs DEF FtRemoveFile, At
  <2>3. CASE At(t, {"destroy"}, "removing") /\ FtRemoveDirectory(t, "base")
    <3>1. \E stage \in {"base", "removing"} : GoOn(t, stage) \/ Return(t, "error")
      BY <2>3 DEF FtRemoveDirectory, At
    <3>. QED  BY <1>0, <3>1, GoingIs
  <2>4. CASE At(t, {"destroy"}, "base") /\ db' = db
    <3>1. made # {"base"}
      BY <1>0, <2>4, BaseAssumption
    <3>2. Return(t, "error")
      BY <1>2, <2>4, <3>1 DEF FtDestroy, At
    <3>. QED  BY <1>0, <3>2, GoingIs
  <2>. QED  BY <1>2, <2>1, <2>2, <2>3, <2>4 DEF FtDestroy
<1>. QED  BY <1>1, <1>2

\* The directory of destroy_collection.
LEMMA FtDirectoryStep ==
    ASSUME Core, NEW t \in Tasks, backend = "filetree", OwnStep(t), Doing(t, {"destroy_collection"}), pc'[t] = "removing",
           pc[t] = "removing" => rest[t] \subseteq {call[t].coll}
    PROVE  rest'[t] \subseteq {call[t].coll}
<1>0. TypeOK
  BY DEF Core
<1>1. ~Fail(t)
  BY <1>0, GoingIs DEF Fail
<1>2. ~FtRefuse(t)
  <2>1. FtRefuse(t) => Return(t, "invalid")
    BY DEF FtRefuse, LocalRefuse
  <2>. QED  BY <1>0, <2>1, GoingIs
<1>3. FtDestroyCollection(t)
  BY <1>1, <1>2 DEF OwnStep, BackendStep, FtNext, FtOpen, FtGet, FtTtl, FtGetMany, FtTtlMany, FtPut, FtPutMany, FtPutEither, LocalReads, Writes,
      FtDelete, FtDeleteMany, FtDeleteEither, FtKeys, FtCollections, FtDestroy, FtCull, At, Doing
<1>4. CASE pc[t] = "begin"
  BY <1>0, <1>3, <1>4 DEF FtDestroyCollection, At, TypeOK
<1>5. CASE FtRemoveFile(t) /\ pc[t] = "removing"
  BY <1>5 DEF FtRemoveFile
<1>6. CASE FtRemoveDirectory(t, "ok") /\ pc[t] = "removing"
  BY <1>0, <1>6 DEF FtRemoveDirectory, TypeOK
<1>. QED  BY <1>3, <1>4, <1>5, <1>6 DEF FtDestroyCollection, At

\* sled's trees go one by one.
LEMMA DiskDestroyStep ==
    ASSUME Core, EntriesHoused, NEW t \in Tasks, backend = "disk", DiskDestroyCollection(t) \/ DiskDestroy(t),
           NEW s \in Slots, Present(db[s]), db'[s] = db[s], Doing(t, {"destroy_collection"}) => s[1] = call[t].coll,
           pc[t] # "begin" => s[1] \in rest[t]
    PROVE  pc'[t] \in Failed \/ (pc'[t] # "ok" /\ s[1] \in rest'[t])
<1>0. TypeOK /\ s[1] \in Collections /\ s[1] \in made
  BY SlotsAssumption DEF Core, EntriesHoused
<1>1. ASSUME NEW op, DiskDrop(t, op)
      PROVE  pc'[t] \in Failed \/ (pc'[t] # "ok" /\ s[1] \in rest'[t])
  <2>1. CASE At(t, {op}, "checking") /\ rest' = rest
    <3>1. GoOn(t, "dropping") \/ GoOn(t, "error")
      BY <1>1, <2>1 DEF DiskDrop, At
    <3>. QED  BY <1>0, <2>1, <3>1, GoingIs DEF At, Failed
  <2>2. CASE At(t, {op}, "dropping")
    <3>1. PICK c \in rest[t] : /\ db' = Without(In(c)) /\ rest' = [rest EXCEPT ![t] = @ \ {c}]
                               /\ GoOn(t, IF rest[t] = {c} THEN "ok" ELSE "dropping")
      BY <1>1, <2>2 DEF DiskDrop, At
    <3>2. s \notin In(c)
      BY <1>0, <3>1, DbIs DEF Present
    <3>3. s[1] # c
      BY <3>2 DEF In
    <3>4. pc'[t] = IF rest[t] = {c} THEN "ok" ELSE "dropping"
      BY <1>0, <3>1, GoingIs
    <3>5. s[1] \in rest'[t] /\ rest[t] # {c}
      BY <1>0, <2>2, <3>1, <3>3 DEF At, TypeOK
    <3>. QED  BY <3>4, <3>5
  <2>. QED  BY <1>1, <2>1, <2>2 DEF DiskDrop
<1>2. CASE At(t, {"destroy_collection"}, "begin") /\ DiskDestroyCollection(t)
  <2>1. DiskTree(t) /\ rest' = [rest EXCEPT ![t] = {call[t].coll} \cap made] /\ s[1] = call[t].coll
    BY <1>0, <1>2 DEF DiskDestroyCollection, DiskDrop, DiskTree, At
  <2>2. GoOn(t, "checking")
    BY <1>2, <2>1 DEF DiskDestroyCollection, DiskDrop, At
  <2>3. pc'[t] = "checking"
    BY <1>0, <2>2, GoingIs
  <2>4. rest'[t] = {call[t].coll} \cap made
    BY <1>0, <2>1 DEF TypeOK
  <2>. QED  BY <1>0, <2>1, <2>3, <2>4 DEF DiskTree
<1>3. CASE At(t, {"destroy"}, "begin") /\ DiskDestroy(t)
  <2>1. GoOn(t, "checking") /\ rest' = [rest EXCEPT ![t] = made]
    BY <1>0, <1>3 DEF DiskDestroy, DiskDrop, At
  <2>2. pc'[t] = "checking"
    BY <1>0, <2>1, GoingIs
  <2>3. rest'[t] = made
    BY <1>0, <2>1 DEF TypeOK
  <2>. QED  BY <1>0, <2>2, <2>3
<1>. QED  BY <1>1, <1>2, <1>3 DEF DiskDestroyCollection, DiskDestroy

LEMMA DestroyStep ==
    ASSUME Core, EntriesHoused, NEW t \in Tasks, OwnStep(t), Doing(t, {"destroy_collection", "destroy"}), NEW s \in Slots,
           Present(db'[s]), Doing(t, {"destroy_collection"}) => s[1] = call[t].coll,
           backend # "filetree" => db'[s] = db[s] /\ (pc[t] # "begin" => Pending(t, s)),
           backend = "filetree" /\ At(t, {"destroy_collection"}, "removing") => rest[t] \subseteq {call[t].coll}
    PROVE  pc'[t] \in Failed \/ (pc'[t] # "ok" /\ (Looks(t) \/ Pending(t, s)'))
<1>0. TypeOK /\ Supported(t) /\ UNCHANGED <<backend, call>>
  BY DEF Core, OwnStep
<1>. USE DEF Doing
<1>1. CASE \E how \in Failed : Return(t, how)
  BY <1>0, <1>1, GoingIs
<1>5. CASE backend = "filetree" /\ FtNext(t)
  <2>1. FtRefuse(t) \/ FtDestroyCollection(t) \/ FtDestroy(t)
    BY <1>5 DEF FtNext, FtOpen, FtGet, FtTtl, FtGetMany, FtTtlMany, FtPut, FtPutMany, FtPutEither, LocalReads, Writes,
      FtDelete, FtDeleteMany, FtDeleteEither, FtKeys, FtCollections, FtCull, At
  <2>2. CASE FtRefuse(t)
    BY <1>1, <2>2 DEF FtRefuse, LocalRefuse, Failed
  <2>3. CASE FtDestroyCollection(t) \/ FtDestroy(t)
    <3>1. Looks(t)
      BY <1>5 DEF Looks
    <3>. HIDE DEF Doing
    <3>2. pc'[t] # "ok"
      BY <1>5, <2>3, FtDestroyStep
    <3>. QED  BY <3>1, <3>2
  <2>. QED  BY <2>1, <2>2, <2>3
<1>6. CASE backend = "disk" /\ DiskNext(t)
  <2>1. DiskRefuse(t) \/ DiskDestroyCollection(t) \/ DiskDestroy(t)
    BY <1>6 DEF DiskNext, DiskOpen, DiskGet, DiskTtl, DiskGetMany, DiskTtlMany, DiskItem, DiskPut, DiskPutMany, DiskFlush, LocalReads, Writes,
      Deletes, DiskDelete, DiskDeleteMany, DiskKeys, DiskCollections, DiskCull, At
  <2>2. CASE DiskRefuse(t)
    BY <1>1, <2>2 DEF DiskRefuse, LocalRefuse, Failed
  <2>3. CASE DiskDestroyCollection(t) \/ DiskDestroy(t)
    <3>1. pc[t] # "begin" => s[1] \in rest[t]
      BY <1>6 DEF Pending
    <3>2. pc'[t] \in Failed \/ (pc'[t] # "ok" /\ s[1] \in rest'[t])
      <4>. HIDE DEF Doing
      <4>1. Present(db[s]) /\ db'[s] = db[s]
        BY <1>6
      <4>. QED  BY <1>6, <2>3, <3>1, <4>1, DiskDestroyStep
    <3>. QED  BY <1>0, <1>6, <3>2 DEF Pending
  <2>. QED  BY <2>1, <2>2, <2>3
<1>7. CASE backend = "rocksdb" /\ RocksNext(t)
  <2>0. Present(db[s]) /\ db'[s] = db[s]
    BY <1>7
  <2>1. RocksRefuse(t) \/ RocksMalformed(t) \/ RocksDestroyCollection(t) \/ RocksDestroy(t)
    BY <1>7 DEF RocksNext, RocksOpen, RocksGet, RocksTtl, RocksGetMany, RocksTtlMany, LocalReads, Deletes, RocksPut, RocksPutMany,
      RocksDelete, RocksDeleteMany, RocksDeleteEither, RocksBatch, RocksKeys, RocksCollections, RocksCull, At
  <2>2. CASE RocksRefuse(t) \/ RocksMalformed(t)
    BY <1>1, <2>2 DEF RocksRefuse, LocalRefuse, RocksMalformed, Failed
  <2>3. pc[t] = "writing" => s \in todo[t]
    BY <1>7 DEF Pending
  <2>4. CASE pc'[t] # "ok" /\ s \in todo'[t]
    BY <1>0, <1>7, <2>4 DEF Pending
  <2>5. CASE RocksDestroyCollection(t)
    <3>. PICK due : due = {r \in In(call[t].coll) : Present(db[r])}
      OBVIOUS
    <3>1. RocksBatch(t, "destroy_collection", due) /\ (pc[t] = "begin" => s \in due)
      BY <2>0, <2>5 DEF RocksDestroyCollection, RocksBatch, At, In
    <3>. QED  BY <2>0, <2>3, <2>4, <3>1, RocksBatchStep
  <2>6. CASE RocksDestroy(t)
    <3>1. CASE pc[t] = "begin" /\ Goto(t, "writing", Nothing, {r \in Slots : Present(db[r])}, Nothing)
      <4>1. pc'[t] = "writing" /\ todo'[t] = {r \in Slots : Present(db[r])}
        BY <1>0, <3>1, GotoIs
      <4>. QED  BY <2>0, <2>4, <4>1
    <3>2. CASE pc[t] = "writing" /\ db' = Without(todo[t])
      BY <1>0, <2>0, <2>3, <3>2, DbIs DEF Present
    <3>. QED  BY <2>6, <3>1, <3>2 DEF RocksDestroy, At
  <2>. QED  BY <2>1, <2>2, <2>5, <2>6
<1>8. CASE backend = "simple" /\ SimpleNext(t)
  <2>1. SimpleDestroyCollection(t) \/ SimpleDestroy(t)
    BY <1>8 DEF SimpleNext, SimpleRefuse, SimpleGet, SimpleTtl, SimpleGetMany, SimpleTtlMany, SimpleRead, SimplePut, SimplePutMany,
      SimpleWrite, SimpleDelete, SimpleDeleteMany, SimpleRemove, SimpleKeys, SimpleCollections, SimpleCull, At, Writes
  <2>2. db'[s] = Empty
    <3>1. CASE SimpleDestroyCollection(t)
      <4>1. s \in In(call[t].coll)
        BY <3>1 DEF SimpleDestroyCollection, At, In
      <4>. QED  BY <1>0, <3>1, <4>1, DbIs DEF SimpleDestroyCollection
    <3>2. CASE SimpleDestroy(t)
      BY <1>0, <3>2, DbIs DEF SimpleDestroy
    <3>. QED  BY <2>1, <3>1, <3>2
  <2>. QED  BY <2>2 DEF Present
<1>9. CASE backend = "null"
  BY <1>0, <1>9, DbIs DEF Core, NullEmpty, Present
<1>10. CASE backend = "memcached" /\ McNext(t)
  <2>1. Doing(t, {"destroy"})
    BY <1>0, <1>10 DEF Supported, Supports, KeyValue, LocalReads, Writes, Deletes
  <2>2. McRefuse(t) \/ McDestroy(t)
    BY <1>10, <2>1 DEF McNext, McOpen, McGet, McTtl, McGetMany, McTtlMany, McFetch, McPut, McPutMany, McSet, McDelete, McDeleteMany, Writes, Deletes, At
  <2>3. CASE McRefuse(t)
    BY <1>1, <2>3 DEF McRefuse, LocalRefuse, Failed
  <2>4. CASE McDestroy(t)
    BY <1>0, <2>4, DbIs DEF McDestroy, Present
  <2>. QED  BY <2>2, <2>3, <2>4
<1>11. CASE backend = "keyring"
  BY <1>0, <1>11 DEF Supported, Supports, KeyValue, LocalReads, Writes, Deletes
<1>12. CASE Fail(t)
  BY <1>1, <1>12 DEF Fail, Failed
<1>. QED  BY <1>5, <1>6, <1>7, <1>8, <1>9, <1>10, <1>11, <1>12 DEF OwnStep, BackendStep

\* What was due and has left does not come back, but perhaps for the file tree's torn ones.
LEMMA DueIs ==
    ASSUME Core, Next, NEW t \in Tasks, Running(t), NEW s \in Slots, Due(t, s)', Doing(t, Clears)
    PROVE  \E b \in Doc :
              /\ b = before'[t][s] /\ Present(b)
              /\ pc[t] = "begin" => db[s] = b
              /\ pc[t] # "begin" => before[t][s] = b /\ Due(t, s)
              /\ Doing(t, {"cull"}) /\ db[s] = b => s \in ExpiredOf(Slots)
              /\ Doing(t, {"destroy_collection"}) => s[1] = call[t].coll
              /\ ~Looks(t) /\ db[s] # b => db'[s] # b
<1>0. Lawful /\ TypeOK /\ (Idle \/ \E u \in Tasks : Moved(u)) /\ UNCHANGED <<backend, call>> /\ DocsSpent
  BY NextLawful, NextCases DEF Next, Core
<1>. PICK b : b = before'[t][s]
  OBVIOUS
<1>1. /\ since'[t] = IF pc[t] = "begin" THEN now ELSE since[t]
      /\ before'[t] = IF pc[t] = "begin" THEN db ELSE before[t]
      /\ since'[t] \in Nat /\ now \in Nat /\ since'[t] <= now
  BY <1>0, WindowGrows
<1>2. /\ Present(b) /\ (Doing(t, {"cull"}) => ExpiredAt(b, since'[t]))
      /\ (Doing(t, {"destroy_collection"}) => s[1] = call[t].coll)
  BY <1>0 DEF Due, Doing
<1>3. b \in Doc /\ Spent(b)
  <2>. HIDE DEF Spent
  <2>. QED  BY <1>0, <1>1 DEF TypeOK, DocsSpent
<1>4. pc[t] = "begin" => db[s] = b
  BY <1>1
<1>5. pc[t] # "begin" => before[t][s] = b /\ Due(t, s)
  BY <1>1, <1>2 DEF Due
<1>6. Doing(t, {"cull"}) /\ db[s] = b => s \in ExpiredOf(Slots)
  <2>1. b.expires \in Nat
    BY <1>3 DEF Doc
  <2>2. ExpiredAt(b, since'[t]) => ExpiredAt(b, now)
    BY <1>1, <2>1 DEF ExpiredAt
  <2>. QED  BY <1>2, <2>2 DEF ExpiredOf, Expired
<1>7. ~Looks(t) /\ db[s] # b => db'[s] # b
  <2>1. ~Looks(t) => ~Torn(b)
    <3>1. Torn(b) => backend = "filetree" /\ b.expires = NoExpiry
      BY <1>3 DEF Spent
    <3>2. Doing(t, {"cull"}) => b.expires # NoExpiry
      BY <1>2 DEF ExpiredAt
    <3>. HIDE DEF Torn
    <3>. QED  BY <3>1, <3>2 DEF Looks
  <2>2. ~Torn(b) /\ db[s] # b => db'[s] # b
    <3>. HIDE DEF Torn, Spent
    <3>. QED  BY <1>0, <1>2, <1>3, OldStays
  <2>. QED  BY <2>1, <2>2
<1>. QED  BY <1>2, <1>3, <1>4, <1>5, <1>6, <1>7

LEMMA ClearingStill ==
    ASSUME Core, Next, NEW t \in Tasks, Still(t), Clearing(t)
    PROVE  Clearing(t)'
<1>0. UNCHANGED <<backend, call>> /\ pc'[t] = pc[t] /\ rest'[t] = rest[t] /\ todo'[t] = todo[t] /\ seen'[t] = seen[t] /\ Lawful
  BY NextLawful DEF Next, Still
<1>. SUFFICES ASSUME Doing(t, Clears)
              PROVE  Clearing(t)'
  BY <1>0 DEF Clearing, Doing
<1>1. (backend = "filetree" /\ At(t, {"destroy_collection"}, "removing") => rest[t] \subseteq {call[t].coll})'
  BY <1>0 DEF Clearing, At, Doing
<1>2. CASE pc[t] \in Ended \cup {"begin"}
  <2>1. pc[t] \in Ended => window'[t] = Unwatched
    BY <1>0, WatchFacts DEF Lawful
  <2>. QED  BY <1>0, <1>1, <1>2, <2>1 DEF Clearing, Ended
<1>3. CASE pc[t] \notin Ended \cup {"begin"}
  <2>0. Running(t)
    BY <1>0, <1>3 DEF Running
  <2>1. ASSUME NEW s \in Slots, Due(t, s)', db'[s] = before'[t][s]
        PROVE  Looks(t)' \/ Pending(t, s)'
    <3>. PICK b \in Doc :
              /\ b = before'[t][s]
              /\ pc[t] # "begin" => before[t][s] = b /\ Due(t, s)
              /\ ~Looks(t) /\ db[s] # b => db'[s] # b
      BY <2>0, <2>1, DueIs
    <3>1. Looks(t) \/ Pending(t, s)
      BY <1>3, <2>1 DEF Clearing
    <3>. QED  BY <1>0, <3>1 DEF Looks, Pending, Doing
  <2>2. pc'[t] # "ok"
    BY <1>0, <1>3 DEF Ended
  <2>. HIDE DEF Due, Looks, Pending
  <2>. QED  BY <1>1, <2>1, <2>2 DEF Clearing
<1>. QED  BY <1>2, <1>3

LEMMA ClearingNext ==
    ASSUME Core, EntriesHoused, Next, NEW t \in Tasks, Clearing(t)
    PROVE  Clearing(t)'
<1>0. (Idle \/ \E u \in Tasks : Moved(u)) /\ UNCHANGED <<backend, call>>
  BY NextCases DEF Next
<1>1. CASE Still(t)
  BY <1>1, ClearingStill
<1>2. CASE ~Doing(t, Clears)
  BY <1>0, <1>2 DEF Clearing, Doing
<1>3. CASE Moved(t) /\ Doing(t, Clears)
  <2>0. Running(t) /\ OwnStep(t) /\ pc[t] \notin Ended /\ pc'[t] # "begin"
    BY <1>3, Runs DEF Moved
  <2>1. ASSUME backend = "filetree", At(t, {"destroy_collection"}, "removing")'
        PROVE  rest'[t] \subseteq {call[t].coll}
    <3>1. Doing(t, {"destroy_collection"}) /\ pc'[t] = "removing"
      BY <1>0, <2>1 DEF At, Doing
    <3>2. pc[t] = "removing" => rest[t] \subseteq {call[t].coll}
      BY <1>3, <2>1, <3>1 DEF Clearing, At
    <3>. QED  BY <2>0, <2>1, <3>1, <3>2, FtDirectoryStep
  <2>2. ASSUME NEW s \in Slots, Due(t, s)', db'[s] = before'[t][s]
        PROVE  pc'[t] \in Failed \/ (pc'[t] # "ok" /\ (Looks(t) \/ Pending(t, s)'))
    <3>. PICK b \in Doc :
              /\ b = before'[t][s] /\ Present(b)
              /\ pc[t] = "begin" => db[s] = b
              /\ pc[t] # "begin" => before[t][s] = b /\ Due(t, s)
              /\ Doing(t, {"cull"}) /\ db[s] = b => s \in ExpiredOf(Slots)
              /\ Doing(t, {"destroy_collection"}) => s[1] = call[t].coll
              /\ ~Looks(t) /\ db[s] # b => db'[s] # b
      BY <1>3, <2>0, <2>2, DueIs
    <3>1. ~Looks(t) => db'[s] = db[s] /\ (pc[t] # "begin" => Pending(t, s))
      <4>1. ~Looks(t) => db[s] = b /\ db'[s] = db[s]
        BY <2>2
      <4>2. ~Looks(t) /\ pc[t] # "begin" => Pending(t, s)
        <5>. HIDE DEF Due, Looks, Pending
        <5>. QED  BY <1>3, <2>0, <2>2, <4>1 DEF Clearing
      <4>. QED  BY <4>1, <4>2
    <3>2. CASE Doing(t, {"cull"})
      <4>1. ~Looks(t) /\ s \in ExpiredOf(Slots)
        BY <2>2, <3>1, <3>2 DEF Looks
      <4>. HIDE DEF Pending
      <4>. QED  BY <2>0, <3>1, <3>2, <4>1, CullStep
    <3>3. CASE Doing(t, {"destroy_collection", "destroy"})
      <4>1. Present(db'[s])
        BY <2>2
      <4>2. backend # "filetree" => ~Looks(t)
        BY DEF Looks
      <4>3. backend = "filetree" /\ At(t, {"destroy_collection"}, "removing") => rest[t] \subseteq {call[t].coll}
        BY <1>3 DEF Clearing
      <4>. HIDE DEF Pending, Looks
      <4>. QED  BY <2>0, <3>1, <3>3, <4>1, <4>2, <4>3, DestroyStep
    <3>. QED  BY <1>3, <3>2, <3>3 DEF Doing, Clears
  <2>3. Looks(t)' <=> Looks(t)
    BY <1>0 DEF Looks, Doing
  <2>4. call'[t].coll = call[t].coll
    BY <1>0
  <2>5. pc'[t] \notin Ended \cup {"begin"} \/ pc'[t] = "ok" => pc'[t] \notin Failed
    BY DEF Ended, Failed
  <2>6. pc'[t] \notin Failed => \A s \in Slots : Due(t, s)' /\ db'[s] = before'[t][s] =>
            pc'[t] # "ok" /\ (Looks(t)' \/ Pending(t, s)')
    BY <2>2, <2>3
  <2>7. (backend = "filetree" /\ At(t, {"destroy_collection"}, "removing"))' => rest'[t] \subseteq {call'[t].coll}
    BY <1>0, <2>1, <2>4
  <2>. HIDE DEF Due, Looks, Pending, At
  <2>. QED  BY <2>5, <2>6, <2>7 DEF Clearing
<1>. QED  BY <1>0, <1>1, <1>2, <1>3 DEF Idle, Moved

\* DestroyedGone and CullComplete (destroy_collection, destroy, cull) follow.
LEMMA ClearingAnswers ==
    ASSUME \A t \in Tasks : Clearing(t)
    PROVE  DestroyedGone /\ CullComplete
<1>1. ASSUME NEW t \in Tasks, Answers(t, Clears), NEW s \in Slots, Due(t, s)
      PROVE  db[s] # before[t][s]
  <2>1. Doing(t, Clears) /\ pc[t] = "ok" /\ window[t] # Unwatched
    BY <1>1 DEF Answers, Done, At
  <2>. HIDE DEF Due, Looks, Pending
  <2>. QED  BY <1>1, <2>1 DEF Clearing
<1>2. DestroyedGone
  <2>. SUFFICES ASSUME NEW t \in Tasks, Answers(t, {"destroy_collection", "destroy"}), NEW s \in Slots,
                       Doing(t, {"destroy"}) \/ s[1] = call[t].coll, Present(before[t][s])
                PROVE  db[s] # before[t][s]
    BY DEF DestroyedGone
  <2>. QED  BY <1>1 DEF Due, Answers, Done, At, Doing, Clears
<1>3. CullComplete
  <2>. SUFFICES ASSUME NEW t \in Tasks, Answers(t, {"cull"}), NEW s \in Slots,
                       Present(before[t][s]), ExpiredAt(before[t][s], since[t])
                PROVE  db[s] # before[t][s]
    BY DEF CullComplete
  <2>. QED  BY <1>1 DEF Due, Answers, Done, At, Doing, Clears
<1>. QED  BY <1>2, <1>3

-----------------------------------------------------------------------------
(* What always holds *)

\* What a call has done so far is right.
Serves(t) == Reading(t) /\ Listing(t) /\ Naming(t) /\ Landing(t) /\ Clearing(t)

Sound == Core /\ EntriesHoused /\ TearingOk /\ CountedGone /\ \A t \in Tasks : Serves(t)

LEMMA SoundInit ==
    Init => Sound
<1>. SUFFICES ASSUME Init
              PROVE  Sound
  OBVIOUS
<1>1. Core /\ EntriesHoused
  BY CoreInit, HousedInit
<1>2. \A t \in Tasks : pc[t] = "begin" /\ found[t] = Nothing
  BY DEF Init, StoreInit
<1>3. TearingOk
  <2>1. \A s \in Slots : db[s].writer[1] = NoTask
    BY StoresAssumption DEF Init, StoreInit
  <2>2. \A s \in Slots : TornBy(s)
    BY <2>1 DEF TornBy, Torn
  <2>3. \A t \in Tasks : FtWriting(t)
    BY <1>2 DEF FtWriting, At
  <2>. QED  BY <2>2, <2>3 DEF TearingOk
<1>4. CountedGone
  <2>1. \A t \in Tasks, s \in Slots : ~Present(found[t][s])
    BY <1>2 DEF Nothing, Present
  <2>. QED  BY <2>1 DEF CountedGone, Gone
<1>5. ASSUME NEW t \in Tasks
      PROVE  Serves(t)
  <2>1. Reading(t)
    BY <1>2 DEF Reading, Taking, Takes
  <2>2. Listing(t) /\ Naming(t)
    BY <1>2 DEF Listing, Naming
  <2>3. Landing(t) /\ Clearing(t)
    BY <1>2 DEF Landing, Storing, Clearing, At
  <2>. QED  BY <2>1, <2>2, <2>3 DEF Serves
<1>. QED  BY <1>1, <1>3, <1>4, <1>5 DEF Sound

LEMMA SoundNext ==
    Sound /\ Next => Sound'
<1>. SUFFICES ASSUME Sound, Next
              PROVE  Sound'
  OBVIOUS
<1>1. Core /\ EntriesHoused /\ TearingOk /\ CountedGone
  BY DEF Sound
<1>2. Core' /\ EntriesHoused' /\ TearingOk' /\ CountedGone'
  BY <1>1, CoreNext, HousedNext, TearingNext, CountedNext
<1>3. ASSUME NEW t \in Tasks
      PROVE  Serves(t)'
  <2>1. Reading(t) /\ Listing(t) /\ Naming(t) /\ Landing(t) /\ Clearing(t)
    BY DEF Sound, Serves
  <2>2. Reading(t)'
    BY <1>1, <2>1, ReadingNext
  <2>3. Listing(t)'
    BY <1>1, <2>1, ListingNext
  <2>4. Naming(t)'
    BY <1>1, <2>1, NamingNext
  <2>5. Landing(t)'
    BY <1>1, <2>1, LandingNext
  <2>6. Clearing(t)'
    BY <1>1, <2>1, ClearingNext
  <2>. QED  BY <2>2, <2>3, <2>4, <2>5, <2>6 DEF Serves
<1>. QED  BY <1>2, <1>3 DEF Sound

LEMMA SoundStays ==
    Sound /\ UNCHANGED vars => Sound'
<1>. SUFFICES ASSUME Sound, UNCHANGED vars
              PROVE  Sound'
  OBVIOUS
<1>1. /\ backend' = backend /\ db' = db /\ made' = made /\ alien' = alien /\ known' = known /\ lock' = lock /\ now' = now
      /\ call' = call /\ pc' = pc /\ seen' = seen /\ todo' = todo /\ rest' = rest /\ found' = found /\ names' = names
      /\ since' = since /\ before' = before /\ window' = window
  BY DEF vars, serverVars, clientVars, taskVars
<1>. USE <1>1
<1>2. \A d : Spent(d)' <=> Spent(d)
  BY DEF Spent, Torn, Writable, Doing
<1>3. Core'
  <2>1. TypeOK' /\ (\A t \in Tasks : since'[t] <= now')
    BY DEF Sound, Core, TypeOK
  <2>2. DocsSpent'
    <3>1. \A s \in Slots : Spent(db[s])'
      BY <1>2 DEF Sound, Core, DocsSpent
    <3>2. \A t \in Tasks, s \in Slots : Spent(before[t][s])'
      BY <1>2 DEF Sound, Core, DocsSpent
    <3>. QED  BY <3>1, <3>2 DEF DocsSpent
  <2>3. \A t \in Tasks : Supported(t)' /\ LoopsTyped(t)' /\ Begun(t)'
    BY DEF Sound, Core, Supported, TooLong, Doing, LoopsTyped, LoopOk, Takes, Begun
  <2>4. \A t \in Tasks : OwnDocs(t)'
    BY DEF Sound, Core, Positions, Target, Doing, OwnDocs
  <2>5. MadeOk' /\ NullEmpty'
    BY DEF Sound, Core, MadeOk, NullEmpty
  <2>. QED  BY <2>1, <2>2, <2>3, <2>4, <2>5 DEF Core
<1>4. EntriesHoused'
  BY DEF Sound, EntriesHoused
<1>5. TearingOk'
  <2>1. \A t \in Tasks : FtWriting(t)'
    <3>1. \A t : NextSlot(t)' = NextSlot(t) /\ NextPosition(t)' = NextPosition(t)
      BY DEF NextSlot, NextPosition
    <3>2. \A t \in Tasks : FtWriting(t)
      BY DEF Sound, TearingOk
    <3>. SUFFICES ASSUME NEW t \in Tasks
                  PROVE  FtWriting(t)'
      OBVIOUS
    <3>3. (At(t, Writes, "writing"))' <=> At(t, Writes, "writing")
      BY DEF At, Doing
    <3>4. FtWriting(t) /\ NextSlot(t)' = NextSlot(t) /\ NextPosition(t)' = NextPosition(t)
      BY <3>1, <3>2
    <3>. HIDE DEF At
    <3>. QED  BY <3>3, <3>4 DEF FtWriting
  <2>2. \A s, w : Raced(s, w)' <=> Raced(s, w)
    BY DEF Raced, Doing, Target
  <2>3. \A w : NextSlot(w)' = NextSlot(w) /\ NextPosition(w)' = NextPosition(w)
    BY DEF NextSlot, NextPosition
  <2>4. \A s \in Slots : TornBy(s)'
    <3>. HIDE DEF Raced
    <3>. QED  BY <2>2, <2>3 DEF Sound, TearingOk, TornBy, Torn
  <2>. QED  BY <2>1, <2>4 DEF TearingOk
<1>6. CountedGone'
  <2>1. \A t : Counts(t)' <=> Counts(t)
    BY DEF Counts, Doing
  <2>2. \A t \in Tasks : Gone(t)' <=> Gone(t)
    <3>1. \A t \in Tasks, s \in Slots : Spent(found[t][s])' <=> Spent(found[t][s])
      BY <1>2
    <3>. HIDE DEF Spent
    <3>. QED  BY <3>1 DEF Gone, Torn, Present
  <2>. HIDE DEF Counts, Gone
  <2>. QED  BY <2>1, <2>2 DEF Sound, CountedGone, Torn, Present
<1>7. ASSUME NEW t \in Tasks
      PROVE  Serves(t)'
  <2>0. Reading(t) /\ Listing(t) /\ Naming(t) /\ Landing(t) /\ Clearing(t)
    BY DEF Sound, Serves
  <2>1. Reading(t)'
    <3>1. Target(t)' = Target(t) /\ Past(t)' = Past(t) /\ NextSlot(t)' = NextSlot(t)
      BY DEF Target, Past, NextSlot, NextPosition
    <3>2. Taking(t)' <=> Taking(t)
      BY DEF Taking, Takes, Doing
    <3>. QED  BY <2>0, <3>1, <3>2 DEF Reading, Doing, Answered, Heard, ReadOk, Faded, ExpiredAt, Present
  <2>2. Listing(t)'
    BY <2>0 DEF Listing, Doing, Kept, Shown, Present, In
  <2>3. Naming(t)'
    BY <2>0 DEF Naming, Named, Doing
  <2>4. Landing(t)'
    <3>1. Target(t)' = Target(t) /\ (\A s : LastPosition(t, s)' = LastPosition(t, s)) /\ (\A s : Positions(t, s)' = Positions(t, s))
      BY DEF Target, LastPosition, Positions
    <3>2. Behind(t)' = Behind(t)
      BY DEF Behind, NextPosition
    <3>3. \A s : Landed(t, s)' <=> Landed(t, s)
      BY <3>1 DEF Landed
    <3>4. Landeds(t, Behind(t))' <=> Landeds(t, Behind(t))
      <4>. HIDE DEF Landed, Target, LastPosition, Positions, Behind
      <4>. QED  BY <3>1, <3>2, <3>3 DEF Landeds
    <3>. HIDE DEF Landeds, Behind
    <3>. QED  BY <2>0, <3>4 DEF Landing, Storing, Doing
  <2>5. Clearing(t)'
    BY <2>0 DEF Clearing, Due, Looks, Pending, At, Doing, Present, ExpiredAt
  <2>. QED  BY <2>1, <2>2, <2>3, <2>4, <2>5 DEF Serves
<1>. QED  BY <1>3, <1>4, <1>5, <1>6, <1>7 DEF Sound

LEMMA SoundAlways ==
    Spec => []Sound
<1>. QED  BY SoundInit, SoundNext, SoundStays, PTL DEF Spec

\* What the variables hold, for every backend.
THEOREM LocalTyped ==
    Spec => []TypeOK
<1>1. Sound => TypeOK
  BY DEF Sound, Core
<1>. QED  BY <1>1, SoundAlways, PTL

\* An entry that does not decode is a file in the making, one of a call that failed, or of
\* one that had company at its key (write_entry).
THEOREM TornOnlyThen ==
    Spec => []TornOnlyByRace
<1>1. Sound => TornOnlyByRace
  BY TearingAnswers DEF Sound
<1>. QED  BY <1>1, SoundAlways, PTL

\* Reads answer what was there while they ran, an entry is counted as deleted by one call
\* where it is known, keys and collections list what was there (get, ttl, get_many,
\* ttl_many, delete, delete_many, keys, collections).
THEOREM AnswersAreTrue ==
    Spec => []AnswersTrue
<1>1. Sound => AnswersTrue
  <2>. SUFFICES ASSUME Sound
                PROVE  AnswersTrue
    OBVIOUS
  <2>1. ReadsCurrent
    BY ReadingAnswers DEF Sound, Serves
  <2>2. DeletesCounted
    BY CountedOnce DEF Sound
  <2>3. KeysHeld
    BY ListingAnswers DEF Sound, Serves
  <2>4. CollectionsComplete
    BY NamingAnswers DEF Sound, Serves
  <2>. QED  BY <2>1, <2>2, <2>3, <2>4 DEF AnswersTrue
<1>. QED  BY <1>1, SoundAlways, PTL

\* A write that succeeds has stored its entries and one that is rejected none; what destroy,
\* destroy_collection and cull report as gone is gone (put, put_many, destroy,
\* destroy_collection, cull).
THEOREM EffectsAreDone ==
    Spec => []EffectsDone
<1>1. Sound => EffectsDone
  <2>. SUFFICES ASSUME Sound
                PROVE  EffectsDone
    OBVIOUS
  <2>1. PutsStored /\ RejectedStoreNothing
    BY LandingAnswers DEF Sound, Serves
  <2>2. DestroyedGone /\ CullComplete
    BY ClearingAnswers DEF Sound, Serves
  <2>. QED  BY <2>1, <2>2 DEF EffectsDone
<1>. QED  BY <1>1, SoundAlways, PTL
=============================================================================
