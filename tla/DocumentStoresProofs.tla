----------------------- MODULE DocumentStoresProofs ------------------------
(***************************************************************************)
(* Theorems about DocumentStores: whatever the calls, the contents, the     *)
(* backend and the number of tasks, answers are true of a moment while the  *)
(* call ran, effects reported are done, MongoDB's client counts on no index *)
(* that is not there, and what is deleted as expired is deleted as it was   *)
(* seen where the server is told what that was.                             *)
(*                                                                         *)
(* A document is stored once: its writer is spent by then (Spent), so that  *)
(* what has left a slot does not come back, and what a slot held when a call *)
(* began and holds no more need not be looked at again.  What a call has    *)
(* gathered so far, stage by stage, is an invariant of its own for each     *)
(* kind of operation.                                                       *)
(***************************************************************************)
EXTENDS DocumentStores, ServerStoreProofs

-----------------------------------------------------------------------------
(* The inductive invariant *)

OnS3 == backend = "s3"
Unsent == {"begin", "making", "checking", "ready"}

\* The call may still store the item in that position of its batch.
Writable(u, i) ==
    /\ u \in Tasks /\ Doing(u, Writes)
    /\ \/ pc[u] \in Unsent
       \/ /\ pc[u] \in {"writing", "batch"}
          /\ IF OnS3 THEN i \in rest[u] ELSE \E s \in todo[u] : seen[u][s].writer = <<u, i>>

\* No document of this writer will be stored from now on.
Spent(w) == ~Writable(w[1], w[2])

\* What is stored, or was when a call began.
DocsSpent ==
    /\ \A s \in Slots : Spent(db[s].writer)
    /\ \A t \in Tasks, s \in Slots : Spent(before[t][s].writer)

\* The calls are of the backend's operations.
Supported(t) == call[t].op \in Supports(backend) /\ (TooLong(t) => backend \in KeyBounded)

\* The operations that come to a stage.
Allowed(t, stage) ==
    /\ stage = "expiring" =>
         Doing(t, Reads \cup (IF backend = "mongodb" THEN {"cull", "keys"}
                              ELSE IF backend = "dynamodb" THEN {"cull", "keys", "collections"}
                              ELSE IF OnS3 THEN {"cull"} ELSE {}))
    /\ stage \in {"making", "checking", "ready"} => Doing(t, MongoKeyed \cup {"cull"})
    /\ stage = "deleting" /\ backend = "opensearch" => Doing(t, Deletes)

\* What the loop of a call is over: S3's batches, and elsewhere collections.
LoopOk(t, stage, left) ==
    /\ IF OnS3 THEN left \subseteq DOMAIN call[t].keys ELSE left \subseteq Collections
    /\ OnS3 /\ Doing(t, KeyValue) /\ stage \in {"batch", "expiring", "deleting"} => left # {} /\ ~TooLong(t)

Staged(t) == Allowed(t, pc[t])
LoopsTyped(t) == LoopOk(t, pc[t], rest[t])

\* What a write is about to store are the last entries of its keys.
Fresh(t, s) == seen[t][s].writer = <<t, LastPosition(t, s)>>
Prepped(t) ==
    ~OnS3 /\ Doing(t, Writes) =>
        /\ pc[t] \in {"making", "checking", "ready"} => \A s \in Target(t) : Fresh(t, s)
        /\ pc[t] \in {"writing", "batch"} => todo[t] \subseteq Target(t) /\ \A s \in todo[t] : Fresh(t, s)

\* A call that has not sent anything has found nothing.
Begun(t) ==
    /\ pc[t] = "begin" => found[t] = Nothing /\ names[t] = {}
    /\ pc[t] \in Unsent /\ ~Doing(t, {"cull"}) => found[t] = Nothing

\* What a call has stored is under its keys.
OwnDocs(t) ==
    \A s \in Slots : db[s].writer[1] = t =>
        /\ Doing(t, Writes) /\ s \in Target(t) /\ pc[t] \notin {"begin", "invalid"}
        /\ db[s].writer[2] \in Positions(t, s)
        /\ ~OnS3 => db[s].writer[2] = LastPosition(t, s)

Shape(t) == Staged(t) /\ LoopsTyped(t) /\ Prepped(t) /\ Begun(t)

Core ==
    /\ TypeOK /\ DocsSpent
    /\ \A t \in Tasks : Supported(t) /\ Shape(t) /\ OwnDocs(t) /\ since[t] <= now

-----------------------------------------------------------------------------
(* The steps of a call *)

OwnStep(t) == (BackendStep(t) \/ Fail(t)) /\ UNCHANGED <<backend, call>>

\* A step is one of a call that has not returned and does not begin again, nor return to
\* what it has done,
Ordered(t) ==
    /\ pc[t] \notin Ended /\ pc'[t] # "begin" /\ now' = now
    /\ pc'[t] = "invalid" => pc[t] = "begin" /\ db' = db
    /\ \A i : Writable(t, i)' => Writable(t, i)

\* stores, if anything, what it could store before and cannot store after,
Effect(t) ==
    /\ db' \in [Slots -> Doc]
    /\ \A s \in Slots : db'[s] # db[s] /\ db'[s] # Empty =>
            /\ Doing(t, Writes) /\ s \in Target(t) /\ pc'[t] # "invalid"
            /\ \E i \in Positions(t, s) :
                /\ db'[s].writer = <<t, i>> /\ Writable(t, i) /\ ~Writable(t, i)'
                /\ ~OnS3 => i = LastPosition(t, s)

\* and leaves everything of its type.
Typed(t) ==
    /\ pc'[t] \in Stages
    /\ seen'[t] \in [Slots -> Doc] /\ found'[t] \in [Slots -> Doc]
    /\ todo'[t] \subseteq Slots /\ names'[t] \subseteq Collections
    /\ alien' \subseteq Collections /\ lock' \in Tasks \cup {NoTask}

Legal(t) == Moves(t) /\ Ordered(t) /\ Effect(t) /\ Typed(t) /\ Shape(t)'

\* A step that stores nothing.
Going(t, stages) ==
    \E stage \in stages, o \in [Slots -> Doc], d \in SUBSET Slots, f \in [Slots -> Doc] : Goto(t, stage, o, d, f)

Looping(t) ==
    /\ rest' = [rest EXCEPT ![t] = rest'[t]] /\ names' = [names EXCEPT ![t] = names'[t]]
    /\ names'[t] \subseteq Collections

Quiet(t) ==
    /\ pc[t] \notin Ended /\ now' = now /\ UNCHANGED <<backend, call>>
    /\ Drops /\ Looping(t)
    /\ alien' \subseteq Collections /\ lock' \in Tasks \cup {NoTask}

Onward == Stages \ {"begin", "invalid"}

\* What a stage allows does not change.
LEMMA CarriedOver ==
    ASSUME NEW t \in Tasks, UNCHANGED <<backend, call>>
    PROVE  /\ Allowed(t, pc'[t]) => Staged(t)'
           /\ LoopOk(t, pc'[t], rest'[t]) => LoopsTyped(t)'
<1>1. Allowed(t, pc'[t]) => Staged(t)'
  BY DEF Allowed, Staged, Doing, OnS3
<1>2. LoopOk(t, pc'[t], rest'[t]) => LoopsTyped(t)'
  BY DEF LoopOk, LoopsTyped, Doing, OnS3, TooLong
<1>. QED  BY <1>1, <1>2

LEMMA QuietLegal ==
    ASSUME Core, NEW t \in Tasks, ~Doing(t, Writes), Quiet(t), Going(t, Onward),
           Allowed(t, pc'[t]), LoopOk(t, pc'[t], rest'[t]),
           pc'[t] \in Unsent /\ ~Doing(t, {"cull"}) => found'[t] = Nothing
    PROVE  Legal(t)
<1>. PICK stage \in Onward, o \in [Slots -> Doc], d \in SUBSET Slots, f \in [Slots -> Doc] :
        Goto(t, stage, o, d, f)
  BY DEF Going
<1>1. pc'[t] = stage /\ seen'[t] = o /\ todo'[t] = d /\ found'[t] = f
  BY GotoIs DEF Core
<1>2. Moves(t)
  BY GotoIs DEF Moves, Quiet, Looping, Core
<1>3. ~Doing(t, Writes)' /\ \A i : ~Writable(t, i)'
  BY DEF Quiet, Doing, Writable
<1>4. Ordered(t)
  BY <1>1, <1>3 DEF Ordered, Quiet, Onward
<1>5. Effect(t)
  BY DEF Effect, Quiet, Drops
<1>6. Typed(t)
  BY <1>1 DEF Typed, Quiet, Looping, Onward
<1>7. Shape(t)'
  <2>1. Staged(t)' /\ LoopsTyped(t)'
    BY CarriedOver DEF Staged, LoopsTyped, Quiet
  <2>. QED  BY <1>1, <1>3, <2>1 DEF Shape, Prepped, Begun, Quiet, Doing, Onward, Unsent
<1>. QED  BY <1>2, <1>4, <1>5, <1>6, <1>7 DEF Legal

\* A call that returns, whatever its operation.
LEMMA ReturnLegal ==
    ASSUME Core, NEW t \in Tasks, Quiet(t), NEW how \in {"ok", "error", "invalid"}, Return(t, how),
           rest' = rest, names' = names, how = "invalid" => pc[t] = "begin" /\ db' = db
    PROVE  Legal(t)
<1>1. pc'[t] = how /\ seen'[t] = Nothing /\ todo'[t] = {} /\ found'[t] = found[t]
  BY GoingIs DEF Core
<1>2. Moves(t)
  BY GotoIs DEF Moves, Quiet, Looping, Core, Return
<1>3. \A i : ~Writable(t, i)'
  BY <1>1 DEF Writable, Unsent
<1>4. Ordered(t) /\ Effect(t)
  BY <1>1, <1>3 DEF Ordered, Effect, Quiet, Drops
<1>5. Typed(t)
  BY <1>1, DbIs DEF Typed, Quiet, Looping, Stages, Ended, Core, TypeOK
<1>6. Shape(t)'
  <2>1. Allowed(t, how) /\ LoopOk(t, how, rest[t])
    BY DEF Allowed, LoopOk, Core, Shape, LoopsTyped
  <2>2. Staged(t)' /\ LoopsTyped(t)'
    BY <1>1, <2>1, CarriedOver DEF Quiet
  <2>. QED  BY <1>1, <2>2 DEF Shape, Prepped, Begun, Unsent
<1>. QED  BY <1>2, <1>4, <1>5, <1>6 DEF Legal

LEMMA GoingTo ==
    ASSUME TypeOK, NEW t \in Tasks, NEW stages
    PROVE  /\ \A stage \in stages : GoOn(t, stage) => Going(t, stages)
           /\ \A stage \in stages : Return(t, stage) => Going(t, stages)
           /\ \A f \in [Slots -> Doc] : "ok" \in stages /\ Answer(t, f) => Going(t, stages)
           /\ \A stage \in stages, o \in [Slots -> Doc], d \in SUBSET Slots, f \in [Slots -> Doc] :
                Goto(t, stage, o, d, f) => Going(t, stages)
<1>1. \A stage \in stages, o \in [Slots -> Doc], d \in SUBSET Slots, f \in [Slots -> Doc] :
         Goto(t, stage, o, d, f) => Going(t, stages)
  BY DEF Going
<1>2. \A stage \in stages : GoOn(t, stage) => Going(t, stages)
  BY <1>1, DbIs DEF GoOn
<1>3. \A stage \in stages : Return(t, stage) => Going(t, stages)
  BY <1>1, DbIs DEF Return
<1>4. \A f \in [Slots -> Doc] : "ok" \in stages /\ Answer(t, f) => Going(t, stages)
  BY <1>1, DbIs DEF Answer
<1>. QED  BY <1>1, <1>2, <1>3, <1>4

\* Keys apart have their last places apart.
LEMMA LastPositionsDiffer ==
    ASSUME TypeOK, NEW t \in Tasks, NEW s \in Target(t), NEW r \in Target(t), s # r
    PROVE  LastPosition(t, s) # LastPosition(t, r)
<1>1. s = <<call[t].coll, s[2]>> /\ r = <<call[t].coll, r[2]>>
  BY SlotsAssumption DEF Target
<1>2. LastPosition(t, s) \in Positions(t, s) /\ LastPosition(t, r) \in Positions(t, r)
  BY PositionFacts
<1>. QED  BY <1>1, <1>2 DEF Positions

\* A write sets out, with its entries.
LEMMA SendingLegal ==
    ASSUME Core, NEW t \in Tasks, ~OnS3, Doing(t, Writes), pc[t] \in Unsent, Quiet(t), db' = db,
           Going(t, Onward), Allowed(t, pc'[t]), LoopOk(t, pc'[t], rest'[t]), Prepped(t)', found'[t] = Nothing
    PROVE  Legal(t)
<1>. PICK stage \in Onward, o \in [Slots -> Doc], d \in SUBSET Slots, f \in [Slots -> Doc] :
        Goto(t, stage, o, d, f)
  BY DEF Going
<1>1. pc'[t] = stage /\ seen'[t] = o /\ todo'[t] = d /\ found'[t] = f
  BY GotoIs DEF Core
<1>2. Moves(t)
  BY GotoIs DEF Moves, Quiet, Looping, Core
<1>3. \A i : Writable(t, i)
  BY DEF Writable
<1>4. Ordered(t) /\ Effect(t)
  BY <1>1, <1>3 DEF Ordered, Effect, Quiet, Drops, Onward
<1>5. Typed(t)
  BY <1>1 DEF Typed, Quiet, Looping, Onward
<1>6. Shape(t)'
  <2>1. Staged(t)' /\ LoopsTyped(t)'
    BY CarriedOver DEF Staged, LoopsTyped, Quiet
  <2>. QED  BY <1>1, <2>1 DEF Shape, Begun, Quiet, Doing, Onward
<1>. QED  BY <1>2, <1>4, <1>5, <1>6 DEF Legal

\* A write stores all its entries at once.
LEMMA StoringAllLegal ==
    ASSUME Core, NEW t \in Tasks, ~OnS3, Doing(t, Writes), pc[t] \in Unsent, NEW o \in [Slots -> Doc],
           \A s \in Target(t) : o[s].writer = <<t, LastPosition(t, s)>>,
           db' = Stored(Target(t), o), Return(t, "ok"), now' = now, UNCHANGED <<backend, call, rest, names>>,
           alien' \subseteq Collections, lock' \in Tasks \cup {NoTask}
    PROVE  Legal(t)
<1>1. pc'[t] = "ok" /\ seen'[t] = Nothing /\ todo'[t] = {} /\ found'[t] = found[t]
  BY GoingIs DEF Core
<1>2. Moves(t)
  BY GotoIs DEF Moves, Core, Return, TypeOK
<1>3. \A i : Writable(t, i) /\ ~Writable(t, i)'
  BY <1>1 DEF Writable, Unsent
<1>4. Ordered(t)
  BY <1>1, <1>3 DEF Ordered, Unsent, Ended
<1>5. Target(t) \subseteq Slots /\ db' \in [Slots -> Doc]
      /\ \A s \in Slots : db'[s] = IF s \in Target(t) THEN o[s] ELSE db[s]
  BY DbIs DEF Core
<1>6. \A s \in Target(t) : LastPosition(t, s) \in Positions(t, s)
  BY PositionFacts DEF Core
<1>7. Effect(t)
  <2>. HIDE DEF LastPosition, Target, Writable
  <2>. QED  BY <1>1, <1>3, <1>5, <1>6 DEF Effect
<1>8. Typed(t)
  BY <1>1, DbIs DEF Typed, Stages, Ended, Core, TypeOK
<1>9. Shape(t)'
  BY <1>1 DEF Shape, Staged, LoopsTyped, Allowed, LoopOk, Prepped, Begun, Doing, Unsent, Core, OnS3
<1>. QED  BY <1>2, <1>4, <1>7, <1>8, <1>9 DEF Legal

\* A write stores one of its entries.
LEMMA StoringOneLegal ==
    ASSUME Core, NEW t \in Tasks, ~OnS3, Doing(t, Writes), pc[t] \in {"writing", "batch"}, NEW s \in todo[t],
           db' = Stored({s}, seen[t]), now' = now, UNCHANGED <<backend, call, rest, names>>,
           alien' \subseteq Collections, lock' \in Tasks \cup {NoTask},
           Going(t, {"ok", "writing", "batch"}),
           pc'[t] \in {"writing", "batch"} => todo'[t] = todo[t] \ {s} /\ \A r \in todo'[t] : seen'[t][r] = seen[t][r]
    PROVE  Legal(t)
<1>. PICK stage \in {"ok", "writing", "batch"}, o \in [Slots -> Doc], d \in SUBSET Slots, f \in [Slots -> Doc] :
        Goto(t, stage, o, d, f)
  BY DEF Going
<1>1. pc'[t] = stage /\ seen'[t] = o /\ todo'[t] = d /\ found'[t] = f
  BY GotoIs DEF Core
<1>2. Moves(t)
  BY GotoIs DEF Moves, Core, TypeOK
<1>3. /\ todo[t] \subseteq Target(t) /\ Target(t) \subseteq Slots
      /\ \A r \in todo[t] : seen[t][r].writer = <<t, LastPosition(t, r)>>
  BY DEF Core, Shape, Prepped, Fresh, Target
<1>4. \A i : Writable(t, i)' => Writable(t, i)
  BY <1>1 DEF Writable, Unsent, OnS3, Doing
<1>5. Ordered(t)
  BY <1>1, <1>4 DEF Ordered, Ended
<1>6. Writable(t, LastPosition(t, s)) /\ LastPosition(t, s) \in Positions(t, s)
  BY <1>3, PositionFacts DEF Writable, Core
<1>7. ~Writable(t, LastPosition(t, s))'
  <2>. SUFFICES ASSUME Writable(t, LastPosition(t, s))' PROVE FALSE
    OBVIOUS
  <2>1. LastPosition(t, s)' = LastPosition(t, s)
    BY DEF LastPosition, Positions
  <2>2. pc'[t] \in {"writing", "batch"} /\ \E r \in todo'[t] : seen'[t][r].writer = <<t, LastPosition(t, s)>>
    BY <1>1, <2>1 DEF Writable, Unsent, OnS3
  <2>3. PICK r \in todo[t] \ {s} : seen[t][r].writer = <<t, LastPosition(t, s)>>
    BY <2>2
  <2>4. LastPosition(t, r) # LastPosition(t, s)
    BY <1>3, <2>3, LastPositionsDiffer DEF Core
  <2>. QED  BY <1>3, <2>3, <2>4
<1>8. Effect(t)
  <2>1. {s} \in SUBSET Slots /\ seen[t] \in [Slots -> Doc]
    BY <1>3 DEF Core, TypeOK
  <2>2. db' \in [Slots -> Doc] /\ \A r \in Slots : db'[r] = IF r \in {s} THEN seen[t][r] ELSE db[r]
    BY <2>1, DbIs DEF Core
  <2>3. LastPosition(t, s)' = LastPosition(t, s)
    BY DEF LastPosition, Positions
  <2>4. \E i \in Positions(t, s) : /\ seen[t][s].writer = <<t, i>> /\ Writable(t, i) /\ ~Writable(t, i)'
                                   /\ i = LastPosition(t, s)
    <3>1. \A j : j = LastPosition(t, s) => ~Writable(t, j)'
      BY <1>7, <2>3
    <3>. QED  BY <1>3, <1>6, <3>1
  <2>. HIDE DEF Writable, LastPosition
  <2>. QED  BY <1>1, <1>3, <2>2, <2>4 DEF Effect
<1>9. Typed(t)
  BY <1>1 DEF Typed, Stages, Ended, Core, TypeOK
<1>10. Shape(t)'
  <2>1. Staged(t)'
    BY <1>1 DEF Staged, Allowed
  <2>2. LoopsTyped(t)' /\ Begun(t)'
    BY <1>1 DEF LoopsTyped, LoopOk, Begun, Unsent, Core, Shape, OnS3
  <2>3. Prepped(t)'
    BY <1>1, <1>3 DEF Prepped, Fresh, Target, LastPosition, Positions
  <2>. QED  BY <2>1, <2>2, <2>3 DEF Shape
<1>. QED  BY <1>2, <1>5, <1>8, <1>9, <1>10 DEF Legal

\* A step of a call that is no write.
LEMMA GotoLegal ==
    ASSUME Core, NEW t \in Tasks, ~Doing(t, Writes), Quiet(t),
           NEW stage \in Onward, NEW o \in [Slots -> Doc], NEW d \in SUBSET Slots, NEW f \in [Slots -> Doc],
           Goto(t, stage, o, d, f), Allowed(t, stage), LoopOk(t, stage, rest'[t]),
           stage \in Unsent /\ ~Doing(t, {"cull"}) => f = Nothing
    PROVE  Legal(t)
<1>1. pc'[t] = stage /\ found'[t] = f
  BY GotoIs DEF Core
<1>2. Going(t, Onward)
  BY DEF Going
<1>. QED  BY <1>1, <1>2, QuietLegal

\* The loop of a call, and what its other variables are.
LEMMA PlainLoop ==
    ASSUME Core, NEW t \in Tasks
    PROVE  /\ UNCHANGED <<rest, names>> => Looping(t)
           /\ ~OnS3 => rest[t] \subseteq Collections /\ \A stage, left : LoopOk(t, stage, left) <=> left \subseteq Collections
           /\ alien \subseteq Collections /\ lock \in Tasks \cup {NoTask}
<1>1. UNCHANGED <<rest, names>> => Looping(t)
  BY DEF Looping, Core, TypeOK
<1>2. ~OnS3 => rest[t] \subseteq Collections /\ \A stage, left : LoopOk(t, stage, left) <=> left \subseteq Collections
  BY DEF Core, Shape, LoopsTyped, LoopOk
<1>. QED  BY <1>1, <1>2 DEF Core, TypeOK

\* Steps of a call that is no write, under way, that leave its loop alone,
LEMMA PlainQuiet ==
    ASSUME Core, NEW t \in Tasks, pc[t] \notin Ended, Drops, Plain, UNCHANGED <<backend, call>>
    PROVE  Quiet(t) /\ rest' = rest
<1>. QED  BY PlainLoop DEF Quiet, Plain, Core, TypeOK

\* or go through collections.
LEMMA OnwardLegal ==
    ASSUME Core, NEW t \in Tasks, ~OnS3, ~Doing(t, Writes), Quiet(t), rest'[t] \subseteq Collections,
           NEW stages \in SUBSET (Onward \ Unsent), Going(t, stages), \A stage \in stages : Allowed(t, stage)
    PROVE  Legal(t)
<1>. PICK stage \in stages, o \in [Slots -> Doc], d \in SUBSET Slots, f \in [Slots -> Doc] : Goto(t, stage, o, d, f)
  BY DEF Going
<1>1. LoopOk(t, stage, rest'[t]) /\ stage \in Onward /\ stage \notin Unsent
  BY PlainLoop
<1>. QED  BY <1>1, GotoLegal

LEMMA PlainLegal ==
    ASSUME Core, NEW t \in Tasks, ~OnS3, ~Doing(t, Writes), pc[t] \notin Ended, Drops, Plain, UNCHANGED <<backend, call>>,
           NEW stages \in SUBSET (Onward \ Unsent), Going(t, stages), \A stage \in stages : Allowed(t, stage)
    PROVE  Legal(t)
<1>. QED  BY OnwardLegal, PlainQuiet, PlainLoop

LEMMA FailLegal ==
    ASSUME Core, NEW t \in Tasks, Fail(t), UNCHANGED <<backend, call>>
    PROVE  Legal(t)
<1>1. Quiet(t)
  BY PlainLoop, DropsIs DEF Fail, Quiet, serverVars, Core, TypeOK
<1>. QED  BY <1>1, ReturnLegal DEF Fail

\* A read of all its keys at once.
LEMMA FetchGoing ==
    ASSUME TypeOK, NEW t \in Tasks, NEW decoded, Fetch(t, decoded)
    PROVE  Going(t, {"ok", "expiring", "error"})
<1>1. [s \in Slots |-> IF s \in LiveOf(Target(t)) THEN db[s] ELSE found[t][s]] \in [Slots -> Doc]
  BY DbIs
<1>2. ExpiredOf(Target(t)) \in SUBSET Slots /\ Of(Target(t)) \in [Slots -> Doc]
  BY DbIs
<1>3. Return(t, "error") \/ Goto(t, IF ExpiredOf(Target(t)) = {} THEN "ok" ELSE "expiring", Of(Target(t)), ExpiredOf(Target(t)),
           [s \in Slots |-> IF s \in LiveOf(Target(t)) THEN db[s] ELSE found[t][s]])
  BY DEF Fetch
<1>. QED  BY <1>1, <1>2, <1>3, GoingTo

LEMMA MongoLegal ==
    ASSUME Core, NEW t \in Tasks, backend = "mongodb", MongoNext(t), UNCHANGED <<backend, call>>
    PROVE  Legal(t)
<1>0. ~OnS3 /\ TypeOK /\ DocsSpent
  BY DEF OnS3, Core
<1>1. CASE MongoOpen(t)
  <2>0. pc[t] = "begin" /\ found[t] = Nothing /\ "begin" \in Unsent
    BY <1>1 DEF MongoOpen, At, Core, Shape, Begun, Unsent
  <2>1. Quiet(t) /\ db' = db
    BY <1>0, <1>1, PlainLoop, DropsIs DEF MongoOpen, MongoCollection, At, Quiet, Ended, serverVars
  <2>2. CASE Return(t, "invalid") \/ Return(t, "ok")
    BY <2>0, <2>1, <2>2, ReturnLegal, <1>1 DEF MongoOpen
  <2>3. CASE MongoCollection(t, IF Doing(t, MongoWrites) THEN Prepared(t) ELSE Nothing)
    <3>1. PICK stage \in {"ready", "making"} :
             Goto(t, stage, IF Doing(t, MongoWrites) THEN Prepared(t) ELSE Nothing, {}, Nothing)
      BY <2>0, <2>3 DEF MongoCollection
    <3>2. Allowed(t, stage) /\ LoopOk(t, stage, rest'[t]) /\ stage \in Onward
      BY <1>0, <1>1, PlainLoop DEF MongoOpen, At, Allowed, Doing, Onward, Stages, Ended
    <3>3. CASE Doing(t, Writes)
      <4>1. pc'[t] = stage /\ seen'[t] = Prepared(t) /\ todo'[t] = {} /\ found'[t] = Nothing
        BY <3>1, <3>3, GotoIs, <1>0 DEF MongoWrites, Writes, Doing
      <4>2. Going(t, Onward)
        BY <3>1, <3>2, <3>3, DbIs, PreparedIs, <1>0 DEF Going, MongoWrites, Writes, Doing
      <4>3. Prepped(t)'
        <5>1. \A s \in Target(t) : Prepared(t)[s].writer = <<t, LastPosition(t, s)>>
          BY PreparedIs, <1>0
        <5>. QED  BY <4>1, <5>1 DEF Prepped, Fresh, Target, LastPosition, Positions
      <4>. QED  BY <1>0, <2>0, <2>1, <3>2, <3>3, <4>1, <4>2, <4>3, SendingLegal
    <3>4. CASE ~Doing(t, Writes)
      <4>1. Goto(t, stage, Nothing, {}, Nothing)
        BY <3>1, <3>4 DEF MongoWrites, Writes, Doing
      <4>. QED  BY <1>0, <2>1, <3>2, <3>4, <4>1, GotoLegal, DbIs
    <3>. QED  BY <3>3, <3>4
  <2>. QED  BY <1>1, <2>2, <2>3 DEF MongoOpen
<1>2. CASE MongoMakeIndexes(t) \/ MongoInspectIndexes(t)
  <2>0. pc[t] \in {"making", "checking"}
    BY <1>2 DEF MongoMakeIndexes, MongoInspectIndexes
  <2>1. Quiet(t) /\ db' = db
    BY <1>0, <1>2, PlainLoop, DropsIs DEF MongoMakeIndexes, MongoInspectIndexes, Quiet, Ended, serverVars
  <2>2. CASE Return(t, "error")
    BY <2>1, <2>2, ReturnLegal, <1>2 DEF MongoMakeIndexes, MongoInspectIndexes
  <2>3. ASSUME NEW stage \in {"checking", "ready"}, GoOn(t, stage)
        PROVE  Legal(t)
    <3>1. Doing(t, MongoKeyed \cup {"cull"})
      BY <2>0 DEF Core, Shape, Staged, Allowed
    <3>2. Allowed(t, stage) /\ LoopOk(t, stage, rest'[t]) /\ stage \in Onward
      BY <1>0, <1>2, <3>1, PlainLoop DEF MongoMakeIndexes, MongoInspectIndexes, Allowed, Onward, Stages, Ended
    <3>3. Goto(t, stage, seen[t], todo[t], found[t])
      BY <2>3 DEF GoOn
    <3>4. ~Doing(t, {"cull"}) => found[t] = Nothing
      BY <2>0 DEF Core, Shape, Begun, Unsent
    <3>5. CASE Doing(t, Writes)
      <4>1. pc'[t] = stage /\ seen'[t] = seen[t] /\ todo'[t] = todo[t] /\ found'[t] = Nothing
        BY <3>3, <3>4, <3>5, GotoIs, <1>0 DEF Writes, Doing
      <4>2. Going(t, Onward)
        BY <3>2, <3>3, DbIs, <1>0 DEF Going
      <4>3. Prepped(t)'
        BY <1>0, <2>0, <3>5, <4>1 DEF Prepped, Fresh, Target, LastPosition, Positions, Core, Shape
      <4>. QED  BY <1>0, <2>0, <2>1, <3>2, <3>5, <4>1, <4>2, <4>3, SendingLegal DEF Unsent
    <3>6. CASE ~Doing(t, Writes)
      BY <1>0, <2>1, <3>2, <3>3, <3>4, <3>6, GotoLegal, DbIs
    <3>. QED  BY <3>5, <3>6
  <2>. QED  BY <1>2, <2>2, <2>3 DEF MongoMakeIndexes, MongoInspectIndexes
<1>3. CASE MongoPut(t) \/ MongoPutMany(t)
  <2>1. Doing(t, Writes) /\ pc[t] \in {"ready", "writing"}
    BY <1>3 DEF MongoPut, MongoPutMany, At, Doing, Writes
  <2>2. pc[t] = "ready" => \A s \in Target(t) : seen[t][s].writer = <<t, LastPosition(t, s)>>
    BY <1>0, <2>1 DEF Core, Shape, Prepped, Fresh
  <2>3. CASE MongoPut(t)
    <3>1. /\ pc[t] \in Unsent /\ db' = Stored(Target(t), seen[t]) /\ Return(t, "ok")
          /\ now' = now /\ UNCHANGED <<rest, names>> /\ alien' \subseteq Collections /\ lock' \in Tasks \cup {NoTask}
      BY <2>3, PlainLoop DEF MongoPut, At, Unsent, Plain
    <3>. QED  BY <1>0, <2>1, <2>2, <2>3, <3>1, StoringAllLegal, DbIs DEF MongoPut, At
  <2>4. CASE MongoPutMany(t) /\ pc[t] = "ready"
    <3>1. Goto(t, "writing", seen[t], Target(t), found[t]) /\ Quiet(t) /\ db' = db /\ rest' = rest
      BY <1>0, <2>4, PlainQuiet, DropsIs DEF MongoPutMany, At, Ended
    <3>2. pc'[t] = "writing" /\ seen'[t] = seen[t] /\ todo'[t] = Target(t) /\ found'[t] = found[t]
      BY <1>0, <3>1, GotoIs
    <3>3. Going(t, Onward)
      BY <3>1, DbIs, <1>0 DEF Going, Onward, Stages, Ended
    <3>4. Prepped(t)'
      BY <2>2, <2>4, <3>2 DEF Prepped, Fresh, Target, LastPosition, Positions
    <3>5. Allowed(t, pc'[t]) /\ LoopOk(t, pc'[t], rest'[t]) /\ found[t] = Nothing /\ pc[t] \in Unsent
      BY <1>0, <2>1, <2>4, <3>1, <3>2, PlainLoop DEF Allowed, Core, Shape, Begun, Unsent, Doing, Writes
    <3>. QED  BY <1>0, <2>1, <3>1, <3>2, <3>3, <3>4, <3>5, SendingLegal
  <2>5. CASE MongoPutMany(t) /\ pc[t] = "writing"
    <3>1. PICK s \in todo[t] :
            /\ db' = Stored({s}, seen[t])
            /\ IF todo[t] = {s} THEN Return(t, "ok") ELSE Goto(t, "writing", seen[t], todo[t] \ {s}, found[t])
      BY <2>5 DEF MongoPutMany, At
    <3>2. Going(t, {"ok", "writing", "batch"})
      BY <1>0, <3>1, DbIs DEF Going, Return
    <3>3. pc'[t] \in {"writing", "batch"} => todo'[t] = todo[t] \ {s} /\ \A r \in todo'[t] : seen'[t][r] = seen[t][r]
      BY <1>0, <3>1, GotoIs, GoingIs
    <3>. QED  BY <1>0, <2>1, <2>5, <3>1, <3>2, <3>3, StoringOneLegal, PlainLoop DEF MongoPutMany, Plain
  <2>. QED  BY <1>3, <2>1, <2>3, <2>4, <2>5 DEF MongoPut, At
<1>4. CASE MongoGet(t) \/ MongoGetMany(t) \/ MongoDeleteObserved(t)
  <2>1. ~Doing(t, Writes) /\ pc[t] \notin Ended /\ Drops /\ Plain
    <3>1. pc[t] = "expiring" => Doing(t, Reads \cup {"cull", "keys"})
      BY <1>4 DEF Core, Shape, Staged, Allowed
    <3>. QED  BY <1>0, <1>4, <3>1, DropsIs DEF MongoGet, MongoGetMany, MongoDeleteObserved, At, Doing, Writes, Reads, Ended
  <2>2. CASE MongoGet(t) \/ MongoGetMany(t)
    <3>1. Going(t, {"ok", "expiring", "error"})
      <4>1. Fetch(t, \A s \in Target(t) : MongoDecodes(db[s]))
        BY <2>2 DEF MongoGet, MongoGetMany
      <4>. QED  BY <1>0, <4>1, FetchGoing
    <3>2. Doing(t, Reads)
      BY <2>2 DEF MongoGet, MongoGetMany, At, Doing, Reads
    <3>. QED  BY <1>0, <2>1, <3>1, <3>2, PlainLegal DEF Onward, Stages, Ended, Unsent, Allowed, Doing
  <2>3. CASE MongoDeleteObserved(t)
    <3>1. Going(t, {"ok", "culling"})
      BY <1>0, <2>3, GoingTo, DbIs DEF MongoDeleteObserved
    <3>. QED  BY <1>0, <2>1, <3>1, PlainLegal DEF Onward, Stages, Ended, Unsent, Allowed
  <2>. QED  BY <1>4, <2>2, <2>3
<1>5. CASE MongoDelete(t) \/ MongoDeleteMany(t)
  <2>1. ~Doing(t, Writes) /\ pc[t] \notin Ended /\ Drops /\ Plain /\ Going(t, {"ok"})
    BY <1>0, <1>5, DropsIs, GoingTo, DbIs DEF MongoDelete, MongoDeleteMany, MongoDeletes, At, Doing, Writes, Ended
  <2>. QED  BY <1>0, <2>1, PlainLegal DEF Onward, Stages, Ended, Unsent, Allowed
<1>6. CASE MongoKeys(t)
  <2>1. ~Doing(t, Writes) /\ pc[t] \notin Ended /\ Drops /\ Plain /\ Doing(t, {"keys"})
    BY <1>0, <1>6, DropsIs DEF MongoKeys, At, Doing, Writes, Ended
  <2>2. Going(t, {"ok", "error", "sifting", "expiring"})
    <3>1. CASE pc[t] = "ready"
      BY <1>0, <1>6, <3>1, GoingTo, DbIs DEF MongoKeys, At
    <3>2. CASE pc[t] = "sifting"
      <4>. DEFINE late == {s \in todo[t] : Expired(seen[t][s])}
      <4>1. PICK S \in Limited(todo[t] \ late, call[t].limit), L \in SUBSET late :
              IF \E s \in S \cup L : ~MongoDecodes(seen[t][s]) THEN Return(t, "error")
                 ELSE Goto(t, IF L = {} THEN "ok" ELSE "expiring", seen[t], L,
                           [s \in Slots |-> IF s \in S THEN seen[t][s] ELSE Empty])
        BY <1>6, <3>2 DEF MongoKeys, At
      <4>2. L \in SUBSET Slots
        BY <1>0, DbIs
      <4>3. [s \in Slots |-> IF s \in S THEN seen[t][s] ELSE Empty] \in [Slots -> Doc]
        BY <1>0, DbIs
      <4>. HIDE DEF late
      <4>. QED  BY <1>0, <4>1, <4>2, <4>3, GoingTo, DbIs
    <3>. QED  BY <1>6, <3>1, <3>2 DEF MongoKeys, At
  <2>. QED  BY <1>0, <2>1, <2>2, PlainLegal DEF Onward, Stages, Ended, Unsent, Allowed, Doing
<1>7. CASE MongoCull(t)
  <2>1. ~Doing(t, Writes) /\ pc[t] \notin Ended /\ Drops /\ Doing(t, {"cull"}) /\ pc[t] \in {"begin", "culling", "handle", "ready"}
    BY <1>0, <1>7, DropsIs DEF MongoCull, At, Doing, Writes, Ended, serverVars
  <2>2. CASE pc[t] = "begin"
    <3>1. Going(t, {"culling", "error"})
      BY <1>0, <1>7, <2>2, GoingTo DEF MongoCull, At
    <3>2. Quiet(t) /\ rest'[t] \subseteq Collections
      BY <1>0, <1>7, <2>1, <2>2, PlainLoop DEF MongoCull, MongoOwned, At, Quiet, Looping, serverVars, TypeOK
    <3>. QED  BY <1>0, <2>1, <3>1, <3>2, OnwardLegal DEF Onward, Stages, Ended, Unsent, Allowed
  <2>3. CASE pc[t] = "culling"
    <3>1. Quiet(t) /\ rest'[t] \subseteq Collections
      BY <1>0, <1>7, <2>1, <2>3, PlainLoop DEF MongoCull, At, Quiet, Looping, serverVars, TypeOK
    <3>2. Going(t, {"ok", "handle"})
      BY <1>0, <1>7, <2>3, GoingTo DEF MongoCull, At
    <3>. QED  BY <1>0, <2>1, <3>1, <3>2, OnwardLegal DEF Onward, Stages, Ended, Unsent, Allowed
  <2>4. CASE pc[t] = "handle"
    <3>1. PICK stage \in {"ready", "making"} : Goto(t, stage, Nothing, {}, found[t])
      BY <1>7, <2>4 DEF MongoCull, At, MongoCollection
    <3>2. Quiet(t) /\ rest'[t] \subseteq Collections
      BY <1>0, <1>7, <2>1, <2>4, PlainLoop DEF MongoCull, MongoCollection, At, Quiet, Looping, serverVars, TypeOK
    <3>3. Allowed(t, stage) /\ stage \in Onward /\ LoopOk(t, stage, rest'[t])
      BY <1>0, <2>1, <3>2, PlainLoop DEF Allowed, Doing, Onward, Stages, Ended
    <3>. QED  BY <1>0, <2>1, <3>1, <3>2, <3>3, GotoLegal, DbIs
  <2>5. CASE pc[t] = "ready"
    <3>1. Plain
      BY <1>7, <2>5 DEF MongoCull, At
    <3>2. Going(t, {"error", "culling", "expiring"})
      <4>. DEFINE old == {s \in In(MongoCurrent(t)) : Present(db[s]) /\ ExpiredAt(db[s], since[t])}
      <4>1. Return(t, "error") \/ Goto(t, IF old = {} THEN "culling" ELSE "expiring", Of(old), old, found[t])
        BY <1>7, <2>5 DEF MongoCull, At
      <4>2. old \in SUBSET Slots
        BY DEF In
      <4>. HIDE DEF old
      <4>. QED  BY <1>0, <4>1, <4>2, GoingTo, DbIs
    <3>. QED  BY <1>0, <2>1, <3>1, <3>2, PlainLegal DEF Onward, Stages, Ended, Unsent, Allowed, Doing
  <2>. QED  BY <2>1, <2>2, <2>3, <2>4, <2>5
<1>8. CASE MongoCollections(t)
  <2>1. ~Doing(t, Writes) /\ pc[t] \notin Ended /\ Drops /\ Going(t, {"ok", "error"})
    BY <1>0, <1>8, DropsIs, GoingTo DEF MongoCollections, At, Doing, Writes, Ended, serverVars
  <2>2. Quiet(t) /\ rest'[t] \subseteq Collections
    <3>1. /\ rest' = rest /\ rest[t] \subseteq Collections
          /\ alien' = alien /\ lock' = lock /\ now' = now
      BY <1>0, <1>8, PlainLoop DEF MongoCollections, serverVars, OnS3
    <3>2. names' = [names EXCEPT ![t] = names'[t]] /\ names'[t] \subseteq Collections
      <4>1. names \in [Tasks -> SUBSET Collections]
        BY <1>0 DEF Core, TypeOK
      <4>2. (\E N \in Limited(MongoOwned, call[t].limit) : names' = [names EXCEPT ![t] = N]) \/ UNCHANGED names
        BY <1>8 DEF MongoCollections
      <4>3. \A N \in Limited(MongoOwned, call[t].limit) : N \subseteq Collections
        BY DEF Limited, MongoOwned
      <4>. QED  BY <4>1, <4>2, <4>3
    <3>3. rest' = [rest EXCEPT ![t] = rest'[t]]
      BY <1>0, <3>1 DEF Core, TypeOK
    <3>4. alien' \subseteq Collections /\ lock' \in Tasks \cup {NoTask}
      BY <1>0, <3>1, PlainLoop
    <3>. QED  BY <1>0, <2>1, <3>1, <3>2, <3>3, <3>4 DEF Quiet, Looping
  <2>. QED  BY <1>0, <2>1, <2>2, OnwardLegal DEF Onward, Stages, Ended, Unsent, Allowed
<1>9. CASE MongoDestroyCollection(t)
  <2>1. ~Doing(t, Writes) /\ pc[t] \notin Ended /\ Drops /\ Going(t, {"dropping", "forgetting", "ok"})
    BY <1>0, <1>9, DropsIs, GoingTo DEF MongoDestroyCollection, MongoDrop, At, Doing, Writes, Ended, serverVars
  <2>2. Quiet(t) /\ rest'[t] \subseteq Collections
    BY <1>0, <1>9, <2>1, PlainLoop DEF MongoDestroyCollection, Quiet, Looping, serverVars, Plain, TypeOK
  <2>. QED  BY <1>0, <2>1, <2>2, OnwardLegal DEF Onward, Stages, Ended, Unsent, Allowed
<1>10. CASE MongoDestroy(t)
  <2>1. ~Doing(t, Writes) /\ pc[t] \notin Ended /\ Drops /\ Going(t, {"dropping", "forgetting", "ok", "error"})
    BY <1>0, <1>10, DropsIs, GoingTo DEF MongoDestroy, MongoDrop, At, Doing, Writes, Ended, serverVars
  <2>2. Quiet(t) /\ rest'[t] \subseteq Collections
    <3>1. rest'[t] \subseteq Collections /\ names'[t] \subseteq Collections
          /\ rest' = [rest EXCEPT ![t] = rest'[t]] /\ names' = [names EXCEPT ![t] = names'[t]]
      BY <1>0, <1>10, PlainLoop DEF MongoDestroy, MongoOwned, TypeOK
    <3>. QED  BY <1>0, <1>10, <2>1, <3>1, PlainLoop DEF MongoDestroy, Quiet, Looping, serverVars
  <2>. QED  BY <1>0, <2>1, <2>2, OnwardLegal DEF Onward, Stages, Ended, Unsent, Allowed
<1>. QED  BY <1>1, <1>2, <1>3, <1>4, <1>5, <1>6, <1>7, <1>8, <1>9, <1>10 DEF MongoNext

\* A batch sets out, with the entries of its keys,
LEMMA BatchSent ==
    ASSUME Core, NEW t \in Tasks, ~OnS3, Doing(t, Writes), pc[t] = "begin", Plain, db' = db,
           UNCHANGED <<backend, call>>, NEW stage \in {"ok", "writing", "batch"},
           NEW f \in {Nothing, found[t]}, Goto(t, stage, Prepared(t), Target(t), f)
    PROVE  Legal(t)
<1>0. TypeOK /\ found[t] = Nothing /\ pc[t] \in Unsent
  BY DEF Core, Shape, Begun, Unsent
<1>1. pc'[t] = stage /\ seen'[t] = Prepared(t) /\ todo'[t] = Target(t) /\ found'[t] = Nothing
  BY <1>0, GotoIs
<1>2. Quiet(t) /\ rest' = rest
  BY <1>0, PlainQuiet, DropsIs DEF Ended
<1>3. Prepared(t) \in [Slots -> Doc] /\ \A s \in Target(t) : Prepared(t)[s].writer = <<t, LastPosition(t, s)>>
  BY <1>0, PreparedIs
<1>4. Going(t, Onward)
  <2>1. stage \in Onward /\ f \in [Slots -> Doc] /\ Target(t) \in SUBSET Slots
    BY <1>0, DbIs DEF Onward, Stages, Ended
  <2>. QED  BY <1>0, <1>3, <2>1, GoingTo
<1>5. Allowed(t, stage) /\ LoopOk(t, stage, rest'[t])
  BY <1>2, PlainLoop DEF Allowed
<1>6. Prepped(t)'
  BY <1>1, <1>3 DEF Prepped, Fresh, Target, LastPosition, Positions
<1>. QED  BY <1>0, <1>1, <1>2, <1>4, <1>5, <1>6, SendingLegal

\* and goes on.
LEMMA BatchStored ==
    ASSUME Core, NEW t \in Tasks, ~OnS3, Doing(t, Writes), pc[t] = "writing",
           NEW s \in todo[t], db' = Stored({s}, seen[t]), UNCHANGED <<backend, call, alien, lock, now, rest, names>>,
           IF todo[t] = {s} THEN Return(t, "ok") ELSE Goto(t, "writing", seen[t], todo[t] \ {s}, found[t])
    PROVE  Legal(t)
<1>0. TypeOK
  BY DEF Core
<1>1. Going(t, {"ok", "writing", "batch"})
  BY <1>0, GoingTo, DbIs
<1>2. pc'[t] \in {"writing", "batch"} => todo'[t] = todo[t] \ {s} /\ \A r \in todo'[t] : seen'[t][r] = seen[t][r]
  BY <1>0, GotoIs, GoingIs
<1>. QED  BY <1>1, <1>2, StoringOneLegal, PlainLoop

\* A call that stores its one entry.
LEMMA PutLegal ==
    ASSUME Core, NEW t \in Tasks, ~OnS3, Doing(t, Writes), pc[t] = "begin",
           db' = Stored(Target(t), Prepared(t)), Return(t, "ok"), Plain, UNCHANGED <<backend, call>>
    PROVE  Legal(t)
<1>0. TypeOK
  BY DEF Core
<1>. QED  BY <1>0, StoringAllLegal, PreparedIs, PlainLoop DEF Plain, Unsent

LEMMA DynamoLegal ==
    ASSUME Core, NEW t \in Tasks, backend = "dynamodb", DynamoNext(t), UNCHANGED <<backend, call>>
    PROVE  Legal(t)
<1>0. ~OnS3 /\ TypeOK
  BY DEF OnS3, Core
<1>1. CASE DynamoEnsureTable(t) \/ DynamoEnsureTtl(t)
  <2>1. ~Doing(t, Writes) /\ pc[t] \notin Ended /\ Drops
    BY <1>0, <1>1, DropsIs DEF DynamoEnsureTable, DynamoEnsureTtl, At, Doing, Writes, Ended
  <2>2. Going(t, {"ok", "error", "creating", "waiting", "ttl", "enabling", "verifying"})
    BY <1>0, <1>1, GoingTo DEF DynamoEnsureTable, DynamoEnsureTtl
  <2>3. Quiet(t) /\ rest'[t] \subseteq Collections
    BY <1>0, <1>1, <2>1, PlainLoop DEF DynamoEnsureTable, DynamoEnsureTtl, Quiet, clientVars, Plain
  <2>. QED  BY <1>0, <2>1, <2>2, <2>3, OnwardLegal DEF Onward, Stages, Ended, Unsent, Allowed
<1>2. CASE DynamoRefuse(t)
  <2>1. Quiet(t) /\ rest' = rest /\ names' = names /\ db' = db /\ pc[t] = "begin"
    BY <1>0, <1>2, PlainQuiet, DropsIs DEF DynamoRefuse, Ended, Plain
  <2>. QED  BY <1>2, <2>1, ReturnLegal DEF DynamoRefuse
<1>3. CASE DynamoGet(t)
  <2>1. ~Doing(t, Writes) /\ pc[t] \notin Ended /\ Drops /\ Plain /\ Doing(t, Reads)
    BY <1>0, <1>3, DropsIs DEF DynamoGet, DynamoOpen, DynamoReadEntry, DynamoReads, At, Doing, Writes, Reads, Ended
  <2>2. Going(t, {"ok", "expiring", "error"})
    BY <1>0, <1>3, FetchGoing DEF DynamoGet, DynamoReadEntry
  <2>. QED  BY <1>0, <2>1, <2>2, PlainLegal DEF Onward, Stages, Ended, Unsent, Allowed, Doing
<1>4. CASE DynamoGetMany(t)
  <2>1. ~Doing(t, Writes) /\ pc[t] \notin Ended /\ Drops /\ Plain
    BY <1>0, <1>4, DropsIs DEF DynamoGetMany, DynamoOpen, DynamoBatchReads, At, Doing, Writes, Ended
  <2>2. Going(t, {"ok", "fetching"})
    BY <1>0, <1>4, GoingTo, DbIs DEF DynamoGetMany
  <2>. QED  BY <1>0, <2>1, <2>2, PlainLegal DEF Onward, Stages, Ended, Unsent, Allowed
<1>5. CASE DynamoReadEntries(t)
  <2>1. ~Doing(t, Writes) /\ pc[t] \notin Ended /\ Drops /\ Plain /\ Doing(t, Reads)
    BY <1>0, <1>5, DropsIs DEF DynamoReadEntries, DynamoBatchReads, At, Doing, Writes, Reads, Ended
  <2>2. Going(t, {"ok", "expiring", "error", "fetching"})
    <3>1. PICK s \in todo[t] :
            LET o == [seen[t] EXCEPT ![s] = db[s]]
                late == {r \in Target(t) : Present(o[r]) /\ Expired(o[r])} IN
            \/ Return(t, "error")
            \/ Goto(t, "fetching", o, todo[t] \ {s}, Nothing)
            \/ Goto(t, IF late = {} THEN "ok" ELSE "expiring", o, late,
                     [r \in Slots |-> IF r \in late THEN Empty ELSE o[r]])
      BY <1>5 DEF DynamoReadEntries
    <3>. DEFINE o == [seen[t] EXCEPT ![s] = db[s]]
                late == {r \in Target(t) : Present(o[r]) /\ Expired(o[r])}
    <3>2. o \in [Slots -> Doc]
      BY <1>0, DbIs
    <3>3. late \in SUBSET Slots
      BY <1>0, DbIs
    <3>4. [r \in Slots |-> IF r \in late THEN Empty ELSE o[r]] \in [Slots -> Doc]
      <4>. HIDE DEF late, o
      <4>. QED  BY <1>0, <3>2, DbIs
    <3>5. \/ Return(t, "error")
          \/ Goto(t, "fetching", o, todo[t] \ {s}, Nothing)
          \/ Goto(t, IF late = {} THEN "ok" ELSE "expiring", o, late, [r \in Slots |-> IF r \in late THEN Empty ELSE o[r]])
      BY <3>1
    <3>. HIDE DEF late, o
    <3>. QED  BY <1>0, <3>2, <3>3, <3>4, <3>5, GoingTo, DbIs
  <2>. QED  BY <1>0, <2>1, <2>2, PlainLegal DEF Onward, Stages, Ended, Unsent, Allowed, Doing
<1>6. CASE DynamoDeleteObserved(t)
  <2>1. ~Doing(t, Writes) /\ pc[t] \notin Ended /\ Drops /\ Plain /\ Doing(t, Reads \cup {"cull", "keys", "collections"})
    <3>1. Doing(t, Reads \cup {"cull", "keys", "collections"})
      BY <1>0, <1>6 DEF DynamoDeleteObserved, Core, Shape, Staged, Allowed
    <3>. QED  BY <1>0, <1>6, <3>1, DropsIs DEF DynamoDeleteObserved, Doing, Writes, Reads, Ended
  <2>2. Going(t, {"ok", "scanning", "expiring"})
    BY <1>0, <1>6, GoingTo, DbIs DEF DynamoDeleteObserved
  <2>. QED  BY <1>0, <2>1, <2>2, PlainLegal DEF Onward, Stages, Ended, Unsent, Allowed, Doing
<1>7. CASE DynamoPut(t)
  BY <1>0, <1>7, PutLegal DEF DynamoPut, DynamoOpen, At, Doing, Writes
<1>8. CASE DynamoPutMany(t)
  <2>1. Doing(t, Writes)
    BY <1>8 DEF DynamoPutMany, DynamoOpen, At, Doing, Writes
  <2>2. CASE pc[t] = "begin"
    BY <1>0, <1>8, <2>1, <2>2, BatchSent DEF DynamoPutMany, DynamoOpen, At
  <2>3. CASE pc[t] = "writing"
    BY <1>0, <1>8, <2>1, <2>3, BatchStored DEF DynamoPutMany, DynamoOpen, At, Plain
  <2>. QED  BY <1>8, <2>2, <2>3 DEF DynamoPutMany, DynamoOpen, At
<1>9. CASE DynamoDelete(t) \/ DynamoDeleteMany(t)
  <2>1. ~Doing(t, Writes) /\ pc[t] \notin Ended /\ Drops /\ Plain
    BY <1>0, <1>9, DropsIs DEF DynamoDelete, DynamoDeleteMany, DynamoOpen, At, Doing, Writes, Ended
  <2>2. Going(t, {"ok", "error", "deleting"})
    BY <1>0, <1>9, GoingTo, DbIs DEF DynamoDelete, DynamoDeleteMany
  <2>. QED  BY <1>0, <2>1, <2>2, PlainLegal DEF Onward, Stages, Ended, Unsent, Allowed, Doing
<1>10. CASE DynamoCull(t) \/ DynamoKeys(t) \/ DynamoCollections(t)
  <2>0. PICK op \in {"cull", "keys", "collections"} : DynamoScan(t, op)
    BY <1>10 DEF DynamoCull, DynamoKeys, DynamoCollections
  <2>1. ~Doing(t, Writes) /\ pc[t] \notin Ended /\ Drops /\ Doing(t, {"cull", "keys", "collections"})
    BY <1>0, <2>0, DropsIs DEF DynamoScan, DynamoOpen, At, Doing, Writes, Ended, serverVars
  <2>2. Going(t, {"ok", "error", "scanning", "expiring"})
    <3>1. DynamoScope(t) \in SUBSET Slots /\ \A s \in Slots : [found[t] EXCEPT ![s] = db[s]] \in [Slots -> Doc]
      BY <1>0, DbIs DEF DynamoScope
    <3>2. CASE pc[t] = "begin"
      BY <1>0, <2>0, <3>1, <3>2, GoingTo, DbIs DEF DynamoScan, DynamoOpen, At
    <3>3. CASE pc[t] = "scanning" /\ Answer(t, found[t])
      BY <1>0, <3>3, GoingTo, DbIs
    <3>4. CASE pc[t] = "scanning" /\ ~Answer(t, found[t])
      <4>1. PICK s \in todo[t] :
                \/ Return(t, "error")
                \/ Goto(t, "expiring", Of({s}), todo[t], found[t])
                \/ Goto(t, "scanning", Nothing, todo[t] \ {s}, IF Doing(t, {"keys"}) THEN [found[t] EXCEPT ![s] = db[s]] ELSE found[t])
        BY <2>0, <3>4 DEF DynamoScan, DynamoOpen, At
      <4>. QED  BY <1>0, <3>1, <4>1, GoingTo, DbIs
    <3>. QED  BY <2>0, <3>2, <3>3, <3>4 DEF DynamoScan, DynamoOpen, At
  <2>3. Quiet(t) /\ rest'[t] \subseteq Collections
    <3>1. alien' = alien /\ lock' = lock /\ now' = now /\ rest' = rest
          /\ (names' = names \/ \E s \in todo[t] : names' = [names EXCEPT ![t] = @ \cup {s[1]}])
      BY <2>0 DEF DynamoScan, serverVars, clientVars, Plain
    <3>2. \A s \in todo[t] : s[1] \in Collections
      BY <1>0, DbIs, SlotsAssumption
    <3>3. Looping(t)
      <4>1. CASE names' = names
        BY <3>1, <4>1, PlainLoop DEF Looping
      <4>2. ASSUME NEW s \in todo[t], names' = [names EXCEPT ![t] = @ \cup {s[1]}]
            PROVE  Looping(t)
        <5>1. names[t] \subseteq Collections /\ names'[t] = names[t] \cup {s[1]}
          BY <1>0, <4>2 DEF TypeOK
        <5>2. names' = [names EXCEPT ![t] = names'[t]]
          BY <4>2, <5>1
        <5>3. rest' = [rest EXCEPT ![t] = rest'[t]]
          BY <1>0, <3>1 DEF TypeOK
        <5>. QED  BY <3>2, <4>2, <5>1, <5>2, <5>3 DEF Looping
      <4>. QED  BY <3>1, <4>1, <4>2
    <3>. QED  BY <1>0, <2>1, <3>1, <3>3, PlainLoop DEF Quiet
  <2>. QED  BY <1>0, <2>1, <2>2, <2>3, OnwardLegal DEF Onward, Stages, Ended, Unsent, Allowed, Doing
<1>11. CASE DynamoDestroyCollection(t)
  <2>1. ~Doing(t, Writes) /\ pc[t] \notin Ended /\ Drops /\ Plain
    BY <1>0, <1>11, DropsIs DEF DynamoDestroyCollection, At, Doing, Writes, Ended
  <2>2. Going(t, {"ok", "error", "deleting", "again"})
    <3>1. \A page \in Limited({s \in In(call[t].coll) : Present(db[s])}, PageSize) : page \in SUBSET Slots
      BY DEF Limited, In
    <3>. QED  BY <1>0, <1>11, <3>1, GoingTo, DbIs DEF DynamoDestroyCollection
  <2>. QED  BY <1>0, <2>1, <2>2, PlainLegal DEF Onward, Stages, Ended, Unsent, Allowed, Doing
<1>12. CASE DynamoDestroy(t)
  <2>1. Quiet(t) /\ rest' = rest /\ names' = names
    BY <1>0, <1>12, PlainLoop, DropsIs DEF DynamoDestroy, At, Quiet, Ended, clientVars
  <2>. QED  BY <1>12, <2>1, ReturnLegal DEF DynamoDestroy
<1>. QED  BY <1>1, <1>2, <1>3, <1>4, <1>5, <1>6, <1>7, <1>8, <1>9, <1>10, <1>11, <1>12 DEF DynamoNext

LEMMA OsLegal ==
    ASSUME Core, NEW t \in Tasks, backend = "opensearch", OsNext(t), UNCHANGED <<backend, call>>
    PROVE  Legal(t)
<1>0. ~OnS3 /\ TypeOK
  BY DEF OnS3, Core
<1>1. CASE OsRefuse(t)
  <2>1. Quiet(t) /\ rest' = rest /\ names' = names /\ db' = db /\ pc[t] = "begin"
    BY <1>0, <1>1, PlainQuiet, DropsIs DEF OsRefuse, At, Ended, Plain
  <2>. QED  BY <1>1, <2>1, ReturnLegal DEF OsRefuse
<1>2. CASE OsGet(t) \/ OsGetMany(t)
  <2>1. ~Doing(t, Writes) /\ pc[t] \notin Ended /\ Drops /\ Plain /\ Doing(t, Reads)
    BY <1>0, <1>2, DropsIs DEF OsGet, OsGetMany, OsOpen, At, Doing, Writes, Reads, Ended
  <2>2. Going(t, {"ok", "expiring", "error"})
    BY <1>0, <1>2, FetchGoing DEF OsGet, OsGetMany, OsReadEntry, OsReadEntries
  <2>. QED  BY <1>0, <2>1, <2>2, PlainLegal DEF Onward, Stages, Ended, Unsent, Allowed, Doing
<1>3. CASE OsPut(t) \/ OsPutMany(t)
  BY <1>0, <1>3, BatchSent DEF OsPut, OsPutMany, OsOpen, OsBulk, At, Doing, Writes
<1>4. CASE OsDelete(t) \/ OsDeleteMany(t)
  <2>1. ~Doing(t, Writes) /\ pc[t] \notin Ended /\ Drops /\ Plain /\ Doing(t, Deletes)
    BY <1>0, <1>4, DropsIs DEF OsDelete, OsDeleteMany, OsOpen, OsBulk, At, Doing, Writes, Deletes, Ended
  <2>2. Going(t, {"ok", "deleting"})
    BY <1>0, <1>4, GoingTo, DbIs DEF OsDelete, OsDeleteMany, OsBulk
  <2>. QED  BY <1>0, <2>1, <2>2, PlainLegal DEF Onward, Stages, Ended, Unsent, Allowed, Doing
<1>5. CASE OsBulkIndex(t)
  <2>1. Doing(t, Writes) /\ pc[t] = "writing"
    BY <1>5 DEF OsBulkIndex, OsWrites, At, Doing, Writes
  <2>. QED  BY <1>0, <1>5, <2>1, BatchStored DEF OsBulkIndex, clientVars
<1>6. CASE OsBulkDelete(t)
  <2>1. pc[t] \in {"expiring", "deleting"} /\ (pc[t] = "expiring" => Doing(t, Reads)) /\ (pc[t] = "deleting" => Doing(t, Deletes))
    BY <1>0, <1>6 DEF OsBulkDelete, Core, Shape, Staged, Allowed, Doing
  <2>2. ~Doing(t, Writes) /\ pc[t] \notin Ended /\ Drops /\ Plain
    BY <1>0, <1>6, <2>1, DropsIs DEF OsBulkDelete, Doing, Writes, Reads, Deletes, Ended
  <2>3. Going(t, {"ok", pc[t]})
    <3>1. PICK s \in todo[t] : \E f \in {found[t], [found[t] EXCEPT ![s] = db[s]]} :
            Answer(t, f) \/ Goto(t, pc[t], seen[t], todo[t] \ {s}, f)
      BY <1>6 DEF OsBulkDelete
    <3>. PICK f \in {found[t], [found[t] EXCEPT ![s] = db[s]]} :
            Answer(t, f) \/ Goto(t, pc[t], seen[t], todo[t] \ {s}, f)
      BY <3>1
    <3>2. f \in [Slots -> Doc]
      BY <1>0, DbIs
    <3>. QED  BY <1>0, <3>1, <3>2, GoingTo, DbIs
  <2>4. {"ok", pc[t]} \in SUBSET (Onward \ Unsent) /\ \A stage \in {"ok", pc[t]} : Allowed(t, stage)
    BY <1>0, <2>1 DEF Onward, Stages, Ended, Unsent, Allowed, Doing
  <2>. QED  BY <1>0, <2>2, <2>3, <2>4, PlainLegal
<1>7. CASE OsCull(t)
  <2>1. ~Doing(t, Writes) /\ pc[t] \notin Ended /\ Drops
    BY <1>0, <1>7, DropsIs DEF OsCull, At, Doing, Writes, Ended, serverVars
  <2>2. Going(t, {"ok", "error", "validating", "query", "culling"})
    <3>1. \A S : ExpiredOf({s \in Slots : s[1] \in S}) \in SUBSET Slots
      BY <1>0, DbIs
    <3>. QED  BY <1>0, <1>7, <3>1, GoingTo, DbIs DEF OsCull
  <2>3. Quiet(t) /\ rest'[t] \subseteq Collections
    <3>1. Looping(t) /\ rest'[t] \subseteq Collections /\ now' = now /\ alien' = alien /\ lock' = lock
      BY <1>0, <1>7, PlainLoop DEF OsCull, OsOwned, Looping, serverVars, clientVars, Plain, TypeOK
    <3>. QED  BY <2>1, <3>1, PlainLoop DEF Quiet
  <2>. QED  BY <1>0, <2>1, <2>2, <2>3, OnwardLegal DEF Onward, Stages, Ended, Unsent, Allowed, Doing
<1>8. CASE OsKeys(t)
  <2>1. ~Doing(t, Writes) /\ pc[t] \notin Ended /\ Drops /\ Plain
    BY <1>0, <1>8, DropsIs DEF OsKeys, At, Doing, Writes, Ended
  <2>2. Going(t, {"ok", "error", "search"})
    BY <1>0, <1>8, GoingTo, DbIs DEF OsKeys
  <2>. QED  BY <1>0, <2>1, <2>2, PlainLegal DEF Onward, Stages, Ended, Unsent, Allowed, Doing
<1>9. CASE OsCollections(t)
  <2>1. ~Doing(t, Writes) /\ pc[t] \notin Ended /\ Drops /\ Going(t, {"ok"})
    BY <1>0, <1>9, DropsIs, GoingTo DEF OsCollections, At, Doing, Writes, Ended, serverVars
  <2>2. Quiet(t) /\ rest'[t] \subseteq Collections
    BY <1>0, <1>9, <2>1, PlainLoop DEF OsCollections, OsOwned, Limited, Quiet, Looping, serverVars, clientVars, TypeOK
  <2>. QED  BY <1>0, <2>1, <2>2, OnwardLegal DEF Onward, Stages, Ended, Unsent, Allowed
<1>10. CASE OsDestroyCollection(t) \/ OsDestroy(t)
  <2>1. ~Doing(t, Writes) /\ pc[t] \notin Ended /\ Drops
    BY <1>0, <1>10, DropsIs DEF OsDestroyCollection, OsDestroy, OsDrop, At, Doing, Writes, Ended, serverVars
  <2>2. Going(t, {"ok", "error", "validating", "dropping"})
    BY <1>0, <1>10, GoingTo DEF OsDestroyCollection, OsDestroy
  <2>3. Quiet(t) /\ rest'[t] \subseteq Collections
    <3>1. Looping(t) /\ rest'[t] \subseteq Collections
      BY <1>0, <1>10, PlainLoop DEF OsDestroyCollection, OsDestroy, OsOwned, Looping, Plain, TypeOK
    <3>2. now' = now /\ alien' \subseteq Collections /\ lock' = lock
      BY <1>0, <1>10, PlainLoop DEF OsDestroyCollection, OsDestroy, OsDrop, serverVars, clientVars, Plain
    <3>. QED  BY <2>1, <3>1, <3>2, PlainLoop DEF Quiet
  <2>. QED  BY <1>0, <2>1, <2>2, <2>3, OnwardLegal DEF Onward, Stages, Ended, Unsent, Allowed, Doing
<1>. QED  BY <1>1, <1>2, <1>3, <1>4, <1>5, <1>6, <1>7, <1>8, <1>9, <1>10 DEF OsNext

LEMMA FsLegal ==
    ASSUME Core, NEW t \in Tasks, backend = "firestore", FsNext(t), UNCHANGED <<backend, call>>
    PROVE  Legal(t)
<1>0. ~OnS3 /\ TypeOK
  BY DEF OnS3, Core
<1>1. CASE FsRefuse(t)
  <2>1. Quiet(t) /\ rest' = rest /\ names' = names /\ db' = db /\ pc[t] = "begin"
    BY <1>0, <1>1, PlainQuiet, DropsIs DEF FsRefuse, At, Ended, Plain
  <2>. QED  BY <1>1, <2>1, ReturnLegal DEF FsRefuse
<1>2. CASE FsGet(t) \/ FsGetMany(t) \/ FsTtlMany(t)
  <2>1. ~Doing(t, Writes) /\ pc[t] \notin Ended /\ Drops /\ Plain /\ Doing(t, Reads)
    BY <1>0, <1>2, DropsIs DEF FsGet, FsGetMany, FsTtlMany, FsRead, At, Doing, Writes, Reads, Ended
  <2>2. Going(t, {"ok", "expiring", "error"})
    BY <1>0, <1>2, FetchGoing DEF FsGet, FsGetMany, FsTtlMany, FsRead
  <2>. QED  BY <1>0, <2>1, <2>2, PlainLegal DEF Onward, Stages, Ended, Unsent, Allowed, Doing
<1>3. CASE FsDeleteExpired(t)
  <2>1. ~Doing(t, Writes) /\ pc[t] \notin Ended /\ Drops /\ Plain /\ Doing(t, Reads)
    BY <1>0, <1>3, DropsIs DEF FsDeleteExpired, FsReads, At, Doing, Writes, Reads, Ended
  <2>2. Going(t, {"ok", "expiring"})
    BY <1>0, <1>3, GoingTo, DbIs DEF FsDeleteExpired
  <2>. QED  BY <1>0, <2>1, <2>2, PlainLegal DEF Onward, Stages, Ended, Unsent, Allowed, Doing
<1>4. CASE FsPut(t)
  BY <1>0, <1>4, PutLegal DEF FsPut, At, Doing, Writes
<1>5. CASE FsPutMany(t)
  <2>1. Doing(t, Writes)
    BY <1>5 DEF FsPutMany, At, Doing, Writes
  <2>2. CASE pc[t] = "begin"
    BY <1>0, <1>5, <2>1, <2>2, BatchSent DEF FsPutMany, At
  <2>3. CASE pc[t] = "writing"
    BY <1>0, <1>5, <2>1, <2>3, BatchStored DEF FsPutMany, At, Plain
  <2>. QED  BY <1>5, <2>2, <2>3 DEF FsPutMany, At
<1>6. CASE FsDelete(t) \/ FsDeleteMany(t)
  <2>0. PICK op \in {"delete", "delete_many"} : FsDeletes(t, op)
    BY <1>6 DEF FsDelete, FsDeleteMany
  <2>1. ~Doing(t, Writes) /\ pc[t] \notin Ended /\ Drops /\ Plain
    BY <1>0, <2>0, DropsIs DEF FsDeletes, At, Doing, Writes, Ended
  <2>2. Going(t, {"ok", "deleting"})
    BY <1>0, <2>0, GoingTo, DbIs DEF FsDeletes
  <2>. QED  BY <1>0, <2>1, <2>2, PlainLegal DEF Onward, Stages, Ended, Unsent, Allowed, Doing
<1>. QED  BY <1>1, <1>2, <1>3, <1>4, <1>5, <1>6 DEF FsNext

LEMMA VaultLegal ==
    ASSUME Core, NEW t \in Tasks, backend = "vault", VaultNext(t), UNCHANGED <<backend, call>>
    PROVE  Legal(t)
<1>0. ~OnS3 /\ TypeOK
  BY DEF OnS3, Core
<1>1. \A o \in [Slots -> Doc], d \in SUBSET Slots, f \in [Slots -> Doc] :
         VaultDone(t, o, d, f) => Going(t, {"ok", "batch"})
  BY <1>0, GoingTo DEF VaultDone
<1>2. ASSUME NEW op \in KeyValue, VaultOpen(t, op)
      PROVE  Legal(t)
  <2>1. Plain /\ Drops /\ db' = db /\ pc[t] = "begin" /\ call[t].op = op
    BY <1>0, <1>2, DropsIs DEF VaultOpen, At, Doing
  <2>2. CASE Return(t, "invalid")
    BY <1>0, <2>1, <2>2, PlainQuiet, ReturnLegal DEF Ended, Plain
  <2>3. CASE Doing(t, Writes) /\ ~Return(t, "invalid")
    <3>1. VaultDone(t, Prepared(t), Target(t), Nothing)
      BY <1>2, <2>1, <2>3 DEF VaultOpen, VaultWrites, Doing, Writes
    <3>2. CASE Target(t) = {} /\ Prepared(t) = Nothing
      BY <1>0, <2>1, <2>3, <3>1, <3>2, BatchSent DEF VaultDone, Answer
    <3>3. CASE ~(Target(t) = {} /\ Prepared(t) = Nothing)
      BY <1>0, <2>1, <2>3, <3>1, <3>3, BatchSent DEF VaultDone
    <3>. QED  BY <3>2, <3>3
  <2>4. CASE ~Doing(t, Writes) /\ ~Return(t, "invalid")
    <3>1. VaultDone(t, Nothing, Target(t), Nothing)
      BY <1>2, <2>1, <2>4 DEF VaultOpen, VaultWrites, Doing, Writes
    <3>2. Going(t, {"ok", "batch"})
      BY <1>0, <1>1, <3>1, DbIs
    <3>. QED  BY <1>0, <2>1, <2>4, <3>2, PlainLegal DEF Onward, Stages, Ended, Unsent, Allowed, Doing
  <2>. QED  BY <2>2, <2>3, <2>4
<1>3. CASE VaultReadEntry(t) \/ VaultDeleteEntry(t)
  <2>1. ~Doing(t, Writes) /\ pc[t] \notin Ended /\ Drops /\ Plain
    BY <1>0, <1>3, DropsIs DEF VaultReadEntry, VaultDeleteEntry, VaultReads, VaultDeletes, At, Doing, Writes, Ended
  <2>2. PICK s \in Slots : \E o \in {seen[t], [seen[t] EXCEPT ![s] = db[s]], [seen[t] EXCEPT ![s] = Empty]},
             d \in {todo[t], todo[t] \ {s}},
             f \in {found[t], [found[t] EXCEPT ![s] = db[s]], [found[t] EXCEPT ![s] = seen[t][s]]} :
           Return(t, "error") \/ Goto(t, "batch", o, d, f) \/ VaultDone(t, o, d, f)
    <3>1. CASE \E s \in todo[t] :
                  \/ Return(t, "error")
                  \/ Goto(t, "batch", [seen[t] EXCEPT ![s] = db[s]], todo[t] \ {s}, found[t])
                  \/ VaultDone(t, seen[t], todo[t] \ {s}, [found[t] EXCEPT ![s] = db[s]])
                  \/ VaultDone(t, seen[t], todo[t] \ {s}, found[t])
      <4>1. todo[t] \subseteq Slots
        BY <1>0, DbIs
      <4>. QED  BY <3>1, <4>1
    <3>2. CASE \E s \in VaultPending(t) :
                  \/ VaultDone(t, [seen[t] EXCEPT ![s] = Empty], todo[t], found[t])
                  \/ VaultDone(t, [seen[t] EXCEPT ![s] = Empty], todo[t], [found[t] EXCEPT ![s] = seen[t][s]])
      <4>1. VaultPending(t) \subseteq Slots
        BY DEF VaultPending
      <4>. QED  BY <3>2, <4>1
    <3>. QED  BY <1>3, <3>1, <3>2 DEF VaultReadEntry, VaultDeleteEntry
  <2>. PICK o \in {seen[t], [seen[t] EXCEPT ![s] = db[s]], [seen[t] EXCEPT ![s] = Empty]},
            d \in {todo[t], todo[t] \ {s}},
            f \in {found[t], [found[t] EXCEPT ![s] = db[s]], [found[t] EXCEPT ![s] = seen[t][s]]} :
           Return(t, "error") \/ Goto(t, "batch", o, d, f) \/ VaultDone(t, o, d, f)
    BY <2>2
  <2>3. o \in [Slots -> Doc] /\ d \in SUBSET Slots /\ f \in [Slots -> Doc]
    BY <1>0, DbIs
  <2>4. Going(t, {"ok", "batch", "error"})
    <3>1. CASE Return(t, "error") \/ Goto(t, "batch", o, d, f)
      BY <1>0, <2>3, <3>1, GoingTo
    <3>2. CASE VaultDone(t, o, d, f)
      BY <1>0, <2>3, <3>2, GoingTo DEF VaultDone
    <3>. QED  BY <3>1, <3>2
  <2>. QED  BY <1>0, <2>1, <2>4, PlainLegal DEF Onward, Stages, Ended, Unsent, Allowed, Doing
<1>4. CASE VaultWriteEntry(t)
  <2>1. PICK s \in todo[t] :
           db' = Stored({s}, seen[t]) /\ VaultDone(t, [seen[t] EXCEPT ![s] = Empty], todo[t] \ {s}, found[t])
    BY <1>4 DEF VaultWriteEntry
  <2>2. Doing(t, Writes) /\ pc[t] = "batch" /\ Plain
    BY <1>4 DEF VaultWriteEntry, VaultWrites, At, Doing, Writes
  <2>3. s \in Slots /\ [seen[t] EXCEPT ![s] = Empty] \in [Slots -> Doc] /\ todo[t] \ {s} \in SUBSET Slots
    BY <1>0, DbIs
  <2>4. Going(t, {"ok", "writing", "batch"})
    BY <1>0, <2>1, <2>3, GoingTo, DbIs DEF VaultDone
  <2>5. pc'[t] \in {"writing", "batch"} => todo'[t] = todo[t] \ {s} /\ \A r \in todo'[t] : seen'[t][r] = seen[t][r]
    <3>1. CASE Answer(t, found[t])
      BY <1>0, <3>1, GoingIs
    <3>2. CASE Goto(t, "batch", [seen[t] EXCEPT ![s] = Empty], todo[t] \ {s}, found[t])
      <4>1. seen'[t] = [seen[t] EXCEPT ![s] = Empty] /\ todo'[t] = todo[t] \ {s}
        BY <1>0, <3>2, GotoIs
      <4>. QED  BY <1>0, <4>1, DbIs
    <3>. QED  BY <2>1, <3>1, <3>2 DEF VaultDone
  <2>. QED  BY <1>0, <2>1, <2>2, <2>4, <2>5, StoringOneLegal, PlainLoop DEF Plain
<1>. QED  BY <1>2, <1>3, <1>4 DEF VaultNext, VaultGet, VaultPut, VaultDelete, VaultGetMany, VaultPutMany, VaultDeleteMany,
          KeyValue, Reads, Writes, Deletes

\* S3: a step of a call that stores nothing.
LEMMA S3GoingLegal ==
    ASSUME Core, NEW t \in Tasks, OnS3, Quiet(t), db' = db \/ ~Doing(t, Writes),
           Doing(t, Writes) => pc[t] = "begin",
           NEW stages \in SUBSET (Onward \ Unsent), Going(t, stages),
           Allowed(t, pc'[t]), LoopOk(t, pc'[t], rest'[t])
    PROVE  Legal(t)
<1>. PICK stage \in stages, o \in [Slots -> Doc], d \in SUBSET Slots, f \in [Slots -> Doc] :
        Goto(t, stage, o, d, f)
  BY DEF Going
<1>1. pc'[t] = stage /\ seen'[t] = o /\ todo'[t] = d /\ found'[t] = f /\ stage \in Onward /\ stage \notin Unsent
  BY GotoIs DEF Core
<1>2. Moves(t)
  BY GotoIs DEF Moves, Quiet, Looping, Core
<1>3. \A i : Writable(t, i)' => Writable(t, i)
  BY <1>1 DEF Writable, Quiet, Doing, Unsent
<1>4. Ordered(t)
  BY <1>1, <1>3 DEF Ordered, Quiet, Onward
<1>5. Effect(t)
  BY DEF Effect, Quiet, Drops
<1>6. Typed(t)
  BY <1>1 DEF Typed, Quiet, Looping, Onward
<1>7. Shape(t)'
  <2>1. Staged(t)' /\ LoopsTyped(t)'
    BY CarriedOver DEF Quiet
  <2>. QED  BY <1>1, <2>1 DEF Shape, Prepped, Begun, OnS3, Quiet, Unsent
<1>. QED  BY <1>2, <1>4, <1>5, <1>6, <1>7 DEF Legal

\* The next key of a batch.
LEMMA NextIs ==
    ASSUME Core, NEW t \in Tasks, OnS3, Doing(t, KeyValue), pc[t] \in {"batch", "expiring", "deleting"}
    PROVE  /\ rest[t] \subseteq DOMAIN call[t].keys /\ NextPosition(t) \in rest[t]
           /\ \A j \in rest[t] : NextPosition(t) <= j
           /\ NextSlot(t) \in Target(t) /\ NextSlot(t) \in Slots
           /\ NextPosition(t) \in Positions(t, NextSlot(t)) /\ NextPosition(t) \in DOMAIN call[t].keys
<1>0. TypeOK
  BY DEF Core
<1>1. rest[t] # {} /\ rest[t] \subseteq DOMAIN call[t].keys /\ ~TooLong(t)
  BY DEF Core, Shape, LoopsTyped, LoopOk
<1>2. NextPosition(t) \in rest[t] /\ \A j \in rest[t] : NextPosition(t) <= j
  BY <1>0, <1>1, PositionFacts
<1>3. NextPosition(t) \in DOMAIN call[t].keys
  BY <1>1, <1>2
<1>4. NextSlot(t) \in Slots
  BY <1>0, <1>1, <1>3, CallFacts DEF TooLong, NextSlot
<1>. HIDE DEF NextPosition
<1>. QED  BY <1>1, <1>2, <1>3, <1>4 DEF NextSlot, Target, Positions

\* The batch is a key shorter.
LEMMA AdvanceIs ==
    ASSUME Core, NEW t \in Tasks, OnS3, Doing(t, KeyValue), pc[t] \in {"batch", "expiring", "deleting"},
           NEW f, S3Advance(t, f)
    PROVE  /\ pc'[t] = (IF rest[t] = {NextPosition(t)} THEN "ok" ELSE "batch")
           /\ seen'[t] = Nothing /\ todo'[t] = {} /\ found'[t] = f
           /\ rest'[t] = rest[t] \ {NextPosition(t)} /\ rest' = [rest EXCEPT ![t] = rest'[t]]
           /\ UNCHANGED <<made, alien, clientVars, now, names>>
           /\ LoopOk(t, pc'[t], rest'[t])
           /\ f \in [Slots -> Doc] => Going(t, {"ok", "batch"})
<1>0. TypeOK
  BY DEF Core
<1>. DEFINE stage == IF rest[t] = {NextPosition(t)} THEN "ok" ELSE "batch"
            i == NextPosition(t)
<1>1. Goto(t, stage, Nothing, {}, f) /\ rest' = [rest EXCEPT ![t] = @ \ {i}]
      /\ UNCHANGED <<made, alien, clientVars, now, names>> /\ stage \in {"ok", "batch"}
  BY DEF S3Advance
<1>2. rest[t] \subseteq DOMAIN call[t].keys /\ i \in rest[t]
  BY NextIs
<1>3. ~TooLong(t)
  BY DEF Core, Shape, LoopsTyped, LoopOk
<1>4. stage = "batch" => rest[t] \ {i} # {}
  BY <1>2
<1>. HIDE DEF stage, i
<1>5. pc'[t] = stage /\ seen'[t] = Nothing /\ todo'[t] = {} /\ found'[t] = f
  BY <1>0, <1>1, GotoIs
<1>6. rest'[t] = rest[t] \ {i} /\ rest' = [rest EXCEPT ![t] = rest'[t]]
  BY <1>0, <1>1 DEF TypeOK
<1>7. LoopOk(t, stage, rest[t] \ {i})
  BY <1>1, <1>2, <1>3, <1>4 DEF LoopOk
<1>8. f \in [Slots -> Doc] => Going(t, {"ok", "batch"})
  BY <1>0, <1>1, GoingTo, DbIs
<1>. QED  BY <1>1, <1>5, <1>6, <1>7, <1>8 DEF stage, i

\* S3: the next item is stored.
LEMMA S3PutLegal ==
    ASSUME Core, NEW t \in Tasks, OnS3, S3Put(t), UNCHANGED <<backend, call>>
    PROVE  Legal(t)
<1>0. TypeOK /\ Doing(t, KeyValue) /\ Doing(t, Writes) /\ pc[t] = "batch" /\ since[t] \in Nat
  <2>1. Doing(t, KeyValue) /\ Doing(t, Writes) /\ pc[t] = "batch"
    BY DEF S3Put, At, S3Writes, KeyValue, Doing, Writes
  <2>2. since[t] \in Nat
    BY BoundsAssumption DEF Core, TypeOK
  <2>. QED  BY <2>1, <2>2 DEF Core
<1>1. /\ db' = [db EXCEPT ![NextSlot(t)] = NewDoc(t, NextPosition(t), since[t])]
      /\ S3Advance(t, found[t])
  BY DEF S3Put
<1>2. /\ pc'[t] \in {"ok", "batch"} /\ seen'[t] = Nothing /\ todo'[t] = {} /\ found'[t] = found[t]
      /\ rest'[t] = rest[t] \ {NextPosition(t)} /\ rest' = [rest EXCEPT ![t] = rest'[t]]
      /\ UNCHANGED <<made, alien, clientVars, now, names>> /\ LoopOk(t, pc'[t], rest'[t])
      /\ (pc'[t] = "ok" => rest[t] = {NextPosition(t)})
  BY <1>0, <1>1, AdvanceIs
<1>3. /\ NextPosition(t) \in rest[t] /\ NextSlot(t) \in Target(t) /\ NextSlot(t) \in Slots
      /\ NextPosition(t) \in Positions(t, NextSlot(t)) /\ NextPosition(t) \in DOMAIN call[t].keys
  BY <1>0, NextIs
<1>4. /\ NewDoc(t, NextPosition(t), since[t]) \in Doc
      /\ NewDoc(t, NextPosition(t), since[t]).writer = <<t, NextPosition(t)>>
  BY <1>0, <1>3, NewDocIs
<1>5. Moves(t)
  <2>1. Goto(t, IF rest[t] = {NextPosition(t)} THEN "ok" ELSE "batch", Nothing, {}, found[t])
    BY <1>1 DEF S3Advance
  <2>. QED  BY <1>0, <1>2, <2>1, GotoIs DEF Moves, TypeOK
<1>6. PICK i, s, e :
         /\ db' = [db EXCEPT ![s] = e] /\ e \in Doc /\ e.writer = <<t, i>> /\ s \in Target(t) /\ s \in Slots
         /\ i \in Positions(t, s) /\ i \in rest[t] /\ rest'[t] = rest[t] \ {i} /\ (pc'[t] = "ok" => rest[t] = {i})
  BY <1>1, <1>2, <1>3, <1>4
<1>7. \A j : Writable(t, j)' => Writable(t, j) /\ j # i
  BY <1>0, <1>2, <1>6 DEF Writable, Unsent, OnS3, Doing
<1>8. Ordered(t)
  BY <1>0, <1>2, <1>7 DEF Ordered, Ended
<1>9. Effect(t)
  <2>1. Writable(t, i) /\ ~Writable(t, i)'
    BY <1>0, <1>6, <1>7 DEF Writable
  <2>2. db' \in [Slots -> Doc] /\ \A r \in Slots : db'[r] = IF r = s THEN e ELSE db[r]
    BY <1>0, <1>6, DbIs
  <2>. HIDE DEF Writable
  <2>. QED  BY <1>0, <1>2, <1>6, <2>1, <2>2 DEF Effect
<1>10. Typed(t)
  BY <1>0, <1>2, DbIs DEF Typed, Stages, Ended, TypeOK, clientVars
<1>11. Shape(t)'
  <2>1. Staged(t)' /\ LoopsTyped(t)'
    <3>1. Allowed(t, pc'[t])
      BY <1>2 DEF Allowed, OnS3
    <3>. QED  BY <1>2, <3>1, CarriedOver
  <2>. QED  BY <1>2, <2>1 DEF Shape, Prepped, Begun, Unsent, OnS3
<1>. QED  BY <1>5, <1>8, <1>9, <1>10, <1>11 DEF Legal

LEMMA S3Legal ==
    ASSUME Core, NEW t \in Tasks, OnS3, S3Next(t), UNCHANGED <<backend, call>>
    PROVE  Legal(t)
<1>0. TypeOK /\ alien \subseteq Collections /\ lock \in Tasks \cup {NoTask} /\ rest[t] \subseteq DOMAIN call[t].keys
  BY PlainLoop DEF Core, Shape, LoopsTyped, LoopOk
<1>1. ASSUME NEW stages \in SUBSET (Onward \ Unsent), \A stage \in stages : Allowed(t, stage),
             Going(t, stages), Quiet(t), rest' = rest, ~Doing(t, Writes),
             pc'[t] \in {"batch", "expiring", "deleting"} => ~Doing(t, KeyValue) \/ (pc[t] = "batch" /\ Doing(t, KeyValue))
      PROVE  Legal(t)
  <2>1. pc'[t] \in stages
    BY <1>0, <1>1, GotoIs DEF Going
  <2>2. LoopOk(t, pc'[t], rest'[t])
    <3>1. Doing(t, KeyValue) /\ pc[t] = "batch" => rest[t] # {} /\ ~TooLong(t)
      BY DEF Core, Shape, LoopsTyped, LoopOk
    <3>. QED  BY <1>0, <1>1, <3>1 DEF LoopOk
  <2>. QED  BY <1>1, <2>1, <2>2, S3GoingLegal
<1>2. ASSUME Doing(t, KeyValue), ~Doing(t, Writes), pc[t] \in {"batch", "expiring", "deleting"}, Drops,
             NEW f \in [Slots -> Doc], S3Advance(t, f)
      PROVE  Legal(t)
  <2>1. /\ Going(t, {"ok", "batch"}) /\ LoopOk(t, pc'[t], rest'[t]) /\ pc'[t] \in {"ok", "batch"}
        /\ rest' = [rest EXCEPT ![t] = rest'[t]] /\ UNCHANGED <<made, alien, clientVars, now, names>>
    BY <1>2, AdvanceIs
  <2>2. Quiet(t)
    BY <1>0, <1>2, <2>1 DEF Quiet, Looping, Ended, clientVars, TypeOK
  <2>. QED  BY <1>2, <2>1, <2>2, S3GoingLegal DEF Onward, Stages, Ended, Unsent, Allowed
<1>3. CASE S3EnsureBucket(t)
  <2>1. Quiet(t) /\ rest' = rest /\ ~Doing(t, Writes)
    BY <1>0, <1>3, PlainLoop, DropsIs DEF S3EnsureBucket, At, Doing, Writes, Quiet, Ended, clientVars, Plain
  <2>2. Going(t, {"ok", "error", "creating"})
    BY <1>0, <1>3, GoingTo DEF S3EnsureBucket
  <2>3. pc'[t] \in {"ok", "error", "creating"}
    BY <1>0, <2>2, GotoIs DEF Going
  <2>. QED  BY <1>1, <2>1, <2>2, <2>3 DEF Onward, Stages, Ended, Unsent, Allowed
<1>4. CASE S3OpenOne(t) \/ S3GetMany(t) \/ S3PutMany(t) \/ S3DeleteMany(t)
  <2>0. PICK ops \in SUBSET KeyValue : S3Open(t, ops)
    BY <1>4 DEF S3OpenOne, S3GetMany, S3PutMany, S3DeleteMany, KeyValue, Reads, Writes, Deletes
  <2>1. pc[t] = "begin" /\ Drops /\ db' = db /\ UNCHANGED <<alien, lock, now, names>>
    BY <1>0, <2>0, DropsIs DEF S3Open, At, serverVars, clientVars
  <2>2. CASE S3Rejects(t)
    BY <1>0, <2>0, <2>1, <2>2, PlainLoop, ReturnLegal DEF S3Open, Quiet, Ended
  <2>3. CASE ~S3Rejects(t)
    <3>1. Goto(t, IF call[t].keys = <<>> THEN "ok" ELSE "batch", Nothing, {}, Nothing)
          /\ rest' = [rest EXCEPT ![t] = DOMAIN call[t].keys]
      BY <2>0, <2>3 DEF S3Open
    <3>2. rest'[t] = DOMAIN call[t].keys /\ rest' = [rest EXCEPT ![t] = rest'[t]]
      BY <1>0, <3>1 DEF TypeOK
    <3>3. Quiet(t)
      BY <1>0, <2>1, <3>2 DEF Quiet, Ended, Looping, TypeOK
    <3>4. Going(t, {"ok", "batch"})
      BY <1>0, <3>1, GoingTo, DbIs
    <3>5. pc'[t] = IF call[t].keys = <<>> THEN "ok" ELSE "batch"
      BY <1>0, <3>1, GotoIs
    <3>6. call[t].keys # <<>> => DOMAIN call[t].keys # {}
      <4>1. ASSUME NEW X, NEW q \in Seq(X), q # <<>> PROVE Len(q) # 0
        BY <4>1
      <4>2. \A n \in Nat : n # 0 => 1 .. n # {}
        OBVIOUS
      <4>. QED  BY <1>0, <4>1, <4>2, CallFacts
    <3>7. LoopOk(t, pc'[t], rest'[t])
      BY <2>3, <3>2, <3>5, <3>6 DEF LoopOk, S3Rejects, S3Fits
    <3>. QED  BY <2>1, <3>3, <3>4, <3>5, <3>7, S3GoingLegal DEF Onward, Stages, Ended, Unsent, Allowed
  <2>. QED  BY <2>2, <2>3
<1>5. CASE S3Get(t)
  <2>1. Doing(t, KeyValue) /\ Doing(t, Reads) /\ ~Doing(t, Writes) /\ pc[t] \in {"batch", "expiring"} /\ Drops
    BY <1>0, <1>5, DropsIs DEF S3Get, At, S3Reads, KeyValue, Reads, Writes, Doing
  <2>2. NextSlot(t) \in Slots
    BY <2>1, NextIs
  <2>3. CASE \E e \in {db[NextSlot(t)], Empty} : S3Advance(t, [found[t] EXCEPT ![NextSlot(t)] = e])
    <3>1. PICK e \in {db[NextSlot(t)], Empty} : S3Advance(t, [found[t] EXCEPT ![NextSlot(t)] = e])
      BY <2>3
    <3>2. [found[t] EXCEPT ![NextSlot(t)] = e] \in [Slots -> Doc]
      BY <1>0, <2>2, DbIs
    <3>. QED  BY <1>2, <2>1, <3>1, <3>2
  <2>4. CASE (Return(t, "error") \/ Goto(t, "expiring", Nothing, {NextSlot(t)}, found[t])) /\ Plain /\ pc[t] = "batch"
    <3>1. Quiet(t) /\ rest' = rest
      BY <2>1, <2>4, PlainQuiet DEF Ended
    <3>2. Going(t, {"error", "expiring"})
      BY <1>0, <2>2, <2>4, GoingTo, DbIs
    <3>. QED  BY <1>1, <2>1, <2>4, <3>1, <3>2 DEF Onward, Stages, Ended, Unsent, Allowed, Doing
  <2>. QED  BY <1>5, <2>3, <2>4 DEF S3Get, At
<1>6. CASE S3Delete(t)
  <2>1. Doing(t, KeyValue) /\ ~Doing(t, Writes) /\ pc[t] \in {"batch", "deleting"} /\ Drops
    BY <1>0, <1>6, DropsIs DEF S3Delete, At, S3Deletes, KeyValue, Reads, Writes, Deletes, Doing
  <2>2. NextSlot(t) \in Slots
    BY <2>1, NextIs
  <2>3. CASE S3Advance(t, found[t]) \/ S3Advance(t, [found[t] EXCEPT ![NextSlot(t)] = seen[t][NextSlot(t)]])
    <3>1. [found[t] EXCEPT ![NextSlot(t)] = seen[t][NextSlot(t)]] \in [Slots -> Doc] /\ found[t] \in [Slots -> Doc]
      BY <1>0, <2>2, DbIs
    <3>. QED  BY <1>2, <2>1, <2>3, <3>1
  <2>4. CASE Goto(t, "deleting", Of({NextSlot(t)}), {NextSlot(t)}, found[t]) /\ Plain /\ pc[t] = "batch"
    <3>1. Quiet(t) /\ rest' = rest
      BY <2>1, <2>4, PlainQuiet DEF Ended
    <3>2. Going(t, {"deleting"})
      <4>1. {NextSlot(t)} \in SUBSET Slots /\ Of({NextSlot(t)}) \in [Slots -> Doc]
        BY <1>0, <2>2, DbIs
      <4>. QED  BY <1>0, <2>4, <4>1, GoingTo, DbIs
    <3>3. Allowed(t, "deleting")
      BY DEF Allowed, OnS3
    <3>. QED  BY <1>1, <2>1, <2>4, <3>1, <3>2, <3>3 DEF Onward, Stages, Ended, Unsent
  <2>. QED  BY <1>6, <2>3, <2>4 DEF S3Delete, At
<1>7. CASE S3Cull(t)
  <2>1. ~Doing(t, Writes) /\ ~Doing(t, KeyValue) /\ Doing(t, {"cull"}) /\ pc[t] \notin Ended /\ Drops /\ Plain
    BY <1>0, <1>7, DropsIs DEF S3Cull, At, Doing, KeyValue, Reads, Writes, Deletes, Ended
  <2>2. Going(t, {"ok", "error", "scanning", "expiring"})
    BY <1>0, <1>7, GoingTo, DbIs DEF S3Cull
  <2>3. \A stage \in {"ok", "error", "scanning", "expiring"} : Allowed(t, stage)
    BY <2>1 DEF Allowed, OnS3, Doing
  <2>. QED  BY <1>1, <2>1, <2>2, <2>3, PlainQuiet DEF Onward, Stages, Ended, Unsent
<1>8. CASE S3Keys(t)
  <2>1. ~Doing(t, Writes) /\ ~Doing(t, KeyValue) /\ pc[t] \notin Ended /\ Drops /\ Plain
    BY <1>0, <1>8, DropsIs DEF S3Keys, At, Doing, KeyValue, Reads, Writes, Deletes, Ended
  <2>2. Going(t, {"ok", "error"})
    BY <1>0, <1>8, GoingTo, DbIs DEF S3Keys
  <2>. QED  BY <1>1, <2>1, <2>2, PlainQuiet DEF Onward, Stages, Ended, Unsent, Allowed
<1>9. CASE S3Collections(t)
  <2>1. ~Doing(t, Writes) /\ ~Doing(t, KeyValue) /\ pc[t] \notin Ended /\ Drops
    BY <1>0, <1>9, DropsIs DEF S3Collections, At, Doing, KeyValue, Reads, Writes, Deletes, Ended, serverVars
  <2>2. Going(t, {"ok", "error"})
    BY <1>0, <1>9, GoingTo DEF S3Collections
  <2>3. Quiet(t) /\ rest' = rest
    <3>1. {s[1] : s \in {s \in Slots : Present(db[s])}} \subseteq Collections
      BY SlotsAssumption
    <3>2. \A N \in Limited({s[1] : s \in {s \in Slots : Present(db[s])}}, call[t].limit) : N \subseteq Collections
      BY <3>1 DEF Limited
    <3>3. Looping(t)
      <4>1. rest' = rest /\ (names' = names \/ \E N \in SUBSET Collections : names' = [names EXCEPT ![t] = N])
        BY <1>9, <3>2 DEF S3Collections
      <4>. QED  BY <1>0, <4>1 DEF Looping, TypeOK
    <3>. QED  BY <1>0, <1>9, <2>1, <3>3 DEF S3Collections, Quiet, serverVars, clientVars
  <2>. QED  BY <1>1, <2>1, <2>2, <2>3 DEF Onward, Stages, Ended, Unsent, Allowed
<1>10. CASE S3DeleteObjects(t) \/ S3DestroyCollection(t) \/ S3Destroy(t)
  <2>1. ~Doing(t, Writes) /\ ~Doing(t, KeyValue) /\ pc[t] \notin Ended /\ Drops
    BY <1>0, <1>10, DropsIs DEF S3DeleteObjects, S3DestroyCollection, S3Destroy, At, Doing, KeyValue, Reads, Writes, Deletes, Ended
  <2>2. Going(t, {"ok", "error", "deleting", "again", "emptied"})
    <3>1. \A page \in Limited({s \in Slots : Present(db[s])}, PageSize) : page \in SUBSET Slots
      BY DEF Limited
    <3>2. CASE S3DeleteObjects(t)
      BY <1>0, <3>2, GoingTo, DbIs DEF S3DeleteObjects
    <3>3. CASE S3DestroyCollection(t)
      BY <1>0, <3>3, GoingTo, DbIs DEF S3DestroyCollection
    <3>4. CASE S3Destroy(t)
      <4>1. CASE \E page \in SUBSET Slots : Goto(t, IF page = {} THEN "emptied" ELSE "deleting", Nothing, page, Nothing)
        BY <1>0, <4>1, GoingTo, DbIs
      <4>2. CASE Return(t, "ok") \/ Return(t, "error")
        BY <1>0, <4>2, GoingTo
      <4>. QED  BY <3>1, <3>4, <4>1, <4>2 DEF S3Destroy
    <3>. QED  BY <1>10, <3>2, <3>3, <3>4
  <2>3. Quiet(t) /\ rest' = rest
    BY <1>0, <1>10, <2>1, PlainLoop DEF S3DeleteObjects, S3DestroyCollection, S3Destroy, Quiet, Plain, clientVars
  <2>4. \A stage \in {"ok", "error", "deleting", "again", "emptied"} : Allowed(t, stage)
    BY DEF Allowed, OnS3
  <2>. QED  BY <1>1, <2>1, <2>2, <2>3, <2>4 DEF Onward, Stages, Ended, Unsent
<1>. QED  BY <1>3, <1>4, <1>5, <1>6, <1>7, <1>8, <1>9, <1>10, S3PutLegal DEF S3Next

-----------------------------------------------------------------------------
(* The invariant holds *)

LEMMA StepLegal ==
    ASSUME Core, NEW t \in Tasks, OwnStep(t)
    PROVE  Legal(t)
<1>1. CASE Fail(t)
  BY <1>1, FailLegal DEF OwnStep
<1>2. CASE BackendStep(t)
  BY <1>2, MongoLegal, DynamoLegal, OsLegal, FsLegal, VaultLegal, S3Legal DEF OwnStep, BackendStep, OnS3
<1>. QED  BY <1>1, <1>2 DEF OwnStep

\* Time passes, or the server drops what has expired.
Idle ==
    /\ Drops /\ UNCHANGED <<backend, call, made, alien, known, lock>>
    /\ now' \in 0 .. MaxTime /\ now <= now'
    /\ UNCHANGED taskVars /\ \A u \in Tasks : Still(u)

\* A step is one call's, or none's.
Advance(t) == OwnStep(t) /\ Legal(t) /\ \A u \in Tasks \ {t} : Still(u)

LEMMA NextCases ==
    ASSUME Core, Next
    PROVE  Watch /\ (Idle \/ \E t \in Tasks : Advance(t))
<1>0. Watch /\ TypeOK
  BY DEF Next, Core
<1>1. CASE Tick
  <2>1. now' \in 0 .. MaxTime /\ now <= now' /\ Drops
    <3>1. now \in 0 .. MaxTime /\ MaxTime \in Nat /\ now < MaxTime /\ now' = now + 1
      BY <1>0, <1>1, BoundsAssumption DEF Tick, TypeOK
    <3>2. now' \in 0 .. MaxTime /\ now <= now'
      BY <3>1
    <3>. QED  BY <1>0, <1>1, <3>2, DropsIs DEF Tick, serverVars
  <2>. QED  BY <1>0, <1>1, <2>1 DEF Tick, Idle, Still, serverVars, clientVars, taskVars, Next
<1>2. CASE NativeExpiry
  <2>1. ServerExpires
    BY <1>2 DEF NativeExpiry
  <2>2. Drops /\ now <= now
    <3>1. now \in 0 .. MaxTime /\ MaxTime \in Nat
      BY <1>0, BoundsAssumption DEF TypeOK
    <3>2. now <= now
      BY <3>1
    <3>. QED  BY <1>0, <2>1, <3>2, DropsIs DEF ServerExpires
  <2>. QED  BY <1>0, <2>1, <2>2 DEF ServerExpires, Idle, Still, clientVars, taskVars, Next, TypeOK
<1>3. CASE \E t \in Tasks : BackendStep(t) \/ Fail(t)
  <2>1. PICK t \in Tasks : BackendStep(t) \/ Fail(t)
    BY <1>3
  <2>2. OwnStep(t)
    BY <2>1 DEF OwnStep, Next
  <2>3. Legal(t)
    BY <2>2, StepLegal
  <2>. QED  BY <1>0, <2>2, <2>3, MovesOnly DEF Advance, Legal
<1>. QED  BY <1>1, <1>2, <1>3 DEF Next

\* Who has written will not write again.
LEMMA SpentStays ==
    ASSUME Core, Idle \/ \E t \in Tasks : Advance(t), NEW w, Spent(w)
    PROVE  Spent(w)'
<1>1. ASSUME NEW u \in Tasks, Still(u), UNCHANGED <<backend, call>>, NEW i, Writable(u, i)'
      PROVE  Writable(u, i)
  BY <1>1 DEF Writable, Still, Doing, OnS3
<1>2. CASE Idle
  BY <1>1, <1>2 DEF Idle, Spent, Writable
<1>3. ASSUME NEW t \in Tasks, Advance(t)
      PROVE  Spent(w)'
  <2>1. UNCHANGED <<backend, call>> /\ (\A i : Writable(t, i)' => Writable(t, i)) /\ \A u \in Tasks \ {t} : Still(u)
    BY <1>3 DEF Advance, OwnStep, Legal, Ordered
  <2>2. CASE w[1] = t
    BY <2>1, <2>2 DEF Spent
  <2>3. CASE w[1] \in Tasks \ {t}
    BY <1>1, <2>1, <2>3 DEF Spent
  <2>4. CASE w[1] \notin Tasks
    BY <2>4 DEF Spent, Writable
  <2>. QED  BY <2>2, <2>3, <2>4
<1>. QED  BY <1>2, <1>3

\* What a step leaves in a slot.
LEMMA DbBecomes ==
    ASSUME Core, Idle \/ \E t \in Tasks : Advance(t), NEW s \in Slots
    PROVE  /\ db' \in [Slots -> Doc]
           /\ \/ db'[s] \in {db[s], Empty}
              \/ \E t \in Tasks, i \in Nat : Advance(t) /\ db'[s].writer = <<t, i>> /\ Writable(t, i) /\ ~Writable(t, i)'
<1>1. CASE Idle
  BY <1>1 DEF Idle, Drops
<1>2. ASSUME NEW t \in Tasks, Advance(t)
      PROVE  /\ db' \in [Slots -> Doc]
             /\ \/ db'[s] \in {db[s], Empty}
                \/ \E i \in Nat : db'[s].writer = <<t, i>> /\ Writable(t, i) /\ ~Writable(t, i)'
  <2>1. Effect(t) /\ TypeOK
    BY <1>2 DEF Advance, Legal, Core
  <2>2. Positions(t, s) \subseteq Nat
    BY <2>1, KeysNumbered DEF Positions
  <2>. HIDE DEF Writable, Positions
  <2>. QED  BY <2>1, <2>2 DEF Effect
<1>. QED  BY <1>1, <1>2

\* What has left a slot does not come back.
LEMMA OldStays ==
    ASSUME Core, Idle \/ \E t \in Tasks : Advance(t), NEW s \in Slots, NEW d, Present(d), Spent(d.writer), db[s] # d
    PROVE  db'[s] # d /\ Spent(d.writer)'
<1>1. Spent(d.writer)'
  BY SpentStays
<1>2. ASSUME db'[s] = d PROVE FALSE
  <2>1. PICK t \in Tasks, i \in Nat : db'[s].writer = <<t, i>> /\ Writable(t, i)
    BY <1>2, DbBecomes DEF Present
  <2>. QED  BY <1>2, <2>1 DEF Spent
<1>. QED  BY <1>1, <1>2

LEMMA CoreInit ==
    ASSUME Init
    PROVE  Core
<1>1. TypeOK
  <2>1. db \in [Slots -> Doc] /\ alien \subseteq Collections /\ \A s \in Slots : db[s].writer[1] = NoTask
    BY StoresAssumption DEF Init, StoreInit
  <2>2. Nothing \in [Slots -> Doc] /\ Unwatched \in [Slots -> SUBSET Doc]
    BY DEF Nothing, Empty, Doc, NoExpiry, Unwatched
  <2>. QED  BY <2>1, <2>2, BoundsAssumption DEF Init, StoreInit, TypeOK, Stages
<1>2. \A s \in Slots : db[s].writer[1] = NoTask
  BY StoresAssumption DEF Init, StoreInit
<1>3. DocsSpent
  BY <1>2, TasksAssumption DEF Init, StoreInit, DocsSpent, Spent, Writable, Nothing, Empty
<1>4. \A t \in Tasks : Supported(t) /\ OwnDocs(t) /\ since[t] <= now
  BY <1>2, TasksAssumption, BoundsAssumption DEF Init, StoreInit, Supported, OwnDocs
<1>5. ASSUME NEW t \in Tasks
      PROVE  Shape(t)
  BY DEF Init, StoreInit, Shape, Staged, Allowed, LoopsTyped, LoopOk, Prepped, Begun
<1>. QED  BY <1>1, <1>3, <1>4, <1>5 DEF Core

LEMMA CoreNext ==
    ASSUME Core, Next
    PROVE  Core'
<1>0. Watch /\ (Idle \/ \E t \in Tasks : Advance(t)) /\ TypeOK
  BY NextCases DEF Core
<1>1. UNCHANGED <<backend, call>>
  BY DEF Next
<1>2. \A u \in Tasks : Typed(u) \/ Still(u)
  BY <1>0 DEF Idle, Advance, Legal
<1>3. \A u \in Tasks : Shape(u) /\ Shape(u)'
  <2>1. ASSUME NEW u \in Tasks, Still(u)
        PROVE  Shape(u)'
    <3>1. Shape(u)
      BY DEF Core
    <3>2. Staged(u)' /\ LoopsTyped(u)'
      BY <1>1, <2>1, <3>1, CarriedOver DEF Shape, Staged, LoopsTyped, Still
    <3>3. Prepped(u)' /\ Begun(u)'
      BY <1>1, <2>1, <3>1 DEF Shape, Prepped, Begun, Fresh, Target, LastPosition, Positions, Doing, Still, OnS3
    <3>. QED  BY <3>2, <3>3 DEF Shape
  <2>. QED  BY <1>0, <2>1 DEF Idle, Advance, Legal, Core
<1>4. TypeOK'
  <2>1. backend' \in Backends /\ call' \in [Tasks -> Calls]
    BY <1>0, <1>1 DEF TypeOK
  <2>2. now' \in 0 .. MaxTime /\ db' \in [Slots -> Doc] /\ alien' \subseteq Collections /\ lock' \in Tasks \cup {NoTask}
    BY <1>0 DEF Idle, Drops, Advance, Legal, Typed, Effect, Ordered, TypeOK
  <2>3. \A u \in Tasks : /\ pc'[u] \in Stages /\ seen'[u] \in [Slots -> Doc] /\ found'[u] \in [Slots -> Doc]
                         /\ todo'[u] \in SUBSET Slots /\ names'[u] \in SUBSET Collections
    BY <1>0, <1>2 DEF Typed, Still, TypeOK
  <2>4. \A u \in Tasks : \/ rest'[u] \subseteq Collections
                         \/ rest'[u] \subseteq DOMAIN call[u].keys
    BY <1>1, <1>3 DEF Shape, LoopsTyped, LoopOk
  <2>5. \A u \in Tasks : rest'[u] \in SUBSET (Collections \cup Nat)
    <3>1. \A u \in Tasks : DOMAIN call[u].keys \in SUBSET Nat
      BY <1>0, KeysNumbered
    <3>. QED  BY <2>4, <3>1
  <2>6. Domains'
    BY <1>0, DomainsKept DEF Idle, Advance, Legal
  <2>7. since' \in [Tasks -> 0 .. MaxTime] /\ before' \in [Tasks -> [Slots -> Doc]]
        /\ window' \in [Tasks -> [Slots -> SUBSET Doc]]
    <3>1. Nothing \in [Slots -> Doc] /\ Unwatched \in [Slots -> SUBSET Doc] /\ 0 \in 0 .. MaxTime
      BY <1>0, DbIs, BoundsAssumption DEF Unwatched
    <3>. QED  BY <1>0, <2>2, <3>1 DEF Watch, TypeOK
  <2>. QED  BY <1>1, <2>1, <2>2, <2>3, <2>4, <2>5, <2>6, <2>7 DEF TypeOK, Domains
<1>5. DocsSpent'
  <2>1. ASSUME NEW s \in Slots PROVE Spent(db[s].writer)'
    <3>. PICK d : d = db'[s]
      OBVIOUS
    <3>0. db[s] # d \/ db[s] = d
      OBVIOUS
    <3>1. CASE d = Empty
      BY <3>1, TasksAssumption DEF Spent, Writable, Empty
    <3>2. CASE d = db[s]
      <4>1. Spent(d.writer)
        BY <3>2 DEF Core, DocsSpent
      <4>. QED  BY <1>0, <4>1, SpentStays
    <3>3. CASE d # db[s] /\ d # Empty
      <4>1. PICK t \in Tasks, i \in Nat : d.writer = <<t, i>> /\ ~Writable(t, i)'
        BY <1>0, <3>3, DbBecomes
      <4>. QED  BY <4>1 DEF Spent
    <3>. QED  BY <3>1, <3>2, <3>3
  <2>2. ASSUME NEW u \in Tasks, NEW s \in Slots PROVE Spent(before[u][s].writer)'
    <3>1. before'[u][s] \in {db[s], Empty, before[u][s]}
      BY <1>0, WatchFacts, DbIs
    <3>. PICK d : d = before'[u][s]
      OBVIOUS
    <3>2. Spent(Empty.writer)
      BY TasksAssumption DEF Spent, Writable, Empty
    <3>3. Spent(d.writer)
      BY <3>1, <3>2 DEF Core, DocsSpent
    <3>. QED  BY <1>0, <3>3, SpentStays
  <2>. QED  BY <2>1, <2>2 DEF DocsSpent
<1>6. ASSUME NEW u \in Tasks PROVE Supported(u)' /\ since'[u] <= now'
  <2>1. Supported(u)'
    BY <1>1 DEF Core, Supported, TooLong, Doing
  <2>2. now <= now' /\ now \in Nat /\ now' \in Nat /\ since[u] \in Nat /\ since[u] <= now
    BY <1>0, <1>4, BoundsAssumption DEF Idle, Advance, Legal, Ordered, TypeOK, Core
  <2>. QED  BY <1>0, <2>1, <2>2, WatchFacts
<1>7. ASSUME NEW u \in Tasks PROVE OwnDocs(u)'
  <2>. SUFFICES ASSUME NEW s \in Slots, db'[s].writer[1] = u
                PROVE  /\ Doing(u, Writes) /\ s \in Target(u) /\ pc'[u] \notin {"begin", "invalid"}
                       /\ db'[s].writer[2] \in Positions(u, s)
                       /\ ~OnS3 => db'[s].writer[2] = LastPosition(u, s)
    BY <1>1 DEF OwnDocs, Doing, Target, Positions, LastPosition, OnS3
  <2>1. CASE db'[s] = db[s]
    <3>1. OwnDocs(u)
      BY DEF Core
    <3>2. pc'[u] = pc[u] \/ Ordered(u)
      BY <1>0 DEF Idle, Advance, Still, Legal
    <3>. QED  BY <2>1, <3>1, <3>2 DEF OwnDocs, Ordered
  <2>2. CASE db'[s] = Empty
    BY <2>2, TasksAssumption DEF Empty
  <2>3. CASE db'[s] # db[s] /\ db'[s] # Empty
    <3>1. PICK t \in Tasks : Advance(t)
      BY <1>0, <2>3 DEF Idle, Drops
    <3>2. Effect(t) /\ pc'[t] # "begin"
      BY <3>1 DEF Advance, Legal, Ordered
    <3>. HIDE DEF Target, Positions, LastPosition
    <3>. QED  BY <2>3, <3>2 DEF Effect
  <2>. QED  BY <2>1, <2>2, <2>3
<1>. QED  BY <1>3, <1>4, <1>5, <1>6, <1>7 DEF Core

LEMMA NextLawful ==
    ASSUME Core, Next
    PROVE  Lawful
<1>1. TypeOK /\ Watch /\ UNCHANGED <<backend, call>> /\ (\A t \in Tasks : since[t] <= now) /\ TypeOK'
  BY CoreNext, NextCases DEF Core, Next
<1>2. now <= now'
  BY <1>1, NextCases, BoundsAssumption DEF Idle, Advance, Legal, Ordered, TypeOK
<1>. QED  BY <1>1, <1>2 DEF Lawful, TypeOK
-----------------------------------------------------------------------------
(* What a step of a call is, by its operation *)

LEMMA Runs ==
    ASSUME Core, NEW t \in Tasks, Advance(t)
    PROVE  Running(t) /\ pc'[t] # "begin" /\ pc[t] \notin Ended /\ UNCHANGED <<backend, call>>
<1>. QED  BY DEF Advance, Legal, Ordered, Running, OwnStep

\* The steps that reads take.
LEMMA ReadSteps ==
    ASSUME NEW t \in Tasks, OwnStep(t), Doing(t, Reads)
    PROVE  \/ Fail(t)
           \/ backend = "mongodb" /\ (MongoOpen(t) \/ MongoMakeIndexes(t) \/ MongoInspectIndexes(t)
                                      \/ MongoGet(t) \/ MongoGetMany(t) \/ MongoDeleteObserved(t))
           \/ backend = "dynamodb" /\ (DynamoRefuse(t) \/ DynamoGet(t) \/ DynamoGetMany(t) \/ DynamoReadEntries(t)
                                       \/ DynamoDeleteObserved(t))
           \/ backend = "opensearch" /\ (OsRefuse(t) \/ OsGet(t) \/ OsGetMany(t) \/ OsBulkDelete(t))
           \/ backend = "firestore" /\ (FsRefuse(t) \/ FsGet(t) \/ FsGetMany(t) \/ FsTtlMany(t) \/ FsDeleteExpired(t))
           \/ backend = "vault" /\ ((\E op \in Reads : VaultOpen(t, op)) \/ VaultReadEntry(t))
           \/ backend = "s3" /\ (S3OpenOne(t) \/ S3GetMany(t) \/ S3Get(t))
<1>1. CASE backend = "mongodb" /\ MongoNext(t)
  BY <1>1 DEF Doing, Reads, MongoNext, MongoPut, MongoPutMany, MongoDelete, MongoDeleteMany, MongoKeys, MongoCull,
              MongoCollections, MongoDestroyCollection, MongoDestroy, At
<1>2. CASE backend = "dynamodb" /\ DynamoNext(t)
  BY <1>2 DEF Doing, Reads, DynamoNext, DynamoEnsureTable, DynamoEnsureTtl, DynamoPut, DynamoPutMany, DynamoDelete,
              DynamoDeleteMany, DynamoCull, DynamoKeys, DynamoCollections, DynamoScan, DynamoDestroyCollection,
              DynamoDestroy, DynamoOpen, At
<1>3. CASE backend = "opensearch" /\ OsNext(t)
  BY <1>3 DEF Doing, Reads, OsNext, OsPut, OsPutMany, OsDelete, OsDeleteMany, OsBulkIndex, OsWrites, OsCull, OsKeys,
              OsCollections, OsDestroyCollection, OsDestroy, OsOpen, At
<1>4. CASE backend = "firestore" /\ FsNext(t)
  BY <1>4 DEF Doing, Reads, FsNext, FsPut, FsPutMany, FsDelete, FsDeleteMany, FsDeletes, At
<1>5. CASE backend = "vault" /\ VaultNext(t)
  BY <1>5 DEF Doing, Reads, VaultNext, VaultGet, VaultPut, VaultDelete, VaultGetMany, VaultPutMany, VaultDeleteMany,
              VaultOpen, VaultWriteEntry, VaultDeleteEntry, VaultWrites, VaultDeletes, At
<1>6. CASE backend = "s3" /\ S3Next(t)
  BY <1>6 DEF Doing, Reads, S3Next, S3EnsureBucket, S3PutMany, S3DeleteMany, S3Open, S3Put, S3Delete, S3Writes, S3Deletes,
              S3Cull, S3Keys, S3Collections, S3DeleteObjects, S3DestroyCollection, S3Destroy, At
<1>. QED  BY <1>1, <1>2, <1>3, <1>4, <1>5, <1>6 DEF OwnStep, BackendStep

-----------------------------------------------------------------------------
(* Answers of reads: what was there while the call ran *)

\* What has been found answers for the slots of S.
Answered(t, S) == \A s \in S : ReadOk(found[t][s], window[t][s], since[t], now)

\* The slots a batch taken in order has passed.
Past(t) == {<<call[t].coll, call[t].keys[i]>> : i \in DOMAIN call[t].keys \ rest[t]}

\* A read has its answer when it returns, and before that if all that is left is to delete
\* what had expired; DynamoDB's batches have documents by then, Vault's and S3's the answers
\* for some of their keys.
Reading(t) ==
    Doing(t, Reads) =>
        /\ \/ pc[t] = "ok" /\ window[t] # Unwatched
           \/ pc[t] = "expiring" /\ ~OnS3
           => Answered(t, Target(t))
        /\ backend = "dynamodb" /\ pc[t] = "fetching" =>
            \A s \in Target(t) \ todo[t] : seen[t][s] \in window[t][s]
        /\ backend = "vault" /\ pc[t] = "batch" =>
            Answered(t, Target(t) \ todo[t]) /\ \A s \in todo[t] : found[t][s] = Empty
        /\ OnS3 /\ pc[t] \in {"batch", "expiring"} => Answered(t, Past(t) \cap Slots)
        /\ OnS3 /\ pc[t] = "expiring" => \E e \in window[t][NextSlot(t)] : Faded(e, now)

\* An answer that is right stays so.
LEMMA AnsweredStays ==
    ASSUME Lawful, NEW t \in Tasks, Running(t), pc[t] # "begin", NEW S \in SUBSET Slots, Answered(t, S)
    PROVE  \A s \in S : ReadOk(found[t][s], window'[t][s], since'[t], now')
<1>. QED  BY ReadOkStays DEF Answered

LEMMA ReadingStill ==
    ASSUME Lawful, Core, NEW t \in Tasks, Still(t), Reading(t)
    PROVE  Reading(t)'
<1>1. CASE pc[t] \in Ended
  <2>1. window'[t] = Unwatched /\ pc'[t] = pc[t]
    BY <1>1, WatchFacts DEF Lawful, Still
  <2>. QED  BY <1>1, <2>1 DEF Reading, Ended
<1>2. CASE pc[t] = "begin"
  BY <1>2 DEF Reading, Still
<1>3. CASE pc[t] \notin Ended /\ pc[t] # "begin"
  <2>1. /\ Running(t) /\ pc'[t] = pc[t] /\ found'[t] = found[t] /\ seen'[t] = seen[t] /\ todo'[t] = todo[t]
        /\ rest'[t] = rest[t] /\ UNCHANGED <<backend, call>> /\ pc[t] # "ok"
    BY <1>3 DEF Running, Still, Lawful, Ended
  <2>2. Target(t)' = Target(t) /\ Past(t)' = Past(t) /\ NextSlot(t)' = NextSlot(t) /\ Target(t) \subseteq Slots
    BY <2>1 DEF Target, Past, NextSlot, NextPosition
  <2>3. \A S \in SUBSET Slots : Answered(t, S) => \A s \in S : ReadOk(found'[t][s], window'[t][s], since'[t], now')
    BY <1>3, <2>1, AnsweredStays
  <2>4. \A s \in Slots : window[t][s] \subseteq window'[t][s]
    BY <2>1, WindowGrows
  <2>5. \A s \in Slots : (\E e \in window[t][s] : Faded(e, now)) => \E e \in window'[t][s] : Faded(e, now')
    BY <2>1, FadedStays
  <2>6. SUFFICES ASSUME Doing(t, Reads)
                 PROVE  /\ pc[t] = "expiring" /\ ~OnS3 => \A s \in Target(t) : ReadOk(found'[t][s], window'[t][s], since'[t], now')
                        /\ backend = "dynamodb" /\ pc[t] = "fetching" =>
                            \A s \in Target(t) \ todo[t] : seen[t][s] \in window'[t][s]
                        /\ backend = "vault" /\ pc[t] = "batch" =>
                            /\ \A s \in Target(t) \ todo[t] : ReadOk(found'[t][s], window'[t][s], since'[t], now')
                            /\ \A s \in todo[t] : found[t][s] = Empty
                        /\ OnS3 /\ pc[t] \in {"batch", "expiring"} =>
                            \A s \in Past(t) \cap Slots : ReadOk(found'[t][s], window'[t][s], since'[t], now')
                        /\ OnS3 /\ pc[t] = "expiring" => \E e \in window'[t][NextSlot(t)] : Faded(e, now')
    BY <2>1, <2>2 DEF Reading, Doing, Answered, OnS3
  <2>7. OnS3 /\ pc[t] = "expiring" => NextSlot(t) \in Slots
    BY <2>6, NextIs DEF KeyValue, Doing
  <2>. HIDE DEF Target, Past, NextSlot, ReadOk
  <2>. QED  BY <2>2, <2>3, <2>4, <2>5, <2>6, <2>7 DEF Reading
<1>. QED  BY <1>1, <1>2, <1>3

\* The last step of a read, or the last but that it deletes what it found expired.
LEMMA ReadReturns ==
    ASSUME Core, NEW t \in Tasks, Advance(t), pc'[t] \in {"ok", "error", "invalid", "expiring"},
           pc'[t] = "expiring" => ~OnS3,
           pc'[t] \in {"ok", "expiring"} => \A s \in Target(t) : ReadOk(found'[t][s], window'[t][s], since'[t], now')
    PROVE  Reading(t)'
<1>1. UNCHANGED <<backend, call>>
  BY Runs
<1>2. Target(t)' = Target(t)
  BY <1>1 DEF Target
<1>. QED  BY <1>1, <1>2 DEF Reading, Answered, OnS3

\* A read of everything at once.
LEMMA FetchReads ==
    ASSUME Core, Lawful, NEW t \in Tasks, Advance(t), found[t] = Nothing, ~OnS3, NEW decoded \in BOOLEAN, Fetch(t, decoded)
    PROVE  Reading(t)'
<1>1. pc'[t] \in {"ok", "expiring", "error"}
      /\ (pc'[t] # "error" => \A s \in Target(t) : found'[t][s] = IF Live(db[s]) THEN db[s] ELSE Empty)
  BY FetchIs DEF Core
<1>2. Running(t) /\ Target(t) \subseteq Slots
  BY Runs DEF Target
<1>3. pc'[t] # "error" => \A s \in Target(t) : ReadOk(found'[t][s], window'[t][s], since'[t], now')
  BY <1>1, <1>2, ReadOkNow
<1>. QED  BY <1>1, <1>3, ReadReturns

\* The rest of a read that deletes what it found expired.
LEMMA ExpiringReads ==
    ASSUME Core, Lawful, NEW t \in Tasks, Advance(t), Doing(t, Reads), Reading(t), pc[t] = "expiring", ~OnS3,
           pc'[t] \in {"ok", "expiring"}, found'[t] = found[t]
    PROVE  Reading(t)'
<1>1. Answered(t, Target(t)) /\ Target(t) \in SUBSET Slots /\ Running(t)
  BY Runs DEF Reading, Target
<1>2. \A s \in Target(t) : ReadOk(found[t][s], window'[t][s], since'[t], now')
  BY <1>1, AnsweredStays
<1>. QED  BY <1>2, ReadReturns

LEMMA MongoReading ==
    ASSUME Core, Lawful, NEW t \in Tasks, Advance(t), Doing(t, Reads), Reading(t), backend = "mongodb"
    PROVE  Reading(t)'
<1>0. TypeOK /\ ~OnS3 /\ OwnStep(t) /\ Begun(t)
  BY DEF Core, OnS3, Advance, Shape
<1>1. CASE Fail(t)
  BY <1>0, <1>1, GoingIs, ReadReturns DEF Fail
<1>2. CASE MongoOpen(t)
  <2>1. CASE Return(t, "invalid")
    BY <1>0, <2>1, GoingIs, ReadReturns
  <2>2. CASE Return(t, "ok") /\ call[t].keys = <<>>
    <3>1. Target(t) = {}
      BY <2>2 DEF Target
    <3>. QED  BY <1>0, <2>2, <3>1, GoingIs, ReadReturns
  <2>3. CASE \E stage \in {"ready", "making"} : \E o : Goto(t, stage, o, {}, found[t])
    BY <1>0, <2>3, GotoIs DEF Reading, OnS3
  <2>4. CASE \E o : MongoCollection(t, o)
    BY <2>3, <2>4 DEF MongoCollection
  <2>. QED  BY <1>2, <2>1, <2>2, <2>4 DEF MongoOpen
<1>3. CASE MongoMakeIndexes(t) \/ MongoInspectIndexes(t)
  <2>1. pc'[t] \in {"checking", "ready", "error"}
    BY <1>0, <1>3, GoingIs DEF MongoMakeIndexes, MongoInspectIndexes
  <2>. QED  BY <1>0, <2>1, Runs DEF Reading, OnS3
<1>4. CASE MongoGet(t) \/ MongoGetMany(t)
  <2>1. Fetch(t, \A s \in Target(t) : MongoDecodes(db[s])) /\ pc[t] = "ready"
    BY <1>4 DEF MongoGet, MongoGetMany, At
  <2>2. found[t] = Nothing
    BY <1>0, <2>1 DEF Begun, Unsent, Doing, Reads
  <2>. QED  BY <1>0, <2>1, <2>2, FetchReads
<1>5. CASE MongoDeleteObserved(t)
  <2>1. pc[t] = "expiring" /\ pc'[t] = "ok" /\ found'[t] = found[t]
    BY <1>0, <1>5, GoingIs DEF MongoDeleteObserved, Doing, Reads
  <2>. QED  BY <1>0, <2>1, ExpiringReads
<1>. QED  BY <1>0, <1>1, <1>2, <1>3, <1>4, <1>5, ReadSteps

LEMMA OsFsReading ==
    ASSUME Core, Lawful, NEW t \in Tasks, Advance(t), Doing(t, Reads), Reading(t), backend \in {"opensearch", "firestore"}
    PROVE  Reading(t)'
<1>0. TypeOK /\ ~OnS3 /\ OwnStep(t) /\ Begun(t)
  BY DEF Core, OnS3, Advance, Shape
<1>1. CASE Fail(t) \/ OsRefuse(t) \/ FsRefuse(t)
  BY <1>0, <1>1, GoingIs, ReadReturns DEF Fail, OsRefuse, FsRefuse
<1>2. CASE OsGet(t) \/ OsGetMany(t) \/ FsGet(t) \/ FsGetMany(t) \/ FsTtlMany(t)
  <2>1. pc[t] = "begin" /\ found[t] = Nothing
    BY <1>0, <1>2 DEF OsGet, OsGetMany, OsOpen, FsGet, FsGetMany, FsTtlMany, At, Begun
  <2>2. \E decoded \in BOOLEAN : Fetch(t, decoded)
    BY <1>2 DEF OsGet, OsGetMany, OsReadEntry, OsReadEntries, FsGet, FsGetMany, FsTtlMany, FsRead
  <2>. QED  BY <1>0, <2>1, <2>2, FetchReads
<1>3. CASE (backend = "opensearch" /\ OsBulkDelete(t)) \/ FsDeleteExpired(t)
  <2>1. pc[t] = "expiring"
    BY <1>0, <1>3 DEF OsBulkDelete, FsDeleteExpired, At, Core, Shape, Staged, Allowed, Doing, Reads, Deletes
  <2>2. pc'[t] \in {"ok", "expiring"} /\ found'[t] = found[t]
    <3>1. \E stage \in {"ok", "expiring"} : \E o, d : Goto(t, stage, o, d, found[t])
      BY <1>3, <2>1 DEF OsBulkDelete, FsDeleteExpired, Answer
    <3>. QED  BY <1>0, <3>1, GotoIs
  <2>. QED  BY <1>0, <2>1, <2>2, ExpiringReads
<1>. QED  BY <1>0, <1>1, <1>2, <1>3, ReadSteps

LEMMA DynamoReading ==
    ASSUME Core, Lawful, NEW t \in Tasks, Advance(t), Doing(t, Reads), Reading(t), backend = "dynamodb"
    PROVE  Reading(t)'
<1>0. TypeOK /\ ~OnS3 /\ OwnStep(t) /\ Begun(t) /\ Running(t) /\ UNCHANGED <<backend, call>>
  BY Runs DEF Core, OnS3, Advance, Shape
<1>1. CASE Fail(t) \/ DynamoRefuse(t)
  BY <1>0, <1>1, GoingIs, ReadReturns DEF Fail, DynamoRefuse
<1>2. CASE DynamoGet(t)
  <2>1. pc[t] = "begin" /\ found[t] = Nothing
    BY <1>0, <1>2 DEF DynamoGet, DynamoOpen, At, Begun
  <2>2. \E decoded \in BOOLEAN : Fetch(t, decoded)
    BY <1>2 DEF DynamoGet, DynamoReadEntry
  <2>. QED  BY <1>0, <2>1, <2>2, FetchReads
<1>3. CASE DynamoGetMany(t)
  <2>1. pc'[t] = (IF Target(t) = {} THEN "ok" ELSE "fetching") /\ todo'[t] = Target(t)
    BY <1>0, <1>3, GotoIs DEF DynamoGetMany
  <2>2. CASE Target(t) = {}
    BY <2>1, <2>2, ReadReturns
  <2>3. CASE Target(t) # {}
    <3>1. Target(t)' = Target(t)
      BY <1>0 DEF Target
    <3>. QED  BY <1>0, <2>1, <2>3, <3>1 DEF Reading, OnS3
  <2>. QED  BY <2>2, <2>3
<1>4. CASE DynamoReadEntries(t)
  <2>0. pc[t] = "fetching" /\ Target(t)' = Target(t) /\ Target(t) \subseteq Slots
    BY <1>0, <1>4 DEF DynamoReadEntries, At, Target
  <2>1. PICK s \in todo[t] :
          LET o == [seen[t] EXCEPT ![s] = db[s]]
              late == {r \in Target(t) : Present(o[r]) /\ Expired(o[r])} IN
          \/ Return(t, "error")
          \/ Goto(t, "fetching", o, todo[t] \ {s}, Nothing)
          \/ /\ todo[t] = {s}
             /\ Goto(t, IF late = {} THEN "ok" ELSE "expiring", o, late, [r \in Slots |-> IF r \in late THEN Empty ELSE o[r]])
    BY <1>4 DEF DynamoReadEntries
  <2>. DEFINE o == [seen[t] EXCEPT ![s] = db[s]]
              late == {r \in Target(t) : Present(o[r]) /\ Expired(o[r])}
              f == [r \in Slots |-> IF r \in late THEN Empty ELSE o[r]]
  <2>2. s \in Slots /\ \A r \in Slots : o[r] = IF r = s THEN db[s] ELSE seen[t][r]
    BY <1>0, DbIs
  <2>3. \A r \in Target(t) : r \notin todo[t] \ {s} => o[r] \in window'[t][r]
    <3>1. \A r \in Target(t) \ todo[t] : seen[t][r] \in window[t][r]
      BY <2>0 DEF Reading
    <3>2. \A r \in Slots : window[t][r] \subseteq window'[t][r] /\ db[r] \in window'[t][r]
      BY <1>0, WindowGrows
    <3>. HIDE DEF o
    <3>. QED  BY <2>0, <2>2, <3>1, <3>2
  <2>4. \A r \in Target(t) : f[r] = IF Live(o[r]) THEN o[r] ELSE Empty
    <3>. HIDE DEF o
    <3>. QED  BY <2>0 DEF Live, Present
  <2>5. \/ Return(t, "error")
        \/ Goto(t, "fetching", o, todo[t] \ {s}, Nothing)
        \/ /\ todo[t] = {s}
           /\ Goto(t, IF late = {} THEN "ok" ELSE "expiring", o, late, f)
    BY <2>1
  <2>. HIDE DEF o, late, f
  <2>6. CASE Return(t, "error")
    BY <1>0, <2>6, GoingIs, ReadReturns
  <2>7. CASE Goto(t, "fetching", o, todo[t] \ {s}, Nothing)
    <3>1. pc'[t] = "fetching" /\ seen'[t] = o /\ todo'[t] = todo[t] \ {s}
      BY <1>0, <2>7, GotoIs
    <3>. QED  BY <1>0, <2>0, <2>3, <3>1 DEF Reading, OnS3
  <2>8. CASE todo[t] = {s} /\ Goto(t, IF late = {} THEN "ok" ELSE "expiring", o, late, f)
    <3>1. pc'[t] \in {"ok", "expiring"} /\ found'[t] = f
      BY <1>0, <2>8, GotoIs
    <3>2. \A r \in Target(t) : o[r] \in window'[t][r]
      BY <2>3, <2>8
    <3>3. \A r \in Target(t) : ReadOk(found'[t][r], window'[t][r], since'[t], now')
      BY <1>0, <2>0, <2>4, <3>1, <3>2, ReadOkSift
    <3>. QED  BY <1>0, <3>1, <3>3, ReadReturns
  <2>. QED  BY <2>5, <2>6, <2>7, <2>8
<1>5. CASE DynamoDeleteObserved(t)
  <2>1. pc[t] = "expiring" /\ pc'[t] \in {"ok", "expiring"} /\ found'[t] = found[t]
    BY <1>0, <1>5, GoingIs, GotoIs DEF DynamoDeleteObserved, Doing, Reads
  <2>. QED  BY <1>0, <2>1, ExpiringReads
<1>. QED  BY <1>0, <1>1, <1>2, <1>3, <1>4, <1>5, ReadSteps

\* Vault's batches.
LEMMA VaultBatch ==
    ASSUME Core, Lawful, NEW t \in Tasks, Advance(t), Doing(t, Reads), backend = "vault",
           NEW o, NEW d \in SUBSET Slots, NEW f, Goto(t, "batch", o, d, f) \/ VaultDone(t, o, d, f),
           \A s \in Target(t) \ d : ReadOk(f[s], window'[t][s], since'[t], now'),
           \A s \in d : f[s] = Empty
    PROVE  Reading(t)'
<1>0. TypeOK /\ ~OnS3 /\ UNCHANGED <<backend, call>> /\ Target(t)' = Target(t)
  BY Runs DEF Core, OnS3, Target
<1>1. CASE Goto(t, "batch", o, d, f)
  <2>1. pc'[t] = "batch" /\ todo'[t] = d /\ found'[t] = f
    BY <1>0, <1>1, GotoIs
  <2>. QED  BY <1>0, <2>1 DEF Reading, Answered, OnS3
<1>2. CASE d = {} /\ Answer(t, f)
  <2>1. pc'[t] = "ok" /\ found'[t] = f
    BY <1>0, <1>2, GoingIs
  <2>. QED  BY <1>0, <1>2, <2>1, ReadReturns
<1>. QED  BY <1>1, <1>2 DEF VaultDone

LEMMA VaultReading ==
    ASSUME Core, Lawful, NEW t \in Tasks, Advance(t), Doing(t, Reads), Reading(t), backend = "vault"
    PROVE  Reading(t)'
<1>0. TypeOK /\ ~OnS3 /\ OwnStep(t) /\ Running(t) /\ Target(t) \in SUBSET Slots /\ todo[t] \in SUBSET Slots
  BY Runs, DbIs DEF Core, OnS3, Advance
<1>1. CASE Fail(t)
  BY <1>0, <1>1, GoingIs, ReadReturns DEF Fail
<1>2. ASSUME NEW op \in Reads, VaultOpen(t, op)
      PROVE  Reading(t)'
  <2>1. CASE Return(t, "invalid")
    BY <1>0, <2>1, GoingIs, ReadReturns
  <2>2. CASE VaultDone(t, Nothing, Target(t), Nothing)
    BY <1>0, <2>2, VaultBatch, DbIs
  <2>. QED  BY <1>2, <2>1, <2>2 DEF VaultOpen, VaultWrites, Reads
<1>3. CASE VaultReadEntry(t)
  <2>1. /\ \A s \in Target(t) \ todo[t] : ReadOk(found[t][s], window'[t][s], since'[t], now')
        /\ \A s \in todo[t] : found[t][s] = Empty
    <3>1. pc[t] = "batch"
      BY <1>3 DEF VaultReadEntry, At
    <3>2. Answered(t, Target(t) \ todo[t]) /\ \A s \in todo[t] : found[t][s] = Empty
      BY <3>1 DEF Reading
    <3>3. Target(t) \ todo[t] \in SUBSET Slots /\ pc[t] # "begin"
      BY <1>0, <3>1
    <3>. QED  BY <1>0, <3>2, <3>3, AnsweredStays
  <2>2. ASSUME NEW s \in todo[t]
        PROVE  /\ ~Live(db[s]) => ReadOk(Empty, window'[t][s], since'[t], now')
               /\ Live(db[s]) => ReadOk(db[s], window'[t][s], since'[t], now')
    BY <1>0, ReadOkNow
  <2>3. CASE Return(t, "error")
    BY <1>0, <2>3, GoingIs, ReadReturns
  <2>4. ASSUME NEW s \in todo[t], Present(db[s]), Expired(db[s]),
               Goto(t, "batch", [seen[t] EXCEPT ![s] = db[s]], todo[t] \ {s}, found[t])
        PROVE  Reading(t)'
    <3>1. ReadOk(found[t][s], window'[t][s], since'[t], now')
      BY <2>1, <2>2, <2>4 DEF Live
    <3>. QED  BY <1>0, <2>1, <2>4, <3>1, VaultBatch
  <2>5. ASSUME NEW s \in todo[t], ~(Present(db[s]) /\ Expired(db[s])),
               VaultDone(t, seen[t], todo[t] \ {s}, [found[t] EXCEPT ![s] = db[s]])
        PROVE  Reading(t)'
    <3>1. PICK f \in [Slots -> Doc] : f = [found[t] EXCEPT ![s] = db[s]]
      BY <1>0, DbIs
    <3>2. \A r \in Slots : f[r] = IF r = s THEN db[s] ELSE found[t][r]
      BY <1>0, <3>1, DbIs
    <3>3. ReadOk(db[s], window'[t][s], since'[t], now')
      BY <2>2, <2>5 DEF Live, Present
    <3>4. \A r \in Target(t) \ (todo[t] \ {s}) : ReadOk(f[r], window'[t][r], since'[t], now')
      BY <1>0, <2>1, <3>2, <3>3
    <3>5. \A r \in todo[t] \ {s} : f[r] = Empty
      BY <1>0, <2>1, <3>2
    <3>6. VaultDone(t, seen[t], todo[t] \ {s}, f)
      BY <2>5, <3>1
    <3>. QED  BY <1>0, <3>4, <3>5, <3>6, VaultBatch
  <2>6. ASSUME NEW s \in VaultPending(t), VaultDone(t, [seen[t] EXCEPT ![s] = Empty], todo[t], found[t])
        PROVE  Reading(t)'
    BY <1>0, <2>1, <2>6, VaultBatch
  <2>. QED  BY <1>3, <2>3, <2>4, <2>5, <2>6 DEF VaultReadEntry
<1>. QED  BY <1>0, <1>1, <1>2, <1>3, ReadSteps

\* A batch taken in order has the slot it was at behind it.
LEMMA PastGrows ==
    ASSUME Core, Lawful, NEW t \in Tasks, OnS3, Doing(t, KeyValue), pc[t] \in {"batch", "expiring", "deleting"},
           NEW f, S3Advance(t, f)
    PROVE  /\ Past(t)' \subseteq Past(t) \cup {NextSlot(t)}
           /\ pc'[t] = "ok" => Target(t) \subseteq Past(t) \cup {NextSlot(t)}
           /\ pc'[t] \in {"ok", "batch"} /\ found'[t] = f
<1>1. /\ NextSlot(t) = <<call[t].coll, call[t].keys[NextPosition(t)]>>
      /\ rest'[t] = rest[t] \ {NextPosition(t)} /\ found'[t] = f
      /\ pc'[t] = (IF rest[t] = {NextPosition(t)} THEN "ok" ELSE "batch")
  BY AdvanceIs DEF NextSlot
<1>2. call' = call
  BY DEF Lawful
<1>3. \A s \in Target(t) : \E i \in DOMAIN call[t].keys : s = <<call[t].coll, call[t].keys[i]>>
  BY SlotsAssumption DEF Target
<1>. HIDE DEF NextPosition, NextSlot
<1>4. Past(t)' = {<<call[t].coll, call[t].keys[i]>> : i \in DOMAIN call[t].keys \ rest'[t]}
  BY <1>2 DEF Past
<1>5. Past(t)' \subseteq Past(t) \cup {NextSlot(t)}
  BY <1>1, <1>4 DEF Past
<1>6. pc'[t] = "ok" => Target(t) \subseteq Past(t) \cup {NextSlot(t)}
  BY <1>1, <1>3 DEF Past
<1>. QED  BY <1>1, <1>5, <1>6

LEMMA S3Advances ==
    ASSUME Core, Lawful, NEW t \in Tasks, Advance(t), OnS3, Doing(t, Reads), pc[t] \in {"batch", "expiring"},
           NEW f, S3Advance(t, f),
           \A s \in (Past(t) \cup {NextSlot(t)}) \cap Slots : ReadOk(f[s], window'[t][s], since'[t], now')
    PROVE  Reading(t)'
<1>1. /\ Past(t)' \subseteq Past(t) \cup {NextSlot(t)}
      /\ pc'[t] = "ok" => Target(t) \subseteq Past(t) \cup {NextSlot(t)}
      /\ pc'[t] \in {"ok", "batch"} /\ found'[t] = f
  BY PastGrows DEF KeyValue, Doing
<1>2. Target(t) \subseteq Slots /\ UNCHANGED <<backend, call>> /\ Target(t)' = Target(t)
  BY Runs DEF Target
<1>3. CASE pc'[t] = "ok"
  BY <1>1, <1>2, <1>3, ReadReturns
<1>4. CASE pc'[t] = "batch"
  <2>. PICK P : P = Past(t)'
    OBVIOUS
  <2>1. \A s \in P \cap Slots : ReadOk(found'[t][s], window'[t][s], since'[t], now')
    BY <1>1
  <2>. HIDE DEF Past
  <2>. QED  BY <1>2, <1>4, <2>1 DEF Reading, Answered, OnS3
<1>. QED  BY <1>1, <1>3, <1>4

LEMMA S3Reading ==
    ASSUME Core, Lawful, NEW t \in Tasks, Advance(t), Doing(t, Reads), Reading(t), OnS3
    PROVE  Reading(t)'
<1>0. TypeOK /\ OwnStep(t) /\ Running(t) /\ UNCHANGED <<backend, call>>
  BY Runs DEF Core, Advance
<1>1. CASE Fail(t)
  BY <1>0, <1>1, GoingIs, ReadReturns DEF Fail
<1>2. CASE S3OpenOne(t) \/ S3GetMany(t)
  <2>1. CASE Return(t, "invalid")
    BY <1>0, <2>1, GoingIs, ReadReturns
  <2>2. CASE Goto(t, IF call[t].keys = <<>> THEN "ok" ELSE "batch", Nothing, {}, Nothing)
             /\ rest' = [rest EXCEPT ![t] = DOMAIN call[t].keys]
    <3>1. pc'[t] = (IF call[t].keys = <<>> THEN "ok" ELSE "batch") /\ rest'[t] = DOMAIN call[t].keys
      <4>1. pc'[t] = IF call[t].keys = <<>> THEN "ok" ELSE "batch"
        BY <1>0, <2>2, GotoIs
      <4>. QED  BY <1>0, <2>2, <4>1 DEF TypeOK
    <3>2. CASE call[t].keys = <<>>
      <4>1. Target(t) = {}
        BY <3>2 DEF Target
      <4>. QED  BY <3>1, <3>2, <4>1, ReadReturns
    <3>3. CASE call[t].keys # <<>>
      <4>1. Past(t)' = {}
        BY <1>0, <3>1 DEF Past
      <4>. QED  BY <1>0, <3>1, <3>3, <4>1 DEF Reading, Answered, OnS3
    <3>. QED  BY <3>2, <3>3
  <2>. QED  BY <1>2, <2>1, <2>2 DEF S3OpenOne, S3GetMany, S3Open
<1>3. CASE S3Get(t)
  <2>0. pc[t] \in {"batch", "expiring"} /\ Doing(t, KeyValue) /\ NextSlot(t) \in Slots
    BY <1>0, <1>3, NextIs DEF S3Get, At, KeyValue, Doing
  <2>1. \A s \in Past(t) \cap Slots : ReadOk(found[t][s], window'[t][s], since'[t], now')
    <3>1. Answered(t, Past(t) \cap Slots) /\ Past(t) \cap Slots \in SUBSET Slots /\ pc[t] # "begin"
      BY <2>0 DEF Reading
    <3>. QED  BY <1>0, <3>1, AnsweredStays
  <2>2. ASSUME NEW e \in Doc, S3Advance(t, [found[t] EXCEPT ![NextSlot(t)] = e]),
               ReadOk(e, window'[t][NextSlot(t)], since'[t], now')
        PROVE  Reading(t)'
    <3>1. PICK f : f = [found[t] EXCEPT ![NextSlot(t)] = e]
      OBVIOUS
    <3>2. \A s \in Slots : f[s] = IF s = NextSlot(t) THEN e ELSE found[t][s]
      BY <1>0, <3>1, DbIs
    <3>3. \A s \in (Past(t) \cup {NextSlot(t)}) \cap Slots : ReadOk(f[s], window'[t][s], since'[t], now')
      <4>. HIDE DEF NextSlot, Past, ReadOk
      <4>. QED  BY <2>1, <2>2, <3>2
    <3>4. S3Advance(t, f)
      BY <2>2, <3>1
    <3>. QED  BY <2>0, <3>3, <3>4, S3Advances
  <2>. DEFINE s == NextSlot(t)
  <2>3. CASE Return(t, "error")
    BY <1>0, <2>3, GoingIs, ReadReturns
  <2>4. CASE Expired(db[s]) /\ Goto(t, "expiring", Nothing, {s}, found[t]) /\ Plain
    <3>1. pc'[t] = "expiring" /\ found'[t] = found[t] /\ rest' = rest
      BY <1>0, <2>4, GotoIs DEF Plain
    <3>2. Past(t)' = Past(t) /\ NextSlot(t)' = NextSlot(t)
      BY <1>0, <3>1 DEF Past, NextSlot, NextPosition
    <3>3. \E e \in window'[t][s] : Faded(e, now')
      <4>1. db[s] \in window'[t][s] /\ now \in Nat /\ now' \in Nat /\ now <= now' /\ db[s].expires \in Nat
        BY <1>0, <2>0, WindowGrows, DbIs DEF Lawful, Doc
      <4>2. ExpiredAt(db[s], now')
        BY <2>4, <4>1 DEF Expired, ExpiredAt
      <4>. QED  BY <4>1, <4>2 DEF Faded
    <3>4. PICK S, r : S = Past(t) /\ r = NextSlot(t)
      OBVIOUS
    <3>5. Past(t)' = S /\ NextSlot(t)' = r
      BY <3>2, <3>4
    <3>6. (\A q \in S \cap Slots : ReadOk(found'[t][q], window'[t][q], since'[t], now')) /\ \E e \in window'[t][r] : Faded(e, now')
      BY <2>1, <3>1, <3>3, <3>4
    <3>. HIDE DEF Past, NextSlot
    <3>. QED  BY <1>0, <3>1, <3>5, <3>6 DEF Reading, Answered, OnS3
  <2>5. CASE ~(Present(db[s]) /\ Expired(db[s])) /\ S3Advance(t, [found[t] EXCEPT ![s] = db[s]])
    <3>1. ReadOk(db[s], window'[t][s], since'[t], now') /\ db[s] \in Doc
      BY <1>0, <2>0, <2>5, ReadOkNow, DbIs DEF Live, Present
    <3>. QED  BY <2>2, <2>5, <3>1
  <2>6. CASE pc[t] = "expiring" /\ S3Advance(t, [found[t] EXCEPT ![s] = Empty])
    <3>1. \E e \in window'[t][s] : Faded(e, now')
      BY <1>0, <2>0, <2>6, FadedStays DEF Reading
    <3>2. ReadOk(Empty, window'[t][s], since'[t], now') /\ Empty \in Doc
      BY <1>0, <3>1, DbIs DEF ReadOk, Present
    <3>. QED  BY <2>2, <2>6, <3>2
  <2>. QED  BY <1>3, <2>3, <2>4, <2>5, <2>6 DEF S3Get, At
<1>. QED  BY <1>0, <1>1, <1>2, <1>3, ReadSteps DEF OnS3

\* ReadsCurrent (the answers of get, get_many, ttl and ttl_many) is what Reading says of a
\* call that has returned.
LEMMA ReadingAnswers ==
    ASSUME \A t \in Tasks : Reading(t)
    PROVE  ReadsCurrent
<1>. SUFFICES ASSUME NEW t \in Tasks, Answers(t, Reads), NEW s \in Target(t)
              PROVE  IF Present(found[t][s])
                       THEN found[t][s] \in window[t][s] /\ ~ExpiredAt(found[t][s], since[t])
                       ELSE \E d \in window[t][s] : ~Live(d)
  BY DEF ReadsCurrent
<1>1. ReadOk(found[t][s], window[t][s], since[t], now)
  BY DEF Reading, Answers, Done, At, Doing, Answered
<1>. QED  BY <1>1 DEF ReadOk, Faded, Live, Expired

LEMMA ReadingNext ==
    ASSUME Core, Next, NEW t \in Tasks, Reading(t)
    PROVE  Reading(t)'
<1>0. Lawful /\ (Idle \/ \E u \in Tasks : Advance(u)) /\ UNCHANGED call
  BY NextLawful, NextCases DEF Next
<1>1. CASE Still(t)
  BY <1>0, <1>1, ReadingStill
<1>2. CASE Advance(t) /\ Doing(t, Reads)
  <2>1. backend \in {"mongodb", "dynamodb", "opensearch", "firestore", "vault", "s3"} \/ Fail(t)
    BY <1>2 DEF Advance, OwnStep, BackendStep
  <2>2. CASE Fail(t)
    BY <1>2, <2>2, GoingIs, ReadReturns DEF Fail, Core
  <2>. QED  BY <1>0, <1>2, <2>1, <2>2, MongoReading, DynamoReading, OsFsReading, VaultReading, S3Reading DEF OnS3
<1>3. CASE ~Doing(t, Reads)
  BY <1>0, <1>3 DEF Reading, Doing
<1>. QED  BY <1>0, <1>1, <1>2, <1>3 DEF Idle, Advance

-----------------------------------------------------------------------------
(* What calls have counted as deleted *)

\* Where the server says what it deletes, a call counts it once it is gone.
Counts(t) ==
    \/ backend \in {"mongodb", "opensearch"} /\ Doing(t, Deletes) /\ pc[t] \in {"deleting", "ok"}
    \/ backend = "dynamodb" /\ Doing(t, {"delete"}) /\ pc[t] = "ok"

Gone(t) == \A s \in Slots : Present(found[t][s]) => Spent(found[t][s].writer) /\ db[s] # found[t][s]
CountedGone ==
    /\ \A t \in Tasks : Counts(t) => Gone(t)
    /\ \A t, u \in Tasks : t # u /\ Counts(t) /\ Counts(u) => DeletedOnce(t, u)

\* A document is counted as it is deleted, or was before.
Counting(t) ==
    Counts(t)' => \A s \in Slots : Present(found'[t][s]) =>
        \/ Counts(t) /\ found'[t][s] = found[t][s]
        \/ found'[t][s] = db[s] /\ db'[s] = Empty

\* The steps of deletions there.
LEMMA DeleteSteps ==
    ASSUME NEW t \in Tasks, OwnStep(t), Doing(t, Deletes), backend \in {"mongodb", "opensearch", "dynamodb"}
    PROVE  \/ Fail(t)
           \/ backend = "mongodb" /\ (MongoOpen(t) \/ MongoMakeIndexes(t) \/ MongoInspectIndexes(t) \/ MongoDeleteObserved(t)
                                      \/ MongoDelete(t) \/ MongoDeleteMany(t))
           \/ backend = "opensearch" /\ (OsRefuse(t) \/ OsDelete(t) \/ OsDeleteMany(t) \/ OsBulkDelete(t))
           \/ backend = "dynamodb" /\ (DynamoRefuse(t) \/ DynamoDelete(t) \/ DynamoDeleteMany(t) \/ DynamoDeleteObserved(t))
<1>1. CASE backend = "mongodb" /\ MongoNext(t)
  BY <1>1 DEF Doing, Deletes, MongoNext, MongoGet, MongoGetMany, MongoPut, MongoPutMany, MongoKeys, MongoCull,
              MongoCollections, MongoDestroyCollection, MongoDestroy, At
<1>2. CASE backend = "dynamodb" /\ DynamoNext(t)
  BY <1>2 DEF Doing, Deletes, DynamoNext, DynamoEnsureTable, DynamoEnsureTtl, DynamoPut, DynamoPutMany, DynamoGet,
              DynamoGetMany, DynamoReadEntries, DynamoReads, DynamoBatchReads, DynamoCull, DynamoKeys, DynamoCollections,
              DynamoScan, DynamoDestroyCollection, DynamoDestroy, DynamoOpen, At
<1>3. CASE backend = "opensearch" /\ OsNext(t)
  BY <1>3 DEF Doing, Deletes, OsNext, OsPut, OsPutMany, OsGet, OsGetMany, OsBulkIndex, OsWrites, OsCull, OsKeys,
              OsCollections, OsDestroyCollection, OsDestroy, OsOpen, At
<1>. QED  BY <1>1, <1>2, <1>3 DEF OwnStep, BackendStep

LEMMA CountingStep ==
    ASSUME Core, NEW t \in Tasks, Advance(t)
    PROVE  Counting(t)
<1>0. TypeOK /\ OwnStep(t) /\ UNCHANGED <<backend, call>> /\ Begun(t)
  BY Runs DEF Core, Advance, Shape
<1>. SUFFICES ASSUME Counts(t)' PROVE Counting(t)
  BY DEF Counting
<1>1. Doing(t, Deletes) /\ backend \in {"mongodb", "opensearch", "dynamodb"} /\ pc'[t] \in {"deleting", "ok"}
  BY <1>0 DEF Counts, Doing, Deletes
<1>2. ASSUME found'[t] = Nothing
      PROVE  Counting(t)
  BY <1>0, <1>2, DbIs DEF Counting, Present
<1>3. CASE Fail(t) \/ OsRefuse(t) \/ DynamoRefuse(t)
  BY <1>0, <1>1, <1>3, GoingIs DEF Fail, OsRefuse, DynamoRefuse
<1>4. CASE MongoOpen(t)
  <2>1. found[t] = Nothing
    BY <1>0, <1>4 DEF MongoOpen, At, Begun
  <2>2. \E stage, o, d : Goto(t, stage, o, d, found[t]) \/ Goto(t, stage, o, d, Nothing)
    BY <1>4 DEF MongoOpen, MongoCollection, Return
  <2>. QED  BY <1>0, <1>2, <2>1, <2>2, GotoIs
<1>5. CASE MongoMakeIndexes(t) \/ MongoInspectIndexes(t)
  BY <1>0, <1>1, <1>5, GoingIs DEF MongoMakeIndexes, MongoInspectIndexes
<1>6. CASE MongoDeleteObserved(t)
  BY <1>0, <1>1, <1>6 DEF MongoDeleteObserved, Core, Shape, Staged, Allowed, Doing, Reads, Deletes, OnS3
<1>7. CASE MongoDelete(t) \/ MongoDeleteMany(t) \/ DynamoDelete(t)
  <2>1. db' = Without(Target(t)) /\ found'[t] = Of(Target(t))
    BY <1>0, <1>7, GoingIs DEF MongoDelete, MongoDeleteMany, MongoDeletes, DynamoDelete
  <2>. QED  BY <1>0, <2>1, DbIs DEF Counting, Present
<1>8. CASE OsDelete(t) \/ OsDeleteMany(t)
  <2>1. found'[t] = Nothing
    BY <1>0, <1>8, GotoIs DEF OsDelete, OsDeleteMany, OsBulk
  <2>. QED  BY <1>2, <2>1
<1>9. CASE OsBulkDelete(t) /\ backend = "opensearch"
  <2>1. pc[t] = "deleting"
    BY <1>1, <1>9 DEF OsBulkDelete, Core, Shape, Staged, Allowed, Doing, Reads, Deletes, OnS3
  <2>2. PICK s \in todo[t] : db' = Without({s}) /\ found'[t] = [found[t] EXCEPT ![s] = db[s]]
    <3>1. PICK s \in todo[t] : db' = Without({s}) /\ \E stage, o, d : Goto(t, stage, o, d, [found[t] EXCEPT ![s] = db[s]])
      BY <1>9, <2>1 DEF OsBulkDelete, Answer
    <3>2. found'[t] = [found[t] EXCEPT ![s] = db[s]]
      BY <1>0, <3>1, GotoIs
    <3>. QED  BY <3>1, <3>2
  <2>3. \A r \in Slots : found'[t][r] = IF r = s THEN db[s] ELSE found[t][r]
    BY <1>0, <2>2, DbIs
  <2>4. db'[s] = Empty /\ Counts(t)
    BY <1>0, <1>1, <1>9, <2>1, <2>2, DbIs DEF Counts
  <2>. QED  BY <2>3, <2>4 DEF Counting
<1>10. CASE (DynamoDeleteMany(t) \/ DynamoDeleteObserved(t)) /\ backend = "dynamodb"
  BY <1>0, <1>10 DEF Counts, DynamoDeleteMany, DynamoDeleteObserved, DynamoOpen, At, Core, Shape, Staged, Allowed, Doing, Reads,
                     Deletes, OnS3
<1>. QED  BY <1>0, <1>1, <1>3, <1>4, <1>5, <1>6, <1>7, <1>8, <1>9, <1>10, DeleteSteps

LEMMA CountedNext ==
    ASSUME Core, Next, CountedGone
    PROVE  CountedGone'
<1>0. (Idle \/ \E t \in Tasks : Advance(t)) /\ UNCHANGED <<backend, call>> /\ TypeOK
  BY NextCases DEF Next, Core
<1>1. \A t \in Tasks : Still(t) \/ Counting(t)
  BY <1>0, CountingStep DEF Idle, Advance
<1>2. ASSUME NEW t \in Tasks, Still(t)
      PROVE  (Counts(t)' <=> Counts(t)) /\ found'[t] = found[t]
  BY <1>0, <1>2 DEF Still, Counts, Doing
<1>3. ASSUME NEW t \in Tasks, Counts(t)', NEW s \in Slots, Present(found'[t][s])
      PROVE  \/ Counts(t) /\ found'[t][s] = found[t][s]
             \/ ~Still(t) /\ found'[t][s] = db[s] /\ db'[s] = Empty
  BY <1>1, <1>2, <1>3 DEF Counting
<1>4. ASSUME NEW t \in Tasks, Counts(t)'
      PROVE  Gone(t)'
  <2>. SUFFICES ASSUME NEW s \in Slots, NEW d, d = found'[t][s], Present(d)
                PROVE  Spent(d.writer)' /\ db'[s] # d
    BY DEF Gone, Present
  <2>1. CASE Counts(t) /\ d = found[t][s]
    BY <1>0, <2>1, OldStays DEF CountedGone, Gone
  <2>2. CASE d = db[s] /\ db'[s] = Empty
    <3>1. Spent(d.writer)
      BY <2>2 DEF Core, DocsSpent
    <3>. QED  BY <1>0, <2>2, <3>1, SpentStays DEF Present
  <2>. QED  BY <1>3, <1>4, <2>1, <2>2
<1>5. ASSUME NEW t \in Tasks, NEW u \in Tasks, t # u, Counts(t)', Counts(u)'
      PROVE  DeletedOnce(t, u)'
  <2>1. Still(t) \/ Still(u)
    BY <1>0, <1>5 DEF Idle, Advance
  <2>. SUFFICES ASSUME NEW s \in Slots, Present(found'[t][s]), found'[t][s] = found'[u][s] PROVE FALSE
    BY DEF DeletedOnce, Present
  <2>2. \/ Counts(t) /\ found'[t][s] = found[t][s]
        \/ ~Still(t) /\ found'[t][s] = db[s]
    BY <1>3, <1>5
  <2>3. \/ Counts(u) /\ found'[u][s] = found[u][s]
        \/ ~Still(u) /\ found'[u][s] = db[s]
    BY <1>3, <1>5
  <2>. QED  BY <1>5, <2>1, <2>2, <2>3 DEF CountedGone, Gone, DeletedOnce
<1>. QED  BY <1>4, <1>5 DEF CountedGone

LEMMA CountedOnce ==
    ASSUME CountedGone
    PROVE  ServerCountsDeletes
<1>. QED  BY DEF CountedGone, ServerCountsDeletes, Counts, Done, At, Doing

-----------------------------------------------------------------------------
(* The keys of a collection *)

Shown(t) == {s \in Slots : Present(found[t][s])}

\* What is to be deleted as expired is; what a scan of DynamoDB met so was there.
Scanning(t) == Doing(t, {"cull", "keys", "collections"})
Meeting(t) ==
    pc[t] = "expiring" /\ backend \in {"mongodb", "dynamodb"} =>
        \A s \in todo[t] : Present(seen[t][s]) =>
            /\ ExpiredAt(seen[t][s], now)
            /\ backend = "dynamodb" /\ Scanning(t) => seen[t][s] \in window[t][s]

\* keys has its answer when it returns; before that MongoDB has the documents of a query, and
\* DynamoDB the answer for what it has scanned.
Listing(t) ==
    Doing(t, {"keys"}) /\ ~OnS3 =>
        /\ pc[t] = "sifting" =>
            /\ todo[t] \subseteq In(call[t].coll) /\ \A s \in todo[t] : Present(seen[t][s])
            /\ \A s \in In(call[t].coll) :
                    ReadOk(IF s \in todo[t] THEN seen[t][s] ELSE Empty, window[t][s], since[t], now)
        /\ \/ pc[t] = "ok" /\ window[t] # Unwatched
           \/ pc[t] = "expiring" /\ backend = "mongodb"
           => /\ Answered(t, Shown(t))
              /\ Cardinality(Shown(t)) < call[t].limit => Answered(t, In(call[t].coll))
        /\ pc[t] \in {"scanning", "expiring"} /\ backend = "dynamodb" =>
            Answered(t, Shown(t)) /\ Answered(t, In(call[t].coll) \ todo[t])

LEMMA KeysSteps ==
    ASSUME NEW t \in Tasks, OwnStep(t), Doing(t, {"keys"}), Supported(t), Staged(t)
    PROVE  \/ Fail(t)
           \/ backend = "mongodb" /\ (MongoOpen(t) \/ MongoMakeIndexes(t) \/ MongoInspectIndexes(t) \/ MongoDeleteObserved(t)
                                      \/ MongoKeys(t))
           \/ backend = "opensearch" /\ OsKeys(t)
           \/ backend = "dynamodb" /\ (DynamoRefuse(t) \/ DynamoKeys(t) \/ DynamoDeleteObserved(t))
           \/ OnS3
<1>1. CASE backend = "mongodb" /\ MongoNext(t)
  BY <1>1 DEF Doing, MongoNext, MongoGet, MongoGetMany, MongoPut, MongoPutMany, MongoDelete, MongoDeleteMany, MongoCull,
              MongoCollections, MongoDestroyCollection, MongoDestroy, At
<1>2. CASE backend = "dynamodb" /\ DynamoNext(t)
  BY <1>2 DEF Doing, DynamoNext, DynamoEnsureTable, DynamoEnsureTtl, DynamoPut, DynamoPutMany, DynamoGet, DynamoGetMany,
              DynamoReadEntries, DynamoReads, DynamoBatchReads, DynamoDelete, DynamoDeleteMany, DynamoCull,
              DynamoCollections, DynamoScan, DynamoDestroyCollection, DynamoDestroy, DynamoOpen, At
<1>3. CASE backend = "opensearch" /\ OsNext(t)
  <2>1. ~OsBulkDelete(t)
    BY <1>3 DEF OsBulkDelete, Staged, Allowed, Doing, Reads, Deletes, OnS3
  <2>2. OsBulkDelete(t) \/ OsKeys(t)
    BY <1>3 DEF Doing, OsNext, OsRefuse, OsKeyed, OsReads, OsPut, OsPutMany, OsGet, OsGetMany, OsDelete, OsDeleteMany,
                OsBulkIndex, OsWrites, OsCull, OsCollections, OsDestroyCollection, OsDestroy, OsOpen, At
  <2>. QED  BY <1>3, <2>1, <2>2
<1>4. backend \notin {"firestore", "vault"}
  BY DEF Supported, Supports, KeyValue, Doing, Reads, Writes, Deletes
<1>. QED  BY <1>1, <1>2, <1>3, <1>4 DEF OwnStep, BackendStep, OnS3

\* A call that has listed what it will.
LEMMA KeysReturn ==
    ASSUME Core, NEW t \in Tasks, Advance(t), pc'[t] \in {"ok", "error", "invalid", "expiring"},
           pc'[t] = "expiring" => backend = "mongodb",
           pc'[t] \in {"ok", "expiring"} =>
                \E S \in SUBSET Slots :
                    /\ S = {s \in Slots : Present(found'[t][s])}
                    /\ \A s \in S : ReadOk(found'[t][s], window'[t][s], since'[t], now')
                    /\ Cardinality(S) < call[t].limit =>
                        \A s \in In(call[t].coll) : ReadOk(found'[t][s], window'[t][s], since'[t], now')
    PROVE  Listing(t)'
<1>1. UNCHANGED <<backend, call>>
  BY Runs
<1>. SUFFICES ASSUME pc'[t] \in {"ok", "expiring"}
              PROVE  Listing(t)'
  BY <1>1 DEF Listing
<1>2. PICK S \in SUBSET Slots :
        /\ S = {s \in Slots : Present(found'[t][s])}
        /\ \A s \in S : ReadOk(found'[t][s], window'[t][s], since'[t], now')
        /\ Cardinality(S) < call[t].limit =>
            \A s \in In(call[t].coll) : ReadOk(found'[t][s], window'[t][s], since'[t], now')
  OBVIOUS
<1>3. Shown(t)' = S
  BY <1>2 DEF Shown, Present
<1>4. Answered(t, Shown(t))' /\ (Cardinality(Shown(t))' < call[t].limit => Answered(t, In(call[t].coll))')
  BY <1>1, <1>2, <1>3 DEF Answered, In
<1>. QED  BY <1>1, <1>4 DEF Listing

LEMMA ListingStill ==
    ASSUME Lawful, Core, NEW t \in Tasks, Still(t), Listing(t)
    PROVE  Listing(t)'
<1>1. CASE pc[t] \in Ended
  <2>1. window'[t] = Unwatched /\ pc'[t] = pc[t]
    BY <1>1, WatchFacts DEF Lawful, Still
  <2>. QED  BY <1>1, <2>1 DEF Listing, Ended
<1>2. CASE pc[t] = "begin"
  BY <1>2 DEF Listing, Still
<1>3. CASE pc[t] \notin Ended /\ pc[t] # "begin"
  <2>1. /\ Running(t) /\ pc'[t] = pc[t] /\ found'[t] = found[t] /\ seen'[t] = seen[t] /\ todo'[t] = todo[t]
        /\ UNCHANGED <<backend, call>> /\ pc[t] # "ok"
    BY <1>3 DEF Running, Still, Lawful, Ended
  <2>2. PICK S \in SUBSET Slots, C \in SUBSET Slots : S = Shown(t) /\ C = In(call[t].coll)
    BY DEF Shown, In
  <2>3. Shown(t)' = S /\ In(call[t].coll)' = C
    BY <2>1, <2>2 DEF Shown, In
  <2>4. \A T \in SUBSET Slots : Answered(t, T) => \A s \in T : ReadOk(found'[t][s], window'[t][s], since'[t], now')
    BY <1>3, <2>1, AnsweredStays
  <2>5. \A T \in SUBSET Slots : Answered(t, T) => Answered(t, T)'
    BY <2>4 DEF Answered
  <2>6. \A s \in Slots : ReadOk(IF s \in todo[t] THEN seen[t][s] ELSE Empty, window[t][s], since[t], now)
            => ReadOk(IF s \in todo[t] THEN seen[t][s] ELSE Empty, window'[t][s], since'[t], now')
    BY <1>3, <2>1, ReadOkStays
  <2>. SUFFICES ASSUME Doing(t, {"keys"}), ~OnS3
                PROVE  Listing(t)'
    BY <2>1 DEF Listing, Doing, OnS3
  <2>7. CASE pc[t] = "sifting"
    BY <2>1, <2>2, <2>3, <2>6, <2>7 DEF Listing
  <2>8. CASE pc[t] = "expiring" /\ backend = "mongodb"
    BY <2>1, <2>2, <2>3, <2>5, <2>8 DEF Listing
  <2>9. CASE pc[t] \in {"scanning", "expiring"} /\ backend = "dynamodb"
    <3>. PICK D \in SUBSET Slots : D = C \ todo[t]
      OBVIOUS
    <3>1. Answered(t, S) /\ Answered(t, D)
      BY <2>2, <2>9 DEF Listing
    <3>2. Answered(t, S)' /\ Answered(t, D)'
      BY <2>5, <3>1
    <3>3. Answered(t, Shown(t))' /\ Answered(t, In(call[t].coll) \ todo[t])'
      BY <2>1, <2>3, <3>2 DEF Answered
    <3>. QED  BY <2>1, <2>9, <3>3 DEF Listing
  <2>. QED  BY <2>1, <2>7, <2>8, <2>9 DEF Listing
<1>. QED  BY <1>1, <1>2, <1>3

\* What has expired stays so.
LEMMA ExpiredStays ==
    ASSUME Lawful, NEW t \in Tasks, NEW s \in Slots, ExpiredAt(seen[t][s], now)
    PROVE  ExpiredAt(seen[t][s], now')
<1>1. seen[t][s].expires \in Nat /\ now \in Nat /\ now' \in Nat /\ now <= now'
  BY BoundsAssumption DEF Lawful, TypeOK, Doc
<1>2. \A n \in Nat : n <= now => n <= now'
  BY <1>1
<1>. QED  BY <1>1, <1>2 DEF ExpiredAt

\* The steps of cull, collections, destroy_collection and destroy.
LEMMA WideSteps ==
    ASSUME NEW t \in Tasks, OwnStep(t), Supported(t), Staged(t),
           Doing(t, {"cull", "collections", "destroy_collection", "destroy"})
    PROVE  \/ Fail(t)
           \/ backend = "mongodb" /\ Doing(t, {"cull"})
                /\ (MongoMakeIndexes(t) \/ MongoInspectIndexes(t) \/ MongoDeleteObserved(t))
           \/ backend = "mongodb" /\ (MongoCull(t) \/ MongoCollections(t) \/ MongoDestroyCollection(t) \/ MongoDestroy(t))
           \/ backend = "dynamodb" /\ (DynamoRefuse(t) \/ DynamoCull(t) \/ DynamoCollections(t)
                                       \/ DynamoDestroyCollection(t) \/ DynamoDestroy(t))
           \/ backend = "dynamodb" /\ Doing(t, {"cull", "collections"}) /\ DynamoDeleteObserved(t)
           \/ backend = "opensearch" /\ (OsCull(t) \/ OsCollections(t) \/ OsDestroyCollection(t) \/ OsDestroy(t))
           \/ backend = "s3" /\ (S3Cull(t) \/ S3Collections(t) \/ S3DeleteObjects(t) \/ S3DestroyCollection(t) \/ S3Destroy(t))
<1>1. CASE backend = "mongodb" /\ MongoNext(t)
  <2>1. MongoMakeIndexes(t) \/ MongoInspectIndexes(t) \/ MongoDeleteObserved(t) => Doing(t, {"cull"})
    BY <1>1 DEF MongoMakeIndexes, MongoInspectIndexes, MongoDeleteObserved, Staged, Allowed, Doing, MongoKeyed, MongoReads,
                MongoWrites, Reads
  <2>. QED  BY <1>1, <2>1 DEF Doing, MongoNext, MongoOpen, MongoKeyed, MongoReads, MongoWrites, MongoGet, MongoGetMany, MongoPut,
              MongoPutMany, MongoDelete, MongoDeleteMany, MongoKeys, At
<1>2. CASE backend = "dynamodb" /\ DynamoNext(t)
  <2>1. DynamoDeleteObserved(t) => Doing(t, {"cull", "collections"})
    BY <1>2 DEF DynamoDeleteObserved, Staged, Allowed, Doing, Reads
  <2>. QED  BY <1>2, <2>1 DEF Doing, DynamoNext, DynamoEnsureTable, DynamoEnsureTtl, DynamoPut, DynamoPutMany, DynamoGet,
              DynamoGetMany, DynamoReadEntries, DynamoReads, DynamoBatchReads, DynamoDelete, DynamoDeleteMany,
              DynamoKeys, DynamoScan, DynamoOpen, At
<1>3. CASE backend = "opensearch" /\ OsNext(t)
  <2>1. ~OsBulkDelete(t)
    BY <1>3 DEF OsBulkDelete, Staged, Allowed, Doing, Reads, Deletes, OnS3
  <2>. QED  BY <1>3, <2>1 DEF Doing, OsNext, OsRefuse, OsKeyed, OsReads, OsPut, OsPutMany, OsGet, OsGetMany, OsDelete,
                OsDeleteMany, OsBulkIndex, OsWrites, OsKeys, OsOpen, At
<1>4. CASE backend = "s3" /\ S3Next(t)
  BY <1>4 DEF Doing, S3Next, S3EnsureBucket, S3OpenOne, S3GetMany, S3PutMany, S3DeleteMany, S3Open, S3Get, S3Put, S3Delete,
              S3Reads, S3Writes, S3Deletes, S3Keys, At
<1>5. backend \notin {"firestore", "vault"}
  BY DEF Supported, Supports, KeyValue, Doing, Reads, Writes, Deletes
<1>. QED  BY <1>1, <1>2, <1>3, <1>4, <1>5 DEF OwnStep, BackendStep

LEMMA MeetingStill ==
    ASSUME Lawful, Core, NEW t \in Tasks, Still(t), Meeting(t)
    PROVE  Meeting(t)'
<1>. SUFFICES ASSUME pc[t] = "expiring", backend \in {"mongodb", "dynamodb"}, NEW s \in todo[t], Present(seen[t][s])
              PROVE  /\ ExpiredAt(seen[t][s], now')
                     /\ backend = "dynamodb" /\ Scanning(t) => seen[t][s] \in window'[t][s]
  BY DEF Still, Meeting, Lawful, Scanning, Doing, Present
<1>1. Running(t) /\ s \in Slots
  BY DbIs DEF Running, Still, Ended, Core
<1>2. window[t][s] \subseteq window'[t][s]
  BY <1>1, WindowGrows
<1>3. ExpiredAt(seen[t][s], now) => ExpiredAt(seen[t][s], now')
  BY <1>1, ExpiredStays
<1>. QED  BY <1>2, <1>3 DEF Meeting

\* A fetch finds expired what it will delete.
LEMMA FetchMeets ==
    ASSUME Core, NEW t \in Tasks, found[t] = Nothing, NEW decoded \in BOOLEAN, Fetch(t, decoded), pc'[t] = "expiring",
           NEW s \in todo'[t]
    PROVE  ExpiredAt(seen'[t][s], now)
<1>1. todo'[t] = ExpiredOf(Target(t)) /\ seen'[t] = Of(Target(t))
  BY FetchIs DEF Core
<1>2. s \in Target(t) /\ s \in Slots /\ ExpiredAt(db[s], now)
  BY <1>1, DbIs DEF Core, ExpiredOf, Expired
<1>3. seen'[t][s] = db[s]
  BY <1>1, <1>2, DbIs DEF Core
<1>. QED  BY <1>2, <1>3

LEMMA MongoMeets ==
    ASSUME Core, NEW t \in Tasks, Advance(t), backend = "mongodb", pc'[t] = "expiring",
           NEW s \in todo'[t], Present(seen'[t][s])
    PROVE  ExpiredAt(seen'[t][s], now)
<1>0. TypeOK /\ OwnStep(t) /\ UNCHANGED <<backend, call>> /\ Begun(t) /\ Supported(t) /\ Staged(t) /\ Staged(t)' /\ ~OnS3
  BY Runs DEF Core, Advance, Shape, Legal, OnS3
<1>1. ~Fail(t) /\ ~MongoMakeIndexes(t) /\ ~MongoInspectIndexes(t)
  BY <1>0, GoingIs DEF Fail, MongoMakeIndexes, MongoInspectIndexes
<1>2. ~MongoDeleteObserved(t)
  BY <1>0, GoingIs DEF MongoDeleteObserved
<1>3. ~MongoOpen(t)
  <2>1. ASSUME MongoOpen(t)
        PROVE  \E stage \in {"invalid", "ok", "ready", "making"} : \E o, d, f : Goto(t, stage, o, d, f)
    BY <2>1 DEF MongoOpen, MongoCollection, Return
  <2>. QED  BY <1>0, <2>1, GotoIs
<1>4. CASE MongoGet(t) \/ MongoGetMany(t)
  <2>1. Fetch(t, \A r \in Target(t) : MongoDecodes(db[r])) /\ pc[t] = "ready" /\ ~Doing(t, {"cull"})
    BY <1>4 DEF MongoGet, MongoGetMany, At, Doing
  <2>2. found[t] = Nothing
    BY <1>0, <2>1 DEF Begun, Unsent
  <2>. QED  BY <2>1, <2>2, FetchMeets
<1>5. CASE MongoKeys(t)
  <2>1. \/ \E o, d, f : Goto(t, "sifting", o, d, f)
        \/ Return(t, "error")
        \/ \E L \in SUBSET {r \in todo[t] : Expired(seen[t][r])} : \E f :
                \E stage \in {"ok", "expiring"} : Goto(t, stage, seen[t], L, f)
    BY <1>5 DEF MongoKeys
  <2>2. PICK L \in SUBSET {r \in todo[t] : Expired(seen[t][r])} : \E f :
                \E stage \in {"ok", "expiring"} : Goto(t, stage, seen[t], L, f)
    BY <1>0, <2>1, GotoIs DEF Return
  <2>3. todo'[t] = L /\ seen'[t] = seen[t]
    BY <1>0, <2>2, GotoIs
  <2>. QED  BY <2>3 DEF Expired
<1>6. CASE MongoCull(t)
  <2>1. \/ \E stage \in {"culling", "error", "ok", "handle", "ready", "making"} : \E o, d, f : Goto(t, stage, o, d, f)
        \/ LET old == {r \in In(MongoCurrent(t)) : Present(db[r]) /\ ExpiredAt(db[r], since[t])} IN
           Goto(t, "expiring", Of(old), old, found[t])
    BY <1>6 DEF MongoCull, GoOn, Return, MongoCollection
  <2>2. PICK old \in SUBSET Slots : /\ Goto(t, "expiring", Of(old), old, found[t])
                                    /\ \A r \in old : ExpiredAt(db[r], since[t])
    <3>. DEFINE old == {r \in In(MongoCurrent(t)) : Present(db[r]) /\ ExpiredAt(db[r], since[t])}
    <3>1. old \in SUBSET Slots /\ \A r \in old : ExpiredAt(db[r], since[t])
      BY DEF In
    <3>2. Goto(t, "expiring", Of(old), old, found[t])
      BY <1>0, <2>1, GotoIs
    <3>. HIDE DEF old
    <3>. QED  BY <3>1, <3>2
  <2>3. seen'[t] = Of(old) /\ todo'[t] = old
    BY <1>0, <2>2, GotoIs
  <2>4. seen'[t][s] = db[s] /\ s \in Slots /\ ExpiredAt(db[s], since[t])
    BY <1>0, <2>2, <2>3, DbIs
  <2>5. db[s].expires \in Nat /\ since[t] \in Nat /\ now \in Nat /\ since[t] <= now
    BY <2>4, BoundsAssumption DEF Core, TypeOK, Doc
  <2>6. \A n \in Nat : n <= since[t] => n <= now
    BY <2>5
  <2>. QED  BY <2>4, <2>5, <2>6 DEF ExpiredAt
<1>7. Doing(t, Reads \cup {"cull", "keys"})
  BY <1>0 DEF Staged, Allowed, Doing
<1>8. \/ MongoGet(t) \/ MongoGetMany(t) \/ MongoKeys(t) \/ MongoCull(t)
  <2>1. CASE Doing(t, Reads)
    BY <1>0, <1>1, <1>2, <1>3, <2>1, ReadSteps
  <2>2. CASE Doing(t, {"keys"})
    BY <1>0, <1>1, <1>2, <1>3, <2>2, KeysSteps
  <2>3. CASE Doing(t, {"cull"})
    <3>1. Doing(t, {"cull", "collections", "destroy_collection", "destroy"}) /\ ~Doing(t, {"collections", "destroy_collection", "destroy"})
      BY <2>3 DEF Doing
    <3>2. ~MongoCollections(t) /\ ~MongoDestroyCollection(t) /\ ~MongoDestroy(t)
      BY <3>1 DEF MongoCollections, MongoDestroyCollection, MongoDestroy, At, Doing
    <3>. QED  BY <1>0, <1>1, <1>2, <3>1, <3>2, WideSteps
  <2>. QED  BY <1>7, <2>1, <2>2, <2>3 DEF Doing
<1>. QED  BY <1>4, <1>5, <1>6, <1>8

\* The steps of a scan of DynamoDB, one by one.
Scans(t) == DynamoCull(t) \/ DynamoKeys(t) \/ DynamoCollections(t)
LEMMA ScanIs ==
    ASSUME TypeOK, NEW t \in Tasks, Scans(t)
    PROVE  /\ db' = db /\ Scanning(t) /\ pc[t] \in {"begin", "scanning"}
           /\ \/ /\ pc[t] = "begin" /\ names'[t] = names[t]
                 /\ pc'[t] \in {"ok", "scanning"} /\ seen'[t] = Nothing /\ todo'[t] = DynamoScope(t) /\ found'[t] = Nothing
                 /\ pc'[t] = "ok" => DynamoFull(t)
              \/ /\ pc'[t] = "error" /\ names'[t] = names[t]
              \/ /\ pc[t] = "scanning" /\ names'[t] = names[t] /\ pc'[t] = "expiring" /\ todo'[t] = todo[t] /\ found'[t] = found[t]
                 /\ \E s \in todo[t] : Present(db[s]) /\ Expired(db[s]) /\ seen'[t] = Of({s})
              \/ /\ pc[t] = "scanning" /\ pc'[t] = "scanning" /\ seen'[t] = Nothing
                 /\ \E s \in todo[t] :
                        /\ Present(db[s]) => ~Expired(db[s])
                        /\ todo'[t] = todo[t] \ {s}
                        /\ \A r \in Slots : found'[t][r] = IF r = s /\ Doing(t, {"keys"}) THEN db[s] ELSE found[t][r]
                        /\ names'[t] = names[t] \cup (IF Doing(t, {"collections"}) /\ Present(db[s]) THEN {s[1]} ELSE {})
              \/ /\ pc[t] = "scanning" /\ pc'[t] = "ok" /\ names'[t] = names[t] /\ found'[t] = found[t]
                 /\ DynamoFull(t) \/ todo[t] = {}
<1>1. PICK op \in {"cull", "keys", "collections"} : DynamoScan(t, op)
  BY DEF Scans, DynamoCull, DynamoKeys, DynamoCollections
<1>2. db' = db /\ Scanning(t) /\ pc[t] \in {"begin", "scanning"}
  BY <1>1 DEF DynamoScan, serverVars, DynamoOpen, At, Scanning, Doing
<1>3. \/ /\ pc[t] = "begin"
         /\ Goto(t, IF DynamoFull(t) THEN "ok" ELSE "scanning", Nothing, DynamoScope(t), Nothing)
         /\ Plain
      \/ /\ pc[t] = "scanning" /\ UNCHANGED names /\ Return(t, "error")
      \/ /\ pc[t] = "scanning" /\ UNCHANGED names
         /\ \E s \in todo[t] : Present(db[s]) /\ Expired(db[s]) /\ Goto(t, "expiring", Of({s}), todo[t], found[t])
      \/ /\ pc[t] = "scanning"
         /\ \E s \in todo[t] :
            /\ ~(Present(db[s]) /\ Expired(db[s]))
            /\ Goto(t, "scanning", Nothing, todo[t] \ {s}, IF Doing(t, {"keys"}) THEN [found[t] EXCEPT ![s] = db[s]] ELSE found[t])
            /\ names' = IF Doing(t, {"collections"}) /\ Present(db[s]) THEN [names EXCEPT ![t] = @ \cup {s[1]}] ELSE names
      \/ /\ pc[t] = "scanning" /\ Plain
         /\ DynamoFull(t) \/ todo[t] = {}
         /\ Answer(t, found[t])
  BY <1>1 DEF DynamoScan, DynamoOpen, At
<1>4. CASE /\ pc[t] = "begin" /\ Plain
           /\ Goto(t, IF DynamoFull(t) THEN "ok" ELSE "scanning", Nothing, DynamoScope(t), Nothing)
  BY <1>2, <1>4, GotoIs DEF Plain
<1>5. CASE pc[t] = "scanning" /\ UNCHANGED names /\ Return(t, "error")
  BY <1>2, <1>5, GoingIs
<1>6. ASSUME pc[t] = "scanning", UNCHANGED names,
             NEW s \in todo[t], Present(db[s]), Expired(db[s]), Goto(t, "expiring", Of({s}), todo[t], found[t])
      PROVE  names'[t] = names[t] /\ pc'[t] = "expiring" /\ todo'[t] = todo[t] /\ found'[t] = found[t] /\ seen'[t] = Of({s})
  <2>1. pc'[t] = "expiring" /\ todo'[t] = todo[t] /\ found'[t] = found[t] /\ seen'[t] = Of({s})
    BY <1>6, GotoIs
  <2>. QED  BY <1>6, <2>1
<1>7. ASSUME pc[t] = "scanning", NEW s \in todo[t], ~(Present(db[s]) /\ Expired(db[s])),
             Goto(t, "scanning", Nothing, todo[t] \ {s}, IF Doing(t, {"keys"}) THEN [found[t] EXCEPT ![s] = db[s]] ELSE found[t]),
             names' = IF Doing(t, {"collections"}) /\ Present(db[s]) THEN [names EXCEPT ![t] = @ \cup {s[1]}] ELSE names
      PROVE  /\ pc'[t] = "scanning" /\ seen'[t] = Nothing /\ todo'[t] = todo[t] \ {s}
             /\ \A r \in Slots : found'[t][r] = IF r = s /\ Doing(t, {"keys"}) THEN db[s] ELSE found[t][r]
             /\ names'[t] = names[t] \cup (IF Doing(t, {"collections"}) /\ Present(db[s]) THEN {s[1]} ELSE {})
  <2>1. /\ pc'[t] = "scanning" /\ seen'[t] = Nothing /\ todo'[t] = todo[t] \ {s}
        /\ found'[t] = IF Doing(t, {"keys"}) THEN [found[t] EXCEPT ![s] = db[s]] ELSE found[t]
    BY <1>7, GotoIs
  <2>2. \A r \in Slots : found'[t][r] = IF r = s /\ Doing(t, {"keys"}) THEN db[s] ELSE found[t][r]
    <3>1. found[t] \in [Slots -> Doc]
      BY DbIs
    <3>. QED  BY <2>1, <3>1
  <2>3. names'[t] = names[t] \cup (IF Doing(t, {"collections"}) /\ Present(db[s]) THEN {s[1]} ELSE {})
    BY <1>7 DEF TypeOK
  <2>. QED  BY <2>1, <2>2, <2>3
<1>8. CASE pc[t] = "scanning" /\ Plain /\ (DynamoFull(t) \/ todo[t] = {}) /\ Answer(t, found[t])
  BY <1>2, <1>8, GoingIs DEF Plain
<1>. QED  BY <1>2, <1>3, <1>4, <1>5, <1>6, <1>7, <1>8

\* and of what follows on an expired document: its deletion, as it was seen.
LEMMA ObservedIs ==
    ASSUME TypeOK, NEW t \in Tasks, DynamoDeleteObserved(t)
    PROVE  /\ pc[t] = "expiring" /\ found'[t] = found[t] /\ names'[t] = names[t]
           /\ \E s \in todo[t] :
                /\ s \in Slots /\ Present(seen[t][s]) /\ todo'[t] \subseteq todo[t] \ {s}
                /\ \A r \in Slots : db'[r] = IF r = s /\ db[r] = seen[t][r] THEN Empty ELSE db[r]
                /\ \/ Scanning(t) /\ pc'[t] = "scanning" /\ todo'[t] = todo[t] \ {s} /\ seen'[t] = Nothing
                   \/ ~Scanning(t) /\ pc'[t] = "ok"
                   \/ ~Scanning(t) /\ pc'[t] = "expiring" /\ seen'[t] = seen[t]
<1>1. PICK s \in todo[t] :
         /\ Present(seen[t][s]) /\ db' = Without(Unchanged(t, {s}))
         /\ \/ Scanning(t) /\ Goto(t, "scanning", Nothing, todo[t] \ {s}, found[t])
            \/ ~Scanning(t) /\ todo[t] = {s} /\ Answer(t, found[t])
            \/ ~Scanning(t) /\ Goto(t, "expiring", seen[t], todo[t] \ {s}, found[t])
  BY DEF DynamoDeleteObserved, Scanning
<1>2. s \in Slots /\ pc[t] = "expiring" /\ names'[t] = names[t]
  BY DbIs DEF DynamoDeleteObserved, Plain
<1>3. \A r \in Slots : db'[r] = IF r = s /\ db[r] = seen[t][r] THEN Empty ELSE db[r]
  BY <1>1, <1>2, DbIs DEF Unchanged
<1>4. /\ found'[t] = found[t] /\ todo'[t] \subseteq todo[t] \ {s}
      /\ \/ Scanning(t) /\ pc'[t] = "scanning" /\ todo'[t] = todo[t] \ {s} /\ seen'[t] = Nothing
         \/ ~Scanning(t) /\ pc'[t] = "ok"
         \/ ~Scanning(t) /\ pc'[t] = "expiring" /\ seen'[t] = seen[t]
  <2>1. CASE Scanning(t) /\ Goto(t, "scanning", Nothing, todo[t] \ {s}, found[t])
    BY <2>1, GotoIs
  <2>2. CASE ~Scanning(t) /\ todo[t] = {s} /\ Answer(t, found[t])
    BY <2>2, GoingIs
  <2>3. CASE ~Scanning(t) /\ Goto(t, "expiring", seen[t], todo[t] \ {s}, found[t])
    BY <2>3, GotoIs
  <2>. QED  BY <1>1, <2>1, <2>2, <2>3
<1>. QED  BY <1>1, <1>2, <1>3, <1>4

LEMMA DynamoMeets ==
    ASSUME Core, Lawful, NEW t \in Tasks, Advance(t), backend = "dynamodb", Meeting(t), pc'[t] = "expiring",
           NEW s \in todo'[t], Present(seen'[t][s])
    PROVE  ExpiredAt(seen'[t][s], now) /\ (Scanning(t) => seen'[t][s] \in window'[t][s])
<1>0. TypeOK /\ OwnStep(t) /\ UNCHANGED <<backend, call>> /\ Begun(t) /\ Supported(t) /\ Staged(t) /\ Staged(t)' /\ ~OnS3
      /\ Running(t)
  BY Runs DEF Core, Advance, Shape, Legal, OnS3
<1>1. ~Fail(t) /\ ~DynamoRefuse(t) /\ ~DynamoGetMany(t)
  BY <1>0, GoingIs, GotoIs DEF Fail, DynamoRefuse, DynamoGetMany
<1>2. CASE DynamoDeleteObserved(t)
  <2>1. pc[t] = "expiring" /\ seen'[t] = seen[t] /\ s \in todo[t] /\ ~Scanning(t)
    BY <1>0, <1>2, ObservedIs
  <2>. QED  BY <2>1 DEF Meeting
<1>3. CASE DynamoGet(t)
  <2>1. pc[t] = "begin" /\ found[t] = Nothing /\ ~Scanning(t)
    BY <1>0, <1>3 DEF DynamoGet, DynamoOpen, At, Begun, DynamoReads, Doing, Scanning
  <2>2. \E decoded \in BOOLEAN : Fetch(t, decoded)
    BY <1>3 DEF DynamoGet, DynamoReadEntry
  <2>. QED  BY <2>1, <2>2, FetchMeets
<1>4. CASE DynamoReadEntries(t)
  <2>0. ~Scanning(t)
    BY <1>4 DEF DynamoReadEntries, At, Doing, DynamoBatchReads, Scanning
  <2>1. PICK r \in todo[t] :
          LET o == [seen[t] EXCEPT ![r] = db[r]]
              late == {x \in Target(t) : Present(o[x]) /\ Expired(o[x])} IN
          \/ Return(t, "error")
          \/ Goto(t, "fetching", o, todo[t] \ {r}, Nothing)
          \/ Goto(t, IF late = {} THEN "ok" ELSE "expiring", o, late, [x \in Slots |-> IF x \in late THEN Empty ELSE o[x]])
    BY <1>4 DEF DynamoReadEntries
  <2>. DEFINE o == [seen[t] EXCEPT ![r] = db[r]]
              late == {x \in Target(t) : Present(o[x]) /\ Expired(o[x])}
              f == [x \in Slots |-> IF x \in late THEN Empty ELSE o[x]]
  <2>2. \/ Return(t, "error")
        \/ Goto(t, "fetching", o, todo[t] \ {r}, Nothing)
        \/ Goto(t, IF late = {} THEN "ok" ELSE "expiring", o, late, f)
    BY <2>1
  <2>3. \A x \in late : ExpiredAt(o[x], now)
    <3>. HIDE DEF o
    <3>. QED  BY DEF Expired
  <2>. HIDE DEF o, late, f
  <2>4. seen'[t] = o /\ todo'[t] = late
    BY <1>0, <2>2, GotoIs, GoingIs
  <2>. QED  BY <2>0, <2>3, <2>4
<1>5. CASE Scans(t)
  <2>1. PICK r \in todo[t] : Present(db[r]) /\ Expired(db[r]) /\ seen'[t] = Of({r})
    BY <1>0, <1>5, ScanIs
  <2>2. r \in Slots /\ s \in Slots
    BY <1>0, <1>5, ScanIs, DbIs
  <2>3. s = r /\ seen'[t][s] = db[r]
    BY <1>0, <2>1, <2>2, DbIs DEF Present
  <2>4. db[r] \in window'[t][r]
    BY <1>0, <2>2, WindowGrows
  <2>. QED  BY <2>1, <2>3, <2>4 DEF Expired
<1>6. Doing(t, Reads \cup {"cull", "keys", "collections"})
  BY <1>0 DEF Staged, Allowed, Doing
<1>7. DynamoDeleteObserved(t) \/ DynamoGet(t) \/ DynamoReadEntries(t) \/ Scans(t)
  <2>1. CASE Doing(t, Reads)
    BY <1>0, <1>1, <2>1, ReadSteps
  <2>2. CASE Doing(t, {"keys"})
    BY <1>0, <1>1, <2>2, KeysSteps DEF Scans
  <2>3. CASE Doing(t, {"cull", "collections"})
    <3>1. Doing(t, {"cull", "collections", "destroy_collection", "destroy"}) /\ ~Doing(t, {"destroy_collection", "destroy"})
      BY <2>3 DEF Doing
    <3>2. ~DynamoDestroyCollection(t) /\ ~DynamoDestroy(t)
      BY <3>1 DEF DynamoDestroyCollection, DynamoDestroy, At, Doing
    <3>. QED  BY <1>0, <1>1, <3>1, <3>2, WideSteps DEF Scans
  <2>. QED  BY <1>6, <2>1, <2>2, <2>3 DEF Doing
<1>. QED  BY <1>2, <1>3, <1>4, <1>5, <1>7

LEMMA MeetingNext ==
    ASSUME Core, Next, \A t \in Tasks : Meeting(t)
    PROVE  \A t \in Tasks : Meeting(t)'
<1>1. Lawful /\ (Idle \/ \E t \in Tasks : Advance(t)) /\ UNCHANGED <<backend, call>>
  BY NextLawful, NextCases DEF Next
<1>2. ASSUME NEW t \in Tasks, Advance(t)
      PROVE  Meeting(t)'
  <2>1. now' = now
    BY <1>2 DEF Advance, Legal, Ordered
  <2>2. (Scanning(t)' <=> Scanning(t)) /\ (Present(Empty)' <=> Present(Empty))
    BY <1>1 DEF Scanning, Doing, Present
  <2>. SUFFICES ASSUME pc'[t] = "expiring", backend \in {"mongodb", "dynamodb"}, NEW s \in todo'[t], Present(seen'[t][s])
                PROVE  /\ ExpiredAt(seen'[t][s], now)
                       /\ backend = "dynamodb" /\ Scanning(t) => seen'[t][s] \in window'[t][s]
    BY <1>1, <2>1, <2>2 DEF Meeting, Present
  <2>. QED  BY <1>1, <1>2, MongoMeets, DynamoMeets
<1>. QED  BY <1>1, <1>2, MeetingStill DEF Idle, Advance

\* MongoDB lists the documents of a query, and those it found late are deleted.
LEMMA MongoListing ==
    ASSUME Core, Lawful, NEW t \in Tasks, Advance(t), backend = "mongodb", Doing(t, {"keys"}), Listing(t)
    PROVE  Listing(t)'
<1>0. /\ TypeOK /\ OwnStep(t) /\ UNCHANGED <<backend, call>> /\ Begun(t) /\ Supported(t) /\ Staged(t) /\ ~OnS3
      /\ Running(t) /\ (Doing(t, {"keys"})' <=> Doing(t, {"keys"})) /\ ~OnS3'
      /\ call[t].limit \in Nat
  BY Runs, CallFacts DEF Core, Advance, Shape, Legal, OnS3, Doing
<1>1. CASE pc'[t] \in {"making", "checking", "ready", "error", "invalid"}
  BY <1>0, <1>1 DEF Listing
<1>2. CASE Fail(t) \/ MongoMakeIndexes(t) \/ MongoInspectIndexes(t)
  BY <1>0, <1>1, <1>2, GoingIs DEF Fail, MongoMakeIndexes, MongoInspectIndexes
<1>3. CASE MongoOpen(t)
  <2>1. \/ Return(t, "invalid")
        \/ Return(t, "ok") /\ call[t].limit = 0
        \/ \E stage \in {"ready", "making"} : \E o : Goto(t, stage, o, {}, found[t])
    BY <1>0, <1>3 DEF MongoOpen, MongoCollection
  <2>2. CASE Return(t, "ok") /\ call[t].limit = 0
    <3>1. pc'[t] = "ok" /\ found'[t] = Nothing /\ pc[t] = "begin"
      BY <1>0, <1>3, <2>2, GoingIs DEF Begun, MongoOpen, At
    <3>2. {} = {s \in Slots : Present(found'[t][s])}
      BY <1>0, <3>1, DbIs DEF Present
    <3>3. ~(Cardinality({}) < call[t].limit)
      <4>1. Cardinality({}) = 0
        BY FS_EmptySet
      <4>. QED  BY <2>2, <4>1
    <3>. QED  BY <3>1, <3>2, <3>3, KeysReturn
  <2>. QED  BY <1>0, <1>1, <2>1, <2>2, GoingIs, GotoIs
<1>4. CASE MongoDeleteObserved(t)
  <2>1. pc[t] = "expiring" /\ pc'[t] = "ok" /\ found'[t] = found[t]
    BY <1>0, <1>4, GoingIs DEF MongoDeleteObserved, Doing
  <2>2. PICK S \in SUBSET Slots, C \in SUBSET Slots : S = Shown(t) /\ C = In(call[t].coll)
    BY DEF Shown, In
  <2>3. Answered(t, S) /\ (Cardinality(S) < call[t].limit => Answered(t, C))
    BY <1>0, <2>1, <2>2 DEF Listing
  <2>4. \A T \in SUBSET Slots : Answered(t, T) => \A s \in T : ReadOk(found'[t][s], window'[t][s], since'[t], now')
    BY <1>0, <2>1, AnsweredStays
  <2>5. S = {s \in Slots : Present(found'[t][s])}
    BY <2>1, <2>2 DEF Shown
  <2>. QED  BY <2>1, <2>2, <2>3, <2>4, <2>5, KeysReturn
<1>5. CASE MongoKeys(t) /\ pc[t] = "ready"
  <2>1. \E S \in SUBSET Slots : S = LiveOf(In(call[t].coll)) /\ Goto(t, "sifting", Of(S), S, found[t])
    BY <1>0, <1>5, DbIs DEF MongoKeys, At
  <2>2. PICK S \in SUBSET Slots : S = LiveOf(In(call[t].coll)) /\ Goto(t, "sifting", Of(S), S, found[t])
    BY <2>1
  <2>3. pc'[t] = "sifting" /\ todo'[t] = S /\ seen'[t] = Of(S)
    BY <1>0, <2>2, GotoIs
  <2>4. \A s \in Slots : seen'[t][s] = IF s \in S THEN db[s] ELSE Empty
    BY <1>0, <2>3, DbIs
  <2>5. \A s \in In(call[t].coll) : s \in Slots /\ (s \in S <=> Live(db[s]))
    BY <2>2 DEF LiveOf, In
  <2>6. \A s \in In(call[t].coll) : ReadOk(IF s \in todo'[t] THEN seen'[t][s] ELSE Empty, window'[t][s], since'[t], now')
    BY <1>0, <2>3, <2>4, <2>5, ReadOkNow
  <2>7. todo'[t] \subseteq In(call[t].coll) /\ \A s \in todo'[t] : Present(seen'[t][s])
    BY <2>2, <2>3, <2>4 DEF LiveOf, Live
  <2>8. In(call[t].coll)' = In(call[t].coll)
    BY <1>0 DEF In
  <2>. QED  BY <1>0, <2>3, <2>6, <2>7, <2>8 DEF Listing, Present
<1>6. CASE MongoKeys(t) /\ pc[t] = "sifting"
  <2>. PICK C \in SUBSET Slots, W \in SUBSET Slots : C = In(call[t].coll) /\ W = todo[t]
    BY <1>0, DbIs
  <2>1. /\ W \subseteq C /\ (\A s \in W : Present(seen[t][s]))
        /\ \A s \in C : ReadOk(IF s \in W THEN seen[t][s] ELSE Empty, window[t][s], since[t], now)
    BY <1>0, <1>6 DEF Listing
  <2>. DEFINE late == {s \in W : Expired(seen[t][s])}
  <2>2. PICK S \in Limited(W \ late, call[t].limit), L \in SUBSET late :
            \/ Return(t, "error")
            \/ Goto(t, IF L = {} THEN "ok" ELSE "expiring", seen[t], L, [s \in Slots |-> IF s \in S THEN seen[t][s] ELSE Empty])
    BY <1>6 DEF MongoKeys, At
  <2>3. S \subseteq W \ late /\ (Cardinality(S) < call[t].limit => S = W \ late)
    <3>. DEFINE E == W \ late
    <3>1. E \in SUBSET Slots /\ S \in Limited(E, call[t].limit)
      OBVIOUS
    <3>. HIDE DEF E
    <3>2. S \subseteq E /\ (Cardinality(S) < call[t].limit => S = E)
      BY <1>0, <3>1, LimitedFacts
    <3>. QED  BY <3>2 DEF E
  <2>4. CASE Return(t, "error")
    BY <1>0, <1>1, <2>4, GoingIs
  <2>5. CASE Goto(t, IF L = {} THEN "ok" ELSE "expiring", seen[t], L, [s \in Slots |-> IF s \in S THEN seen[t][s] ELSE Empty])
    <3>1. /\ pc'[t] \in {"ok", "expiring"}
          /\ \A s \in Slots : found'[t][s] = IF s \in S THEN seen[t][s] ELSE Empty
      BY <1>0, <2>5, GotoIs
    <3>2. S = {s \in Slots : Present(found'[t][s])}
      BY <2>1, <2>3, <3>1 DEF Present
    <3>3. \A s \in C : ReadOk(IF s \in W THEN seen[t][s] ELSE Empty, window'[t][s], since'[t], now')
      BY <1>0, <1>6, <2>1, ReadOkStays
    <3>4. \A s \in S : ReadOk(found'[t][s], window'[t][s], since'[t], now')
      BY <2>1, <2>3, <3>1, <3>3
    <3>5. ASSUME Cardinality(S) < call[t].limit, NEW s \in C
          PROVE  ReadOk(found'[t][s], window'[t][s], since'[t], now')
      <4>1. CASE s \in S
        BY <3>4, <4>1
      <4>2. CASE s \notin W
        BY <2>3, <3>1, <3>3, <4>2
      <4>3. CASE s \in late
        <5>1. Present(seen[t][s]) /\ ReadOk(seen[t][s], window[t][s], since[t], now)
          BY <2>1, <4>3
        <5>2. seen[t][s] \in window'[t][s]
          BY <1>0, <5>1, WindowGrows DEF ReadOk
        <5>3. found'[t][s] = Empty /\ ~Live(seen[t][s])
          BY <2>3, <3>1, <4>3 DEF Live
        <5>. QED  BY <1>0, <5>2, <5>3, ReadOkSift
      <4>. QED  BY <2>3, <3>5, <4>1, <4>2, <4>3
    <3>. HIDE DEF late
    <3>. QED  BY <1>0, <3>1, <3>2, <3>4, <3>5, KeysReturn
  <2>. QED  BY <2>2, <2>4, <2>5
<1>7. MongoKeys(t) => pc[t] \in {"ready", "sifting"}
  BY DEF MongoKeys, At
<1>. QED  BY <1>0, <1>2, <1>3, <1>4, <1>5, <1>6, <1>7, KeysSteps

LEMMA OsListing ==
    ASSUME Core, Lawful, NEW t \in Tasks, Advance(t), backend = "opensearch", Doing(t, {"keys"}), Listing(t)
    PROVE  Listing(t)'
<1>0. /\ TypeOK /\ OwnStep(t) /\ UNCHANGED <<backend, call>> /\ Begun(t) /\ Supported(t) /\ Staged(t) /\ ~OnS3
      /\ Running(t) /\ (Doing(t, {"keys"})' <=> Doing(t, {"keys"})) /\ ~OnS3'
      /\ call[t].limit \in Nat
  BY Runs, CallFacts DEF Core, Advance, Shape, Legal, OnS3, Doing
<1>1. CASE pc'[t] \in {"search", "error"}
  BY <1>0, <1>1 DEF Listing
<1>2. CASE Fail(t)
  BY <1>0, <1>1, <1>2, GoingIs DEF Fail
<1>3. CASE OsKeys(t) /\ pc[t] = "begin"
  <2>0. found[t] = Nothing
    BY <1>0, <1>3 DEF Begun
  <2>1. \/ Return(t, "error")
        \/ GoOn(t, "search")
        \/ Return(t, "ok") /\ ~Exists(call[t].coll)
        \/ GoOn(t, "ok") /\ call[t].limit = 0
    BY <1>3 DEF OsKeys, At
  <2>2. ASSUME pc'[t] = "ok", found'[t] = found[t], ~Exists(call[t].coll) \/ call[t].limit = 0
        PROVE  Listing(t)'
    <3>1. {} = {s \in Slots : Present(found'[t][s])}
      BY <1>0, <2>0, <2>2, DbIs DEF Present
    <3>2. ASSUME Cardinality({}) < call[t].limit, NEW s \in In(call[t].coll)
          PROVE  ReadOk(found'[t][s], window'[t][s], since'[t], now')
      <4>1. call[t].limit # 0
        <5>1. Cardinality({}) = 0
          BY FS_EmptySet
        <5>. QED  BY <3>2, <5>1
      <4>2. ~Present(db[s]) /\ s \in Slots
        BY <2>2, <4>1 DEF Exists, In
      <4>3. found'[t][s] = Empty
        BY <1>0, <2>0, <2>2, <4>2, DbIs
      <4>. QED  BY <1>0, <4>2, <4>3, ReadOkNow DEF Live
    <3>. QED  BY <2>2, <3>1, <3>2, KeysReturn
  <2>. QED  BY <1>0, <1>1, <2>1, <2>2, GoingIs
<1>4. CASE OsKeys(t) /\ pc[t] = "search"
  <2>1. PICK S \in Limited(LiveOf(In(call[t].coll)), call[t].limit) : Answer(t, Of(S))
    BY <1>4 DEF OsKeys, At
  <2>2. LiveOf(In(call[t].coll)) \in SUBSET Slots
    BY <1>0, DbIs
  <2>3. S \subseteq LiveOf(In(call[t].coll)) /\ (Cardinality(S) < call[t].limit => S = LiveOf(In(call[t].coll)))
    BY <1>0, <2>2, LimitedFacts
  <2>4. pc'[t] = "ok" /\ \A s \in Slots : found'[t][s] = IF s \in S THEN db[s] ELSE Empty
    BY <1>0, <2>1, GoingIs, DbIs
  <2>5. \A s \in S : s \in Slots /\ Live(db[s])
    BY <2>2, <2>3 DEF LiveOf
  <2>6. S \in SUBSET Slots /\ S = {s \in Slots : Present(found'[t][s])}
    BY <2>4, <2>5 DEF Present, Live
  <2>7. \A s \in S : ReadOk(found'[t][s], window'[t][s], since'[t], now')
    BY <1>0, <2>4, <2>5, ReadOkNow
  <2>8. ASSUME Cardinality(S) < call[t].limit, NEW s \in In(call[t].coll)
        PROVE  ReadOk(found'[t][s], window'[t][s], since'[t], now')
    <3>1. s \in Slots /\ (s \in S <=> Live(db[s]))
      BY <2>3, <2>8 DEF LiveOf, In
    <3>. QED  BY <1>0, <2>4, <3>1, ReadOkNow
  <2>. QED  BY <2>4, <2>6, <2>7, <2>8, KeysReturn
<1>5. OsKeys(t) => pc[t] \in {"begin", "search"}
  BY DEF OsKeys, At
<1>. QED  BY <1>0, <1>2, <1>3, <1>4, <1>5, KeysSteps

\* DynamoDB's scan has listed what it has passed.
LEMMA ScanListing ==
    ASSUME Core, Lawful, NEW t \in Tasks, Advance(t), backend = "dynamodb", Doing(t, {"keys"}),
           pc'[t] \in {"scanning", "expiring"},
           \A s \in Slots : Present(found'[t][s]) => ReadOk(found'[t][s], window'[t][s], since'[t], now'),
           \A s \in In(call[t].coll) : s \notin todo'[t] => ReadOk(found'[t][s], window'[t][s], since'[t], now')
    PROVE  Listing(t)'
<1>1. UNCHANGED <<backend, call>>
  BY Runs
<1>2. Answered(t, Shown(t))'
  BY DEF Answered, Shown, Present
<1>3. Answered(t, In(call[t].coll) \ todo[t])'
  BY <1>1 DEF Answered, In
<1>. QED  BY <1>1, <1>2, <1>3 DEF Listing

LEMMA DynamoListing ==
    ASSUME Core, Lawful, NEW t \in Tasks, Advance(t), backend = "dynamodb", Doing(t, {"keys"}), Listing(t), Meeting(t)
    PROVE  Listing(t)'
<1>0. /\ TypeOK /\ OwnStep(t) /\ UNCHANGED <<backend, call>> /\ Begun(t) /\ Supported(t) /\ Staged(t) /\ ~OnS3
      /\ Running(t) /\ (Doing(t, {"keys"})' <=> Doing(t, {"keys"})) /\ ~OnS3' /\ Scanning(t)
      /\ call[t].limit \in Nat
  BY Runs, CallFacts DEF Core, Advance, Shape, Legal, OnS3, Doing, Scanning
<1>1. CASE pc'[t] \in {"error", "invalid"}
  BY <1>0, <1>1 DEF Listing
<1>2. CASE Fail(t) \/ DynamoRefuse(t)
  BY <1>0, <1>1, <1>2, GoingIs DEF Fail, DynamoRefuse
<1>3. ASSUME pc[t] \in {"scanning", "expiring"}
      PROVE  /\ \A s \in Slots : Present(found[t][s]) => ReadOk(found[t][s], window'[t][s], since'[t], now')
             /\ \A s \in In(call[t].coll) : s \notin todo[t] => ReadOk(found[t][s], window'[t][s], since'[t], now')
  <2>. PICK S \in SUBSET Slots, D \in SUBSET Slots : S = Shown(t) /\ D = In(call[t].coll) \ todo[t]
    BY DEF Shown, In
  <2>1. Answered(t, S) /\ Answered(t, D)
    BY <1>0, <1>3 DEF Listing
  <2>2. \A T \in SUBSET Slots : Answered(t, T) => \A s \in T : ReadOk(found[t][s], window'[t][s], since'[t], now')
    BY <1>0, <1>3, AnsweredStays
  <2>. QED  BY <2>1, <2>2 DEF Shown
<1>4. ASSUME pc'[t] = "ok", NEW f, f = found'[t],
             \A s \in Slots : Present(f[s]) => ReadOk(f[s], window'[t][s], since'[t], now'),
             Cardinality({s \in Slots : Present(f[s])}) >= call[t].limit
             \/ \A s \in In(call[t].coll) : ReadOk(f[s], window'[t][s], since'[t], now')
      PROVE  Listing(t)'
  <2>. PICK S \in SUBSET Slots : S = {s \in Slots : Present(f[s])}
    OBVIOUS
  <2>1. Cardinality(S) \in Nat
    BY SlotsAssumption, FS_Subset, FS_CardinalityType
  <2>2. Cardinality(S) < call[t].limit => ~(Cardinality(S) >= call[t].limit)
    BY <1>0, <2>1
  <2>. QED  BY <1>4, <2>2, KeysReturn
<1>5. CASE DynamoKeys(t)
  <2>1. Scans(t)
    BY <1>5 DEF Scans
  <2>2. CASE /\ pc[t] = "begin" /\ pc'[t] \in {"ok", "scanning"} /\ todo'[t] = DynamoScope(t) /\ found'[t] = Nothing
             /\ pc'[t] = "ok" => DynamoFull(t)
    <3>1. found[t] = Nothing /\ \A s \in Slots : ~Present(Nothing[s])
      BY <1>0, <2>2, DbIs DEF Begun, Present
    <3>2. CASE pc'[t] = "ok"
      <4>1. Cardinality({s \in Slots : Present(Nothing[s])}) >= call[t].limit
        BY <1>0, <2>2, <3>1, <3>2 DEF DynamoFull, Doing
      <4>. QED  BY <1>4, <2>2, <3>1, <3>2, <4>1
    <3>3. CASE pc'[t] = "scanning"
      BY <1>0, <2>2, <3>1, <3>3, ScanListing DEF DynamoScope
    <3>. QED  BY <2>2, <3>2, <3>3
  <2>3. CASE pc'[t] = "error"
    BY <1>1, <2>3
  <2>4. CASE pc[t] = "scanning" /\ pc'[t] = "expiring" /\ todo'[t] = todo[t] /\ found'[t] = found[t]
    BY <1>0, <1>3, <2>4, ScanListing
  <2>5. ASSUME pc[t] = "scanning", pc'[t] = "scanning", NEW s \in todo[t], Present(db[s]) => ~Expired(db[s]),
               todo'[t] = todo[t] \ {s},
               \A r \in Slots : found'[t][r] = IF r = s /\ Doing(t, {"keys"}) THEN db[s] ELSE found[t][r]
        PROVE  Listing(t)'
    <3>1. s \in Slots
      BY <1>0, DbIs
    <3>2. ReadOk(db[s], window'[t][s], since'[t], now')
      BY <1>0, <2>5, <3>1, ReadOkNow DEF Live, Present
    <3>3. \A r \in Slots : Present(found'[t][r]) => ReadOk(found'[t][r], window'[t][r], since'[t], now')
      BY <1>0, <1>3, <2>5, <3>2
    <3>4. \A r \in In(call[t].coll) : r \notin todo'[t] => ReadOk(found'[t][r], window'[t][r], since'[t], now')
      BY <1>0, <1>3, <2>5, <3>2 DEF In
    <3>. QED  BY <1>0, <2>5, <3>3, <3>4, ScanListing
  <2>6. CASE pc[t] = "scanning" /\ pc'[t] = "ok" /\ found'[t] = found[t] /\ (DynamoFull(t) \/ todo[t] = {})
    <3>1. CASE DynamoFull(t)
      <4>1. Cardinality({s \in Slots : Present(found[t][s])}) >= call[t].limit
        BY <1>0, <3>1 DEF DynamoFull, Doing
      <4>. QED  BY <1>3, <1>4, <2>6, <4>1
    <3>2. CASE todo[t] = {}
      BY <1>3, <1>4, <2>6, <3>2
    <3>. QED  BY <2>6, <3>1, <3>2
  <2>. QED  BY <1>0, <2>1, <2>2, <2>3, <2>4, <2>5, <2>6, ScanIs
<1>6. CASE DynamoDeleteObserved(t)
  <2>1. PICK s \in todo[t] :
            s \in Slots /\ Present(seen[t][s]) /\ pc'[t] = "scanning" /\ todo'[t] = todo[t] \ {s} /\ found'[t] = found[t]
            /\ pc[t] = "expiring"
    BY <1>0, <1>6, ObservedIs
  <2>2. seen[t][s] \in window[t][s] /\ ExpiredAt(seen[t][s], now)
    BY <1>0, <2>1 DEF Meeting
  <2>3. \E e \in window'[t][s] : Faded(e, now')
    BY <1>0, <2>1, <2>2, FadedStays DEF Faded
  <2>4. ReadOk(found[t][s], window'[t][s], since'[t], now')
    BY <1>3, <2>1, <2>3 DEF ReadOk
  <2>. QED  BY <1>0, <1>3, <2>1, <2>4, ScanListing
<1>. QED  BY <1>0, <1>2, <1>5, <1>6, KeysSteps

LEMMA ListingNext ==
    ASSUME Core, Next, \A t \in Tasks : Listing(t) /\ Meeting(t)
    PROVE  \A t \in Tasks : Listing(t)'
<1>1. Lawful /\ (Idle \/ \E t \in Tasks : Advance(t)) /\ UNCHANGED <<backend, call>>
  BY NextLawful, NextCases DEF Next
<1>2. ASSUME NEW t \in Tasks, Advance(t)
      PROVE  Listing(t)'
  <2>. SUFFICES ASSUME Doing(t, {"keys"}), ~OnS3
                PROVE  Listing(t)'
    BY <1>1 DEF Listing, Doing, OnS3
  <2>1. Supported(t) /\ Staged(t) /\ OwnStep(t)
    BY <1>2 DEF Core, Shape, Advance
  <2>2. backend \in {"mongodb", "dynamodb", "opensearch"} \/ Fail(t)
    BY <2>1, KeysSteps
  <2>3. CASE Fail(t)
    BY <1>1, <2>3, GoingIs DEF Fail, Listing, Core
  <2>. QED  BY <1>1, <1>2, <2>2, <2>3, MongoListing, DynamoListing, OsListing
<1>. QED  BY <1>1, <1>2, ListingStill DEF Idle, Advance

LEMMA ListingAnswers ==
    ASSUME TypeOK, \A t \in Tasks : Listing(t)
    PROVE  KeysListed
<1>. SUFFICES ASSUME NEW t \in Tasks, Answers(t, {"keys"}), backend # "s3"
              PROVE  KeysExact(t)
  BY DEF KeysListed
<1>1. Answered(t, Shown(t)) /\ (Cardinality(Shown(t)) < call[t].limit => Answered(t, In(call[t].coll)))
  BY DEF Listing, Answers, Done, At, OnS3
<1>2. \A s \in Slots : Present(found[t][s]) => found[t][s] \in window[t][s] /\ ~ExpiredAt(found[t][s], since[t])
  BY <1>1 DEF Answered, Shown, ReadOk
<1>3. ASSUME Cardinality(Shown(t)) < call[t].limit, NEW s \in In(call[t].coll), \A d \in window[t][s] : Live(d)
      PROVE  Present(found[t][s])
  BY <1>1, <1>3 DEF Answered, ReadOk, Faded, Live, Expired
<1>. QED  BY <1>2, <1>3 DEF KeysExact, Shown

-----------------------------------------------------------------------------
(* Collections *)

\* A slot whose collection is not named was, some time, without a live entry.
Named(t, S) == \A s \in S : s[1] \in names[t] \/ \E e \in window[t][s] : Faded(e, now)
Naming(t) ==
    Doing(t, {"collections"}) =>
        /\ pc[t] = "ok" /\ window[t] # Unwatched => (Cardinality(names[t]) < call[t].limit => Named(t, Slots))
        /\ pc[t] \in {"scanning", "expiring"} /\ backend = "dynamodb" => Named(t, Slots \ todo[t])

LEMMA NamedStays ==
    ASSUME Lawful, NEW t \in Tasks, Running(t), NEW S \in SUBSET Slots, Named(t, S)
    PROVE  \A s \in S : s[1] \in names[t] \/ \E e \in window'[t][s] : Faded(e, now')
<1>. QED  BY FadedStays DEF Named

LEMMA NamingStill ==
    ASSUME Lawful, NEW t \in Tasks, Still(t), Naming(t)
    PROVE  Naming(t)'
<1>1. CASE pc[t] \in Ended
  <2>1. window'[t] = Unwatched /\ pc'[t] = pc[t]
    BY <1>1, WatchFacts DEF Lawful, Still
  <2>. QED  BY <1>1, <2>1 DEF Naming, Ended
<1>2. CASE pc[t] = "begin"
  BY <1>2 DEF Naming, Still
<1>3. CASE pc[t] \notin Ended /\ pc[t] # "begin"
  <2>1. /\ Running(t) /\ pc'[t] = pc[t] /\ names'[t] = names[t] /\ todo'[t] = todo[t] /\ UNCHANGED <<backend, call>> /\ pc[t] # "ok"
    BY <1>3 DEF Running, Still, Lawful, Ended
  <2>. SUFFICES ASSUME Doing(t, {"collections"}), pc[t] \in {"scanning", "expiring"}, backend = "dynamodb"
                PROVE  Named(t, Slots \ todo[t])'
    BY <2>1 DEF Naming, Doing
  <2>. PICK S \in SUBSET Slots : S = Slots \ todo[t]
    OBVIOUS
  <2>2. Named(t, S)
    BY DEF Naming
  <2>. QED  BY <2>1, <2>2, NamedStays DEF Named
<1>. QED  BY <1>1, <1>2, <1>3

\* A listing in one request.
LEMMA NamedAtOnce ==
    ASSUME Core, Lawful, NEW t \in Tasks, Advance(t), pc'[t] = "ok", NEW C \in SUBSET Collections,
           \A s \in Slots : Present(db[s]) => s[1] \in C,
           NEW N \in Limited(C, call[t].limit), names'[t] = N
    PROVE  Naming(t)'
<1>0. Running(t) /\ UNCHANGED <<backend, call>> /\ call[t].limit \in Nat
  BY Runs, CallFacts DEF Core
<1>1. Cardinality(N) < call[t].limit => N = C
  BY <1>0, SlotsAssumption, FS_Subset, LimitedIs
<1>2. ASSUME Cardinality(N) < call[t].limit
      PROVE  Named(t, Slots)'
  <2>1. \A s \in Slots : db[s] \in window'[t][s]
    BY <1>0, WindowGrows
  <2>. QED  BY <1>1, <1>2, <2>1 DEF Named, Faded, Present
<1>. QED  BY <1>0, <1>2 DEF Naming

LEMMA NamingNext ==
    ASSUME Core, Next, \A t \in Tasks : Naming(t) /\ Meeting(t)
    PROVE  \A t \in Tasks : Naming(t)'
<1>1. Lawful /\ (Idle \/ \E t \in Tasks : Advance(t)) /\ UNCHANGED <<backend, call>>
  BY NextLawful, NextCases DEF Next
<1>2. ASSUME NEW t \in Tasks, Advance(t)
      PROVE  Naming(t)'
  <2>. SUFFICES ASSUME Doing(t, {"collections"})
                PROVE  Naming(t)'
    BY <1>1 DEF Naming, Doing
  <2>0. /\ TypeOK /\ OwnStep(t) /\ Supported(t) /\ Staged(t) /\ Running(t) /\ Begun(t) /\ Scanning(t)
        /\ call[t].limit \in Nat /\ Doing(t, {"cull", "collections", "destroy_collection", "destroy"})
        /\ (Doing(t, {"collections"})' <=> Doing(t, {"collections"}))
        /\ ~Doing(t, {"cull", "destroy_collection", "destroy"})
    BY <1>1, <1>2, Runs, CallFacts DEF Core, Shape, Advance, Scanning, Doing
  <2>1. CASE pc'[t] \in {"error", "invalid"}
    BY <2>1 DEF Naming
  <2>2. CASE Fail(t) \/ DynamoRefuse(t)
    BY <2>0, <2>1, <2>2, GoingIs DEF Fail, DynamoRefuse
  <2>3. CASE MongoCollections(t)
    <3>1. Return(t, "error") \/ (GoOn(t, "ok") /\ \E N \in Limited(MongoOwned, call[t].limit) : names' = [names EXCEPT ![t] = N])
      BY <2>3 DEF MongoCollections
    <3>2. CASE GoOn(t, "ok") /\ \E N \in Limited(MongoOwned, call[t].limit) : names' = [names EXCEPT ![t] = N]
      <4>1. PICK N \in Limited(MongoOwned, call[t].limit) : names'[t] = N
        BY <2>0, <3>2 DEF TypeOK
      <4>2. MongoOwned \in SUBSET Collections /\ \A s \in Slots : Present(db[s]) => s[1] \in MongoOwned
        BY SlotsAssumption DEF MongoOwned, Exists, In
      <4>3. pc'[t] = "ok"
        BY <2>0, <3>2, GoingIs
      <4>. QED  BY <1>1, <1>2, <4>1, <4>2, <4>3, NamedAtOnce
    <3>. QED  BY <2>0, <2>1, <3>1, <3>2, GoingIs
  <2>4. CASE OsCollections(t)
    <3>1. PICK N \in Limited(OsOwned, call[t].limit) : names'[t] = N
      BY <2>0, <2>4 DEF OsCollections, TypeOK
    <3>2. OsOwned \in SUBSET Collections /\ \A s \in Slots : Present(db[s]) => s[1] \in OsOwned
      BY SlotsAssumption DEF OsOwned, Exists, In
    <3>3. pc'[t] = "ok"
      BY <2>0, <2>4, GoingIs DEF OsCollections
    <3>. QED  BY <1>1, <1>2, <3>1, <3>2, <3>3, NamedAtOnce
  <2>5. CASE S3Collections(t)
    <3>. PICK C \in SUBSET Collections : C = {s[1] : s \in {r \in Slots : Present(db[r])}}
      BY SlotsAssumption
    <3>1. Return(t, "error") \/ (GoOn(t, "ok") /\ \E N \in Limited(C, call[t].limit) : names' = [names EXCEPT ![t] = N])
      BY <2>5 DEF S3Collections
    <3>2. CASE GoOn(t, "ok") /\ \E N \in Limited(C, call[t].limit) : names' = [names EXCEPT ![t] = N]
      <4>1. PICK N \in Limited(C, call[t].limit) : names'[t] = N
        BY <2>0, <3>2 DEF TypeOK
      <4>2. \A s \in Slots : Present(db[s]) => s[1] \in C
        OBVIOUS
      <4>3. pc'[t] = "ok"
        BY <2>0, <3>2, GoingIs
      <4>. QED  BY <1>1, <1>2, <4>1, <4>2, <4>3, NamedAtOnce
    <3>. QED  BY <2>0, <2>1, <3>1, <3>2, GoingIs
  <2>6. ASSUME backend = "dynamodb", pc[t] \in {"scanning", "expiring"}
        PROVE  \A s \in Slots \ todo[t] : s[1] \in names[t] \/ \E e \in window'[t][s] : Faded(e, now')
    <3>. PICK S \in SUBSET Slots : S = Slots \ todo[t]
      OBVIOUS
    <3>1. Named(t, S)
      BY <2>6 DEF Naming
    <3>. QED  BY <1>1, <2>0, <3>1, NamedStays
  <2>7. ASSUME backend = "dynamodb", pc'[t] \in {"scanning", "expiring"},
               \A s \in Slots \ todo'[t] : s[1] \in names'[t] \/ \E e \in window'[t][s] : Faded(e, now')
        PROVE  Naming(t)'
    BY <2>7 DEF Naming, Named
  <2>8. ASSUME pc'[t] = "ok", names'[t] = names[t],
               Cardinality(names[t]) >= call[t].limit \/ \A s \in Slots : s[1] \in names[t] \/ \E e \in window'[t][s] : Faded(e, now')
        PROVE  Naming(t)'
    <3>1. Cardinality(names[t]) \in Nat
      BY <2>0, SlotsAssumption, FS_Subset, FS_CardinalityType DEF TypeOK
    <3>2. Cardinality(names[t]) < call[t].limit => ~(Cardinality(names[t]) >= call[t].limit)
      BY <2>0, <3>1
    <3>. QED  BY <1>1, <2>8, <3>2 DEF Naming, Named
  <2>9. CASE backend = "dynamodb" /\ DynamoCollections(t)
    <3>1. Scans(t)
      BY <2>9 DEF Scans
    <3>2. CASE /\ pc[t] = "begin" /\ pc'[t] \in {"ok", "scanning"} /\ todo'[t] = DynamoScope(t) /\ names'[t] = names[t]
               /\ pc'[t] = "ok" => DynamoFull(t)
      <4>1. DynamoFull(t) => Cardinality(names[t]) >= call[t].limit
        BY <2>0 DEF DynamoFull, Doing
      <4>2. DynamoScope(t) = Slots
        BY <2>0 DEF DynamoScope, Doing
      <4>. QED  BY <2>7, <2>8, <2>9, <3>2, <4>1, <4>2
    <3>3. CASE pc'[t] = "error"
      BY <2>1, <3>3
    <3>4. CASE pc[t] = "scanning" /\ pc'[t] = "expiring" /\ todo'[t] = todo[t] /\ names'[t] = names[t]
      BY <2>6, <2>7, <2>9, <3>4
    <3>5. ASSUME pc[t] = "scanning", pc'[t] = "scanning", NEW s \in todo[t], todo'[t] = todo[t] \ {s},
                 names'[t] = names[t] \cup (IF Doing(t, {"collections"}) /\ Present(db[s]) THEN {s[1]} ELSE {})
          PROVE  Naming(t)'
      <4>1. s \in Slots /\ db[s] \in window'[t][s]
        BY <1>1, <2>0, DbIs, WindowGrows
      <4>2. s[1] \in names'[t] \/ \E e \in window'[t][s] : Faded(e, now')
        BY <3>5, <4>1 DEF Faded
      <4>. QED  BY <2>6, <2>7, <2>9, <3>5, <4>2
    <3>6. CASE pc[t] = "scanning" /\ pc'[t] = "ok" /\ names'[t] = names[t] /\ (DynamoFull(t) \/ todo[t] = {})
      <4>1. DynamoFull(t) => Cardinality(names[t]) >= call[t].limit
        BY <2>0 DEF DynamoFull, Doing
      <4>. QED  BY <2>6, <2>8, <2>9, <3>6, <4>1
    <3>. QED  BY <2>0, <3>1, <3>2, <3>3, <3>4, <3>5, <3>6, ScanIs
  <2>10. CASE backend = "dynamodb" /\ DynamoDeleteObserved(t)
    <3>1. PICK s \in todo[t] : /\ s \in Slots /\ Present(seen[t][s]) /\ pc'[t] = "scanning" /\ todo'[t] = todo[t] \ {s}
                               /\ names'[t] = names[t] /\ pc[t] = "expiring"
      BY <2>0, <2>10, ObservedIs
    <3>2. seen[t][s] \in window[t][s] /\ ExpiredAt(seen[t][s], now)
      BY <2>0, <2>10, <3>1 DEF Meeting
    <3>3. \E e \in window'[t][s] : Faded(e, now')
      BY <1>1, <2>0, <3>1, <3>2, FadedStays DEF Faded
    <3>. QED  BY <2>6, <2>7, <2>10, <3>1, <3>3
  <2>11. \/ Fail(t) \/ MongoCollections(t) \/ OsCollections(t) \/ S3Collections(t)
         \/ backend = "dynamodb" /\ (DynamoRefuse(t) \/ DynamoCollections(t) \/ DynamoDeleteObserved(t))
    <3>1. /\ ~MongoCull(t) /\ ~MongoDestroyCollection(t) /\ ~MongoDestroy(t)
          /\ ~DynamoCull(t) /\ ~DynamoDestroyCollection(t) /\ ~DynamoDestroy(t)
          /\ ~OsCull(t) /\ ~OsDestroyCollection(t) /\ ~OsDestroy(t)
          /\ ~S3Cull(t) /\ ~S3DeleteObjects(t) /\ ~S3DestroyCollection(t) /\ ~S3Destroy(t)
      BY <2>0 DEF Doing, At, MongoCull, MongoDestroyCollection, MongoDestroy, DynamoCull, DynamoScan, DynamoOpen,
                  DynamoDestroyCollection, DynamoDestroy, OsCull, OsDestroyCollection, OsDestroy, S3Cull, S3DeleteObjects,
                  S3DestroyCollection, S3Destroy
    <3>. QED  BY <2>0, <3>1, WideSteps DEF Doing
  <2>. QED  BY <2>2, <2>3, <2>4, <2>5, <2>9, <2>10, <2>11
<1>. QED  BY <1>1, <1>2, NamingStill DEF Idle, Advance

LEMMA NamingAnswers ==
    ASSUME \A t \in Tasks : Naming(t)
    PROVE  CollectionsComplete
<1>. SUFFICES ASSUME NEW t \in Tasks, Answers(t, {"collections"}), Cardinality(names[t]) < call[t].limit,
                     NEW s \in Slots, \A d \in window[t][s] : Live(d)
              PROVE  s[1] \in names[t]
  BY DEF CollectionsComplete
<1>1. Named(t, Slots)
  BY DEF Naming, Answers, Done, At
<1>. QED  BY <1>1 DEF Named, Faded, Live, Expired

-----------------------------------------------------------------------------
(* Writes *)

\* Outside S3, a write has stored what it does not have left.
Landing(t) ==
    Doing(t, Writes) /\ ~OnS3 =>
        /\ pc[t] \in {"writing", "batch"} => \A s \in Target(t) \ todo[t] : Landed(t, s)
        /\ pc[t] = "ok" /\ window[t] # Unwatched => \A s \in Target(t) : Landed(t, s)

LEMMA WriteSteps ==
    ASSUME NEW t \in Tasks, OwnStep(t), Staged(t), Doing(t, Writes)
    PROVE  \/ Fail(t)
           \/ backend = "mongodb" /\ (MongoOpen(t) \/ MongoMakeIndexes(t) \/ MongoInspectIndexes(t) \/ MongoPut(t) \/ MongoPutMany(t))
           \/ backend = "dynamodb" /\ (DynamoRefuse(t) \/ DynamoPut(t) \/ DynamoPutMany(t))
           \/ backend = "opensearch" /\ (OsRefuse(t) \/ OsPut(t) \/ OsPutMany(t) \/ OsBulkIndex(t))
           \/ backend = "firestore" /\ (FsRefuse(t) \/ FsPut(t) \/ FsPutMany(t))
           \/ backend = "vault" /\ ((\E op \in Writes : VaultOpen(t, op)) \/ VaultWriteEntry(t))
           \/ backend = "s3" /\ (S3OpenOne(t) \/ S3PutMany(t) \/ S3Put(t))
<1>1. CASE backend = "mongodb" /\ MongoNext(t)
  <2>1. ~MongoDeleteObserved(t)
    BY <1>1 DEF MongoDeleteObserved, Staged, Allowed, Doing, Reads, Writes
  <2>. QED  BY <1>1, <2>1 DEF Doing, Writes, MongoNext, MongoGet, MongoGetMany, MongoDelete, MongoDeleteMany, MongoKeys, MongoCull,
              MongoCollections, MongoDestroyCollection, MongoDestroy, At
<1>2. CASE backend = "dynamodb" /\ DynamoNext(t)
  <2>1. ~DynamoDeleteObserved(t)
    BY <1>2 DEF DynamoDeleteObserved, Staged, Allowed, Doing, Reads, Writes
  <2>. QED  BY <1>2, <2>1 DEF Doing, Writes, DynamoNext, DynamoEnsureTable, DynamoEnsureTtl, DynamoGet, DynamoGetMany,
              DynamoReadEntries, DynamoReads, DynamoBatchReads, DynamoDelete, DynamoDeleteMany, DynamoCull, DynamoKeys,
              DynamoCollections, DynamoScan, DynamoDestroyCollection, DynamoDestroy, DynamoOpen, At
<1>3. CASE backend = "opensearch" /\ OsNext(t)
  <2>1. ~OsBulkDelete(t)
    BY <1>3 DEF OsBulkDelete, Staged, Allowed, Doing, Reads, Writes, Deletes, OnS3
  <2>. QED  BY <1>3, <2>1 DEF Doing, Writes, OsNext, OsGet, OsGetMany, OsDelete, OsDeleteMany, OsCull, OsKeys,
              OsCollections, OsDestroyCollection, OsDestroy, OsOpen, At
<1>4. CASE backend = "firestore" /\ FsNext(t)
  BY <1>4 DEF Doing, Writes, FsNext, FsGet, FsGetMany, FsTtlMany, FsDeleteExpired, FsReads, FsDelete, FsDeleteMany, FsDeletes, At
<1>5. CASE backend = "vault" /\ VaultNext(t)
  BY <1>5 DEF Doing, Writes, VaultNext, VaultGet, VaultPut, VaultDelete, VaultGetMany, VaultPutMany, VaultDeleteMany,
              VaultOpen, VaultReadEntry, VaultDeleteEntry, VaultReads, VaultDeletes, At
<1>6. CASE backend = "s3" /\ S3Next(t)
  BY <1>6 DEF Doing, Writes, S3Next, S3EnsureBucket, S3GetMany, S3DeleteMany, S3Open, S3Get, S3Delete, S3Reads, S3Deletes,
              S3Cull, S3Keys, S3Collections, S3DeleteObjects, S3DestroyCollection, S3Destroy, At
<1>. QED  BY <1>1, <1>2, <1>3, <1>4, <1>5, <1>6 DEF OwnStep, BackendStep

LEMMA LandingStill ==
    ASSUME Lawful, NEW t \in Tasks, Still(t), Landing(t)
    PROVE  Landing(t)'
<1>1. CASE pc[t] \in Ended
  <2>1. window'[t] = Unwatched /\ pc'[t] = pc[t]
    BY <1>1, WatchFacts DEF Lawful, Still
  <2>. QED  BY <1>1, <2>1 DEF Landing, Ended
<1>2. CASE pc[t] = "begin"
  BY <1>2 DEF Landing, Still
<1>3. CASE pc[t] \notin Ended /\ pc[t] # "begin"
  <2>1. /\ Running(t) /\ pc'[t] = pc[t] /\ todo'[t] = todo[t] /\ UNCHANGED <<backend, call>> /\ pc[t] # "ok"
        /\ Target(t)' = Target(t) /\ Target(t) \subseteq Slots
    BY <1>3 DEF Running, Still, Lawful, Ended, Target
  <2>2. \A s \in Slots : Landed(t, s) => Landed(t, s)'
    BY <2>1, LandedStays
  <2>. HIDE DEF Landed, Target
  <2>. QED  BY <2>1, <2>2 DEF Landing, Doing, OnS3
<1>. QED  BY <1>1, <1>2, <1>3

\* One more of the entries is stored.
LEMMA LandsOne ==
    ASSUME Core, Lawful, NEW t \in Tasks, Advance(t), Doing(t, Writes), ~OnS3, Landing(t), pc[t] \in {"writing", "batch"},
           NEW s \in todo[t], db' = Stored({s}, seen[t]),
           \/ pc'[t] \in {"writing", "batch"} /\ todo'[t] = todo[t] \ {s}
           \/ pc'[t] = "ok" /\ todo[t] \ {s} = {}
    PROVE  Landing(t)'
<1>0. Running(t) /\ UNCHANGED <<backend, call>> /\ Target(t)' = Target(t) /\ Target(t) \subseteq Slots /\ TypeOK
  BY Runs DEF Target, Core
<1>1. todo[t] \subseteq Target(t) /\ seen[t][s].writer = <<t, LastPosition(t, s)>>
  BY DEF Core, Shape, Prepped, Fresh
<1>2. db'[s] = seen[t][s] /\ s \in Slots
  <2>1. {s} \in SUBSET Slots /\ seen[t] \in [Slots -> Doc]
    BY <1>0, <1>1, DbIs
  <2>. QED  BY <1>0, <2>1, DbIs
<1>3. \A r \in Slots : Landed(t, r) \/ db'[r].writer = <<t, LastPosition(t, r)>> => Landed(t, r)'
  BY <1>0, LandedStays
<1>4. \A r \in Target(t) : r \notin todo[t] \/ r = s => Landed(t, r)'
  <2>. HIDE DEF Landed, LastPosition
  <2>. QED  BY <1>0, <1>1, <1>2, <1>3 DEF Landing
<1>. HIDE DEF Landed, Target
<1>. QED  BY <1>0, <1>4 DEF Landing

\* All of them are.
LEMMA LandsAll ==
    ASSUME Core, Lawful, NEW t \in Tasks, Advance(t), ~OnS3, NEW o \in [Slots -> Doc], db' = Stored(Target(t), o),
           \A s \in Target(t) : o[s].writer = <<t, LastPosition(t, s)>>, pc'[t] = "ok"
    PROVE  Landing(t)'
<1>0. Running(t) /\ UNCHANGED <<backend, call>> /\ Target(t)' = Target(t) /\ Target(t) \subseteq Slots /\ TypeOK
  BY Runs DEF Target, Core
<1>1. \A s \in Target(t) : db'[s] = o[s]
  <2>1. Target(t) \in SUBSET Slots
    BY <1>0
  <2>. HIDE DEF Target
  <2>. QED  BY <1>0, <2>1, DbIs
<1>2. \A s \in Target(t) : Landed(t, s)'
  BY <1>0, <1>1, LandedStays
<1>. HIDE DEF Landed, Target
<1>. QED  BY <1>0, <1>2 DEF Landing

LEMMA LandingStep ==
    ASSUME Core, Lawful, NEW t \in Tasks, Advance(t), Doing(t, Writes), ~OnS3, Landing(t)
    PROVE  Landing(t)'
<1>0. /\ TypeOK /\ OwnStep(t) /\ UNCHANGED <<backend, call>> /\ Begun(t) /\ Prepped(t) /\ Staged(t) /\ Running(t)
      /\ Target(t)' = Target(t) /\ Target(t) \in SUBSET Slots
  BY Runs DEF Core, Shape, Advance, Target
<1>1. CASE pc'[t] \in {"error", "invalid", "making", "checking", "ready"}
  BY <1>1 DEF Landing
<1>2. CASE pc'[t] = "ok" /\ Target(t) = {}
  BY <1>0, <1>2 DEF Landing
<1>3. CASE pc'[t] \in {"writing", "batch"} /\ todo'[t] = Target(t)
  BY <1>0, <1>3 DEF Landing
<1>4. CASE Fail(t) \/ MongoMakeIndexes(t) \/ MongoInspectIndexes(t) \/ DynamoRefuse(t) \/ OsRefuse(t) \/ FsRefuse(t)
  BY <1>0, <1>1, <1>4, GoingIs DEF Fail, MongoMakeIndexes, MongoInspectIndexes, DynamoRefuse, OsRefuse, FsRefuse
<1>5. CASE MongoOpen(t)
  <2>1. \/ Return(t, "invalid")
        \/ Return(t, "ok") /\ call[t].keys = <<>>
        \/ \E stage \in {"ready", "making"} : \E o : Goto(t, stage, o, {}, found[t])
    BY <1>5 DEF MongoOpen, MongoCollection
  <2>2. CASE Return(t, "ok") /\ call[t].keys = <<>>
    <3>1. Target(t) = {}
      BY <2>2 DEF Target
    <3>. QED  BY <1>0, <1>2, <2>2, <3>1, GoingIs
  <2>. QED  BY <1>0, <1>1, <2>1, <2>2, GoingIs, GotoIs
<1>6. CASE MongoPut(t)
  <2>1. db' = Stored(Target(t), seen[t]) /\ pc'[t] = "ok" /\ pc[t] = "ready"
    BY <1>0, <1>6, GoingIs DEF MongoPut, At
  <2>2. \A s \in Target(t) : seen[t][s].writer = <<t, LastPosition(t, s)>>
    BY <1>0, <2>1 DEF Prepped, Fresh
  <2>3. seen[t] \in [Slots -> Doc]
    BY <1>0, DbIs
  <2>. QED  BY <2>1, <2>2, <2>3, LandsAll
<1>7. CASE DynamoPut(t) \/ FsPut(t)
  <2>1. db' = Stored(Target(t), Prepared(t)) /\ pc'[t] = "ok"
    BY <1>0, <1>7, GoingIs DEF DynamoPut, FsPut
  <2>2. Prepared(t) \in [Slots -> Doc] /\ \A s \in Target(t) : Prepared(t)[s].writer = <<t, LastPosition(t, s)>>
    BY <1>0, PreparedIs
  <2>. QED  BY <2>1, <2>2, LandsAll
<1>8. ASSUME NEW stage \in {"writing", "batch"}, NEW f,
             Goto(t, IF Target(t) = {} THEN "ok" ELSE stage, Prepared(t), Target(t), f)
      PROVE  Landing(t)'
  <2>1. pc'[t] = (IF Target(t) = {} THEN "ok" ELSE stage) /\ todo'[t] = Target(t)
    BY <1>0, <1>8, GotoIs
  <2>. QED  BY <1>2, <1>3, <2>1
<1>9. ASSUME pc[t] = "writing", NEW s \in todo[t], db' = Stored({s}, seen[t]),
             IF todo[t] = {s} THEN Return(t, "ok") ELSE Goto(t, "writing", seen[t], todo[t] \ {s}, found[t])
      PROVE  Landing(t)'
  <2>1. \/ pc'[t] = "writing" /\ todo'[t] = todo[t] \ {s}
        \/ pc'[t] = "ok" /\ todo[t] \ {s} = {}
    BY <1>0, <1>9, GoingIs, GotoIs
  <2>. QED  BY <1>9, <2>1, LandsOne
<1>10. CASE MongoPutMany(t)
  <2>1. CASE Goto(t, "writing", seen[t], Target(t), found[t])
    BY <1>0, <1>3, <2>1, GotoIs
  <2>. QED  BY <1>9, <1>10, <2>1 DEF MongoPutMany, At
<1>11. CASE DynamoPutMany(t)
  BY <1>8, <1>9, <1>11 DEF DynamoPutMany, At
<1>12. CASE FsPutMany(t)
  BY <1>8, <1>9, <1>12 DEF FsPutMany, At
<1>13. CASE OsPut(t) \/ OsPutMany(t)
  BY <1>8, <1>13 DEF OsPut, OsPutMany, OsBulk
<1>14. CASE OsBulkIndex(t)
  BY <1>9, <1>14 DEF OsBulkIndex, At
<1>15. CASE \E op \in Writes : VaultOpen(t, op)
  <2>1. \/ Return(t, "invalid")
        \/ \E o, d, f : d = Target(t) /\ ((d = {} /\ Answer(t, f)) \/ Goto(t, "batch", o, d, f))
    BY <1>15 DEF VaultOpen, VaultDone, VaultWrites, Writes
  <2>2. \/ pc'[t] = "invalid"
        \/ pc'[t] = "ok" /\ Target(t) = {}
        \/ pc'[t] = "batch" /\ todo'[t] = Target(t)
    BY <1>0, <2>1, GoingIs, GotoIs
  <2>. QED  BY <1>1, <1>2, <1>3, <2>2
<1>16. CASE VaultWriteEntry(t)
  <2>1. PICK s \in todo[t] : db' = Stored({s}, seen[t]) /\ VaultDone(t, [seen[t] EXCEPT ![s] = Empty], todo[t] \ {s}, found[t])
    BY <1>16 DEF VaultWriteEntry
  <2>2. \/ pc'[t] = "batch" /\ todo'[t] = todo[t] \ {s}
        \/ pc'[t] = "ok" /\ todo[t] \ {s} = {}
    BY <1>0, <2>1, GoingIs, GotoIs DEF VaultDone
  <2>3. pc[t] = "batch"
    BY <1>16 DEF VaultWriteEntry, At
  <2>. QED  BY <2>1, <2>2, <2>3, LandsOne
<1>. QED  BY <1>0, <1>4, <1>5, <1>6, <1>7, <1>10, <1>11, <1>12, <1>13, <1>14, <1>15, <1>16, WriteSteps DEF OnS3

\* S3's batch has stored what it has passed, in order, and of what it has stored under a key
\* the last is what it left there.
Passing(t) == Doing(t, Writes) /\ OnS3 /\ (pc[t] = "batch" \/ (pc[t] = "ok" /\ window[t] # Unwatched))
InOrder(t) ==
    Passing(t) =>
        /\ pc[t] = "ok" => rest[t] = {}
        /\ \A i \in DOMAIN call[t].keys \ rest[t] :
            /\ \A j \in rest[t] : i < j
            /\ \A s \in Target(t) : i \in Positions(t, s) => \E d \in window[t][s] : d.writer = <<t, i>>
        /\ \A s \in Target(t) : db[s].writer[1] = t => \A j \in Positions(t, s) \ rest[t] : j <= db[s].writer[2]

\* Others do not disturb it.
LEMMA InOrderStill ==
    ASSUME Core, Next, NEW t \in Tasks, Still(t), InOrder(t)
    PROVE  InOrder(t)'
<1>0. Lawful /\ (Idle \/ \E u \in Tasks : Advance(u)) /\ UNCHANGED <<backend, call>>
  BY NextLawful, NextCases DEF Next
<1>1. CASE pc[t] \in Ended
  <2>1. window'[t] = Unwatched /\ pc'[t] = pc[t]
    BY <1>0, <1>1, WatchFacts DEF Lawful, Still
  <2>. QED  BY <1>1, <2>1 DEF InOrder, Passing, Ended
<1>2. CASE pc[t] = "begin"
  BY <1>2 DEF InOrder, Passing, Still
<1>3. CASE pc[t] \notin Ended /\ pc[t] # "begin"
  <2>1. /\ Running(t) /\ pc'[t] = pc[t] /\ rest'[t] = rest[t] /\ pc[t] # "ok"
        /\ Target(t)' = Target(t) /\ \A s : Positions(t, s)' = Positions(t, s)
    BY <1>0, <1>3 DEF Running, Still, Ended, Positions, Target
  <2>. SUFFICES ASSUME Passing(t)
                PROVE  InOrder(t)'
    BY <1>0, <2>1 DEF InOrder, Passing, Doing, OnS3
  <2>2. \A s \in Slots : window[t][s] \subseteq window'[t][s]
    BY <1>0, <2>1, WindowGrows
  <2>3. ASSUME NEW s \in Slots, db'[s].writer[1] = t
        PROVE  db'[s] = db[s]
    <3>1. \/ db'[s] \in {db[s], Empty}
          \/ \E u \in Tasks, i \in Nat : Advance(u) /\ db'[s].writer = <<u, i>> /\ Writable(u, i) /\ ~Writable(u, i)'
      BY <1>0, DbBecomes
    <3>2. ASSUME NEW u \in Tasks, NEW i \in Nat, db'[s].writer = <<u, i>>, Writable(u, i), ~Writable(u, i)'
          PROVE  FALSE
      <4>1. u = t
        BY <2>3, <3>2
      <4>2. Writable(t, i)' <=> Writable(t, i)
        BY <1>0, <2>1 DEF Writable, Passing, Still, Doing, OnS3
      <4>. QED  BY <3>2, <4>1, <4>2
    <3>. QED  BY <2>3, <3>1, <3>2, TasksAssumption DEF Empty
  <2>4. \A s \in Target(t) : s \in Slots
    BY DEF Target
  <2>. HIDE DEF Positions
  <2>. QED  BY <1>0, <2>1, <2>2, <2>3, <2>4 DEF InOrder
<1>. QED  BY <1>1, <1>2, <1>3

LEMMA InOrderStep ==
    ASSUME Core, Next, NEW t \in Tasks, Advance(t), Doing(t, Writes), OnS3, InOrder(t)
    PROVE  InOrder(t)'
<1>0. /\ Lawful /\ TypeOK /\ OwnStep(t) /\ UNCHANGED <<backend, call>> /\ Staged(t) /\ Running(t)
      /\ OwnDocs(t) /\ Target(t)' = Target(t) /\ \A s : Positions(t, s)' = Positions(t, s)
  BY Runs, NextLawful DEF Core, Shape, Advance, Positions, Target
<1>1. CASE pc'[t] \notin {"batch", "ok"}
  BY <1>1 DEF InOrder, Passing
<1>2. CASE Fail(t)
  BY <1>0, <1>1, <1>2, GoingIs DEF Fail
<1>3. CASE S3OpenOne(t) \/ S3PutMany(t)
  <2>1. pc[t] = "begin" /\ db' = db
    BY <1>3 DEF S3OpenOne, S3PutMany, S3Open, At, serverVars
  <2>2. \A s \in Slots : db'[s].writer[1] # t
    BY <1>0, <2>1 DEF OwnDocs
  <2>3. CASE Return(t, "invalid")
    BY <1>0, <1>1, <2>3, GoingIs
  <2>4. CASE /\ Goto(t, IF call[t].keys = <<>> THEN "ok" ELSE "batch", Nothing, {}, Nothing)
             /\ rest' = [rest EXCEPT ![t] = DOMAIN call[t].keys]
    <3>1. pc'[t] = IF call[t].keys = <<>> THEN "ok" ELSE "batch"
      BY <1>0, <2>4, GotoIs
    <3>2. rest'[t] = DOMAIN call[t].keys
      BY <1>0, <2>4 DEF TypeOK
    <3>3. call[t].keys = <<>> => DOMAIN call[t].keys = {}
      OBVIOUS
    <3>4. \A s \in Target(t) : s \in Slots
      BY DEF Target
    <3>. HIDE DEF Positions
    <3>. QED  BY <1>0, <2>2, <3>1, <3>2, <3>3, <3>4 DEF InOrder
  <2>. QED  BY <1>3, <2>3, <2>4 DEF S3OpenOne, S3PutMany, S3Open
<1>4. CASE S3Put(t)
  <2>0. Doing(t, KeyValue) /\ pc[t] = "batch" /\ since[t] \in Nat /\ Passing(t)
    <3>1. pc[t] = "batch" /\ Doing(t, KeyValue)
      BY <1>4 DEF S3Put, At, KeyValue, Doing
    <3>2. since[t] \in Nat
      BY <1>0, BoundsAssumption DEF TypeOK
    <3>. QED  BY <3>1, <3>2 DEF Passing
  <2>. PICK n, z, D, R : n = NextPosition(t) /\ z = NextSlot(t) /\ D = DOMAIN call[t].keys /\ R = rest[t]
    OBVIOUS
  <2>1. /\ db' = [db EXCEPT ![z] = NewDoc(t, n, since[t])]
        /\ S3Advance(t, found[t])
    BY <1>4 DEF S3Put
  <2>2. /\ pc'[t] \in {"ok", "batch"} /\ rest'[t] = R \ {n} /\ (pc'[t] = "ok" => R = {n})
    BY <2>0, <2>1, AdvanceIs
  <2>3. R \subseteq D /\ n \in R /\ (\A j \in R : n <= j) /\ z \in Slots /\ n \in Positions(t, z) /\ n \in D
    BY <2>0, NextIs
  <2>4. D \in SUBSET Nat /\ R \in SUBSET Nat /\ n \in Nat
    BY <1>0, <2>3, KeysNumbered
  <2>5. NewDoc(t, n, since[t]).writer = <<t, n>>
    BY <1>0, <2>0, <2>3, NewDocIs
  <2>6. /\ \A i \in D \ R : \A j \in R : i < j
        /\ \A i \in D \ R : \A s \in Target(t) : i \in Positions(t, s) => \E d \in window[t][s] : d.writer = <<t, i>>
        /\ \A s \in Target(t) : db[s].writer[1] = t => \A j \in Positions(t, s) \ R : j <= db[s].writer[2]
    BY <2>0 DEF InOrder
  <2>7. /\ \A i \in D \ (R \ {n}) : \A j \in R \ {n} : i < j
        /\ \A i \in D \ (R \ {n}) : i <= n
    BY <2>3, <2>4, <2>6, AfterAll
  <2>8. \A s \in Slots : db'[s] = IF s = z THEN NewDoc(t, n, since[t]) ELSE db[s]
    BY <1>0, <2>1, <2>3, DbIs
  <2>9. \A s \in Slots : window[t][s] \subseteq window'[t][s] /\ db'[s] \in window'[t][s]
    BY <1>0, WindowGrows
  <2>10. \A s \in Target(t) : s \in Slots /\ (n \in Positions(t, s) => s = z)
    BY SlotsAssumption, <2>3 DEF Positions, NextSlot, Target
  <2>. HIDE DEF NewDoc
  <2>11. ASSUME NEW i \in D \ (R \ {n}), NEW s \in Target(t), i \in Positions(t, s)
         PROVE  \E d \in window'[t][s] : d.writer = <<t, i>>
    <3>1. CASE i = n
      BY <2>5, <2>8, <2>9, <2>10, <2>11, <3>1
    <3>2. CASE i \in D \ R
      <4>1. PICK d \in window[t][s] : d.writer = <<t, i>>
        BY <2>6, <2>11, <3>2
      <4>2. d \in window'[t][s]
        BY <2>9, <2>10, <4>1
      <4>. QED  BY <4>1, <4>2
    <3>. QED  BY <3>1, <3>2
  <2>12. ASSUME NEW s \in Target(t), db'[s].writer[1] = t, NEW j \in Positions(t, s) \ (R \ {n})
         PROVE  j <= db'[s].writer[2]
    <3>0. j \in D \ (R \ {n})
      BY DEF Positions
    <3>1. CASE s = z
      <4>1. db'[s].writer = <<t, n>>
        BY <2>3, <2>5, <2>8, <3>1
      <4>. QED  BY <2>7, <3>0, <4>1
    <3>2. CASE s # z
      BY <2>6, <2>8, <2>10, <2>12, <3>2
    <3>. QED  BY <3>1, <3>2
  <2>. HIDE DEF Positions
  <2>13. DOMAIN call'[t].keys = D /\ Target(t)' = Target(t) /\ rest'[t] = R \ {n}
    BY <1>0, <2>2
  <2>14. \A i \in D \ (R \ {n}) : \A s \in Target(t) :
             i \in Positions(t, s) => \E d \in window'[t][s] : d.writer = <<t, i>>
    BY <2>11
  <2>15. \A s \in Target(t) : db'[s].writer[1] = t =>
             \A j \in Positions(t, s) \ (R \ {n}) : j <= db'[s].writer[2]
    BY <2>12
  <2>16. pc'[t] = "ok" => rest'[t] = {}
    BY <2>2
  <2>17. \A i \in DOMAIN call'[t].keys \ rest'[t] :
            /\ \A j \in rest'[t] : i < j
            /\ \A s \in Target(t)' : i \in Positions(t, s)' => \E d \in window'[t][s] : d.writer = <<t, i>>
    <3>1. \A i \in D \ (R \ {n}) : \A s \in Target(t) :
              i \in Positions(t, s)' => \E d \in window'[t][s] : d.writer = <<t, i>>
      BY <1>0, <2>14
    <3>. QED  BY <2>7, <2>13, <3>1
  <2>18. \A s \in Target(t)' : db'[s].writer[1] = t =>
             \A j \in Positions(t, s)' \ rest'[t] : j <= db'[s].writer[2]
    BY <1>0, <2>13, <2>15
  <2>. QED  BY <2>16, <2>17, <2>18 DEF InOrder
<1>. QED  BY <1>0, <1>2, <1>3, <1>4, WriteSteps DEF OnS3

LEMMA WritingNext ==
    ASSUME Core, Next, NEW t \in Tasks, Landing(t), InOrder(t)
    PROVE  Landing(t)' /\ InOrder(t)'
<1>0. Lawful /\ (Idle \/ \E u \in Tasks : Advance(u)) /\ UNCHANGED <<backend, call>>
  BY NextLawful, NextCases DEF Next
<1>1. Still(t) \/ Advance(t)
  BY <1>0 DEF Idle, Advance
<1>2. CASE Still(t)
  BY <1>0, <1>2, LandingStill, InOrderStill
<1>3. CASE Advance(t) /\ Doing(t, Writes)
  <2>1. Landing(t)'
    BY <1>0, <1>3, LandingStep DEF Landing, OnS3
  <2>2. InOrder(t)'
    BY <1>0, <1>3, InOrderStep DEF InOrder, Passing, OnS3
  <2>. QED  BY <2>1, <2>2
<1>4. CASE ~Doing(t, Writes)
  BY <1>0, <1>4 DEF Landing, InOrder, Passing, Doing
<1>. QED  BY <1>1, <1>2, <1>3, <1>4

\* PutsLand and RejectedStoreNothing (put, put_many) follow.
LEMMA WritingLands ==
    ASSUME Core, \A t \in Tasks : Landing(t) /\ InOrder(t)
    PROVE  PutsLand /\ RejectedStoreNothing
<1>1. RejectedStoreNothing
  BY DEF RejectedStoreNothing, Core, OwnDocs
<1>. SUFFICES ASSUME NEW t \in Tasks, Answers(t, Writes), NEW s \in Target(t)
              PROVE  /\ \E d \in window[t][s] : d.writer = <<t, LastPosition(t, s)>>
                     /\ db[s].writer[1] = t => db[s].writer[2] = LastPosition(t, s)
  BY <1>1 DEF PutsLand
<1>2. pc[t] = "ok" /\ window[t] # Unwatched /\ Doing(t, Writes) /\ OwnDocs(t) /\ s \in Slots /\ TypeOK
  BY DEF Answers, Done, At, Core, Target
<1>3. CASE ~OnS3
  <2>1. Landed(t, s)
    BY <1>2, <1>3 DEF Landing
  <2>. QED  BY <1>2, <1>3, <2>1 DEF Landed, OwnDocs
<1>4. CASE OnS3
  <2>1. LastPosition(t, s) \in Positions(t, s) /\ \A j \in Positions(t, s) : j <= LastPosition(t, s)
    BY <1>2, PositionFacts
  <2>2. Positions(t, s) \subseteq DOMAIN call[t].keys /\ DOMAIN call[t].keys \in SUBSET Nat
    BY <1>2, KeysNumbered DEF Positions
  <2>3. Passing(t) /\ rest[t] = {}
    BY <1>2, <1>4 DEF InOrder, Passing
  <2>. PICK n, P : n = LastPosition(t, s) /\ P = Positions(t, s)
    OBVIOUS
  <2>4. \E d \in window[t][s] : d.writer = <<t, n>>
    <3>1. n \in DOMAIN call[t].keys \ rest[t] /\ n \in Positions(t, s)
      BY <2>1, <2>2, <2>3
    <3>2. \A i \in DOMAIN call[t].keys \ rest[t] : \A r \in Target(t) :
             i \in Positions(t, r) => \E d \in window[t][r] : d.writer = <<t, i>>
      BY <2>3 DEF InOrder
    <3>. QED  BY <3>1, <3>2
  <2>5. ASSUME db[s].writer[1] = t
        PROVE  db[s].writer[2] = n
    <3>1. db[s].writer[2] \in P /\ n <= db[s].writer[2]
      BY <1>2, <2>1, <2>3, <2>5 DEF InOrder, OwnDocs
    <3>2. \A a, b \in Nat : a <= b /\ b <= a => a = b
      OBVIOUS
    <3>. QED  BY <2>1, <2>2, <3>1, <3>2
  <2>. QED  BY <2>4, <2>5
<1>. QED  BY <1>3, <1>4

-----------------------------------------------------------------------------
(* MongoDB: what the client counts on *)

\* A destroy that has dropped the collection and is about to say so, or has failed to.
Dropped(t, c) ==
    /\ pc[t] \in {"forgetting", "error"}
    /\ (Doing(t, {"destroy_collection"}) /\ call[t].coll = c) \/ (Doing(t, {"destroy"}) /\ c \in names[t])

\* The list grows by what is there and shrinks by what a destroy forgets; what is there
\* shrinks by what a destroy drops.
LEMMA MongoIndexes ==
    ASSUME Core, NEW t \in Tasks, backend = "mongodb", MongoNext(t), UNCHANGED <<backend, call>>, NEW c
    PROVE  /\ c \in known' \ known => c \in made'
           /\ c \in made \ made' => Dropped(t, c)'
           /\ Dropped(t, c) => c \notin known'
<1>0. TypeOK
  BY DEF Core
<1>1. CASE MongoInspectIndexes(t)
  BY <1>1 DEF MongoInspectIndexes, serverVars, Dropped
<1>2. CASE MongoDestroyCollection(t) /\ pc[t] = "dropping"
  <2>1. /\ made' = made \ {call[t].coll} /\ known' = known /\ GoOn(t, "forgetting") /\ Doing(t, {"destroy_collection"})
    BY <1>2 DEF MongoDestroyCollection, MongoDrop, At
  <2>2. pc'[t] = "forgetting"
    BY <1>0, <2>1, GoingIs
  <2>. QED  BY <1>2, <2>1, <2>2 DEF Dropped, Doing
<1>3. CASE MongoDestroyCollection(t) /\ pc[t] = "forgetting"
  BY <1>3 DEF MongoDestroyCollection, Dropped, At, Doing, serverVars
<1>4. CASE MongoDestroyCollection(t) /\ pc[t] = "begin"
  BY <1>4 DEF MongoDestroyCollection, Dropped, At, Plain
<1>5. CASE MongoDestroy(t) /\ pc[t] = "dropping"
  <2>1. CASE rest[t] = {} /\ known' = (IF names[t] = {} THEN {} ELSE known) /\ made' = made
    BY <1>5, <2>1 DEF Dropped
  <2>2. ASSUME NEW d \in rest[t], MongoDrop(d), names' = [names EXCEPT ![t] = @ \cup {d}], known' = known, GoOn(t, "forgetting")
        PROVE  /\ c \in known' \ known => c \in made'
               /\ c \in made \ made' => Dropped(t, c)'
               /\ Dropped(t, c) => c \notin known'
    <3>1. pc'[t] = "forgetting" /\ made' = made \ {d} /\ Doing(t, {"destroy"})
      BY <1>0, <1>5, <2>2, GoingIs DEF MongoDrop, MongoDestroy, At
    <3>2. d \in names'[t]
      BY <1>0, <2>2 DEF TypeOK
    <3>. QED  BY <1>5, <2>2, <3>1, <3>2 DEF Dropped, Doing
  <2>. QED  BY <1>5, <2>1, <2>2 DEF MongoDestroy, At, serverVars
<1>6. CASE MongoDestroy(t) /\ pc[t] = "forgetting"
  BY <1>6 DEF MongoDestroy, Dropped, At, Doing, serverVars
<1>7. CASE MongoDestroy(t) /\ pc[t] = "begin"
  BY <1>7 DEF MongoDestroy, Dropped, At, serverVars
<1>8. CASE MongoMakeIndexes(t)
  BY <1>8 DEF MongoMakeIndexes, Dropped
<1>9. CASE MongoOpen(t) \/ MongoGet(t) \/ MongoGetMany(t) \/ MongoDeleteObserved(t) \/ MongoPut(t) \/ MongoPutMany(t)
           \/ MongoDelete(t) \/ MongoDeleteMany(t) \/ MongoKeys(t) \/ MongoCull(t) \/ MongoCollections(t)
  <2>1. UNCHANGED <<known, made>> /\ pc[t] \notin {"forgetting", "error"}
    BY <1>9 DEF MongoOpen, MongoGet, MongoGetMany, MongoDeleteObserved, MongoPut, MongoPutMany, MongoDelete, MongoDeleteMany,
                MongoDeletes, MongoKeys, MongoCull, MongoCollections, At, Plain, serverVars
  <2>. QED  BY <2>1 DEF Dropped
<1>10. MongoDestroyCollection(t) => pc[t] \in {"dropping", "forgetting", "begin"}
  BY DEF MongoDestroyCollection, At
<1>11. MongoDestroy(t) => pc[t] \in {"dropping", "forgetting", "begin"}
  BY DEF MongoDestroy, At
<1>. QED  BY <1>1, <1>2, <1>3, <1>4, <1>5, <1>6, <1>7, <1>8, <1>9, <1>10, <1>11 DEF MongoNext

LEMMA KnownNext ==
    ASSUME Core, Next, KnownIsIndexed
    PROVE  KnownIsIndexed'
<1>1. UNCHANGED <<backend, call>> /\ (Idle \/ \E t \in Tasks : Advance(t))
  BY NextCases DEF Next
<1>. SUFFICES ASSUME backend = "mongodb", NEW c \in known' \ made'
              PROVE  \E u \in Tasks : Dropped(u, c)'
  BY <1>1 DEF KnownIsIndexed, Dropped, Doing
<1>2. c \in known \ made => \E u \in Tasks : Dropped(u, c)
  BY DEF KnownIsIndexed, Dropped
<1>3. ASSUME NEW u \in Tasks, Dropped(u, c), Still(u)
      PROVE  Dropped(u, c)'
  BY <1>1, <1>3 DEF Still, Dropped, Doing
<1>4. CASE Idle
  BY <1>2, <1>3, <1>4 DEF Idle
<1>5. ASSUME NEW t \in Tasks, Advance(t)
      PROVE  \E u \in Tasks : Dropped(u, c)'
  <2>1. CASE Fail(t)
    <3>1. known' = known /\ made' = made /\ names' = names /\ pc'[t] = "error"
      BY <2>1, GoingIs DEF Fail, serverVars, Core
    <3>2. Dropped(t, c) => Dropped(t, c)'
      BY <1>1, <3>1 DEF Dropped, Doing
    <3>. QED  BY <1>2, <1>3, <1>5, <3>1, <3>2 DEF Advance
  <2>2. CASE MongoNext(t)
    <3>1. /\ c \in known' \ known => c \in made'
          /\ c \in made \ made' => Dropped(t, c)'
          /\ Dropped(t, c) => c \notin known'
      BY <1>1, <2>2, MongoIndexes
    <3>2. CASE c \in known \ made
      <4>1. PICK u \in Tasks : Dropped(u, c)
        BY <1>2, <3>2
      <4>. QED  BY <1>3, <1>5, <3>1, <4>1 DEF Advance
    <3>. QED  BY <3>1, <3>2
  <2>. QED  BY <1>5, <2>1, <2>2 DEF Advance, OwnStep, BackendStep
<1>. QED  BY <1>1, <1>4, <1>5

-----------------------------------------------------------------------------
(* OpenSearch: malformed ids *)

OnOs == backend = "opensearch"

\* destroy looks at every index in which there is one before it drops any.
Validating(t) ==
    OnOs /\ Doing(t, {"destroy"}) =>
        /\ pc[t] = "validating" => alien \subseteq rest[t]
        /\ pc[t] = "dropping" => alien = {}

\* They come from elsewhere.
LEMMA AliensLeave ==
    ASSUME Core, Next, OnOs
    PROVE  alien' \subseteq alien
<1>1. CASE Tick \/ NativeExpiry
  BY <1>1 DEF Tick, NativeExpiry, ServerExpires, serverVars
<1>2. ASSUME NEW t \in Tasks, Fail(t)
      PROVE  alien' \subseteq alien
  BY <1>2 DEF Fail, serverVars
<1>3. ASSUME NEW t \in Tasks, OsNext(t)
      PROVE  alien' \subseteq alien
  <2>1. CASE OsDestroyCollection(t) \/ OsDestroy(t) \/ OsCull(t) \/ OsBulkIndex(t) \/ OsCollections(t)
    BY <2>1 DEF OsDestroyCollection, OsDestroy, OsCull, OsBulkIndex, OsCollections, OsDrop, Plain, serverVars
  <2>2. CASE OsRefuse(t) \/ OsGet(t) \/ OsGetMany(t) \/ OsPut(t) \/ OsPutMany(t) \/ OsDelete(t)
             \/ OsDeleteMany(t) \/ OsBulkDelete(t) \/ OsKeys(t)
    BY <2>2 DEF OsRefuse, OsGet, OsGetMany, OsPut, OsPutMany, OsDelete, OsDeleteMany, OsBulkDelete, OsKeys, OsBulk, Plain
  <2>. QED  BY <1>3, <2>1, <2>2 DEF OsNext
<1>. QED  BY <1>1, <1>2, <1>3 DEF Next, BackendStep, OnOs

\* The steps of destroy.
LEMMA OsDestroyStep ==
    ASSUME Core, NEW t \in Tasks, OnOs, Advance(t), Doing(t, {"destroy"}), Validating(t)
    PROVE  Validating(t)' /\ (alien # {} => db' = db)
<1>0. TypeOK /\ OwnStep(t) /\ UNCHANGED <<backend, call>> /\ Supported(t) /\ Staged(t)
  BY Runs DEF Core, Advance, Shape
<1>1. Fail(t) \/ OsDestroy(t)
  <2>1. Doing(t, {"cull", "collections", "destroy_collection", "destroy"}) /\ ~Doing(t, {"cull", "collections", "destroy_collection"})
    BY DEF Doing
  <2>2. ~OsCull(t) /\ ~OsCollections(t) /\ ~OsDestroyCollection(t)
    BY <2>1 DEF OsCull, OsCollections, OsDestroyCollection, At, Doing
  <2>. QED  BY <1>0, <2>1, <2>2, WideSteps DEF OnOs
<1>2. CASE Fail(t)
  <2>1. pc'[t] = "error" /\ db' = db
    BY <1>0, <1>2, GoingIs DEF Fail, serverVars
  <2>. QED  BY <2>1 DEF Validating
<1>3. CASE OsDestroy(t) /\ pc[t] = "begin"
  <2>1. CASE Return(t, "ok")
    BY <1>0, <1>3, <2>1, GoingIs DEF OsDestroy, At, Validating, serverVars
  <2>2. CASE GoOn(t, "validating") /\ rest' = [rest EXCEPT ![t] = OsOwned]
    <3>1. pc'[t] = "validating" /\ rest'[t] = OsOwned /\ UNCHANGED <<db, alien>>
      BY <1>0, <1>3, <2>2, GoingIs DEF OsDestroy, At, TypeOK, serverVars
    <3>2. alien \subseteq OsOwned
      BY <1>0 DEF OsOwned, Exists, TypeOK
    <3>. QED  BY <3>1, <3>2 DEF Validating
  <2>. QED  BY <1>3, <2>1, <2>2 DEF OsDestroy, At
<1>4. CASE OsDestroy(t) /\ pc[t] = "validating"
  <2>1. UNCHANGED <<db, alien>>
    BY <1>4 DEF OsDestroy, At, Plain
  <2>2. CASE Return(t, "error")
    BY <1>0, <2>1, <2>2, GoingIs DEF Validating
  <2>3. CASE GoOn(t, "dropping") /\ rest[t] \cap alien = {}
    <3>1. pc'[t] = "dropping" /\ alien = {}
      BY <1>0, <1>4, <2>3, GoingIs DEF Validating
    <3>. QED  BY <2>1, <3>1 DEF Validating
  <2>. QED  BY <1>4, <2>2, <2>3 DEF OsDestroy, At, OsIdsDecode
<1>5. CASE OsDestroy(t) /\ pc[t] = "dropping"
  <2>1. pc'[t] = "ok" /\ alien = {}
    BY <1>0, <1>5, GoingIs DEF OsDestroy, At, Validating
  <2>. QED  BY <2>1 DEF Validating
<1>. QED  BY <1>1, <1>2, <1>3, <1>4, <1>5 DEF OsDestroy, At

LEMMA ValidatingNext ==
    ASSUME Core, Next, \A t \in Tasks : Validating(t)
    PROVE  (\A t \in Tasks : Validating(t)')
           /\ (OnOs /\ alien # {} => \A t \in Tasks : Doing(t, {"destroy"}) /\ Acts(t) => db' = db)
<1>1. UNCHANGED <<backend, call>> /\ (Idle \/ \E t \in Tasks : Advance(t))
  BY NextCases DEF Next
<1>2. ASSUME NEW t \in Tasks
      PROVE  Validating(t)' /\ (OnOs /\ alien # {} /\ Doing(t, {"destroy"}) /\ Acts(t) => db' = db)
  <2>1. CASE ~(OnOs /\ Doing(t, {"destroy"}))
    BY <1>1, <2>1 DEF Validating, OnOs, Doing
  <2>2. CASE OnOs /\ Doing(t, {"destroy"}) /\ Still(t)
    <3>1. ~Acts(t)
      BY <2>2 DEF Acts, Still
    <3>2. alien' \subseteq alien
      BY <2>2, AliensLeave
    <3>. QED  BY <1>1, <2>2, <3>1, <3>2 DEF Validating, Still, OnOs, Doing
  <2>3. CASE OnOs /\ Doing(t, {"destroy"}) /\ Advance(t)
    BY <2>3, OsDestroyStep
  <2>. QED  BY <1>1, <2>1, <2>2, <2>3 DEF Idle, Advance
<1>. QED  BY <1>2

-----------------------------------------------------------------------------
(* What destroy, destroy_collection and cull have yet to remove *)

Wide == {"cull", "destroy_collection", "destroy"}

\* What was there when the call began, that it is to remove, and still is there.
Left(t, s) ==
    /\ Present(before[t][s]) /\ db[s] = before[t][s]
    /\ \/ Doing(t, {"destroy"})
       \/ Doing(t, {"destroy_collection"}) /\ s[1] = call[t].coll
       \/ Doing(t, {"cull"}) /\ ExpiredAt(before[t][s], since[t])

\* The call will come to it.
Awaits(t, s) ==
    /\ pc[t] = "ok" => window[t] = Unwatched
    /\ pc[t] = "forgetting" => ~Doing(t, {"destroy_collection"})
    /\ Doing(t, {"destroy"}) /\ pc[t] \in {"dropping", "forgetting"} => s[1] \in rest[t]
    /\ pc[t] \in {"validating", "query"} => s[1] \in rest[t]
    /\ pc[t] = "culling" => IF OnOs THEN s \in todo[t] /\ seen[t][s] = db[s] ELSE s[1] \in rest[t]
    /\ Doing(t, {"cull"}) /\ pc[t] \in {"handle", "making", "checking", "ready"} => s[1] \in rest[t] \cup names[t]
    /\ pc[t] = "scanning" => s \in todo[t]
    /\ pc[t] = "expiring" =>
         IF backend = "mongodb" THEN s[1] \in rest[t] \/ (s \in todo[t] /\ seen[t][s] = db[s])
         ELSE s \in todo[t] /\ (backend = "dynamodb" /\ Present(seen[t][s]) => seen[t][s] = db[s])
    /\ OnS3 /\ Doing(t, {"destroy_collection"}) /\ pc[t] = "deleting" => s \in todo[t]

\* MongoDB's cull goes through one collection at a time.
OneAtATime(t) ==
    backend = "mongodb" /\ Doing(t, {"cull"}) /\ pc[t] \in {"handle", "making", "checking", "ready"} =>
        \E c : names[t] = {c}

Clearing(t) == OneAtATime(t) /\ (Doing(t, Wide) => \A s \in Slots : Left(t, s) => Awaits(t, s))

\* What is left after a step was left before.
LEMMA LeftIs ==
    ASSUME Core, Next, NEW t \in Tasks, Running(t), NEW s \in Slots, Left(t, s)'
    PROVE  /\ db'[s] = db[s] /\ Present(db[s])
           /\ Doing(t, {"cull"}) => ExpiredAt(db[s], since'[t]) /\ Expired(db[s])
           /\ Doing(t, {"destroy"}) \/ (Doing(t, {"destroy_collection"}) /\ s[1] = call[t].coll) \/ Doing(t, {"cull"})
           /\ pc[t] # "begin" => Left(t, s) /\ since'[t] = since[t]
<1>1. Lawful /\ (Idle \/ \E u \in Tasks : Advance(u)) /\ UNCHANGED <<backend, call>>
  BY NextLawful, NextCases DEF Next
<1>2. before'[t] = (IF pc[t] = "begin" THEN db ELSE before[t]) /\ since'[t] \in Nat /\ now \in Nat /\ since'[t] <= now
      /\ since'[t] = IF pc[t] = "begin" THEN now ELSE since[t]
  BY <1>1, WindowGrows
<1>3. /\ Present(before'[t][s]) /\ db'[s] = before'[t][s]
      /\ Doing(t, {"destroy"}) \/ (Doing(t, {"destroy_collection"}) /\ s[1] = call[t].coll) \/ Doing(t, {"cull"})
      /\ Doing(t, {"cull"}) => ExpiredAt(before'[t][s], since'[t])
  BY <1>1 DEF Left, Doing, Present
<1>4. db[s] = before'[t][s]
  <2>1. CASE pc[t] # "begin"
    <3>1. Spent(before[t][s].writer) /\ Present(before[t][s])
      BY <1>2, <1>3, <2>1 DEF Core, DocsSpent
    <3>. QED  BY <1>1, <1>2, <1>3, <2>1, <3>1, OldStays
  <2>. QED  BY <1>2, <2>1
<1>5. Doing(t, {"cull"}) => Expired(db[s])
  <2>1. db[s].expires \in Nat
    BY DEF Core, TypeOK, Doc
  <2>2. \A n, m, k \in Nat : n <= m /\ m <= k => n <= k
    OBVIOUS
  <2>. QED  BY <1>2, <1>3, <1>4, <2>1, <2>2 DEF ExpiredAt, Expired
<1>. QED  BY <1>1, <1>2, <1>3, <1>4, <1>5 DEF Left

\* Other calls do not disturb it.
LEMMA ClearingStill ==
    ASSUME Core, Next, NEW t \in Tasks, Still(t), Clearing(t)
    PROVE  Clearing(t)'
<1>1. Lawful /\ UNCHANGED <<backend, call>>
  BY NextLawful DEF Next
<1>2. OneAtATime(t)'
  BY <1>1 DEF Clearing, OneAtATime, Still, Doing
<1>3. ASSUME Doing(t, Wide), NEW s \in Slots, Left(t, s)'
      PROVE  Awaits(t, s)'
  <2>1. CASE pc[t] \in Ended
    <3>1. window'[t] = Unwatched /\ pc'[t] = pc[t]
      BY <1>1, <2>1, WatchFacts DEF Lawful, Still
    <3>2. Unwatched' = Unwatched
      BY DEF Unwatched
    <3>. QED  BY <2>1, <3>1, <3>2 DEF Awaits, Ended
  <2>2. CASE pc[t] = "begin"
    BY <2>2 DEF Awaits, Still
  <2>3. CASE pc[t] \notin Ended /\ pc[t] # "begin"
    <3>1. Running(t) /\ pc'[t] = pc[t] /\ pc[t] # "ok"
      BY <2>3 DEF Running, Still, Ended
    <3>2. Left(t, s) /\ db'[s] = db[s]
      BY <1>3, <2>3, <3>1, LeftIs
    <3>3. Awaits(t, s)
      BY <1>3, <3>2 DEF Clearing
    <3>. QED  BY <1>1, <3>1, <3>2, <3>3 DEF Awaits, Still, Doing, OnOs, OnS3, Present
  <2>. QED  BY <2>1, <2>2, <2>3
<1>. QED  BY <1>1, <1>2, <1>3 DEF Clearing, Doing

\* What is left of a call's work it was coming to.
LEMMA LeftWas ==
    ASSUME Core, Next, NEW t \in Tasks, Running(t), Doing(t, Wide), Clearing(t)
    PROVE  \A s \in Slots : Left(t, s)' =>
                /\ db'[s] = db[s] /\ Present(db[s]) /\ s[1] \in Collections
                /\ Doing(t, {"cull"}) => ExpiredAt(db[s], since'[t]) /\ Expired(db[s])
                /\ Doing(t, {"destroy_collection"}) => s[1] = call[t].coll
                /\ pc[t] # "begin" => Awaits(t, s) /\ since'[t] = since[t]
                /\ Exists(s[1])
<1>. SUFFICES ASSUME NEW s \in Slots, Left(t, s)'
              PROVE  /\ db'[s] = db[s] /\ Present(db[s]) /\ s[1] \in Collections
                     /\ Doing(t, {"cull"}) => ExpiredAt(db[s], since'[t]) /\ Expired(db[s])
                     /\ Doing(t, {"destroy_collection"}) => s[1] = call[t].coll
                     /\ pc[t] # "begin" => Awaits(t, s) /\ since'[t] = since[t]
                     /\ Exists(s[1])
  OBVIOUS
<1>1. s[1] \in Collections
  BY SlotsAssumption
<1>2. /\ db'[s] = db[s] /\ Present(db[s])
      /\ Doing(t, {"cull"}) => ExpiredAt(db[s], since'[t]) /\ Expired(db[s])
      /\ Doing(t, {"destroy"}) \/ (Doing(t, {"destroy_collection"}) /\ s[1] = call[t].coll) \/ Doing(t, {"cull"})
      /\ pc[t] # "begin" => Left(t, s) /\ since'[t] = since[t]
  BY LeftIs
<1>3. pc[t] # "begin" => Awaits(t, s)
  BY <1>2 DEF Clearing
<1>4. Doing(t, {"destroy_collection"}) => s[1] = call[t].coll
  BY <1>2 DEF Doing
<1>. QED  BY <1>1, <1>2, <1>3, <1>4 DEF Exists, In

LEMMA MongoClearing ==
    ASSUME Core, Next, NEW t \in Tasks, Advance(t), backend = "mongodb", Doing(t, Wide), Clearing(t)
    PROVE  Clearing(t)'
<1>0. /\ Lawful /\ TypeOK /\ OwnStep(t) /\ UNCHANGED <<backend, call>> /\ Supported(t) /\ Staged(t) /\ Running(t)
      /\ ~OnS3 /\ ~OnOs /\ OneAtATime(t) /\ rest[t] \subseteq Collections
  <2>1. ~OnS3 /\ LoopsTyped(t)
    BY DEF OnS3, Core, Shape
  <2>. QED  BY <2>1, Runs, NextLawful DEF Core, Advance, Shape, OnOs, Clearing, LoopsTyped, LoopOk
<1>1. ASSUME OneAtATime(t)', \A s \in Slots : Left(t, s)' => Awaits(t, s)'
      PROVE  Clearing(t)'
  BY <1>1 DEF Clearing
<1>2. \A s \in Slots : Left(t, s)' =>
          /\ db'[s] = db[s] /\ Present(db[s]) /\ s[1] \in Collections
          /\ Doing(t, {"cull"}) => ExpiredAt(db[s], since'[t]) /\ Expired(db[s])
          /\ Doing(t, {"destroy_collection"}) => s[1] = call[t].coll
          /\ pc[t] # "begin" => Awaits(t, s) /\ since'[t] = since[t]
          /\ Exists(s[1])
  BY <1>0, LeftWas
<1>3. CASE pc'[t] = "error"
  BY <1>1, <1>3 DEF OneAtATime, Awaits
<1>4. CASE Fail(t)
  BY <1>0, <1>3, <1>4, GoingIs DEF Fail
<1>5. CASE Doing(t, {"cull"}) /\ (MongoMakeIndexes(t) \/ MongoInspectIndexes(t))
  <2>1. pc[t] \in {"making", "checking"} /\ names' = names /\ rest' = rest
    BY <1>5 DEF MongoMakeIndexes, MongoInspectIndexes
  <2>2. pc'[t] \in {"checking", "ready", "error"}
    BY <1>0, <1>5, GoingIs DEF MongoMakeIndexes, MongoInspectIndexes
  <2>3. OneAtATime(t)'
    BY <1>0, <1>5, <2>1 DEF OneAtATime, Doing
  <2>4. ASSUME NEW s \in Slots, Left(t, s)'
        PROVE  Awaits(t, s)'
    <3>1. s[1] \in rest[t] \cup names[t]
      BY <1>2, <1>5, <2>1, <2>4 DEF Awaits
    <3>. QED  BY <1>0, <1>5, <2>1, <2>2, <3>1 DEF Awaits, Doing
  <2>. QED  BY <1>1, <2>3, <2>4
<1>6. CASE Doing(t, {"cull"}) /\ MongoDeleteObserved(t)
  <2>1. pc[t] = "expiring" /\ db' = Without(Unchanged(t, todo[t])) /\ pc'[t] = "culling" /\ rest' = rest
    BY <1>0, <1>6, GoingIs DEF MongoDeleteObserved, Plain
  <2>2. ASSUME NEW s \in Slots, Left(t, s)'
        PROVE  s[1] \in rest[t]
    <3>1. s[1] \in rest[t] \/ (s \in todo[t] /\ seen[t][s] = db[s])
      BY <1>2, <2>1, <2>2 DEF Awaits
    <3>2. db'[s] # Empty
      BY <1>2, <2>2 DEF Present
    <3>. QED  BY <1>0, <2>1, <3>1, <3>2, DbIs DEF Unchanged
  <2>3. \A s \in Slots : Left(t, s)' => Awaits(t, s)'
    BY <1>0, <2>1, <2>2 DEF Awaits, OnOs
  <2>. QED  BY <1>1, <2>1, <2>3 DEF OneAtATime
<1>7. CASE MongoCull(t)
  <2>0. Doing(t, {"cull"})
    BY <1>7 DEF MongoCull, At
  <2>1. CASE pc[t] = "begin" /\ GoOn(t, "culling") /\ rest' = [rest EXCEPT ![t] = MongoOwned]
    <3>1. pc'[t] = "culling" /\ rest'[t] = MongoOwned
      BY <1>0, <2>1, GoingIs DEF TypeOK
    <3>2. \A s \in Slots : Left(t, s)' => s[1] \in MongoOwned
      BY <1>2 DEF MongoOwned
    <3>3. \A s \in Slots : Left(t, s)' => Awaits(t, s)'
      BY <1>0, <3>1, <3>2 DEF Awaits, OnOs
    <3>. QED  BY <1>1, <3>1, <3>3 DEF OneAtATime
  <2>2. CASE Return(t, "error")
    BY <1>0, <1>3, <2>2, GoingIs
  <2>3. CASE pc[t] = "culling" /\ rest[t] = {} /\ Return(t, "ok")
    <3>1. pc'[t] = "ok"
      BY <1>0, <2>3, GoingIs
    <3>2. \A s \in Slots : ~Left(t, s)'
      BY <1>0, <1>2, <2>3 DEF Awaits
    <3>. QED  BY <1>1, <3>1, <3>2 DEF OneAtATime
  <2>4. ASSUME pc[t] = "culling", NEW c \in rest[t], rest' = [rest EXCEPT ![t] = @ \ {c}], names' = [names EXCEPT ![t] = {c}],
               GoOn(t, "handle")
        PROVE  Clearing(t)'
    <3>1. pc'[t] = "handle" /\ rest'[t] = rest[t] \ {c} /\ names'[t] = {c}
      BY <1>0, <2>4, GoingIs DEF TypeOK
    <3>2. \A s \in Slots : Left(t, s)' => s[1] \in rest[t]
      BY <1>0, <1>2, <2>4 DEF Awaits
    <3>3. \A s \in Slots : Left(t, s)' => Awaits(t, s)'
      BY <1>0, <3>1, <3>2 DEF Awaits
    <3>. QED  BY <1>1, <3>1, <3>3 DEF OneAtATime
  <2>5. CASE pc[t] = "handle" /\ MongoCollection(t, Nothing) /\ UNCHANGED <<rest, names>>
    <3>1. pc'[t] \in {"ready", "making"}
      BY <1>0, <2>5, GotoIs DEF MongoCollection
    <3>2. \A s \in Slots : Left(t, s)' => s[1] \in rest[t] \cup names[t]
      BY <1>2, <2>0, <2>5 DEF Awaits
    <3>3. \A s \in Slots : Left(t, s)' => Awaits(t, s)'
      BY <1>0, <2>5, <3>1, <3>2 DEF Awaits
    <3>4. OneAtATime(t)'
      BY <1>0, <2>0, <2>5 DEF OneAtATime
    <3>. QED  BY <1>1, <3>3, <3>4
  <2>6. CASE pc[t] = "ready" /\ ~Return(t, "error") /\ UNCHANGED <<rest, names>>
    <3>. DEFINE old == {s \in In(MongoCurrent(t)) : Present(db[s]) /\ ExpiredAt(db[s], since[t])}
    <3>1. Goto(t, IF old = {} THEN "culling" ELSE "expiring", Of(old), old, found[t])
      BY <1>7, <2>6 DEF MongoCull, At
    <3>2. ASSUME NEW s \in Slots, Left(t, s)'
          PROVE  s[1] \in rest[t] \/ s \in old
      <4>1. s[1] \in rest[t] \cup names[t] /\ Present(db[s]) /\ ExpiredAt(db[s], since[t])
        BY <1>2, <2>0, <2>6, <3>2 DEF Awaits
      <4>2. s[1] \in names[t] => s[1] = MongoCurrent(t)
        BY <1>0, <2>0, <2>6 DEF OneAtATime, MongoCurrent
      <4>. QED  BY <4>1, <4>2 DEF In
    <3>. HIDE DEF old
    <3>3. pc'[t] = (IF old = {} THEN "culling" ELSE "expiring") /\ seen'[t] = Of(old) /\ todo'[t] = old
      BY <1>0, <3>1, GotoIs
    <3>4. \A s \in Slots : s \in old => seen'[t][s] = db[s]
      BY <1>0, <3>3, DbIs
    <3>5. ASSUME NEW s \in Slots, Left(t, s)'
          PROVE  Awaits(t, s)'
      <4>1. db'[s] = db[s]
        BY <1>2, <3>5
      <4>. QED  BY <1>0, <2>6, <3>2, <3>3, <3>4, <3>5, <4>1 DEF Awaits, OnOs
    <3>. QED  BY <1>1, <3>3, <3>5 DEF OneAtATime
  <2>. QED  BY <1>7, <2>1, <2>2, <2>3, <2>4, <2>5, <2>6 DEF MongoCull, At, Plain
<1>8. CASE MongoDestroyCollection(t)
  <2>0. Doing(t, {"destroy_collection"}) /\ ~Doing(t, {"cull", "destroy"})
    BY <1>8 DEF MongoDestroyCollection, At, Doing
  <2>1. OneAtATime(t)'
    BY <1>0, <2>0 DEF OneAtATime, Doing
  <2>2. ASSUME NEW s \in Slots, Left(t, s)'
        PROVE  Awaits(t, s)'
    <3>0. Present(db[s]) /\ db'[s] = db[s] /\ s[1] = call[t].coll /\ Exists(call[t].coll)
      BY <1>2, <2>0, <2>2
    <3>1. CASE pc[t] = "begin"
      <4>1. pc'[t] = "dropping"
        BY <1>0, <1>8, <3>0, <3>1, GoingIs DEF MongoDestroyCollection, At
      <4>. QED  BY <1>0, <2>0, <4>1 DEF Awaits, Doing
    <3>2. CASE pc[t] = "dropping"
      <4>1. db' = Without(In(call[t].coll))
        BY <1>8, <3>2 DEF MongoDestroyCollection, At, MongoDrop
      <4>2. db'[s] = Empty
        BY <1>0, <3>0, <4>1, DbIs DEF In
      <4>. QED  BY <3>0, <4>2 DEF Present
    <3>3. CASE pc[t] = "forgetting"
      BY <1>2, <2>0, <2>2, <3>3 DEF Awaits
    <3>. QED  BY <1>8, <3>1, <3>2, <3>3 DEF MongoDestroyCollection, At
  <2>. QED  BY <1>1, <2>1, <2>2
<1>9. CASE MongoDestroy(t)
  <2>0. Doing(t, {"destroy"}) /\ ~Doing(t, {"cull", "destroy_collection"})
    BY <1>9 DEF MongoDestroy, At, Doing
  <2>1. OneAtATime(t)'
    BY <1>0, <2>0 DEF OneAtATime, Doing
  <2>2. ASSUME NEW s \in Slots, Left(t, s)'
        PROVE  Awaits(t, s)'
    <3>0. Present(db[s]) /\ db'[s] = db[s] /\ Exists(s[1]) /\ s[1] \in Collections
      BY <1>2, <2>2
    <3>1. CASE pc[t] = "begin" /\ GoOn(t, "dropping") /\ rest' = [rest EXCEPT ![t] = MongoOwned]
      <4>1. pc'[t] = "dropping" /\ rest'[t] = MongoOwned
        BY <1>0, <3>1, GoingIs DEF TypeOK
      <4>. QED  BY <3>0, <4>1 DEF Awaits, MongoOwned
    <3>2. CASE Return(t, "error")
      BY <1>0, <3>2, GoingIs DEF Awaits
    <3>3. ASSUME pc[t] = "dropping", NEW c \in rest[t], db' = Without(In(c)), rest' = [rest EXCEPT ![t] = @ \ {c}], GoOn(t, "forgetting")
          PROVE  Awaits(t, s)'
      <4>1. pc'[t] = "forgetting" /\ rest'[t] = rest[t] \ {c}
        BY <1>0, <3>3, GoingIs DEF TypeOK
      <4>2. s[1] \in rest[t]
        BY <1>2, <2>0, <2>2, <3>3 DEF Awaits
      <4>3. s[1] # c
        <5>1. s[1] = c => db'[s] = Empty
          BY <1>0, <3>3, DbIs DEF In
        <5>. QED  BY <3>0, <5>1 DEF Present
      <4>. QED  BY <1>0, <2>0, <4>1, <4>2, <4>3 DEF Awaits, Doing
    <3>4. CASE pc[t] = "dropping" /\ rest[t] = {}
      BY <1>2, <2>0, <2>2, <3>4 DEF Awaits
    <3>5. CASE pc[t] = "forgetting" /\ GoOn(t, "dropping") /\ rest' = rest
      <4>1. s[1] \in rest[t]
        BY <1>2, <2>0, <2>2, <3>5 DEF Awaits
      <4>. QED  BY <1>0, <2>0, <3>5, <4>1, GoingIs DEF Awaits, Doing
    <3>. QED  BY <1>9, <3>1, <3>2, <3>3, <3>4, <3>5 DEF MongoDestroy, At, MongoDrop
  <2>. QED  BY <1>1, <2>1, <2>2
<1>. QED
  <2>1. Doing(t, {"cull", "collections", "destroy_collection", "destroy"}) /\ ~Doing(t, {"collections"})
    BY DEF Doing, Wide
  <2>2. ~MongoCollections(t)
    BY <2>1 DEF MongoCollections, At
  <2>. QED  BY <1>0, <1>4, <1>5, <1>6, <1>7, <1>8, <1>9, <2>1, <2>2, WideSteps

LEMMA DynamoClearing ==
    ASSUME Core, Next, NEW t \in Tasks, Advance(t), backend = "dynamodb", Doing(t, Wide), Clearing(t)
    PROVE  Clearing(t)'
<1>0. /\ Lawful /\ TypeOK /\ OwnStep(t) /\ UNCHANGED <<backend, call>> /\ Supported(t) /\ Staged(t) /\ Running(t)
      /\ ~OnS3 /\ ~OnOs /\ ~Doing(t, {"keys", "collections"})
  BY Runs, NextLawful DEF Core, Advance, Shape, OnOs, OnS3, Doing, Wide
<1>1. ASSUME \A s \in Slots : Left(t, s)' => Awaits(t, s)'
      PROVE  Clearing(t)'
  BY <1>0, <1>1 DEF Clearing, OneAtATime
<1>2. \A s \in Slots : Left(t, s)' =>
          /\ db'[s] = db[s] /\ Present(db[s]) /\ s[1] \in Collections
          /\ Doing(t, {"cull"}) => ExpiredAt(db[s], since'[t]) /\ Expired(db[s])
          /\ Doing(t, {"destroy_collection"}) => s[1] = call[t].coll
          /\ pc[t] # "begin" => Awaits(t, s) /\ since'[t] = since[t]
          /\ Exists(s[1])
  BY <1>0, LeftWas
<1>3. CASE pc'[t] \in {"error", "invalid"}
  BY <1>1, <1>3 DEF Awaits
<1>4. CASE Fail(t) \/ DynamoRefuse(t)
  BY <1>0, <1>3, <1>4, GoingIs DEF Fail, DynamoRefuse
<1>5. CASE DynamoCull(t)
  <2>0. Scans(t) /\ Doing(t, {"cull"}) /\ ~DynamoFull(t)
    BY <1>0, <1>5 DEF Scans, DynamoCull, DynamoScan, DynamoOpen, At, DynamoFull, Doing
  <2>1. CASE pc[t] = "begin" /\ pc'[t] \in {"ok", "scanning"} /\ todo'[t] = DynamoScope(t) /\ (pc'[t] = "ok" => DynamoFull(t))
    <3>1. pc'[t] = "scanning" /\ todo'[t] = Slots
      BY <1>0, <2>0, <2>1 DEF DynamoScope, Doing
    <3>. QED  BY <1>0, <1>1, <3>1 DEF Awaits, OnS3
  <2>2. ASSUME pc[t] = "scanning", pc'[t] = "expiring", todo'[t] = todo[t], NEW r \in todo[t], seen'[t] = Of({r})
        PROVE  Clearing(t)'
    <3>1. ASSUME NEW s \in Slots, Left(t, s)'
          PROVE  Awaits(t, s)'
      <4>1. s \in todo[t] /\ db'[s] = db[s]
        BY <1>2, <2>2, <3>1 DEF Awaits
      <4>2. Present(seen'[t][s]) => seen'[t][s] = db[s]
        BY <1>0, <2>2, DbIs DEF Present
      <4>. QED  BY <1>0, <2>2, <4>1, <4>2 DEF Awaits, Present
    <3>. QED  BY <1>1, <3>1
  <2>3. ASSUME pc[t] = "scanning", pc'[t] = "scanning", NEW r \in todo[t], Present(db[r]) => ~Expired(db[r]), todo'[t] = todo[t] \ {r}
        PROVE  Clearing(t)'
    <3>1. \A s \in Slots : Left(t, s)' => s \in todo[t] /\ s # r
      BY <1>2, <2>0, <2>3 DEF Awaits
    <3>2. \A s \in Slots : Left(t, s)' => Awaits(t, s)'
      BY <2>3, <3>1 DEF Awaits
    <3>. QED  BY <1>1, <3>2
  <2>4. CASE pc[t] = "scanning" /\ pc'[t] = "ok" /\ (DynamoFull(t) \/ todo[t] = {})
    <3>1. \A s \in Slots : ~Left(t, s)'
      BY <1>2, <2>0, <2>4 DEF Awaits
    <3>. QED  BY <1>1, <3>1
  <2>. QED  BY <1>0, <1>3, <2>0, <2>1, <2>2, <2>3, <2>4, ScanIs
<1>6. CASE Doing(t, {"cull"}) /\ DynamoDeleteObserved(t)
  <2>1. PICK r \in todo[t] :
           /\ pc[t] = "expiring" /\ r \in Slots /\ Present(seen[t][r])
           /\ \A s \in Slots : db'[s] = IF s = r /\ db[s] = seen[t][s] THEN Empty ELSE db[s]
           /\ pc'[t] = "scanning" /\ todo'[t] = todo[t] \ {r}
    BY <1>0, <1>6, ObservedIs DEF Scanning, Doing
  <2>2. ASSUME NEW s \in Slots, Left(t, s)'
        PROVE  Awaits(t, s)'
    <3>1. s \in todo[t] /\ (Present(seen[t][s]) => seen[t][s] = db[s])
      BY <1>0, <1>2, <2>1, <2>2 DEF Awaits
    <3>2. db'[s] # Empty
      BY <1>2, <2>2 DEF Present
    <3>3. s # r
      BY <2>1, <3>1, <3>2
    <3>. QED  BY <2>1, <3>1, <3>3 DEF Awaits
  <2>. QED  BY <1>1, <2>2
<1>7. CASE DynamoDestroyCollection(t)
  <2>0. Doing(t, {"destroy_collection"})
    BY <1>7 DEF DynamoDestroyCollection, At
  <2>1. ASSUME NEW page \in Limited({s \in In(call[t].coll) : Present(db[s])}, PageSize),
               Goto(t, IF page = {} THEN "ok" ELSE "deleting", Nothing, page, Nothing)
        PROVE  Clearing(t)'
    <3>1. pc'[t] = IF page = {} THEN "ok" ELSE "deleting"
      BY <1>0, <2>1, GotoIs
    <3>2. page # {} => Clearing(t)'
      BY <1>0, <1>1, <3>1 DEF Awaits, OnS3
    <3>3. ASSUME page = {}
          PROVE  \A s \in Slots : ~Left(t, s)'
      <4>. DEFINE S == {s \in In(call[t].coll) : Present(db[s])}
      <4>1. S \in SUBSET Slots
        BY DEF In
      <4>2. \A s \in Slots : Left(t, s)' => s \in S
        BY <1>2, <2>0 DEF In
      <4>. HIDE DEF S
      <4>3. Cardinality(page) < PageSize
        <5>1. Cardinality(page) = 0
          BY <3>3, FS_EmptySet
        <5>. QED  BY <5>1, BoundsAssumption
      <4>4. page \in Limited(S, PageSize)
        BY DEF S
      <4>5. page = S
        BY <4>1, <4>3, <4>4, LimitedFacts, BoundsAssumption
      <4>. QED  BY <3>3, <4>2, <4>5
    <3>. QED  BY <1>1, <3>2, <3>3
  <2>2. CASE Return(t, "error")
    BY <1>0, <1>3, <2>2, GoingIs
  <2>3. ASSUME NEW r \in todo[t], Goto(t, IF todo[t] = {r} THEN "again" ELSE "deleting", Nothing, todo[t] \ {r}, Nothing)
        PROVE  Clearing(t)'
    <3>1. pc'[t] \in {"again", "deleting"}
      BY <1>0, <2>3, GotoIs
    <3>. QED  BY <1>0, <1>1, <3>1 DEF Awaits, OnS3
  <2>. QED  BY <1>7, <2>1, <2>2, <2>3 DEF DynamoDestroyCollection
<1>8. CASE DynamoDestroy(t)
  <2>1. \A s \in Slots : db'[s] = Empty
    BY <1>0, <1>8, DbIs DEF DynamoDestroy
  <2>2. \A s \in Slots : ~Left(t, s)'
    BY <1>2, <2>1 DEF Present
  <2>. QED  BY <1>1, <2>2
<1>. QED
  <2>1. Doing(t, {"cull", "collections", "destroy_collection", "destroy"}) /\ ~Doing(t, {"collections"})
    BY DEF Doing, Wide
  <2>2. ~DynamoCollections(t)
    BY <2>1 DEF DynamoCollections, DynamoScan, DynamoOpen, At
  <2>3. Doing(t, {"cull", "collections"}) => Doing(t, {"cull"})
    BY <2>1 DEF Doing
  <2>. QED  BY <1>0, <1>4, <1>5, <1>6, <1>7, <1>8, <2>1, <2>2, <2>3, WideSteps

LEMMA OsClearing ==
    ASSUME Core, Next, NEW t \in Tasks, Advance(t), backend = "opensearch", Doing(t, Wide), Clearing(t)
    PROVE  Clearing(t)'
<1>0. /\ Lawful /\ TypeOK /\ OwnStep(t) /\ UNCHANGED <<backend, call>> /\ Supported(t) /\ Staged(t) /\ Running(t)
      /\ ~OnS3 /\ OnOs
  BY Runs, NextLawful DEF Core, Advance, Shape, OnOs, OnS3
<1>1. ASSUME \A s \in Slots : Left(t, s)' => Awaits(t, s)'
      PROVE  Clearing(t)'
  BY <1>0, <1>1 DEF Clearing, OneAtATime
<1>2. \A s \in Slots : Left(t, s)' =>
          /\ db'[s] = db[s] /\ Present(db[s]) /\ s[1] \in Collections
          /\ Doing(t, {"cull"}) => ExpiredAt(db[s], since'[t]) /\ Expired(db[s])
          /\ Doing(t, {"destroy_collection"}) => s[1] = call[t].coll
          /\ pc[t] # "begin" => Awaits(t, s) /\ since'[t] = since[t]
          /\ Exists(s[1])
  BY <1>0, LeftWas
<1>3. CASE pc'[t] = "error"
  BY <1>1, <1>3 DEF Awaits
<1>4. CASE Fail(t)
  BY <1>0, <1>3, <1>4, GoingIs DEF Fail
<1>5. ASSUME OsOwned = {}
      PROVE  Clearing(t)'
  <2>1. \A s \in Slots : ~Left(t, s)'
    BY <1>2, <1>5 DEF OsOwned
  <2>. QED  BY <1>1, <2>1
<1>6. CASE GoOn(t, "validating") /\ rest' = [rest EXCEPT ![t] = OsOwned]
  <2>1. pc'[t] = "validating" /\ rest'[t] = OsOwned
    BY <1>0, <1>6, GoingIs DEF TypeOK
  <2>2. \A s \in Slots : Left(t, s)' => Awaits(t, s)'
    BY <1>2, <2>1 DEF Awaits, OsOwned
  <2>. QED  BY <1>1, <2>2
<1>7. CASE Return(t, "error")
  BY <1>0, <1>3, <1>7, GoingIs
<1>8. CASE OsCull(t)
  <2>0. Doing(t, {"cull"}) /\ ~Doing(t, {"destroy", "destroy_collection"})
    BY <1>8 DEF OsCull, At, Doing
  <2>1. CASE pc[t] = "validating" /\ GoOn(t, "query") /\ rest' = rest
    <3>1. pc'[t] = "query"
      BY <1>0, <2>1, GoingIs
    <3>2. \A s \in Slots : Left(t, s)' => s[1] \in rest[t]
      BY <1>2, <2>1 DEF Awaits
    <3>3. \A s \in Slots : Left(t, s)' => Awaits(t, s)'
      BY <2>1, <3>1, <3>2 DEF Awaits
    <3>. QED  BY <1>1, <3>3
  <2>2. CASE pc[t] = "query" /\ OsCull(t)
    <3>. DEFINE S == {s \in Slots : s[1] \in rest[t]}
    <3>1. Goto(t, IF ExpiredOf(S) = {} THEN "ok" ELSE "culling", Of(ExpiredOf(S)), ExpiredOf(S), found[t])
      BY <2>2 DEF OsCull, At
    <3>2. \A s \in Slots : Left(t, s)' => s \in ExpiredOf(S)
      BY <1>2, <2>0, <2>2 DEF Awaits, ExpiredOf
    <3>. HIDE DEF S
    <3>. PICK old : old = ExpiredOf(S)
      OBVIOUS
    <3>3. pc'[t] = (IF old = {} THEN "ok" ELSE "culling") /\ seen'[t] = Of(old) /\ todo'[t] = old
      BY <1>0, <3>1, GotoIs
    <3>4. \A s \in Slots : s \in old => seen'[t][s] = db[s]
      BY <1>0, <3>3, DbIs
    <3>5. \A s \in Slots : Left(t, s)' => db'[s] = db[s] /\ s \in old
      BY <1>2, <3>2
    <3>6. \A s \in Slots : Left(t, s)' => Awaits(t, s)'
      BY <1>0, <3>3, <3>4, <3>5 DEF Awaits, OnOs
    <3>. QED  BY <1>1, <3>6
  <2>3. ASSUME pc[t] = "culling", NEW r \in todo[t], db' = Without(Unchanged(t, {r})),
               \/ Return(t, "error")
               \/ todo[t] = {r} /\ Return(t, "ok")
               \/ Goto(t, "culling", seen[t], todo[t] \ {r}, found[t])
        PROVE  Clearing(t)'
    <3>1. \A s \in Slots : Left(t, s)' => s \in todo[t] /\ seen[t][s] = db[s] /\ db'[s] = db[s] /\ db'[s] # Empty
      BY <1>0, <1>2, <2>3 DEF Awaits, Present
    <3>2. \A s \in Slots : Left(t, s)' => s # r
      BY <1>0, <2>3, <3>1, DbIs DEF Unchanged
    <3>3. CASE todo[t] = {r}
      <4>1. \A s \in Slots : ~Left(t, s)'
        BY <3>1, <3>2, <3>3
      <4>. QED  BY <1>1, <4>1
    <3>4. CASE Goto(t, "culling", seen[t], todo[t] \ {r}, found[t])
      <4>1. pc'[t] = "culling" /\ seen'[t] = seen[t] /\ todo'[t] = todo[t] \ {r}
        BY <1>0, <3>4, GotoIs
      <4>2. \A s \in Slots : Left(t, s)' => Awaits(t, s)'
        BY <1>0, <3>1, <3>2, <4>1 DEF Awaits, OnOs
      <4>. QED  BY <1>1, <4>2
    <3>. QED  BY <1>7, <2>3, <3>3, <3>4
  <2>. QED  BY <1>5, <1>6, <1>7, <1>8, <2>1, <2>2, <2>3 DEF OsCull, At, Plain
<1>9. CASE OsDestroyCollection(t)
  <2>0. Doing(t, {"destroy_collection"})
    BY <1>9 DEF OsDestroyCollection, At
  <2>1. CASE ~Exists(call[t].coll)
    <3>1. \A s \in Slots : ~Left(t, s)'
      BY <1>2, <2>0, <2>1
    <3>. QED  BY <1>1, <3>1
  <2>2. CASE pc[t] = "begin" /\ GoOn(t, "dropping")
    <3>1. pc'[t] = "dropping"
      BY <1>0, <2>2, GoingIs
    <3>2. ~Doing(t, {"destroy"})'
      BY <1>0, <2>0 DEF Doing
    <3>. QED  BY <1>1, <3>1, <3>2 DEF Awaits
  <2>3. CASE OsDrop({call[t].coll})
    <3>1. \A s \in Slots : s[1] = call[t].coll => db'[s] = Empty
      BY <1>0, <2>3, DbIs DEF OsDrop
    <3>2. \A s \in Slots : ~Left(t, s)'
      BY <1>2, <2>0, <3>1 DEF Present
    <3>. QED  BY <1>1, <3>2
  <2>. QED  BY <1>7, <1>9, <2>1, <2>2, <2>3 DEF OsDestroyCollection, At
<1>10. CASE OsDestroy(t)
  <2>0. Doing(t, {"destroy"})
    BY <1>10 DEF OsDestroy, At
  <2>1. CASE pc[t] = "validating" /\ GoOn(t, "dropping") /\ rest' = rest
    <3>1. pc'[t] = "dropping"
      BY <1>0, <2>1, GoingIs
    <3>2. \A s \in Slots : Left(t, s)' => s[1] \in rest[t]
      BY <1>2, <2>1 DEF Awaits
    <3>3. \A s \in Slots : Left(t, s)' => Awaits(t, s)'
      BY <2>1, <3>1, <3>2 DEF Awaits
    <3>. QED  BY <1>1, <3>3
  <2>2. CASE pc[t] = "dropping" /\ OsDrop(rest[t])
    <3>1. \A s \in Slots : s[1] \in rest[t] => db'[s] = Empty
      BY <1>0, <2>2, DbIs DEF OsDrop
    <3>2. \A s \in Slots : ~Left(t, s)'
      BY <1>2, <2>0, <2>2, <3>1 DEF Present, Awaits
    <3>. QED  BY <1>1, <3>2
  <2>. QED  BY <1>5, <1>6, <1>7, <1>10, <2>1, <2>2 DEF OsDestroy, At, Plain
<1>. QED
  <2>1. Doing(t, {"cull", "collections", "destroy_collection", "destroy"}) /\ ~Doing(t, {"collections"})
    BY DEF Doing, Wide
  <2>2. ~OsCollections(t)
    BY <2>1 DEF OsCollections, At
  <2>. QED  BY <1>0, <1>4, <1>8, <1>9, <1>10, <2>1, <2>2, WideSteps

LEMMA S3Clearing ==
    ASSUME Core, Next, NEW t \in Tasks, Advance(t), backend = "s3", Doing(t, Wide), Clearing(t)
    PROVE  Clearing(t)'
<1>0. /\ Lawful /\ TypeOK /\ OwnStep(t) /\ UNCHANGED <<backend, call>> /\ Supported(t) /\ Staged(t) /\ Running(t)
      /\ OnS3 /\ ~OnOs
  BY Runs, NextLawful DEF Core, Advance, Shape, OnOs, OnS3
<1>1. ASSUME \A s \in Slots : Left(t, s)' => Awaits(t, s)'
      PROVE  Clearing(t)'
  BY <1>0, <1>1 DEF Clearing, OneAtATime
<1>2. \A s \in Slots : Left(t, s)' =>
          /\ db'[s] = db[s] /\ Present(db[s]) /\ s[1] \in Collections
          /\ Doing(t, {"cull"}) => ExpiredAt(db[s], since'[t]) /\ Expired(db[s])
          /\ Doing(t, {"destroy_collection"}) => s[1] = call[t].coll
          /\ pc[t] # "begin" => Awaits(t, s) /\ since'[t] = since[t]
          /\ Exists(s[1])
  BY <1>0, LeftWas
<1>3. CASE pc'[t] \in {"error", "again", "emptied"}
  BY <1>1, <1>3 DEF Awaits
<1>4. CASE Fail(t) \/ Return(t, "error")
  BY <1>0, <1>3, <1>4, GoingIs DEF Fail
<1>5. ASSUME \A s \in Slots : ~Left(t, s)'
      PROVE  Clearing(t)'
  BY <1>1, <1>5
<1>6. ASSUME NEW stage, NEW o, NEW d, NEW f, Goto(t, stage, o, d, f), \A s \in Slots : Left(t, s)' => s \in d,
             stage \in {"scanning", "expiring", "deleting"} \/ (stage = "ok" /\ d = {})
      PROVE  Clearing(t)'
  <2>1. pc'[t] = stage /\ todo'[t] = d
    BY <1>0, <1>6, GotoIs
  <2>2. stage = "ok" => Clearing(t)'
    BY <1>5, <1>6
  <2>3. ASSUME stage # "ok", NEW s \in Slots, Left(t, s)'
        PROVE  Awaits(t, s)'
    BY <1>0, <1>6, <2>1, <2>3 DEF Awaits, OnS3
  <2>. QED  BY <1>1, <2>2, <2>3
<1>7. CASE S3Cull(t)
  <2>0. Doing(t, {"cull"})
    BY <1>7 DEF S3Cull, At
  <2>1. CASE pc[t] = "begin" /\ S3Cull(t)
    <3>. DEFINE there == {s \in Slots : Present(db[s])}
    <3>1. Return(t, "error") \/ Goto(t, IF there = {} THEN "ok" ELSE "scanning", Nothing, there, Nothing)
      BY <2>1 DEF S3Cull, At
    <3>2. \A s \in Slots : Left(t, s)' => s \in there
      BY <1>2
    <3>. HIDE DEF there
    <3>. QED  BY <1>4, <1>6, <3>1, <3>2
  <2>2. ASSUME pc[t] = "scanning", NEW r \in todo[t], Goto(t, "expiring", Of({r}), todo[t], Nothing)
        PROVE  Clearing(t)'
    <3>1. \A s \in Slots : Left(t, s)' => s \in todo[t]
      BY <1>2, <2>2 DEF Awaits
    <3>. QED  BY <1>6, <2>2, <3>1
  <2>3. ASSUME pc[t] \in {"scanning", "expiring"}, NEW r \in todo[t], ~(Present(db[r]) /\ Expired(db[r])) \/ db' = Without({r}),
               Goto(t, IF todo[t] = {r} THEN "ok" ELSE "scanning", Nothing, todo[t] \ {r}, Nothing)
        PROVE  Clearing(t)'
    <3>1. \A s \in Slots : Left(t, s)' => s \in todo[t] /\ Present(db[s]) /\ Expired(db[s]) /\ db'[s] # Empty
      BY <1>0, <1>2, <2>0, <2>3 DEF Awaits, OnS3, Present
    <3>2. \A s \in Slots : Left(t, s)' => s # r
      BY <1>0, <2>3, <3>1, DbIs
    <3>3. \A s \in Slots : Left(t, s)' => s \in todo[t] \ {r}
      BY <3>1, <3>2
    <3>. QED  BY <1>6, <2>3, <3>3
  <2>4. \/ pc[t] = "begin"
        \/ Return(t, "error")
        \/ pc[t] = "scanning" /\ \E r \in todo[t] : Goto(t, "expiring", Of({r}), todo[t], Nothing)
        \/ pc[t] \in {"scanning", "expiring"} /\ \E r \in todo[t] :
                /\ ~(Present(db[r]) /\ Expired(db[r])) \/ db' = Without({r})
                /\ Goto(t, IF todo[t] = {r} THEN "ok" ELSE "scanning", Nothing, todo[t] \ {r}, Nothing)
    BY <1>7 DEF S3Cull, At
  <2>. QED  BY <1>4, <1>7, <2>1, <2>2, <2>3, <2>4
<1>8. CASE S3DeleteObjects(t)
  <2>1. PICK r \in todo[t] :
          /\ db' = Without({r})
          /\ Goto(t, IF todo[t] # {r} THEN "deleting" ELSE IF Doing(t, {"destroy"}) THEN "again" ELSE "ok",
                  Nothing, todo[t] \ {r}, Nothing)
    BY <1>8 DEF S3DeleteObjects
  <2>2. pc[t] = "deleting"
    BY <1>8 DEF S3DeleteObjects, At
  <2>3. CASE Doing(t, {"destroy"})
    <3>1. pc'[t] \in {"deleting", "again"}
      BY <1>0, <2>1, <2>3, GotoIs
    <3>2. ~Doing(t, {"destroy_collection"})'
      BY <1>0, <2>3 DEF Doing
    <3>. QED  BY <1>1, <3>1, <3>2 DEF Awaits
  <2>4. CASE Doing(t, {"destroy_collection"})
    <3>1. \A s \in Slots : Left(t, s)' => s \in todo[t] /\ db'[s] # Empty
      BY <1>0, <1>2, <2>2, <2>4 DEF Awaits, Present
    <3>2. \A s \in Slots : Left(t, s)' => s \in todo[t] \ {r}
      BY <1>0, <2>1, <3>1, DbIs
    <3>3. ~Doing(t, {"destroy"})
      BY <2>4 DEF Doing
    <3>. QED  BY <1>6, <2>1, <3>2, <3>3
  <2>. QED  BY <1>8, <2>3, <2>4 DEF S3DeleteObjects, At, Doing
<1>9. CASE S3DestroyCollection(t)
  <2>. DEFINE there == {s \in In(call[t].coll) : Present(db[s])}
  <2>1. Return(t, "error") \/ Goto(t, IF there = {} THEN "ok" ELSE "deleting", Nothing, there, Nothing)
    BY <1>9 DEF S3DestroyCollection
  <2>2. Doing(t, {"destroy_collection"})
    BY <1>9 DEF S3DestroyCollection, At
  <2>3. \A s \in Slots : Left(t, s)' => s \in there
    BY <1>2, <2>2 DEF In
  <2>. HIDE DEF there
  <2>. QED  BY <1>4, <1>6, <2>1, <2>3
<1>10. CASE S3Destroy(t)
  <2>0. Doing(t, {"destroy"}) /\ ~Doing(t, {"destroy_collection"})'
    BY <1>0, <1>10 DEF S3Destroy, At, Doing
  <2>1. ASSUME NEW page, Goto(t, IF page = {} THEN "emptied" ELSE "deleting", Nothing, page, Nothing)
        PROVE  Clearing(t)'
    <3>1. pc'[t] \in {"emptied", "deleting"}
      BY <1>0, <2>1, GotoIs
    <3>. QED  BY <1>1, <2>0, <3>1 DEF Awaits
  <2>2. CASE db = Nothing
    <3>1. \A s \in Slots : ~Present(db[s])
      BY <1>0, <2>2, DbIs DEF Present
    <3>2. \A s \in Slots : ~Left(t, s)'
      BY <1>2, <3>1
    <3>. QED  BY <1>5, <3>2
  <2>. QED  BY <1>4, <1>10, <2>1, <2>2 DEF S3Destroy
<1>. QED
  <2>1. Doing(t, {"cull", "collections", "destroy_collection", "destroy"}) /\ ~Doing(t, {"collections"})
    BY DEF Doing, Wide
  <2>2. ~S3Collections(t)
    BY <2>1 DEF S3Collections, At
  <2>. QED  BY <1>0, <1>4, <1>7, <1>8, <1>9, <1>10, <2>1, <2>2, WideSteps

LEMMA ClearingNext ==
    ASSUME Core, Next, \A t \in Tasks : Clearing(t)
    PROVE  \A t \in Tasks : Clearing(t)'
<1>1. UNCHANGED <<backend, call>> /\ (Idle \/ \E t \in Tasks : Advance(t))
  BY NextCases DEF Next
<1>2. ASSUME NEW t \in Tasks, Advance(t)
      PROVE  Clearing(t)'
  <2>1. CASE Doing(t, Wide)
    <3>1. \/ Fail(t)
          \/ backend \in {"mongodb", "dynamodb", "opensearch", "s3"}
      <4>1. OwnStep(t) /\ Supported(t)
        BY <1>2 DEF Advance, Core
      <4>2. backend \notin {"firestore", "vault"}
        BY <2>1, <4>1 DEF Supported, Supports, KeyValue, Doing, Wide, Reads, Writes, Deletes
      <4>. QED  BY <4>1, <4>2 DEF OwnStep, BackendStep
    <3>2. CASE Fail(t)
      <4>1. pc'[t] = "error"
        BY <3>2, GoingIs DEF Fail, Core
      <4>. QED  BY <4>1 DEF Clearing, OneAtATime, Awaits
    <3>. QED  BY <1>2, <2>1, <3>1, <3>2, MongoClearing, DynamoClearing, OsClearing, S3Clearing
  <2>2. CASE ~Doing(t, Wide)
    BY <1>1, <2>2 DEF Clearing, OneAtATime, Doing, Wide
  <2>. QED  BY <2>1, <2>2
<1>. QED  BY <1>1, <1>2, ClearingStill DEF Idle, Advance

\* DestroyedGone and CullComplete (destroy, destroy_collection, cull) follow.
LEMMA ClearingAnswers ==
    ASSUME Core, \A t \in Tasks : Clearing(t)
    PROVE  DestroyedGone /\ CullComplete
<1>1. ASSUME NEW t \in Tasks, Answers(t, Wide), NEW s \in Slots
      PROVE  ~Left(t, s)
  <2>1. Doing(t, Wide) /\ pc[t] = "ok" /\ window[t] # Unwatched
    BY <1>1 DEF Answers, Done, At
  <2>. QED  BY <2>1 DEF Clearing, Awaits
<1>2. DestroyedGone
  <2>. SUFFICES ASSUME NEW t \in Tasks, Answers(t, {"destroy_collection", "destroy"}), NEW s \in Slots,
                       Doing(t, {"destroy"}) \/ s[1] = call[t].coll, Present(before[t][s]), db[s] = before[t][s]
                PROVE  FALSE
    BY DEF DestroyedGone
  <2>1. Answers(t, Wide) /\ (Doing(t, {"destroy"}) \/ (Doing(t, {"destroy_collection"}) /\ s[1] = call[t].coll))
    BY DEF Answers, Done, At, Doing, Wide
  <2>. QED  BY <1>1, <2>1 DEF Left
<1>3. CullComplete
  <2>. SUFFICES ASSUME NEW t \in Tasks, Answers(t, {"cull"}), NEW s \in Slots,
                       Present(before[t][s]), ExpiredAt(before[t][s], since[t]), db[s] = before[t][s]
                PROVE  FALSE
    BY DEF CullComplete
  <2>1. Answers(t, Wide) /\ Doing(t, {"cull"})
    BY DEF Answers, Done, At, Doing, Wide
  <2>. QED  BY <1>1, <2>1 DEF Left
<1>. QED  BY <1>2, <1>3

-----------------------------------------------------------------------------
(* What is deleted as expired *)

LEMMA ActsIs ==
    ASSUME NEW t \in Tasks, pc'[t] # pc[t] \/ todo'[t] # todo[t]
    PROVE  Acts(t)
<1>. QED  BY DEF Acts

\* What a write stores is no empty slot.
LEMMA FreshPresent ==
    ASSUME NEW t \in Tasks, NEW s, Fresh(t, s)
    PROVE  seen[t][s] # Empty
<1>. QED  BY TasksAssumption DEF Fresh, Empty

LEMMA MongoKeepsLive ==
    ASSUME Core, Next, NEW t \in Tasks, Advance(t), backend = "mongodb", Meeting(t),
           NEW s \in Slots, Live(db[s]), db'[s] = Empty
    PROVE  Doing(t, Removers) /\ Acts(t)
<1>0. TypeOK /\ OwnStep(t) /\ UNCHANGED <<backend, call>> /\ Prepped(t) /\ ~OnS3 /\ db'[s] # db[s]
  BY Runs DEF Core, Advance, Shape, OnS3, Live, Present
<1>1. ~Fail(t)
  BY <1>0 DEF Fail, serverVars
<1>2. ~(\/ MongoOpen(t) \/ MongoMakeIndexes(t) \/ MongoInspectIndexes(t) \/ MongoGet(t) \/ MongoGetMany(t)
        \/ MongoKeys(t) \/ MongoCull(t) \/ MongoCollections(t))
  BY <1>0 DEF MongoOpen, MongoMakeIndexes, MongoInspectIndexes, MongoGet, MongoGetMany, MongoKeys, MongoCull,
              MongoCollections, serverVars
<1>3. ~MongoDeleteObserved(t)
  <2>. SUFFICES ASSUME MongoDeleteObserved(t)
                PROVE  FALSE
    OBVIOUS
  <2>1. pc[t] = "expiring" /\ db' = Without(Unchanged(t, todo[t]))
    BY DEF MongoDeleteObserved
  <2>2. s \in todo[t] /\ seen[t][s] = db[s]
    BY <1>0, <2>1, DbIs DEF Unchanged
  <2>. QED  BY <2>1, <2>2 DEF Meeting, Live, Expired
<1>4. ~MongoPut(t)
  <2>1. ASSUME MongoPut(t)
        PROVE  Doing(t, Writes) /\ pc[t] = "ready" /\ db' = Stored(Target(t), seen[t])
    BY <2>1 DEF MongoPut, At, Doing, Writes
  <2>2. Doing(t, Writes) /\ pc[t] = "ready" => \A r \in Target(t) : seen[t][r] # Empty
    BY <1>0, FreshPresent DEF Prepped
  <2>. QED  BY <1>0, <2>1, <2>2, DbIs
<1>5. ~MongoPutMany(t)
  <2>1. ASSUME MongoPutMany(t)
        PROVE  Doing(t, Writes) /\ pc[t] = "writing" /\ \E r \in todo[t] : db' = Stored({r}, seen[t])
    BY <1>0, <2>1 DEF MongoPutMany, At, Doing, Writes
  <2>2. Doing(t, Writes) /\ pc[t] = "writing" => \A r \in todo[t] : seen[t][r] # Empty
    BY <1>0, FreshPresent DEF Prepped
  <2>3. \A r \in todo[t] : r \in Slots /\ {r} \in SUBSET Slots
    BY <1>0, DbIs
  <2>. SUFFICES ASSUME MongoPutMany(t)
                PROVE  FALSE
    OBVIOUS
  <2>4. PICK r \in todo[t] : db' = Stored({r}, seen[t])
    BY <2>1
  <2>5. seen[t] \in [Slots -> Doc] /\ {r} \in SUBSET Slots
    BY <1>0, <2>3, DbIs
  <2>6. db'[s] = IF s \in {r} THEN seen[t][s] ELSE db[s]
    BY <1>0, <2>4, <2>5, DbIs
  <2>. QED  BY <1>0, <2>1, <2>2, <2>6
<1>6. CASE MongoDelete(t) \/ MongoDeleteMany(t)
  <2>1. pc[t] = "ready" /\ pc'[t] = "ok" /\ Doing(t, Removers)
    BY <1>0, <1>6, GoingIs DEF MongoDelete, MongoDeleteMany, MongoDeletes, At, Doing, Removers, Deletes
  <2>. QED  BY <2>1, ActsIs
<1>7. CASE MongoDestroyCollection(t) \/ MongoDestroy(t)
  <2>1. pc[t] = "dropping" /\ GoOn(t, "forgetting") /\ Doing(t, Removers)
    BY <1>0, <1>7 DEF MongoDestroyCollection, MongoDestroy, At, Doing, Removers, serverVars
  <2>2. pc'[t] # pc[t]
    BY <1>0, <2>1, GoingIs
  <2>. QED  BY <2>1, <2>2, ActsIs
<1>. QED  BY <1>0, <1>1, <1>2, <1>3, <1>4, <1>5, <1>6, <1>7 DEF OwnStep, BackendStep, MongoNext

LEMMA DynamoKeepsLive ==
    ASSUME Core, Next, NEW t \in Tasks, Advance(t), backend = "dynamodb", Meeting(t),
           NEW s \in Slots, Live(db[s]), db'[s] = Empty
    PROVE  Doing(t, Removers) /\ Acts(t)
<1>0. TypeOK /\ OwnStep(t) /\ UNCHANGED <<backend, call>> /\ Prepped(t) /\ ~OnS3 /\ db'[s] # db[s]
  BY Runs DEF Core, Advance, Shape, OnS3, Live, Present
<1>1. ~Fail(t)
  BY <1>0 DEF Fail, serverVars
<1>2. ~(\/ DynamoEnsureTable(t) \/ DynamoEnsureTtl(t) \/ DynamoRefuse(t) \/ DynamoGet(t) \/ DynamoGetMany(t)
        \/ DynamoReadEntries(t) \/ DynamoCull(t) \/ DynamoKeys(t) \/ DynamoCollections(t))
  BY <1>0 DEF DynamoEnsureTable, DynamoEnsureTtl, DynamoRefuse, DynamoGet, DynamoReadEntry, DynamoGetMany,
              DynamoReadEntries, DynamoCull, DynamoKeys, DynamoCollections, DynamoScan, serverVars
<1>3. ~DynamoDeleteObserved(t)
  <2>. SUFFICES ASSUME DynamoDeleteObserved(t)
                PROVE  FALSE
    OBVIOUS
  <2>1. pc[t] = "expiring" /\ s \in todo[t] /\ db[s] = seen[t][s]
    BY <1>0, ObservedIs
  <2>. QED  BY <2>1 DEF Meeting, Live, Expired
<1>4. ~DynamoPut(t)
  <2>1. DynamoPut(t) => db' = Stored(Target(t), Prepared(t))
    BY DEF DynamoPut
  <2>2. \A r \in Target(t) : Prepared(t)[r] # Empty
    BY <1>0, PreparedIs DEF Present
  <2>. QED  BY <1>0, <2>1, <2>2, DbIs, PreparedIs
<1>5. ~DynamoPutMany(t)
  <2>1. ASSUME DynamoPutMany(t)
        PROVE  Doing(t, Writes) /\ pc[t] = "writing" /\ \E r \in todo[t] : db' = Stored({r}, seen[t])
    BY <1>0, <2>1 DEF DynamoPutMany, At, Doing, Writes
  <2>2. Doing(t, Writes) /\ pc[t] = "writing" => \A r \in todo[t] : seen[t][r] # Empty
    BY <1>0, FreshPresent DEF Prepped
  <2>3. \A r \in todo[t] : r \in Slots /\ {r} \in SUBSET Slots
    BY <1>0, DbIs
  <2>. SUFFICES ASSUME DynamoPutMany(t)
                PROVE  FALSE
    OBVIOUS
  <2>4. PICK r \in todo[t] : db' = Stored({r}, seen[t])
    BY <2>1
  <2>5. seen[t] \in [Slots -> Doc] /\ {r} \in SUBSET Slots
    BY <1>0, <2>3, DbIs
  <2>6. db'[s] = IF s \in {r} THEN seen[t][s] ELSE db[s]
    BY <1>0, <2>4, <2>5, DbIs
  <2>. QED  BY <1>0, <2>1, <2>2, <2>6
<1>6. CASE DynamoDelete(t) \/ DynamoDestroy(t)
  <2>1. pc[t] = "begin" /\ pc'[t] = "ok" /\ Doing(t, Removers)
    BY <1>0, <1>6, GoingIs DEF DynamoDelete, DynamoDestroy, DynamoOpen, At, Doing, Removers, Deletes
  <2>. QED  BY <2>1, ActsIs
<1>7. CASE DynamoDeleteMany(t) \/ DynamoDestroyCollection(t)
  <2>1. Doing(t, Removers)
    BY <1>7 DEF DynamoDeleteMany, DynamoDestroyCollection, DynamoOpen, At, Doing, Removers, Deletes
  <2>2. PICK r \in todo[t] : \/ Answer(t, found[t])
                             \/ \E stage, f : Goto(t, stage, Nothing, todo[t] \ {r}, f)
    BY <1>0, <1>7 DEF DynamoDeleteMany, DynamoDestroyCollection
  <2>3. todo'[t] = {} \/ todo'[t] = todo[t] \ {r}
    BY <1>0, <2>2, GoingIs, GotoIs
  <2>4. todo'[t] # todo[t]
    BY <2>2, <2>3
  <2>. QED  BY <2>1, <2>4, ActsIs
<1>. QED  BY <1>0, <1>1, <1>2, <1>3, <1>4, <1>5, <1>6, <1>7 DEF OwnStep, BackendStep, DynamoNext

\* No live entry goes, other than by a call that deletes or destroys.
LEMMA LiveKeptThere ==
    ASSUME Core, Next, \A t \in Tasks : Meeting(t), backend \in {"mongodb", "dynamodb"}
    PROVE  LiveKept
<1>. SUFFICES ASSUME NEW s \in Slots, Live(db[s]), ~ExpiredAt(db[s], now'), db'[s] = Empty
              PROVE  \E t \in Tasks : Doing(t, Removers) /\ Acts(t)
  BY DEF LiveKept
<1>1. ~Tick
  BY DEF Tick, serverVars, Live, Present
<1>2. ~NativeExpiry
  <2>. SUFFICES ASSUME NativeExpiry
                PROVE  FALSE
    OBVIOUS
  <2>1. PICK r \in Slots : Expired(db[r]) /\ db' = Without({r})
    BY DEF NativeExpiry, ServerExpires
  <2>2. r = s
    BY <2>1, DbIs DEF Core, Live, Present
  <2>. QED  BY <2>1, <2>2 DEF Live
<1>3. \E t \in Tasks : Advance(t)
  <2>1. PICK t \in Tasks : OwnStep(t)
    BY <1>1, <1>2 DEF Next, OwnStep
  <2>2. Legal(t)
    BY <2>1, StepLegal
  <2>3. \A u \in Tasks \ {t} : Still(u)
    BY <2>2, MovesOnly DEF Legal, Core
  <2>. QED  BY <2>1, <2>2, <2>3 DEF Advance
<1>. QED  BY <1>3, MongoKeepsLive, DynamoKeepsLive

-----------------------------------------------------------------------------
(* What always holds *)

\* What a call has done so far is right.
Serves(t) ==
    /\ Reading(t) /\ Meeting(t) /\ Listing(t) /\ Naming(t)
    /\ Landing(t) /\ InOrder(t) /\ Clearing(t) /\ Validating(t)

Sound == Core /\ CountedGone /\ KnownIsIndexed /\ \A t \in Tasks : Serves(t)

LEMMA SoundInit ==
    Init => Sound
<1>. SUFFICES ASSUME Init
              PROVE  Sound
  OBVIOUS
<1>1. known = {} /\ \A t \in Tasks : pc[t] = "begin"
  BY DEF Init, StoreInit
<1>2. CountedGone /\ KnownIsIndexed
  BY <1>1 DEF CountedGone, Counts, KnownIsIndexed
<1>3. ASSUME NEW t \in Tasks
      PROVE  Serves(t)
  <2>1. pc[t] = "begin"
    BY <1>1
  <2>2. Reading(t) /\ Meeting(t)
    BY <2>1 DEF Reading, Meeting
  <2>3. Listing(t) /\ Naming(t)
    BY <2>1 DEF Listing, Naming
  <2>4. Landing(t) /\ InOrder(t)
    BY <2>1 DEF Landing, InOrder, Passing
  <2>5. Clearing(t) /\ Validating(t)
    BY <2>1 DEF Clearing, OneAtATime, Awaits, Validating
  <2>. QED  BY <2>2, <2>3, <2>4, <2>5 DEF Serves
<1>. QED  BY <1>2, <1>3, CoreInit DEF Sound

LEMMA SoundNext ==
    Sound /\ Next => Sound'
<1>. SUFFICES ASSUME Sound, Next
              PROVE  Sound'
  OBVIOUS
<1>1. Core /\ CountedGone /\ KnownIsIndexed
  BY DEF Sound
<1>2. Core' /\ CountedGone' /\ KnownIsIndexed'
  BY <1>1, CoreNext, CountedNext, KnownNext
<1>3. \A t \in Tasks : Meeting(t)' /\ Listing(t)' /\ Naming(t)' /\ Clearing(t)' /\ Validating(t)'
  <2>1. /\ \A t \in Tasks : Meeting(t)
        /\ \A t \in Tasks : Listing(t) /\ Meeting(t)
        /\ \A t \in Tasks : Naming(t) /\ Meeting(t)
        /\ \A t \in Tasks : Clearing(t)
        /\ \A t \in Tasks : Validating(t)
    BY DEF Sound, Serves
  <2>2. (\A t \in Tasks : Meeting(t)') /\ (\A t \in Tasks : Listing(t)') /\ (\A t \in Tasks : Naming(t)')
    BY <1>1, <2>1, MeetingNext, ListingNext, NamingNext
  <2>3. (\A t \in Tasks : Clearing(t)') /\ (\A t \in Tasks : Validating(t)')
    BY <1>1, <2>1, ClearingNext, ValidatingNext
  <2>. QED  BY <2>2, <2>3
<1>4. \A t \in Tasks : Reading(t)' /\ Landing(t)' /\ InOrder(t)'
  <2>. SUFFICES ASSUME NEW t \in Tasks
                PROVE  Reading(t)' /\ Landing(t)' /\ InOrder(t)'
    OBVIOUS
  <2>1. Reading(t) /\ Landing(t) /\ InOrder(t)
    BY DEF Sound, Serves
  <2>. QED  BY <1>1, <2>1, ReadingNext, WritingNext
<1>. QED  BY <1>2, <1>3, <1>4 DEF Sound, Serves

LEMMA SoundStays ==
    Sound /\ UNCHANGED vars => Sound'
<1>. SUFFICES ASSUME Sound, UNCHANGED vars
              PROVE  Sound'
  OBVIOUS
<1>1. /\ backend' = backend /\ db' = db /\ made' = made /\ alien' = alien /\ known' = known /\ lock' = lock /\ now' = now
      /\ call' = call /\ pc' = pc /\ seen' = seen /\ todo' = todo /\ rest' = rest /\ found' = found /\ names' = names
      /\ since' = since /\ before' = before /\ window' = window
  BY DEF vars, serverVars, clientVars, taskVars
<1>2. Core'
  <2>1. TypeOK' /\ (\A t \in Tasks : since'[t] <= now')
    BY <1>1 DEF Sound, Core, TypeOK
  <2>2. \A u, i : Writable(u, i)' <=> Writable(u, i)
    BY <1>1 DEF Writable, OnS3, Doing
  <2>3. DocsSpent'
    <3>1. \A s \in Slots : Spent(db[s].writer)'
      BY <1>1, <2>2 DEF Sound, Core, DocsSpent, Spent
    <3>2. \A t \in Tasks, s \in Slots : Spent(before[t][s].writer)'
      BY <1>1, <2>2 DEF Sound, Core, DocsSpent, Spent
    <3>. QED  BY <3>1, <3>2 DEF DocsSpent
  <2>4. \A t \in Tasks : Supported(t)' /\ Staged(t)' /\ LoopsTyped(t)' /\ Begun(t)'
    BY <1>1 DEF Sound, Core, Supported, TooLong, Shape, Staged, Allowed, OnS3, Doing, LoopsTyped, LoopOk, Begun
  <2>5. \A t \in Tasks : Prepped(t)' /\ OwnDocs(t)'
    BY <1>1 DEF Sound, Core, Shape, Prepped, Fresh, LastPosition, Positions, Target, OnS3, Doing, OwnDocs
  <2>. QED  BY <2>1, <2>3, <2>4, <2>5 DEF Core, Shape
<1>3. CountedGone' /\ KnownIsIndexed'
  <2>1. CountedGone'
    BY <1>1 DEF Sound, CountedGone, Counts, Gone, Spent, Writable, OnS3, Doing, DeletedOnce, Present
  <2>2. KnownIsIndexed'
    BY <1>1 DEF Sound, KnownIsIndexed, Doing
  <2>. QED  BY <2>1, <2>2
<1>4. ASSUME NEW t \in Tasks
      PROVE  Serves(t)'
  <2>. USE <1>1
  <2>0. Reading(t) /\ Meeting(t) /\ Listing(t) /\ Naming(t) /\ Landing(t) /\ InOrder(t) /\ Clearing(t) /\ Validating(t)
    BY DEF Sound, Serves
  <2>1. Reading(t)'
    <3>1. Target(t)' = Target(t) /\ Past(t)' = Past(t) /\ NextSlot(t)' = NextSlot(t)
      BY DEF Target, Past, NextSlot, NextPosition
    <3>. QED  BY <2>0, <3>1 DEF Reading, Doing, Answered, ReadOk, Faded, ExpiredAt, Present, OnS3
  <2>2. Meeting(t)' /\ Validating(t)' /\ OneAtATime(t)'
    BY <2>0 DEF Meeting, Scanning, Doing, ExpiredAt, Present, Validating, OnOs, Clearing, OneAtATime
  <2>3. Listing(t)'
    BY <2>0 DEF Listing, Doing, OnS3, Answered, ReadOk, Faded, ExpiredAt, Present, Shown, In
  <2>4. Naming(t)'
    BY <2>0 DEF Naming, Named, Doing, Faded, ExpiredAt, Present
  <2>5. Landing(t)'
    <3>1. Target(t)' = Target(t) /\ \A s : LastPosition(t, s)' = LastPosition(t, s)
      BY DEF Target, LastPosition, Positions
    <3>2. \A s : Landed(t, s)' <=> Landed(t, s)
      BY <3>1 DEF Landed
    <3>. QED  BY <2>0, <3>1, <3>2 DEF Landing, Doing, OnS3
  <2>6. InOrder(t)'
    BY <2>0 DEF InOrder, Passing, Doing, OnS3, Target, Positions
  <2>7. \A s \in Slots : (Left(t, s)' <=> Left(t, s)) /\ (Awaits(t, s)' <=> Awaits(t, s))
    BY DEF Left, Doing, Present, ExpiredAt, Awaits, OnOs, OnS3, Unwatched
  <2>8. Clearing(t)'
    BY <2>0, <2>2, <2>7 DEF Clearing, Doing
  <2>. QED  BY <2>1, <2>2, <2>3, <2>4, <2>5, <2>6, <2>8 DEF Serves
<1>. QED  BY <1>2, <1>3, <1>4 DEF Sound

LEMMA SoundAlways ==
    Spec => []Sound
<1>. QED  BY SoundInit, SoundNext, SoundStays, PTL DEF Spec

\* What the variables hold, for every backend.
THEOREM DocumentsTyped ==
    Spec => []TypeOK
<1>1. Sound => TypeOK
  BY DEF Sound, Core
<1>. QED  BY <1>1, SoundAlways, PTL

\* Reads answer what was there while they ran, a document is counted as deleted by one call
\* where the server counts, keys and collections list what was there (get, ttl, get_many,
\* ttl_many, delete, delete_many, keys, collections).
THEOREM AnswersAreTrue ==
    Spec => []AnswersTrue
<1>1. Sound => AnswersTrue
  <2>. SUFFICES ASSUME Sound
                PROVE  AnswersTrue
    OBVIOUS
  <2>1. ReadsCurrent
    BY ReadingAnswers DEF Sound, Serves
  <2>2. ServerCountsDeletes
    BY CountedOnce DEF Sound
  <2>3. KeysListed
    BY ListingAnswers DEF Sound, Serves, Core
  <2>4. CollectionsComplete
    BY NamingAnswers DEF Sound, Serves
  <2>. QED  BY <2>1, <2>2, <2>3, <2>4 DEF AnswersTrue
<1>. QED  BY <1>1, SoundAlways, PTL

\* A write that succeeds has stored its entries and one that is rejected none; what destroy,
\* destroy_collection and cull report as gone is gone.
THEOREM EffectsAreDone ==
    Spec => []EffectsDone
<1>1. Sound => EffectsDone
  <2>. SUFFICES ASSUME Sound
                PROVE  EffectsDone
    OBVIOUS
  <2>1. PutsLand /\ RejectedStoreNothing
    BY WritingLands DEF Sound, Serves
  <2>2. DestroyedGone /\ CullComplete
    BY ClearingAnswers DEF Sound, Serves
  <2>. QED  BY <2>1, <2>2 DEF EffectsDone
<1>. QED  BY <1>1, SoundAlways, PTL

\* MongoDB's client counts on no index that is not there, but for one a destroy is about to
\* say it has dropped (collection, destroy_collection, destroy).
THEOREM KnownAreIndexed ==
    Spec => []KnownIsIndexed
<1>1. Sound => KnownIsIndexed
  BY DEF Sound
<1>. QED  BY <1>1, SoundAlways, PTL

\* MongoDB and DynamoDB delete an expired document only as it was seen: no live one goes
\* along (delete_observed_expired, delete_observed_expired_many).
THEOREM CleanupIsConditional ==
    Spec => ConditionalCleanup
<1>1. Sound /\ [Next]_vars => [(backend \in {"mongodb", "dynamodb"}) => LiveKept]_vars
  <2>. SUFFICES ASSUME Sound, Next, backend \in {"mongodb", "dynamodb"}
                PROVE  LiveKept
    OBVIOUS
  <2>. QED  BY LiveKeptThere DEF Sound, Serves
<1>. QED  BY <1>1, SoundAlways, PTL DEF Spec, ConditionalCleanup

\* OpenSearch's destroy deletes nothing while some index holds a malformed id.
THEOREM MalformedStops ==
    Spec => MalformedStopsDestroy
<1>1. Sound /\ [Next]_vars =>
        [(backend = "opensearch" /\ alien # {}) => \A t \in Tasks : Doing(t, {"destroy"}) /\ Acts(t) => db' = db]_vars
  <2>. SUFFICES ASSUME Sound, Next, backend = "opensearch", alien # {}, NEW t \in Tasks, Doing(t, {"destroy"}), Acts(t)
                PROVE  db' = db
    OBVIOUS
  <2>. QED  BY ValidatingNext DEF Sound, Serves, OnOs
<1>. QED  BY <1>1, SoundAlways, PTL DEF Spec, MalformedStopsDestroy
=============================================================================
