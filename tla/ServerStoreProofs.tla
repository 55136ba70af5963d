------------------------- MODULE ServerStoreProofs -------------------------
(***************************************************************************)
(* What the theorems about the stores have in common: facts about calls and *)
(* documents, and about what a call's history variables hold.  A step of    *)
(* any store, whatever it does, is Lawful; while a call runs, its window    *)
(* takes in the contents of every slot, so that an answer that was right    *)
(* stays so.                                                                *)
(***************************************************************************)
EXTENDS ServerStore, FiniteSetTheorems, TLAPS

-----------------------------------------------------------------------------
(* What the operators return *)

\* A finite set of numbers has a least and a greatest element.
LEMMA ExtremesExist ==
    ASSUME NEW S \in SUBSET Nat, IsFiniteSet(S), S # {}
    PROVE  /\ \E m \in S : \A j \in S : j <= m
           /\ \E m \in S : \A j \in S : m <= j
<1>1. IsWellFoundedOn(StrictSubsetOrdering(S), FiniteSubsetsOf(S)) /\ FiniteSubsetsOf(S) = SUBSET S
  BY FS_StrictSubsetOrderingWellFounded, FS_FiniteSubsetsOfFinite
<1>2. ASSUME NEW F \in SUBSET SUBSET S, F # {}
      PROVE  \E x \in F : \A y \in F : y \subseteq x => y = x
  <2>1. \E x \in F : \A y \in F : ~(<<y, x>> \in StrictSubsetOrdering(S))
    <3>. DEFINE R == StrictSubsetOrdering(S)
                D == FiniteSubsetsOf(S)
    <3>1. IsWellFoundedOn(R, D) /\ F \subseteq D
      BY <1>1, <1>2
    <3>. HIDE DEF R, D
    <3>2. \E x \in F : \A y \in F : ~(<<y, x>> \in R)
      BY <1>2, <3>1, WFMin, Zenon
    <3>. QED  BY <3>2 DEF R
  <2>. QED  BY <1>2, <2>1 DEF StrictSubsetOrdering
<1>3. \E m \in S : \A j \in S : j <= m
  <2>. DEFINE Above(i) == {l \in S : l > i}
              Family == {Above(i) : i \in S}
  <2>0. \A i \in S : Above(i) \subseteq S /\ Above(i) \in Family
    OBVIOUS
  <2>1. Family \in SUBSET SUBSET S /\ Family # {}
    <3>. HIDE DEF Above
    <3>1. Family \in SUBSET SUBSET S
      BY <2>0
    <3>2. PICK s \in S : TRUE
      OBVIOUS
    <3>3. Above(s) \in Family
      BY <2>0
    <3>. QED  BY <3>1, <3>3, Zenon
  <2>. HIDE DEF Family
  <2>2. PICK x \in Family : \A y \in Family : y \subseteq x => y = x
    BY <1>2, <2>1
  <2>3. PICK m \in S : x = Above(m)
    BY <2>2 DEF Family
  <2>4. ASSUME NEW j \in S, ~(j <= m) PROVE FALSE
    <3>1. j \in Nat /\ m \in Nat /\ \A l \in S : l \in Nat
      OBVIOUS
    <3>2. j \in Above(m) /\ j \notin Above(j)
      BY <2>4, <3>1
    <3>3. ASSUME NEW l \in S, l > j PROVE l > m
      BY <2>4, <3>1, <3>3
    <3>4. Above(j) \subseteq Above(m)
      BY <3>3
    <3>. HIDE DEF Above
    <3>. QED  BY <2>0, <2>2, <2>3, <3>2, <3>4
  <2>. QED  BY <2>4
<1>4. \E m \in S : \A j \in S : m <= j
  <2>. DEFINE Below(i) == {l \in S : l < i}
              Family == {Below(i) : i \in S}
  <2>0. \A i \in S : Below(i) \subseteq S /\ Below(i) \in Family
    OBVIOUS
  <2>1. Family \in SUBSET SUBSET S /\ Family # {}
    <3>. HIDE DEF Below
    <3>1. Family \in SUBSET SUBSET S
      BY <2>0
    <3>2. PICK s \in S : TRUE
      OBVIOUS
    <3>3. Below(s) \in Family
      BY <2>0
    <3>. QED  BY <3>1, <3>3, Zenon
  <2>. HIDE DEF Family
  <2>2. PICK x \in Family : \A y \in Family : y \subseteq x => y = x
    BY <1>2, <2>1
  <2>3. PICK m \in S : x = Below(m)
    BY <2>2 DEF Family
  <2>4. ASSUME NEW j \in S, ~(m <= j) PROVE FALSE
    <3>1. j \in Nat /\ m \in Nat /\ \A l \in S : l \in Nat
      OBVIOUS
    <3>2. j \in Below(m) /\ j \notin Below(j)
      BY <2>4, <3>1
    <3>3. ASSUME NEW l \in S, l < j PROVE l < m
      BY <2>4, <3>1, <3>3
    <3>4. Below(j) \subseteq Below(m)
      BY <3>3
    <3>. HIDE DEF Below
    <3>. QED  BY <2>0, <2>2, <2>3, <3>2, <3>4
  <2>. QED  BY <2>4
<1>. QED  BY <1>3, <1>4

\* A call's parameters are what the assumptions say.
LEMMA CallFacts ==
    ASSUME TypeOK, NEW t \in Tasks
    PROVE  /\ call[t] \in Calls /\ call[t].coll \in Collections
           /\ call[t].keys \in Seq({s[2] : s \in Slots} \cup LongKeys)
           /\ DOMAIN call[t].keys = 1 .. Len(call[t].keys) /\ Len(call[t].keys) \in Nat
           /\ call[t].ttl \in Nat /\ call[t].limit \in Nat
           /\ \A i \in DOMAIN call[t].keys :
                call[t].keys[i] \in LongKeys \/ <<call[t].coll, call[t].keys[i]>> \in Slots
<1>1. call[t] \in Calls
  BY DEF TypeOK
<1>2. call[t].keys \in Seq({s[2] : s \in Slots} \cup LongKeys)
  BY <1>1, CallsAssumption
<1>3. DOMAIN call[t].keys = 1 .. Len(call[t].keys) /\ Len(call[t].keys) \in Nat
  BY <1>2
<1>. QED  BY <1>1, <1>2, <1>3, CallsAssumption

\* Of the positions of a batch, the last of a key and the next one to take.
LEMMA PositionFacts ==
    ASSUME TypeOK, NEW t \in Tasks
    PROVE  /\ \A s \in Target(t) : LastPosition(t, s) \in Positions(t, s)
                /\ \A j \in Positions(t, s) : j <= LastPosition(t, s)
           /\ rest[t] # {} /\ rest[t] \subseteq DOMAIN call[t].keys =>
                NextPosition(t) \in rest[t] /\ \A j \in rest[t] : NextPosition(t) <= j
<1>1. DOMAIN call[t].keys \in SUBSET Nat /\ IsFiniteSet(DOMAIN call[t].keys)
  <2>1. DOMAIN call[t].keys = 1 .. Len(call[t].keys) /\ Len(call[t].keys) \in Nat
    BY CallFacts
  <2>2. IsFiniteSet(1 .. Len(call[t].keys))
    <3>. DEFINE n == Len(call[t].keys)
    <3>1. n \in Int /\ 1 \in Int
      BY <2>1
    <3>. HIDE DEF n
    <3>2. IsFiniteSet(1 .. n)
      BY <3>1, FS_Interval, Zenon
    <3>. QED  BY <3>2 DEF n
  <2>3. \A n \in Nat : (1 .. n) \in SUBSET Nat
    OBVIOUS
  <2>. QED  BY <2>1, <2>2, <2>3
<1>2. ASSUME NEW P \in SUBSET DOMAIN call[t].keys
      PROVE  P \in SUBSET Nat /\ IsFiniteSet(P)
  BY <1>1, FS_Subset
<1>3. ASSUME NEW s \in Target(t)
      PROVE  LastPosition(t, s) \in Positions(t, s) /\ \A j \in Positions(t, s) : j <= LastPosition(t, s)
  <2>1. Positions(t, s) \in SUBSET DOMAIN call[t].keys /\ Positions(t, s) # {}
    BY DEF Target, Positions
  <2>2. \E m \in Positions(t, s) : \A j \in Positions(t, s) : j <= m
    <3>. HIDE DEF Positions
    <3>. QED  BY <2>1, <1>2, ExtremesExist
  <2>. QED  BY <2>2 DEF LastPosition
<1>4. ASSUME rest[t] # {}, rest[t] \in SUBSET DOMAIN call[t].keys
      PROVE  NextPosition(t) \in rest[t] /\ \A j \in rest[t] : NextPosition(t) <= j
  <2>1. \E m \in rest[t] : \A j \in rest[t] : m <= j
    BY <1>2, <1>4, ExtremesExist
  <2>. QED  BY <2>1 DEF NextPosition
<1>. QED  BY <1>3, <1>4

\* The documents a call makes, and what is not one.
LEMMA DocFacts ==
    ASSUME TypeOK
    PROVE  /\ Empty \in Doc /\ Nothing \in [Slots -> Doc] /\ \A s \in Slots : Nothing[s] = Empty
           /\ ~Present(Empty) /\ \A m : ~ExpiredAt(Empty, m)
           /\ \A S : Of(S) \in [Slots -> Doc]
           /\ \A S : Without(S) \in [Slots -> Doc]
           /\ \A t \in Tasks : \A i \in DOMAIN call[t].keys :
                /\ NewDoc(t, i, now) \in Doc /\ NewDoc(t, i, now).writer = <<t, i>>
                /\ Present(NewDoc(t, i, now)) /\ ~ExpiredAt(NewDoc(t, i, now), now)
<1>1. Empty \in Doc
  BY DEF Empty, Doc, NoExpiry
<1>2. db \in [Slots -> Doc] /\ now \in Nat
  BY BoundsAssumption DEF TypeOK
<1>3. ASSUME NEW t \in Tasks, NEW i \in DOMAIN call[t].keys
      PROVE  /\ NewDoc(t, i, now) \in Doc /\ NewDoc(t, i, now).writer = <<t, i>>
             /\ Present(NewDoc(t, i, now)) /\ ~ExpiredAt(NewDoc(t, i, now), now)
  <2>1. call[t].ttl \in Nat /\ i \in Nat
    <3>1. call[t].ttl \in Nat /\ DOMAIN call[t].keys = 1 .. Len(call[t].keys) /\ Len(call[t].keys) \in Nat
      BY CallFacts
    <3>. QED  BY <1>3, <3>1
  <2>2. ExpirationAt(call[t].ttl, now) \in Nat
        /\ (ExpirationAt(call[t].ttl, now) = NoExpiry \/ ExpirationAt(call[t].ttl, now) > now)
    BY <1>2, <2>1 DEF ExpirationAt, NoTtl, NoExpiry
  <2>. QED  BY <2>1, <2>2, <1>2, TasksAssumption DEF NewDoc, Doc, Present, Empty, ExpiredAt
<1>. QED  BY <1>1, <1>2, <1>3 DEF Nothing, Of, Without, Present, ExpiredAt, Empty

\* Storing a batch at once.
LEMMA StoredFacts ==
    ASSUME TypeOK, NEW t \in Tasks
    PROVE  /\ Stored(Target(t), Prepared(t)) \in [Slots -> Doc]
           /\ \A s \in Slots \ Target(t) : Stored(Target(t), Prepared(t))[s] = db[s]
           /\ \A s \in Target(t) :
                /\ Stored(Target(t), Prepared(t))[s] = NewDoc(t, LastPosition(t, s), now)
                /\ LastPosition(t, s) \in DOMAIN call[t].keys
<1>1. \A s \in Target(t) : LastPosition(t, s) \in DOMAIN call[t].keys
  BY PositionFacts DEF Positions
<1>2. \A s \in Target(t) : NewDoc(t, LastPosition(t, s), now) \in Doc
  BY <1>1, DocFacts
<1>3. db \in [Slots -> Doc] /\ Target(t) \subseteq Slots
  BY DEF TypeOK, Target
<1>. HIDE DEF NewDoc, LastPosition, Target
<1>. QED  BY <1>1, <1>2, <1>3 DEF Stored, Prepared

\* A limit that is not reached lets everything through.
LEMMA LimitedIs ==
    ASSUME NEW S, IsFiniteSet(S), NEW n \in Nat, NEW T \in Limited(S, n)
    PROVE  T \subseteq S /\ IsFiniteSet(T) /\ Cardinality(T) \in Nat /\ (Cardinality(T) < n => T = S)
<1>1. T \in SUBSET S /\ Cardinality(T) = IF Cardinality(S) < n THEN Cardinality(S) ELSE n
  BY DEF Limited
<1>2. /\ IsFiniteSet(T) /\ Cardinality(T) \in Nat
      /\ Cardinality(S) = Cardinality(T) => S = T
  BY <1>1, FS_Subset, FS_CardinalityType
<1>. QED  BY <1>1, <1>2

LEMMA LimitedFacts ==
    ASSUME NEW S \in SUBSET Slots, NEW n \in Nat, NEW T \in Limited(S, n)
    PROVE  T \subseteq S /\ (Cardinality(T) < n => T = S)
<1>1. IsFiniteSet(S)
  BY SlotsAssumption, FS_Subset
<1>. QED  BY <1>1, LimitedIs

\* The documents that a call prepares.
LEMMA NewDocIs ==
    ASSUME TypeOK, NEW t \in Tasks, NEW i \in DOMAIN call[t].keys, NEW m \in Nat
    PROVE  NewDoc(t, i, m) \in Doc /\ NewDoc(t, i, m).writer = <<t, i>> /\ Present(NewDoc(t, i, m))
<1>1. call[t].ttl \in Nat /\ i \in Nat
  <2>1. call[t].ttl \in Nat /\ DOMAIN call[t].keys = 1 .. Len(call[t].keys) /\ Len(call[t].keys) \in Nat
    BY CallFacts
  <2>. QED  BY <2>1
<1>2. ExpirationAt(call[t].ttl, m) \in Nat
  BY <1>1 DEF ExpirationAt, NoTtl, NoExpiry
<1>. QED  BY <1>1, <1>2, TasksAssumption DEF NewDoc, Doc, Present, Empty

LEMMA PreparedIs ==
    ASSUME TypeOK, NEW t \in Tasks
    PROVE  /\ Prepared(t) \in [Slots -> Doc]
           /\ \A s \in Target(t) : /\ Prepared(t)[s].writer = <<t, LastPosition(t, s)>> /\ Present(Prepared(t)[s])
                                   /\ LastPosition(t, s) \in Positions(t, s) /\ LastPosition(t, s) \in DOMAIN call[t].keys
<1>1. now \in Nat /\ Target(t) \subseteq Slots
  BY BoundsAssumption DEF TypeOK, Target
<1>2. \A s \in Target(t) : LastPosition(t, s) \in Positions(t, s) /\ LastPosition(t, s) \in DOMAIN call[t].keys
  BY PositionFacts DEF Positions
<1>3. ASSUME NEW s \in Target(t)
      PROVE  /\ NewDoc(t, LastPosition(t, s), now) \in Doc
             /\ NewDoc(t, LastPosition(t, s), now).writer = <<t, LastPosition(t, s)>>
             /\ Present(NewDoc(t, LastPosition(t, s), now))
  BY <1>1, <1>2, NewDocIs
<1>4. Empty \in Doc
  BY DocFacts
<1>. HIDE DEF NewDoc, LastPosition, Target
<1>. QED  BY <1>1, <1>2, <1>3, <1>4 DEF Prepared

\* What requests leave in db, and what is fetched of it.
LEMMA DbIs ==
    ASSUME TypeOK
    PROVE  /\ db \in [Slots -> Doc] /\ Empty \in Doc /\ Nothing \in [Slots -> Doc]
           /\ \A s \in Slots : Nothing[s] = Empty
           /\ \A S : Without(S) \in [Slots -> Doc] /\ \A s \in Slots : Without(S)[s] = IF s \in S THEN Empty ELSE db[s]
           /\ \A S : Of(S) \in [Slots -> Doc] /\ \A s \in Slots : Of(S)[s] = IF s \in S THEN db[s] ELSE Empty
           /\ \A o \in [Slots -> Doc], S \in SUBSET Slots : Stored(S, o) \in [Slots -> Doc]
                    /\ \A s \in Slots : Stored(S, o)[s] = IF s \in S THEN o[s] ELSE db[s]
           /\ \A t \in Tasks : Target(t) \subseteq Slots /\ todo[t] \subseteq Slots
                    /\ found[t] \in [Slots -> Doc] /\ seen[t] \in [Slots -> Doc]
           /\ \A S : ExpiredOf(S) \subseteq S /\ LiveOf(S) \subseteq S
           /\ \A c : In(c) \subseteq Slots
<1>. QED  BY DocFacts DEF TypeOK, Without, Of, Stored, Nothing, Target, ExpiredOf, LiveOf, In

\* What the history variables become.
LEMMA WatchFacts ==
    ASSUME Watch, NEW t \in Tasks
    PROVE  /\ since'[t] = IF pc[t] = "begin" /\ pc'[t] # "begin" THEN now
                          ELSE IF pc[t] \in Ended THEN 0 ELSE since[t]
           /\ before'[t] = IF pc[t] = "begin" /\ pc'[t] # "begin" THEN db
                           ELSE IF pc[t] \in Ended THEN Nothing ELSE before[t]
           /\ pc[t] \in Ended \/ pc'[t] = "begin" => window'[t] = Unwatched
           /\ pc[t] \notin Ended /\ pc'[t] # "begin" =>
                \A s \in Slots : window'[t][s] = window[t][s] \cup {db[s], db'[s]}
<1>. QED  BY DEF Watch

-----------------------------------------------------------------------------
(* The history of a call *)

\* What every store's steps have in common.
Lawful ==
    /\ TypeOK /\ Watch /\ UNCHANGED <<backend, call>>
    /\ db' \in [Slots -> Doc] /\ now' \in 0 .. MaxTime /\ now <= now'
    /\ \A t \in Tasks : since[t] <= now

Running(t) == pc[t] \notin Ended /\ pc'[t] # "begin"

\* While it runs, a call's window takes in what each slot holds.
LEMMA WindowGrows ==
    ASSUME Lawful, NEW t \in Tasks, Running(t)
    PROVE  /\ \A s \in Slots : /\ window[t][s] \subseteq window'[t][s] /\ window'[t][s] \subseteq Doc
                               /\ db[s] \in window'[t][s] /\ db'[s] \in window'[t][s]
           /\ since'[t] = IF pc[t] = "begin" THEN now ELSE since[t]
           /\ before'[t] = IF pc[t] = "begin" THEN db ELSE before[t]
           /\ since'[t] \in Nat /\ now \in Nat /\ now' \in Nat /\ since'[t] <= now
<1>1. /\ since'[t] = IF pc[t] = "begin" THEN now ELSE since[t]
      /\ before'[t] = IF pc[t] = "begin" THEN db ELSE before[t]
      /\ \A s \in Slots : window'[t][s] = window[t][s] \cup {db[s], db'[s]}
  BY WatchFacts DEF Lawful, Running
<1>2. \A s \in Slots : window[t][s] \subseteq Doc /\ db[s] \in Doc /\ db'[s] \in Doc
  BY DEF Lawful, TypeOK
<1>3. since'[t] \in Nat /\ now \in Nat /\ now' \in Nat /\ since'[t] <= now
  BY <1>1, BoundsAssumption DEF Lawful, TypeOK
<1>. QED  BY <1>1, <1>2, <1>3

\* A call that has returned answers no more.
LEMMA AnswersOnce ==
    ASSUME Lawful, NEW t \in Tasks, window'[t] # Unwatched
    PROVE  Running(t)
<1>. QED  BY WatchFacts DEF Lawful, Running

\* Documents that are not live then.
Faded(d, m) == ~(Present(d) /\ ~ExpiredAt(d, m))

\* d answers a read that lasted from one time to the other, W being what the slot held.
ReadOk(d, W, from, to) ==
    IF Present(d) THEN d \in W /\ ~ExpiredAt(d, from) ELSE \E e \in W : Faded(e, to)

\* Of a document seen while the call ran, what is live answers it.
LEMMA ReadOkSift ==
    ASSUME Lawful, NEW t \in Tasks, Running(t), NEW s \in Slots, NEW d \in window'[t][s],
           NEW e, e = IF Live(d) THEN d ELSE Empty
    PROVE  ReadOk(e, window'[t][s], since'[t], now')
<1>1. d \in Doc /\ d.expires \in Nat
  BY WindowGrows DEF Doc
<1>2. since'[t] \in Nat /\ now \in Nat /\ now' \in Nat /\ since'[t] <= now /\ now <= now'
  BY WindowGrows DEF Lawful
<1>3. ~ExpiredAt(d, now) => ~ExpiredAt(d, since'[t])
  BY <1>1, <1>2 DEF ExpiredAt
<1>4. ExpiredAt(d, now) => ExpiredAt(d, now')
  BY <1>1, <1>2 DEF ExpiredAt
<1>5. CASE Live(d)
  BY <1>3, <1>5 DEF ReadOk, Live, Expired, Present
<1>6. CASE ~Live(d)
  BY <1>4, <1>6 DEF ReadOk, Faded, Live, Expired, Present
<1>. QED  BY <1>5, <1>6

\* The contents at the time are such a document.
LEMMA ReadOkNow ==
    ASSUME Lawful, NEW t \in Tasks, Running(t), NEW s \in Slots, NEW e, e = IF Live(db[s]) THEN db[s] ELSE Empty
    PROVE  ReadOk(e, window'[t][s], since'[t], now')
<1>1. db[s] \in window'[t][s]
  BY WindowGrows
<1>. QED  BY <1>1, ReadOkSift

\* What has faded stays so.
LEMMA FadedStays ==
    ASSUME Lawful, NEW t \in Tasks, Running(t), NEW s \in Slots, \E e \in window[t][s] : Faded(e, now)
    PROVE  \E e \in window'[t][s] : Faded(e, now')
<1>1. PICK e \in window[t][s] : Faded(e, now)
  OBVIOUS
<1>2. e \in window'[t][s] /\ e \in Doc /\ e.expires \in Nat
  BY WindowGrows DEF Doc
<1>3. now \in Nat /\ now' \in Nat /\ now <= now'
  BY WindowGrows DEF Lawful
<1>4. ExpiredAt(e, now) => ExpiredAt(e, now')
  BY <1>2, <1>3 DEF ExpiredAt
<1>. QED  BY <1>1, <1>2, <1>4 DEF Faded

\* An answer that is right stays so.
LEMMA ReadOkStays ==
    ASSUME Lawful, NEW t \in Tasks, Running(t), pc[t] # "begin", NEW s \in Slots,
           NEW d, ReadOk(d, window[t][s], since[t], now)
    PROVE  ReadOk(d, window'[t][s], since'[t], now')
<1>1. window[t][s] \subseteq window'[t][s] /\ since'[t] = since[t]
  BY WindowGrows
<1>2. CASE Present(d)
  BY <1>1, <1>2 DEF ReadOk
<1>3. CASE ~Present(d)
  BY <1>3, FadedStays DEF ReadOk
<1>. QED  BY <1>2, <1>3

-----------------------------------------------------------------------------
(* The steps of a call *)

\* A step moves its own call only.
Moves(t) ==
    /\ pc' = [pc EXCEPT ![t] = pc'[t]] /\ seen' = [seen EXCEPT ![t] = seen'[t]]
    /\ todo' = [todo EXCEPT ![t] = todo'[t]] /\ found' = [found EXCEPT ![t] = found'[t]]
    /\ rest' = [rest EXCEPT ![t] = rest'[t]] /\ names' = [names EXCEPT ![t] = names'[t]]

Still(u) ==
    /\ pc'[u] = pc[u] /\ seen'[u] = seen[u] /\ todo'[u] = todo[u]
    /\ found'[u] = found[u] /\ rest'[u] = rest[u] /\ names'[u] = names[u]

LEMMA MovesOnly ==
    ASSUME TypeOK, NEW t \in Tasks, Moves(t), NEW u \in Tasks, u # t
    PROVE  Still(u)
<1>. QED  BY DEF Moves, Still, TypeOK

LEMMA GotoIs ==
    ASSUME TypeOK, NEW t \in Tasks, NEW stage, NEW o, NEW d, NEW f, Goto(t, stage, o, d, f)
    PROVE  /\ pc'[t] = stage /\ seen'[t] = o /\ todo'[t] = d /\ found'[t] = f
           /\ pc' = [pc EXCEPT ![t] = pc'[t]] /\ seen' = [seen EXCEPT ![t] = seen'[t]]
           /\ todo' = [todo EXCEPT ![t] = todo'[t]] /\ found' = [found EXCEPT ![t] = found'[t]]
<1>. QED  BY DEF Goto, TypeOK

\* The ways to go on.
LEMMA GoingIs ==
    ASSUME TypeOK, NEW t \in Tasks
    PROVE  /\ \A stage : GoOn(t, stage) =>
                pc'[t] = stage /\ seen'[t] = seen[t] /\ todo'[t] = todo[t] /\ found'[t] = found[t]
           /\ \A how : Return(t, how) =>
                pc'[t] = how /\ seen'[t] = Nothing /\ todo'[t] = {} /\ found'[t] = found[t]
           /\ \A f : Answer(t, f) => pc'[t] = "ok" /\ seen'[t] = Nothing /\ todo'[t] = {} /\ found'[t] = f
<1>1. ASSUME NEW stage, GoOn(t, stage)
      PROVE  pc'[t] = stage /\ seen'[t] = seen[t] /\ todo'[t] = todo[t] /\ found'[t] = found[t]
  BY <1>1 DEF GoOn, Goto, TypeOK
<1>2. ASSUME NEW how, Return(t, how)
      PROVE  pc'[t] = how /\ seen'[t] = Nothing /\ todo'[t] = {} /\ found'[t] = found[t]
  BY <1>2 DEF Return, Goto, TypeOK
<1>3. ASSUME NEW f, Answer(t, f)
      PROVE  pc'[t] = "ok" /\ seen'[t] = Nothing /\ todo'[t] = {} /\ found'[t] = f
  BY <1>3 DEF Answer, Goto, TypeOK
<1>. QED  BY <1>1, <1>2, <1>3

\* A read that fetches all its keys at once has its answer then.
LEMMA FetchIs ==
    ASSUME TypeOK, NEW t \in Tasks, found[t] = Nothing, NEW decoded \in BOOLEAN, Fetch(t, decoded)
    PROVE  /\ pc'[t] \in {"ok", "expiring", "error"}
           /\ pc'[t] # "error" =>
                /\ \A s \in Target(t) : found'[t][s] = IF Live(db[s]) THEN db[s] ELSE Empty
                /\ todo'[t] = ExpiredOf(Target(t)) /\ seen'[t] = Of(Target(t))
<1>1. Target(t) \subseteq Slots
  BY DEF Target
<1>2. CASE decoded
  <2>1. /\ pc'[t] = (IF ExpiredOf(Target(t)) = {} THEN "ok" ELSE "expiring")
        /\ found'[t] = [s \in Slots |-> IF s \in LiveOf(Target(t)) THEN db[s] ELSE found[t][s]]
        /\ todo'[t] = ExpiredOf(Target(t)) /\ seen'[t] = Of(Target(t))
    BY <1>2 DEF Fetch, Goto, TypeOK
  <2>. QED  BY <1>1, <2>1 DEF LiveOf, Nothing
<1>3. CASE ~decoded
  BY <1>3 DEF Fetch, Return, Goto, TypeOK
<1>. QED  BY <1>2, <1>3

\* Requests that store nothing.
Drops == db' \in [Slots -> Doc] /\ \A s \in Slots : db'[s] \in {db[s], Empty}

\* Ways to store nothing.
LEMMA DropsIs ==
    ASSUME TypeOK
    PROVE  /\ db' = db \/ db' = Nothing => Drops
           /\ \A S : db' = Without(S) => Drops
<1>. QED  BY DbIs DEF Drops

\* The variables of tasks are functions on tasks.
Domains ==
    /\ pc = [u \in Tasks |-> pc[u]] /\ seen = [u \in Tasks |-> seen[u]] /\ found = [u \in Tasks |-> found[u]]
    /\ todo = [u \in Tasks |-> todo[u]] /\ rest = [u \in Tasks |-> rest[u]] /\ names = [u \in Tasks |-> names[u]]

LEMMA DomainsKept ==
    ASSUME TypeOK, taskVars' = taskVars \/ \E t \in Tasks : Moves(t)
    PROVE  Domains'
<1>. QED  BY DEF Domains, TypeOK, Moves, taskVars

\* A batch is numbered.
LEMMA KeysNumbered ==
    ASSUME TypeOK, NEW t \in Tasks
    PROVE  DOMAIN call[t].keys \in SUBSET Nat
<1>1. DOMAIN call[t].keys = 1 .. Len(call[t].keys) /\ Len(call[t].keys) \in Nat
  BY CallFacts
<1>2. \A n \in Nat : (1 .. n) \in SUBSET Nat
  OBVIOUS
<1>. QED  BY <1>1, <1>2

\* Numbers that come after.
LEMMA AfterAll ==
    ASSUME NEW n \in Nat, NEW R \in SUBSET Nat, NEW D \in SUBSET Nat, n \in R, \A j \in R : n <= j,
           \A i \in D \ R : \A j \in R : i < j
    PROVE  /\ \A i \in D \ (R \ {n}) : \A j \in R \ {n} : i < j
           /\ \A i \in D \ (R \ {n}) : i <= n
<1>1. \A i \in D \ (R \ {n}) : i \in D \ R \/ i = n
  OBVIOUS
<1>2. \A j \in R \ {n} : j \in Nat /\ n < j
  <2>1. \A j \in Nat : n <= j /\ j # n => n < j
    OBVIOUS
  <2>. QED  BY <2>1
<1>3. \A i \in D \ R : i \in Nat /\ i <= n
  <2>1. \A i \in Nat : i < n => i <= n
    OBVIOUS
  <2>. QED  BY <2>1
<1>4. n <= n
  OBVIOUS
<1>. QED  BY <1>1, <1>2, <1>3, <1>4

\* What has landed was there while the call ran.
Landed(t, s) == \E d \in window[t][s] : d.writer = <<t, LastPosition(t, s)>>

LEMMA LandedStays ==
    ASSUME Lawful, NEW t \in Tasks, Running(t), NEW s \in Slots
    PROVE  Landed(t, s) \/ db'[s].writer = <<t, LastPosition(t, s)>> => Landed(t, s)'
<1>1. LastPosition(t, s)' = LastPosition(t, s)
  BY DEF Lawful, LastPosition, Positions
<1>2. window[t][s] \subseteq window'[t][s] /\ db'[s] \in window'[t][s]
  BY WindowGrows
<1>. HIDE DEF LastPosition
<1>. QED  BY <1>1, <1>2 DEF Landed
=============================================================================
