-------------------------- MODULE MigrationProofs --------------------------
(***************************************************************************)
(* Proofs about migration.rs and migrate_into_keyspace: moving the keys of  *)
(* a Redis store in place removes no old key before its entry is under the  *)
(* new one and its collection in the registry, wherever it stops; entries   *)
(* keep their times to live, to two milliseconds; and when the feed has     *)
(* been applied, a copy has what the source has.                            *)
(***************************************************************************)
EXTENDS Migration, FiniteSetTheorems, TLAPS

AnyEntry == [put : Nat, expires : Nat]
Going == {s \in Slots : Goes(s)}

\* No attempt has begun.
Before == step = "start" /\ restarts = 0

\* What is under a new key was written by a client of the new layout, or it is the entry that
\* is still under the old key; else the old key is gone.
Origins ==
    /\ Before => \A t \in Slots : Held(target[t]) => target[t].put > MaxWrites
    /\ \A s \in Going : Held(target[To(s)]) =>
            target[To(s)].put > MaxWrites \/ target[To(s)].put = source[s].put \/ source[s] = Absent

\* MovedRegistered, and what it rests on.
Registry ==
    /\ Before => \A t \in Slots : Held(target[t]) => t[1] \in registered
    /\ \A t \in Slots : Held(target[t]) /\ t[1] \notin registered =>
            \E s \in Going : To(s) = t /\ source[s].put = target[t].put
    /\ step = "removing" => \A r \in batch : To(r.slot)[1] \in registered

\* The old key is deleted only when the new one is there, and the new one is written only
\* when it was not; there is one key at a time.
Moving ==
    /\ now \in Nat /\ writes \in Nat /\ restarts \in Nat
    /\ source \in [Slots -> AnyEntry] /\ target \in [Slots -> AnyEntry]
    /\ step \in {"start", "moving", "storing", "registering", "removing", "moved"}
    /\ todo \subseteq Going
    /\ batch \subseteq [slot : Going, entry : AnyEntry, left : Nat]
    /\ \A r \in batch : Held(r.entry) /\ r.entry = source[r.slot]
    /\ \A q, r \in batch : q = r
    /\ step = "start" => batch = {}
    /\ step = "storing" => \A r \in batch : ~Live(target[To(r.slot)])
    /\ step \in {"registering", "removing"} => \A r \in batch : Held(target[To(r.slot)])
    /\ Origins
    /\ Registry

MoveInv == job \in JobType /\ Apart(job) /\ (job.kind = "keyspace" => Moving)

\* What one step of an in-place migration keeps.
Kept ==
    step # "start" =>
        \A s \in Slots :
            /\ Live(target[s]) /\ target[s].expires > now' => target'[s] = target[s]
            /\ Goes(s) /\ Live(source[s]) /\ source[s].expires > now' =>
                    \/ source'[s] = source[s]
                    \/ target'[To(s)].put = source[s].put
                    \/ target'[To(s)].put > MaxWrites

-----------------------------------------------------------------------------

\* A slot that moves has one to move to.
LEMMA ToIsSlot == ASSUME job \in JobType, NEW s \in Going PROVE To(s) \in Slots
<1>1. s[1] \in Collections /\ s[2] \in Keys /\ target_collection(s[1]) # {}
  BY DEF Going, Goes, Slots
<1>2. target_collection(s[1]) \subseteq Collections
  BY <1>1 DEF target_collection, JobType
<1>3. (CHOOSE c \in target_collection(s[1]) : TRUE) \in target_collection(s[1])
  BY <1>1
<1> QED BY <1>1, <1>2, <1>3 DEF To, Slots

LEMMA NeverIsNat == Never \in Nat
BY MigrationBounds DEF Never

\* Two slots that go arrive apart.
LEMMA GoApart ==
    ASSUME Apart(job), NEW s \in Going, NEW u \in Going, To(s) = To(u)
    PROVE  s = u
<1> DEFINE f(v) == CHOOSE c \in target_collection(v[1]) : TRUE
<1>1. /\ s \in Collections \X Keys /\ u \in Collections \X Keys
      /\ target_collection(s[1]) # {} /\ target_collection(u[1]) # {}
  BY DEF Going, Goes, Slots
<1>2. f(s) \in target_collection(s[1]) /\ f(u) \in target_collection(u[1])
  BY <1>1
<1>3. f(s) = f(u) /\ s[2] = u[2]
  BY DEF To
<1>4. job.renamed[s[1]] \cap job.renamed[u[1]] # {}
  BY <1>2, <1>3 DEF target_collection
<1>5. s[1] = u[1]
  BY <1>1, <1>4 DEF Apart
<1> QED BY <1>1, <1>3, <1>5

\* A job's names stay as they are.
LEMMA NamesStay ==
    ASSUME job' = job
    PROVE  /\ Going' = Going /\ MostLost' = MostLost
           /\ \A s : To(s)' = To(s) /\ (Goes(s)' <=> Goes(s))
           /\ \A s \in Going : s \in Slots /\ Goes(s)
BY DEF Going, Goes, selected, target_collection, To, MostLost

LEMMA AbsentIs == Absent \in AnyEntry /\ ~Held(Absent) /\ Absent.expires <= Never /\ Absent.put = 0
BY NeverIsNat DEF Absent, AnyEntry, Held

LEMMA MoveInitInv == Init => MoveInv
<1> SUFFICES ASSUME Init PROVE MoveInv
  OBVIOUS
<1>1. /\ source = [s \in Slots |-> Absent] /\ target = [s \in Slots |-> Absent] /\ batch = {} /\ todo = {}
      /\ now = 0 /\ writes = 0 /\ restarts = 0 /\ step = "start" /\ job \in JobType /\ Apart(job)
  BY JobsAssumption DEF Init
<1>2. \A t \in Slots : ~Held(target[t])
  BY <1>1, AbsentIs
<1>3. \A s \in Going : ~Held(target[To(s)])
  BY <1>1, <1>2, ToIsSlot
<1>4. Origins /\ Registry
  BY <1>1, <1>2, <1>3 DEF Origins, Registry
<1>5. Moving
  BY <1>1, <1>4, AbsentIs DEF Moving
<1> QED BY <1>1, <1>5 DEF MoveInv

\* A step that neither stores, registers nor removes anything.
LEMMA PlacesStay ==
    ASSUME Origins, Registry, UNCHANGED <<job, source, target, registered, restarts>>,
           step' = "start" => step = "start",
           step' = "removing" => \A r \in batch' : To(r.slot)[1] \in registered
    PROVE  Origins' /\ Registry'
<1>1. Going' = Going /\ \A s : To(s)' = To(s)
  BY NamesStay
<1>2. Before' => Before
  BY DEF Before
<1>3. Origins'
  BY <1>1, <1>2 DEF Origins, Held
<1>4. Registry'
  BY <1>1, <1>2 DEF Registry, Held
<1> QED BY <1>3, <1>4

\* Before the first attempt nothing is held of the new layout but what its clients wrote.
LEMMA BeforeKeepsPlaces ==
    ASSUME Before', \A t \in Slots : Held(target'[t]) => target'[t].put > MaxWrites /\ t[1] \in registered',
           job' = job, job \in JobType
    PROVE  Origins' /\ Registry'
<1>1. Going' = Going /\ \A s : To(s)' = To(s)
  BY NamesStay
<1>2. \A s \in Going : Held(target'[To(s)]) => target'[To(s)].put > MaxWrites
  BY ToIsSlot
<1>3. step' # "removing"
  BY DEF Before
<1>4. Origins'
  BY <1>1, <1>2 DEF Origins, Held
<1>5. Registry'
  BY <1>3 DEF Registry, Held
<1> QED BY <1>4, <1>5

\* Users of the store write before the migration begins, and time passes.
LEMMA UsersKeepMoving ==
    ASSUME MoveInv, job.kind = "keyspace", NEW s \in Slots,
           (\E ttl \in TTLs : SourcePut(s, ttl)) \/ SourceDelete(s) \/ Report(s) \/ TargetPut(s)
    PROVE  Moving' /\ Kept
<1>1. Moving /\ job \in JobType
  BY DEF MoveInv
<1>2. Before => batch = {} /\ \A t \in Slots : Held(target[t]) => target[t].put > MaxWrites /\ t[1] \in registered
  BY <1>1 DEF Moving, Origins, Registry, Before
<1>3. CASE \E ttl \in TTLs : SourcePut(s, ttl)
  <2>1. PICK ttl \in TTLs : SourcePut(s, ttl)
    BY <1>3
  <2>2. /\ Before /\ writes' = writes + 1
        /\ source' = [source EXCEPT ![s] =
                        [put |-> writes + 1, expires |-> IF ttl = Never THEN Never ELSE now + ttl]]
        /\ UNCHANGED <<job, now, target, step, todo, batch, restarts, registered>>
    BY <2>1 DEF SourcePut, MayWrite, jobVars, copyVars, Before
  <2>3. [put |-> writes + 1, expires |-> IF ttl = Never THEN Never ELSE now + ttl] \in AnyEntry
    BY <1>1, NeverIsNat, MigrationBounds DEF Moving, AnyEntry
  <2>4. source' \in [Slots -> AnyEntry] /\ writes' \in Nat
    BY <1>1, <2>2, <2>3 DEF Moving
  <2>5. Origins' /\ Registry'
    BY <1>1, <1>2, <2>2, BeforeKeepsPlaces DEF Before, Held
  <2> QED BY <1>1, <1>2, <2>2, <2>4, <2>5, NamesStay DEF Moving, Kept, Before
<1>4. CASE SourceDelete(s)
  <2>1. /\ Before /\ source' = [source EXCEPT ![s] = Absent]
        /\ UNCHANGED <<job, now, target, step, todo, batch, writes, restarts, registered>>
    BY <1>4 DEF SourceDelete, MayWrite, jobVars, copyVars, Before
  <2>2. source' \in [Slots -> AnyEntry]
    BY <1>1, <2>1 DEF Moving, Absent, AnyEntry
  <2>3. Origins' /\ Registry'
    BY <1>1, <1>2, <2>1, BeforeKeepsPlaces DEF Before, Held
  <2> QED BY <1>1, <1>2, <2>1, <2>2, <2>3, NamesStay DEF Moving, Kept, Before
<1>5. CASE Report(s)
  <2>1. UNCHANGED <<job, now, source, target, step, todo, batch, writes, restarts, registered>>
    BY <1>5 DEF Report, jobVars, copyVars
  <2>2. Origins' /\ Registry'
    BY <1>1, <2>1, PlacesStay DEF Moving, Registry
  <2> QED BY <1>1, <2>1, <2>2, NamesStay DEF Moving, Kept, Live, Held
<1>6. CASE TargetPut(s)
  <2> DEFINE e == [put |-> MaxWrites + writes + 1, expires |-> Never]
  <2>1. /\ Before /\ target' = [target EXCEPT ![s] = e]
        /\ registered' = registered \cup {s[1]}
        /\ writes' = writes + 1 /\ UNCHANGED <<job, now, source, step, todo, batch, restarts>>
    BY <1>6 DEF TargetPut, copyVars, Before
  <2>2. e \in AnyEntry /\ e.put > MaxWrites
    BY <1>1, NeverIsNat, MigrationBounds DEF Moving, AnyEntry
  <2> HIDE DEF e
  <2>3. target' \in [Slots -> AnyEntry] /\ writes' \in Nat
        /\ \A t \in Slots : target'[t] = IF t = s THEN e ELSE target[t]
    BY <1>1, <2>1, <2>2 DEF Moving
  <2>4. Origins' /\ Registry'
    BY <1>1, <1>2, <2>1, <2>2, <2>3, BeforeKeepsPlaces DEF Before, Held
  <2> QED BY <1>1, <1>2, <2>1, <2>3, <2>4, NamesStay DEF Moving, Kept, Before
<1> QED BY <1>3, <1>4, <1>5, <1>6

LEMMA TickKeepsMoving == ASSUME MoveInv, job.kind = "keyspace", Tick PROVE Moving' /\ Kept
<1>1. Moving
  BY DEF MoveInv
<1>2. now \in Nat /\ now' = now + 1
      /\ UNCHANGED <<job, source, target, step, todo, batch, writes, restarts, registered>>
  BY <1>1 DEF Moving, Tick, jobVars, copyVars
<1>3. step = "storing" => \A r \in batch : ~Live(target[To(r.slot)])'
  <2> SUFFICES ASSUME step = "storing", NEW r \in batch, Live(target[To(r.slot)])' PROVE FALSE
    OBVIOUS
  <2>1. r.slot \in Going
    BY <1>1 DEF Moving
  <2>2. target[To(r.slot)] \in AnyEntry
    BY <1>1, <2>1, ToIsSlot DEF MoveInv, Moving
  <2>3. To(r.slot)' = To(r.slot)
    BY <1>2 DEF To, target_collection
  <2>4. target[To(r.slot)].expires \in Nat /\ target[To(r.slot)].expires > now + 1
        /\ target[To(r.slot)].put > 0
    BY <1>2, <2>2, <2>3 DEF Live, AnyEntry
  <2>5. target[To(r.slot)].expires > now
    BY <1>2, <2>4
  <2> QED BY <1>1, <2>4, <2>5 DEF Moving, Live
<1>4. Origins' /\ Registry'
  BY <1>1, <1>2, PlacesStay DEF Moving, Registry
<1>5. Moving'
  BY <1>1, <1>2, <1>3, <1>4, NamesStay DEF Moving, Held
<1> QED BY <1>2, <1>5 DEF Kept

\* The entry that is being moved is the one under the old key, and it goes to a slot.
LEMMA MovedIs ==
    ASSUME MoveInv, job.kind = "keyspace", NEW r \in batch
    PROVE  /\ r.slot \in Going /\ r.slot \in Slots /\ batch = {r} /\ To(r.slot) \in Slots
           /\ r.entry \in AnyEntry /\ r.left \in Nat /\ Held(r.entry) /\ r.entry = source[r.slot]
           /\ source[r.slot] \in AnyEntry /\ target[To(r.slot)] \in AnyEntry
BY ToIsSlot DEF MoveInv, Moving, Going

LEMMA KsGetKeepsMoving ==
    ASSUME MoveInv, job.kind = "keyspace", NEW s \in Slots, KsGet(s)
    PROVE  Moving' /\ Kept
<1>1. Moving
  BY DEF MoveInv
<1>2. /\ step = "moving" /\ s \in todo /\ todo' = todo \ {s}
      /\ batch' = IF Live(source[s]) THEN {[slot |-> s, entry |-> source[s], left |-> Never]} ELSE {}
      /\ UNCHANGED <<job, now, writes, source, target, step, restarts, registered>>
  BY DEF KsGet, MigratorStep, sourceVars
<1>3. /\ batch' \subseteq [slot : Going, entry : AnyEntry, left : Nat]
      /\ \A r \in batch' : Held(r.entry) /\ r.entry = source[r.slot]
      /\ \A q, r \in batch' : q = r
  BY <1>1, <1>2, NeverIsNat DEF Moving, Live, Held
<1>4. Origins' /\ Registry'
  BY <1>1, <1>2, PlacesStay DEF Moving
<1> QED BY <1>1, <1>2, <1>3, <1>4, NamesStay DEF Moving, Kept, Held

LEMMA KsInspectKeepsMoving ==
    ASSUME MoveInv, job.kind = "keyspace", KsInspect
    PROVE  Moving' /\ Kept
<1>1. Moving
  BY DEF MoveInv
<1>2. /\ UNCHANGED <<job, now, writes, source, target, todo, restarts, registered>> /\ step = "moving"
  BY DEF KsInspect, MigratorStep, sourceVars
<1>3. PICK r \in batch, ended \in BOOLEAN :
        LET exists == Live(target[To(r.slot)])
            gone == job.preserve /\ ~exists /\ (~Live(source[r.slot]) \/ (ended /\ Ending(r.slot)))
        IN  /\ step' = IF gone THEN "moving" ELSE IF exists THEN "registering" ELSE "storing"
            /\ batch' = IF gone THEN {}
                        ELSE IF exists \/ ~job.preserve THEN batch ELSE {ReadOf(r.slot, 0)}
  BY DEF KsInspect
<1>4. /\ r.slot \in Going /\ r.slot \in Slots /\ batch = {r} /\ To(r.slot) \in Slots
      /\ source[r.slot] \in AnyEntry /\ Held(source[r.slot])
  BY MovedIs
<1>5. step' \in {"moving", "registering", "storing"}
  BY <1>3
<1>6. Origins' /\ Registry'
  BY <1>1, <1>2, <1>5, PlacesStay DEF Moving
<1>7. CASE batch' = {}
  BY <1>1, <1>2, <1>5, <1>6, <1>7, NamesStay DEF Moving, Kept
<1>8. CASE batch' = batch /\ step' = "registering" /\ Live(target[To(r.slot)])
  BY <1>1, <1>2, <1>4, <1>6, <1>8, NamesStay DEF Moving, Kept, Held, Live
<1>9. CASE batch' = batch /\ step' = "storing" /\ ~Live(target[To(r.slot)])
  BY <1>1, <1>2, <1>4, <1>6, <1>9, NamesStay DEF Moving, Kept, Held, Live
<1>10. CASE /\ batch' = {ReadOf(r.slot, 0)} /\ step' = "storing"
            /\ ~Live(target[To(r.slot)]) /\ Live(source[r.slot])
  <2> DEFINE q == ReadOf(r.slot, 0)
  <2>1. /\ source[r.slot].expires \in Nat /\ now \in Nat /\ source[r.slot].expires > now
        /\ source[r.slot].put > 0
    BY <1>1, <1>4, <1>10 DEF Moving, AnyEntry, Live
  <2>2. source[r.slot].expires - now \in Nat /\ (source[r.slot].expires - now) - 0 \in Nat
    BY <2>1
  <2>3. q \in [slot : Going, entry : AnyEntry, left : Nat] /\ q.slot = r.slot /\ q.entry = source[r.slot]
    BY <1>4, <2>1, <2>2, NeverIsNat DEF ReadOf
  <2> HIDE DEF q
  <2>4. batch' = {q}
    BY <1>10 DEF q
  <2> QED BY <1>1, <1>2, <1>4, <1>6, <1>10, <2>3, <2>4, NamesStay DEF Moving, Kept, Held, Live
<1> QED BY <1>3, <1>7, <1>8, <1>9, <1>10

LEMMA KsStoreKeepsMoving ==
    ASSUME MoveInv, job.kind = "keyspace", KsStore
    PROVE  Moving' /\ Kept
<1>1. Moving /\ job \in JobType /\ Apart(job)
  BY DEF MoveInv
<1>2. PICK r \in batch : target' = [target EXCEPT ![To(r.slot)] = Written(r)]
  BY DEF KsStore
<1>3. /\ step = "storing" /\ step' = "registering"
      /\ UNCHANGED <<job, now, writes, source, todo, batch, restarts, registered>>
  BY DEF KsStore, MigratorStep, sourceVars
<1>4. /\ r.slot \in Going /\ r.slot \in Slots /\ batch = {r} /\ To(r.slot) \in Slots
      /\ r.entry \in AnyEntry /\ r.left \in Nat /\ Held(r.entry) /\ r.entry = source[r.slot]
  BY MovedIs
<1>5. ~Live(target[To(r.slot)])
  BY <1>1, <1>3 DEF Moving
<1>6. Written(r) \in AnyEntry /\ Held(Written(r)) /\ Written(r).put = source[r.slot].put
  BY <1>1, <1>4, NeverIsNat DEF Moving, Written, AnyEntry, Held
<1>7. /\ target' \in [Slots -> AnyEntry]
      /\ \A t \in Slots : target'[t] = IF t = To(r.slot) THEN Written(r) ELSE target[t]
  BY <1>1, <1>2, <1>4, <1>6 DEF Moving
<1>8. Going' = Going /\ \A s : To(s)' = To(s)
  BY <1>3, NamesStay
<1>9. Origins'
  <2> SUFFICES ASSUME NEW s \in Going, Held(target'[To(s)])
               PROVE  target'[To(s)].put > MaxWrites \/ target'[To(s)].put = source[s].put \/ source[s] = Absent
    BY <1>3, <1>8 DEF Origins, Before, Held
  <2>1. To(s) \in Slots
    BY <1>1, ToIsSlot
  <2>2. CASE To(s) = To(r.slot)
    <3>1. s = r.slot
      BY <1>1, <1>4, <2>2, GoApart
    <3> QED BY <1>6, <1>7, <2>1, <3>1
  <2>3. CASE To(s) # To(r.slot)
    BY <1>1, <1>7, <2>1, <2>3 DEF Moving, Origins
  <2> QED BY <2>2, <2>3
<1>10. Registry'
  <2> SUFFICES ASSUME NEW t \in Slots, Held(target'[t]), t[1] \notin registered
               PROVE  \E s \in Going : To(s) = t /\ source[s].put = target'[t].put
    BY <1>3, <1>8 DEF Registry, Before, Held
  <2>1. CASE t = To(r.slot)
    BY <1>4, <1>6, <1>7, <2>1
  <2>2. CASE t # To(r.slot)
    BY <1>1, <1>7, <2>2 DEF Moving, Registry
  <2> QED BY <2>1, <2>2
<1>11. Held(target'[To(r.slot)])
  BY <1>4, <1>6, <1>7
<1>12. Moving'
  BY <1>1, <1>3, <1>4, <1>7, <1>8, <1>9, <1>10, <1>11 DEF Moving, Held
<1>13. Kept
  BY <1>3, <1>5, <1>7 DEF Kept
<1> QED BY <1>12, <1>13

LEMMA KsRegisterKeepsMoving ==
    ASSUME MoveInv, job.kind = "keyspace", KsRegister
    PROVE  Moving' /\ Kept
<1>1. Moving
  BY DEF MoveInv
<1>2. PICK r \in batch : registered' = registered \cup {To(r.slot)[1]}
  BY DEF KsRegister
<1>3. /\ step = "registering" /\ step' = "removing"
      /\ UNCHANGED <<job, now, writes, source, target, todo, batch, restarts>>
  BY DEF KsRegister, sourceVars
<1>4. batch = {r}
  BY MovedIs
<1>5. Going' = Going /\ \A s : To(s)' = To(s)
  BY <1>3, NamesStay
<1>6. Origins'
  BY <1>1, <1>3, <1>5 DEF Moving, Origins, Before, Held
<1>7. Registry'
  BY <1>1, <1>2, <1>3, <1>4, <1>5 DEF Moving, Registry, Before, Held
<1>8. Moving'
  BY <1>1, <1>3, <1>5, <1>6, <1>7 DEF Moving, Held
<1> QED BY <1>3, <1>8 DEF Kept

LEMMA KsRemoveKeepsMoving ==
    ASSUME MoveInv, job.kind = "keyspace", KsRemove
    PROVE  Moving' /\ Kept
<1>1. Moving /\ job \in JobType
  BY DEF MoveInv
<1>2. PICK r \in batch : source' = [source EXCEPT ![r.slot] = Absent]
  BY DEF KsRemove
<1>3. /\ step = "removing" /\ step' = "moving" /\ batch' = {}
      /\ UNCHANGED <<job, now, writes, target, todo, restarts, registered>>
  BY DEF KsRemove
<1>4. /\ r.slot \in Going /\ r.slot \in Slots /\ To(r.slot) \in Slots /\ source[r.slot] \in AnyEntry
      /\ Held(source[r.slot])
  BY MovedIs
<1>5. Held(target[To(r.slot)]) /\ To(r.slot)[1] \in registered
  BY <1>1, <1>3 DEF Moving, Registry
<1>6. /\ source' \in [Slots -> AnyEntry]
      /\ \A s \in Slots : source'[s] = IF s = r.slot THEN Absent ELSE source[s]
  BY <1>1, <1>2, AbsentIs DEF Moving
<1>7. Going' = Going /\ (\A s : To(s)' = To(s)) /\ Going \subseteq Slots
  BY <1>3, NamesStay DEF Going
<1>8. Origins'
  BY <1>1, <1>3, <1>6, <1>7 DEF Moving, Origins, Before, Held
<1>9. Registry'
  <2> SUFFICES ASSUME NEW t \in Slots, Held(target[t]), t[1] \notin registered
               PROVE  \E s \in Going : To(s) = t /\ source'[s].put = target[t].put
    BY <1>3, <1>7 DEF Registry, Before, Held
  <2>1. PICK s \in Going : To(s) = t /\ source[s].put = target[t].put
    BY <1>1 DEF Moving, Registry
  <2>2. s # r.slot
    BY <1>5, <2>1
  <2> QED BY <1>6, <1>7, <2>1, <2>2
<1>10. Moving'
  BY <1>1, <1>3, <1>6, <1>7, <1>8, <1>9 DEF Moving, Held
<1>11. target[To(r.slot)].put > MaxWrites \/ target[To(r.slot)].put = source[r.slot].put
  <2>1. source[r.slot] # Absent
    BY <1>4, AbsentIs
  <2> QED BY <1>1, <1>4, <1>5, <2>1 DEF Moving, Origins
<1>12. Kept
  BY <1>3, <1>6, <1>11 DEF Kept
<1> QED BY <1>10, <1>12

\* A step of the in-place migration itself: see each.
LEMMA RewriteKeepsMoving ==
    ASSUME MoveInv, job.kind = "keyspace", Rewrite
    PROVE  Moving' /\ Kept
<1>1. Moving
  BY DEF MoveInv
<1>2. CASE KsScan
  <2>1. /\ todo' = {s \in Slots : Live(source[s]) /\ Goes(s)} /\ step = "start" /\ step' = "moving"
        /\ UNCHANGED <<job, now, writes, source, target, batch, restarts, registered>>
    BY <1>2 DEF KsScan, MigratorStep, sourceVars
  <2>2. Origins' /\ Registry'
    BY <1>1, <2>1, PlacesStay DEF Moving
  <2> QED BY <1>1, <2>1, <2>2, NamesStay DEF Moving, Kept, Going, Held
<1>3. CASE KsDone
  <2>1. step' = "moved" /\ UNCHANGED <<job, now, writes, source, target, todo, batch, restarts, registered>>
    BY <1>3 DEF KsDone, MigratorStep, sourceVars
  <2>2. Origins' /\ Registry'
    BY <1>1, <2>1, PlacesStay DEF Moving
  <2> QED BY <1>1, <2>1, <2>2, NamesStay DEF Moving, Kept, Held
<1> QED BY <1>2, <1>3, KsGetKeepsMoving, KsInspectKeepsMoving, KsStoreKeepsMoving, KsRegisterKeepsMoving,
           KsRemoveKeepsMoving DEF Rewrite

\* The steps of a copy are not taken.
LEMMA NoCopyInPlace ==
    ASSUME MoveInv, job.kind = "keyspace" PROVE ~Copy /\ ~Replay
BY DEF MoveInv, Moving, Copy, Replay, Subscribe, ListCollections, ListKeys, ReadBatch, PutCopies,
       Refused, CopyDone, ApplyDelete, ReadChanged, PutChanged

LEMMA RestartKeepsMoving == ASSUME MoveInv, job.kind = "keyspace", Restart PROVE Moving' /\ Kept
<1>1. /\ step' = "start" /\ restarts' = restarts + 1 /\ todo' = {} /\ batch' = {}
      /\ UNCHANGED <<job, now, source, target, writes, registered>> /\ step \notin {"start", "moved"}
  BY DEF Restart
<1>2. Moving /\ restarts \in Nat
  BY DEF MoveInv, Moving
<1>3. ~Before'
  BY <1>1, <1>2 DEF Before
<1>4. Origins' /\ Registry'
  BY <1>1, <1>2, <1>3, NamesStay DEF Moving, Origins, Registry, Held
<1> QED BY <1>1, <1>2, <1>4 DEF Moving, Kept

\* A migration's options stay as they are.
LEMMA JobStays == ASSUME [Next]_vars PROVE job' = job
<1>1. CASE UNCHANGED vars
  BY <1>1 DEF vars
<1>2. ASSUME NEW s \in Used, (\E ttl \in TTLs : SourcePut(s, ttl)) \/ SourceDelete(s) \/ Report(s) \/ TargetPut(s)
      PROVE  job' = job
  BY <1>2 DEF SourcePut, SourceDelete, Report, TargetPut
<1>3. CASE Tick \/ Restart
  BY <1>3 DEF Tick, Restart
<1>4. CASE Copy
  BY <1>4 DEF Copy, Subscribe, ListCollections, CopyDone, Refused, ListKeys, ReadBatch, PutCopies, MigratorStep
<1>5. CASE Replay
  BY <1>5 DEF Replay, ApplyDelete, ReadChanged, PutChanged, MigratorStep
<1>6. CASE Rewrite
  BY <1>6 DEF Rewrite, KsScan, KsInspect, KsStore, KsRegister, KsRemove, KsDone, KsGet, MigratorStep
<1> QED BY <1>1, <1>2, <1>3, <1>4, <1>5, <1>6 DEF Next, Migrate

LEMMA StepKeepsMoving ==
    ASSUME MoveInv, [Next]_vars
    PROVE  MoveInv' /\ (job.kind = "keyspace" => Kept)
<1>1. job' = job
  BY JobStays
<1>2. SUFFICES ASSUME job.kind = "keyspace" PROVE Moving' /\ Kept
  BY <1>1 DEF MoveInv
<1>3. CASE UNCHANGED vars
  <2>1. UNCHANGED <<job, now, writes, source, target, step, todo, batch, restarts, registered>>
    BY <1>3 DEF vars
  <2>2. Moving
    BY <1>2 DEF MoveInv
  <2>3. Origins' /\ Registry'
    BY <2>1, <2>2, PlacesStay DEF Moving, Registry
  <2> QED BY <2>1, <2>2, <2>3, NamesStay DEF Moving, Kept, Live, Held
<1>4. ASSUME NEW s \in Used,
             (\E ttl \in TTLs : SourcePut(s, ttl)) \/ SourceDelete(s) \/ Report(s) \/ TargetPut(s)
      PROVE  Moving' /\ Kept
  BY <1>2, <1>4, UsersKeepMoving, JobsAssumption
<1> QED BY <1>2, <1>3, <1>4, TickKeepsMoving, RewriteKeepsMoving, RestartKeepsMoving, NoCopyInPlace
        DEF Next, Migrate

\* No step of a migration in place takes an entry away from under its old key before this very
\* entry is under the new one, unless a client of the new layout had written there, or changes
\* what was there before, whatever fails and wherever it stops.
THEOREM MigrationMovesSafely == Spec => MoveKeepsEntries
<1>1. (job.kind = "keyspace" => Kept) =>
        ((job.kind = "keyspace" /\ step # "start") =>
          \A s \in Slots :
            /\ Live(target[s]) /\ target[s].expires > now' => target'[s] = target[s]
            /\ Goes(s) /\ Live(source[s]) /\ source[s].expires > now' =>
                    \/ source'[s] = source[s]
                    \/ target'[To(s)].put = source[s].put
                    \/ target'[To(s)].put > MaxWrites)
  BY DEF Kept
<1> QED BY MoveInitInv, StepKeepsMoving, <1>1, PTL DEF Spec, MoveKeepsEntries

\* Wherever an attempt stops, an entry it has moved into a collection that is not registered
\* yet still has its old key.
THEOREM MigrationRegisters == Spec => []MovedRegistered
<1>1. MoveInv => MovedRegistered
  <2> SUFFICES ASSUME Moving PROVE \A t \in Slots : Held(target[t]) /\ t[1] \notin registered =>
                  \E s \in Slots : Goes(s) /\ To(s) = t /\ source[s].put = target[t].put
    BY DEF MoveInv, MovedRegistered
  <2>1. \A s \in Going : s \in Slots /\ Goes(s)
    BY DEF Going
  <2> QED BY <2>1 DEF Moving, Registry
<1>2. MoveInv /\ [Next]_vars => MoveInv'
  BY StepKeepsMoving
<1> QED BY MoveInitInv, <1>1, <1>2, PTL DEF Spec

-----------------------------------------------------------------------------
(* Entries keep their names and their times to live, in a copy and in place.  *)

\* What is read and not yet written is what ReadOf made of an entry, time having passed.
LeftOf(r) ==
    IF ~job.preserve \/ r.entry.expires = Never THEN r.left = Never
    ELSE \/ r.left = 0
         \/ /\ r.left < Never /\ r.left <= r.entry.expires
            /\ now + r.left + MostLost >= r.entry.expires

Typed ==
    /\ job \in JobType /\ now \in Nat /\ now <= MaxTime /\ writes \in 0 .. MaxWrites /\ restarts \in Nat
    /\ source \in [Slots -> AnyEntry] /\ target \in [Slots -> AnyEntry]
    /\ listed \subseteq Collections /\ todo \subseteq Going
    /\ batch \subseteq [slot : Going, entry : AnyEntry, left : Nat]
    /\ step \in {"start", "collections", "keys", "applying", "changed", "moving", "storing", "registering", "removing", "moved"}

\* Feed and position, and that a change is being applied.
FeedTyped ==
    /\ unreported \in [Slots -> {"none", "Put", "Delete"}]
    /\ feed \in Seq([slot : Slots, operation : {"Put", "Delete"}])
    /\ position \in Nat /\ position <= Len(feed)
    /\ step = "changed" => position < Len(feed) /\ NextChange.slot \in Going

\* A put's number names one entry.
Named ==
    /\ \A s \in Slots : source[s].put <= writes
    /\ \A s \in Slots : target[s].put <= writes \/ target[s].put > MaxWrites
    /\ \A s, u \in Slots : Held(source[s]) /\ source[s].put = source[u].put => s = u
    /\ \A r \in batch : r.entry.put <= writes /\ Held(r.entry)
    /\ \A r \in batch : \A s \in Slots : r.entry.put = source[s].put => r.entry = source[s] /\ r.slot = s

\* Times to live.
Timed ==
    /\ \A s \in Slots : source[s].expires <= Never
    /\ \A r \in batch : r.entry.expires <= Never
    /\ step \in {"keys", "changed", "storing"} => \A r \in batch : LeftOf(r)
    /\ step = "moving" => \A r \in batch : r.left = Never
    /\ step = "storing" => \A r \in batch : r.left > 0
    /\ TtlCarried

TtlInv == Typed /\ FeedTyped /\ Named /\ Timed

\* Where nothing has been read.
NothingRead == step \in {"start", "collections", "applying"} => batch = {}

LEMMA MostLostIs == MostLost \in {0, 2} /\ 0 \in 0 .. MostLost
BY DEF MostLost

\* What is read of an entry.
LEMMA ReadOfIs ==
    ASSUME Typed, Timed, NEW s \in Going, Live(source[s]), NEW lost \in 0 .. MostLost
    PROVE  /\ ReadOf(s, lost) \in [slot : Going, entry : AnyEntry, left : Nat]
           /\ ReadOf(s, lost).slot = s /\ ReadOf(s, lost).entry = source[s]
           /\ LeftOf(ReadOf(s, lost)) /\ (lost = 0 => ReadOf(s, lost).left > 0)
<1> DEFINE r == ReadOf(s, lost)
           left == source[s].expires - now
<1>1. /\ source[s] \in AnyEntry /\ source[s].expires \in Nat /\ now \in Nat
      /\ source[s].expires > now /\ source[s].expires <= Never /\ Never \in Nat /\ Never > 1
      /\ MostLost \in Nat /\ lost \in Nat /\ lost <= MostLost
  BY NeverIsNat, MostLostIs, MigrationBounds DEF Typed, Timed, AnyEntry, Going, Live, Never
<1>2. r.slot = s /\ r.entry = source[s]
      /\ r.left = (IF ~job.preserve \/ source[s].expires = Never THEN Never
                   ELSE IF left > lost THEN left - lost ELSE IF Ending(s) THEN 0 ELSE 1)
      /\ (r.left \in Nat => r \in [slot : {s}, entry : {source[s]}, left : Nat])
  BY DEF ReadOf
<1> HIDE DEF r
<1>3. left \in Nat /\ left > 0 /\ left <= source[s].expires /\ now + left = source[s].expires
  BY <1>1
<1> HIDE DEF left
<1>4. CASE ~job.preserve \/ source[s].expires = Never
  <2>1. r.left = Never
    BY <1>2, <1>4
  <2> QED BY <1>1, <1>2, <1>4, <2>1 DEF LeftOf, r
<1>5. CASE job.preserve /\ source[s].expires # Never
  <2>1. CASE left > lost
    <3>1. r.left = left - lost
      BY <1>2, <1>5, <2>1
    <3>2. r.left \in Nat /\ r.left > 0 /\ r.left <= left /\ now + r.left + MostLost >= source[s].expires
      BY <1>1, <1>3, <2>1, <3>1
    <3>3. r.left < Never /\ r.left <= source[s].expires
      BY <1>1, <1>3, <1>5, <3>2
    <3> QED BY <1>1, <1>2, <1>5, <3>2, <3>3 DEF LeftOf, r
  <2>2. CASE ~(left > lost)
    <3>1. r.left \in {0, 1} /\ lost # 0
      BY <1>1, <1>2, <1>3, <1>5, <2>2
    <3>2. now + 1 + MostLost >= source[s].expires /\ 1 < Never /\ 1 <= source[s].expires
      BY <1>1, <1>3, <2>2
    <3> QED BY <1>1, <1>2, <1>5, <3>1, <3>2 DEF LeftOf, r
  <2> QED BY <2>1, <2>2
<1> QED BY <1>4, <1>5

\* What is written of it.
LEMMA WrittenIs ==
    ASSUME Typed, Timed, NEW r \in batch, LeftOf(r), r.left > 0
    PROVE  /\ Written(r) \in AnyEntry /\ Written(r).put = r.entry.put
           /\ Written(r).expires + MostLost >= r.entry.expires
           /\ r.entry.expires = Never \/ ~job.preserve => Written(r).expires = Never
           /\ job.preserve /\ r.entry.expires # Never => Written(r).expires <= r.entry.expires + now
<1>1. /\ r.entry \in AnyEntry /\ r.left \in Nat /\ now \in Nat /\ Never \in Nat /\ r.entry.expires <= Never
      /\ r.entry.put \in Nat /\ r.entry.expires \in Nat /\ MostLost \in Nat
  BY NeverIsNat, MostLostIs DEF Typed, Timed, AnyEntry
<1>2. Written(r).put = r.entry.put /\ Written(r).expires = IF r.left = Never THEN Never ELSE now + r.left
  BY DEF Written
<1>3. Written(r) \in AnyEntry
  BY <1>1 DEF Written, AnyEntry
<1>4. CASE ~job.preserve \/ r.entry.expires = Never
  <2>1. r.left = Never
    BY <1>1, <1>4 DEF LeftOf
  <2> QED BY <1>1, <1>2, <1>3, <1>4, <2>1
<1>5. CASE job.preserve /\ r.entry.expires # Never
  <2>1. r.left < Never /\ r.left <= r.entry.expires /\ now + r.left + MostLost >= r.entry.expires
    BY <1>1, <1>5 DEF LeftOf
  <2> QED BY <1>1, <1>2, <1>3, <1>5, <2>1
<1> QED BY <1>4, <1>5

\* A step of the migration that leaves the source alone: it may read what is there, and
\* write what it has read.
LEMMA MigratorKeepsTimes ==
    ASSUME Typed, Named, Timed, Typed', UNCHANGED <<job, now, source, writes>>,
           \A t \in Slots : \/ target'[t] = target[t] \/ target'[t] = Absent
                            \/ \E r \in batch : LeftOf(r) /\ r.left > 0 /\ target'[t] = Written(r),
           \A r \in batch' : r \in batch \/ (Live(source[r.slot]) /\ r.entry = source[r.slot]),
           step' \in {"keys", "changed", "storing"} => \A r \in batch' : LeftOf(r),
           step' = "moving" => \A r \in batch' : r.left = Never,
           step' = "storing" => \A r \in batch' : r.left > 0
    PROVE  Named' /\ Timed'
<1>1. \A s \in Slots : /\ source[s] \in AnyEntry /\ source[s].put \in Nat /\ source[s].expires \in Nat
                       /\ target[s] \in AnyEntry /\ target[s].put \in Nat
                       /\ target'[s] \in AnyEntry /\ target'[s].put \in Nat
  BY DEF Typed, AnyEntry
<1>2. \A r \in batch' : r.slot \in Slots /\ r.entry \in AnyEntry /\ r.entry.put \in Nat
  BY DEF Typed, Going, AnyEntry
<1>3. \A t \in Slots : target'[t].put <= writes \/ target'[t].put > MaxWrites
  <2> TAKE t \in Slots
  <2>1. CASE target'[t] = target[t]
    BY <2>1 DEF Named
  <2>2. CASE target'[t] = Absent
    BY <2>2, AbsentIs DEF Typed
  <2>3. ASSUME NEW r \in batch, LeftOf(r), r.left > 0, target'[t] = Written(r) PROVE target'[t].put <= writes
    BY <2>3, WrittenIs DEF Named
  <2> QED BY <2>1, <2>2, <2>3
<1>4. \A r \in batch' : /\ r.entry.put <= writes /\ Held(r.entry) /\ r.entry.expires <= Never
                        /\ \A s \in Slots : r.entry.put = source[s].put => r.entry = source[s] /\ r.slot = s
  <2> TAKE r \in batch'
  <2>1. CASE r \in batch
    BY <2>1 DEF Named, Timed
  <2>2. CASE Live(source[r.slot]) /\ r.entry = source[r.slot]
    BY <1>2, <2>2 DEF Named, Timed, Live, Held
  <2> QED BY <2>1, <2>2
<1>5. Named'
  BY <1>3, <1>4 DEF Named, Held
<1>6. Going' = Going /\ MostLost' = MostLost /\ \A s : To(s)' = To(s) /\ (Goes(s)' <=> Goes(s))
  BY NamesStay
<1>7. TtlCarried'
  <2> SUFFICES ASSUME NEW s \in Slots, Goes(s), Held(source[s]), target'[To(s)].put = source[s].put
               PROVE  /\ target'[To(s)].expires + MostLost >= source[s].expires
                      /\ source[s].expires = Never \/ ~job.preserve => target'[To(s)].expires = Never
                      /\ job.preserve /\ source[s].expires # Never =>
                            target'[To(s)].expires <= source[s].expires + now
    BY <1>6 DEF TtlCarried, Held
  <2>1. To(s) \in Slots
    BY ToIsSlot DEF Going, Typed
  <2>2. CASE target'[To(s)] = target[To(s)]
    BY <2>2 DEF Timed, TtlCarried
  <2>3. CASE target'[To(s)] = Absent
    BY <2>3, AbsentIs DEF Held
  <2>4. ASSUME NEW r \in batch, LeftOf(r), r.left > 0, target'[To(s)] = Written(r)
        PROVE  /\ target'[To(s)].expires + MostLost >= source[s].expires
               /\ source[s].expires = Never \/ ~job.preserve => target'[To(s)].expires = Never
               /\ job.preserve /\ source[s].expires # Never =>
                     target'[To(s)].expires <= source[s].expires + now
    <3>1. /\ Written(r).put = r.entry.put
          /\ Written(r).expires + MostLost >= r.entry.expires
          /\ r.entry.expires = Never \/ ~job.preserve => Written(r).expires = Never
          /\ job.preserve /\ r.entry.expires # Never => Written(r).expires <= r.entry.expires + now
      BY <2>4, WrittenIs
    <3>2. r.entry = source[s]
      BY <2>4, <3>1 DEF Named
    <3> QED BY <2>4, <3>1, <3>2
  <2> QED BY <2>1, <2>2, <2>3, <2>4
<1>8. Timed'
  <2>1. \A r : LeftOf(r)' <=> LeftOf(r)
    BY DEF LeftOf, MostLost
  <2> QED BY <1>4, <1>7, <2>1 DEF Timed
<1> QED BY <1>5, <1>8

LEMMA InitTtl == Init => TtlInv
<1> SUFFICES ASSUME Init PROVE TtlInv
  OBVIOUS
<1>1. Typed
  BY AbsentIs, JobsAssumption, MigrationBounds DEF Init, Typed
<1>2. FeedTyped
  BY DEF Init, FeedTyped
<1>3. \A s \in Slots : source[s] = Absent /\ target[s] = Absent
  BY DEF Init
<1>4. Named
  BY <1>3, AbsentIs DEF Init, Named
<1>5. Timed
  BY <1>3, AbsentIs DEF Init, Timed, TtlCarried
<1> QED BY <1>1, <1>2, <1>4, <1>5 DEF TtlInv

-----------------------------------------------------------------------------
(* The users, and time *)

LEMMA SourcePutKeepsTtl ==
    ASSUME TtlInv, NEW s \in Used, NEW ttl \in TTLs, SourcePut(s, ttl)
    PROVE  TtlInv'
<1> DEFINE e == [put |-> writes + 1, expires |-> IF ttl = Never THEN Never ELSE now + ttl]
<1> USE DEF TtlInv
<1>1. /\ s \in Slots /\ writes \in Nat /\ MaxWrites \in Nat /\ now \in Nat /\ now <= MaxTime /\ ttl \in Nat
      /\ MaxTime \in Nat /\ Never \in Nat /\ (ttl = Never \/ MaxTime + ttl < Never)
  BY JobsAssumption, MigrationBounds, NeverIsNat DEF Typed
<1>2. /\ source' = [source EXCEPT ![s] = e]
      /\ UNCHANGED <<job, now, target, feed, step, listed, todo, batch, position, restarts>>
      /\ writes' = writes + 1 /\ writes < MaxWrites /\ unreported' = Noted(s, "Put")
  BY DEF SourcePut, jobVars, copyVars
<1>3. e \in AnyEntry /\ e.put = writes + 1 /\ e.expires <= Never
  BY <1>1 DEF AnyEntry
<1> HIDE DEF e
<1>4. \A u \in Slots : source'[u] = IF u = s THEN e ELSE source[u]
  BY <1>2 DEF Typed
<1>5. Going' = Going /\ MostLost' = MostLost /\ \A u : To(u)' = To(u) /\ (Goes(u)' <=> Goes(u))
  BY <1>2, NamesStay
<1>6. Typed'
  BY <1>1, <1>2, <1>3, <1>5 DEF Typed
<1>7. FeedTyped'
  <2>1. unreported' \in [Slots -> {"none", "Put", "Delete"}]
    BY <1>1, <1>2 DEF FeedTyped, Noted
  <2> QED BY <1>2, <1>5, <2>1 DEF FeedTyped, NextChange
<1>8. /\ \A u \in Slots : source[u].put \in Nat /\ target[u].put \in Nat
      /\ \A r \in batch : r.entry.put \in Nat
  BY DEF Typed, AnyEntry
<1>9. Named'
  BY <1>1, <1>2, <1>3, <1>4, <1>8 DEF Named, Held
<1>10. TtlCarried'
  <2> SUFFICES ASSUME NEW u \in Slots, Goes(u), Held(source'[u]), target[To(u)].put = source'[u].put
               PROVE  /\ target[To(u)].expires + MostLost >= source'[u].expires
                      /\ source'[u].expires = Never \/ ~job.preserve => target[To(u)].expires = Never
                      /\ job.preserve /\ source'[u].expires # Never =>
                            target[To(u)].expires <= source'[u].expires + now
    BY <1>2, <1>5 DEF TtlCarried, Held
  <2>1. To(u) \in Slots
    BY ToIsSlot DEF Going, Typed
  <2>2. u # s
    BY <1>1, <1>2, <1>3, <1>4, <1>8, <2>1 DEF Named
  <2>3. source'[u] = source[u]
    BY <1>4, <2>2
  <2> QED BY <2>3 DEF Timed, TtlCarried
<1>11. \A r : LeftOf(r)' <=> LeftOf(r)
  BY <1>2 DEF LeftOf, MostLost
<1>12. Timed'
  BY <1>2, <1>3, <1>4, <1>10, <1>11 DEF Timed
<1> QED BY <1>6, <1>7, <1>9, <1>12

\* A source entry goes: by its user, or by the migration.
LEMMA GoneKeepsTimes ==
    ASSUME Typed, Named, Timed, NEW s \in Slots, source' = [source EXCEPT ![s] = Absent],
           UNCHANGED <<job, now, target, writes>>, batch' \subseteq batch,
           step' = step \/ batch' = {}
    PROVE  Named' /\ Timed'
<1>1. \A u \in Slots : source'[u] = IF u = s THEN Absent ELSE source[u]
  BY DEF Typed
<1>2. Going' = Going /\ MostLost' = MostLost /\ \A u : To(u)' = To(u) /\ (Goes(u)' <=> Goes(u))
  BY NamesStay
<1>3. /\ \A u \in Slots : source[u].put \in Nat /\ target[u].put \in Nat
      /\ \A r \in batch : r.entry.put \in Nat
  BY DEF Typed, AnyEntry
<1>4. Named'
  BY <1>1, <1>3, AbsentIs DEF Named, Held, Typed
<1>5. TtlCarried'
  BY <1>1, <1>2, AbsentIs DEF Timed, TtlCarried, Held
<1>6. \A r : LeftOf(r)' <=> LeftOf(r)
  BY DEF LeftOf, MostLost
<1>7. \A u \in Slots : source'[u].expires <= Never
  BY <1>1, AbsentIs DEF Timed
<1> QED BY <1>4, <1>5, <1>6, <1>7 DEF Timed

LEMMA SourceDeleteKeepsTtl ==
    ASSUME TtlInv, NEW s \in Used, SourceDelete(s)
    PROVE  TtlInv'
<1> USE DEF TtlInv
<1>1. s \in Slots
  BY JobsAssumption
<1>2. /\ source' = [source EXCEPT ![s] = Absent]
      /\ UNCHANGED <<job, now, target, feed, writes, step, listed, todo, batch, position, restarts>>
      /\ unreported' = Noted(s, "Delete")
  BY DEF SourceDelete, jobVars, copyVars
<1>3. Going' = Going
  BY <1>2, NamesStay
<1>4. Typed'
  BY <1>1, <1>2, <1>3, AbsentIs DEF Typed
<1>5. FeedTyped'
  <2>1. unreported' \in [Slots -> {"none", "Put", "Delete"}]
    BY <1>1, <1>2 DEF FeedTyped, Noted
  <2> QED BY <1>2, <1>3, <2>1 DEF FeedTyped, NextChange
<1> QED BY <1>1, <1>2, <1>4, <1>5, GoneKeepsTimes

\* What is said of entries and times does not depend on the feed.
LEMMA TimesStay ==
    ASSUME Named, Timed, UNCHANGED <<job, now, source, target, writes, batch, step>>
    PROVE  Named' /\ Timed'
<1>1. Going' = Going /\ MostLost' = MostLost /\ \A u : To(u)' = To(u) /\ (Goes(u)' <=> Goes(u))
  BY NamesStay
<1>2. \A r : LeftOf(r)' <=> LeftOf(r)
  BY DEF LeftOf, MostLost
<1>3. TtlCarried'
  BY <1>1 DEF Timed, TtlCarried, Held
<1> QED BY <1>2, <1>3 DEF Named, Timed, Held

LEMMA ReportIs ==
    ASSUME FeedTyped, NEW s \in Slots, Report(s)
    PROVE  /\ feed' \in Seq([slot : Slots, operation : {"Put", "Delete"}])
           /\ Len(feed) \in Nat /\ Len(feed') = Len(feed) + 1
           /\ feed'[Len(feed) + 1] = [slot |-> s, operation |-> unreported[s]]
           /\ \A i \in 1 .. Len(feed) : feed'[i] = feed[i]
           /\ unreported' \in [Slots -> {"none", "Put", "Delete"}]
           /\ \A u \in Slots : unreported'[u] = IF u = s THEN "none" ELSE unreported[u]
<1> DEFINE n == [slot |-> s, operation |-> unreported[s]]
<1>1. n \in [slot : Slots, operation : {"Put", "Delete"}]
  BY DEF FeedTyped, Report
<1>2. feed' = Append(feed, n) /\ feed \in Seq([slot : Slots, operation : {"Put", "Delete"}])
  BY DEF FeedTyped, Report
<1>3. unreported' = [unreported EXCEPT ![s] = "none"] /\ unreported \in [Slots -> {"none", "Put", "Delete"}]
  BY DEF FeedTyped, Report
<1> HIDE DEF n
<1>4. /\ feed' \in Seq([slot : Slots, operation : {"Put", "Delete"}])
      /\ Len(feed) \in Nat /\ Len(feed') = Len(feed) + 1
      /\ feed'[Len(feed) + 1] = n
      /\ \A i \in 1 .. Len(feed) : feed'[i] = feed[i]
  BY <1>1, <1>2
<1>5. unreported' \in [Slots -> {"none", "Put", "Delete"}]
  BY <1>3
<1>6. \A u \in Slots : unreported'[u] = IF u = s THEN "none" ELSE unreported[u]
  BY <1>3
<1> QED BY <1>4, <1>5, <1>6 DEF n

LEMMA ReportKeepsTtl ==
    ASSUME TtlInv, NEW s \in Used, Report(s)
    PROVE  TtlInv'
<1> USE DEF TtlInv
<1>1. s \in Slots
  BY JobsAssumption
<1>2. UNCHANGED <<job, now, source, target, writes, step, listed, todo, batch, position, restarts>>
  BY DEF Report, jobVars, copyVars
<1>3. Going' = Going
  BY <1>2, NamesStay
<1>4. Typed'
  BY <1>2, <1>3 DEF Typed
<1>5. FeedTyped'
  <2>1. step = "changed" => position + 1 \in 1 .. Len(feed)
    BY <1>1, ReportIs DEF FeedTyped
  <2>2. step = "changed" => NextChange' = NextChange
    BY <1>1, <1>2, <2>1, ReportIs DEF NextChange
  <2>3. position \in Nat /\ position <= Len(feed) /\ Len(feed') = Len(feed) + 1 /\ Len(feed) \in Nat
    BY <1>1, ReportIs DEF FeedTyped
  <2>4. position' \in Nat /\ position' <= Len(feed') /\ (position < Len(feed) => position' < Len(feed'))
    BY <1>2, <2>3
  <2>5. /\ feed' \in Seq([slot : Slots, operation : {"Put", "Delete"}])
        /\ unreported' \in [Slots -> {"none", "Put", "Delete"}]
    BY <1>1, ReportIs
  <2> QED BY <1>2, <1>3, <2>2, <2>4, <2>5 DEF FeedTyped
<1> QED BY <1>2, <1>4, <1>5, TimesStay

LEMMA TargetPutKeepsTtl ==
    ASSUME TtlInv, NEW s \in Used, TargetPut(s)
    PROVE  TtlInv'
<1> DEFINE e == [put |-> MaxWrites + writes + 1, expires |-> Never]
<1> USE DEF TtlInv
<1>1. s \in Slots /\ writes \in Nat /\ writes <= MaxWrites /\ MaxWrites \in Nat /\ Never \in Nat
  BY JobsAssumption, MigrationBounds, NeverIsNat DEF Typed
<1>2. /\ target' = [target EXCEPT ![s] = e] /\ writes' = writes + 1 /\ writes < MaxWrites
      /\ UNCHANGED <<job, now, source, unreported, feed, step, listed, todo, batch, position, restarts>>
  BY DEF TargetPut, copyVars
<1>3. e \in AnyEntry /\ e.put > MaxWrites /\ e.put > writes
  BY <1>1 DEF AnyEntry
<1> HIDE DEF e
<1>4. \A u \in Slots : target'[u] = IF u = s THEN e ELSE target[u]
  BY <1>2 DEF Typed
<1>5. Going' = Going /\ MostLost' = MostLost /\ \A u : To(u)' = To(u) /\ (Goes(u)' <=> Goes(u))
  BY <1>2, NamesStay
<1>6. Typed'
  BY <1>1, <1>2, <1>3, <1>5 DEF Typed
<1>7. FeedTyped'
  BY <1>2, <1>5 DEF FeedTyped, NextChange
<1>8. /\ \A u \in Slots : source[u].put \in Nat /\ target[u].put \in Nat
      /\ \A r \in batch : r.entry.put \in Nat
  BY DEF Typed, AnyEntry
<1>9. Named'
  BY <1>1, <1>2, <1>3, <1>4, <1>8 DEF Named, Held
<1>10. TtlCarried'
  <2> SUFFICES ASSUME NEW u \in Slots, Goes(u), Held(source[u]), target'[To(u)].put = source[u].put
               PROVE  /\ target'[To(u)].expires + MostLost >= source[u].expires
                      /\ source[u].expires = Never \/ ~job.preserve => target'[To(u)].expires = Never
                      /\ job.preserve /\ source[u].expires # Never =>
                            target'[To(u)].expires <= source[u].expires + now
    BY <1>2, <1>5 DEF TtlCarried, Held
  <2>1. To(u) \in Slots
    BY ToIsSlot DEF Going, Typed
  <2>2. To(u) # s
    BY <1>1, <1>3, <1>4, <1>8, <2>1 DEF Named
  <2>3. target'[To(u)] = target[To(u)]
    BY <1>4, <2>1, <2>2
  <2> QED BY <2>3 DEF Timed, TtlCarried
<1>11. \A r : LeftOf(r)' <=> LeftOf(r)
  BY <1>2 DEF LeftOf, MostLost
<1>12. Timed'
  BY <1>2, <1>10, <1>11 DEF Timed
<1> QED BY <1>6, <1>7, <1>9, <1>12

LEMMA TickKeepsTtl == ASSUME TtlInv, Tick PROVE TtlInv'
<1> USE DEF TtlInv
<1>1. /\ UNCHANGED <<job, source, target, unreported, feed, writes, step, listed, todo, batch, position, restarts>>
      /\ now' = now + 1 /\ now < MaxTime /\ now \in Nat /\ MaxTime \in Nat
  BY MigrationBounds DEF Tick, sourceVars, jobVars, copyVars, Typed
<1>2. Going' = Going /\ MostLost' = MostLost /\ \A u : To(u)' = To(u) /\ (Goes(u)' <=> Goes(u))
  BY <1>1, NamesStay
<1>3. Typed'
  BY <1>1, <1>2 DEF Typed
<1>4. FeedTyped'
  BY <1>1, <1>2 DEF FeedTyped, NextChange
<1>5. Named'
  BY <1>1 DEF Named, Held
<1>6. \A r \in batch : LeftOf(r) => LeftOf(r)'
  <2> TAKE r \in batch
  <2>1. r.left \in Nat /\ r.entry.expires \in Nat /\ Never \in Nat /\ MostLost \in Nat /\ MostLost' = MostLost
    BY <1>1, NeverIsNat, MostLostIs, NamesStay DEF Typed, AnyEntry
  <2> QED BY <1>1, <2>1 DEF LeftOf
<1>7. TtlCarried'
  <2> SUFFICES ASSUME NEW u \in Slots, Goes(u), Held(source[u]), target[To(u)].put = source[u].put
               PROVE  /\ target[To(u)].expires + MostLost >= source[u].expires
                      /\ source[u].expires = Never \/ ~job.preserve => target[To(u)].expires = Never
                      /\ job.preserve /\ source[u].expires # Never =>
                            target[To(u)].expires <= source[u].expires + now'
    BY <1>1, <1>2 DEF TtlCarried, Held
  <2>1. target[To(u)].expires \in Nat /\ source[u].expires \in Nat
    BY ToIsSlot DEF Going, Typed, AnyEntry
  <2> QED BY <1>1, <2>1 DEF Timed, TtlCarried
<1>8. Timed'
  BY <1>1, <1>6, <1>7 DEF Timed
<1> QED BY <1>3, <1>4, <1>5, <1>8

-----------------------------------------------------------------------------
(* The copy *)

\* A step that neither receives a change nor begins to apply one.
LEMMA FeedStays ==
    ASSUME FeedTyped, UNCHANGED <<job, unreported, feed, position>>, step' = "changed" => step = "changed"
    PROVE  FeedTyped'
BY NamesStay DEF FeedTyped, NextChange

\* A step that writes nothing and reads nothing.
LEMMA IdleKeepsTtl ==
    ASSUME TtlInv, UNCHANGED <<job, now, source, unreported, feed, writes, target>>, restarts' \in Nat,
           listed' \subseteq Collections, todo' \subseteq Going, FeedTyped',
           step' \in {"start", "collections", "keys", "applying", "changed", "moving", "storing", "registering", "removing", "moved"},
           batch' = {} \/ (batch' = batch /\ step' = step)
    PROVE  TtlInv'
<1> USE DEF TtlInv
<1>1. Going' = Going
  BY NamesStay
<1>2. Typed'
  BY <1>1 DEF Typed
<1>3. Named' /\ Timed'
  BY <1>2, MigratorKeepsTimes DEF Timed
<1> QED BY <1>2, <1>3

LEMMA SubscribeKeepsTtl == ASSUME TtlInv, Subscribe, batch = {} \/ step # "start" PROVE TtlInv'
<1>1. /\ UNCHANGED <<job, now, source, unreported, feed, writes, restarts, target, listed, todo, batch>>
      /\ step = "start" /\ step' = "collections" /\ position' = Len(feed)
  BY DEF Subscribe, MigratorStep, sourceVars
<1>2. Len(feed) \in Nat
  BY DEF TtlInv, FeedTyped
<1>3. FeedTyped'
  BY <1>1, <1>2, NamesStay DEF FeedTyped, TtlInv, NextChange
<1> QED BY <1>1, <1>3, IdleKeepsTtl DEF TtlInv, Typed

LEMMA ListCollectionsKeepsTtl == ASSUME TtlInv, ListCollections, batch = {} PROVE TtlInv'
<1>1. /\ UNCHANGED <<job, now, source, unreported, feed, writes, restarts, target, todo, batch, position>>
      /\ step' = "keys" /\ listed' \subseteq Collections
  BY DEF ListCollections, MigratorStep, sourceVars, Pages
<1>2. FeedTyped'
  BY <1>1, FeedStays DEF TtlInv
<1> QED BY <1>1, <1>2, IdleKeepsTtl DEF TtlInv, Typed

\* The keys that are listed are those of a collection that goes.
LEMMA ListedGo ==
    ASSUME NEW c \in Collections, ListKeys(c)
    PROVE  todo' \subseteq Going
<1>1. CASE Goes(<<c, CHOOSE k \in Keys : TRUE>>)
  <2>1. \A s \in Slots : s[1] = c => Goes(s)
    BY <1>1 DEF Goes, selected, target_collection
  <2>2. todo' \subseteq {s \in Slots : s[1] = c /\ Live(source[s])}
    BY <1>1 DEF ListKeys, Pages
  <2> QED BY <2>1, <2>2 DEF Going
<1>2. CASE ~Goes(<<c, CHOOSE k \in Keys : TRUE>>)
  BY <1>2 DEF ListKeys
<1> QED BY <1>1, <1>2

LEMMA ListKeysKeepsTtl == ASSUME TtlInv, NEW c \in Collections, ListKeys(c) PROVE TtlInv'
<1>1. /\ UNCHANGED <<job, now, source, unreported, feed, writes, restarts, target, batch, step, position>>
      /\ listed' = listed \ {c}
  BY DEF ListKeys, MigratorStep, sourceVars
<1>2. FeedTyped'
  BY <1>1, FeedStays DEF TtlInv
<1>3. todo' \subseteq Going
  BY ListedGo
<1> QED BY <1>1, <1>2, <1>3, IdleKeepsTtl DEF TtlInv, Typed

\* What ReadBatch has read.
LEMMA BatchIs ==
    ASSUME Typed, Timed, NEW B \in SUBSET todo, ReadBatch(B)
    PROVE  /\ batch' \subseteq [slot : Going, entry : AnyEntry, left : Nat]
           /\ \A r \in batch' : /\ r.slot \in B /\ Live(source[r.slot]) /\ r.entry = source[r.slot]
                                /\ LeftOf(r)
           /\ \A s \in B : Live(source[s]) => \E r \in batch' : r.slot = s /\ r.entry = source[s]
           /\ \A q, r \in batch' : q.slot = r.slot => q = r
<1> PICK lost \in [B -> 0 .. MostLost] :
        batch' = {ReadOf(s, lost[s]) : s \in {t \in B : Live(source[t])}}
  BY DEF ReadBatch
<1>1. \A s \in B : Live(source[s]) =>
          /\ ReadOf(s, lost[s]) \in [slot : Going, entry : AnyEntry, left : Nat]
          /\ ReadOf(s, lost[s]).slot = s /\ ReadOf(s, lost[s]).entry = source[s]
          /\ LeftOf(ReadOf(s, lost[s]))
  <2> SUFFICES ASSUME NEW s \in B, Live(source[s])
               PROVE  /\ ReadOf(s, lost[s]) \in [slot : Going, entry : AnyEntry, left : Nat]
                      /\ ReadOf(s, lost[s]).slot = s /\ ReadOf(s, lost[s]).entry = source[s]
                      /\ LeftOf(ReadOf(s, lost[s]))
    OBVIOUS
  <2>1. s \in Going /\ lost[s] \in 0 .. MostLost
    BY DEF Typed
  <2> QED BY <2>1, ReadOfIs
<1>2. \A r \in batch' : \E s \in B : Live(source[s]) /\ r = ReadOf(s, lost[s])
  OBVIOUS
<1>3. \A s \in B : Live(source[s]) => ReadOf(s, lost[s]) \in batch'
  OBVIOUS
<1>4. \A r \in batch' : /\ r \in [slot : Going, entry : AnyEntry, left : Nat]
                        /\ r.slot \in B /\ Live(source[r.slot]) /\ r.entry = source[r.slot] /\ LeftOf(r)
  BY <1>1, <1>2
<1>5. \A q, r \in batch' : q.slot = r.slot => q = r
  <2> SUFFICES ASSUME NEW q \in batch', NEW r \in batch', q.slot = r.slot PROVE q = r
    OBVIOUS
  <2>1. PICK s \in B : Live(source[s]) /\ q = ReadOf(s, lost[s])
    BY <1>2
  <2>2. PICK u \in B : Live(source[u]) /\ r = ReadOf(u, lost[u])
    BY <1>2
  <2>3. s = u
    BY <1>1, <2>1, <2>2
  <2> QED BY <2>1, <2>2, <2>3
<1> QED BY <1>1, <1>3, <1>4, <1>5

LEMMA ReadBatchKeepsTtl == ASSUME TtlInv, NEW B \in SUBSET todo, ReadBatch(B) PROVE TtlInv'
<1> USE DEF TtlInv
<1>1. /\ UNCHANGED <<job, now, source, unreported, feed, writes, restarts, target, listed, step, position>>
      /\ step = "keys" /\ todo' = todo \ B
  BY DEF ReadBatch, MigratorStep, sourceVars
<1>2. FeedTyped'
  BY <1>1, FeedStays
<1>3. Going' = Going
  BY <1>1, NamesStay
<1>4. Typed'
  BY <1>1, <1>3, BatchIs DEF Typed
<1>5. Named' /\ Timed'
  BY <1>1, <1>4, BatchIs, MigratorKeepsTimes
<1> QED BY <1>2, <1>4, <1>5

\* What PutCopies leaves in a slot of the target.
LEMMA CopiesAre ==
    ASSUME NEW R \in SUBSET batch, PutCopies(R), NEW t \in Slots
    PROVE  \/ target'[t] = target[t] /\ ~\E r \in R : To(r.slot) = t
           \/ \E r \in R : To(r.slot) = t /\ target'[t] = Written(r)
<1>1. target'[t] = IF \E r \in R : To(r.slot) = t
                     THEN Written(CHOOSE r \in R : To(r.slot) = t) ELSE target[t]
  BY DEF PutCopies
<1>2. CASE \E r \in R : To(r.slot) = t
  <2> DEFINE q == CHOOSE r \in R : To(r.slot) = t
  <2>1. q \in R /\ To(q.slot) = t
    BY <1>2
  <2>2. target'[t] = Written(q)
    BY <1>1, <1>2
  <2> HIDE DEF q
  <2> QED BY <2>1, <2>2
<1> QED BY <1>1, <1>2

LEMMA PutCopiesKeepsTtl == ASSUME TtlInv, NEW R \in SUBSET batch, PutCopies(R) PROVE TtlInv'
<1> USE DEF TtlInv
<1>1. /\ UNCHANGED <<job, now, source, unreported, feed, writes, restarts, listed, todo, step, position>>
      /\ step = "keys" /\ batch' = batch \ R /\ \A r \in R : r.left > 0
  BY DEF PutCopies, MigratorStep, sourceVars
<1>2. FeedTyped'
  BY <1>1, FeedStays
<1>3. Going' = Going
  BY <1>1, NamesStay
<1>4. \A r \in batch : LeftOf(r)
  BY <1>1 DEF Timed
<1>5. \A t \in Slots : target'[t] = target[t] \/ \E r \in batch : LeftOf(r) /\ r.left > 0 /\ target'[t] = Written(r)
  BY <1>1, <1>4, CopiesAre
<1>6. \A t \in Slots : target'[t] \in AnyEntry
  BY <1>5, WrittenIs DEF Typed
<1>7. target' \in [Slots -> AnyEntry]
  <2>1. target' = [t \in Slots |-> target'[t]]
    BY DEF PutCopies
  <2> QED BY <1>6, <2>1
<1>8. Typed'
  BY <1>1, <1>3, <1>7 DEF Typed
<1>9. Named' /\ Timed'
  BY <1>1, <1>4, <1>5, <1>8, MigratorKeepsTimes
<1> QED BY <1>2, <1>8, <1>9

LEMMA RefusedKeepsTtl == ASSUME TtlInv, Refused PROVE TtlInv'
<1>1. /\ UNCHANGED <<job, now, source, unreported, feed, writes, target, position>>
      /\ step' \in {"start", "applying"} /\ restarts' \in {MaxRestarts + 1, restarts}
      /\ listed' = {} /\ todo' = {} /\ batch' = {}
  BY DEF Refused, sourceVars
<1>2. FeedTyped'
  BY <1>1, FeedStays DEF TtlInv
<1>3. restarts' \in Nat
  BY <1>1, MigrationBounds DEF TtlInv, Typed
<1> QED BY <1>1, <1>2, <1>3, IdleKeepsTtl

LEMMA CopyDoneKeepsTtl == ASSUME TtlInv, CopyDone PROVE TtlInv'
<1>1. /\ UNCHANGED <<job, now, source, unreported, feed, writes, target, restarts, position, listed, todo, batch>>
      /\ step' = "applying" /\ batch = {}
  BY DEF CopyDone, MigratorStep, sourceVars
<1>2. FeedTyped'
  BY <1>1, FeedStays DEF TtlInv
<1> QED BY <1>1, <1>2, IdleKeepsTtl DEF TtlInv, Typed

LEMMA RestartKeepsTtl == ASSUME TtlInv, Restart PROVE TtlInv'
<1>1. /\ UNCHANGED <<job, now, source, unreported, feed, writes, target, position>>
      /\ step' = "start" /\ listed' = {} /\ todo' = {} /\ batch' = {} /\ restarts' = restarts + 1
  BY DEF Restart
<1>2. FeedTyped'
  BY <1>1, FeedStays DEF TtlInv
<1> QED BY <1>1, <1>2, IdleKeepsTtl DEF TtlInv, Typed

-----------------------------------------------------------------------------
(* Replaying the feed *)

LEMMA NextIs ==
    ASSUME FeedTyped, position < Len(feed)
    PROVE  NextChange.slot \in Slots /\ NextChange.operation \in {"Put", "Delete"}
           /\ position + 1 \in DOMAIN feed /\ position + 1 <= Len(feed)
<1>1. position + 1 \in 1 .. Len(feed) /\ feed \in Seq([slot : Slots, operation : {"Put", "Delete"}])
  BY DEF FeedTyped
<1>2. NextChange \in [slot : Slots, operation : {"Put", "Delete"}]
  <2> DEFINE Change == [slot : Slots, operation : {"Put", "Delete"}]
             n == position + 1
  <2>1. feed \in Seq(Change) /\ n \in 1 .. Len(feed)
    BY <1>1
  <2> HIDE DEF Change, n
  <2>2. feed[n] \in Change
    BY <2>1
  <2> QED BY <2>2 DEF NextChange, Change, n
<1>3. DOMAIN feed = 1 .. Len(feed) /\ position + 1 <= Len(feed)
  BY <1>1 DEF FeedTyped
<1> QED BY <1>1, <1>2, <1>3

LEMMA ApplyDeleteKeepsTtl == ASSUME TtlInv, NothingRead, ApplyDelete PROVE TtlInv'
<1> USE DEF TtlInv
<1> DEFINE d == To(NextChange.slot)
<1>1. /\ UNCHANGED <<job, now, source, unreported, feed, writes, restarts, listed, todo, step, batch>>
      /\ step = "applying" /\ position' = position + 1 /\ position < Len(feed)
      /\ target' = IF Goes(NextChange.slot) THEN [target EXCEPT ![d] = Absent] ELSE target
  BY DEF ApplyDelete, MigratorStep, sourceVars
<1> HIDE DEF d
<1>2. batch' = {} /\ batch = {}
  BY <1>1 DEF NothingRead
<1>3. FeedTyped'
  BY <1>1, NextIs DEF FeedTyped
<1>4. Going' = Going
  BY <1>1, NamesStay
<1>5. target' \in [Slots -> AnyEntry] /\ \A t \in Slots : target'[t] = target[t] \/ target'[t] = Absent
  BY <1>1, AbsentIs DEF Typed
<1>6. Typed'
  BY <1>1, <1>2, <1>4, <1>5 DEF Typed
<1>7. Named' /\ Timed'
  BY <1>1, <1>2, <1>5, <1>6, MigratorKeepsTimes
<1> QED BY <1>3, <1>6, <1>7

\* What ReadChanged has read.
LEMMA ChangedIs ==
    ASSUME Typed, FeedTyped, Timed, ReadChanged
    PROVE  /\ NextChange.slot \in Going
           /\ batch' \subseteq [slot : Going, entry : AnyEntry, left : Nat]
           /\ \A r \in batch' : /\ r.slot = NextChange.slot /\ Live(source[r.slot]) /\ r.entry = source[r.slot]
                                /\ LeftOf(r)
           /\ \A q, r \in batch' : q = r
           /\ Live(source[NextChange.slot]) =>
                \E r \in batch' : r.slot = NextChange.slot /\ r.entry = source[r.slot]
<1> DEFINE s == NextChange.slot
<1>1. s \in Going
  BY NextIs DEF ReadChanged, Going
<1> PICK lost \in 0 .. MostLost : batch' = IF Live(source[s]) THEN {ReadOf(s, lost)} ELSE {}
  BY DEF ReadChanged
<1> HIDE DEF s
<1>3. CASE ~Live(source[s])
  BY <1>1, <1>3 DEF s
<1>4. CASE Live(source[s])
  <2>1. /\ ReadOf(s, lost) \in [slot : Going, entry : AnyEntry, left : Nat]
        /\ ReadOf(s, lost).slot = s /\ ReadOf(s, lost).entry = source[s]
        /\ LeftOf(ReadOf(s, lost))
    BY <1>1, <1>4, ReadOfIs
  <2>2. batch' = {ReadOf(s, lost)}
    BY <1>4
  <2> DEFINE q == ReadOf(s, lost)
  <2> HIDE DEF q
  <2>3. \A r \in batch' : r = q
    BY <2>2 DEF q
  <2>4. q \in batch' /\ q.slot = s /\ q.entry = source[s] /\ LeftOf(q)
        /\ q \in [slot : Going, entry : AnyEntry, left : Nat]
    BY <2>1, <2>2 DEF q
  <2> QED BY <1>1, <1>4, <2>3, <2>4 DEF s
<1> QED BY <1>3, <1>4

LEMMA ReadChangedKeepsTtl == ASSUME TtlInv, ReadChanged PROVE TtlInv'
<1> USE DEF TtlInv
<1>1. /\ UNCHANGED <<job, now, source, unreported, feed, writes, restarts, target, listed, todo, position>>
      /\ step' = "changed" /\ position < Len(feed)
  BY DEF ReadChanged, MigratorStep, sourceVars
<1>2. Going' = Going
  BY <1>1, NamesStay
<1>3. FeedTyped'
  BY <1>1, <1>2, ChangedIs DEF FeedTyped, NextChange
<1>4. Typed'
  BY <1>1, <1>2, ChangedIs DEF Typed
<1>5. Named' /\ Timed'
  BY <1>1, <1>4, ChangedIs, MigratorKeepsTimes
<1> QED BY <1>3, <1>4, <1>5

\* What PutChanged writes.
LEMMA BroughtIs ==
    ASSUME Typed, FeedTyped, PutChanged
    PROVE  /\ To(NextChange.slot) \in Slots /\ NextChange.slot \in Going
           /\ \A t \in Slots : t # To(NextChange.slot) => target'[t] = target[t]
           /\ batch = {} => target'[To(NextChange.slot)] = Absent
           /\ batch # {} => \E r \in batch : r.left > 0 /\ target'[To(NextChange.slot)] = Written(r)
<1> DEFINE d == To(NextChange.slot)
           q == CHOOSE r \in batch : TRUE
<1>1. NextChange.slot \in Going
  BY DEF PutChanged, FeedTyped
<1>2. d \in Slots
  BY <1>1, ToIsSlot DEF Typed
<1>3. target' = [target EXCEPT ![d] = IF batch = {} THEN Absent ELSE Written(q)]
      /\ \A r \in batch : r.left > 0
  BY DEF PutChanged
<1>4. batch # {} => q \in batch
  OBVIOUS
<1> HIDE DEF q, d
<1>5. /\ \A t \in Slots : t # d => target'[t] = target[t]
      /\ target'[d] = IF batch = {} THEN Absent ELSE Written(q)
  BY <1>2, <1>3 DEF Typed
<1> QED BY <1>1, <1>2, <1>3, <1>4, <1>5 DEF d

LEMMA PutChangedKeepsTtl == ASSUME TtlInv, PutChanged PROVE TtlInv'
<1> USE DEF TtlInv
<1> DEFINE d == To(NextChange.slot)
<1>1. /\ UNCHANGED <<job, now, source, unreported, feed, writes, restarts, listed, todo>>
      /\ step = "changed" /\ step' = "applying" /\ position' = position + 1 /\ batch' = {}
  BY DEF PutChanged, MigratorStep, sourceVars
<1>2. Going' = Going
  BY <1>1, NamesStay
<1>3. FeedTyped'
  BY <1>1, NextIs DEF FeedTyped
<1>4. \A r \in batch : LeftOf(r)
  BY <1>1 DEF Timed
<1>5. \A t \in Slots : \/ target'[t] = target[t] \/ target'[t] = Absent
                       \/ \E r \in batch : LeftOf(r) /\ r.left > 0 /\ target'[t] = Written(r)
  <2> TAKE t \in Slots
  <2>1. CASE t # d
    BY <2>1, BroughtIs
  <2>2. CASE t = d
    BY <2>2, <1>4, BroughtIs
  <2> QED BY <2>1, <2>2
<1> HIDE DEF d
<1>6. \A t \in Slots : target'[t] \in AnyEntry
  BY <1>5, AbsentIs, WrittenIs DEF Typed
<1>7. target' \in [Slots -> AnyEntry]
  <2>1. \E e : target' = [target EXCEPT ![d] = e]
    BY DEF PutChanged, d
  <2>2. PICK e : target' = [target EXCEPT ![d] = e]
    BY <2>1
  <2>3. d \in Slots
    BY BroughtIs DEF d
  <2>4. e \in AnyEntry
    BY <1>6, <2>2, <2>3 DEF Typed
  <2> QED BY <2>2, <2>4 DEF Typed
<1>8. Typed'
  BY <1>1, <1>2, <1>7 DEF Typed
<1>9. Named' /\ Timed'
  BY <1>1, <1>5, <1>8, MigratorKeepsTimes
<1> QED BY <1>3, <1>8, <1>9

-----------------------------------------------------------------------------
(* Rewriting in place *)

LEMMA KsScanKeepsTtl == ASSUME TtlInv, NothingRead, KsScan PROVE TtlInv'
<1>1. /\ UNCHANGED <<job, now, source, unreported, feed, writes, restarts, target, listed, position>>
      /\ step' = "moving" /\ batch' = {}
  BY DEF KsScan, MigratorStep, sourceVars, NothingRead
<1>2. todo' \subseteq Going
  BY DEF KsScan, Going
<1>3. FeedTyped'
  BY <1>1, FeedStays DEF TtlInv
<1> QED BY <1>1, <1>2, <1>3, IdleKeepsTtl DEF TtlInv, Typed

LEMMA KsGetKeepsTtl == ASSUME TtlInv, NEW s \in Slots, KsGet(s) PROVE TtlInv'
<1> USE DEF TtlInv
<1>1. /\ UNCHANGED <<job, now, source, unreported, feed, writes, restarts, target, listed, step, position>>
      /\ step = "moving" /\ todo' = todo \ {s} /\ s \in todo
      /\ batch' = IF Live(source[s]) THEN {[slot |-> s, entry |-> source[s], left |-> Never]} ELSE {}
  BY DEF KsGet, MigratorStep, sourceVars
<1>2. Going' = Going
  BY <1>1, NamesStay
<1>3. FeedTyped'
  BY <1>1, FeedStays
<1>4. \A r \in batch' : Live(source[s]) /\ r = [slot |-> s, entry |-> source[s], left |-> Never]
  BY <1>1
<1>5. [slot |-> s, entry |-> source[s], left |-> Never] \in [slot : Going, entry : AnyEntry, left : Nat]
  BY <1>1, NeverIsNat DEF Typed
<1>6. Typed'
  BY <1>1, <1>2, <1>4, <1>5 DEF Typed
<1>7. \A r \in batch' : Live(source[r.slot]) /\ r.entry = source[r.slot] /\ r.left = Never
  BY <1>4
<1>8. Named' /\ Timed'
  BY <1>1, <1>6, <1>7, MigratorKeepsTimes
<1> QED BY <1>3, <1>6, <1>8

LEMMA NeverIsPositive == Never > 0
BY MigrationBounds DEF Never

LEMMA KsInspectKeepsTtl == ASSUME TtlInv, KsInspect PROVE TtlInv'
<1> USE DEF TtlInv
<1> PICK r \in batch, ended \in BOOLEAN :
        LET exists == Live(target[To(r.slot)])
            gone == job.preserve /\ ~exists /\ (~Live(source[r.slot]) \/ (ended /\ Ending(r.slot)))
        IN  /\ step' = IF gone THEN "moving" ELSE IF exists THEN "registering" ELSE "storing"
            /\ batch' = IF gone THEN {}
                        ELSE IF exists \/ ~job.preserve THEN batch ELSE {ReadOf(r.slot, 0)}
  BY DEF KsInspect
<1>1. /\ UNCHANGED <<job, now, source, unreported, feed, writes, restarts, target, listed, todo, position>>
      /\ step = "moving" /\ step' \in {"moving", "registering", "storing"}
  BY DEF KsInspect, MigratorStep, sourceVars
<1>2. Going' = Going
  BY <1>1, NamesStay
<1>3. FeedTyped'
  BY <1>1, FeedStays
<1>4. \A q \in batch : q.left = Never
  BY <1>1 DEF Timed
<1>5. r.slot \in Going
  BY DEF Typed
<1>6. CASE batch' = {}
  <2>1. Typed'
    BY <1>1, <1>2, <1>6 DEF Typed
  <2>2. Named' /\ Timed'
    BY <1>1, <1>6, <2>1, MigratorKeepsTimes
  <2> QED BY <1>3, <2>1, <2>2
<1>7. CASE batch' = batch /\ (step' = "registering" \/ (step' = "storing" /\ ~job.preserve))
  <2>1. Typed'
    BY <1>1, <1>2, <1>7 DEF Typed
  <2>2. \A q \in batch' : q.left > 0
    BY <1>4, <1>7, NeverIsPositive
  <2>3. ~job.preserve => \A q \in batch' : LeftOf(q)
    BY <1>4, <1>7 DEF LeftOf
  <2>4. Named' /\ Timed'
    BY <1>1, <1>7, <2>1, <2>2, <2>3, MigratorKeepsTimes
  <2> QED BY <1>3, <2>1, <2>4
<1>8. CASE batch' = {ReadOf(r.slot, 0)} /\ job.preserve /\ Live(source[r.slot])
  <2> DEFINE q == ReadOf(r.slot, 0)
  <2>1. /\ q \in [slot : Going, entry : AnyEntry, left : Nat]
        /\ q.slot = r.slot /\ q.entry = source[r.slot] /\ LeftOf(q)
    BY <1>5, <1>8, MostLostIs, ReadOfIs
  <2>2. q.left > 0
    BY <1>5, <1>8, MostLostIs, ReadOfIs
  <2> HIDE DEF q
  <2>3. batch' = {q}
    BY <1>8 DEF q
  <2>4. Typed'
    BY <1>1, <1>2, <2>1, <2>3 DEF Typed
  <2>5. \A p \in batch' : Live(source[p.slot]) /\ p.entry = source[p.slot] /\ LeftOf(p) /\ p.left > 0
    BY <1>8, <2>1, <2>2, <2>3
  <2>6. step' # "moving"
    BY <1>8, <2>3
  <2>7. Named' /\ Timed'
    BY <1>1, <2>4, <2>5, <2>6, MigratorKeepsTimes
  <2> QED BY <1>3, <2>4, <2>7
<1>9. batch' = {} \/ (batch' = batch /\ (step' = "registering" \/ (step' = "storing" /\ ~job.preserve)))
      \/ (batch' = {ReadOf(r.slot, 0)} /\ job.preserve /\ Live(source[r.slot]))
  OBVIOUS
<1> QED BY <1>6, <1>7, <1>8, <1>9

LEMMA KsStoreKeepsTtl == ASSUME TtlInv, KsStore PROVE TtlInv'
<1> USE DEF TtlInv
<1> PICK r \in batch : target' = [target EXCEPT ![To(r.slot)] = Written(r)]
  BY DEF KsStore
<1>1. /\ UNCHANGED <<job, now, source, unreported, feed, writes, restarts, listed, todo, batch, position>>
      /\ step = "storing" /\ step' = "registering"
  BY DEF KsStore, MigratorStep, sourceVars
<1>2. Going' = Going
  BY <1>1, NamesStay
<1>3. FeedTyped'
  BY <1>1, FeedStays
<1>4. LeftOf(r) /\ r.left > 0
  BY <1>1 DEF Timed
<1>5. Written(r) \in AnyEntry
  BY <1>4, WrittenIs
<1>6. \A t \in Slots : target'[t] = target[t] \/ target'[t] = Written(r)
  BY DEF Typed
<1>7. Typed'
  BY <1>1, <1>2, <1>5 DEF Typed
<1>8. Named' /\ Timed'
  BY <1>1, <1>4, <1>6, <1>7, MigratorKeepsTimes
<1> QED BY <1>3, <1>7, <1>8

LEMMA KsRegisterKeepsTtl == ASSUME TtlInv, KsRegister PROVE TtlInv'
<1> USE DEF TtlInv
<1>1. /\ UNCHANGED <<job, now, source, unreported, feed, writes, target, restarts, position, listed, todo, batch>>
      /\ step = "registering" /\ step' = "removing"
  BY DEF KsRegister, sourceVars
<1>2. Going' = Going
  BY <1>1, NamesStay
<1>3. FeedTyped'
  BY <1>1, FeedStays
<1>4. Typed'
  BY <1>1, <1>2 DEF Typed
<1>5. Named' /\ Timed'
  BY <1>1, <1>4, MigratorKeepsTimes
<1> QED BY <1>3, <1>4, <1>5

LEMMA KsRemoveKeepsTtl == ASSUME TtlInv, KsRemove PROVE TtlInv'
<1> USE DEF TtlInv
<1> PICK r \in batch : source' = [source EXCEPT ![r.slot] = Absent]
  BY DEF KsRemove
<1>1. /\ UNCHANGED <<job, now, target, unreported, feed, writes, restarts, listed, todo, position>>
      /\ batch' = {} /\ step' = "moving" /\ r.slot \in Slots
  BY DEF KsRemove, Typed, Going
<1>2. Going' = Going
  BY <1>1, NamesStay
<1>3. FeedTyped'
  BY <1>1, FeedStays
<1>4. Typed'
  BY <1>1, <1>2, AbsentIs DEF Typed
<1> QED BY <1>1, <1>3, <1>4, GoneKeepsTimes

LEMMA KsDoneKeepsTtl == ASSUME TtlInv, KsDone PROVE TtlInv'
<1>1. /\ UNCHANGED <<job, now, source, unreported, feed, writes, target, restarts, position, listed, todo, batch>>
      /\ step' = "moved" /\ batch = {}
  BY DEF KsDone, MigratorStep, sourceVars
<1>2. FeedTyped'
  BY <1>1, FeedStays DEF TtlInv
<1> QED BY <1>1, <1>2, IdleKeepsTtl DEF TtlInv, Typed

-----------------------------------------------------------------------------

LEMMA NothingReadStays == ASSUME NothingRead, [Next]_vars PROVE NothingRead'
<1>1. CASE UNCHANGED vars
  BY <1>1 DEF vars, NothingRead
<1>2. ASSUME NEW s \in Used, (\E ttl \in TTLs : SourcePut(s, ttl)) \/ SourceDelete(s) \/ Report(s) \/ TargetPut(s)
      PROVE  NothingRead'
  <2>1. step' = step /\ batch' = batch
    BY <1>2 DEF SourcePut, SourceDelete, Report, TargetPut, jobVars, copyVars
  <2> QED BY <2>1 DEF NothingRead
<1>3. CASE Tick
  BY <1>3 DEF Tick, jobVars, copyVars, NothingRead
<1>4. CASE Copy
  <2>1. CASE Subscribe \/ ListCollections \/ CopyDone \/ Refused
    BY <2>1 DEF Subscribe, ListCollections, CopyDone, Refused, NothingRead
  <2>2. CASE \E c \in Collections : ListKeys(c)
    BY <2>2 DEF ListKeys, NothingRead
  <2>3. CASE (\E B \in SUBSET todo : ReadBatch(B)) \/ (\E R \in SUBSET batch : PutCopies(R))
    BY <2>3 DEF ReadBatch, PutCopies, NothingRead
  <2> QED BY <1>4, <2>1, <2>2, <2>3 DEF Copy
<1>5. CASE Replay
  BY <1>5 DEF Replay, ApplyDelete, ReadChanged, PutChanged, NothingRead
<1>6. CASE Rewrite
  BY <1>6 DEF Rewrite, KsScan, KsInspect, KsStore, KsRegister, KsRemove, KsDone, KsGet, NothingRead
<1>7. CASE Restart
  BY <1>7 DEF Restart, NothingRead
<1> QED BY <1>1, <1>2, <1>3, <1>4, <1>5, <1>6, <1>7 DEF Next, Migrate

LEMMA StepKeepsTtl == ASSUME TtlInv, NothingRead, [Next]_vars PROVE TtlInv'
<1>1. CASE UNCHANGED vars
  <2>1. UNCHANGED <<job, now, source, target, unreported, feed, writes, step, listed, todo, batch, position,
                    restarts>>
    BY <1>1 DEF vars
  <2>2. FeedTyped'
    BY <2>1, FeedStays DEF TtlInv
  <2> QED BY <2>1, <2>2, IdleKeepsTtl DEF TtlInv, Typed
<1>2. ASSUME NEW s \in Used, (\E ttl \in TTLs : SourcePut(s, ttl)) \/ SourceDelete(s) \/ Report(s) \/ TargetPut(s)
      PROVE  TtlInv'
  BY <1>2, SourcePutKeepsTtl, SourceDeleteKeepsTtl, ReportKeepsTtl, TargetPutKeepsTtl
<1>3. CASE Copy
  <2>1. CASE Subscribe
    BY <2>1, SubscribeKeepsTtl DEF NothingRead
  <2>2. CASE ListCollections
    BY <2>2, ListCollectionsKeepsTtl DEF NothingRead, ListCollections
  <2> QED BY <1>3, <2>1, <2>2, CopyDoneKeepsTtl, RefusedKeepsTtl, ListKeysKeepsTtl, ReadBatchKeepsTtl,
             PutCopiesKeepsTtl DEF Copy
<1>4. CASE Replay
  BY <1>4, ApplyDeleteKeepsTtl, ReadChangedKeepsTtl, PutChangedKeepsTtl DEF Replay
<1>5. CASE Rewrite
  BY <1>5, KsScanKeepsTtl, KsInspectKeepsTtl, KsStoreKeepsTtl, KsRegisterKeepsTtl, KsRemoveKeepsTtl, KsDoneKeepsTtl, KsGetKeepsTtl
  DEF Rewrite
<1>6. CASE Tick \/ Restart
  BY <1>6, TickKeepsTtl, RestartKeepsTtl
<1> QED BY <1>1, <1>2, <1>3, <1>4, <1>5, <1>6 DEF Next, Migrate

LEMMA TtlAlways == Spec => [](TtlInv /\ NothingRead)
<1>1. Init => TtlInv /\ NothingRead
  BY InitTtl DEF Init, NothingRead
<1>2. TtlInv /\ NothingRead /\ [Next]_vars => (TtlInv /\ NothingRead)'
  BY StepKeepsTtl, NothingReadStays
<1> QED BY <1>1, <1>2, PTL DEF Spec

\* Copied, brought by a change or moved in place, an entry keeps its time to live but for two
\* milliseconds (in place, but for nothing): what is read of an entry is never taken for that
\* of another, and what is left of its time, cut to milliseconds twice and put to the time at
\* which it is written, ends no earlier than that, and no later than the copying took.
THEOREM MigrationCarriesTtl == Spec => []TtlCarried
<1>1. TtlInv => TtlCarried
  BY DEF TtlInv, Timed
<1> QED BY <1>1, TtlAlways, PTL

-----------------------------------------------------------------------------
(* A copy arrives.  What is in the source and not yet in the target is either *)
(* still to be copied or has a change that is still to be applied.            *)

\* Listings come whole.
Whole ==
    /\ IsFiniteSet(Collections) /\ IsFiniteSet(Keys)
    /\ Cardinality(Collections) <= PageLimit /\ Cardinality(Keys) <= PageLimit

\* There is a change of s after the first n of the feed, or there will be one.
Follows(s, n) == unreported[s] # "none" \/ \E i \in DOMAIN feed : i > n /\ feed[i].slot = s
PutFollows(s, n) ==
    unreported[s] = "Put" \/ \E i \in DOMAIN feed : i > n /\ feed[i] = [slot |-> s, operation |-> "Put"]

\* The last change of a slot says whether the source has it.
FeedIsTrue ==
    /\ \A s \in Slots : /\ unreported[s] = "Put" => Held(source[s])
                        /\ unreported[s] = "Delete" => ~Held(source[s])
    /\ \A i \in DOMAIN feed : feed[i].operation = "Delete" /\ Held(source[feed[i].slot])
            => PutFollows(feed[i].slot, i)

\* The changes that have been looked at.
Seen == IF step = "changed" THEN position + 1 ELSE position

\* What has been read is what the source has, or it has been followed.
ReadIsFresh ==
    \A r \in batch :
        /\ r.entry = source[r.slot] \/ Follows(r.slot, Seen)
        /\ Live(source[r.slot]) => r.entry = source[r.slot] \/ PutFollows(r.slot, Seen)

\* Where something has been read.
StepsOfCopy ==
    /\ step \in {"start", "collections", "keys", "applying", "changed"}
    /\ step = "changed" => NextChange.operation = "Put" /\ \A r \in batch : r.slot = NextChange.slot
    /\ \A q, r \in batch : q.slot = r.slot => q = r

\* The copy has yet to come to this entry.
ToCome(s) ==
    \/ step \in {"start", "collections"}
    \/ step = "keys" /\ (s[1] \in listed \/ s \in todo \/ \E r \in batch : r.slot = s /\ r.entry = source[s])

\* The change that is being applied brings the entry, or a later one does.
Brought(s) == PutFollows(s, position + 1) \/ \E r \in batch : r.slot = s /\ r.entry = source[s]

Arriving ==
    \A s \in Going : Live(source[s]) =>
        IF step = "changed" /\ NextChange.slot = s THEN Brought(s)
        ELSE target[To(s)].put = source[s].put \/ PutFollows(s, Seen) \/ ToCome(s)

\* What the target has, the source has, or a change is still to be applied.
Leaving ==
    restarts = 0 =>
        /\ step = "start" => \A t \in Slots : ~Held(target[t])
        /\ \A t \in Slots : Held(target[t]) =>
                \E s \in Going : To(s) = t /\ (source[s].put = target[t].put \/ Follows(s, position))

CopyOk == StepsOfCopy /\ FeedIsTrue /\ ReadIsFresh /\ Arriving /\ Leaving
CopyInv == job \in Jobs /\ (job.kind = "copy" => CopyOk)

\* A listing that fits on its page is whole.
LEMMA PageIsWhole ==
    ASSUME NEW S, IsFiniteSet(S), Cardinality(S) <= PageLimit, NEW P \in Pages(S)
    PROVE  P = S
<1>1. P \in SUBSET S /\ Cardinality(P) = IF Cardinality(S) < PageLimit THEN Cardinality(S) ELSE PageLimit
  BY DEF Pages
<1>2. Cardinality(S) \in Nat /\ PageLimit \in Nat
  BY FS_CardinalityType, MigrationBounds
<1>3. Cardinality(P) = Cardinality(S)
  BY <1>1, <1>2
<1> QED BY <1>1, <1>3, FS_Subset

LEMMA ListingsFit ==
    ASSUME Whole
    PROVE  /\ \A S \in SUBSET Collections : IsFiniteSet(S) /\ Cardinality(S) <= PageLimit
           /\ \A c : \A S \in SUBSET ({c} \X Keys) : IsFiniteSet(S) /\ Cardinality(S) <= PageLimit
<1>1. ASSUME NEW All, IsFiniteSet(All), Cardinality(All) <= PageLimit, NEW S \in SUBSET All
      PROVE  IsFiniteSet(S) /\ Cardinality(S) <= PageLimit
  <2>1. IsFiniteSet(S) /\ Cardinality(S) <= Cardinality(All)
    BY <1>1, FS_Subset
  <2>2. Cardinality(S) \in Nat /\ Cardinality(All) \in Nat /\ PageLimit \in Nat
    BY <1>1, <2>1, FS_CardinalityType, MigrationBounds
  <2> QED BY <1>1, <2>1, <2>2
<1>2. ASSUME NEW c PROVE IsFiniteSet({c} \X Keys) /\ Cardinality({c} \X Keys) <= PageLimit
  <2>1. IsFiniteSet({c}) /\ Cardinality({c}) = 1
    BY FS_Singleton
  <2>2. IsFiniteSet(Keys) /\ Cardinality(Keys) \in Nat /\ Cardinality(Keys) <= PageLimit
    BY FS_CardinalityType DEF Whole
  <2>3. IsFiniteSet({c} \X Keys) /\ Cardinality({c} \X Keys) = Cardinality({c}) * Cardinality(Keys)
    BY <2>1, <2>2, FS_Product
  <2>4. Cardinality({c} \X Keys) = Cardinality(Keys)
    BY <2>1, <2>2, <2>3
  <2> QED BY <2>2, <2>3, <2>4
<1>3. \A S \in SUBSET Collections : IsFiniteSet(S) /\ Cardinality(S) <= PageLimit
  BY <1>1 DEF Whole
<1>4. ASSUME NEW c PROVE \A S \in SUBSET ({c} \X Keys) : IsFiniteSet(S) /\ Cardinality(S) <= PageLimit
  BY <1>1, <1>2
<1> QED BY <1>3, <1>4

LEMMA InitCopy == Init => CopyInv
<1> SUFFICES ASSUME Init PROVE CopyInv
  OBVIOUS
<1>1. \A s \in Slots : source[s] = Absent /\ target[s] = Absent /\ unreported[s] = "none"
  BY DEF Init
<1>2. StepsOfCopy /\ FeedIsTrue /\ ReadIsFresh
  BY <1>1 DEF Init, StepsOfCopy, FeedIsTrue, ReadIsFresh
<1>3. Arriving
  BY <1>1 DEF Init, Arriving, Going, Live, Absent
<1>4. Leaving
  BY <1>1 DEF Init, Leaving, Held, Absent
<1> QED BY <1>2, <1>3, <1>4 DEF Init, CopyInv, CopyOk

LEMMA FeedNamesSlots == ASSUME FeedTyped, NEW i \in DOMAIN feed PROVE feed[i].slot \in Slots
<1> DEFINE Change == [slot : Slots, operation : {"Put", "Delete"}]
<1>1. feed \in Seq(Change)
  BY DEF FeedTyped
<1> HIDE DEF Change
<1>2. feed[i] \in Change
  BY <1>1
<1> QED BY <1>2 DEF Change

\* What follows a reported change.
LEMMA FollowsStay ==
    ASSUME FeedTyped, NEW s \in Slots, Report(s)
    PROVE  \A u \in Slots : \A n \in 0 .. Len(feed) :
               /\ Follows(u, n) => Follows(u, n)'
               /\ PutFollows(u, n) => PutFollows(u, n)'
<1> DEFINE k == Len(feed)
<1>1. /\ k \in Nat /\ Len(feed') = k + 1
      /\ feed'[k + 1] = [slot |-> s, operation |-> unreported[s]]
      /\ \A i \in 1 .. k : feed'[i] = feed[i]
      /\ \A u \in Slots : unreported'[u] = IF u = s THEN "none" ELSE unreported[u]
      /\ feed' \in Seq([slot : Slots, operation : {"Put", "Delete"}])
  BY ReportIs
<1>2. DOMAIN feed = 1 .. k /\ DOMAIN feed' = 1 .. (k + 1)
  BY <1>1 DEF FeedTyped
<1> HIDE DEF k
<1> SUFFICES ASSUME NEW u \in Slots, NEW n \in 0 .. k
             PROVE  /\ Follows(u, n) => Follows(u, n)'
                    /\ PutFollows(u, n) => PutFollows(u, n)'
  BY DEF k
<1>3. k + 1 \in DOMAIN feed' /\ k + 1 > n
  BY <1>1, <1>2
<1>4. ASSUME NEW i \in DOMAIN feed PROVE i \in DOMAIN feed' /\ feed'[i] = feed[i]
  BY <1>1, <1>2
<1>5. Follows(u, n) => Follows(u, n)'
  BY <1>1, <1>3, <1>4 DEF Follows
<1>6. PutFollows(u, n) => PutFollows(u, n)'
  BY <1>1, <1>3, <1>4 DEF PutFollows
<1> QED BY <1>5, <1>6

-----------------------------------------------------------------------------
(* The source's users write while the copy goes on *)

CopyStep == CopyInv /\ job.kind = "copy" /\ TtlInv /\ NothingRead

\* Whatever happens in the source is reported, now or later.
Reported ==
    /\ UNCHANGED <<job, target, step, listed, todo, batch, position, restarts>>
    /\ step = "changed" => NextChange' = NextChange
    /\ \A u \in Slots :
        /\ source'[u] = source[u] \/ unreported'[u] # "none"
        /\ Live(source[u])' => unreported'[u] = "Put" \/ (Live(source[u]) /\ source'[u] = source[u])
        /\ \A n \in 0 .. Len(feed) :
            /\ Follows(u, n) => Follows(u, n)'
            /\ PutFollows(u, n) => PutFollows(u, n)'

LEMMA ReportedKeepsCopy ==
    ASSUME CopyStep, Reported, FeedIsTrue'
    PROVE  CopyOk'
<1> USE DEF CopyStep, TtlInv
<1>1. CopyOk
  BY DEF CopyInv
<1>2. UNCHANGED <<job, target, step, listed, todo, batch, position, restarts>>
  BY DEF Reported
<1>3. Going' = Going /\ \A u : To(u)' = To(u)
  BY <1>2, NamesStay
<1>4. PICK k : k = Seen
  OBVIOUS
<1>5. k \in 0 .. Len(feed) /\ position \in 0 .. Len(feed) /\ Seen' = k
      /\ (step = "changed" => position + 1 \in 0 .. Len(feed))
  <2>1. Len(feed) \in Nat /\ position \in Nat /\ position <= Len(feed) /\ (step = "changed" => position < Len(feed))
    BY DEF FeedTyped
  <2>2. Seen' = Seen
    BY <1>2 DEF Seen
  <2> QED BY <1>4, <2>1, <2>2 DEF Seen
<1>6. PICK p : p = position
  OBVIOUS
<1>7. \A u \in Slots : unreported'[u] = "Put" => PutFollows(u, Seen)' /\ PutFollows(u, position + 1)'
  BY DEF PutFollows
<1>8. \A u \in Slots : unreported'[u] # "none" => Follows(u, Seen)' /\ Follows(u, position)'
  BY DEF Follows
<1>9. \A u \in Slots : /\ Follows(u, Seen) => Follows(u, Seen)'
                       /\ PutFollows(u, Seen) => PutFollows(u, Seen)'
                       /\ Follows(u, position) => Follows(u, position)'
                       /\ step = "changed" /\ PutFollows(u, position + 1) => PutFollows(u, position + 1)'
  <2> TAKE u \in Slots
  <2>1. \A n \in 0 .. Len(feed) : (Follows(u, n) => Follows(u, n)') /\ (PutFollows(u, n) => PutFollows(u, n)')
    BY DEF Reported
  <2>2. (Follows(u, k) => Follows(u, k)') /\ (PutFollows(u, k) => PutFollows(u, k)')
    BY <1>5, <2>1
  <2>3. Follows(u, p) => Follows(u, p)'
    BY <1>5, <1>6, <2>1
  <2>4. step = "changed" => (PutFollows(u, p + 1) => PutFollows(u, p + 1)')
    BY <1>5, <1>6, <2>1
  <2>5. p' = position' /\ p = position
    BY <1>2, <1>6
  <2> QED BY <1>2, <1>4, <1>5, <1>6, <2>2, <2>3, <2>4 DEF Follows, PutFollows
<1>10. StepsOfCopy'
  BY <1>1, <1>2 DEF Reported, CopyOk, StepsOfCopy
<1>11. ReadIsFresh'
  <2> SUFFICES ASSUME NEW r \in batch
               PROVE  /\ r.entry = source'[r.slot] \/ Follows(r.slot, Seen)'
                      /\ Live(source[r.slot])' => r.entry = source'[r.slot] \/ PutFollows(r.slot, Seen)'
    BY <1>2 DEF ReadIsFresh, Follows, PutFollows, Live
  <2>1. r.slot \in Slots
    BY DEF Typed, Going
  <2>2. /\ r.entry = source[r.slot] \/ Follows(r.slot, Seen)
        /\ Live(source[r.slot]) => r.entry = source[r.slot] \/ PutFollows(r.slot, Seen)
    BY <1>1 DEF CopyOk, ReadIsFresh
  <2> QED BY <1>7, <1>8, <1>9, <2>1, <2>2 DEF Reported
<1>12. Arriving'
  <2> SUFFICES ASSUME NEW s \in Going, Live(source[s])'
               PROVE  IF step = "changed" /\ NextChange'.slot = s THEN Brought(s)'
                      ELSE target[To(s)].put = source'[s].put \/ PutFollows(s, Seen)' \/ ToCome(s)'
    BY <1>2, <1>3 DEF Arriving, PutFollows, Brought, ToCome
  <2>1. s \in Slots
    BY DEF Going
  <2>2. step = "changed" /\ NextChange'.slot = s => NextChange.slot = s
    BY DEF Reported
  <2>3. step = "changed" /\ NextChange.slot = s => NextChange'.slot = s
    BY DEF Reported
  <2>4. CASE unreported'[s] = "Put"
    BY <1>7, <2>1, <2>4 DEF Brought, PutFollows
  <2>5. CASE Live(source[s]) /\ source'[s] = source[s]
    <3>1. IF step = "changed" /\ NextChange.slot = s THEN Brought(s)
          ELSE target[To(s)].put = source[s].put \/ PutFollows(s, Seen) \/ ToCome(s)
      BY <1>1, <2>5 DEF CopyOk, Arriving
    <3>2. step = "changed" /\ Brought(s) => Brought(s)'
      <4>1. Brought(s) <=> PutFollows(s, position + 1) \/ \E r \in batch : r.slot = s /\ r.entry = source[s]
        BY DEF Brought
      <4>2. Brought(s)' <=> PutFollows(s, position + 1)' \/ \E r \in batch' : r.slot = s /\ r.entry = source'[s]
        BY DEF Brought
      <4> QED BY <1>2, <1>9, <2>1, <2>5, <4>1, <4>2
    <3>3. ToCome(s) => ToCome(s)'
      BY <1>2, <2>5 DEF ToCome
    <3> QED BY <1>9, <2>1, <2>2, <2>3, <2>5, <3>1, <3>2, <3>3
  <2> QED BY <2>1, <2>4, <2>5 DEF Reported
<1>13. Leaving'
  <2>1. CASE restarts # 0
    BY <1>2, <2>1 DEF Leaving
  <2>2. CASE restarts = 0
    <3>1. step = "start" => \A t \in Slots : ~Held(target[t])
      BY <1>1, <2>2 DEF CopyOk, Leaving
    <3>2. ASSUME NEW t \in Slots, Held(target[t])
          PROVE  \E s \in Going : To(s) = t /\ (source'[s].put = target[t].put \/ Follows(s, position)')
      <4>1. PICK s \in Going : To(s) = t /\ (source[s].put = target[t].put \/ Follows(s, position))
        BY <1>1, <2>2, <3>2 DEF CopyOk, Leaving
      <4>2. s \in Slots
        BY DEF Going
      <4>3. source'[s].put = target[t].put \/ Follows(s, position)'
        BY <1>8, <1>9, <4>1, <4>2 DEF Reported
      <4> QED BY <4>1, <4>3
    <3> QED BY <1>2, <1>3, <3>1, <3>2 DEF Leaving, Held, Follows
  <2> QED BY <2>1, <2>2
<1> QED BY <1>10, <1>11, <1>12, <1>13 DEF CopyOk

LEMMA SourcePutKeepsCopy ==
    ASSUME CopyStep, NEW s \in Used, NEW ttl \in TTLs, SourcePut(s, ttl)
    PROVE  CopyOk'
<1> USE DEF CopyStep, TtlInv
<1> DEFINE e == [put |-> writes + 1, expires |-> IF ttl = Never THEN Never ELSE now + ttl]
<1>1. /\ s \in Slots /\ source' = [source EXCEPT ![s] = e] /\ Held(e)
      /\ unreported' = [unreported EXCEPT ![s] = "Put"]
      /\ UNCHANGED <<job, now, target, feed, step, listed, todo, batch, position, restarts>>
  BY JobsAssumption DEF SourcePut, jobVars, copyVars, Noted, Held, Typed
<1> HIDE DEF e
<1>2. /\ \A u \in Slots : source'[u] = IF u = s THEN e ELSE source[u]
      /\ \A u \in Slots : unreported'[u] = IF u = s THEN "Put" ELSE unreported[u]
  BY <1>1 DEF Typed, FeedTyped
<1>3. \A u \in Slots : \A n : /\ Follows(u, n) => Follows(u, n)'
                              /\ PutFollows(u, n) => PutFollows(u, n)'
  BY <1>1, <1>2 DEF Follows, PutFollows
<1>4. Reported
  BY <1>1, <1>2, <1>3 DEF Reported, Live, NextChange
<1>5. FeedIsTrue'
  <2>1. FeedIsTrue
    BY DEF CopyInv, CopyOk
  <2>2. \A u \in Slots : /\ unreported'[u] = "Put" => Held(source'[u])
                         /\ unreported'[u] = "Delete" => ~Held(source'[u])
    BY <1>1, <1>2, <2>1 DEF FeedIsTrue
  <2>3. ASSUME NEW i \in DOMAIN feed, feed[i].operation = "Delete", Held(source'[feed[i].slot])
        PROVE  PutFollows(feed[i].slot, i)'
    <3> PICK v : v = feed[i].slot
      OBVIOUS
    <3>1. v \in Slots
      BY FeedNamesSlots
    <3>2. CASE v = s
      BY <1>1, <1>2, <3>1, <3>2 DEF PutFollows
    <3>3. CASE v # s
      <4>1. PutFollows(v, i)
        BY <1>2, <2>1, <2>3, <3>1, <3>3 DEF FeedIsTrue, Held
      <4>2. PutFollows(v, i)'
        BY <1>3, <3>1, <4>1
      <4> QED BY <1>1, <4>2 DEF PutFollows
    <3> QED BY <3>2, <3>3
  <2> QED BY <1>1, <2>2, <2>3 DEF FeedIsTrue, Held
<1> QED BY <1>4, <1>5, ReportedKeepsCopy

LEMMA SourceDeleteKeepsCopy ==
    ASSUME CopyStep, NEW s \in Used, SourceDelete(s)
    PROVE  CopyOk'
<1> USE DEF CopyStep, TtlInv
<1>1. /\ s \in Slots /\ source' = [source EXCEPT ![s] = Absent] /\ unreported[s] = "none"
      /\ unreported' = [unreported EXCEPT ![s] = "Delete"]
      /\ UNCHANGED <<job, now, target, feed, step, listed, todo, batch, position, restarts>>
  BY JobsAssumption DEF SourceDelete, MayWrite, jobVars, copyVars, Noted
<1>2. /\ \A u \in Slots : source'[u] = IF u = s THEN Absent ELSE source[u]
      /\ \A u \in Slots : unreported'[u] = IF u = s THEN "Delete" ELSE unreported[u]
  BY <1>1 DEF Typed, FeedTyped
<1>3. \A u \in Slots : \A n : /\ Follows(u, n) => Follows(u, n)'
                              /\ PutFollows(u, n) => PutFollows(u, n)'
  BY <1>1, <1>2 DEF Follows, PutFollows
<1>4. ~Held(Absent) /\ ~Live(Absent)' /\ \A u \in Slots : Live(source[u])' => u # s
  BY <1>2 DEF Held, Live, Absent
<1>5. Reported
  BY <1>1, <1>2, <1>3, <1>4 DEF Reported, Live, NextChange
<1>6. FeedIsTrue'
  <2>1. FeedIsTrue
    BY DEF CopyInv, CopyOk
  <2>2. \A u \in Slots : /\ unreported'[u] = "Put" => Held(source'[u])
                         /\ unreported'[u] = "Delete" => ~Held(source'[u])
    BY <1>1, <1>2, <1>4, <2>1 DEF FeedIsTrue
  <2>3. ASSUME NEW i \in DOMAIN feed, feed[i].operation = "Delete", Held(source'[feed[i].slot])
        PROVE  PutFollows(feed[i].slot, i)'
    <3> PICK v : v = feed[i].slot
      OBVIOUS
    <3>1. v \in Slots
      BY FeedNamesSlots
    <3>2. v # s
      BY <1>2, <1>4, <2>3, <3>1
    <3>3. PutFollows(v, i)
      BY <1>2, <2>1, <2>3, <3>1, <3>2 DEF FeedIsTrue, Held
    <3>4. PutFollows(v, i)'
      BY <1>3, <3>1, <3>3
    <3> QED BY <1>1, <3>4 DEF PutFollows
  <2> QED BY <1>1, <2>2, <2>3 DEF FeedIsTrue, Held
<1> QED BY <1>5, <1>6, ReportedKeepsCopy

LEMMA ReportKeepsCopy ==
    ASSUME CopyStep, NEW s \in Used, Report(s)
    PROVE  CopyOk'
<1> USE DEF CopyStep, TtlInv
<1> DEFINE k == Len(feed)
<1>1. /\ s \in Slots
      /\ UNCHANGED <<job, now, source, target, step, listed, todo, batch, position, restarts>>
  BY JobsAssumption DEF Report, jobVars, copyVars
<1>2. /\ k \in Nat /\ Len(feed') = k + 1
      /\ feed'[k + 1] = [slot |-> s, operation |-> unreported[s]]
      /\ \A i \in 1 .. k : feed'[i] = feed[i]
      /\ \A u \in Slots : unreported'[u] = IF u = s THEN "none" ELSE unreported[u]
      /\ feed' \in Seq([slot : Slots, operation : {"Put", "Delete"}])
  BY <1>1, ReportIs
<1>3. DOMAIN feed = 1 .. k /\ DOMAIN feed' = 1 .. (k + 1)
  BY <1>2 DEF FeedTyped
<1>4. \A u \in Slots : \A n \in 0 .. k : /\ Follows(u, n) => Follows(u, n)'
                                         /\ PutFollows(u, n) => PutFollows(u, n)'
  BY <1>1, FollowsStay
<1>5. step = "changed" => NextChange' = NextChange
  <2>1. step = "changed" => position + 1 \in 1 .. k
    BY <1>2 DEF FeedTyped
  <2> QED BY <1>1, <1>2, <2>1 DEF NextChange
<1>6. Reported
  BY <1>1, <1>4, <1>5 DEF Reported, Live
<1>7. FeedIsTrue'
  <2>1. FeedIsTrue
    BY DEF CopyInv, CopyOk
  <2> HIDE DEF k
  <2>2. \A u \in Slots : /\ unreported'[u] = "Put" => Held(source'[u])
                         /\ unreported'[u] = "Delete" => ~Held(source'[u])
    BY <1>1, <1>2, <2>1 DEF FeedIsTrue
  <2>3. ASSUME NEW i \in 1 .. (k + 1), feed'[i].operation = "Delete", Held(source[feed'[i].slot])
        PROVE  PutFollows(feed[i].slot, i)'
    <3>1. i # k + 1
      BY <1>1, <1>2, <2>1, <2>3 DEF FeedIsTrue
    <3>2. i \in 1 .. k /\ feed'[i] = feed[i]
      BY <1>2, <3>1
    <3> PICK v : v = feed[i].slot
      OBVIOUS
    <3>3. v \in Slots
      BY <1>3, <3>2, FeedNamesSlots
    <3>4. PutFollows(v, i)
      BY <1>3, <2>1, <2>3, <3>2 DEF FeedIsTrue
    <3>5. PutFollows(v, i)'
      BY <1>2, <1>4, <3>2, <3>3, <3>4
    <3> QED BY <3>2, <3>5 DEF PutFollows
  <2> QED BY <1>1, <1>3, <2>2, <2>3 DEF FeedIsTrue, Held
<1> QED BY <1>6, <1>7, ReportedKeepsCopy

LEMMA TickKeepsCopy ==
    ASSUME CopyStep, Tick
    PROVE  CopyOk'
<1> USE DEF CopyStep, TtlInv
<1>1. /\ UNCHANGED <<job, source, target, unreported, feed, step, listed, todo, batch, position, restarts>>
      /\ now' = now + 1
  BY DEF Tick, sourceVars, jobVars, copyVars
<1>2. \A u \in Slots : Live(source[u])' => Live(source[u])
  BY <1>1 DEF Live, Typed, AnyEntry
<1>3. Reported
  BY <1>1, <1>2 DEF Reported, NextChange, Follows, PutFollows
<1>4. FeedIsTrue'
  BY <1>1 DEF CopyInv, CopyOk, FeedIsTrue, PutFollows, Held
<1> QED BY <1>3, <1>4, ReportedKeepsCopy

-----------------------------------------------------------------------------
(* The copy goes on *)

Quiet == UNCHANGED <<job, now, source, unreported, feed>>

LEMMA QuietStays ==
    ASSUME CopyStep, Quiet
    PROVE  /\ FeedIsTrue'
           /\ Going' = Going /\ \A u : To(u)' = To(u)
           /\ \A u, n : (Follows(u, n)' <=> Follows(u, n)) /\ (PutFollows(u, n)' <=> PutFollows(u, n))
           /\ \A u \in Slots : Live(source[u])' <=> Live(source[u])
<1>1. FeedIsTrue'
  BY DEF CopyStep, CopyInv, CopyOk, FeedIsTrue, Quiet, PutFollows, Held
<1>2. Going' = Going /\ \A u : To(u)' = To(u)
  BY NamesStay DEF Quiet
<1> QED BY <1>1, <1>2 DEF Quiet, Follows, PutFollows, Live

\* A step that neither writes nor receives a change: what it reads is what is there, and
\* nothing that was to come is passed over.
LEMMA LookingKeepsCopy ==
    ASSUME CopyStep, Quiet, StepsOfCopy', UNCHANGED <<target, restarts, position>>,
           step \in {"start", "collections", "keys", "applying"},
           step' \in {"collections", "keys", "applying"},
           \A r \in batch' : r \in batch \/ r.entry = source[r.slot],
           \A s \in Going : Live(source[s]) /\ ToCome(s) => ToCome(s)'
    PROVE  CopyOk'
<1>1. CopyOk
  BY DEF CopyStep, CopyInv
<1>2. Seen = position /\ Seen' = position
  BY DEF Seen
<1>3. ReadIsFresh'
  <2> SUFFICES ASSUME NEW r \in batch'
               PROVE  /\ r.entry = source[r.slot] \/ Follows(r.slot, position)
                      /\ Live(source[r.slot]) => r.entry = source[r.slot] \/ PutFollows(r.slot, position)
    BY <1>2 DEF ReadIsFresh, Quiet, Live, Follows, PutFollows
  <2>1. CASE r \in batch
    BY <1>1, <1>2, <2>1 DEF CopyOk, ReadIsFresh
  <2>2. CASE r.entry = source[r.slot]
    BY <2>2
  <2> QED BY <2>1, <2>2
<1>4. Arriving'
  <2> SUFFICES ASSUME NEW s \in Going, Live(source[s])
               PROVE  target[To(s)].put = source[s].put \/ PutFollows(s, position) \/ ToCome(s)'
    BY <1>2, QuietStays DEF Arriving, Quiet, Live, PutFollows, Going
  <2>1. target[To(s)].put = source[s].put \/ PutFollows(s, position) \/ ToCome(s)
    BY <1>1, <1>2 DEF CopyOk, Arriving
  <2> QED BY <2>1
<1>5. Leaving'
  <2>1. restarts = 0 => \A t \in Slots : Held(target[t]) =>
            \E s \in Going : To(s) = t /\ (source[s].put = target[t].put \/ Follows(s, position))
    BY <1>1 DEF CopyOk, Leaving
  <2> QED BY <2>1, QuietStays DEF Leaving, Quiet, Held, Follows
<1> QED BY <1>3, <1>4, <1>5, QuietStays DEF CopyOk

LEMMA SubscribeKeepsCopy == ASSUME CopyStep, Subscribe PROVE CopyOk'
<1>1. /\ Quiet /\ UNCHANGED <<target, listed, todo, batch, restarts>>
      /\ step = "start" /\ step' = "collections" /\ batch = {}
  BY DEF Subscribe, MigratorStep, sourceVars, Quiet, CopyStep, NothingRead
<1>2. CopyOk
  BY DEF CopyStep, CopyInv
<1>3. StepsOfCopy' /\ ReadIsFresh'
  BY <1>1 DEF StepsOfCopy, ReadIsFresh
<1>4. Arriving'
  <2>1. \A s \in Going : ToCome(s)'
    BY <1>1 DEF ToCome
  <2> QED BY <1>1, <2>1, QuietStays DEF Arriving
<1>5. Leaving'
  <2>1. restarts = 0 => \A t \in Slots : ~Held(target[t])
    BY <1>1, <1>2 DEF CopyOk, Leaving
  <2> QED BY <1>1, <2>1 DEF Leaving, Held
<1> QED BY <1>1, <1>3, <1>4, <1>5, QuietStays DEF CopyOk

LEMMA ListCollectionsKeepsCopy == ASSUME Whole, CopyStep, ListCollections PROVE CopyOk'
<1> DEFINE S == {c \in Collections : \E k \in Keys : Held(source[<<c, k>>])}
<1>1. /\ Quiet /\ UNCHANGED <<target, todo, batch, restarts, position>>
      /\ step = "collections" /\ step' = "keys" /\ batch = {} /\ listed' \in Pages(S)
  BY DEF ListCollections, MigratorStep, sourceVars, Quiet, CopyStep, NothingRead
<1>2. listed' = S
  <2>1. IsFiniteSet(S) /\ Cardinality(S) <= PageLimit
    BY ListingsFit
  <2> HIDE DEF S
  <2> QED BY <1>1, <2>1, PageIsWhole
<1>3. \A s \in Going : Live(source[s]) => ToCome(s)'
  <2> SUFFICES ASSUME NEW s \in Going, Live(source[s]) PROVE s[1] \in listed'
    BY <1>1 DEF ToCome
  <2>1. s[1] \in Collections /\ s[2] \in Keys /\ s = <<s[1], s[2]>>
    BY DEF Going, Slots
  <2>2. Held(source[<<s[1], s[2]>>])
    BY <2>1 DEF Live, Held
  <2> QED BY <1>2, <2>1, <2>2
<1>4. StepsOfCopy'
  BY <1>1 DEF StepsOfCopy
<1> QED BY <1>1, <1>3, <1>4, LookingKeepsCopy

LEMMA ListKeysKeepsCopy ==
    ASSUME Whole, CopyStep, NEW c \in Collections, ListKeys(c)
    PROVE  CopyOk'
<1> DEFINE S == {s \in Slots : s[1] = c /\ Live(source[s])}
<1>1. /\ Quiet /\ UNCHANGED <<target, step, batch, restarts, position>>
      /\ step = "keys" /\ batch = {} /\ listed' = listed \ {c} /\ todo = {}
      /\ Goes(<<c, CHOOSE k \in Keys : TRUE>>) => todo' \in Pages(S)
  BY DEF ListKeys, MigratorStep, sourceVars, Quiet
<1>2. Goes(<<c, CHOOSE k \in Keys : TRUE>>) => todo' = S
  <2>1. S \in SUBSET ({c} \X Keys)
    BY DEF Slots
  <2>2. IsFiniteSet(S) /\ Cardinality(S) <= PageLimit
    BY <2>1, ListingsFit
  <2> HIDE DEF S
  <2> QED BY <1>1, <2>2, PageIsWhole
<1>3. \A s \in Going : Live(source[s]) /\ ToCome(s) => ToCome(s)'
  <2> SUFFICES ASSUME NEW s \in Going, Live(source[s]), ToCome(s) PROVE s[1] \in listed' \/ s \in todo'
    BY <1>1 DEF ToCome
  <2>1. s[1] \in listed
    BY <1>1 DEF ToCome
  <2>2. CASE s[1] = c
    <3>1. Goes(<<c, CHOOSE k \in Keys : TRUE>>) /\ s \in Slots
      BY <2>2 DEF Going, Goes, selected, target_collection
    <3> QED BY <1>2, <2>2, <3>1
  <2> QED BY <1>1, <2>1, <2>2
<1>4. StepsOfCopy'
  BY <1>1 DEF StepsOfCopy
<1> QED BY <1>1, <1>3, <1>4, LookingKeepsCopy

LEMMA ReadBatchKeepsCopy == ASSUME CopyStep, NEW B \in SUBSET todo, ReadBatch(B) PROVE CopyOk'
<1>1. /\ Quiet /\ UNCHANGED <<target, step, listed, restarts, position>>
      /\ step = "keys" /\ batch = {} /\ todo' = todo \ B
  BY DEF ReadBatch, MigratorStep, sourceVars, Quiet
<1>2. /\ \A r \in batch' : r.entry = source[r.slot]
      /\ \A s \in B : Live(source[s]) => \E r \in batch' : r.slot = s /\ r.entry = source[s]
      /\ \A q, r \in batch' : q.slot = r.slot => q = r
  BY BatchIs DEF CopyStep, TtlInv
<1>3. \A s \in Going : Live(source[s]) /\ ToCome(s) => ToCome(s)'
  BY <1>1, <1>2 DEF ToCome, Quiet
<1>4. StepsOfCopy'
  BY <1>1, <1>2 DEF StepsOfCopy
<1> QED BY <1>1, <1>2, <1>3, <1>4, LookingKeepsCopy

LEMMA CopyDoneKeepsCopy == ASSUME CopyStep, CopyDone PROVE CopyOk'
<1>1. /\ Quiet /\ UNCHANGED <<target, restarts, position, batch>>
      /\ step = "keys" /\ step' = "applying" /\ batch = {} /\ listed = {} /\ todo = {}
  BY DEF CopyDone, MigratorStep, sourceVars, Quiet
<1>2. \A s \in Going : ~ToCome(s)
  BY <1>1 DEF ToCome
<1>3. StepsOfCopy'
  BY <1>1 DEF StepsOfCopy
<1> QED BY <1>1, <1>2, <1>3, LookingKeepsCopy

LEMMA PutCopiesKeepsCopy ==
    ASSUME CopyStep, NEW R \in SUBSET batch, PutCopies(R)
    PROVE  CopyOk'
<1>1. /\ Quiet /\ UNCHANGED <<step, listed, todo, restarts, position>>
      /\ step = "keys" /\ batch' = batch \ R
  BY DEF PutCopies, MigratorStep, sourceVars, Quiet
<1>2. CopyOk /\ job \in Jobs /\ Typed /\ job \in JobType /\ Apart(job)
  BY JobsAssumption DEF CopyStep, CopyInv, TtlInv, Typed
<1>3. Seen = position /\ Seen' = position
  BY <1>1 DEF Seen
<1>4. \A r \in batch : /\ r.slot \in Going
                       /\ r.entry = source[r.slot] \/ Follows(r.slot, position)
                       /\ Live(source[r.slot]) => r.entry = source[r.slot] \/ PutFollows(r.slot, position)
  BY <1>2, <1>3 DEF CopyOk, ReadIsFresh, Typed
<1>5. StepsOfCopy'
  BY <1>1, <1>2 DEF CopyOk, StepsOfCopy
<1>6. ReadIsFresh'
  BY <1>1, <1>3, <1>4 DEF ReadIsFresh, Quiet, Live, Follows, PutFollows
<1>7. \A r : Written(r).put = r.entry.put
  BY DEF Written
<1>8. Arriving'
  <2> SUFFICES ASSUME NEW s \in Going, Live(source[s])
               PROVE  target'[To(s)].put = source[s].put \/ PutFollows(s, position) \/ ToCome(s)'
    BY <1>1, <1>3, QuietStays DEF Arriving, Quiet, Live, PutFollows, Going
  <2>1. To(s) \in Slots
    BY <1>2, ToIsSlot
  <2>2. ASSUME NEW r \in R, To(r.slot) = To(s), target'[To(s)] = Written(r)
        PROVE  target'[To(s)].put = source[s].put \/ PutFollows(s, position)
    <3>1. r.slot = s
      BY <1>2, <1>4, <2>2, GoApart
    <3> QED BY <1>4, <1>7, <2>2, <3>1
  <2>3. ASSUME target'[To(s)] = target[To(s)], ~\E r \in R : To(r.slot) = To(s)
        PROVE  target'[To(s)].put = source[s].put \/ PutFollows(s, position) \/ ToCome(s)'
    <3>1. target[To(s)].put = source[s].put \/ PutFollows(s, position) \/ ToCome(s)
      BY <1>1, <1>2, <1>3 DEF CopyOk, Arriving
    <3>2. ToCome(s) => ToCome(s)'
      BY <1>1, <2>3 DEF ToCome, Quiet
    <3> QED BY <2>3, <3>1, <3>2
  <2> QED BY <2>1, <2>2, <2>3, CopiesAre
<1>9. Leaving'
  <2> SUFFICES ASSUME restarts = 0, NEW t \in Slots, Held(target'[t])
               PROVE  \E s \in Going : To(s) = t /\ (source[s].put = target'[t].put \/ Follows(s, position))
    BY <1>1, QuietStays DEF Leaving, Quiet, Held, Follows
  <2>1. ASSUME target'[t] = target[t]
        PROVE  \E s \in Going : To(s) = t /\ (source[s].put = target'[t].put \/ Follows(s, position))
    BY <1>2, <2>1 DEF CopyOk, Leaving
  <2>2. ASSUME NEW r \in R, To(r.slot) = t, target'[t] = Written(r)
        PROVE  \E s \in Going : To(s) = t /\ (source[s].put = target'[t].put \/ Follows(s, position))
    BY <1>4, <1>7, <2>2
  <2> QED BY <2>1, <2>2, CopiesAre
<1> QED BY <1>1, <1>5, <1>6, <1>8, <1>9, QuietStays DEF CopyOk

-----------------------------------------------------------------------------
(* It ends with an error, and the feed is replayed *)

\* What follows the next change, or follows from it.
LEMMA FollowsOn ==
    ASSUME FeedTyped, position < Len(feed), NEW s \in Slots
    PROVE  /\ PutFollows(s, position + 1) => PutFollows(s, position)
           /\ Follows(s, position) => Follows(s, position + 1) \/ NextChange.slot = s
           /\ PutFollows(s, position) =>
                PutFollows(s, position + 1) \/ (NextChange.slot = s /\ NextChange.operation = "Put")
           /\ NextChange = [slot |-> s, operation |-> "Put"] => PutFollows(s, position)
           /\ NextChange.slot = s /\ NextChange.operation = "Put" => PutFollows(s, position)
<1>1. position \in Nat /\ position + 1 \in DOMAIN feed /\ DOMAIN feed = 1 .. Len(feed) /\ Len(feed) \in Nat
  BY NextIs DEF FeedTyped
<1>2. \A i \in DOMAIN feed : i > position => i > position + 1 \/ i = position + 1
  BY <1>1
<1>3. \A i \in DOMAIN feed : i > position + 1 => i > position
  BY <1>1
<1>4. position + 1 > position
  BY <1>1
<1>5. NextChange.slot = s /\ NextChange.operation = "Put" => NextChange = [slot |-> s, operation |-> "Put"]
  <2> DEFINE Change == [slot : Slots, operation : {"Put", "Delete"}]
             n == position + 1
  <2>1. feed \in Seq(Change) /\ n \in DOMAIN feed
    BY <1>1 DEF FeedTyped
  <2> HIDE DEF Change, n
  <2>2. feed[n] \in Change
    BY <2>1
  <2> QED BY <2>2 DEF Change, n, NextChange
<1>6. Follows(s, position) => Follows(s, position + 1) \/ NextChange.slot = s
  BY <1>2 DEF Follows, NextChange
<1>7. PutFollows(s, position) =>
        PutFollows(s, position + 1) \/ (NextChange.slot = s /\ NextChange.operation = "Put")
  BY <1>2 DEF PutFollows, NextChange
<1>8. PutFollows(s, position + 1) => PutFollows(s, position)
  BY <1>3 DEF PutFollows
<1>9. NextChange = [slot |-> s, operation |-> "Put"] => PutFollows(s, position)
  BY <1>1, <1>4 DEF PutFollows, NextChange
<1> QED BY <1>5, <1>6, <1>7, <1>8, <1>9

\* The copy begins again.
LEMMA AgainKeepsCopy ==
    ASSUME CopyStep, Quiet, step' = "start", batch' = {}, restarts' # 0
    PROVE  CopyOk'
<1>1. StepsOfCopy' /\ ReadIsFresh' /\ Leaving'
  BY DEF StepsOfCopy, ReadIsFresh, Leaving
<1>2. \A s : ToCome(s)'
  BY DEF ToCome
<1>3. Arriving'
  BY <1>2 DEF Arriving
<1> QED BY <1>1, <1>3, QuietStays DEF CopyOk

LEMMA RestartKeepsCopy == ASSUME CopyStep, Restart PROVE CopyOk'
<1>1. Quiet /\ step' = "start" /\ batch' = {} /\ restarts' = restarts + 1 /\ restarts \in Nat
  BY DEF Restart, Quiet, CopyStep, TtlInv, Typed
<1> QED BY <1>1, AgainKeepsCopy

\* A change that could not be put is tried again.
LEMMA RefusedKeepsCopy == ASSUME CopyStep, Refused PROVE CopyOk'
<1>1. /\ Quiet /\ UNCHANGED <<target, position>> /\ batch' = {}
      /\ step = "keys" => step' = "start" /\ restarts' = MaxRestarts + 1
      /\ step # "keys" => step = "changed" /\ step' = "applying" /\ restarts' = restarts
      /\ MaxRestarts \in Nat
  BY MigrationBounds DEF Refused, sourceVars, Quiet
<1>2. CASE step = "keys"
  BY <1>1, <1>2, AgainKeepsCopy
<1>3. CASE step # "keys"
  <2>1. CopyOk /\ FeedTyped /\ step = "changed" /\ step' = "applying"
    BY <1>1, <1>3 DEF CopyStep, CopyInv, TtlInv
  <2>2. Seen = position + 1 /\ Seen' = position /\ position < Len(feed) /\ NextChange.operation = "Put"
    BY <1>1, <2>1 DEF Seen, FeedTyped, CopyOk, StepsOfCopy
  <2>3. StepsOfCopy' /\ ReadIsFresh'
    BY <1>1, <2>1 DEF StepsOfCopy, ReadIsFresh
  <2>4. Arriving'
    <3> SUFFICES ASSUME NEW s \in Going, Live(source[s])
                 PROVE  target[To(s)].put = source[s].put \/ PutFollows(s, position)
      BY <1>1, <2>1, <2>2, QuietStays DEF Arriving, Quiet, Live, PutFollows, Going
    <3>1. s \in Slots
      BY DEF Going
    <3>2. CASE NextChange.slot = s
      BY <2>1, <2>2, <3>1, <3>2, FollowsOn
    <3>3. CASE NextChange.slot # s
      <4>1. ~ToCome(s)
        BY <2>1 DEF ToCome
      <4>2. target[To(s)].put = source[s].put \/ PutFollows(s, Seen)
        BY <2>1, <3>3, <4>1 DEF CopyOk, Arriving
      <4>3. PutFollows(s, Seen) => PutFollows(s, position + 1)
        BY <2>2 DEF PutFollows
      <4> QED BY <2>1, <2>2, <3>1, <4>2, <4>3, FollowsOn
    <3> QED BY <3>2, <3>3
  <2>5. Leaving'
    BY <1>1, <1>3, <2>1, QuietStays DEF CopyOk, Leaving, Held, Quiet, Follows
  <2> QED BY <1>1, <2>3, <2>4, <2>5, QuietStays DEF CopyOk
<1> QED BY <1>2, <1>3

LEMMA ApplyDeleteKeepsCopy == ASSUME CopyStep, ApplyDelete PROVE CopyOk'
<1> DEFINE n == NextChange.slot
           d == To(n)
<1>1. /\ Quiet /\ UNCHANGED <<step, batch, restarts>> /\ step = "applying" /\ batch = {}
      /\ position < Len(feed) /\ position' = position + 1
      /\ ~Goes(n) \/ NextChange.operation = "Delete"
      /\ target' = IF Goes(n) THEN [target EXCEPT ![d] = Absent] ELSE target
  BY DEF ApplyDelete, MigratorStep, sourceVars, Quiet, CopyStep, NothingRead
<1>2. CopyOk /\ FeedTyped /\ Typed /\ job \in Jobs /\ Apart(job) /\ job \in JobType /\ n \in Slots
  BY <1>1, NextIs, JobsAssumption DEF CopyStep, CopyInv, TtlInv, Typed
<1>3. Seen = position /\ Seen' = position + 1
  BY <1>1 DEF Seen
<1>4. NextChange.operation \in {"Put", "Delete"} /\ NextChange.operation = "Put" => ~Goes(n)
  BY <1>1, <1>2, NextIs
<1> HIDE DEF n, d
<1>5. \A t \in Slots : target'[t] = IF Goes(n) /\ t = d THEN Absent ELSE target[t]
  BY <1>1, <1>2 DEF Typed
<1>6. StepsOfCopy' /\ ReadIsFresh'
  BY <1>1 DEF StepsOfCopy, ReadIsFresh
<1>7. Arriving'
  <2> SUFFICES ASSUME NEW s \in Going, Live(source[s])
               PROVE  target'[To(s)].put = source[s].put \/ PutFollows(s, position + 1)
    BY <1>1, <1>3, QuietStays DEF Arriving, Quiet, Live, PutFollows, Going
  <2>1. s \in Slots /\ Goes(s) /\ To(s) \in Slots
    BY <1>2, ToIsSlot DEF Going
  <2>2. target[To(s)].put = source[s].put \/ PutFollows(s, position)
    <3>1. ~ToCome(s)
      BY <1>1 DEF ToCome
    <3> QED BY <1>1, <1>2, <1>3, <3>1 DEF CopyOk, Arriving
  <2>3. PutFollows(s, position) => PutFollows(s, position + 1)
    BY <1>1, <1>2, <1>4, <2>1, FollowsOn DEF n
  <2>4. CASE Goes(n) /\ To(s) = d
    <3>1. n \in Going /\ n = s
      BY <1>2, <2>4, GoApart DEF Going, d
    <3>2. NextChange.operation = "Delete" /\ NextChange = feed[position + 1] /\ position + 1 \in DOMAIN feed
      BY <1>1, <1>2, <2>4, NextIs DEF NextChange
    <3>3. Held(source[s])
      BY DEF Live, Held
    <3>4. PutFollows(feed[position + 1].slot, position + 1)
      BY <1>2, <3>1, <3>2, <3>3 DEF CopyOk, FeedIsTrue, n
    <3> QED BY <3>1, <3>2, <3>4 DEF n
  <2>5. CASE ~(Goes(n) /\ To(s) = d)
    BY <1>5, <2>1, <2>2, <2>3, <2>5
  <2> QED BY <2>4, <2>5
<1>8. Leaving'
  <2> SUFFICES ASSUME restarts = 0, NEW t \in Slots, Held(target'[t])
               PROVE  \E s \in Going : To(s) = t /\ (source[s].put = target'[t].put \/ Follows(s, position + 1))
    BY <1>1, QuietStays DEF Leaving, Quiet, Held, Follows
  <2>1. ~(Goes(n) /\ t = d) /\ target'[t] = target[t]
    BY <1>5, AbsentIs
  <2>2. PICK s \in Going : To(s) = t /\ (source[s].put = target[t].put \/ Follows(s, position))
    BY <1>2, <2>1 DEF CopyOk, Leaving
  <2>3. s \in Slots /\ Goes(s)
    BY DEF Going
  <2>4. n # s
    BY <2>1, <2>2, <2>3 DEF d
  <2>5. Follows(s, position) => Follows(s, position + 1)
    BY <1>1, <1>2, <2>3, <2>4, FollowsOn DEF n
  <2> QED BY <2>1, <2>2, <2>5
<1> QED BY <1>1, <1>6, <1>7, <1>8, QuietStays DEF CopyOk

LEMMA ReadChangedKeepsCopy == ASSUME CopyStep, ReadChanged PROVE CopyOk'
<1>1. /\ Quiet /\ UNCHANGED <<target, restarts, position>> /\ step = "applying" /\ step' = "changed"
      /\ position < Len(feed) /\ NextChange.operation = "Put"
  BY DEF ReadChanged, MigratorStep, sourceVars, Quiet
<1>2. CopyOk /\ FeedTyped /\ Typed /\ Timed
  BY DEF CopyStep, CopyInv, TtlInv
<1>3. Seen = position /\ Seen' = position + 1 /\ NextChange' = NextChange
  BY <1>1 DEF Seen, NextChange, Quiet
<1>4. /\ NextChange.slot \in Going
      /\ \A r \in batch' : r.slot = NextChange.slot /\ r.entry = source[r.slot]
      /\ \A q, r \in batch' : q = r
      /\ Live(source[NextChange.slot]) => \E r \in batch' : r.slot = NextChange.slot /\ r.entry = source[r.slot]
  BY <1>2, ChangedIs
<1>5. StepsOfCopy'
  BY <1>1, <1>3, <1>4 DEF StepsOfCopy
<1>6. ReadIsFresh'
  BY <1>1, <1>4 DEF ReadIsFresh, Quiet
<1>7. Arriving'
  <2> SUFFICES ASSUME NEW s \in Going, Live(source[s])
               PROVE  IF NextChange.slot = s THEN Brought(s)'
                      ELSE target[To(s)].put = source[s].put \/ PutFollows(s, position + 1)
    BY <1>1, <1>3, QuietStays DEF Arriving, Quiet, Live, PutFollows, Going
  <2>1. CASE NextChange.slot = s
    BY <1>1, <1>4, <2>1 DEF Brought, Quiet
  <2>2. CASE NextChange.slot # s
    <3>1. ~ToCome(s) /\ s \in Slots
      BY <1>1 DEF ToCome, Going
    <3>2. target[To(s)].put = source[s].put \/ PutFollows(s, position)
      BY <1>1, <1>2, <1>3, <3>1 DEF CopyOk, Arriving
    <3> QED BY <1>1, <1>2, <2>2, <3>1, <3>2, FollowsOn
  <2> QED BY <2>1, <2>2
<1>8. Leaving'
  BY <1>1, <1>2, QuietStays DEF CopyOk, Leaving, Held, Quiet, Follows
<1> QED BY <1>1, <1>5, <1>6, <1>7, <1>8, QuietStays DEF CopyOk

LEMMA PutChangedKeepsCopy == ASSUME CopyStep, PutChanged PROVE CopyOk'
<1> DEFINE n == NextChange.slot
           d == To(n)
<1>1. /\ Quiet /\ UNCHANGED <<restarts>> /\ step = "changed" /\ step' = "applying" /\ batch' = {}
      /\ position' = position + 1
  BY DEF PutChanged, MigratorStep, sourceVars, Quiet
<1>2. CopyOk /\ FeedTyped /\ Typed /\ job \in Jobs /\ Apart(job) /\ job \in JobType /\ position < Len(feed)
  BY <1>1, JobsAssumption DEF CopyStep, CopyInv, TtlInv, Typed, FeedTyped
<1>3. Seen = position + 1 /\ Seen' = position + 1
  BY <1>1 DEF Seen
<1>4. /\ d \in Slots /\ n \in Going
      /\ \A t \in Slots : t # d => target'[t] = target[t]
      /\ batch = {} => target'[d] = Absent
      /\ batch # {} => \E r \in batch : target'[d] = Written(r)
  BY <1>2, BroughtIs
<1>5. /\ \A r \in batch : r.slot = n
      /\ \A q, r \in batch : q.slot = r.slot => q = r
  BY <1>1, <1>2 DEF CopyOk, StepsOfCopy
<1> HIDE DEF n, d
<1>6. \A r : Written(r).put = r.entry.put
  BY DEF Written
<1>7. StepsOfCopy' /\ ReadIsFresh'
  BY <1>1 DEF StepsOfCopy, ReadIsFresh
<1>8. Arriving'
  <2> SUFFICES ASSUME NEW s \in Going, Live(source[s])
               PROVE  target'[To(s)].put = source[s].put \/ PutFollows(s, position + 1)
    BY <1>1, <1>3, QuietStays DEF Arriving, Quiet, Live, PutFollows, Going
  <2>1. CASE n = s
    <3>1. PutFollows(s, position + 1) \/ \E r \in batch : r.slot = s /\ r.entry = source[s]
      BY <1>1, <1>2, <2>1 DEF CopyOk, Arriving, Brought, n
    <3>2. ASSUME NEW r \in batch, r.slot = s, r.entry = source[s] PROVE target'[To(s)].put = source[s].put
      <4>1. PICK q \in batch : target'[d] = Written(q)
        BY <1>4, <3>2
      <4>2. q = r
        BY <1>5, <3>2
      <4> QED BY <1>6, <2>1, <3>2, <4>1, <4>2 DEF d
    <3> QED BY <3>1, <3>2
  <2>2. CASE n # s
    <3>1. ~ToCome(s) /\ To(s) \in Slots
      BY <1>1, <1>2, ToIsSlot DEF ToCome
    <3>2. target[To(s)].put = source[s].put \/ PutFollows(s, Seen)
      BY <1>1, <1>2, <2>2, <3>1 DEF CopyOk, Arriving, n
    <3>3. PutFollows(s, Seen) => PutFollows(s, position + 1)
      BY <1>3 DEF PutFollows
    <3>4. To(s) # d
      BY <1>2, <1>4, <2>2, GoApart DEF d
    <3> QED BY <1>4, <3>1, <3>2, <3>3, <3>4
  <2> QED BY <2>1, <2>2
<1>9. Leaving'
  <2> SUFFICES ASSUME restarts = 0, NEW t \in Slots, Held(target'[t])
               PROVE  \E s \in Going : To(s) = t /\ (source[s].put = target'[t].put \/ Follows(s, position + 1))
    BY <1>1, QuietStays DEF Leaving, Quiet, Held, Follows
  <2>1. CASE t = d
    <3>1. PICK r \in batch : target'[d] = Written(r)
      BY <1>4, <2>1, AbsentIs
    <3>2. r.slot = n
      BY <1>5
    <3>3. r.entry = source[n] \/ Follows(n, Seen)
      BY <1>2, <3>2 DEF CopyOk, ReadIsFresh
    <3>4. Follows(n, Seen) => Follows(n, position + 1)
      BY <1>3 DEF Follows
    <3> QED BY <1>4, <1>6, <2>1, <3>1, <3>3, <3>4 DEF d
  <2>2. CASE t # d
    <3>1. target'[t] = target[t]
      BY <1>4, <2>2
    <3>2. PICK s \in Going : To(s) = t /\ (source[s].put = target[t].put \/ Follows(s, position))
      BY <1>2, <3>1 DEF CopyOk, Leaving
    <3>3. s \in Slots /\ n # s
      BY <2>2, <3>2 DEF Going, d
    <3>4. Follows(s, position) => Follows(s, position + 1)
      BY <1>2, <3>3, FollowsOn DEF n
    <3> QED BY <3>1, <3>2, <3>4
  <2> QED BY <2>1, <2>2
<1> QED BY <1>1, <1>7, <1>8, <1>9, QuietStays DEF CopyOk

-----------------------------------------------------------------------------

LEMMA StepKeepsCopy ==
    ASSUME Whole, CopyInv, TtlInv, NothingRead, [Next]_vars
    PROVE  CopyInv'
<1>1. job' = job
  BY JobStays
<1>2. CASE job.kind # "copy"
  BY <1>1, <1>2 DEF CopyInv
<1>3. CASE job.kind = "copy"
  <2> SUFFICES CopyOk'
    BY <1>1 DEF CopyInv
  <2>1. CopyStep /\ CopyOk
    BY <1>3 DEF CopyStep, CopyInv
  <2>2. CASE UNCHANGED vars
    <3>1. Quiet /\ UNCHANGED <<target, step, listed, todo, batch, position, restarts>>
      BY <2>2 DEF vars, Quiet
    <3>2. Reported
      BY <3>1 DEF Reported, Quiet, Follows, PutFollows, Live, NextChange
    <3> QED BY <2>1, <3>1, <3>2, QuietStays, ReportedKeepsCopy
  <2>3. ASSUME NEW s \in Used, (\E ttl \in TTLs : SourcePut(s, ttl)) \/ SourceDelete(s) \/ Report(s) \/ TargetPut(s)
        PROVE  CopyOk'
    <3>1. ~TargetPut(s)
      BY <1>3 DEF TargetPut
    <3> QED BY <2>1, <2>3, <3>1, SourcePutKeepsCopy, SourceDeleteKeepsCopy, ReportKeepsCopy
  <2>4. CASE Tick \/ Restart
    BY <2>1, <2>4, TickKeepsCopy, RestartKeepsCopy
  <2>5. CASE Copy
    BY <2>1, <2>5, SubscribeKeepsCopy, ListCollectionsKeepsCopy, CopyDoneKeepsCopy, RefusedKeepsCopy,
       ListKeysKeepsCopy, ReadBatchKeepsCopy, PutCopiesKeepsCopy DEF Copy
  <2>6. CASE Replay
    BY <2>1, <2>6, ApplyDeleteKeepsCopy, ReadChangedKeepsCopy, PutChangedKeepsCopy DEF Replay
  <2>7. ~Rewrite
    BY <1>3, <2>1 DEF CopyOk, StepsOfCopy, Rewrite, KsScan, KsInspect, KsStore, KsRegister, KsRemove, KsDone, KsGet
  <2> QED BY <2>2, <2>3, <2>4, <2>5, <2>6, <2>7 DEF Next, Migrate
<1> QED BY <1>2, <1>3

\* No change of an in-place migration is applied: it never gets there.
LEMMA InPlaceNeverCatchesUp == MoveInv /\ job.kind = "keyspace" => ~CaughtUp
BY DEF MoveInv, Moving, CaughtUp

LEMMA CopyAgrees == ASSUME CopyInv, TtlInv, NothingRead, MoveInv PROVE TargetAgrees
<1> USE DEF TtlInv
<1> SUFFICES ASSUME CaughtUp PROVE Arrived /\ (restarts = 0 => NothingElse)
  BY DEF TargetAgrees, LiveArrives, NothingElse
<1>1. job.kind = "copy"
  BY InPlaceNeverCatchesUp DEF Typed, JobType
<1>2. CopyOk /\ step = "applying" /\ position = Len(feed) /\ Seen = position
  BY <1>1 DEF CopyInv, CaughtUp, Seen
<1>3. \A s \in Slots : ~Follows(s, position) /\ ~PutFollows(s, position)
  <2>1. Len(feed) \in Nat /\ DOMAIN feed = 1 .. Len(feed)
    BY DEF FeedTyped
  <2>2. \A i \in DOMAIN feed : ~(i > position)
    BY <1>2, <2>1
  <2> QED BY <2>2 DEF Follows, PutFollows, CaughtUp
<1>4. Arrived
  <2> SUFFICES ASSUME NEW s \in Slots, Goes(s), Held(source[s]), source[s].expires > now + MostLost
               PROVE  target[To(s)].put = source[s].put /\ Live(target[To(s)])
    BY DEF Arrived
  <2>0. /\ source[s] \in AnyEntry /\ source[s].expires \in Nat /\ now \in Nat /\ MostLost \in Nat
    BY MostLostIs DEF Typed, AnyEntry
  <2>5. Live(source[s])
    BY <2>0 DEF Live, Held
  <2>1. s \in Going /\ ~ToCome(s)
    BY <1>2 DEF Going, ToCome
  <2>2. target[To(s)].put = source[s].put
    <3>1. target[To(s)].put = source[s].put \/ PutFollows(s, Seen)
      BY <1>2, <2>1, <2>5 DEF CopyOk, Arriving
    <3> QED BY <1>2, <1>3, <3>1 DEF PutFollows
  <2>3. target[To(s)].expires + MostLost >= source[s].expires
    BY <2>2 DEF Timed, TtlCarried, Live, Held
  <2>4. /\ To(s) \in Slots /\ now \in Nat
        /\ target[To(s)].expires \in Nat /\ source[s].expires \in Nat
    BY <2>1, ToIsSlot DEF Typed, AnyEntry
  <2> QED BY <2>0, <2>2, <2>3, <2>4 DEF Live, Held
<1>5. restarts = 0 => NothingElse
  <2> SUFFICES ASSUME restarts = 0, NEW t \in Slots, Live(target[t])
               PROVE  \E s \in Slots : Goes(s) /\ To(s) = t /\ source[s].put = target[t].put
    BY DEF NothingElse
  <2>1. PICK s \in Going : To(s) = t /\ (source[s].put = target[t].put \/ Follows(s, position))
    BY <1>2 DEF CopyOk, Leaving, Live, Held
  <2> QED BY <1>3, <2>1 DEF Going
<1> QED BY <1>4, <1>5

\* When the caller has applied every change, the target has each live entry of the source
\* that is copied, however the writes, the batches and the changes interleaved and however
\* often the copy was begun again (but for the last two milliseconds of its life); and, when
\* it was begun once, nothing else.  The hypothesis is what the code leaves to its caller:
\* each listing fits on its page.
THEOREM MigrationAgrees == Whole => (Spec => []TargetAgrees)
<1> SUFFICES ASSUME Whole PROVE Spec => []TargetAgrees
  OBVIOUS
<1>1. Init => CopyInv /\ MoveInv
  BY InitCopy, MoveInitInv
<1>2. CopyInv /\ MoveInv /\ TtlInv /\ NothingRead /\ [Next]_vars => (CopyInv /\ MoveInv)'
  BY StepKeepsCopy, StepKeepsMoving
<1>3. CopyInv /\ MoveInv /\ TtlInv /\ NothingRead => TargetAgrees
  BY CopyAgrees
<1> QED BY <1>1, <1>2, <1>3, TtlAlways, PTL DEF Spec

=============================================================================
