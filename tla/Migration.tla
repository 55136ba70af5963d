----------------------------- MODULE Migration -----------------------------
(***************************************************************************)
(* Moving a store's entries while it is in use (migration.rs): the caller   *)
(* takes a copy with copy_snapshot_with_feed and then hands each change the *)
(* subscription yields to apply_change; or, in Redis and Valkey, rewrites   *)
(* the keys in place (migrate_into_keyspace in store/redis/store.rs).       *)
(*                                                                         *)
(* The source does what the protocol promises: a mutation takes effect and  *)
(* is then reported, key by key in order, and the feed loses nothing.  An   *)
(* entry is named by the put that wrote it; time passes in milliseconds.    *)
(* In place, source is the old keys and target the new ones, and the caller *)
(* has stopped the writers.                                                 *)
(***************************************************************************)
EXTENDS Naturals, Sequences, FiniteSets

CONSTANTS
    Collections, Keys,
    Jobs,           \* the migrations explored, records of JobType
    Used,           \* the keys that users write
    PageLimit,      \* the most that keys(None) and collections(None) return
    BatchSize,      \* batch_size
    TTLs,           \* times to live of puts
    MaxTime, MaxWrites, MaxRestarts     \* bounds

Slots == Collections \X Keys
Never == MaxTime + 99
Absent == [put |-> 0, expires |-> 0]
Entries == [put : 0 .. 2 * MaxWrites, expires : 0 .. 2 * MaxTime + 99]

\* renamed[c]: the names target_collection gives c, one or none.
JobType == [kind : {"copy", "keyspace"}, collections : SUBSET Collections,
            renamed : [Collections -> SUBSET Collections], preserve : BOOLEAN]
\* One prefix is replaced by another, so no two get the same.
Apart(j) == \A c, d \in Collections : c # d => j.renamed[c] \cap j.renamed[d] = {}

\* Never is later than the end of any entry.
ASSUME MigrationBounds ==
    /\ PageLimit \in Nat /\ MaxTime \in Nat /\ MaxWrites \in Nat /\ MaxRestarts \in Nat
    /\ TTLs \subseteq Nat /\ \A ttl \in TTLs : ttl = Never \/ MaxTime + ttl < Never
ASSUME JobsAssumption == Jobs \subseteq {j \in JobType : Apart(j)} /\ Used \subseteq Slots

VARIABLES
    job,            \* the migration and its options
    now,
    source, target, \* [Slots -> Entries]
    unreported,     \* [Slots -> {"none", "Put", "Delete"}], mutations not reported yet
    feed,           \* Seq of [slot, operation]
    writes,         \* puts so far
    step,           \* where the migration is
    listed,         \* collections still to copy
    todo,           \* slots of the current collection still to copy
    batch,          \* what was read and not yet written: a set of [slot, entry, left]
    position,       \* changes of the feed received
    restarts,
    registered      \* in place: the collections in the registry of the new layout

vars == <<job, now, source, target, unreported, feed, writes, step, listed, todo, batch, position,
          restarts, registered>>
sourceVars == <<source, unreported, feed, writes>>
copyVars == <<step, listed, todo, batch, position, restarts>>
jobVars == <<copyVars, registered>>

Init ==
    /\ job \in Jobs
    /\ now = 0
    /\ source = [s \in Slots |-> Absent] /\ target = [s \in Slots |-> Absent]
    /\ unreported = [s \in Slots |-> "none"]
    /\ feed = <<>>
    /\ writes = 0
    /\ step = "start"
    /\ listed = {} /\ todo = {} /\ batch = {}
    /\ position = 0
    /\ restarts = 0
    /\ registered = {}

Live(entry) == entry.put > 0 /\ entry.expires > now
Held(entry) == entry.put > 0

selected(c) == job.collections = {} \/ c \in job.collections
target_collection(c) == job.renamed[c]
Goes(s) == selected(s[1]) /\ target_collection(s[1]) # {}
To(s) == <<CHOOSE c \in target_collection(s[1]) : TRUE, s[2]>>

Pages(S) == {P \in SUBSET S : Cardinality(P) = (IF Cardinality(S) < PageLimit THEN Cardinality(S) ELSE PageLimit)}

-----------------------------------------------------------------------------
(* The source's users *)

\* In place, the writers have stopped.
MayWrite(s) == unreported[s] = "none" /\ (job.kind = "keyspace" => step = "start" /\ restarts = 0)

\* No one reads the feed of an in-place migration.
Noted(s, operation) ==
    [unreported EXCEPT ![s] = IF job.kind = "copy" THEN operation ELSE "none"]

SourcePut(s, ttl) ==
    /\ MayWrite(s) /\ writes < MaxWrites
    /\ writes' = writes + 1
    /\ source' = [source EXCEPT ![s] = [put |-> writes + 1, expires |-> IF ttl = Never THEN Never ELSE now + ttl]]
    /\ unreported' = Noted(s, "Put")
    /\ UNCHANGED <<job, now, target, feed, jobVars>>

SourceDelete(s) ==
    /\ MayWrite(s) /\ Live(source[s])
    /\ source' = [source EXCEPT ![s] = Absent]
    /\ unreported' = Noted(s, "Delete")
    /\ UNCHANGED <<job, now, target, feed, writes, jobVars>>

Report(s) ==
    /\ unreported[s] # "none"
    /\ feed' = Append(feed, [slot |-> s, operation |-> unreported[s]])
    /\ unreported' = [unreported EXCEPT ![s] = "none"]
    /\ UNCHANGED <<job, now, source, target, writes, jobVars>>

\* A client of the new layout, before an in-place migration: the key exists there already.
\* (Its puts are numbered apart.)
TargetPut(s) ==
    /\ job.kind = "keyspace" /\ step = "start" /\ restarts = 0 /\ writes < MaxWrites
    /\ writes' = writes + 1
    /\ target' = [target EXCEPT ![s] = [put |-> MaxWrites + writes + 1, expires |-> Never]]
    /\ registered' = registered \cup {s[1]}
    /\ UNCHANGED <<job, now, source, unreported, feed, copyVars>>

Tick ==
    /\ now < MaxTime
    /\ now' = now + 1
    /\ UNCHANGED <<job, source, target, unreported, feed, writes, jobVars>>

-----------------------------------------------------------------------------
(* copy_snapshot_with_feed *)

MigratorStep == UNCHANGED <<job, now, sourceVars, restarts, registered>>

\* The feed is opened first, at its end.
Subscribe ==
    /\ job.kind = "copy" /\ step = "start"
    /\ step' = "collections"
    /\ position' = Len(feed)
    /\ UNCHANGED <<target, listed, todo, batch>> /\ MigratorStep

ListCollections ==
    /\ step = "collections"
    /\ listed' \in Pages({c \in Collections : \E k \in Keys : Held(source[<<c, k>>])})
    /\ step' = "keys"
    /\ UNCHANGED <<target, todo, batch, position>> /\ MigratorStep

\* The next collection; those not selected, or without a new name, are passed over.
ListKeys(c) ==
    /\ step = "keys" /\ c \in listed /\ todo = {} /\ batch = {}
    /\ listed' = listed \ {c}
    /\ IF Goes(<<c, CHOOSE k \in Keys : TRUE>>)
         THEN todo' \in Pages({s \in Slots : s[1] = c /\ Live(source[s])})
         ELSE todo' = {}
    /\ UNCHANGED <<step, target, batch, position>> /\ MigratorStep

\* What reading the time left as seconds and writing it again takes off: ttl() cuts it to whole
\* milliseconds, with_ttl the seconds to milliseconds again.  (PTTL and PSETEX take nothing.)
MostLost == IF job.kind = "keyspace" THEN 0 ELSE 2

\* In its last millisecond an entry has 0 left.  (The last moment explored is not the last of
\* any entry.)
Ending(s) == job.preserve /\ Live(source[s]) /\ source[s].expires = now + 1 /\ now < MaxTime

\* Mutant: the time left is cut to whole units of four milliseconds.
ReadCoarse(s, lost) ==
    LET left == ((source[s].expires - now) \div 4) * 4
    IN  [slot |-> s, entry |-> source[s],
         left |-> IF ~job.preserve \/ source[s].expires = Never THEN Never
                  ELSE IF left > 0 THEN left ELSE IF Ending(s) THEN 0 ELSE 1]

\* What ttl_many or get_many returns of a slot: the entry and the time it has left.
ReadOf(s, lost) ==
    LET left == source[s].expires - now
    IN  [slot |-> s, entry |-> source[s],
         left |-> IF ~job.preserve \/ source[s].expires = Never THEN Never
                  ELSE IF left > lost THEN left - lost ELSE IF Ending(s) THEN 0 ELSE 1]

\* One batch is read; expired entries are skipped.
ReadBatch(B) ==
    /\ step = "keys" /\ batch = {} /\ B # {}
    /\ Cardinality(B) = (IF Cardinality(todo) < BatchSize THEN Cardinality(todo) ELSE BatchSize)
    /\ todo' = todo \ B
    /\ \E lost \in [B -> 0 .. MostLost] :
        batch' = {ReadOf(s, lost[s]) : s \in {t \in B : Live(source[t])}}
    /\ UNCHANGED <<step, target, listed, position>> /\ MigratorStep

Written(r) == [put |-> r.entry.put, expires |-> IF r.left = Never THEN Never ELSE now + r.left]

\* The batch is put into the target: with TTLs one entry after the other, without at once.
PutCopies(R) ==
    /\ step = "keys" /\ R # {} /\ R \subseteq batch /\ \A r \in R : r.left > 0
    /\ IF job.preserve THEN Cardinality(R) = 1 ELSE R = batch
    /\ target' = [t \in Slots |->
                    IF \E r \in R : To(r.slot) = t
                      THEN Written(CHOOSE r \in R : To(r.slot) = t) ELSE target[t]]
    /\ batch' = batch \ R
    /\ UNCHANGED <<step, listed, todo, position>> /\ MigratorStep

\* A put with a TTL of 0 is refused, and that ends the copy with an error; so does a put of
\* apply_change.  The caller begins the copy again, or tries the change again.
Refused ==
    /\ step \in {"keys", "changed"} /\ \E r \in batch : r.left = 0
    /\ step' = IF step = "keys" THEN "start" ELSE "applying"
    /\ restarts' = IF step = "keys" THEN MaxRestarts + 1 ELSE restarts
    /\ listed' = {} /\ todo' = {} /\ batch' = {}
    /\ UNCHANGED <<job, now, sourceVars, target, position, registered>>

\* Mutant: the feed is opened after the copy.
CopyDoneFirst ==
    /\ step = "keys" /\ listed = {} /\ todo = {} /\ batch = {}
    /\ step' = "applying"
    /\ position' = Len(feed)
    /\ UNCHANGED <<target, listed, todo, batch>> /\ MigratorStep

CopyDone ==
    /\ step = "keys" /\ listed = {} /\ todo = {} /\ batch = {}
    /\ step' = "applying"
    /\ UNCHANGED <<target, listed, todo, batch, position>> /\ MigratorStep

-----------------------------------------------------------------------------
(* apply_change *)

NextChange == feed[position + 1]

\* A change of a collection that is not copied is passed over; a Delete deletes.
ApplyDelete ==
    /\ step = "applying" /\ position < Len(feed)
    /\ ~Goes(NextChange.slot) \/ NextChange.operation = "Delete"
    /\ position' = position + 1
    /\ target' = IF Goes(NextChange.slot) THEN [target EXCEPT ![To(NextChange.slot)] = Absent] ELSE target
    /\ UNCHANGED <<step, listed, todo, batch>> /\ MigratorStep

\* Mutant: it waits for the entry to come back.
ReadChangedHeld ==
    /\ step = "applying" /\ position < Len(feed)
    /\ Goes(NextChange.slot) /\ NextChange.operation = "Put" /\ Held(source[NextChange.slot])
    /\ \E lost \in 0 .. MostLost :
        batch' = IF Live(source[NextChange.slot]) THEN {ReadOf(NextChange.slot, lost)} ELSE {}
    /\ step' = "changed"
    /\ UNCHANGED <<target, listed, todo, position>> /\ MigratorStep

\* A Put reads what the source holds by now.
ReadChanged ==
    /\ step = "applying" /\ position < Len(feed)
    /\ Goes(NextChange.slot) /\ NextChange.operation = "Put"
    /\ \E lost \in 0 .. MostLost :
        batch' = IF Live(source[NextChange.slot]) THEN {ReadOf(NextChange.slot, lost)} ELSE {}
    /\ step' = "changed"
    /\ UNCHANGED <<target, listed, todo, position>> /\ MigratorStep

\* Mutant: an entry that is gone is left for its Delete to remove.
PutChangedOnly ==
    /\ step = "changed" /\ \A r \in batch : r.left > 0
    /\ target' = [target EXCEPT ![To(NextChange.slot)] =
                    IF batch = {} THEN @ ELSE Written(CHOOSE r \in batch : TRUE)]
    /\ batch' = {} /\ position' = position + 1 /\ step' = "applying"
    /\ UNCHANGED <<listed, todo>> /\ MigratorStep

\* It is put into the target, or deleted there if the source had none.
PutChanged ==
    /\ step = "changed" /\ \A r \in batch : r.left > 0
    /\ target' = [target EXCEPT ![To(NextChange.slot)] =
                    IF batch = {} THEN Absent ELSE Written(CHOOSE r \in batch : TRUE)]
    /\ batch' = {} /\ position' = position + 1 /\ step' = "applying"
    /\ UNCHANGED <<listed, todo>> /\ MigratorStep

-----------------------------------------------------------------------------
(* migrate_into_keyspace *)

\* SCAN: every key of the old layout that is to move.
KsScan ==
    /\ job.kind = "keyspace" /\ step = "start"
    /\ todo' = {s \in Slots : Live(source[s]) /\ Goes(s)}
    /\ step' = "moving"
    /\ UNCHANGED <<target, listed, batch, position>> /\ MigratorStep

\* GET of the next candidate; one that is gone by now is passed over.
KsGet(s) ==
    /\ step = "moving" /\ s \in todo /\ batch = {}
    /\ todo' = todo \ {s}
    /\ batch' = IF Live(source[s]) THEN {[slot |-> s, entry |-> source[s], left |-> Never]} ELSE {}
    /\ UNCHANGED <<step, target, listed, position>> /\ MigratorStep

\* Mutant: the old key is deleted before the new one is there.
KsMove ==
    /\ step = "moving"
    /\ \E r \in batch :
        /\ source' = [source EXCEPT ![r.slot] = Absent]
        /\ batch' = IF Live(target[To(r.slot)]) THEN {} ELSE {r}
        /\ step' = IF Live(target[To(r.slot)]) THEN "moving" ELSE "storing"
    /\ UNCHANGED <<job, now, target, unreported, feed, writes, listed, todo, position, restarts, registered>>

\* Mutant: the collection is registered only when the entry was copied.
KsInspectOnly ==
    /\ step = "moving"
    /\ \E r \in batch, ended \in BOOLEAN :
        LET exists == Live(target[To(r.slot)])
            gone == job.preserve /\ ~exists /\ (~Live(source[r.slot]) \/ (ended /\ Ending(r.slot)))
        IN  /\ step' = IF gone THEN "moving" ELSE IF exists THEN "removing" ELSE "storing"
            /\ batch' = IF gone THEN {}
                        ELSE IF exists \/ ~job.preserve THEN batch ELSE {ReadOf(r.slot, 0)}
    /\ UNCHANGED <<target, listed, todo, position>> /\ MigratorStep

\* EXISTS of the new key, then PTTL of the old: expired meanwhile, or with no whole millisecond
\* left, it is passed over.
KsInspect ==
    /\ step = "moving"
    /\ \E r \in batch, ended \in BOOLEAN :
        LET exists == Live(target[To(r.slot)])
            gone == job.preserve /\ ~exists /\ (~Live(source[r.slot]) \/ (ended /\ Ending(r.slot)))
        IN  /\ step' = IF gone THEN "moving" ELSE IF exists THEN "registering" ELSE "storing"
            /\ batch' = IF gone THEN {}
                        ELSE IF exists \/ ~job.preserve THEN batch ELSE {ReadOf(r.slot, 0)}
    /\ UNCHANGED <<target, listed, todo, position>> /\ MigratorStep

\* PSETEX or SET
KsStore ==
    /\ step = "storing"
    /\ \E r \in batch : target' = [target EXCEPT ![To(r.slot)] = Written(r)]
    /\ step' = "registering"
    /\ UNCHANGED <<listed, todo, batch, position>> /\ MigratorStep

\* SADD
KsRegister ==
    /\ step = "registering"
    /\ \E r \in batch : registered' = registered \cup {To(r.slot)[1]}
    /\ step' = "removing"
    /\ UNCHANGED <<job, now, sourceVars, target, listed, todo, batch, position, restarts>>

\* DEL
KsRemove ==
    /\ step = "removing"
    /\ \E r \in batch : source' = [source EXCEPT ![r.slot] = Absent]
    /\ batch' = {} /\ step' = "moving"
    /\ UNCHANGED <<job, now, target, unreported, feed, writes, listed, todo, position, restarts, registered>>

KsDone ==
    /\ step = "moving" /\ todo = {} /\ batch = {}
    /\ step' = "moved"
    /\ UNCHANGED <<target, listed, todo, batch, position>> /\ MigratorStep

\* A call fails, the process ends or the caller gives up; it starts over.
Restart ==
    /\ step \notin {"start", "moved"} /\ restarts < MaxRestarts
    /\ restarts' = restarts + 1
    /\ step' = "start" /\ listed' = {} /\ todo' = {} /\ batch' = {}
    /\ UNCHANGED <<job, now, source, target, unreported, feed, writes, position, registered>>

-----------------------------------------------------------------------------
Copy ==
    \/ Subscribe \/ ListCollections \/ CopyDone \/ Refused
    \/ \E c \in Collections : ListKeys(c)
    \/ \E B \in SUBSET todo : ReadBatch(B)
    \/ \E R \in SUBSET batch : PutCopies(R)
Replay == ApplyDelete \/ ReadChanged \/ PutChanged
Rewrite == KsScan \/ KsInspect \/ KsStore \/ KsRegister \/ KsRemove \/ KsDone \/ \E s \in Slots : KsGet(s)
Migrate == Copy \/ Replay \/ Rewrite

Next ==
    \/ \E s \in Used : (\E ttl \in TTLs : SourcePut(s, ttl)) \/ SourceDelete(s) \/ Report(s) \/ TargetPut(s)
    \/ Tick \/ Migrate \/ Restart

Spec == Init /\ [][Next]_vars

\* The caller goes on to the end, the source with its reports, and the time.
FairSpec == Spec /\ WF_vars(Migrate) /\ WF_vars(Tick) /\ WF_vars(\E s \in Slots : Report(s))

-----------------------------------------------------------------------------
(* Properties *)

\* What the variables hold.
TypeOK ==
    /\ job \in Jobs
    /\ now \in 0 .. MaxTime
    /\ source \in [Slots -> Entries] /\ target \in [Slots -> Entries]
    /\ unreported \in [Slots -> {"none", "Put", "Delete"}]
    /\ position \in 0 .. Len(feed)
    /\ listed \subseteq Collections /\ todo \subseteq Slots
    /\ batch \subseteq [slot : Slots, entry : Entries, left : 0 .. Never]
    /\ step \in {"start", "collections", "keys", "applying", "changed", "moving", "storing", "registering",
              "removing", "moved"}
    /\ registered \subseteq Collections

CaughtUp == step = "applying" /\ position = Len(feed) /\ \A s \in Slots : unreported[s] = "none"

\* When every change has been applied, each live entry of the source that is to be copied
\* is in the target, whatever was written during the copy and however often it was begun
\* (but for the last two milliseconds of its life, which its copy may not have).
Arrived ==
    \A s \in Slots : Goes(s) /\ Held(source[s]) /\ source[s].expires > now + MostLost =>
        target[To(s)].put = source[s].put /\ Live(target[To(s)])
LiveArrives == CaughtUp => Arrived

\* And the target serves nothing else: no entry that was replaced or deleted meanwhile and
\* none of a collection left out.  (A deletion between two attempts is missed.)
NothingElse ==
    CaughtUp /\ restarts = 0 => \A t \in Slots : Live(target[t]) =>
        \E s \in Slots : Goes(s) /\ To(s) = t /\ source[s].put = target[t].put

\* Once every change has been applied, the target has what the source has: all of it, and
\* nothing else.
TargetAgrees == LiveArrives /\ NothingElse

\* A copied entry ends no more than two milliseconds before the original, moved in place not
\* at all, and after it by no more than the time its copying took; without preserve_ttl, it
\* lives for ever.
TtlCarried ==
    \A s \in Slots : Goes(s) /\ Held(source[s]) /\ target[To(s)].put = source[s].put =>
        /\ target[To(s)].expires + MostLost >= source[s].expires
        /\ source[s].expires = Never \/ ~job.preserve => target[To(s)].expires = Never
        /\ job.preserve /\ source[s].expires # Never => target[To(s)].expires <= source[s].expires + now

\* In place: whatever fails and wherever it stops, no step of the migration takes an entry
\* away from under its old key before this very entry is under the new one, unless a client
\* of the new layout had written there; and what was under a new key before stays as it is.
MoveKeepsEntries ==
    [][(job.kind = "keyspace" /\ step # "start") =>
        \A s \in Slots :
            /\ Live(target[s]) /\ target[s].expires > now' => target'[s] = target[s]
            /\ Goes(s) /\ Live(source[s]) /\ source[s].expires > now' =>
                    \/ source'[s] = source[s]
                    \/ target'[To(s)].put = source[s].put
                    \/ target'[To(s)].put > MaxWrites]_vars

\* In place: an entry under a new key whose collection is not in the registry (so that keys
\* can not be listed or destroyed by it) came from an old key that was not removed, from which
\* a further attempt registers it; wherever an attempt stops.
MovedRegistered ==
    job.kind = "keyspace" => \A t \in Slots : Held(target[t]) /\ t[1] \notin registered =>
        \E s \in Slots : Goes(s) /\ To(s) = t /\ source[s].put = target[t].put

\* When the writers have stopped, the migration gets there.
EventuallyArrives == <>[]Arrived
=============================================================================
