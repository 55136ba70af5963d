---------------------------- MODULE LocalStores ----------------------------
(***************************************************************************)
(* The backends that keep entries in files, in an embedded database, in     *)
(* memory, in a credential store or in Memcached, one of them in use.       *)
(***************************************************************************)
EXTENDS FileTree, Disk, RocksDB, InProcess, Keyring, Memcached

KeyValue == LocalReads \cup Writes \cup Deletes
Whole == {"cull", "keys", "collections", "destroy_collection", "destroy"}
Supports(b) ==
    CASE b = "keyring" -> KeyValue
      [] b = "memcached" -> KeyValue \cup {"destroy"}
      [] OTHER -> KeyValue \cup Whole
KeyBounded == {"filetree", "keyring", "memcached"}

\* What there may be before: directories, trees and maps of what is used.
MadeFor(b) ==
    LET used == alien \cup {c \in Collections : \E s \in In(c) : Present(db[s])} IN
    CASE b = "filetree" -> {used \cup {"base"}} \cup (IF used = {} THEN {{}} ELSE {})
      [] b \in {"disk", "simple"} -> {used}
      [] OTHER -> {{}}

Init ==
    /\ StoreInit
    /\ made \in MadeFor(backend)
    /\ backend \in {"simple", "keyring", "memcached"} => alien = {}
    /\ backend = "simple" => \A s \in Slots : db[s].sound
    /\ backend = "null" => db = Nothing /\ alien = {}
    /\ \A t \in Tasks :
        /\ call[t].op \in Supports(backend)
        /\ TooLong(t) => backend \in KeyBounded

BackendStep(t) ==
    \/ backend = "filetree" /\ FtNext(t)
    \/ backend = "disk" /\ DiskNext(t)
    \/ backend = "rocksdb" /\ RocksNext(t)
    \/ backend = "simple" /\ SimpleNext(t)
    \/ backend = "null" /\ NullNext(t)
    \/ backend = "keyring" /\ KeyringNext(t)
    \/ backend = "memcached" /\ McNext(t)

Next ==
    /\ \/ \E t \in Tasks : BackendStep(t) \/ Fail(t)
       \/ Tick
       \/ backend = "memcached" /\ McServerExpires
    /\ Watch
    /\ UNCHANGED <<backend, call>>

Spec == Init /\ [][Next]_vars

-----------------------------------------------------------------------------
(* Properties *)

\* PutsLand, for what keeps anything (put, put_many).
PutsStored == backend # "null" => PutsLand

\* What a put has left of an entry that does not decode.
Torn(d) == d.writer[1] # NoTask /\ ~d.sound

\* An entry is reported as deleted by one call only; RocksDB asks beforehand, and what it
\* hears is an estimate (delete, delete_many).  Two torn files of one put are one document
\* here.
DeletesCounted ==
    backend # "rocksdb" => \A t, u \in Tasks :
        t # u /\ Done(t, Deletes) /\ Done(u, Deletes) =>
            \A s \in Slots : Present(found[t][s]) /\ found[t][s] = found[u][s] => Torn(found[t][s])

\* keys lists what the collection held while the call ran, expired or not, and leaves out
\* nothing that it held all the time, unless the limit is reached (keys).
KeysHeld ==
    \A t \in Tasks : Answers(t, {"keys"}) =>
        /\ \A s \in Slots : Present(found[t][s]) => found[t][s] \in window[t][s]
        /\ Cardinality({s \in Slots : Present(found[t][s])}) < call[t].limit =>
                \A s \in In(call[t].coll) : Empty \notin window[t][s] => Present(found[t][s])

\* What a call answers was so while it ran: the values of reads, the entries that deletions
\* count, the keys and collections of listings.
AnswersTrue == ReadsCurrent /\ DeletesCounted /\ KeysHeld /\ CollectionsComplete

\* What a call reports is done: a write that succeeds has stored its entries and one that
\* is rejected none, what destroy, destroy_collection and cull report as gone is gone.
EffectsDone == PutsStored /\ RejectedStoreNothing /\ DestroyedGone /\ CullComplete

\* An entry that does not decode, of those written here, is one in the making, or was left
\* by a call that failed or by two puts of one key at a time (FileTree's write_entry).
TornOnlyByRace ==
    \A s \in Slots : Torn(db[s]) =>
        /\ backend = "filetree"
        /\ LET w == db[s].writer[1] IN
            \/ pc[w] \in {"writing", "error"}
            \/ \E u \in Tasks \ {w} : Doing(u, Writes) /\ s \in Target(u) /\ pc[u] # "begin"
=============================================================================
