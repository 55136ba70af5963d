-------------------------- MODULE DocumentStores ---------------------------
(***************************************************************************)
(* The backends that keep an entry as a document of a server: MongoDB,      *)
(* DynamoDB, OpenSearch, Firestore, Vault and S3, one of them in use.       *)
(***************************************************************************)
EXTENDS MongoDB, DynamoDB, OpenSearch, Firestore, Vault, S3

\* The operations a backend has, and those whose physical names bound a key's length.
KeyValue == Reads \cup Writes \cup Deletes
Supports(b) ==
    CASE b \in {"firestore", "vault"} -> KeyValue
      [] b \in {"mongodb", "opensearch"} ->
            KeyValue \cup {"cull", "keys", "collections", "destroy_collection", "destroy"}
      [] OTHER -> KeyValue \cup {"cull", "keys", "collections", "destroy_collection", "destroy", "setup"}
KeyBounded == {"dynamodb", "opensearch", "firestore", "s3"}

\* What the server has set up, for a store with that content.
MadeFor(b) ==
    LET used == {c \in Collections : \E s \in In(c) : Present(db[s])} IN
    CASE b = "dynamodb" -> {{"table", "ttl"}} \cup (IF db = Nothing THEN {{"table"}, {}} ELSE {})
      [] b = "s3" -> {{"bucket"}} \cup (IF db = Nothing THEN {{}} ELSE {})
      [] OTHER -> {used}

Init ==
    /\ StoreInit
    /\ made \in MadeFor(backend)
    /\ \A t \in Tasks :
        /\ call[t].op \in Supports(backend)
        /\ TooLong(t) => backend \in KeyBounded

BackendStep(t) ==
    \/ backend = "mongodb" /\ MongoNext(t)
    \/ backend = "dynamodb" /\ DynamoNext(t)
    \/ backend = "opensearch" /\ OsNext(t)
    \/ backend = "firestore" /\ FsNext(t)
    \/ backend = "vault" /\ VaultNext(t)
    \/ backend = "s3" /\ S3Next(t)

\* The server's own expiry, where the backend has it enabled.
NativeExpiry ==
    \/ backend = "mongodb" /\ ServerExpires /\ \A s \in Slots : db'[s] # db[s] => s[1] \in made
    \/ backend = "dynamodb" /\ "ttl" \in made /\ ServerExpires

Next ==
    /\ (\E t \in Tasks : BackendStep(t) \/ Fail(t)) \/ Tick \/ NativeExpiry
    /\ Watch
    /\ UNCHANGED <<backend, call>>

Spec == Init /\ [][Next]_vars

-----------------------------------------------------------------------------
(* Properties *)

\* LiveKept, for the backends that delete an expired document only as they saw it.
ConditionalCleanup == [][(backend \in {"mongodb", "dynamodb"}) => LiveKept]_vars

\* An entry is reported as deleted by one call only, where the server says what it
\* deleted; DynamoDB's delete_many, Firestore, Vault and S3 ask beforehand.
ServerCountsDeletes ==
    \A t, u \in Tasks :
        /\ t # u /\ Done(t, Deletes) /\ Done(u, Deletes)
        /\ \/ backend \in {"mongodb", "opensearch"}
           \/ backend = "dynamodb" /\ Doing(t, {"delete"}) /\ Doing(u, {"delete"})
        => DeletedOnce(t, u)

\* S3 lists expired entries too.
KeysListed == \A t \in Tasks : Answers(t, {"keys"}) /\ backend # "s3" => KeysExact(t)

\* A collection the client counts on has its indexes, unless a destroy has dropped it and
\* is about to say so, or failed to (MongoDB's collection, destroy_collection, destroy).
KnownIsIndexed ==
    backend = "mongodb" => \A c \in known \ made : \E t \in Tasks :
        /\ pc[t] \in {"forgetting", "error"}
        /\ \/ Doing(t, {"destroy_collection"}) /\ call[t].coll = c
           \/ Doing(t, {"destroy"}) /\ c \in names[t]

\* What a call answers was so while it ran: the values of reads, the keys and collections of
\* listings, the entries that deletions count.
AnswersTrue == ReadsCurrent /\ ServerCountsDeletes /\ KeysListed /\ CollectionsComplete

\* What a call reports is done: a write that succeeds has stored its entries and one that
\* is rejected none, what destroy, destroy_collection and cull report as gone is gone.
EffectsDone == PutsLand /\ RejectedStoreNothing /\ DestroyedGone /\ CullComplete

\* While any index holds a document with a malformed id, OpenSearch's destroy deletes
\* nothing at all.
MalformedStopsDestroy ==
    [][backend = "opensearch" /\ alien # {} =>
        \A t \in Tasks : Doing(t, {"destroy"}) /\ Acts(t) => db' = db]_vars

\* No document is deleted by a read because an earlier one in its place had expired.
ReadsKeepLive == [][LiveKept]_vars
=============================================================================
