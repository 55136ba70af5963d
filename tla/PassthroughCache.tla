-------------------------- MODULE PassthroughCache --------------------------
(***************************************************************************)
(* wrapper/passthrough_cache.rs: a cache store in front of a primary store,  *)
(* used by several tasks, each call under wrapper/timeout.rs.  Every request *)
(* to one of the stores is a step; between them other tasks run.            *)
(***************************************************************************)
EXTENDS Naturals, Sequences

CONSTANTS
    CacheTasks, CacheKeys,
    KeyLists,           \* the keys of a call: sequences
    CacheTtls,          \* the values of cache_ttl explored; Forever for None
    PutTtls,            \* TTLs of puts; Forever for None
    Duration,           \* the timeout
    MaxCacheTime,       \* bound on the clock
    MaxCachePuts,       \* bound on the puts
    MaxCalls            \* bound on the calls

ASSUME CacheAssumption ==
    /\ CacheTtls \subseteq Nat /\ PutTtls \subseteq Nat
    /\ KeyLists \subseteq Seq(CacheKeys) \ {<<>>}
    /\ Duration \in Nat /\ MaxCacheTime \in Nat /\ MaxCachePuts \in Nat

Forever == 2 * MaxCacheTime + 1

VARIABLES
    cache_ttl,
    clock,
    cache, primary,     \* [CacheKeys -> [put, expires]], an entry named by its put
    written, asked,     \* puts and calls so far
    call,               \* [CacheTasks -> CacheCall]
    ended,              \* history variable: [CacheKeys -> [puts -> when it ceased to be current]]
    overlapped          \* history variable: keys read for the cache while they were written

cacheVars == <<cache_ttl, clock, cache, primary, written, asked, call, ended, overlapped>>

NoEntry == [put |-> 0, expires |-> 0]
Entries == [put : 0 .. MaxCachePuts, expires : 0 .. 2 * Forever]
Served(entry) == entry.put > 0 /\ clock < entry.expires

Reads == {"get", "get_with_revision"}
Writes == {"put", "delete"}

\* What is asked, the keys left of it, the next step, the key's entry in the primary, and when
\* the call began.
Idle == [op |-> "none", keys |-> <<>>, left |-> <<>>, stage |-> "none", found |-> NoEntry, since |-> 0]
Idles(t) == call[t].op = "none"
Key(t) == Head(call[t].left)

\* The task is about to fill the cache with what it read; it has dropped the key from the
\* cache and not written it yet.
Filling(c, k) == c.stage = "fill" /\ Head(c.left) = k
Writing(c, k) ==
    /\ c.op \in Writes
    /\ \E i \in DOMAIN c.keys : c.keys[i] = k /\ i <= Len(c.keys) - Len(c.left)

CacheInit ==
    /\ cache_ttl \in CacheTtls
    /\ clock = 0
    /\ cache = [k \in CacheKeys |-> NoEntry] /\ primary = [k \in CacheKeys |-> NoEntry]
    /\ written = 0 /\ asked = 0
    /\ call = [t \in CacheTasks |-> Idle]
    /\ ended = [k \in CacheKeys |-> [n \in 1 .. MaxCachePuts |-> Forever]]
    /\ overlapped = {}

-----------------------------------------------------------------------------
Goes(t, c) == call' = [call EXCEPT ![t] = c]

\* After the first of the keys left: on to the next of a read, or done.
AfterKey(c) ==
    IF Len(c.left) = 1 THEN Idle ELSE [c EXCEPT !.left = Tail(@), !.stage = "cache", !.found = NoEntry]

Begin(t) ==
    /\ Idles(t)
    /\ asked < MaxCalls /\ asked' = asked + 1
    /\ \E op \in Reads \cup Writes, keys \in KeyLists :
        /\ op = "get_with_revision" => Len(keys) = 1
        /\ Goes(t, [op |-> op, keys |-> keys, left |-> keys, found |-> NoEntry, since |-> clock,
                    stage |-> IF op = "get_with_revision" THEN "primary" ELSE "cache"])
    /\ UNCHANGED <<cache, primary, written, ended>>

\* get, get_many, ttl, ttl_many: a hit, or on to the primary.
ReadCache(t) ==
    /\ call[t].op = "get" /\ call[t].stage = "cache"
    /\ Goes(t, IF Served(cache[Key(t)]) THEN AfterKey(call[t]) ELSE [call[t] EXCEPT !.stage = "primary"])
    /\ UNCHANGED <<cache, primary, written, asked, ended>>

\* get_with_revision begins here.
ReadPrimary(t) ==
    /\ call[t].op \in Reads /\ call[t].stage = "primary"
    /\ LET entry == primary[Key(t)]
       IN  Goes(t, IF Served(entry) THEN [call[t] EXCEPT !.stage = "fill", !.found = entry]
                   ELSE AfterKey(call[t]))
    /\ UNCHANGED <<cache, primary, written, asked, ended>>

\* Mutant: the cache's entry does not expire.
Fill_forever(t) ==
    /\ call[t].stage = "fill"
    /\ cache' = [cache EXCEPT ![Key(t)] = [put |-> call[t].found.put, expires |-> clock + Forever]]
    /\ Goes(t, AfterKey(call[t]))
    /\ UNCHANGED <<primary, written, asked, ended>>

\* cache.put(.., cache_ttl)
FillCache(t) ==
    /\ call[t].stage = "fill"
    /\ cache' = [cache EXCEPT ![Key(t)] = [put |-> call[t].found.put, expires |-> clock + cache_ttl]]
    /\ Goes(t, AfterKey(call[t]))
    /\ UNCHANGED <<primary, written, asked, ended>>

\* Mutant: the cache loses the first key only.
DropFirst(t) ==
    /\ call[t].op \in Writes /\ call[t].stage = "cache"
    /\ cache' = [cache EXCEPT ![Key(t)] = NoEntry]
    /\ Goes(t, [call[t] EXCEPT !.left = <<>>, !.stage = "primary"])
    /\ UNCHANGED <<primary, written, asked, ended>>

\* cache.delete of each key in turn
DropCached(t) ==
    /\ call[t].op \in Writes /\ call[t].stage = "cache"
    /\ cache' = [cache EXCEPT ![Key(t)] = NoEntry]
    /\ Goes(t, [call[t] EXCEPT !.left = Tail(@), !.stage = IF Len(call[t].left) = 1 THEN "primary" ELSE "cache"])
    /\ UNCHANGED <<primary, written, asked, ended>>

\* The primary gets an entry for each key of the call, and those they replace end now, if
\* they have not expired.
Replaces(t, entry) ==
    LET keys == {call[t].keys[i] : i \in DOMAIN call[t].keys}
    IN  /\ primary' = [k \in CacheKeys |-> IF k \in keys THEN entry ELSE primary[k]]
        /\ ended' = [k \in CacheKeys |-> [n \in 1 .. MaxCachePuts |->
            IF k \in keys /\ n = entry.put THEN entry.expires
            ELSE IF k \in keys /\ n = primary[k].put /\ clock < ended[k][n] THEN clock
            ELSE ended[k][n]]]
    /\ Goes(t, Idle)
    /\ UNCHANGED <<cache, asked>>

\* primary.put, primary.put_many, primary.compare_and_swap
WritePrimary(t) ==
    /\ call[t].op = "put" /\ call[t].stage = "primary"
    /\ written < MaxCachePuts /\ written' = written + 1
    /\ \E ttl \in PutTtls : Replaces(t, [put |-> written', expires |-> clock + ttl])

\* primary.delete, primary.delete_many, primary.compare_and_delete
DeletePrimary(t) ==
    /\ call[t].op = "delete" /\ call[t].stage = "primary"
    /\ Replaces(t, NoEntry)
    /\ UNCHANGED written

\* A store's error ends the call, as does a revision that is not current any more, or the
\* timeout of TimeoutWrapper; what was done stays.
Ends(t) ==
    /\ ~Idles(t)
    /\ Goes(t, Idle)
    /\ UNCHANGED <<cache, primary, written, asked, ended>>

\* The keys read while written.  A key is clear again once it is dropped from the cache with
\* nobody about to fill it.
Overlaps ==
    overlapped' =
        {k \in overlapped : cache'[k] # NoEntry \/ cache[k] = NoEntry \/ \E t \in CacheTasks : Filling(call'[t], k)}
        \cup {k \in CacheKeys : \E t, u \in CacheTasks : Filling(call'[t], k) /\ Writing(call'[u], k)}

CacheStep(t) ==
    Begin(t) \/ ReadCache(t) \/ ReadPrimary(t) \/ FillCache(t) \/ DropCached(t) \/ WritePrimary(t)
        \/ DeletePrimary(t) \/ Ends(t)

\* tokio::time::timeout: no call is left that is Duration old.
CacheTick ==
    /\ clock < MaxCacheTime /\ clock' = clock + 1
    /\ \A t \in CacheTasks : Idles(t) \/ clock < call[t].since + Duration
    /\ UNCHANGED <<cache, primary, written, asked, call, ended, overlapped>>

CacheNext ==
    /\ \/ (\E t \in CacheTasks : CacheStep(t)) /\ Overlaps /\ UNCHANGED clock
       \/ CacheTick
    /\ UNCHANGED cache_ttl

CacheSpec == CacheInit /\ [][CacheNext]_cacheVars

-----------------------------------------------------------------------------
\* Types, and that nothing is cached that was never put.
CacheTypeOK ==
    /\ cache_ttl \in CacheTtls
    /\ clock \in 0 .. MaxCacheTime
    /\ cache \in [CacheKeys -> Entries] /\ primary \in [CacheKeys -> Entries]
    /\ \A k \in CacheKeys : cache[k].put <= written /\ primary[k].put <= written
    /\ \A t \in CacheTasks : call[t].found \in Entries /\ call[t].since <= clock

\* What the cache serves under a key is what the primary holds or held last until it
\* expired, except after a read that filled the cache overlapped with a write of the key
\* (passthrough_cache.rs:44-52 against :82-83).
StaleOnlyByRace ==
    \A k \in CacheKeys : Served(cache[k]) => cache[k].put = primary[k].put \/ k \in overlapped

\* Even then nothing is served later than the cache's TTL and one timeout after it was
\* overwritten, was deleted or expired.
FreshEnough ==
    \A k \in CacheKeys : Served(cache[k]) /\ cache_ttl # Forever =>
        clock < ended[k][cache[k].put] + cache_ttl + Duration
=============================================================================
