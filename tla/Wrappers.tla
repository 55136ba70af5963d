------------------------------ MODULE Wrappers ------------------------------
(***************************************************************************)
(* The wrappers (src/wrapper/).  Those that hand each call on, under another *)
(* name, with another value or TTL, to one of several stores, or not at all, *)
(* make one call of what is below: it holds one value per place, <<store,    *)
(* collection, key>>, and may hold entries of others; its operations are     *)
(* correct but may fail.  A passthrough cache makes several calls, so that   *)
(* those of its tasks interleave (PassthroughCache).                         *)
(***************************************************************************)
EXTENDS PassthroughCache, SequencesExt, FiniteSets

(***************************************************************************)
(* Names (utils/compound.rs): the identities of keys in stores without      *)
(* collections, and the names that wrappers give.  A name is a sequence of  *)
(* symbols: the digits, the colon, and letters.  Names are shorter than ten *)
(* symbols, so that a length is one digit.                                  *)
(***************************************************************************)
Digits == 0 .. 9
Colon == 10

\* "length:collection"
collection_prefix(collection) == <<Len(collection), Colon>> \o collection

compound_key(collection, key) == collection_prefix(collection) \o key

\* Is the identity a length, a colon and at least so many symbols?
IsCompound(identity) ==
    /\ Len(identity) >= 2
    /\ identity[1] \in Digits /\ identity[2] = Colon
    /\ Len(identity) - 2 >= identity[1]

\* decompound_key of an identity that is one: <<collection, key>>.
decompound_key(identity) ==
    <<SubSeq(identity, 3, 2 + identity[1]), SubSeq(identity, 3 + identity[1], Len(identity))>>

\* Subspace::prefix, empty for the empty subspace; Subspace::scope.
SubspacePrefix(subspace) == IF subspace = <<>> THEN <<>> ELSE collection_prefix(subspace)
scope(subspace, key) == SubspacePrefix(subspace) \o key
subspace_compound_key(subspace, collection, key) == scope(subspace, compound_key(collection, key))

\* Mutant: cut off any name.
CutOff(prefix, names) == {SubSeq(n, Len(prefix) + 1, Len(n)) : n \in names}

\* strip_prefix: the names that begin with the prefix, without it.
Stripped(prefix, names) ==
    {SubSeq(n, Len(prefix) + 1, Len(n)) : n \in {m \in names : IsPrefix(prefix, m)}}

\* subspace_decompound_key: the pairs among the identities that are of the subspace.
SubspaceEntries(subspace, identities) ==
    {decompound_key(i) : i \in {j \in Stripped(SubspacePrefix(subspace), identities) : IsCompound(j)}}

(***************************************************************************)
(* Wrappers that make one call of what is below.                            *)
(***************************************************************************)
CONSTANTS
    Kinds,              \* the wrappers explored, of WrapperKinds
    Prefix,             \* the prefix, or the backing collection
    Collections, Keys,  \* names that the wrapper's user passes; None among the collections
    ForeignPlaces,      \* places that others write
    TTLs,               \* TTLs passed; NoTtl among them
    MinTtl, MaxTtl, MissingTtl,
    Batches,            \* the batches put: sequences of [name, value], of different names
    MaxPuts             \* bound on the writes

None == <<99>>          \* no collection is given
Default == <<11>>       \* "default_collection"
NoTtl == 0              \* also what an entry without expiry has
Resolve(collection) == IF collection = None THEN Default ELSE collection

\* A value is short or long, or begins with the mark of a compressed one.
Values == {"short", "long", "marked"}
DefaultValue == "default"
Forms == {"raw", "gzip", "escaped", "encrypted"}
Corrupt == "corrupt"
Stored == [form : Forms, value : Values]

UserNames == Collections \X Keys

VARIABLES
    kind,       \* the wrapper
    inner,      \* what is below: a set of [place, stored, ttl]
    shown,      \* history variable: what its user wrote, a set of [name, value, ttl]
    puts

wrapperVars == <<kind, inner, shown, puts>>

WrapperInit ==
    /\ kind \in Kinds
    /\ inner = {} /\ shown = {}
    /\ puts = 0

-----------------------------------------------------------------------------
(* What each wrapper makes of a call: the place it goes to, {} if it knows none; the      *)
(* values it lets through; what it stores for a value and shows for what is stored; the    *)
(* TTL it passes on.  Every operation of the wrapper does the same.                        *)

Raw == [v \in Values |-> [form |-> "raw", value |-> v]]
Plainly == [s \in Stored |-> s.value]

\* Handing everything on: LoggingWrapper, StatisticsWrapper, TimeoutWrapper, StoreHandle.
Plain == [
    place |-> [n \in UserNames |-> {<<1, Resolve(n[1]), n[2]>>}],
    accepts |-> Values, stored |-> Raw, shown |-> Plainly, ttl |-> [t \in TTLs |-> t]]

LoggingWrapper == Plain
StatisticsWrapper == Plain
StoreHandle == Plain

\* Its values come through a cache: PassthroughCache.
PassthroughCacheWrapper == Plain

\* Reads only.
ReadOnlyWrapper == [Plain EXCEPT !.accepts = {}]

prefixed(key) == Prefix \o key

PrefixKeysWrapper ==
    [Plain EXCEPT !.place = [n \in UserNames |-> {<<1, Resolve(n[1]), prefixed(n[2])>>}]]

PrefixCollectionsWrapper ==
    [Plain EXCEPT !.place = [n \in UserNames |-> {<<1, Prefix \o Resolve(n[1]), n[2]>>}]]

SingleCollectionWrapper ==
    [Plain EXCEPT !.place = [n \in UserNames |-> {<<1, Prefix, compound_key(Resolve(n[1]), n[2])>>}]]

\* check_size
LimitSizeWrapper == [Plain EXCEPT !.accepts = Values \ {"long"}]

\* What the constructors set, NoTtl for None: with_range (with_min and with_max set half of
\* it), with_missing_ttl.
WithRange == [min |-> MinTtl, max |-> MaxTtl, missing |-> NoTtl]
WithMissingTtl == [min |-> NoTtl, max |-> NoTtl, missing |-> MissingTtl]

\* Mutant: the default for a missing TTL is not applied.
clamp_given(limits, ttl) ==
    LET given == IF ttl < limits.min THEN limits.min ELSE ttl
    IN  IF ttl = NoTtl THEN NoTtl ELSE IF limits.max # NoTtl /\ given > limits.max THEN limits.max ELSE given

\* clamp_ttl: the maximum has the last word.
clamp_ttl(limits, ttl) ==
    LET given == IF ttl = NoTtl THEN limits.missing ELSE ttl
        least == IF given < limits.min THEN limits.min ELSE given
    IN  IF given = NoTtl THEN NoTtl ELSE IF limits.max # NoTtl /\ least > limits.max THEN limits.max ELSE least

TtlClampWrapper(limits) == [Plain EXCEPT !.ttl = [t \in TTLs |-> clamp_ttl(limits, t)]]

DefaultValueWrapper == Plain

\* Mutant: a value with the mark is taken for compressed already.
compress_unmarked(value) == [form |-> IF value = "long" THEN "gzip" ELSE "raw", value |-> value]

\* A value with the mark is escaped.
compress(value) ==
    [form |-> CASE value = "marked" -> "escaped" [] value = "long" -> "gzip" [] OTHER -> "raw",
     value |-> value]

\* A raw value with the mark does not decompress.
decompress_value(stored) ==
    IF stored.form = "raw" /\ stored.value = "marked" THEN Corrupt ELSE stored.value

CompressionWrapper ==
    [Plain EXCEPT !.stored = [v \in Values |-> compress(v)],
                  !.shown = [s \in Stored |-> decompress_value(s)]]

encrypt_value(value) == [form |-> "encrypted", value |-> value]
decrypt_value(stored) == IF stored.form = "encrypted" THEN stored.value ELSE Corrupt

EncryptionWrapper ==
    [Plain EXCEPT !.stored = [v \in Values |-> encrypt_value(v)],
                  !.shown = [s \in Stored |-> decrypt_value(s)]]

\* The router given to RoutingWrapper: some keys it sends to a store that does not exist.
router(collection, key) == IF key = <<>> THEN 3 ELSE IF Len(key) = 1 THEN 1 ELSE 2

\* route
RoutingWrapper ==
    [Plain EXCEPT !.place = [n \in UserNames |->
        {<<i, Resolve(n[1]), n[2]>> : i \in {router(n[1], n[2])} \cap {1, 2}}]]

\* The table given to CollectionRoutingWrapper; a collection must be given (resolve).
Routes == <<Default, <<1>>>>
CollectionRoutingWrapper ==
    [Plain EXCEPT !.place = [n \in UserNames |-> {<<i, n[1], n[2]>> : i \in {j \in 1 .. 2 : Routes[j] = n[1]}}]]

Wrapper == [
    logging |-> LoggingWrapper, statistics |-> StatisticsWrapper, handle |-> StoreHandle,
    readonly |-> ReadOnlyWrapper, prefix_keys |-> PrefixKeysWrapper,
    prefix_collections |-> PrefixCollectionsWrapper, single_collection |-> SingleCollectionWrapper,
    limit_size |-> LimitSizeWrapper,
    ttl_clamp |-> TtlClampWrapper(WithRange), ttl_missing |-> TtlClampWrapper(WithMissingTtl),
    passthrough_cache |-> PassthroughCacheWrapper, default_value |-> DefaultValueWrapper,
    compression |-> CompressionWrapper,
    encryption |-> EncryptionWrapper, routing |-> RoutingWrapper,
    collection_routing |-> CollectionRoutingWrapper]

w == Wrapper[kind]
Routed(n) == w.place[n] # {}
Place(n) == CHOOSE p \in w.place[n] : TRUE
Same(m, n) == Resolve(m[1]) = Resolve(n[1]) /\ m[2] = n[2]

ASSUME WrappersAssumption ==
    /\ Kinds \subseteq DOMAIN Wrapper
    /\ Prefix \in Seq(Nat) /\ Collections \subseteq Seq(Nat) /\ Keys \subseteq Seq(Nat)
    /\ \A name \in {Prefix} \cup Collections \cup Keys : Len(name) < 10
    /\ ForeignPlaces \subseteq (1 .. 2) \X Seq(Nat) \X Seq(Nat)
    /\ TTLs \subseteq Nat /\ NoTtl \in TTLs
    /\ MinTtl \in Nat /\ MaxTtl \in Nat /\ MissingTtl \in Nat \ {NoTtl}
    /\ Batches \subseteq Seq([name : UserNames, value : Values])
    /\ \A items \in Batches : \A i, j \in DOMAIN items : i # j => ~Same(items[i].name, items[j].name)

-----------------------------------------------------------------------------
(* Calls that change something.  items: a sequence of [name, value]. *)

\* The first n items are stored.
Stores(items, n, ttl) ==
    LET names == {items[i].name : i \in 1 .. n}
    IN  /\ inner' = {e \in inner : \A m \in names : e.place # Place(m)} \cup
            {[place |-> Place(items[i].name), stored |-> w.stored[items[i].value], ttl |-> w.ttl[ttl]] :
                i \in 1 .. n}
        /\ shown' = {e \in shown : \A m \in names : ~Same(e.name, m)} \cup
            {[name |-> items[i].name, value |-> items[i].value, ttl |-> ttl] : i \in 1 .. n}

Forgets(names) ==
    /\ inner' = {e \in inner : \A m \in names : e.place # Place(m)}
    /\ shown' = {e \in shown : \A m \in names : ~Same(e.name, m)}

Accepts(item) == item.value \in w.accepts /\ Routed(item.name)
AllItems(items) == \A i \in DOMAIN items : Accepts(items[i])

\* RoutingWrapper goes from key to key when they are not all of one store.
OneByOne(names) == kind = "routing" /\ \E m, n \in names : router(m[1], m[2]) # router(n[1], n[2])
NamesOf(items) == {items[i].name : i \in DOMAIN items}

\* put, put_many: the wrapper refuses, or makes one call of the store below, which may fail.
Put(items, ttl) ==
    /\ puts < MaxPuts /\ puts' = puts + 1
    /\ ~OneByOne(NamesOf(items))
    /\ \/ UNCHANGED <<inner, shown>>
       \/ AllItems(items) /\ Stores(items, Len(items), ttl)
    /\ UNCHANGED kind

\* put_many of RoutingWrapper, one put after the other: the first n are stored, the next
\* fails or, of its route, is refused.
RoutedPutMany(items, n, ttl) ==
    /\ puts < MaxPuts /\ puts' = puts + 1
    /\ OneByOne(NamesOf(items))
    /\ \A i \in 1 .. n : Accepts(items[i])
    /\ Stores(items, n, ttl)
    /\ UNCHANGED kind

\* delete, delete_many
Delete(names) ==
    /\ ~OneByOne(names)
    /\ \/ UNCHANGED <<inner, shown>>
       \/ w.accepts # {} /\ (\A m \in names : Routed(m)) /\ Forgets(names)
    /\ UNCHANGED <<kind, puts>>

\* delete_many of RoutingWrapper: the first n are deleted, the next fails or is refused.
RoutedDeleteMany(items, n) ==
    /\ OneByOne(NamesOf(items))
    /\ \A i \in 1 .. n : Routed(items[i].name)
    /\ Forgets({items[i].name : i \in 1 .. n})
    /\ UNCHANGED <<kind, puts>>

\* Others use the stores below, under names that are not the wrapper's.
ForeignPut(place) ==
    /\ \A n \in UserNames : place \notin w.place[n]
    /\ \A e \in inner : e.place # place
    /\ inner' = inner \cup {[place |-> place, stored |-> Raw["short"], ttl |-> NoTtl]}
    /\ UNCHANGED <<kind, shown, puts>>

WrapperNext ==
    \/ \E items \in Batches, ttl \in IF kind \in {"ttl_clamp", "ttl_missing"} THEN TTLs ELSE {NoTtl} :
        Put(items, ttl) \/ \E n \in 0 .. Len(items) : RoutedPutMany(items, n, ttl)
    \/ \E items \in Batches :
        Delete(NamesOf(items)) \/ \E n \in 0 .. Len(items) : RoutedDeleteMany(items, n)
    \/ \E place \in ForeignPlaces : ForeignPut(place)

-----------------------------------------------------------------------------
(* Reading *)

Missing == "missing"

\* get, ttl: the value and the TTL under a name that has a place.
Get(n) ==
    LET found == {e \in inner : e.place = Place(n)}
    IN  IF found # {} THEN LET e == CHOOSE e \in found : TRUE IN [value |-> w.shown[e.stored], ttl |-> e.ttl]
        ELSE [value |-> IF kind = "default_value" THEN DefaultValue ELSE Missing, ttl |-> NoTtl]

InnerKeys(i, collection) ==
    {e.place[3] : e \in {f \in inner : f.place[1] = i /\ f.place[2] = collection}}
InnerCollections(i) == {e.place[2] : e \in {f \in inner : f.place[1] = i}}

\* SingleCollectionWrapper cannot list if the backing collection holds anything else.
Compounds == InnerKeys(1, Prefix)
MayList(collection) ==
    CASE kind = "single_collection" -> \A i \in Compounds : IsCompound(i)
      [] kind = "collection_routing" -> collection \in {Routes[1], Routes[2]}
      [] OTHER -> TRUE

PrefixKeysKeys(collection) == Stripped(Prefix, InnerKeys(1, Resolve(collection)))
PrefixCollectionsCollections == Stripped(Prefix, InnerCollections(1))
SingleCollectionKeys(collection) ==
    {decompound_key(i)[2] : i \in {j \in Compounds : decompound_key(j)[1] = Resolve(collection)}}
SingleCollectionCollections == {decompound_key(i)[1] : i \in Compounds}
RoutingKeys(collection) == UNION {InnerKeys(i, Resolve(collection)) : i \in 1 .. 2}
RoutingCollections == UNION {InnerCollections(i) : i \in 1 .. 2}
CollectionRoutingCollections == {Routes[1], Routes[2]} \cup RoutingCollections

\* keys(collection, None)
Listed(collection) ==
    CASE kind = "prefix_keys" -> PrefixKeysKeys(collection)
      [] kind = "prefix_collections" -> InnerKeys(1, Prefix \o Resolve(collection))
      [] kind = "single_collection" -> SingleCollectionKeys(collection)
      [] kind \in {"routing", "collection_routing"} -> RoutingKeys(collection)
      [] OTHER -> InnerKeys(1, Resolve(collection))

\* collections(None)
ListedCollections ==
    CASE kind = "prefix_collections" -> PrefixCollectionsCollections
      [] kind = "single_collection" -> SingleCollectionCollections
      [] kind = "routing" -> RoutingCollections
      [] kind = "collection_routing" -> CollectionRoutingCollections
      [] OTHER -> InnerCollections(1)

-----------------------------------------------------------------------------
(* Properties *)

\* What the variables hold.
WrappersTypeOK ==
    /\ kind \in Kinds
    /\ \A e \in inner : e.place[1] \in 1 .. 2 /\ e.stored \in Stored /\ e.ttl \in Nat
    /\ \A d, e \in inner : d.place = e.place => d = e
    /\ \A e \in shown : e.name \in UserNames /\ e.value \in Values

\* Whatever the wrapper makes of names and values, its user reads under each name what was
\* last put under that name, and nothing under others.
ReadsAgree ==
    \A n \in UserNames : Routed(n) =>
        LET own == {e \in shown : Same(e.name, n)}
        IN  IF own = {} THEN Get(n).value \in {Missing, DefaultValue}
            ELSE \A e \in own : Get(n).value = e.value

\* Every key that can be read is listed, and its collection; every key listed that the user
\* might have put can be read (whoever else uses the stores below).
ListsAgree ==
    \A n \in UserNames : Routed(n) /\ MayList(n[1]) =>
        /\ n[2] \in Listed(n[1]) <=> \E e \in inner : e.place = Place(n)
        /\ (\E e \in shown : Same(e.name, n)) => Resolve(n[1]) \in ListedCollections

\* TtlClampWrapper: with a range no entry gets a TTL outside it, with a default none is
\* stored without a TTL.
TtlWithin ==
    \A e \in inner : e.place \notin ForeignPlaces =>
        /\ kind = "ttl_clamp" =>
            e.ttl = NoTtl \/ (MinTtl <= e.ttl /\ (MaxTtl = NoTtl \/ e.ttl <= MaxTtl))
        /\ kind = "ttl_missing" => e.ttl # NoTtl

\* What the user of a wrapper is shown is what the user wrote: values, lists of keys and
\* collections, and times to live within the range.
UserSees == ReadsAgree /\ ListsAgree /\ TtlWithin

(***************************************************************************)
(* A store behind one of the wrappers, or behind a passthrough cache.       *)
(***************************************************************************)
vars == <<wrapperVars, cacheVars>>

Init == WrapperInit /\ CacheInit /\ (kind # "passthrough_cache" => cache_ttl = Forever)

Next ==
    \/ kind # "passthrough_cache" /\ WrapperNext /\ UNCHANGED cacheVars
    \/ kind = "passthrough_cache" /\ CacheNext /\ UNCHANGED wrapperVars

Spec == Init /\ [][Next]_vars

TypeOK == WrappersTypeOK /\ CacheTypeOK
=============================================================================
