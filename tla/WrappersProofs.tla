--------------------------- MODULE WrappersProofs ---------------------------
(***************************************************************************)
(* Proofs about the wrappers.                                               *)
(*                                                                         *)
(* Those that hand a call on show their user what the user wrote.  For each *)
(* wrapper, names are told apart by their places and values by their forms  *)
(* (Sound); whatever the wrapper, what is below is then what was written,   *)
(* and what others wrote under other names (Holds).                         *)
(*                                                                         *)
(* What the passthrough cache serves is old only after a read that          *)
(* overlapped with a write, and never by more than cache_ttl and the        *)
(* timeout.  Both follow from what a task knows between its steps.  An entry *)
(* read to fill the cache was current when it was read, after the call      *)
(* began; and a key being written is out of the cache, or somebody          *)
(* overlapped.                                                              *)
(***************************************************************************)
EXTENDS Wrappers, SequenceTheorems, TLAPS

-----------------------------------------------------------------------------
(* Names *)

AnyName == Seq(Nat)

\* A piece of a name.
LEMMA PieceIs ==
    ASSUME NEW m \in AnyName, NEW a \in Nat \ {0}, NEW b \in Nat, b <= Len(m)
    PROVE  /\ SubSeq(m, a, b) \in AnyName
           /\ Len(SubSeq(m, a, b)) = IF a <= b THEN b - a + 1 ELSE 0
           /\ \A i \in 1 .. b - a + 1 : SubSeq(m, a, b)[i] = m[(a - 1) + i]
<1>1. \A i \in a .. b : m[i] \in Nat
  BY DEF AnyName
<1>2. \A i \in 1 .. b - a + 1 : SubSeq(m, a, b)[i] = m[a + i - 1]
  BY <1>1, SubSeqProperties
<1>3. /\ SubSeq(m, a, b) \in Seq(Nat)
      /\ Len(SubSeq(m, a, b)) = IF a <= b THEN b - a + 1 ELSE 0
  BY <1>1, SubSeqProperties
<1>4. \A i \in 1 .. b - a + 1 : a + i - 1 = (a - 1) + i
  OBVIOUS
<1> QED BY <1>2, <1>3, <1>4 DEF AnyName

\* What is left of a name without a prefix: the one way to put the prefix before it.
LEMMA PrefixStripped ==
    ASSUME NEW p \in AnyName, NEW m \in AnyName, NEW k \in AnyName
    PROVE  IsPrefix(p, m) /\ k = SubSeq(m, Len(p) + 1, Len(m)) <=> m = p \o k
<1>1. Len(p) \in Nat /\ Len(m) \in Nat /\ Len(k) \in Nat
  BY DEF AnyName
<1>2. /\ p \o k \in Seq(Nat) /\ Len(p \o k) = Len(p) + Len(k)
      /\ \A i \in 1 .. Len(p) + Len(k) : (p \o k)[i] = IF i <= Len(p) THEN p[i] ELSE k[i - Len(p)]
  BY ConcatProperties DEF AnyName
<1>3. ASSUME IsPrefix(p, m), k = SubSeq(m, Len(p) + 1, Len(m))
      PROVE  m = p \o k
  <2>1. Len(p) <= Len(m) /\ SubSeq(p, 1, Len(p)) = SubSeq(m, 1, Len(p))
    BY <1>3 DEF IsPrefix
  <2>2. \A i \in 1 .. Len(p) : p[i] = m[i]
    BY <2>1, <1>1, PieceIs
  <2>3. Len(k) = Len(m) - Len(p) /\ \A i \in 1 .. Len(k) : k[i] = m[Len(p) + i]
    BY <1>3, <2>1, <1>1, PieceIs
  <2>4. Len(m) = Len(p \o k) /\ \A i \in 1 .. Len(m) : m[i] = (p \o k)[i]
    BY <1>1, <1>2, <2>1, <2>2, <2>3
  <2> QED BY <1>2, <2>4, SeqEqual DEF AnyName
<1>4. ASSUME m = p \o k
      PROVE  IsPrefix(p, m) /\ k = SubSeq(m, Len(p) + 1, Len(m))
  <2>1. /\ Len(m) = Len(p) + Len(k)
        /\ \A i \in 1 .. Len(p) : m[i] = p[i]
        /\ \A i \in 1 .. Len(k) : m[Len(p) + i] = k[i]
    BY <1>4, <1>1, <1>2
  <2>2. SubSeq(p, 1, Len(p)) = SubSeq(m, 1, Len(p))
    <3> DEFINE q == SubSeq(p, 1, Len(p))
               r == SubSeq(m, 1, Len(p))
    <3>1. q \in AnyName /\ Len(q) = Len(p) /\ \A i \in 1 .. Len(p) : q[i] = p[i]
      BY <1>1, PieceIs
    <3>2. r \in AnyName /\ Len(r) = Len(p) /\ \A i \in 1 .. Len(p) : r[i] = m[i]
      BY <1>1, <2>1, PieceIs
    <3> HIDE DEF q, r
    <3>3. q = r
      BY <3>1, <3>2, <2>1, SeqEqual DEF AnyName
    <3> QED BY <3>3 DEF q, r
  <2>3. k = SubSeq(m, Len(p) + 1, Len(m))
    <3> DEFINE q == SubSeq(m, Len(p) + 1, Len(m))
    <3>1. q \in AnyName /\ Len(q) = Len(k) /\ \A i \in 1 .. Len(k) : q[i] = m[Len(p) + i]
      BY <1>1, <2>1, PieceIs
    <3> HIDE DEF q
    <3>2. k = q
      BY <3>1, <2>1, SeqEqual DEF AnyName
    <3> QED BY <3>2 DEF q
  <2> QED BY <1>1, <2>1, <2>2, <2>3 DEF IsPrefix
<1> QED BY <1>3, <1>4

\* Stripped undoes a prefix, and leaves out the names without it.
LEMMA StrippedHas ==
    ASSUME NEW p \in AnyName, NEW k \in AnyName, NEW names, names \subseteq AnyName
    PROVE  k \in Stripped(p, names) <=> p \o k \in names
<1>1. k \in Stripped(p, names) <=> \E m \in names : IsPrefix(p, m) /\ k = SubSeq(m, Len(p) + 1, Len(m))
  BY Zenon DEF Stripped
<1>2. \A m \in names : IsPrefix(p, m) /\ k = SubSeq(m, Len(p) + 1, Len(m)) <=> m = p \o k
  BY PrefixStripped
<1> QED BY <1>1, <1>2

\* A prefix is told from what follows it.
LEMMA PrefixCancels ==
    ASSUME NEW p \in AnyName, NEW k \in AnyName, NEW l \in AnyName, p \o k = p \o l
    PROVE  k = l
<1>1. \A s \in Seq(Nat), t \in Seq(Nat), v \in Seq(Nat) : s \o t = s \o v => t = v
  BY ConcatSimplifications, Zenon
<1> QED BY <1>1 DEF AnyName

\* A compound is a length, a colon, the collection and the key.
LEMMA CompoundIs ==
    ASSUME NEW c \in AnyName, NEW k \in AnyName
    PROVE  /\ compound_key(c, k) \in AnyName /\ Len(compound_key(c, k)) = 2 + Len(c) + Len(k)
           /\ compound_key(c, k)[1] = Len(c) /\ compound_key(c, k)[2] = Colon
           /\ \A j \in 1 .. Len(c) : compound_key(c, k)[2 + j] = c[j]
           /\ \A j \in 1 .. Len(k) : compound_key(c, k)[2 + Len(c) + j] = k[j]
<1> DEFINE h == <<Len(c), Colon>>
           f == h \o c
<1>1. Len(c) \in Nat /\ Len(k) \in Nat /\ c \in Seq(Nat) /\ k \in Seq(Nat)
  BY DEF AnyName
<1>2. h \in Seq(Nat) /\ Len(h) = 2 /\ h[1] = Len(c) /\ h[2] = Colon
  BY <1>1 DEF Colon
<1> HIDE DEF h
<1>3. /\ f \in Seq(Nat) /\ Len(f) = 2 + Len(c)
      /\ \A i \in 1 .. 2 + Len(c) : f[i] = IF i <= 2 THEN h[i] ELSE c[i - 2]
  <2>1. /\ h \o c \in Seq(Nat) /\ Len(h \o c) = Len(h) + Len(c)
        /\ \A i \in 1 .. Len(h) + Len(c) : (h \o c)[i] = IF i <= Len(h) THEN h[i] ELSE c[i - Len(h)]
    BY <1>1, <1>2, ConcatProperties, Zenon
  <2> QED BY <1>2, <2>1
<1>4. f[1] = Len(c) /\ f[2] = Colon /\ \A j \in 1 .. Len(c) : f[2 + j] = c[j]
  BY <1>1, <1>2, <1>3
<1> HIDE DEF f
<1>5. /\ f \o k \in Seq(Nat) /\ Len(f \o k) = 2 + Len(c) + Len(k)
      /\ \A i \in 1 .. 2 + Len(c) + Len(k) :
            (f \o k)[i] = IF i <= 2 + Len(c) THEN f[i] ELSE k[i - (2 + Len(c))]
  <2>1. /\ f \o k \in Seq(Nat) /\ Len(f \o k) = Len(f) + Len(k)
        /\ \A i \in 1 .. Len(f) + Len(k) : (f \o k)[i] = IF i <= Len(f) THEN f[i] ELSE k[i - Len(f)]
    BY <1>1, <1>3, ConcatProperties, Zenon
  <2> QED BY <1>3, <2>1
<1>6. /\ (f \o k)[1] = Len(c) /\ (f \o k)[2] = Colon
      /\ \A j \in 1 .. Len(c) : (f \o k)[2 + j] = c[j]
      /\ \A j \in 1 .. Len(k) : (f \o k)[2 + Len(c) + j] = k[j]
  BY <1>1, <1>4, <1>5
<1> QED BY <1>5, <1>6 DEF compound_key, collection_prefix, f, h, AnyName

\* Taking an identity apart and putting it together are the inverse of each other.
LEMMA CompoundApart ==
    ASSUME NEW c \in AnyName, NEW k \in AnyName, NEW i \in AnyName, IsCompound(i)
    PROVE  decompound_key(i)[1] = c /\ decompound_key(i)[2] = k <=> i = compound_key(c, k)
<1> DEFINE d == SubSeq(i, 3, 2 + i[1])
           l == SubSeq(i, 3 + i[1], Len(i))
<1>0. Len(c) \in Nat /\ Len(k) \in Nat /\ Len(i) \in Nat
  BY DEF AnyName
<1>1. i[1] \in Nat /\ i[1] <= Len(i) - 2 /\ i[2] = Colon /\ Len(i) >= 2
  BY <1>0 DEF IsCompound, Digits
<1>2. decompound_key(i)[1] = d /\ decompound_key(i)[2] = l
  BY DEF decompound_key
<1>3. Len(d) = i[1] /\ \A j \in 1 .. i[1] : d[j] = i[2 + j]
  BY <1>0, <1>1, PieceIs
<1>4. Len(l) = Len(i) - 2 - i[1] /\ \A j \in 1 .. Len(i) - 2 - i[1] : l[j] = i[2 + i[1] + j]
  <2>1. 3 + i[1] \in Nat \ {0} /\ 3 + i[1] - 1 = 2 + i[1]
        /\ (3 + i[1] <= Len(i) => Len(i) - (3 + i[1]) + 1 = Len(i) - 2 - i[1])
        /\ (~(3 + i[1] <= Len(i)) => Len(i) - 2 - i[1] = 0)
        /\ Len(i) - (3 + i[1]) + 1 = Len(i) - 2 - i[1]
    BY <1>0, <1>1
  <2>2. /\ Len(l) = IF 3 + i[1] <= Len(i) THEN Len(i) - (3 + i[1]) + 1 ELSE 0
        /\ \A j \in 1 .. Len(i) - (3 + i[1]) + 1 : l[j] = i[((3 + i[1]) - 1) + j]
    BY <1>0, <2>1, PieceIs
  <2>3. \A j \in 1 .. Len(i) - 2 - i[1] : l[j] = i[2 + i[1] + j]
    <3>1. ASSUME NEW j \in 1 .. Len(i) - 2 - i[1] PROVE l[j] = i[2 + i[1] + j]
      <4>1. j \in 1 .. Len(i) - (3 + i[1]) + 1 /\ ((3 + i[1]) - 1) + j = 2 + i[1] + j
        BY <1>0, <1>1
      <4>2. l[j] = i[((3 + i[1]) - 1) + j]
        BY <2>2, <4>1, Zenon
      <4> QED BY <4>1, <4>2, Zenon
    <3> QED BY <3>1
  <2>4. Len(l) = Len(i) - 2 - i[1]
    <3> HIDE DEF l
    <3>1. Len(l) = IF 3 + i[1] <= Len(i) THEN Len(i) - (3 + i[1]) + 1 ELSE 0
      BY <2>2
    <3> QED BY <3>1, <1>0, <1>1
  <2> QED BY <2>3, <2>4
<1>5. d \in AnyName /\ l \in AnyName
  BY <1>0, <1>1, PieceIs
<1> HIDE DEF d, l
<1>6. ASSUME c = d, k = l PROVE i = compound_key(c, k)
  <2> DEFINE u == compound_key(c, k)
  <2>1. /\ u \in AnyName /\ Len(u) = 2 + Len(c) + Len(k)
        /\ u[1] = Len(c) /\ u[2] = Colon
        /\ \A j \in 1 .. Len(c) : u[2 + j] = c[j]
        /\ \A j \in 1 .. Len(k) : u[2 + Len(c) + j] = k[j]
    BY CompoundIs
  <2> HIDE DEF u
  <2>2. Len(u) = Len(i)
    BY <1>0, <1>1, <1>3, <1>4, <1>6, <2>1
  <2>3. ASSUME NEW j \in 1 .. Len(i) PROVE u[j] = i[j]
    <3>1. CASE j \in 1 .. 2
      BY <3>1, <1>1, <1>3, <1>6, <2>1
    <3>2. CASE j \in 3 .. 2 + i[1]
      <4>1. j - 2 \in 1 .. Len(c) /\ 2 + (j - 2) = j
        BY <1>0, <1>1, <1>3, <1>6, <3>2
      <4> QED BY <4>1, <1>3, <1>6, <2>1
    <3>3. CASE j \in 3 + i[1] .. Len(i)
      <4>1. j - 2 - i[1] \in 1 .. Len(k) /\ 2 + i[1] + (j - 2 - i[1]) = j /\ Len(c) = i[1]
        <5>1. j \in Nat /\ j >= 3 + i[1] /\ j <= Len(i) /\ Len(k) = Len(i) - 2 - i[1] /\ Len(c) = i[1]
          BY <1>0, <1>1, <1>3, <1>4, <1>6, <3>3
        <5> QED BY <1>0, <1>1, <5>1
      <4> QED BY <4>1, <1>4, <1>6, <2>1
    <3> QED BY <1>0, <1>1, <3>1, <3>2, <3>3
  <2>4. i = u
    BY <2>1, <2>2, <2>3, SeqEqual DEF AnyName
  <2> QED BY <2>4 DEF u
<1>7. ASSUME i = compound_key(c, k) PROVE c = d /\ k = l
  <2>1. /\ Len(i) = 2 + Len(c) + Len(k)
        /\ i[1] = Len(c)
        /\ \A j \in 1 .. Len(c) : i[2 + j] = c[j]
        /\ \A j \in 1 .. Len(k) : i[2 + Len(c) + j] = k[j]
    <3> DEFINE u == compound_key(c, k)
    <3>1. /\ Len(u) = 2 + Len(c) + Len(k)
          /\ u[1] = Len(c)
          /\ \A j \in 1 .. Len(c) : u[2 + j] = c[j]
          /\ \A j \in 1 .. Len(k) : u[2 + Len(c) + j] = k[j]
      BY CompoundIs, Zenon
    <3>2. i = u
      BY <1>7
    <3> HIDE DEF u
    <3> QED BY <3>1, <3>2
  <2>2. Len(c) = Len(d) /\ \A j \in 1 .. Len(c) : c[j] = d[j]
    BY <1>3, <2>1
  <2>3. Len(k) = Len(l) /\ \A j \in 1 .. Len(k) : k[j] = l[j]
    BY <1>0, <1>4, <2>1
  <2> QED BY <1>5, <2>2, <2>3, SeqEqual DEF AnyName
<1> QED BY <1>2, <1>6, <1>7

\* The identity of a short collection's key is a compound.
LEMMA CompoundFormed ==
    ASSUME NEW c \in AnyName, NEW k \in AnyName, Len(c) < 10
    PROVE  IsCompound(compound_key(c, k))
<1>1. Len(c) \in Nat /\ Len(k) \in Nat
  BY DEF AnyName
<1> DEFINE i == compound_key(c, k)
<1>2. i \in AnyName /\ Len(i) = 2 + Len(c) + Len(k) /\ i[1] = Len(c) /\ i[2] = Colon
  BY CompoundIs, Zenon
<1> HIDE DEF i
<1>3. IsCompound(i)
  <2>1. Len(c) \in 0 .. 9 /\ 2 + Len(c) + Len(k) >= 2 /\ (2 + Len(c) + Len(k)) - 2 >= Len(c)
    <3>1. ASSUME NEW a \in Nat, NEW b \in Nat, a < 10
          PROVE  a \in 0 .. 9 /\ 2 + a + b >= 2 /\ (2 + a + b) - 2 >= a
      BY <3>1
    <3> QED BY <1>1, <3>1
  <2> QED BY <1>2, <2>1, Zenon DEF IsCompound, Digits
<1> QED BY <1>3 DEF i

\* Identities tell collections and keys apart.
LEMMA CompoundTells ==
    ASSUME NEW c \in AnyName, NEW k \in AnyName, NEW d \in AnyName, NEW l \in AnyName,
           compound_key(c, k) = compound_key(d, l)
    PROVE  c = d /\ k = l
<1> DEFINE i == compound_key(c, k)
<1>1. /\ Len(i) = 2 + Len(c) + Len(k) /\ i[1] = Len(c)
      /\ \A j \in 1 .. Len(c) : i[2 + j] = c[j]
      /\ \A j \in 1 .. Len(k) : i[2 + Len(c) + j] = k[j]
  BY CompoundIs, Zenon
<1>2. /\ Len(i) = 2 + Len(d) + Len(l) /\ i[1] = Len(d)
      /\ \A j \in 1 .. Len(d) : i[2 + j] = d[j]
      /\ \A j \in 1 .. Len(l) : i[2 + Len(d) + j] = l[j]
  <2> DEFINE u == compound_key(d, l)
  <2>1. /\ Len(u) = 2 + Len(d) + Len(l) /\ u[1] = Len(d)
        /\ \A j \in 1 .. Len(d) : u[2 + j] = d[j]
        /\ \A j \in 1 .. Len(l) : u[2 + Len(d) + j] = l[j]
    BY CompoundIs, Zenon
  <2>2. i = u
    OBVIOUS
  <2> HIDE DEF i, u
  <2> QED BY <2>1, <2>2
<1> HIDE DEF i
<1>3. Len(c) \in Nat /\ Len(k) \in Nat /\ Len(d) \in Nat /\ Len(l) \in Nat
  BY DEF AnyName
<1>4. Len(c) = Len(d) /\ Len(k) = Len(l)
  BY <1>1, <1>2, <1>3
<1>5. (\A j \in 1 .. Len(c) : c[j] = d[j]) /\ (\A j \in 1 .. Len(k) : k[j] = l[j])
  BY <1>1, <1>2, <1>4
<1> QED BY <1>4, <1>5, SeqEqual DEF AnyName

-----------------------------------------------------------------------------
(* What the wrappers make of names and values *)

Places == (1 .. 2) \X AnyName \X AnyName

\* Names that are not the same go to different places, and the same ones to the same.
TellsNames(place) ==
    \A m, n \in UserNames :
        /\ place[m] \subseteq Places
        /\ \A p \in place[m] : p \in place[n] => Same(m, n)
        /\ Same(m, n) /\ place[m] # {} /\ place[n] # {} => place[m] = place[n]

\* What is let through is shown again as it was.
TellsValues(r) ==
    /\ r.accepts \subseteq Values
    /\ \A v \in r.accepts : r.stored[v] \in Stored /\ r.shown[r.stored[v]] = v

Sound(r) == TellsNames(r.place) /\ TellsValues(r) /\ \A ttl \in TTLs : r.ttl[ttl] \in Nat

\* The parts of a user's name are names.
LEMMA UserNameIs ==
    ASSUME NEW n \in UserNames
    PROVE  n[1] \in Collections /\ n[2] \in Keys /\ n[2] \in AnyName /\ Resolve(n[1]) \in AnyName
<1>1. Default \in AnyName
  BY DEF Default, AnyName
<1>2. n[1] \in Collections /\ n[2] \in Keys
  BY DEF UserNames
<1> QED BY <1>1, <1>2, WrappersAssumption DEF Resolve, AnyName

\* Names that are the same, or not.
LEMMA SameIs ==
    ASSUME NEW m \in UserNames, NEW n \in UserNames
    PROVE  Same(m, n) <=> Resolve(m[1]) = Resolve(n[1]) /\ m[2] = n[2]
BY DEF Same

\* Names that each go to one place, made of the store, a collection and a key.
LEMMA OnePlaceTells ==
    ASSUME NEW f, NEW g,
           \A n \in UserNames : f[n] = {g[n]} /\ g[n] \in Places,
           \A m, n \in UserNames : g[m] = g[n] <=> Same(m, n)
    PROVE  TellsNames(f)
BY DEF TellsNames

LEMMA PlainTellsNames == TellsNames(Plain.place)
<1> DEFINE g == [n \in UserNames |-> <<1, Resolve(n[1]), n[2]>>]
<1>1. \A n \in UserNames : Plain.place[n] = {g[n]}
  BY DEF Plain
<1>2. \A n \in UserNames : g[n] = <<1, Resolve(n[1]), n[2]>>
  OBVIOUS
<1>3. \A n \in UserNames : <<1, Resolve(n[1]), n[2]>> \in Places
  BY UserNameIs DEF Places
<1> HIDE DEF g
<1>4. \A m, n \in UserNames : g[m] = g[n] <=> Same(m, n)
  BY <1>2, SameIs
<1>5. \A n \in UserNames : Plain.place[n] = {g[n]} /\ g[n] \in Places
  BY <1>1, <1>2, <1>3
<1> QED BY <1>4, <1>5, OnePlaceTells, Zenon

LEMMA PlainTellsValues == TellsValues(Plain)
<1>1. Plain.accepts = Values /\ Plain.stored = Raw /\ Plain.shown = Plainly
  BY DEF Plain
<1>2. \A v \in Values : Raw[v] = [form |-> "raw", value |-> v] /\ Raw[v] \in Stored
  BY DEF Raw, Stored, Forms
<1>3. \A s \in Stored : Plainly[s] = s.value
  BY DEF Plainly
<1> QED BY <1>1, <1>2, <1>3 DEF TellsValues

LEMMA PlainSound == Sound(Plain)
<1>1. \A ttl \in TTLs : Plain.ttl[ttl] \in Nat
  BY WrappersAssumption DEF Plain
<1> QED BY <1>1, PlainTellsNames, PlainTellsValues DEF Sound

LEMMA ReadOnlySound == Sound(ReadOnlyWrapper)
<1>1. /\ ReadOnlyWrapper.place = Plain.place /\ ReadOnlyWrapper.ttl = Plain.ttl
      /\ ReadOnlyWrapper.accepts = {}
  BY DEF ReadOnlyWrapper, Plain
<1> QED BY <1>1, PlainSound DEF Sound, TellsValues

LEMMA LimitSizeSound == Sound(LimitSizeWrapper)
<1>1. /\ LimitSizeWrapper.place = Plain.place /\ LimitSizeWrapper.ttl = Plain.ttl
      /\ LimitSizeWrapper.accepts = Values \ {"long"} /\ LimitSizeWrapper.stored = Plain.stored
      /\ LimitSizeWrapper.shown = Plain.shown /\ Plain.accepts = Values
  BY DEF LimitSizeWrapper, Plain
<1> QED BY <1>1, PlainSound DEF Sound, TellsValues

\* A wrapper that renames only.
LEMMA RenamingSound ==
    ASSUME NEW f, TellsNames(f)
    PROVE  Sound([Plain EXCEPT !.place = f])
<1> DEFINE r == [Plain EXCEPT !.place = f]
<1>1. /\ r.place = f /\ r.ttl = Plain.ttl /\ r.accepts = Plain.accepts
      /\ r.stored = Plain.stored /\ r.shown = Plain.shown
  BY DEF Plain
<1> HIDE DEF r
<1>2. Sound(r)
  BY <1>1, PlainSound DEF Sound, TellsValues
<1> QED BY <1>2 DEF r

LEMMA PrefixKeysSound == Sound(PrefixKeysWrapper)
<1> DEFINE f == [n \in UserNames |-> {<<1, Resolve(n[1]), prefixed(n[2])>>}]
       g == [n \in UserNames |-> <<1, Resolve(n[1]), prefixed(n[2])>>]
<1>1. \A n \in UserNames : f[n] = {g[n]} /\ g[n] = <<1, Resolve(n[1]), prefixed(n[2])>>
  OBVIOUS
<1>2. \A n \in UserNames : prefixed(n[2]) \in AnyName /\ <<1, Resolve(n[1]), prefixed(n[2])>> \in Places
  <2>1. ASSUME NEW k \in AnyName PROVE Prefix \o k \in AnyName
    BY WrappersAssumption DEF AnyName
  <2>2. \A n \in UserNames : prefixed(n[2]) \in AnyName
    BY <2>1, UserNameIs DEF prefixed
  <2> QED BY <2>2, UserNameIs DEF Places
<1>3. \A m, n \in UserNames : prefixed(m[2]) = prefixed(n[2]) => m[2] = n[2]
  BY UserNameIs, WrappersAssumption, PrefixCancels DEF prefixed, AnyName
<1> HIDE DEF f, g
<1>4. \A m, n \in UserNames : g[m] = g[n] <=> Same(m, n)
  BY <1>1, <1>3, SameIs
<1>5. TellsNames(f)
  <2>1. \A n \in UserNames : f[n] = {g[n]} /\ g[n] \in Places
    BY <1>1, <1>2
  <2> QED BY <1>4, <2>1, OnePlaceTells, Zenon
<1> QED BY <1>5, RenamingSound, Zenon DEF f, PrefixKeysWrapper

LEMMA PrefixCollectionsSound == Sound(PrefixCollectionsWrapper)
<1> DEFINE f == [n \in UserNames |-> {<<1, Prefix \o Resolve(n[1]), n[2]>>}]
       g == [n \in UserNames |-> <<1, Prefix \o Resolve(n[1]), n[2]>>]
<1>1. \A n \in UserNames : f[n] = {g[n]} /\ g[n] = <<1, Prefix \o Resolve(n[1]), n[2]>>
  OBVIOUS
<1>2. \A n \in UserNames : <<1, Prefix \o Resolve(n[1]), n[2]>> \in Places
  <2>1. ASSUME NEW k \in AnyName PROVE Prefix \o k \in AnyName
    BY WrappersAssumption DEF AnyName
  <2>2. \A n \in UserNames : Prefix \o Resolve(n[1]) \in AnyName
    BY <2>1, UserNameIs
  <2>3. \A n \in UserNames : n[2] \in AnyName
    BY UserNameIs
  <2>4. ASSUME NEW c \in AnyName, NEW k \in AnyName PROVE <<1, c, k>> \in Places
    BY DEF Places
  <2> QED BY <2>2, <2>3, <2>4
<1>3. \A m, n \in UserNames : Prefix \o Resolve(m[1]) = Prefix \o Resolve(n[1]) => Resolve(m[1]) = Resolve(n[1])
  BY UserNameIs, WrappersAssumption, PrefixCancels DEF AnyName
<1> HIDE DEF f, g
<1>4. \A m, n \in UserNames : g[m] = g[n] <=> Same(m, n)
  <2>1. ASSUME NEW m \in UserNames, NEW n \in UserNames
        PROVE  g[m] = g[n] <=> Prefix \o Resolve(m[1]) = Prefix \o Resolve(n[1]) /\ m[2] = n[2]
    <3> DEFINE c == Prefix \o Resolve(m[1])
               d == Prefix \o Resolve(n[1])
    <3>1. g[m] = <<1, c, m[2]>> /\ g[n] = <<1, d, n[2]>>
      BY <1>1
    <3> HIDE DEF c, d
    <3>2. g[m] = g[n] <=> c = d /\ m[2] = n[2]
      BY <3>1
    <3> QED BY <3>2 DEF c, d
  <2> QED BY <1>3, <2>1, SameIs
<1>5. TellsNames(f)
  <2>1. \A n \in UserNames : f[n] = {g[n]} /\ g[n] \in Places
    BY <1>1, <1>2
  <2> QED BY <1>4, <2>1, OnePlaceTells, Zenon
<1> QED BY <1>5, RenamingSound, Zenon DEF f, PrefixCollectionsWrapper

LEMMA SingleCollectionSound == Sound(SingleCollectionWrapper)
<1> DEFINE f == [n \in UserNames |-> {<<1, Prefix, compound_key(Resolve(n[1]), n[2])>>}]
<1>1. \A n \in UserNames : f[n] = {<<1, Prefix, compound_key(Resolve(n[1]), n[2])>>}
  OBVIOUS
<1>2. \A n \in UserNames : compound_key(Resolve(n[1]), n[2]) \in AnyName
  BY UserNameIs, CompoundIs
<1>3. \A n \in UserNames : <<1, Prefix, compound_key(Resolve(n[1]), n[2])>> \in Places
  BY <1>2, WrappersAssumption DEF Places, AnyName
<1>4. \A m, n \in UserNames : compound_key(Resolve(m[1]), m[2]) = compound_key(Resolve(n[1]), n[2]) => Same(m, n)
  BY UserNameIs, CompoundTells DEF Same
<1>5. \A m, n \in UserNames : Same(m, n) => f[m] = f[n]
  BY <1>1 DEF Same
<1> HIDE DEF f
<1>6. TellsNames(f)
  BY <1>1, <1>3, <1>4, <1>5 DEF TellsNames
<1> QED BY <1>6, RenamingSound, Zenon DEF f, SingleCollectionWrapper

LEMMA RoutingSound == Sound(RoutingWrapper)
<1> DEFINE f == [n \in UserNames |-> {<<i, Resolve(n[1]), n[2]>> : i \in {router(n[1], n[2])} \cap {1, 2}}]
<1>1. \A n \in UserNames : f[n] = {<<i, Resolve(n[1]), n[2]>> : i \in {router(n[1], n[2])} \cap {1, 2}}
  OBVIOUS
<1>2. \A n \in UserNames, i \in {1, 2} : <<i, Resolve(n[1]), n[2]>> \in Places
  BY UserNameIs DEF Places
<1>3. \A m, n \in UserNames : Same(m, n) => router(m[1], m[2]) = router(n[1], n[2])
  BY DEF Same, router
<1> HIDE DEF f
<1>4. ASSUME NEW m \in UserNames, NEW n \in UserNames
      PROVE  /\ f[m] \subseteq Places
             /\ \A p \in f[m] : p \in f[n] => Same(m, n)
             /\ Same(m, n) => f[m] = f[n]
  <2>1. f[m] \subseteq Places
    BY <1>1, <1>2
  <2>2. ASSUME NEW p \in f[m], p \in f[n] PROVE Same(m, n)
    <3>1. \E i \in {1, 2} : p = <<i, Resolve(m[1]), m[2]>>
      BY <1>1
    <3>2. \E i \in {1, 2} : p = <<i, Resolve(n[1]), n[2]>>
      BY <1>1, <2>2
    <3> QED BY <3>1, <3>2 DEF Same
  <2>3. ASSUME Same(m, n) PROVE f[m] = f[n]
    <3>1. /\ Resolve(m[1]) = Resolve(n[1]) /\ m[2] = n[2]
          /\ router(m[1], m[2]) = router(n[1], n[2])
      BY <1>3, <2>3 DEF Same
    <3>2. /\ f[m] = {<<i, Resolve(m[1]), m[2]>> : i \in {router(m[1], m[2])} \cap {1, 2}}
          /\ f[n] = {<<i, Resolve(n[1]), n[2]>> : i \in {router(n[1], n[2])} \cap {1, 2}}
      BY <1>1
    <3> QED BY <3>1, <3>2, Zenon
  <2> QED BY <2>1, <2>2, <2>3
<1>5. TellsNames(f)
  BY <1>4 DEF TellsNames
<1> QED BY <1>5, RenamingSound, Zenon DEF f, RoutingWrapper

\* The routes of the table are of different collections, none of them missing.
LEMMA RoutesDiffer == Routes[1] = Default /\ Routes[2] = <<1>> /\ Routes[1] # Routes[2] /\ None \notin {Routes[1], Routes[2]}
BY DEF Routes, Default, None

LEMMA CollectionRoutingSound == Sound(CollectionRoutingWrapper)
<1> DEFINE f == [n \in UserNames |-> {<<i, n[1], n[2]>> : i \in {j \in 1 .. 2 : Routes[j] = n[1]}}]
<1>1. \A n \in UserNames : f[n] = {<<i, n[1], n[2]>> : i \in {j \in 1 .. 2 : Routes[j] = n[1]}}
  OBVIOUS
<1> HIDE DEF f
<1>2. \A n \in UserNames : f[n] # {} => n[1] # None /\ Resolve(n[1]) = n[1]
  <2> SUFFICES ASSUME NEW n \in UserNames, f[n] # {} PROVE n[1] # None
    BY DEF Resolve
  <2>1. \E j \in 1 .. 2 : Routes[j] = n[1]
    BY <1>1
  <2>2. n[1] \in {Routes[1], Routes[2]}
    BY <2>1
  <2> QED BY <2>2, RoutesDiffer
<1>4. ASSUME NEW m \in UserNames, NEW n \in UserNames
      PROVE  /\ f[m] \subseteq Places
             /\ \A p \in f[m] : p \in f[n] => Same(m, n)
             /\ Same(m, n) /\ f[m] # {} /\ f[n] # {} => f[m] = f[n]
  <2>1. f[m] \subseteq Places
    <3>1. \A i \in 1 .. 2 : <<i, Resolve(m[1]), m[2]>> \in Places
      BY UserNameIs DEF Places
    <3> QED BY <1>1, <1>2, <3>1
  <2>2. ASSUME NEW p \in f[m], p \in f[n] PROVE Same(m, n)
    <3>1. \E i \in 1 .. 2 : p = <<i, m[1], m[2]>>
      BY <1>1
    <3>2. \E i \in 1 .. 2 : p = <<i, n[1], n[2]>>
      BY <1>1, <2>2
    <3> QED BY <3>1, <3>2 DEF Same
  <2>3. ASSUME Same(m, n), f[m] # {}, f[n] # {} PROVE f[m] = f[n]
    <3>1. m[1] = n[1] /\ m[2] = n[2]
      BY <1>2, <2>3 DEF Same
    <3>2. /\ f[m] = {<<i, m[1], m[2]>> : i \in {j \in 1 .. 2 : Routes[j] = m[1]}}
          /\ f[n] = {<<i, n[1], n[2]>> : i \in {j \in 1 .. 2 : Routes[j] = n[1]}}
      BY <1>1
    <3> QED BY <3>1, <3>2, Zenon
  <2> QED BY <2>1, <2>2, <2>3
<1>5. TellsNames(f)
  BY <1>4 DEF TellsNames
<1> QED BY <1>5, RenamingSound, Zenon DEF f, CollectionRoutingWrapper

\* A TTL that is given or has a default stays one, and ends up within the limits.
LEMMA ClampIs ==
    ASSUME NEW limits \in {WithRange, WithMissingTtl}, NEW ttl \in TTLs
    PROVE  /\ clamp_ttl(limits, ttl) \in Nat
           /\ MaxTtl = NoTtl \/ MinTtl <= MaxTtl =>
                /\ limits = WithRange /\ clamp_ttl(limits, ttl) # NoTtl =>
                    /\ MinTtl <= clamp_ttl(limits, ttl)
                    /\ MaxTtl = NoTtl \/ clamp_ttl(limits, ttl) <= MaxTtl
                /\ limits = WithMissingTtl => clamp_ttl(limits, ttl) # NoTtl
<1>1. /\ ttl \in Nat /\ MinTtl \in Nat /\ MaxTtl \in Nat /\ NoTtl = 0
      /\ MissingTtl \in Nat /\ MissingTtl # NoTtl
  BY WrappersAssumption DEF NoTtl
<1> DEFINE given == IF ttl = NoTtl THEN limits.missing ELSE ttl
           least == IF given < limits.min THEN limits.min ELSE given
<1>2. clamp_ttl(limits, ttl) =
        IF given = NoTtl THEN NoTtl ELSE IF limits.max # NoTtl /\ least > limits.max THEN limits.max ELSE least
  BY DEF clamp_ttl
<1>3. /\ limits.min \in Nat /\ limits.max \in Nat /\ limits.missing \in Nat
      /\ limits = WithRange => limits.min = MinTtl /\ limits.max = MaxTtl
      /\ limits = WithMissingTtl => limits.missing # NoTtl /\ limits.max = NoTtl
  BY <1>1 DEF WithRange, WithMissingTtl
<1>4. given \in Nat /\ (limits = WithMissingTtl => given # NoTtl)
  BY <1>1, <1>3
<1> HIDE DEF given
<1>5. least \in Nat /\ least >= limits.min /\ least >= given
  BY <1>3, <1>4
<1> HIDE DEF least
<1> QED BY <1>1, <1>2, <1>3, <1>4, <1>5

LEMMA TtlClampSound == \A limits \in {WithRange, WithMissingTtl} : Sound(TtlClampWrapper(limits))
<1> SUFFICES ASSUME NEW limits \in {WithRange, WithMissingTtl} PROVE Sound(TtlClampWrapper(limits))
  OBVIOUS
<1> DEFINE f == [t \in TTLs |-> clamp_ttl(limits, t)]
           r == [Plain EXCEPT !.ttl = f]
<1>1. /\ r.place = Plain.place /\ r.ttl = f /\ r.accepts = Plain.accepts
      /\ r.stored = Plain.stored /\ r.shown = Plain.shown
  BY DEF Plain
<1>2. \A ttl \in TTLs : f[ttl] \in Nat
  BY ClampIs
<1>3. r = TtlClampWrapper(limits)
  BY DEF TtlClampWrapper
<1> HIDE DEF f, r
<1>4. Sound(r)
  BY <1>1, <1>2, PlainSound DEF Sound, TellsValues
<1> QED BY <1>3, <1>4

\* A wrapper that changes values only.
LEMMA EncodingSound ==
    ASSUME NEW f, NEW g, \A v \in Values : f[v] \in Stored /\ g[f[v]] = v
    PROVE  Sound([Plain EXCEPT !.stored = f, !.shown = g])
<1> DEFINE r == [Plain EXCEPT !.stored = f, !.shown = g]
<1>1. /\ r.place = Plain.place /\ r.ttl = Plain.ttl /\ r.accepts = Values
      /\ r.stored = f /\ r.shown = g
  BY DEF Plain
<1> HIDE DEF r
<1>2. Sound(r)
  BY <1>1, PlainSound DEF Sound, TellsValues
<1> QED BY <1>2 DEF r

\* A value with the mark is never stored raw, so that all can be decompressed.
LEMMA CompressionSound == Sound(CompressionWrapper)
<1> DEFINE f == [v \in Values |-> compress(v)]
           g == [s \in Stored |-> decompress_value(s)]
<1>1. \A v \in Values : compress(v) \in Stored /\ decompress_value(compress(v)) = v
  BY DEF Values, compress, decompress_value, Stored, Forms
<1>2. \A v \in Values : f[v] \in Stored /\ g[f[v]] = v
  BY <1>1
<1> HIDE DEF f, g
<1> QED BY <1>2, EncodingSound, Zenon DEF CompressionWrapper, f, g

LEMMA EncryptionSound == Sound(EncryptionWrapper)
<1> DEFINE f == [v \in Values |-> encrypt_value(v)]
           g == [s \in Stored |-> decrypt_value(s)]
<1>1. \A v \in Values : encrypt_value(v) \in Stored /\ decrypt_value(encrypt_value(v)) = v
  BY DEF encrypt_value, decrypt_value, Stored, Forms
<1>2. \A v \in Values : f[v] \in Stored /\ g[f[v]] = v
  BY <1>1
<1> HIDE DEF f, g
<1> QED BY <1>2, EncodingSound, Zenon DEF EncryptionWrapper, f, g

\* Each of the wrappers tells names and values apart.
LEMMA WrappersSound == \A k \in Kinds : Sound(Wrapper[k])
<1>1. Kinds \subseteq DOMAIN Wrapper
  BY WrappersAssumption
<1>2. \A k \in DOMAIN Wrapper :
        k \in {"logging", "statistics", "handle", "readonly", "prefix_keys", "prefix_collections",
               "single_collection", "limit_size", "ttl_clamp", "ttl_missing", "passthrough_cache",
               "default_value", "compression", "encryption", "routing", "collection_routing"}
  BY DEF Wrapper
<1>3. /\ Wrapper["logging"] = Plain /\ Wrapper["statistics"] = Plain /\ Wrapper["handle"] = Plain
      /\ Wrapper["passthrough_cache"] = Plain /\ Wrapper["default_value"] = Plain
  BY DEF Wrapper, LoggingWrapper, StatisticsWrapper, StoreHandle, PassthroughCacheWrapper, DefaultValueWrapper
<1>4. /\ Wrapper["readonly"] = ReadOnlyWrapper /\ Wrapper["prefix_keys"] = PrefixKeysWrapper
      /\ Wrapper["prefix_collections"] = PrefixCollectionsWrapper
      /\ Wrapper["single_collection"] = SingleCollectionWrapper
      /\ Wrapper["limit_size"] = LimitSizeWrapper
      /\ Wrapper["ttl_clamp"] = TtlClampWrapper(WithRange)
      /\ Wrapper["ttl_missing"] = TtlClampWrapper(WithMissingTtl)
      /\ Wrapper["compression"] = CompressionWrapper /\ Wrapper["encryption"] = EncryptionWrapper
      /\ Wrapper["routing"] = RoutingWrapper /\ Wrapper["collection_routing"] = CollectionRoutingWrapper
  BY DEF Wrapper
<1> SUFFICES ASSUME NEW k \in Kinds PROVE Sound(Wrapper[k])
  OBVIOUS
<1>5. CASE k \in {"logging", "statistics", "handle", "passthrough_cache", "default_value"}
  BY <1>3, <1>5, PlainSound
<1>6. CASE k \in {"readonly", "limit_size", "ttl_clamp", "ttl_missing", "compression", "encryption"}
  BY <1>4, <1>6, ReadOnlySound, LimitSizeSound, TtlClampSound, CompressionSound, EncryptionSound
<1>7. CASE k \in {"prefix_keys", "prefix_collections", "single_collection", "routing", "collection_routing"}
  BY <1>4, <1>7, PrefixKeysSound, PrefixCollectionsSound, SingleCollectionSound, RoutingSound,
     CollectionRoutingSound
<1> QED BY <1>1, <1>2, <1>5, <1>6, <1>7

-----------------------------------------------------------------------------
(* What is below against what the user wrote *)

\* The place of a name that has one; Place, of the wrapper in use.
At(r, n) == CHOOSE p \in r.place[n] : TRUE

Items == [name : UserNames, value : Values]

\* One entry per place.
Apart(i) ==
    /\ \A e \in i : e.place \in Places /\ e.stored \in Stored /\ e.ttl \in Nat
    /\ \A d, e \in i : d.place = e.place => d = e

\* What the user wrote is below, in its form.
ShownHeld(r, i, s) ==
    \A d \in s :
        /\ d.name \in UserNames /\ d.value \in r.accepts /\ r.place[d.name] # {}
        /\ \E e \in i : e.place = At(r, d.name) /\ e.stored = r.stored[d.value]

\* What is below was written by the user, or by others under names that are not the user's.
HeldShown(r, i, s) ==
    \A e \in i :
        \/ \E d \in s : e.place = At(r, d.name)
        \/ e.place \in ForeignPlaces /\ \A n \in UserNames : e.place \notin r.place[n]

Holds(r, i, s) == Apart(i) /\ ShownHeld(r, i, s) /\ HeldShown(r, i, s)

Clamps(limits, i) ==
    \A e \in i : e.place \in ForeignPlaces \/ \E ttl \in TTLs : e.ttl = clamp_ttl(limits, ttl)

WrapperInv ==
    /\ kind \in Kinds
    /\ Holds(Wrapper[kind], inner, shown)
    /\ kind = "ttl_clamp" => Clamps(WithRange, inner)
    /\ kind = "ttl_missing" => Clamps(WithMissingTtl, inner)

\* Names that have places have the same one if and only if they are the same.
LEMMA AtTells ==
    ASSUME NEW r, Sound(r)
    PROVE  /\ \A n \in UserNames : r.place[n] # {} => At(r, n) \in r.place[n] /\ At(r, n) \in Places
           /\ \A m, n \in UserNames :
                r.place[m] # {} /\ r.place[n] # {} => (At(r, m) = At(r, n) <=> Same(m, n))
<1>1. \A m, n \in UserNames :
        /\ r.place[m] \subseteq Places
        /\ \A p \in r.place[m] : p \in r.place[n] => Same(m, n)
        /\ Same(m, n) /\ r.place[m] # {} /\ r.place[n] # {} => r.place[m] = r.place[n]
  BY DEF Sound, TellsNames
<1>2. \A n \in UserNames : r.place[n] # {} => At(r, n) \in r.place[n]
  BY DEF At
<1>3. \A n \in UserNames : r.place[n] # {} => At(r, n) \in Places
  BY <1>1, <1>2
<1>4. \A m, n \in UserNames : r.place[m] = r.place[n] => At(r, m) = At(r, n)
  BY DEF At
<1>5. ASSUME NEW m \in UserNames, NEW n \in UserNames, r.place[m] # {}, r.place[n] # {}
      PROVE  At(r, m) = At(r, n) <=> Same(m, n)
  BY <1>1, <1>2, <1>4, <1>5
<1> QED BY <1>2, <1>3, <1>5

\* j and t are left of i and s without names that have places.
Forgotten(r, i, s, names, j, t) ==
    /\ names \subseteq UserNames /\ \A m \in names : r.place[m] # {}
    /\ \A e : e \in j <=> e \in i /\ \A m \in names : e.place # At(r, m)
    /\ \A d : d \in t <=> d \in s /\ \A m \in names : ~Same(d.name, m)

\* i and s become j and t with what is below and above, an item's for each of N.
Added(r, i, s, N, name, value, below, above, j, t) ==
    /\ \A a \in N : name[a] \in UserNames /\ value[a] \in r.accepts /\ r.place[name[a]] # {}
    /\ \A a \in N, e \in i : e.place # At(r, name[a])
    /\ \A a, b \in N : a # b => ~Same(name[a], name[b])
    /\ \A a \in N : /\ below[a].place = At(r, name[a]) /\ below[a].stored = r.stored[value[a]]
                    /\ below[a].ttl \in Nat
                    /\ above[a].name = name[a] /\ above[a].value = value[a]
    /\ \A e : e \in j <=> e \in i \/ \E a \in N : e = below[a]
    /\ \A d : d \in t <=> d \in s \/ \E a \in N : d = above[a]

\* Forgetting names that have places keeps what is below and what was written together.
LEMMA ForgettingHolds ==
    ASSUME NEW r, NEW i, NEW s, NEW j, NEW t, NEW names,
           Sound(r), Holds(r, i, s), Forgotten(r, i, s, names, j, t)
    PROVE  Holds(r, j, t)
<1>0. /\ names \subseteq UserNames /\ \A m \in names : r.place[m] # {}
      /\ \A e : e \in j <=> e \in i /\ \A m \in names : e.place # At(r, m)
      /\ \A d : d \in t <=> d \in s /\ \A m \in names : ~Same(d.name, m)
  BY DEF Forgotten
<1>1. Apart(i) /\ ShownHeld(r, i, s) /\ HeldShown(r, i, s)
  BY DEF Holds
<1>2. Apart(j)
  BY <1>0, <1>1 DEF Apart
<1>3. ShownHeld(r, j, t)
  <2> SUFFICES ASSUME NEW d \in t
               PROVE  /\ d.name \in UserNames /\ d.value \in r.accepts /\ r.place[d.name] # {}
                      /\ \E e \in j : e.place = At(r, d.name) /\ e.stored = r.stored[d.value]
    BY DEF ShownHeld
  <2>1. d \in s /\ \A m \in names : ~Same(d.name, m)
    BY <1>0
  <2>2. /\ d.name \in UserNames /\ d.value \in r.accepts /\ r.place[d.name] # {}
        /\ \E e \in i : e.place = At(r, d.name) /\ e.stored = r.stored[d.value]
    BY <1>1, <2>1 DEF ShownHeld
  <2>3. \A m \in names : At(r, d.name) # At(r, m)
    BY <1>0, <2>1, <2>2, AtTells
  <2> QED BY <1>0, <2>2, <2>3
<1>4. HeldShown(r, j, t)
  <2> SUFFICES ASSUME NEW e \in j, NEW d \in s, e.place = At(r, d.name)
               PROVE  d \in t
    BY <1>0, <1>1 DEF HeldShown
  <2>1. d.name \in UserNames /\ r.place[d.name] # {}
    BY <1>1 DEF ShownHeld
  <2>2. \A m \in names : At(r, d.name) # At(r, m)
    BY <1>0
  <2> QED BY <1>0, <2>1, <2>2, AtTells
<1> QED BY <1>2, <1>3, <1>4 DEF Holds

\* Storing items of different names, once these are forgotten, does as well.
LEMMA AddingHolds ==
    ASSUME NEW r, NEW i, NEW s, NEW j, NEW t, NEW N, NEW name, NEW value, NEW below, NEW above,
           Sound(r), Holds(r, i, s), Added(r, i, s, N, name, value, below, above, j, t)
    PROVE  Holds(r, j, t)
<1> USE DEF Added
<1>1. Apart(i) /\ ShownHeld(r, i, s) /\ HeldShown(r, i, s)
  BY DEF Holds
<1>2. \A a \in N : below[a].place \in Places /\ below[a].stored \in Stored /\ below[a].ttl \in Nat
  BY AtTells DEF Sound, TellsValues
<1>3. \A a, b \in N : a # b => below[a].place # below[b].place
  BY AtTells
<1>4. \A a \in N, e \in i : e.place # below[a].place
  OBVIOUS
<1>5. Apart(j)
  BY <1>1, <1>2, <1>3, <1>4 DEF Apart
<1>6. ShownHeld(r, j, t)
  <2> SUFFICES ASSUME NEW d \in t
               PROVE  /\ d.name \in UserNames /\ d.value \in r.accepts /\ r.place[d.name] # {}
                      /\ \E e \in j : e.place = At(r, d.name) /\ e.stored = r.stored[d.value]
    BY DEF ShownHeld
  <2>1. CASE d \in s
    BY <1>1, <2>1 DEF ShownHeld
  <2>2. CASE \E a \in N : d = above[a]
    <3>1. PICK a \in N : d = above[a]
      BY <2>2
    <3>2. below[a] \in j
      OBVIOUS
    <3> QED BY <3>1, <3>2
  <2> QED BY <2>1, <2>2
<1>7. HeldShown(r, j, t)
  <2> SUFFICES ASSUME NEW e \in j
               PROVE  \/ \E d \in t : e.place = At(r, d.name)
                      \/ e.place \in ForeignPlaces /\ \A n \in UserNames : e.place \notin r.place[n]
    BY DEF HeldShown
  <2>1. CASE e \in i
    BY <1>1, <2>1 DEF HeldShown
  <2>2. CASE \E a \in N : e = below[a]
    <3>1. PICK a \in N : e = below[a]
      BY <2>2
    <3>2. above[a] \in t
      OBVIOUS
    <3> QED BY <3>1, <3>2
  <2> QED BY <2>1, <2>2
<1> QED BY <1>5, <1>6, <1>7 DEF Holds

-----------------------------------------------------------------------------
(* The steps *)

LEMMA WIs == kind \in Kinds => w = Wrapper[kind] /\ Sound(w) /\ \A n : Place(n) = At(w, n)
BY WrappersSound DEF w, Place, At

LEMMA BatchIs ==
    ASSUME NEW items \in Batches
    PROVE  /\ Len(items) \in Nat /\ DOMAIN items = 1 .. Len(items)
           /\ \A a \in DOMAIN items : items[a].name \in UserNames /\ items[a].value \in Values
           /\ \A a, b \in DOMAIN items : a # b => ~Same(items[a].name, items[b].name)
<1>1. items \in Seq([name : UserNames, value : Values])
  BY WrappersAssumption
<1>2. \A a, b \in DOMAIN items : a # b => ~Same(items[a].name, items[b].name)
  BY WrappersAssumption
<1>3. Len(items) \in Nat /\ DOMAIN items = 1 .. Len(items)
  BY <1>1, LenProperties
<1>4. \A a \in DOMAIN items : items[a] \in [name : UserNames, value : Values]
  BY <1>1, ElementOfSeq, <1>3
<1> QED BY <1>2, <1>3, <1>4

LEMMA StoresKeepsInv ==
    ASSUME WrapperInv, kind' = kind, NEW items \in Batches, NEW n \in 0 .. Len(items), NEW ttl \in TTLs,
           \A a \in 1 .. n : Accepts(items[a]), Stores(items, n, ttl)
    PROVE  WrapperInv'
<1> DEFINE N == 1 .. n
           name == [a \in N |-> items[a].name]
           value == [a \in N |-> items[a].value]
           names == {items[a].name : a \in N}
           below == [a \in N |-> [place |-> At(w, name[a]), stored |-> w.stored[value[a]], ttl |-> w.ttl[ttl]]]
           above == [a \in N |-> [name |-> name[a], value |-> value[a], ttl |-> ttl]]
           kept == {e \in inner : \A m \in names : e.place # At(w, m)}
           left == {d \in shown : \A m \in names : ~Same(d.name, m)}
<1>1. w = Wrapper[kind] /\ Sound(w) /\ Holds(w, inner, shown) /\ \A m : Place(m) = At(w, m)
  BY WIs DEF WrapperInv
<1>2. N \subseteq DOMAIN items
  BY BatchIs
<1>3. \A a \in N : name[a] = items[a].name /\ value[a] = items[a].value
  OBVIOUS
<1>4. /\ \A a \in N : name[a] \in UserNames /\ value[a] \in w.accepts /\ w.place[name[a]] # {}
      /\ \A a, b \in N : a # b => ~Same(name[a], name[b])
  <2>1. \A a \in N : items[a].value \in w.accepts /\ w.place[items[a].name] # {}
    BY DEF Accepts, Routed
  <2> QED BY <1>2, <1>3, <2>1, BatchIs
<1>5. names \subseteq UserNames /\ (\A m \in names : w.place[m] # {}) /\ \A a \in N : name[a] \in names
  BY <1>3, <1>4
<1>6. \A e : e \in kept <=> e \in inner /\ \A m \in names : e.place # At(w, m)
  OBVIOUS
<1>7. \A d : d \in left <=> d \in shown /\ \A m \in names : ~Same(d.name, m)
  OBVIOUS
<1>8. w.ttl[ttl] \in Nat
  BY <1>1 DEF Sound
<1>9. \A a \in N : /\ below[a].place = At(w, name[a]) /\ below[a].stored = w.stored[value[a]]
                   /\ below[a].ttl = w.ttl[ttl] /\ below[a].ttl \in Nat
                   /\ above[a].name = name[a] /\ above[a].value = value[a]
  BY <1>8
<1>10. /\ \A e : e \in inner' <=> e \in kept \/ \E a \in N : e = below[a]
       /\ \A d : d \in shown' <=> d \in left \/ \E a \in N : d = above[a]
  BY <1>1, <1>3 DEF Stores
<1> HIDE DEF N, name, value, names, below, above, kept, left
<1>11. Holds(w, kept, left)
  <2>1. Forgotten(w, inner, shown, names, kept, left)
    BY <1>5, <1>6, <1>7, Zenon DEF Forgotten
  <2> QED BY <1>1, <2>1, ForgettingHolds, Zenon
<1>12. \A a \in N, e \in kept : e.place # At(w, name[a])
  BY <1>5, <1>6
<1>13. \A a \in N : /\ below[a].place = At(w, name[a]) /\ below[a].stored = w.stored[value[a]]
                    /\ below[a].ttl \in Nat
                    /\ above[a].name = name[a] /\ above[a].value = value[a]
  BY <1>9
<1>14. PICK i, s : i = inner' /\ s = shown'
  OBVIOUS
<1>15. Holds(w, i, s)
  <2>1. /\ \A e : e \in i <=> e \in kept \/ \E a \in N : e = below[a]
        /\ \A d : d \in s <=> d \in left \/ \E a \in N : d = above[a]
    BY <1>10, <1>14
  <2>2. Added(w, kept, left, N, name, value, below, above, i, s)
    BY <1>4, <1>12, <1>13, <2>1, Zenon DEF Added
  <2> QED BY <1>1, <1>11, <2>2, AddingHolds, Zenon
<1>16. ASSUME NEW limits, w = TtlClampWrapper(limits), Clamps(limits, inner) PROVE Clamps(limits, i)
  <2>1. w.ttl[ttl] = clamp_ttl(limits, ttl)
    BY <1>16 DEF TtlClampWrapper, Plain
  <2> QED BY <1>6, <1>9, <1>10, <1>14, <1>16, <2>1 DEF Clamps
<1>17. /\ kind = "ttl_clamp" => Clamps(WithRange, i)
       /\ kind = "ttl_missing" => Clamps(WithMissingTtl, i)
  <2>1. /\ kind = "ttl_clamp" => w = TtlClampWrapper(WithRange)
        /\ kind = "ttl_missing" => w = TtlClampWrapper(WithMissingTtl)
    BY <1>1 DEF Wrapper
  <2> QED BY <1>16, <2>1 DEF WrapperInv
<1> QED BY <1>1, <1>14, <1>15, <1>17 DEF WrapperInv

LEMMA ForgetsKeepsInv ==
    ASSUME WrapperInv, kind' = kind, NEW names, names \subseteq UserNames, \A m \in names : Routed(m),
           Forgets(names)
    PROVE  WrapperInv'
<1>1. /\ w = Wrapper[kind] /\ Sound(w) /\ Holds(w, inner, shown)
      /\ \A m : Place(m) = At(w, m)
      /\ \A m \in names : w.place[m] # {}
  BY WIs DEF WrapperInv, Routed
<1>2. PICK i, s : i = inner' /\ s = shown'
  OBVIOUS
<1>3. /\ \A e : e \in i <=> e \in inner /\ \A m \in names : e.place # At(w, m)
      /\ \A d : d \in s <=> d \in shown /\ \A m \in names : ~Same(d.name, m)
  BY <1>1, <1>2 DEF Forgets
<1>4. Holds(w, i, s)
  <2>1. Forgotten(w, inner, shown, names, i, s)
    BY <1>1, <1>3, Zenon DEF Forgotten
  <2> QED BY <1>1, <2>1, ForgettingHolds, Zenon
<1> QED BY <1>1, <1>2, <1>3, <1>4 DEF WrapperInv, Clamps

LEMMA ForeignPutKeepsInv ==
    ASSUME WrapperInv, NEW place \in ForeignPlaces, ForeignPut(place)
    PROVE  WrapperInv'
<1> DEFINE new == [place |-> place, stored |-> Raw["short"], ttl |-> NoTtl]
<1>1. /\ kind' = kind /\ shown' = shown /\ inner' = inner \cup {new}
      /\ \A n \in UserNames : place \notin w.place[n]
      /\ \A e \in inner : e.place # place
  BY DEF ForeignPut
<1>2. new.place = place /\ new.stored = Raw["short"] /\ new.ttl = NoTtl
  OBVIOUS
<1>3. Raw["short"] \in Stored /\ NoTtl \in Nat
  BY DEF Raw, Values, Stored, Forms, NoTtl
<1>4. place \in Places
  BY WrappersAssumption DEF Places, AnyName
<1> HIDE DEF new
<1>5. /\ w = Wrapper[kind] /\ kind \in Kinds
      /\ Apart(inner) /\ ShownHeld(w, inner, shown) /\ HeldShown(w, inner, shown)
  BY WIs DEF WrapperInv, Holds
<1>6. Apart(inner')
  BY <1>1, <1>2, <1>3, <1>4, <1>5 DEF Apart
<1>7. ShownHeld(w, inner', shown')
  BY <1>1, <1>5 DEF ShownHeld
<1>8. HeldShown(w, inner', shown')
  BY <1>1, <1>2, <1>5 DEF HeldShown
<1>9. /\ kind = "ttl_clamp" => Clamps(WithRange, inner')
      /\ kind = "ttl_missing" => Clamps(WithMissingTtl, inner')
  BY <1>1, <1>2 DEF WrapperInv, Clamps
<1> QED BY <1>1, <1>5, <1>6, <1>7, <1>8, <1>9 DEF WrapperInv, Holds

LEMMA WrapperNextKeepsInv == WrapperInv /\ WrapperNext => WrapperInv'
<1> SUFFICES ASSUME WrapperInv, WrapperNext PROVE WrapperInv'
  OBVIOUS
<1>1. ASSUME UNCHANGED <<kind, inner, shown>> PROVE WrapperInv'
  BY <1>1 DEF WrapperInv
<1>2. ASSUME NEW items \in Batches
      PROVE  NamesOf(items) \subseteq UserNames
  BY BatchIs DEF NamesOf
<1>3. ASSUME NEW items \in Batches, NEW ttl \in TTLs, Put(items, ttl)
      PROVE  WrapperInv'
  <2>1. CASE UNCHANGED <<inner, shown>>
    BY <1>1, <1>3, <2>1 DEF Put
  <2>2. CASE AllItems(items) /\ Stores(items, Len(items), ttl)
    <3>1. Len(items) \in 0 .. Len(items) /\ \A a \in 1 .. Len(items) : Accepts(items[a])
      BY <2>2, BatchIs DEF AllItems
    <3> QED BY <1>3, <2>2, <3>1, StoresKeepsInv DEF Put
  <2> QED BY <1>3, <2>1, <2>2 DEF Put
<1>4. ASSUME NEW items \in Batches, NEW ttl \in TTLs, NEW n \in 0 .. Len(items),
             RoutedPutMany(items, n, ttl)
      PROVE  WrapperInv'
  BY <1>4, StoresKeepsInv DEF RoutedPutMany
<1>5. ASSUME NEW items \in Batches, Delete(NamesOf(items))
      PROVE  WrapperInv'
  <2>1. CASE UNCHANGED <<inner, shown>>
    BY <1>1, <1>5, <2>1 DEF Delete
  <2>2. CASE (\A m \in NamesOf(items) : Routed(m)) /\ Forgets(NamesOf(items))
    BY <1>2, <1>5, <2>2, ForgetsKeepsInv DEF Delete
  <2> QED BY <1>5, <2>1, <2>2 DEF Delete
<1>6. ASSUME NEW items \in Batches, NEW n \in 0 .. Len(items), RoutedDeleteMany(items, n)
      PROVE  WrapperInv'
  <2> DEFINE names == {items[a].name : a \in 1 .. n}
  <2>1. 1 .. n \subseteq DOMAIN items
    BY BatchIs
  <2>2. names \subseteq UserNames
    BY <2>1, BatchIs
  <2>3. (\A m \in names : Routed(m)) /\ Forgets(names) /\ kind' = kind
    BY <1>6 DEF RoutedDeleteMany
  <2> HIDE DEF names
  <2> QED BY <2>2, <2>3, ForgetsKeepsInv
<1>7. ASSUME NEW place \in ForeignPlaces, ForeignPut(place)
      PROVE  WrapperInv'
  BY <1>7, ForeignPutKeepsInv
<1>8. (IF kind \in {"ttl_clamp", "ttl_missing"} THEN TTLs ELSE {NoTtl}) \subseteq TTLs
  BY WrappersAssumption
<1> QED BY <1>3, <1>4, <1>5, <1>6, <1>7, <1>8 DEF WrapperNext

\* WrapperInv holds throughout.
LEMMA WrapperInvHolds == Spec => []WrapperInv
<1>1. Init => WrapperInv
  BY DEF Init, WrapperInit, WrapperInv, Holds, Apart, ShownHeld, HeldShown, Clamps
<1>2. WrapperInv /\ [Next]_vars => WrapperInv'
  <2>1. WrapperInv /\ UNCHANGED wrapperVars => WrapperInv'
    BY DEF wrapperVars, WrapperInv
  <2> QED BY <2>1, WrapperNextKeepsInv DEF Next, vars
<1> QED BY <1>1, <1>2, PTL DEF Spec

-----------------------------------------------------------------------------
(* What the user sees *)

\* Of the stores that a routing wrapper chooses from, others write under a user's name only
\* in the one it chooses.
RoutesApart ==
    \A k \in Kinds \cap {"routing", "collection_routing"}, p \in ForeignPlaces, n \in UserNames :
        p[2] = Resolve(n[1]) /\ p[3] = n[2] /\ Wrapper[k].place[n] # {} => p \in Wrapper[k].place[n]

\* Whether something is below a name.
Below(n) == \E e \in inner : e.place = Place(n)

LEMMA BelowIs ==
    ASSUME WrapperInv, NEW n \in UserNames, Routed(n)
    PROVE  /\ \A d \in shown : Same(d.name, n) =>
                \E e \in inner : e.place = Place(n) /\ e.stored = w.stored[d.value] /\ d.value \in w.accepts
           /\ Below(n) => \E d \in shown : Same(d.name, n)
<1>1. /\ w = Wrapper[kind] /\ Sound(w) /\ \A m : Place(m) = At(w, m)
      /\ ShownHeld(w, inner, shown) /\ HeldShown(w, inner, shown)
      /\ w.place[n] # {}
  BY WIs DEF WrapperInv, Holds, Routed
<1>2. At(w, n) \in w.place[n] /\ \A m \in UserNames : w.place[m] # {} => (At(w, m) = At(w, n) <=> Same(m, n))
  BY <1>1, AtTells
<1>3. ASSUME NEW d \in shown, Same(d.name, n)
      PROVE  \E e \in inner : e.place = Place(n) /\ e.stored = w.stored[d.value] /\ d.value \in w.accepts
  <2>1. /\ d.name \in UserNames /\ d.value \in w.accepts /\ w.place[d.name] # {}
        /\ \E e \in inner : e.place = At(w, d.name) /\ e.stored = w.stored[d.value]
    BY <1>1 DEF ShownHeld
  <2>2. At(w, d.name) = Place(n)
    BY <1>1, <1>2, <1>3, <2>1
  <2> QED BY <2>1, <2>2
<1>4. ASSUME NEW e \in inner, e.place = Place(n)
      PROVE  \E d \in shown : Same(d.name, n)
  <2>1. e.place = At(w, n) /\ e.place \in w.place[n]
    BY <1>1, <1>2, <1>4
  <2>2. \E d \in shown : e.place = At(w, d.name)
    BY <1>1, <2>1 DEF HeldShown
  <2>3. PICK d \in shown : e.place = At(w, d.name)
    BY <2>2
  <2>4. d.name \in UserNames /\ w.place[d.name] # {}
    BY <1>1 DEF ShownHeld
  <2> QED BY <1>2, <2>1, <2>3, <2>4
<1> QED BY <1>3, <1>4 DEF Below

LEMMA InvReadsAgree == WrapperInv => ReadsAgree
<1> SUFFICES ASSUME WrapperInv, NEW n \in UserNames, Routed(n)
             PROVE  LET own == {e \in shown : Same(e.name, n)}
                    IN  IF own = {} THEN Get(n).value \in {Missing, DefaultValue}
                        ELSE \A e \in own : Get(n).value = e.value
  BY DEF ReadsAgree
<1> DEFINE found == {e \in inner : e.place = Place(n)}
           own == {e \in shown : Same(e.name, n)}
<1>1. ASSUME own = {} PROVE Get(n).value \in {Missing, DefaultValue}
  <2>1. found = {}
    BY <1>1, BelowIs DEF Below
  <2>2. Get(n) = [value |-> IF kind = "default_value" THEN DefaultValue ELSE Missing, ttl |-> NoTtl]
    BY <2>1 DEF Get
  <2> QED BY <2>2
<1>2. ASSUME NEW d \in own PROVE Get(n).value = d.value
  <2>1. PICK e \in inner : e.place = Place(n) /\ e.stored = w.stored[d.value] /\ d.value \in w.accepts
    BY <1>2, BelowIs
  <2>2. \A f \in found : f = e
    BY <2>1 DEF WrapperInv, Holds, Apart
  <2>3. found # {}
    BY <2>1
  <2> DEFINE f == CHOOSE f \in found : TRUE
  <2>4. f \in found
    BY <2>3
  <2>5. f = e
    BY <2>2, <2>4
  <2>6. Get(n) = [value |-> w.shown[f.stored], ttl |-> f.ttl]
    BY <2>3 DEF Get
  <2> HIDE DEF f, found
  <2>7. w.shown[w.stored[d.value]] = d.value
    BY <2>1, WIs DEF WrapperInv, Sound, TellsValues
  <2> QED BY <2>1, <2>5, <2>6, <2>7
<1> QED BY <1>1, <1>2

LEMMA InvTtlWithin == (MaxTtl = NoTtl \/ MinTtl <= MaxTtl) /\ WrapperInv => TtlWithin
<1> SUFFICES ASSUME MaxTtl = NoTtl \/ MinTtl <= MaxTtl, WrapperInv, NEW e \in inner, e.place \notin ForeignPlaces
             PROVE  /\ kind = "ttl_clamp" =>
                        e.ttl = NoTtl \/ (MinTtl <= e.ttl /\ (MaxTtl = NoTtl \/ e.ttl <= MaxTtl))
                    /\ kind = "ttl_missing" => e.ttl # NoTtl
  BY DEF TtlWithin
<1>1. CASE kind = "ttl_clamp"
  <2>1. PICK ttl \in TTLs : e.ttl = clamp_ttl(WithRange, ttl)
    BY <1>1 DEF WrapperInv, Clamps
  <2> QED BY <1>1, <2>1, ClampIs
<1>2. CASE kind = "ttl_missing"
  <2>1. PICK ttl \in TTLs : e.ttl = clamp_ttl(WithMissingTtl, ttl)
    BY <1>2 DEF WrapperInv, Clamps
  <2> QED BY <1>2, <2>1, ClampIs
<1> QED BY <1>1, <1>2

-----------------------------------------------------------------------------
(* Listings *)

LEMMA InnerKeyIs ==
    ASSUME WrapperInv, NEW i, NEW c, NEW k
    PROVE  k \in InnerKeys(i, c) <=> \E e \in inner : e.place = <<i, c, k>>
<1>1. \A e \in inner : e.place \in Places
  BY DEF WrapperInv, Holds, Apart
<1>2. \A p \in Places : p = <<p[1], p[2], p[3]>>
  BY DEF Places
<1>3. k \in InnerKeys(i, c) <=> \E e \in inner : e.place[1] = i /\ e.place[2] = c /\ e.place[3] = k
  BY DEF InnerKeys
<1> QED BY <1>1, <1>2, <1>3

LEMMA InnerKeysAre ==
    ASSUME WrapperInv, NEW i, NEW c
    PROVE  InnerKeys(i, c) \subseteq AnyName
<1>1. \A e \in inner : e.place \in Places
  BY DEF WrapperInv, Holds, Apart
<1>2. \A p \in Places : p[3] \in AnyName
  BY DEF Places
<1> QED BY <1>1, <1>2 DEF InnerKeys

LEMMA InnerCollectionsAre ==
    ASSUME WrapperInv, NEW i \in 1 .. 2
    PROVE  /\ InnerCollections(i) \subseteq AnyName
           /\ \A c, k : (\E e \in inner : e.place = <<i, c, k>>) => c \in InnerCollections(i)
<1>1. \A e \in inner : e.place \in Places
  BY DEF WrapperInv, Holds, Apart
<1>2. \A p \in Places : p[1] \in 1 .. 2 /\ p[2] \in AnyName
  BY DEF Places
<1>3. \A c, k : <<i, c, k>>[1] = i /\ <<i, c, k>>[2] = c
  OBVIOUS
<1>4. ASSUME NEW c, NEW k, NEW e \in inner, e.place = <<i, c, k>> PROVE c \in InnerCollections(i)
  <2>1. e.place[1] = i /\ e.place[2] = c
    BY <1>3, <1>4
  <2> QED BY <2>1 DEF InnerCollections
<1> QED BY <1>1, <1>2, <1>4 DEF InnerCollections

\* The place of a name under each wrapper.
LEMMA PlaceIs ==
    ASSUME kind \in Kinds, NEW n \in UserNames, Routed(n)
    PROVE  /\ kind = "prefix_keys" => Place(n) = <<1, Resolve(n[1]), Prefix \o n[2]>>
           /\ kind = "prefix_collections" => Place(n) = <<1, Prefix \o Resolve(n[1]), n[2]>>
           /\ kind = "single_collection" => Place(n) = <<1, Prefix, compound_key(Resolve(n[1]), n[2])>>
           /\ kind \in {"routing", "collection_routing"} =>
                \E i \in 1 .. 2 : Place(n) = <<i, Resolve(n[1]), n[2]>>
           /\ kind \notin {"prefix_keys", "prefix_collections", "single_collection", "routing",
                           "collection_routing"} => Place(n) = <<1, Resolve(n[1]), n[2]>>
<1>1. w = Wrapper[kind] /\ Place(n) \in w.place[n] /\ w.place[n] # {}
  BY DEF w, Place, Routed
<1>2. CASE kind = "prefix_keys"
  <2>1. w.place[n] = {<<1, Resolve(n[1]), Prefix \o n[2]>>}
    BY <1>1, <1>2 DEF Wrapper, PrefixKeysWrapper, Plain, prefixed
  <2> QED BY <1>1, <1>2, <2>1
<1>3. CASE kind = "prefix_collections"
  <2>1. w.place[n] = {<<1, Prefix \o Resolve(n[1]), n[2]>>}
    BY <1>1, <1>3 DEF Wrapper, PrefixCollectionsWrapper, Plain
  <2> QED BY <1>1, <1>3, <2>1
<1>4. CASE kind = "single_collection"
  <2>1. w.place[n] = {<<1, Prefix, compound_key(Resolve(n[1]), n[2])>>}
    BY <1>1, <1>4 DEF Wrapper, SingleCollectionWrapper, Plain
  <2> QED BY <1>1, <1>4, <2>1
<1>5. CASE kind = "routing"
  <2>1. w.place[n] = {<<i, Resolve(n[1]), n[2]>> : i \in {router(n[1], n[2])} \cap {1, 2}}
    BY <1>1, <1>5 DEF Wrapper, RoutingWrapper, Plain
  <2> QED BY <1>1, <1>5, <2>1
<1>6. CASE kind = "collection_routing"
  <2>1. w.place[n] = {<<i, n[1], n[2]>> : i \in {j \in 1 .. 2 : Routes[j] = n[1]}}
    BY <1>1, <1>6 DEF Wrapper, CollectionRoutingWrapper, Plain
  <2>2. PICK i \in 1 .. 2 : Place(n) = <<i, n[1], n[2]>> /\ Routes[i] = n[1]
    BY <1>1, <2>1
  <2>3. n[1] \in {Routes[1], Routes[2]}
    BY <2>2
  <2>4. Resolve(n[1]) = n[1]
    BY <2>3, RoutesDiffer DEF Resolve
  <2> QED BY <1>6, <2>2, <2>4
<1>7. CASE kind \notin {"prefix_keys", "prefix_collections", "single_collection", "routing", "collection_routing"}
  <2>1. kind \in {"logging", "statistics", "handle", "readonly", "limit_size", "ttl_clamp",
                  "ttl_missing", "passthrough_cache", "default_value", "compression", "encryption"}
    BY <1>7, WrappersAssumption DEF Wrapper
  <2>2. w.place = Plain.place
    <3>1. kind \in {"logging", "statistics", "handle", "passthrough_cache", "default_value"} => w = Plain
      BY <1>1 DEF Wrapper, LoggingWrapper, StatisticsWrapper, StoreHandle, PassthroughCacheWrapper,
         DefaultValueWrapper
    <3>2. /\ kind = "readonly" => w = ReadOnlyWrapper
          /\ kind = "limit_size" => w = LimitSizeWrapper
          /\ kind = "ttl_clamp" => w = TtlClampWrapper(WithRange)
          /\ kind = "ttl_missing" => w = TtlClampWrapper(WithMissingTtl)
          /\ kind = "compression" => w = CompressionWrapper
          /\ kind = "encryption" => w = EncryptionWrapper
      BY <1>1 DEF Wrapper
    <3>3. /\ ReadOnlyWrapper.place = Plain.place /\ LimitSizeWrapper.place = Plain.place
          /\ \A limits : TtlClampWrapper(limits).place = Plain.place
          /\ CompressionWrapper.place = Plain.place /\ EncryptionWrapper.place = Plain.place
      BY DEF ReadOnlyWrapper, LimitSizeWrapper, TtlClampWrapper, CompressionWrapper, EncryptionWrapper, Plain
    <3> QED BY <2>1, <3>1, <3>2, <3>3
  <2>3. Plain.place[n] = {<<1, Resolve(n[1]), n[2]>>}
    BY DEF Plain
  <2> QED BY <1>1, <1>7, <2>2, <2>3
<1> QED BY <1>2, <1>3, <1>4, <1>5, <1>6, <1>7

\* In the stores of a routing wrapper, what is under a user's name is in the one chosen.
LEMMA RoutedInOne ==
    ASSUME RoutesApart, WrapperInv, NEW n \in UserNames, Routed(n),
           kind \in {"routing", "collection_routing"},
           NEW i \in 1 .. 2, NEW e \in inner, e.place = <<i, Resolve(n[1]), n[2]>>
    PROVE  e.place = Place(n)
<1>1. /\ w = Wrapper[kind] /\ kind \in Kinds /\ Sound(w) /\ \A m : Place(m) = At(w, m)
      /\ ShownHeld(w, inner, shown) /\ HeldShown(w, inner, shown)
      /\ w.place[n] # {}
  BY WIs DEF WrapperInv, Holds, Routed
<1>2. CASE \E d \in shown : e.place = At(w, d.name)
  <2>1. PICK d \in shown : e.place = At(w, d.name)
    BY <1>2
  <2>2. d.name \in UserNames /\ w.place[d.name] # {}
    BY <1>1 DEF ShownHeld
  <2>3. PICK j \in 1 .. 2 : Place(d.name) = <<j, Resolve(d.name[1]), d.name[2]>>
    BY <1>1, <2>2, PlaceIs DEF Routed
  <2>4. Same(d.name, n)
    BY <1>1, <2>1, <2>3 DEF Same
  <2> QED BY <1>1, <2>1, <2>2, <2>4, AtTells
<1>3. CASE e.place \in ForeignPlaces /\ \A m \in UserNames : e.place \notin w.place[m]
  <2>1. e.place[2] = Resolve(n[1]) /\ e.place[3] = n[2]
    OBVIOUS
  <2>2. e.place \in w.place[n]
    BY <1>1, <1>3, <2>1 DEF RoutesApart
  <2> QED BY <1>3, <2>2
<1> QED BY <1>1, <1>2, <1>3 DEF HeldShown

\* Listings of keys have those that can be read, and no other that the user might have put.
LEMMA KeysAgree ==
    ASSUME RoutesApart, WrapperInv, NEW n \in UserNames, Routed(n), MayList(n[1])
    PROVE  n[2] \in Listed(n[1]) <=> Below(n)
<1>1. kind \in Kinds /\ n[2] \in AnyName /\ Resolve(n[1]) \in AnyName /\ Prefix \in AnyName
  BY UserNameIs, WrappersAssumption DEF WrapperInv, AnyName
<1> DEFINE c == Resolve(n[1])
<1>2. CASE kind = "prefix_keys"
  <2>1. Listed(n[1]) = Stripped(Prefix, InnerKeys(1, c))
    BY <1>2 DEF Listed, PrefixKeysKeys
  <2>2. n[2] \in Listed(n[1]) <=> Prefix \o n[2] \in InnerKeys(1, c)
    BY <1>1, <2>1, InnerKeysAre, StrippedHas
  <2>3. Prefix \o n[2] \in InnerKeys(1, c) <=> \E e \in inner : e.place = <<1, c, Prefix \o n[2]>>
    BY InnerKeyIs
  <2>4. Place(n) = <<1, c, Prefix \o n[2]>>
    BY <1>1, <1>2, PlaceIs
  <2> QED BY <2>2, <2>3, <2>4 DEF Below
<1>3. CASE kind = "prefix_collections"
  <2>1. Listed(n[1]) = InnerKeys(1, Prefix \o c)
    BY <1>3 DEF Listed
  <2>2. n[2] \in InnerKeys(1, Prefix \o c) <=> \E e \in inner : e.place = <<1, Prefix \o c, n[2]>>
    BY InnerKeyIs
  <2>3. Place(n) = <<1, Prefix \o c, n[2]>>
    BY <1>1, <1>3, PlaceIs
  <2> QED BY <2>1, <2>2, <2>3 DEF Below
<1>4. CASE kind = "single_collection"
  <2>1. Listed(n[1]) = {decompound_key(i)[2] : i \in {j \in Compounds : decompound_key(j)[1] = c}}
    BY <1>4 DEF Listed, SingleCollectionKeys
  <2>2. \A i \in Compounds : IsCompound(i) /\ i \in AnyName
    BY <1>4, InnerKeysAre DEF MayList, Compounds
  <2>3. n[2] \in Listed(n[1]) <=> \E i \in Compounds : decompound_key(i)[1] = c /\ decompound_key(i)[2] = n[2]
    BY <2>1
  <2>4. \A i \in Compounds : decompound_key(i)[1] = c /\ decompound_key(i)[2] = n[2] <=> i = compound_key(c, n[2])
    BY <1>1, <2>2, CompoundApart
  <2>5. compound_key(c, n[2]) \in Compounds <=> \E e \in inner : e.place = <<1, Prefix, compound_key(c, n[2])>>
    BY InnerKeyIs DEF Compounds
  <2>6. Place(n) = <<1, Prefix, compound_key(c, n[2])>>
    BY <1>1, <1>4, PlaceIs
  <2>7. Below(n) <=> \E e \in inner : e.place = <<1, Prefix, compound_key(c, n[2])>>
    BY <2>6 DEF Below
  <2> QED BY <2>3, <2>4, <2>5, <2>7
<1>5. CASE kind \in {"routing", "collection_routing"}
  <2>1. Listed(n[1]) = UNION {InnerKeys(i, c) : i \in 1 .. 2}
    BY <1>5 DEF Listed, RoutingKeys
  <2>2. n[2] \in Listed(n[1]) <=> \E i \in 1 .. 2 : n[2] \in InnerKeys(i, c)
    BY <2>1
  <2>3. \A i \in 1 .. 2 : n[2] \in InnerKeys(i, c) <=> \E e \in inner : e.place = <<i, c, n[2]>>
    BY InnerKeyIs
  <2>4. PICK i \in 1 .. 2 : Place(n) = <<i, c, n[2]>>
    BY <1>1, <1>5, PlaceIs
  <2>5. \A j \in 1 .. 2, e \in inner : e.place = <<j, c, n[2]>> => e.place = Place(n)
    BY <1>5, RoutedInOne
  <2> QED BY <2>2, <2>3, <2>4, <2>5 DEF Below
<1>6. CASE kind \notin {"prefix_keys", "prefix_collections", "single_collection", "routing", "collection_routing"}
  <2>1. Listed(n[1]) = InnerKeys(1, c)
    BY <1>6 DEF Listed
  <2>2. n[2] \in InnerKeys(1, c) <=> \E e \in inner : e.place = <<1, c, n[2]>>
    BY InnerKeyIs
  <2>3. Place(n) = <<1, c, n[2]>>
    BY <1>1, <1>6, PlaceIs
  <2> QED BY <2>1, <2>2, <2>3 DEF Below
<1> QED BY <1>2, <1>3, <1>4, <1>5, <1>6

\* The collection of what can be read is listed.
LEMMA CollectionsAgree ==
    ASSUME WrapperInv, NEW n \in UserNames, Routed(n), MayList(n[1]), Below(n)
    PROVE  Resolve(n[1]) \in ListedCollections
<1>1. kind \in Kinds /\ n[2] \in AnyName /\ Resolve(n[1]) \in AnyName /\ Prefix \in AnyName
  BY UserNameIs, WrappersAssumption DEF WrapperInv, AnyName
<1>2. \E e \in inner : e.place = Place(n)
  BY DEF Below
<1>3. 1 \in 1 .. 2
  OBVIOUS
<1> DEFINE c == Resolve(n[1])
<1>4. CASE kind = "prefix_collections"
  <2>1. ListedCollections = Stripped(Prefix, InnerCollections(1))
    BY <1>4 DEF ListedCollections, PrefixCollectionsCollections
  <2>2. Place(n) = <<1, Prefix \o c, n[2]>>
    BY <1>1, <1>4, PlaceIs
  <2>3. \E e \in inner : e.place = <<1, Prefix \o c, n[2]>>
    BY <1>2, <2>2
  <2>4. Prefix \o c \in InnerCollections(1) /\ InnerCollections(1) \subseteq AnyName
    BY <1>3, <2>3, InnerCollectionsAre, Zenon
  <2> QED BY <1>1, <2>1, <2>4, StrippedHas
<1>5. CASE kind = "single_collection"
  <2>1. ListedCollections = {decompound_key(i)[1] : i \in Compounds}
    BY <1>5 DEF ListedCollections, SingleCollectionCollections
  <2>2. Place(n) = <<1, Prefix, compound_key(c, n[2])>>
    BY <1>1, <1>5, PlaceIs
  <2>3. compound_key(c, n[2]) \in Compounds
    BY <1>2, <2>2, InnerKeyIs DEF Compounds
  <2>4. IsCompound(compound_key(c, n[2])) /\ compound_key(c, n[2]) \in AnyName
    BY <1>1, <1>5, <2>3, CompoundIs DEF MayList
  <2>5. decompound_key(compound_key(c, n[2]))[1] = c
    BY <1>1, <2>4, CompoundApart
  <2> QED BY <2>1, <2>3, <2>5
<1>6. CASE kind \in {"routing", "collection_routing"}
  <2>1. UNION {InnerCollections(i) : i \in 1 .. 2} \subseteq ListedCollections
    BY <1>6 DEF ListedCollections, RoutingCollections, CollectionRoutingCollections
  <2>2. PICK i \in 1 .. 2 : Place(n) = <<i, c, n[2]>>
    BY <1>1, <1>6, PlaceIs
  <2>3. c \in InnerCollections(i)
    BY <1>2, <2>2, InnerCollectionsAre
  <2> QED BY <2>1, <2>3
<1>7. CASE kind = "prefix_keys"
  <2>1. ListedCollections = InnerCollections(1)
    BY <1>7 DEF ListedCollections
  <2>2. Place(n) = <<1, c, Prefix \o n[2]>>
    BY <1>1, <1>7, PlaceIs
  <2>3. \E e \in inner : e.place = <<1, c, Prefix \o n[2]>>
    BY <1>2, <2>2
  <2> QED BY <1>3, <2>1, <2>3, InnerCollectionsAre, Zenon
<1>8. CASE kind \notin {"prefix_keys", "prefix_collections", "single_collection", "routing", "collection_routing"}
  <2>1. ListedCollections = InnerCollections(1)
    BY <1>8 DEF ListedCollections
  <2>2. Place(n) = <<1, c, n[2]>>
    BY <1>1, <1>8, PlaceIs
  <2> QED BY <1>2, <2>1, <2>2, InnerCollectionsAre
<1> QED BY <1>4, <1>5, <1>6, <1>7, <1>8

\* The user of each wrapper is shown what the user wrote, values, keys and collections, and no
\* entry has a time to live out of the range, if the range is one and others do not write
\* under the user's names into a store that a routing wrapper does not choose.
THEOREM WrappersShowWhatWasWritten ==
    RoutesApart /\ (MaxTtl = NoTtl \/ MinTtl <= MaxTtl) => (Spec => []UserSees)
<1> SUFFICES ASSUME RoutesApart, MaxTtl = NoTtl \/ MinTtl <= MaxTtl PROVE Spec => []UserSees
  OBVIOUS
<1>1. WrapperInv => UserSees
  <2> SUFFICES ASSUME WrapperInv PROVE UserSees
    OBVIOUS
  <2>1. ASSUME NEW n \in UserNames, Routed(n), MayList(n[1])
        PROVE  /\ n[2] \in Listed(n[1]) <=> \E e \in inner : e.place = Place(n)
               /\ (\E e \in shown : Same(e.name, n)) => Resolve(n[1]) \in ListedCollections
    <3>1. (\E e \in shown : Same(e.name, n)) => Below(n)
      BY <2>1, BelowIs DEF Below
    <3> QED BY <2>1, <3>1, KeysAgree, CollectionsAgree DEF Below
  <2> QED BY <2>1, InvReadsAgree, InvTtlWithin DEF UserSees, ListsAgree
<1> QED BY <1>1, WrapperInvHolds, PTL

-----------------------------------------------------------------------------
(* The passthrough cache: calls *)

Ops == {"none"} \cup Reads \cup Writes
AnyEntry == [put : Nat, expires : Nat]
CacheCalls == [op : Ops, keys : Seq(CacheKeys), left : Seq(CacheKeys),
               stage : {"none", "cache", "primary", "fill"}, found : AnyEntry, since : Nat]

\* Where a call can be: a read has a key left, a write waits for the primary once none is, and
\* what is left are the last of the keys.
WellFormed(c) ==
    /\ c \in CacheCalls
    /\ c.op = "none" => c.stage = "none"
    /\ c.op \in Reads => c.stage # "none" /\ c.left # <<>>
    /\ c.op \in Writes => (c.stage = "cache" /\ c.left # <<>>) \/ (c.stage = "primary" /\ c.left = <<>>)
    /\ Len(c.left) <= Len(c.keys)
    /\ \A i \in 1 .. Len(c.left) : c.left[i] = c.keys[Len(c.keys) - Len(c.left) + i]

CallsFormed == call \in [CacheTasks -> CacheCalls] /\ \A t \in CacheTasks : WellFormed(call[t])

StoresTyped ==
    /\ cache_ttl \in Nat /\ clock \in Nat /\ written \in 0 .. MaxCachePuts
    /\ cache \in [CacheKeys -> AnyEntry] /\ primary \in [CacheKeys -> AnyEntry]
    /\ \A k \in CacheKeys : cache[k].put <= written /\ primary[k].put <= written
    /\ ended \in [CacheKeys -> [1 .. MaxCachePuts -> Nat]]

\* No call is older than the timeout, and none fills the cache with what was never put.
CallsYoung ==
    \A t \in CacheTasks :
        /\ ~Idles(t) => call[t].since <= clock /\ clock <= call[t].since + Duration
        /\ call[t].stage = "fill" => call[t].found.put \in 1 .. written

\* What the primary holds ends when it expires.
CurrentEnds ==
    \A k \in CacheKeys : primary[k].put > 0 => ended[k][primary[k].put] = primary[k].expires

\* What a task is about to put into the cache was current when its call had begun.
FilledWasCurrent ==
    \A t \in CacheTasks : call[t].stage = "fill" => call[t].since <= ended[Key(t)][call[t].found.put]

\* What is in the cache was put there no later than now, a timeout after it was current at most.
CachedIsFresh ==
    \A k \in CacheKeys : cache[k].put > 0 =>
        /\ cache[k].expires <= clock + cache_ttl
        /\ cache[k].expires <= ended[k][cache[k].put] + cache_ttl + Duration

\* The cache, and what is about to be put there, is as the primary, unless a race was noted.
CachedIsCurrent ==
    \A k \in CacheKeys : cache[k].put > 0 => cache[k].put = primary[k].put \/ k \in overlapped
FilledIsCurrent ==
    \A t \in CacheTasks, k \in CacheKeys : Filling(call[t], k) =>
        call[t].found.put = primary[k].put \/ k \in overlapped

\* Every race is noted.
RacesNoted ==
    \A t, u \in CacheTasks, k \in CacheKeys :
        Filling(call[t], k) /\ Writing(call[u], k) => k \in overlapped

\* A key that is being written is out of the cache, unless a race brought it back.
WrittenIsOut ==
    \A u \in CacheTasks, k \in CacheKeys : Writing(call[u], k) => cache[k] = NoEntry \/ k \in overlapped

FreshInv == CallsYoung /\ CurrentEnds /\ FilledWasCurrent /\ CachedIsFresh
RaceInv == CachedIsCurrent /\ FilledIsCurrent /\ RacesNoted /\ WrittenIsOut
CacheInv == CallsFormed /\ StoresTyped /\ FreshInv /\ RaceInv

-----------------------------------------------------------------------------
(* Calls *)

LEMMA IdleFormed == WellFormed(Idle) /\ Idle.op = "none" /\ Idle.stage = "none"
<1>1. Idle \in CacheCalls
  BY DEF Idle, NoEntry, CacheCalls, AnyEntry, Ops
<1> QED BY <1>1 DEF Idle, WellFormed, Reads, Writes

\* Without its first, what is left are still the last of the keys.
LEMMA TailIsLast ==
    ASSUME NEW c \in CacheCalls, WellFormed(c), c.left # <<>>
    PROVE  /\ Head(c.left) \in CacheKeys
           /\ Tail(c.left) \in Seq(CacheKeys) /\ Len(Tail(c.left)) = Len(c.left) - 1
           /\ Len(c.keys) - Len(c.left) + 1 \in DOMAIN c.keys
           /\ Head(c.left) = c.keys[Len(c.keys) - Len(c.left) + 1]
           /\ \A i \in 1 .. Len(Tail(c.left)) :
                 Tail(c.left)[i] = c.keys[Len(c.keys) - Len(Tail(c.left)) + i]
<1>1. c.left \in Seq(CacheKeys) /\ c.keys \in Seq(CacheKeys)
  BY DEF CacheCalls
<1>2. /\ Len(c.left) \in Nat /\ Len(c.left) > 0 /\ Len(c.left) <= Len(c.keys) /\ Len(c.keys) \in Nat
      /\ Head(c.left) = c.left[1] /\ Head(c.left) \in CacheKeys
      /\ Tail(c.left) \in Seq(CacheKeys) /\ Len(Tail(c.left)) = Len(c.left) - 1
      /\ \A i \in 1 .. Len(Tail(c.left)) : Tail(c.left)[i] = c.left[i + 1]
  BY <1>1 DEF WellFormed
<1>3. PICK m \in Nat, n \in Nat : m = Len(c.keys) /\ n = Len(c.left)
  BY <1>2
<1>4. /\ n > 0 /\ n <= m /\ Len(Tail(c.left)) = n - 1
      /\ \A i \in 1 .. n : c.left[i] = c.keys[m - n + i]
  BY <1>2, <1>3 DEF WellFormed
<1>5. m - n + 1 \in DOMAIN c.keys /\ 1 \in 1 .. n
  <2>1. m - n + 1 \in 1 .. m /\ 1 \in 1 .. n
    BY <1>4
  <2>2. DOMAIN c.keys = 1 .. m
    BY <1>1, <1>3
  <2> QED BY <2>1, <2>2
<1>6. \A i \in 1 .. n - 1 : c.left[i + 1] = c.keys[m - (n - 1) + i]
  <2> SUFFICES ASSUME NEW i \in 1 .. n - 1 PROVE c.left[i + 1] = c.keys[m - (n - 1) + i]
    OBVIOUS
  <2>1. i + 1 \in 1 .. n /\ m - n + (i + 1) = m - (n - 1) + i
    OBVIOUS
  <2> QED BY <1>4, <2>1
<1>7. Head(c.left) = c.keys[m - n + 1]
  BY <1>2, <1>4, <1>5
<1> QED BY <1>2, <1>3, <1>4, <1>5, <1>6, <1>7

\* A read goes on to its next key or ends.
LEMMA AfterKeyFormed ==
    ASSUME NEW c \in CacheCalls, WellFormed(c), c.op \in Reads
    PROVE  /\ WellFormed(AfterKey(c))
           /\ AfterKey(c).stage # "fill" /\ AfterKey(c).op \notin Writes
           /\ AfterKey(c).op # "none" => AfterKey(c).since = c.since
<1>1. CASE Len(c.left) = 1
  BY <1>1, IdleFormed DEF AfterKey, Writes
<1>2. CASE Len(c.left) # 1
  <2> DEFINE d == [c EXCEPT !.left = Tail(@), !.stage = "cache", !.found = NoEntry]
  <2>1. AfterKey(c) = d
    BY <1>2 DEF AfterKey
  <2>2. /\ Tail(c.left) \in Seq(CacheKeys) /\ Len(Tail(c.left)) = Len(c.left) - 1
        /\ \A i \in 1 .. Len(Tail(c.left)) :
              Tail(c.left)[i] = c.keys[Len(c.keys) - Len(Tail(c.left)) + i]
        /\ Len(c.left) \in Nat /\ Len(c.left) > 1 /\ Len(c.left) <= Len(c.keys)
    <3>1. c.left \in Seq(CacheKeys) /\ c.left # <<>> /\ Len(c.left) <= Len(c.keys)
      BY DEF WellFormed, CacheCalls, Reads, Writes
    <3>2. Len(c.left) \in Nat /\ Len(c.left) > 1
      <4>1. Len(c.left) \in Nat /\ Len(c.left) > 0
        BY <3>1
      <4>2. \A n \in Nat : n > 0 => n = 1 \/ n > 1
        OBVIOUS
      <4> QED BY <1>2, <4>1, <4>2, Zenon
    <3> QED BY <3>1, <3>2, TailIsLast
  <2>3. /\ d \in CacheCalls
        /\ d.op = c.op /\ d.keys = c.keys /\ d.left = Tail(c.left) /\ d.stage = "cache" /\ d.since = c.since
    BY <2>2 DEF CacheCalls, NoEntry, AnyEntry
  <2>4. d.left # <<>>
    <3>1. Len(d.left) > 0
      BY <2>2, <2>3
    <3> QED BY <3>1
  <2> HIDE DEF d
  <2>5. WellFormed(d)
    BY <2>2, <2>3, <2>4 DEF WellFormed, Reads, Writes, CacheCalls
  <2> QED BY <2>1, <2>3, <2>5 DEF Reads, Writes
<1> QED BY <1>1, <1>2

\* A task's next call replaces its last.
LEMMA GoesFormed ==
    ASSUME CallsFormed, NEW t \in CacheTasks, NEW c, WellFormed(c), Goes(t, c)
    PROVE  CallsFormed' /\ call'[t] = c /\ \A u \in CacheTasks \ {t} : call'[u] = call[u]
BY DEF CallsFormed, WellFormed, Goes

-----------------------------------------------------------------------------
(* Races *)

\* A key stays noted while the cache has it or somebody is about to put it there, and is noted
\* when somebody does while somebody else writes it.
LEMMA OverlapsNotes ==
    ASSUME Overlaps, NEW k \in CacheKeys
    PROVE  /\ k \in overlapped /\ cache'[k] # NoEntry => k \in overlapped'
           /\ \A t \in CacheTasks : k \in overlapped /\ Filling(call'[t], k) => k \in overlapped'
           /\ \A t, u \in CacheTasks : Filling(call'[t], k) /\ Writing(call'[u], k) => k \in overlapped'
BY DEF Overlaps

\* It is enough to look at the keys that no race was noted of before the step.
LEMMA RacesAfter ==
    ASSUME Overlaps,
           \A k \in CacheKeys : cache'[k].put > 0 => cache'[k].put = primary'[k].put \/ k \in overlapped,
           \A t \in CacheTasks, k \in CacheKeys : Filling(call'[t], k) =>
               call'[t].found.put = primary'[k].put \/ k \in overlapped,
           \A u \in CacheTasks, k \in CacheKeys : Writing(call'[u], k) =>
               cache'[k] = NoEntry \/ k \in overlapped
    PROVE  RaceInv'
<1>1. CachedIsCurrent'
  <2> SUFFICES ASSUME NEW k \in CacheKeys, cache'[k].put > 0, k \in overlapped PROVE k \in overlapped'
    BY DEF CachedIsCurrent
  <2>1. cache'[k] # NoEntry
    BY DEF NoEntry
  <2> QED BY <2>1, OverlapsNotes
<1>2. FilledIsCurrent'
  BY OverlapsNotes DEF FilledIsCurrent
<1>3. RacesNoted'
  BY OverlapsNotes DEF RacesNoted
<1>4. WrittenIsOut'
  BY OverlapsNotes DEF WrittenIsOut
<1> QED BY <1>1, <1>2, <1>3, <1>4 DEF RaceInv

-----------------------------------------------------------------------------
(* The steps *)

\* At first there is nothing.
LEMMA CacheInitInv == CacheInit => CacheInv
<1> SUFFICES ASSUME CacheInit PROVE CacheInv
  OBVIOUS
<1>1. CallsFormed
  BY IdleFormed DEF CacheInit, CallsFormed, WellFormed
<1>2. Forever \in Nat /\ NoEntry \in AnyEntry /\ NoEntry.put = 0
  BY CacheAssumption DEF Forever, NoEntry, AnyEntry
<1>3. StoresTyped
  BY <1>2, CacheAssumption DEF CacheInit, StoresTyped
<1>4. FreshInv
  BY <1>2, IdleFormed DEF CacheInit, FreshInv, CallsYoung, CurrentEnds, FilledWasCurrent,
                          CachedIsFresh, Idles
<1>5. RaceInv
  BY <1>2, IdleFormed DEF CacheInit, RaceInv, CachedIsCurrent, FilledIsCurrent, RacesNoted,
                          WrittenIsOut, Filling, Writing
<1> QED BY <1>1, <1>3, <1>4, <1>5 DEF CacheInv

\* A step of a task that fills nothing, reads nothing to fill and at most drops something from
\* the cache.
LEMMA CallMoves ==
    ASSUME CacheInv, NEW t \in CacheTasks, NEW c, WellFormed(c), Goes(t, c), c.stage # "fill",
           c.op # "none" => c.since <= clock /\ clock <= c.since + Duration,
           \A k \in CacheKeys : Writing(c, k) => Writing(call[t], k) \/ cache'[k] = NoEntry,
           cache' \in [CacheKeys -> AnyEntry],
           \A k \in CacheKeys : cache'[k] = cache[k] \/ cache'[k] = NoEntry,
           UNCHANGED <<cache_ttl, clock, primary, written, ended>>, Overlaps
    PROVE  CacheInv'
<1>1. CallsFormed' /\ call'[t] = c /\ \A u \in CacheTasks \ {t} : call'[u] = call[u]
  BY GoesFormed DEF CacheInv
<1>2. NoEntry.put = 0
  BY DEF NoEntry
<1>3. StoresTyped'
  <2>1. \A k \in CacheKeys : cache'[k].put <= written
    BY <1>2 DEF CacheInv, StoresTyped
  <2> QED BY <2>1 DEF CacheInv, StoresTyped
<1>4. FreshInv'
  <2>1. CallsYoung' /\ FilledWasCurrent'
    BY <1>1 DEF CacheInv, FreshInv, CallsYoung, FilledWasCurrent, Idles, Key
  <2>2. CurrentEnds' /\ CachedIsFresh'
    BY <1>2 DEF CacheInv, FreshInv, CurrentEnds, CachedIsFresh
  <2> QED BY <2>1, <2>2 DEF FreshInv
<1>5. RaceInv'
  <2>1. \A k \in CacheKeys : cache'[k].put > 0 => cache'[k].put = primary'[k].put \/ k \in overlapped
    BY <1>2 DEF CacheInv, RaceInv, CachedIsCurrent
  <2>2. \A u \in CacheTasks, k \in CacheKeys : Filling(call'[u], k) =>
            call'[u].found.put = primary'[k].put \/ k \in overlapped
    BY <1>1 DEF CacheInv, RaceInv, FilledIsCurrent, Filling
  <2>3. \A u \in CacheTasks, k \in CacheKeys : Writing(call'[u], k) =>
            cache'[k] = NoEntry \/ k \in overlapped
    BY <1>1 DEF CacheInv, RaceInv, WrittenIsOut
  <2> QED BY <2>1, <2>2, <2>3, RacesAfter
<1> QED BY <1>1, <1>3, <1>4, <1>5 DEF CacheInv

\* A call begins with all its keys left.
LEMMA BeginKeepsInv ==
    ASSUME CacheInv, NEW t \in CacheTasks, Begin(t), Overlaps, UNCHANGED <<clock, cache_ttl>>
    PROVE  CacheInv'
<1>1. PICK op \in Reads \cup Writes, keys \in KeyLists :
          Goes(t, [op |-> op, keys |-> keys, left |-> keys, found |-> NoEntry, since |-> clock,
                   stage |-> IF op = "get_with_revision" THEN "primary" ELSE "cache"])
  BY DEF Begin
<1> DEFINE c == [op |-> op, keys |-> keys, left |-> keys, found |-> NoEntry, since |-> clock,
                 stage |-> IF op = "get_with_revision" THEN "primary" ELSE "cache"]
<1>2. keys \in Seq(CacheKeys) /\ keys # <<>> /\ Len(keys) \in Nat
  BY CacheAssumption
<1>3. clock \in Nat /\ cache \in [CacheKeys -> AnyEntry]
  BY DEF CacheInv, StoresTyped
<1>4. c \in CacheCalls /\ c.stage # "fill" /\ c.stage # "none" /\ c.op # "none"
  BY <1>2, <1>3 DEF CacheCalls, Ops, AnyEntry, NoEntry, Reads, Writes
<1>5. WellFormed(c)
  BY <1>2, <1>4 DEF WellFormed, Reads, Writes
<1>6. \A k \in CacheKeys : ~Writing(c, k)
  BY <1>2 DEF Writing
<1>7. c.since <= clock /\ clock <= c.since + Duration
  BY <1>3, CacheAssumption
<1>8. UNCHANGED <<cache, cache_ttl, clock, primary, written, ended>>
  BY DEF Begin
<1> HIDE DEF c
<1> QED BY <1>1, <1>3, <1>4, <1>5, <1>6, <1>7, <1>8, CallMoves DEF c

\* A read leaves the cache or the primary for its next key, or the cache for the primary.
LEMMA ReadGoesOn ==
    ASSUME CacheInv, NEW t \in CacheTasks, call[t].op \in Reads, NEW c,
           c = AfterKey(call[t]) \/ c = [call[t] EXCEPT !.stage = "primary"], Goes(t, c),
           UNCHANGED <<cache_ttl, clock, cache, primary, written, ended>>, Overlaps
    PROVE  CacheInv'
<1>1. call[t] \in CacheCalls /\ WellFormed(call[t])
  BY DEF CacheInv, CallsFormed
<1>2. ~Idles(t) /\ call[t].since <= clock /\ clock <= call[t].since + Duration
  BY DEF CacheInv, FreshInv, CallsYoung, Idles, Reads
<1>3. /\ WellFormed(c) /\ c.stage # "fill" /\ c.op \notin Writes
      /\ c.op # "none" => c.since = call[t].since
  <2>1. CASE c = AfterKey(call[t])
    BY <1>1, <2>1, AfterKeyFormed
  <2>2. CASE c = [call[t] EXCEPT !.stage = "primary"]
    <3>1. /\ c \in CacheCalls /\ c.op = call[t].op /\ c.keys = call[t].keys /\ c.left = call[t].left
          /\ c.stage = "primary" /\ c.since = call[t].since
      BY <1>1, <2>2 DEF CacheCalls
    <3> QED BY <1>1, <3>1 DEF WellFormed, Reads, Writes
  <2> QED BY <2>1, <2>2
<1>4. cache \in [CacheKeys -> AnyEntry]
  BY DEF CacheInv, StoresTyped
<1>5. \A k \in CacheKeys : ~Writing(c, k)
  BY <1>3 DEF Writing
<1> QED BY <1>2, <1>3, <1>4, <1>5, CallMoves
\* What is read from the primary to fill the cache is current.
LEMMA ReadToFill ==
    ASSUME CacheInv, NEW t \in CacheTasks, call[t].op \in Reads, Served(primary[Key(t)]),
           Goes(t, [call[t] EXCEPT !.stage = "fill", !.found = primary[Key(t)]]),
           UNCHANGED <<cache_ttl, clock, cache, primary, written, ended>>, Overlaps
    PROVE  CacheInv'
<1> DEFINE c == [call[t] EXCEPT !.stage = "fill", !.found = primary[Key(t)]]
           k0 == Key(t)
<1>1. call[t] \in CacheCalls /\ WellFormed(call[t])
  BY DEF CacheInv, CallsFormed
<1>2. /\ k0 \in CacheKeys
  BY <1>1, TailIsLast DEF WellFormed, Key
<1>3. /\ primary[k0] \in AnyEntry /\ clock \in Nat /\ written \in Nat
      /\ primary[k0].put \in Nat /\ primary[k0].expires \in Nat
      /\ primary[k0].put > 0 /\ clock < primary[k0].expires /\ primary[k0].put <= written
  <2>1. primary[k0] \in AnyEntry /\ clock \in Nat /\ written \in Nat
    BY <1>2 DEF CacheInv, StoresTyped
  <2>2. primary[k0].put \in Nat /\ primary[k0].expires \in Nat
    BY <2>1 DEF AnyEntry
  <2> QED BY <1>2, <2>1, <2>2 DEF CacheInv, StoresTyped, Served
<1> HIDE DEF k0
<1>4. /\ c \in CacheCalls /\ c.op = call[t].op /\ c.keys = call[t].keys /\ c.left = call[t].left
      /\ c.stage = "fill" /\ c.since = call[t].since /\ c.found = primary[k0]
  BY <1>1, <1>3 DEF CacheCalls, k0
<1> HIDE DEF c
<1>5. WellFormed(c)
  BY <1>1, <1>4 DEF WellFormed, Reads, Writes
<1>6. CallsFormed' /\ call'[t] = c /\ \A u \in CacheTasks \ {t} : call'[u] = call[u]
  BY <1>5, GoesFormed DEF CacheInv, c
<1>7. StoresTyped'
  BY DEF CacheInv, StoresTyped
<1>8. call[t].since <= clock /\ clock <= call[t].since + Duration /\ call[t].since \in Nat
  BY <1>1 DEF CacheInv, FreshInv, CallsYoung, Idles, Reads, CacheCalls
<1>9. FreshInv'
  <2>1. CallsYoung'
    BY <1>3, <1>4, <1>6, <1>8 DEF CacheInv, FreshInv, CallsYoung, Idles
  <2>2. Key(t)' = k0
    BY <1>4, <1>6 DEF Key, k0
  <2>3. call[t].since <= ended[k0][primary[k0].put]
    BY <1>2, <1>3, <1>8 DEF CacheInv, FreshInv, CurrentEnds
  <2>4. FilledWasCurrent'
    BY <1>4, <1>6, <2>2, <2>3 DEF CacheInv, FreshInv, FilledWasCurrent, Key
  <2>5. CurrentEnds' /\ CachedIsFresh'
    BY DEF CacheInv, FreshInv, CurrentEnds, CachedIsFresh
  <2> QED BY <2>1, <2>4, <2>5 DEF FreshInv
<1>10. RaceInv'
  <2>1. \A u \in CacheTasks, k \in CacheKeys : Filling(call'[u], k) =>
            call'[u].found.put = primary'[k].put \/ k \in overlapped
    <3> SUFFICES ASSUME NEW u \in CacheTasks, NEW k \in CacheKeys, Filling(call'[u], k)
                 PROVE  call'[u].found.put = primary[k].put \/ k \in overlapped
      OBVIOUS
    <3>1. CASE u = t
      BY <1>4, <1>6, <3>1 DEF Filling, Key, k0
    <3>2. CASE u # t
      BY <1>6, <3>2 DEF CacheInv, RaceInv, FilledIsCurrent
    <3> QED BY <3>1, <3>2
  <2>2. \A u \in CacheTasks, k \in CacheKeys : Writing(call'[u], k) =>
            cache'[k] = NoEntry \/ k \in overlapped
    <3>1. \A k \in CacheKeys : ~Writing(c, k)
      BY <1>4 DEF Writing, Reads, Writes
    <3> QED BY <1>6, <3>1 DEF CacheInv, RaceInv, WrittenIsOut
  <2> QED BY <2>1, <2>2, RacesAfter DEF CacheInv, RaceInv, CachedIsCurrent
<1> QED BY <1>6, <1>7, <1>9, <1>10 DEF CacheInv

LEMMA ReadCacheKeepsInv ==
    ASSUME CacheInv, NEW t \in CacheTasks, ReadCache(t), Overlaps, UNCHANGED <<clock, cache_ttl>>
    PROVE  CacheInv'
<1>1. call[t].op \in Reads /\ UNCHANGED <<cache, primary, written, ended>>
  BY DEF ReadCache, Reads
<1>2. CASE Served(cache[Key(t)])
  <2>1. Goes(t, AfterKey(call[t]))
    BY <1>2 DEF ReadCache
  <2> QED BY <1>1, <2>1, ReadGoesOn
<1>3. CASE ~Served(cache[Key(t)])
  <2>1. Goes(t, [call[t] EXCEPT !.stage = "primary"])
    BY <1>3 DEF ReadCache
  <2> QED BY <1>1, <2>1, ReadGoesOn
<1> QED BY <1>2, <1>3

LEMMA ReadPrimaryKeepsInv ==
    ASSUME CacheInv, NEW t \in CacheTasks, ReadPrimary(t), Overlaps, UNCHANGED <<clock, cache_ttl>>
    PROVE  CacheInv'
<1>1. call[t].op \in Reads /\ UNCHANGED <<cache, primary, written, ended>>
  BY DEF ReadPrimary
<1>2. CASE Served(primary[Key(t)])
  <2>1. Goes(t, [call[t] EXCEPT !.stage = "fill", !.found = primary[Key(t)]])
    BY <1>2 DEF ReadPrimary
  <2> QED BY <1>1, <1>2, <2>1, ReadToFill
<1>3. CASE ~Served(primary[Key(t)])
  <2>1. Goes(t, AfterKey(call[t]))
    BY <1>3 DEF ReadPrimary
  <2> QED BY <1>1, <2>1, ReadGoesOn
<1> QED BY <1>2, <1>3

\* A call that ends where it is leaves what it did.
LEMMA EndsKeepsInv ==
    ASSUME CacheInv, NEW t \in CacheTasks, Ends(t), Overlaps, UNCHANGED <<clock, cache_ttl>>
    PROVE  CacheInv'
<1>1. Goes(t, Idle) /\ UNCHANGED <<cache, primary, written, ended>>
  BY DEF Ends
<1>2. WellFormed(Idle) /\ Idle.op = "none" /\ Idle.stage # "fill"
  BY IdleFormed
<1>3. \A k \in CacheKeys : ~Writing(Idle, k)
  BY <1>2 DEF Writing, Writes
<1>4. cache \in [CacheKeys -> AnyEntry]
  BY DEF CacheInv, StoresTyped
<1> QED BY <1>1, <1>2, <1>3, <1>4, CallMoves

\* A write drops its keys from the cache one by one.
LEMMA DropCachedKeepsInv ==
    ASSUME CacheInv, NEW t \in CacheTasks, DropCached(t), Overlaps, UNCHANGED <<clock, cache_ttl>>
    PROVE  CacheInv'
<1> DEFINE next == IF Len(call[t].left) = 1 THEN "primary" ELSE "cache"
           c == [call[t] EXCEPT !.left = Tail(@), !.stage = next]
<1>1. /\ call[t].op \in Writes /\ call[t].stage = "cache"
      /\ cache' = [cache EXCEPT ![Key(t)] = NoEntry]
      /\ Goes(t, c) /\ UNCHANGED <<primary, written, ended>>
  BY DEF DropCached
<1>2. call[t] \in CacheCalls /\ WellFormed(call[t]) /\ call[t].left # <<>>
  BY <1>1 DEF CacheInv, CallsFormed, WellFormed
<1>3. /\ Key(t) \in CacheKeys
      /\ Tail(call[t].left) \in Seq(CacheKeys) /\ Len(Tail(call[t].left)) = Len(call[t].left) - 1
      /\ Key(t) = call[t].keys[Len(call[t].keys) - Len(call[t].left) + 1]
      /\ \A i \in 1 .. Len(Tail(call[t].left)) :
            Tail(call[t].left)[i] = call[t].keys[Len(call[t].keys) - Len(Tail(call[t].left)) + i]
  BY <1>2, TailIsLast DEF Key
<1>4. /\ c \in CacheCalls /\ c.op = call[t].op /\ c.keys = call[t].keys
      /\ c.left = Tail(call[t].left) /\ c.stage = next /\ c.since = call[t].since
  BY <1>2, <1>3 DEF CacheCalls
<1> HIDE DEF c
<1>5. PICK m \in Nat, n \in Nat : m = Len(call[t].keys) /\ n = Len(call[t].left)
  BY <1>2 DEF CacheCalls
<1>6. n > 0 /\ n <= m /\ Len(c.left) = n - 1 /\ Len(c.keys) = m
  <2>1. Len(call[t].left) > 0
    BY <1>2 DEF CacheCalls
  <2> QED BY <1>2, <1>3, <1>4, <1>5, <2>1 DEF WellFormed
<1>7. (c.stage = "cache" /\ c.left # <<>>) \/ (c.stage = "primary" /\ c.left = <<>>)
  <2>1. CASE n = 1
    <3>1. c.left \in Seq(CacheKeys) /\ Len(c.left) = 0
      BY <1>3, <1>4, <1>6, <2>1
    <3>2. c.left = <<>>
      BY <3>1
    <3>3. next = "primary"
      BY <1>5, <2>1
    <3> QED BY <1>4, <3>2, <3>3, Zenon
  <2>2. CASE n # 1
    <3>1. n - 1 > 0
      BY <1>6, <2>2
    <3>2. c.left # <<>>
      BY <1>6, <3>1
    <3>3. next = "cache"
      BY <1>5, <2>2
    <3> QED BY <1>4, <3>2, <3>3, Zenon
  <2> QED BY <2>1, <2>2
<1>8. WellFormed(c)
  <2>1. Len(c.left) <= Len(c.keys)
    BY <1>6
  <2> QED BY <1>1, <1>3, <1>4, <1>7, <2>1 DEF WellFormed, Reads, Writes
<1>9. \A k \in CacheKeys : Writing(c, k) => Writing(call[t], k) \/ cache'[k] = NoEntry
  <2> SUFFICES ASSUME NEW k \in CacheKeys, NEW i \in DOMAIN c.keys, c.keys[i] = k, i <= m - (n - 1)
               PROVE  Writing(call[t], k) \/ cache'[k] = NoEntry
    BY <1>6 DEF Writing
  <2>0. i \in Nat
    BY <1>4, <1>2 DEF CacheCalls
  <2>1. CASE i <= m - n
    BY <1>1, <1>4, <1>5, <2>1 DEF Writing
  <2>2. CASE i = m - n + 1
    <3>1. k = Key(t)
      BY <1>3, <1>4, <1>5, <2>2
    <3>2. cache \in [CacheKeys -> AnyEntry]
      BY DEF CacheInv, StoresTyped
    <3> QED BY <1>1, <3>1, <3>2
  <2>3. i <= m - n \/ i = m - n + 1
    BY <1>6, <2>0
  <2> QED BY <2>1, <2>2, <2>3
<1>10. /\ cache' \in [CacheKeys -> AnyEntry]
       /\ \A k \in CacheKeys : cache'[k] = cache[k] \/ cache'[k] = NoEntry
  BY <1>1 DEF CacheInv, StoresTyped, NoEntry, AnyEntry
<1>11. c.since <= clock /\ clock <= c.since + Duration
  BY <1>1, <1>4 DEF CacheInv, FreshInv, CallsYoung, Idles, Writes
<1> QED BY <1>1, <1>4, <1>8, <1>9, <1>10, <1>11, CallMoves
\* A filled entry was current a timeout ago or later, and lives as long as cache_ttl allows.
LEMMA FillCacheKeepsInv ==
    ASSUME CacheInv, NEW t \in CacheTasks, FillCache(t), Overlaps, UNCHANGED <<clock, cache_ttl>>
    PROVE  CacheInv'
<1> DEFINE k0 == Key(t)
           new == [put |-> call[t].found.put, expires |-> clock + cache_ttl]
           c == AfterKey(call[t])
<1>1. /\ call[t].stage = "fill" /\ cache' = [cache EXCEPT ![k0] = new] /\ Goes(t, c)
      /\ UNCHANGED <<primary, written, ended>>
  BY DEF FillCache
<1>2. call[t] \in CacheCalls /\ WellFormed(call[t])
  BY DEF CacheInv, CallsFormed
<1>3. call[t].op \in Reads /\ call[t].left # <<>>
  BY <1>1, <1>2 DEF WellFormed, CacheCalls, Ops, Reads, Writes
<1>4. k0 \in CacheKeys
  BY <1>2, <1>3, TailIsLast DEF Key
<1>5. /\ clock \in Nat /\ cache_ttl \in Nat /\ written \in Nat /\ cache \in [CacheKeys -> AnyEntry]
      /\ ended \in [CacheKeys -> [1 .. MaxCachePuts -> Nat]] /\ written <= MaxCachePuts
  BY CacheAssumption DEF CacheInv, StoresTyped
<1>6. /\ call[t].since \in Nat /\ call[t].since <= clock /\ clock <= call[t].since + Duration
      /\ call[t].found.put \in 1 .. written
      /\ call[t].since <= ended[k0][call[t].found.put]
  BY <1>1, <1>2, <1>3 DEF CacheInv, FreshInv, CallsYoung, FilledWasCurrent, Idles, Reads, CacheCalls
<1>7. /\ WellFormed(c) /\ c.stage # "fill" /\ c.op \notin Writes
      /\ c.op # "none" => c.since = call[t].since
  BY <1>2, <1>3, AfterKeyFormed
<1> HIDE DEF k0, c
<1>8. CallsFormed' /\ call'[t] = c /\ \A u \in CacheTasks \ {t} : call'[u] = call[u]
  BY <1>1, <1>7, GoesFormed DEF CacheInv
<1>9. /\ new \in AnyEntry /\ new.put = call[t].found.put /\ new.expires = clock + cache_ttl
      /\ cache' \in [CacheKeys -> AnyEntry] /\ cache'[k0] = new
      /\ \A k \in CacheKeys \ {k0} : cache'[k] = cache[k]
  <2>1. new \in AnyEntry
    BY <1>5, <1>6 DEF AnyEntry
  <2> QED BY <1>1, <1>4, <1>5, <2>1
<1> HIDE DEF new
<1>10. StoresTyped'
  <2>1. \A k \in CacheKeys : cache'[k].put <= written
    <3>1. new.put <= written
      BY <1>5, <1>6, <1>9
    <3>2. \A k \in CacheKeys : cache[k].put <= written
      BY DEF CacheInv, StoresTyped
    <3> QED BY <1>9, <3>1, <3>2
  <2> QED BY <1>1, <1>9, <2>1 DEF CacheInv, StoresTyped
<1>11. FreshInv'
  <2>1. CallsYoung' /\ FilledWasCurrent'
    BY <1>1, <1>6, <1>7, <1>8 DEF CacheInv, FreshInv, CallsYoung, FilledWasCurrent, Idles, Key
  <2>2. CurrentEnds'
    BY <1>1 DEF CacheInv, FreshInv, CurrentEnds
  <2>3. /\ new.expires <= clock + cache_ttl
        /\ new.expires <= ended[k0][new.put] + cache_ttl + Duration
    <3>1. call[t].found.put \in 1 .. MaxCachePuts
      BY <1>5, <1>6, CacheAssumption
    <3>2. ended[k0][new.put] \in Nat /\ call[t].since <= ended[k0][new.put]
      BY <1>4, <1>5, <1>6, <1>9, <3>1
    <3>3. ASSUME NEW since \in Nat, NEW end \in Nat, since <= end, clock <= since + Duration
          PROVE  clock + cache_ttl <= end + cache_ttl + Duration
      BY <1>5, <3>3, CacheAssumption
    <3>4. clock + cache_ttl <= ended[k0][new.put] + cache_ttl + Duration
      BY <1>6, <3>2, <3>3
    <3>5. clock + cache_ttl <= clock + cache_ttl
      BY <1>5
    <3> QED BY <1>9, <3>4, <3>5
  <2>4. CachedIsFresh'
    BY <1>1, <1>9, <2>3 DEF CacheInv, FreshInv, CachedIsFresh
  <2> QED BY <2>1, <2>2, <2>4 DEF FreshInv
<1>12. RaceInv'
  <2>0. Filling(call[t], k0)
    BY <1>1 DEF Filling, Key, k0
  <2>1. \A k \in CacheKeys : cache'[k].put > 0 => cache'[k].put = primary'[k].put \/ k \in overlapped
    BY <1>1, <1>4, <1>9, <2>0 DEF CacheInv, RaceInv, CachedIsCurrent, FilledIsCurrent
  <2>2. \A u \in CacheTasks, k \in CacheKeys : Filling(call'[u], k) =>
            call'[u].found.put = primary'[k].put \/ k \in overlapped
    BY <1>1, <1>7, <1>8 DEF CacheInv, RaceInv, FilledIsCurrent, Filling
  <2>3. \A u \in CacheTasks, k \in CacheKeys : Writing(call'[u], k) =>
            cache'[k] = NoEntry \/ k \in overlapped
    <3> SUFFICES ASSUME NEW u \in CacheTasks, NEW k \in CacheKeys, Writing(call'[u], k)
                 PROVE  cache'[k] = NoEntry \/ k \in overlapped
      OBVIOUS
    <3>1. u # t /\ Writing(call[u], k)
      BY <1>7, <1>8 DEF Writing
    <3> QED BY <1>4, <1>9, <2>0, <3>1 DEF CacheInv, RaceInv, WrittenIsOut, RacesNoted
  <2> QED BY <2>1, <2>2, <2>3, RacesAfter
<1> QED BY <1>8, <1>10, <1>11, <1>12 DEF CacheInv

\* The primary is written after all the call's keys were dropped from the cache; what its
\* entries replace ends now.
LEMMA ReplacesKeepsInv ==
    ASSUME CacheInv, NEW t \in CacheTasks, call[t].op \in Writes, call[t].stage = "primary",
           NEW entry \in AnyEntry, entry.put = 0 \/ entry.put = written + 1,
           written' \in 0 .. MaxCachePuts, written <= written', entry.put <= written',
           Replaces(t, entry), Overlaps, UNCHANGED <<clock, cache_ttl>>
    PROVE  CacheInv'
<1> DEFINE keys == {call[t].keys[i] : i \in DOMAIN call[t].keys}
           ends(k, n) == IF k \in keys /\ n = entry.put THEN entry.expires
                         ELSE IF k \in keys /\ n = primary[k].put /\ clock < ended[k][n] THEN clock
                         ELSE ended[k][n]
<1>1. /\ primary' = [k \in CacheKeys |-> IF k \in keys THEN entry ELSE primary[k]]
      /\ ended' = [k \in CacheKeys |-> [n \in 1 .. MaxCachePuts |-> ends(k, n)]]
      /\ Goes(t, Idle) /\ UNCHANGED cache
  BY DEF Replaces
<1>2. /\ \A k \in CacheKeys : primary'[k] = IF k \in keys THEN entry ELSE primary[k]
      /\ \A k \in CacheKeys, n \in 1 .. MaxCachePuts : ended'[k][n] = ends(k, n)
  BY <1>1
<1>3. /\ clock \in Nat /\ cache_ttl \in Nat /\ written \in 0 .. MaxCachePuts
      /\ cache \in [CacheKeys -> AnyEntry] /\ primary \in [CacheKeys -> AnyEntry]
      /\ \A k \in CacheKeys : cache[k].put <= written /\ primary[k].put <= written
      /\ ended \in [CacheKeys -> [1 .. MaxCachePuts -> Nat]]
  BY DEF CacheInv, StoresTyped
<1>4. entry.put \in Nat /\ entry.expires \in Nat
  BY DEF AnyEntry
<1>5. \A k \in CacheKeys : cache[k].put \in Nat /\ primary[k].put \in Nat /\ primary[k].expires \in Nat
                           /\ cache[k].expires \in Nat
  BY <1>3 DEF AnyEntry
<1>6. \A k \in CacheKeys, n \in 1 .. MaxCachePuts : ended[k][n] \in Nat /\ ends(k, n) \in Nat
  BY <1>3, <1>4
<1>7. CallsFormed' /\ call'[t] = Idle /\ \A u \in CacheTasks \ {t} : call'[u] = call[u]
  BY <1>1, IdleFormed, GoesFormed DEF CacheInv
<1>8. StoresTyped'
  <2>1. primary' \in [CacheKeys -> AnyEntry]
    BY <1>1, <1>3
  <2>2. ended' \in [CacheKeys -> [1 .. MaxCachePuts -> Nat]]
    BY <1>1, <1>6
  <2>3. \A k \in CacheKeys : cache'[k].put <= written' /\ primary'[k].put <= written'
    BY <1>1, <1>2, <1>3, <1>4, <1>5
  <2> QED BY <1>1, <1>3, <2>1, <2>2, <2>3 DEF StoresTyped
\* An older put ends when it did, or now.
<1>9. \A k \in CacheKeys, n \in 1 .. written : ended'[k][n] = ended[k][n] \/ ended'[k][n] = clock
  <2> SUFFICES ASSUME NEW k \in CacheKeys, NEW n \in 1 .. written
               PROVE  ended'[k][n] = ended[k][n] \/ ended'[k][n] = clock
    OBVIOUS
  <2>1. n \in 1 .. MaxCachePuts /\ n # entry.put
    <3>1. written \in 0 .. MaxCachePuts /\ MaxCachePuts \in Nat
      BY <1>3, CacheAssumption
    <3> QED BY <1>4, <3>1
  <2> QED BY <1>2, <2>1
<1> HIDE DEF keys, ends
<1>10. FreshInv'
  <2>1. CallsYoung'
    BY <1>3, <1>7, IdleFormed DEF CacheInv, FreshInv, CallsYoung, Idles
  <2>2. CurrentEnds'
    <3> SUFFICES ASSUME NEW k \in CacheKeys, primary'[k].put > 0
                 PROVE  ended'[k][primary'[k].put] = primary'[k].expires
      BY DEF CurrentEnds
    <3>1. CASE k \in keys
      <4>1. primary'[k] = entry /\ entry.put \in 1 .. MaxCachePuts
        <5>1. primary'[k] = entry /\ entry.put > 0
          BY <1>2, <3>1
        <5> QED BY <1>4, <5>1, CacheAssumption
      <4>2. ended'[k][entry.put] = entry.expires
        BY <1>2, <3>1, <4>1 DEF ends
      <4> QED BY <4>1, <4>2
    <3>2. CASE k \notin keys
      <4>1. primary'[k] = primary[k] /\ primary[k].put \in 1 .. MaxCachePuts
        <5>1. primary'[k] = primary[k] /\ primary[k].put > 0
          BY <1>2, <3>2
        <5>2. primary[k].put \in Nat /\ primary[k].put <= written
          BY <1>3, <1>5
        <5>3. written \in 0 .. MaxCachePuts /\ MaxCachePuts \in Nat
          BY <1>3, CacheAssumption
        <5> QED BY <5>1, <5>2, <5>3
      <4> QED BY <1>2, <3>2, <4>1 DEF CacheInv, FreshInv, CurrentEnds, ends
    <3> QED BY <3>1, <3>2
  <2>3. FilledWasCurrent'
    <3> SUFFICES ASSUME NEW u \in CacheTasks, call'[u].stage = "fill"
                 PROVE  call'[u].since <= ended'[Key(u)'][call'[u].found.put]
      BY DEF FilledWasCurrent
    <3>1. u # t /\ call'[u] = call[u] /\ Key(u)' = Key(u)
      BY <1>7, IdleFormed DEF Key
    <3>2. /\ call[u].since <= ended[Key(u)][call[u].found.put]
          /\ ~Idles(u) /\ call[u].found.put \in 1 .. written
      BY <3>1 DEF CacheInv, FreshInv, FilledWasCurrent, CallsYoung, CallsFormed, WellFormed, Idles
    <3>3. call[u].since <= clock
      BY <3>2 DEF CacheInv, FreshInv, CallsYoung
    <3>4. Key(u) \in CacheKeys
      <4>1. call[u] \in CacheCalls /\ WellFormed(call[u]) /\ call[u].left # <<>>
        BY <3>1 DEF CacheInv, CallsFormed, WellFormed, CacheCalls, Ops, Reads, Writes
      <4> QED BY <4>1, TailIsLast DEF Key
    <3> QED BY <1>9, <3>1, <3>2, <3>3, <3>4
  <2>4. CachedIsFresh'
    <3> SUFFICES ASSUME NEW k \in CacheKeys, cache[k].put > 0
                 PROVE  /\ cache[k].expires <= clock + cache_ttl
                        /\ cache[k].expires <= ended'[k][cache[k].put] + cache_ttl + Duration
      BY <1>1 DEF CachedIsFresh
    <3>1. /\ cache[k].expires <= clock + cache_ttl
          /\ cache[k].expires <= ended[k][cache[k].put] + cache_ttl + Duration
      BY DEF CacheInv, FreshInv, CachedIsFresh
    <3>2. cache[k].put \in 1 .. written
      BY <1>3, <1>5
    <3>3. ended'[k][cache[k].put] = ended[k][cache[k].put] \/ ended'[k][cache[k].put] = clock
      BY <1>9, <3>2
    <3>4. Duration \in Nat /\ ended[k][cache[k].put] \in Nat /\ cache[k].expires \in Nat
      BY <1>3, <1>5, <3>2, CacheAssumption
    <3>5. ASSUME NEW e \in Nat, NEW old \in Nat, NEW new,
                 e <= clock + cache_ttl, e <= old + cache_ttl + Duration, new = old \/ new = clock
          PROVE  e <= new + cache_ttl + Duration
      BY <1>3, <3>4, <3>5
    <3> QED BY <3>1, <3>3, <3>4, <3>5
  <2> QED BY <2>1, <2>2, <2>3, <2>4 DEF FreshInv
<1>11. \A k \in CacheKeys \cap keys : Writing(call[t], k)
  <2>1. call[t].keys \in Seq(CacheKeys) /\ call[t].left = <<>>
    BY DEF CacheInv, CallsFormed, WellFormed, CacheCalls
  <2>2. \A i \in DOMAIN call[t].keys : i <= Len(call[t].keys) - Len(call[t].left)
    BY <2>1
  <2> QED BY <2>2 DEF Writing, keys
<1>12. RaceInv'
  <2>1. \A k \in CacheKeys : cache'[k].put > 0 => cache'[k].put = primary'[k].put \/ k \in overlapped
    BY <1>1, <1>2, <1>11 DEF CacheInv, RaceInv, CachedIsCurrent, WrittenIsOut, NoEntry
  <2>2. \A u \in CacheTasks, k \in CacheKeys : Filling(call'[u], k) =>
            call'[u].found.put = primary'[k].put \/ k \in overlapped
    <3> SUFFICES ASSUME NEW u \in CacheTasks, NEW k \in CacheKeys, Filling(call'[u], k)
                 PROVE  call'[u].found.put = primary'[k].put \/ k \in overlapped
      OBVIOUS
    <3>1. call'[u] = call[u]
      BY <1>7, IdleFormed DEF Filling
    <3> QED BY <1>2, <1>11, <3>1 DEF CacheInv, RaceInv, FilledIsCurrent, RacesNoted
  <2>3. \A u \in CacheTasks, k \in CacheKeys : Writing(call'[u], k) =>
            cache'[k] = NoEntry \/ k \in overlapped
    <3> SUFFICES ASSUME NEW u \in CacheTasks, NEW k \in CacheKeys, Writing(call'[u], k)
                 PROVE  cache'[k] = NoEntry \/ k \in overlapped
      OBVIOUS
    <3>1. call'[u] = call[u]
      BY <1>7, IdleFormed DEF Writing, Writes
    <3> QED BY <1>1, <3>1 DEF CacheInv, RaceInv, WrittenIsOut
  <2> QED BY <2>1, <2>2, <2>3, RacesAfter
<1> QED BY <1>7, <1>8, <1>10, <1>12 DEF CacheInv

LEMMA WritePrimaryKeepsInv ==
    ASSUME CacheInv, NEW t \in CacheTasks, WritePrimary(t), Overlaps, UNCHANGED <<clock, cache_ttl>>
    PROVE  CacheInv'
<1>1. /\ call[t].op \in Writes /\ call[t].stage = "primary"
      /\ written < MaxCachePuts /\ written' = written + 1
  BY DEF WritePrimary, Writes
<1>2. PICK ttl \in PutTtls : Replaces(t, [put |-> written', expires |-> clock + ttl])
  BY DEF WritePrimary
<1>3. written \in 0 .. MaxCachePuts /\ clock \in Nat /\ ttl \in Nat /\ MaxCachePuts \in Nat
  BY CacheAssumption DEF CacheInv, StoresTyped
<1>4. [put |-> written', expires |-> clock + ttl] \in AnyEntry
  BY <1>1, <1>3 DEF AnyEntry
<1>5. written' \in 0 .. MaxCachePuts /\ written <= written'
  BY <1>1, <1>3
<1> QED BY <1>1, <1>2, <1>3, <1>4, <1>5, ReplacesKeepsInv

LEMMA DeletePrimaryKeepsInv ==
    ASSUME CacheInv, NEW t \in CacheTasks, DeletePrimary(t), Overlaps, UNCHANGED <<clock, cache_ttl>>
    PROVE  CacheInv'
<1>1. call[t].op \in Writes /\ call[t].stage = "primary" /\ Replaces(t, NoEntry) /\ written' = written
  BY DEF DeletePrimary, Writes
<1>2. NoEntry \in AnyEntry /\ NoEntry.put = 0
  BY DEF NoEntry, AnyEntry
<1>3. written \in 0 .. MaxCachePuts /\ MaxCachePuts \in Nat
  BY CacheAssumption DEF CacheInv, StoresTyped
<1> QED BY <1>1, <1>2, <1>3, ReplacesKeepsInv

\* Time passes for no call longer than the timeout.
LEMMA CacheTickKeepsInv == CacheInv /\ CacheTick /\ UNCHANGED cache_ttl => CacheInv'
<1> SUFFICES ASSUME CacheInv, CacheTick, UNCHANGED cache_ttl PROVE CacheInv'
  OBVIOUS
<1>1. /\ clock \in Nat /\ clock' = clock + 1 /\ UNCHANGED <<cache, primary, written, call, ended, overlapped>>
      /\ \A t \in CacheTasks : Idles(t) \/ clock < call[t].since + Duration
  BY DEF CacheInv, StoresTyped, CacheTick
<1>2. CallsFormed' /\ StoresTyped'
  BY <1>1 DEF CacheInv, CallsFormed, StoresTyped
<1>3. RaceInv'
  BY <1>1 DEF CacheInv, RaceInv, CachedIsCurrent, FilledIsCurrent, RacesNoted, WrittenIsOut
<1>4. FreshInv'
  <2>1. CallsYoung'
    <3> SUFFICES ASSUME NEW t \in CacheTasks, ~Idles(t)
                 PROVE  call[t].since <= clock + 1 /\ clock + 1 <= call[t].since + Duration
      BY <1>1 DEF CacheInv, FreshInv, CallsYoung, Idles
    <3>1. call[t].since \in Nat /\ call[t].since <= clock /\ clock < call[t].since + Duration
      BY <1>1 DEF CacheInv, FreshInv, CallsYoung, CallsFormed, CacheCalls
    <3> QED BY <1>1, <3>1, CacheAssumption
  <2>2. CurrentEnds' /\ FilledWasCurrent'
    BY <1>1 DEF CacheInv, FreshInv, CurrentEnds, FilledWasCurrent, Key
  <2>3. CachedIsFresh'
    <3> SUFFICES ASSUME NEW k \in CacheKeys, cache[k].put > 0
                 PROVE  cache[k].expires <= clock + 1 + cache_ttl
      BY <1>1 DEF CacheInv, FreshInv, CachedIsFresh
    <3>1. cache[k].expires \in Nat /\ cache_ttl \in Nat /\ cache[k].expires <= clock + cache_ttl
      BY DEF CacheInv, StoresTyped, FreshInv, CachedIsFresh, AnyEntry
    <3> QED BY <1>1, <3>1
  <2> QED BY <2>1, <2>2, <2>3 DEF FreshInv
<1> QED BY <1>2, <1>3, <1>4 DEF CacheInv

-----------------------------------------------------------------------------

\* CacheInv holds throughout.
LEMMA CacheInvHolds == CacheSpec => []CacheInv
<1>1. CacheInv /\ [CacheNext]_cacheVars => CacheInv'
  <2> SUFFICES ASSUME CacheInv, [CacheNext]_cacheVars PROVE CacheInv'
    OBVIOUS
  <2>1. ASSUME NEW t \in CacheTasks, CacheStep(t), Overlaps, UNCHANGED <<clock, cache_ttl>>
        PROVE  CacheInv'
    BY <2>1, BeginKeepsInv, ReadCacheKeepsInv, ReadPrimaryKeepsInv, FillCacheKeepsInv,
       DropCachedKeepsInv, WritePrimaryKeepsInv, DeletePrimaryKeepsInv, EndsKeepsInv DEF CacheStep
  <2>2. CASE UNCHANGED cacheVars
    BY <2>2 DEF cacheVars, CacheInv, CallsFormed, StoresTyped, FreshInv, CallsYoung, CurrentEnds,
                FilledWasCurrent, CachedIsFresh, RaceInv, CachedIsCurrent, FilledIsCurrent,
                RacesNoted, WrittenIsOut, Idles, Key
  <2> QED BY <2>1, <2>2, CacheTickKeepsInv DEF CacheNext
<1> QED BY CacheInitInv, <1>1, PTL DEF CacheSpec

\* The cache and its calls behave as alone: the other wrappers leave them be.
LEMMA SpecIsCacheSpec == Spec => CacheSpec
<1>1. Init => CacheInit
  BY DEF Init
<1>2. [Next]_vars => [CacheNext]_cacheVars
  BY DEF Next, vars
<1> QED BY <1>1, <1>2, PTL DEF Spec, CacheSpec

\* The cache serves what the primary holds, or held last until it expired, except after a read
\* that filled it overlapped with a write of the key.
THEOREM CacheStaleOnlyByRace == Spec => []StaleOnlyByRace
<1>1. CacheInv => StaleOnlyByRace
  BY DEF CacheInv, RaceInv, CachedIsCurrent, StaleOnlyByRace, Served
<1> QED BY <1>1, SpecIsCacheSpec, CacheInvHolds, PTL

\* Even then it serves nothing later than cache_ttl and the timeout after the primary ceased
\* to hold it.
THEOREM CacheFreshEnough == Spec => []FreshEnough
<1>1. CacheInv => FreshEnough
  <2> SUFFICES ASSUME CacheInv, NEW k \in CacheKeys, Served(cache[k])
               PROVE  clock < ended[k][cache[k].put] + cache_ttl + Duration
    BY DEF FreshEnough
  <2>1. /\ clock \in Nat /\ cache_ttl \in Nat /\ cache[k] \in AnyEntry
        /\ ended \in [CacheKeys -> [1 .. MaxCachePuts -> Nat]] /\ written \in 0 .. MaxCachePuts
        /\ cache[k].put <= written
    BY DEF CacheInv, StoresTyped
  <2>2. cache[k].put > 0 /\ clock < cache[k].expires
    BY DEF Served
  <2>3. cache[k].expires <= ended[k][cache[k].put] + cache_ttl + Duration
    BY <2>2 DEF CacheInv, FreshInv, CachedIsFresh
  <2>4. cache[k].put \in Nat /\ cache[k].expires \in Nat
    BY <2>1 DEF AnyEntry
  <2>5. cache[k].put \in 1 .. MaxCachePuts
    BY <2>1, <2>2, <2>4, CacheAssumption
  <2>6. ended[k][cache[k].put] \in Nat
    BY <2>1, <2>5
  <2>7. ASSUME NEW e \in Nat, NEW end \in Nat, clock < e, e <= end + cache_ttl + Duration
        PROVE  clock < end + cache_ttl + Duration
    BY <2>1, <2>7, CacheAssumption
  <2> QED BY <2>2, <2>3, <2>4, <2>6, <2>7
<1> QED BY <1>1, SpecIsCacheSpec, CacheInvHolds, PTL
=============================================================================
