----------------------------- MODULE ServiceProofs -----------------------------
(***************************************************************************)
(* Theorems about four services of the process: about LRUCache, for every  *)
(* set of keys, every hash, every bound and every time to live; about      *)
(* ApplicationContext for every set of threads and contexts; about         *)
(* ResourceManager for every number of threads, slots and operations; and  *)
(* about SecurityRateLimiter for every set of callers, budget, interval    *)
(* and delay.                                                              *)
(***************************************************************************)
EXTENDS LRUCache, ApplicationContext, ResourceManager, SecurityRateLimiter, FunctionTheorems,
        CommonLemmas

-----------------------------------------------------------------------------
(***************************************************************************)
(* LRUCache                                                                *)
(*                                                                         *)
(* A cache is Good when its dictionary, chains and mapping are linked key  *)
(* by key, and Timed for the keys that the history does not name: each     *)
(* alone has its hash, and every heap entry of that hash is as old as the  *)
(* key's. Removing keys keeps both and shrinks the cache; entering a key   *)
(* keeps both if its place was cleared first, which is why set() works on  *)
(* a cache that has the key in its chain and not in its dictionary (the    *)
(* second argument of Linked).                                             *)
(***************************************************************************)

Caches ==
    [order : Seq(Keys), entry : [Keys -> [size : Nat, age : Nat]],
     chains : [Hashes -> SUBSET Keys], bytes : Int,
     heap : SUBSET (Nat \X Hashes), heapKey : [Hashes -> Keys \cup {NoKey}]]

\* The chains hold the cached keys, and those that are being added.
Linked(c, adding) ==
    \A h \in Hashes :
        /\ c.chains[h] = {k \in Cached(c) \cup adding : Hash[k] = h}
        /\ c.heapKey[h] \in c.chains[h] \cup {NoKey}

\* What the heap knows of the other keys: each alone has its hash, and comes up when it
\* expires.
Due(age) == IF age < TTL THEN age ELSE TTL
Timed(c, k) ==
    /\ c.chains[Hash[k]] = {k} /\ c.heapKey[Hash[k]] = k
    /\ \E e \in c.heap : e[2] = Hash[k]
    /\ \A e \in c.heap : e[2] = Hash[k] => e[1] = Due(c.entry[k].age)

Good(c, adding, shadows) ==
    /\ c \in Caches /\ IsInjective(c.order)
    /\ Linked(c, adding)
    /\ \A k \in Cached(c) \ shadows : Timed(c, k)

Counted(c) == c.bytes = SizeOf(c, Cached(c))

\* No key that the cleanup knows of has expired.
Young(c, shadows) == \A k \in Cached(c) \ shadows : c.entry[k].age < TTL

LRUInv ==
    /\ Good(lru, {}, shadowed)
    /\ Len(lru.order) <= MaxSize
    /\ (~grown => Counted(lru) /\ lru.bytes <= MaxBytes)
    /\ sinceCleanup \in 0..CleanupEvery
    /\ (sinceCleanup = 0 => Young(lru, shadowed))
    /\ grown \in BOOLEAN

-----------------------------------------------------------------------------
(* Orders *)

\* In a finite set of numbers there is an n-th for every n up to their count.
LEMMA NthExists ==
    ASSUME NEW b \in Nat, NEW S, S \subseteq 1..b, NEW n \in 1..Cardinality(S)
    PROVE  \E i \in S : Cardinality({j \in S : j <= i}) = n
<1> DEFINE Fails(m, K, x) == /\ K \subseteq 1..m /\ x \in 1..Cardinality(K)
                             /\ ~ \E i \in K : Cardinality({j \in K : j <= i}) = x
           T == {m \in Nat : \E K, x : Fails(m, K, x)}
<1> SUFFICES ASSUME Fails(b, S, n) PROVE FALSE
  OBVIOUS
<1>1. PICK m \in T : \A y \in T : m <= y
  <2> HIDE DEF Fails
  <2>1. b \in T /\ T \subseteq Nat
    OBVIOUS
  <2>2. QED
    BY <2>1, Least
<1>2. PICK K, x : Fails(m, K, x)
  <2> HIDE DEF Fails
  <2>1. QED
    BY <1>1
<1>3. m \in Nat /\ K \subseteq 1..m /\ x \in 1..Cardinality(K)
  BY <1>1, <1>2
<1>4. IsFiniteSet(K) /\ Cardinality(K) \in Nat
  <2>1. IsFiniteSet(1..m)
    BY <1>3, FS_Interval
  <2>2. QED
    BY <1>3, <2>1, FS_Subset, FS_CardinalityType
<1>5. m # 0
  <2>1. SUFFICES ASSUME m = 0 PROVE FALSE
    OBVIOUS
  <2>2. K = {}
    BY <1>3, <2>1
  <2>3. Cardinality(K) = 0
    BY <2>2, FS_EmptySet
  <2>4. QED
    BY <1>3, <2>3
<1>6. m - 1 \in Nat /\ \A L, y : ~Fails(m - 1, L, y)
  <2> HIDE DEF Fails
  <2>1. m - 1 \in Nat /\ ~(m <= m - 1)
    BY <1>3, <1>5
  <2>2. m - 1 \notin T
    BY <1>1, <2>1
  <2>3. QED
    BY <2>1, <2>2
<1>7. CASE m \notin K
  <2>1. K \subseteq 1..(m - 1)
    BY <1>3, <1>7
  <2>2. Fails(m - 1, K, x)
    BY <1>2, <2>1
  <2>3. QED
    BY <1>6, <2>2
<1>8. CASE m \in K
  <2> DEFINE L == K \ {m}
  <2>1. Cardinality(L) = Cardinality(K) - 1
    BY <1>4, <1>8, FS_RemoveElement
  <2>2. L \subseteq 1..(m - 1)
    BY <1>3
  <2>3. CASE x = Cardinality(K)
    <3>1. {j \in K : j <= m} = K
      <4>1. \A j \in K : j <= m
        BY <1>3
      <4>2. QED
        BY <4>1
    <3>2. QED
      BY <1>2, <1>8, <2>3, <3>1
  <2>4. CASE x # Cardinality(K)
    <3>1. x \in 1..Cardinality(L)
      BY <1>3, <1>4, <2>1, <2>4
    <3>2. ~Fails(m - 1, L, x)
      BY <1>6
    <3>3. PICK i \in L : Cardinality({j \in L : j <= i}) = x
      BY <2>2, <3>1, <3>2
    <3>4. {j \in L : j <= i} = {j \in K : j <= i}
      BY <1>3, <2>2
    <3>5. QED
      BY <1>2, <3>3, <3>4
  <2>5. QED
    BY <2>3, <2>4
<1>9. QED
  BY <1>7, <1>8

\* And there is but one.
LEMMA NthIsOne ==
    ASSUME NEW b \in Nat, NEW S, S \subseteq 1..b, NEW i \in S, NEW k \in S,
           Cardinality({j \in S : j <= i}) = Cardinality({j \in S : j <= k})
    PROVE  i = k
<1> DEFINE Upto(x) == {j \in S : j <= x}
<1>1. IsFiniteSet(S)
  <2>1. IsFiniteSet(1..b)
    BY FS_Interval
  <2>2. QED
    BY <2>1, FS_Subset
<1>2. ASSUME NEW x \in S, NEW y \in S, x <= y, Cardinality(Upto(x)) = Cardinality(Upto(y))
      PROVE  x = y
  <2>1. Upto(x) \subseteq Upto(y) /\ IsFiniteSet(Upto(y))
    <3>1. Upto(y) \subseteq S
      OBVIOUS
    <3>2. IsFiniteSet(Upto(y))
      BY <1>1, <3>1, FS_Subset
    <3>3. ASSUME NEW j \in S, j <= x PROVE j <= y
      <4>1. j \in Int /\ x \in Int /\ y \in Int
        OBVIOUS
      <4>2. QED
        BY <1>2, <3>3, <4>1
    <3>4. QED
      BY <3>2, <3>3
  <2>2. Upto(x) = Upto(y)
    BY <1>2, <2>1, FS_Subset
  <2>3. y \in Upto(x)
    BY <2>2
  <2>4. QED
    BY <1>2, <2>3
<1>3. i <= k \/ k <= i
  OBVIOUS
<1>4. QED
  BY <1>2, <1>3

\* Taking keys out of an order that has each once leaves the others, once each.
LEMMA WithoutKeeps ==
    ASSUME NEW S, NEW s \in Seq(S), IsInjective(s), NEW ks
    PROVE  /\ Without(s, ks) \in Seq(S) /\ IsInjective(Without(s, ks))
           /\ ToSet(Without(s, ks)) = ToSet(s) \ ks
           /\ Len(Without(s, ks)) <= Len(s)
           /\ ToSet(s) \cap ks # {} => Len(Without(s, ks)) < Len(s)
<1> DEFINE kept == {i \in DOMAIN s : s[i] \notin ks}
           Nth(n) == CHOOSE i \in kept : Cardinality({j \in kept : j <= i}) = n
           r == Without(s, ks)
           m == Cardinality(kept)
<1>1. DOMAIN s = 1..Len(s) /\ Len(s) \in Nat
  OBVIOUS
<1>2. kept \subseteq 1..Len(s)
  BY <1>1
<1>3. IsFiniteSet(kept) /\ m \in Nat /\ m <= Len(s) /\ (m = Len(s) => kept = 1..Len(s))
  <2>1. IsFiniteSet(1..Len(s)) /\ Cardinality(1..Len(s)) = Len(s)
    BY <1>1, FS_Interval
  <2> HIDE DEF kept
  <2>2. QED
    BY <1>2, <2>1, FS_Subset, FS_CardinalityType
<1>4. r = [n \in 1..m |-> s[Nth(n)]]
  BY DEF Without
<1>5. ASSUME NEW n \in 1..m
      PROVE  /\ Nth(n) \in kept /\ Cardinality({j \in kept : j <= Nth(n)}) = n
             /\ r[n] = s[Nth(n)]
  <2>1. \E i \in kept : Cardinality({j \in kept : j <= i}) = n
    <3> HIDE DEF kept
    <3>1. QED
      BY <1>1, <1>2, NthExists
  <2> HIDE DEF r, kept
  <2>2. QED
    BY <1>4, <2>1
<1>6. ASSUME NEW i \in kept PROVE \E n \in 1..m : r[n] = s[i]
  <2> DEFINE U == {j \in kept : j <= i}
             n == Cardinality(U)
  <2>1. U \subseteq kept /\ i \in U
    BY <1>2
  <2>2. n \in Nat /\ n <= m /\ n # 0
    <3> HIDE DEF kept, U
    <3>1. QED
      BY <1>3, <2>1, FS_Subset, FS_CardinalityType, FS_EmptySet
  <2>3. n \in 1..m
    BY <1>3, <2>2
  <2>4. Nth(n) = i
    <3>1. Nth(n) \in kept /\ Cardinality({j \in kept : j <= Nth(n)}) = Cardinality({j \in kept : j <= i})
      BY <1>5, <2>3
    <3> HIDE DEF kept, Nth
    <3>2. QED
      BY <1>1, <1>2, <3>1, NthIsOne
  <2>5. QED
    BY <1>5, <2>3, <2>4
<1> HIDE DEF Nth, m
<1>7. r \in Seq(S) /\ Len(r) = m /\ DOMAIN r = 1..m
  <2>1. \A n \in 1..m : s[Nth(n)] \in S
    <3>1. \A i \in kept : s[i] \in S
      BY <1>2, ElementOfSeq
    <3> HIDE DEF kept
    <3>2. QED
      BY <1>5, <3>1
  <2>2. r \in [1..m -> S]
    BY <1>4, <2>1
  <2> HIDE DEF r
  <2>3. QED
    BY <1>3, <2>2, SeqDef
<1>8. IsInjective(r)
  <2>1. ASSUME NEW p \in 1..m, NEW q \in 1..m, r[p] = r[q] PROVE p = q
    <3>1. Nth(p) \in DOMAIN s /\ Nth(q) \in DOMAIN s /\ s[Nth(p)] = s[Nth(q)]
      BY <1>5, <2>1
    <3>2. Nth(p) = Nth(q)
      BY <3>1 DEF IsInjective
    <3>3. QED
      BY <1>5, <3>2
  <2> HIDE DEF r
  <2>2. QED
    BY <1>7, <2>1 DEF IsInjective
<1>9. ToSet(r) = ToSet(s) \ ks
  <2>1. ASSUME NEW x \in ToSet(r) PROVE x \in ToSet(s) \ ks
    <3>1. PICK n \in 1..m : x = r[n]
      BY <1>7 DEF ToSet
    <3>2. QED
      BY <1>5, <3>1 DEF ToSet
  <2>2. ASSUME NEW x \in ToSet(s) \ ks PROVE x \in ToSet(r)
    <3>1. PICK i \in DOMAIN s : x = s[i]
      BY DEF ToSet
    <3>2. i \in kept
      BY <3>1
    <3>3. PICK n \in 1..m : r[n] = s[i]
      BY <1>6, <3>2
    <3> HIDE DEF r
    <3>4. QED
      BY <1>7, <3>1, <3>3 DEF ToSet
  <2> HIDE DEF r
  <2>3. QED
    BY <2>1, <2>2
<1>10. ASSUME ToSet(s) \cap ks # {} PROVE m # Len(s)
  <2>1. PICK i \in DOMAIN s : s[i] \in ks
    BY <1>10 DEF ToSet
  <2>2. i \notin kept /\ i \in 1..Len(s)
    BY <1>1, <2>1
  <2>3. QED
    BY <1>3, <2>2
<1> HIDE DEF r, kept
<1>11. Len(r) <= Len(s) /\ (ToSet(s) \cap ks # {} => Len(r) < Len(s))
  <2>1. Len(r) = m /\ m \in Nat /\ Len(s) \in Nat /\ m <= Len(s)
    BY <1>1, <1>3, <1>7
  <2>2. QED
    BY <1>10, <2>1
<1>12. QED
  BY <1>7, <1>8, <1>9, <1>11 DEF r

-----------------------------------------------------------------------------
(* Bytes *)

\* Finitely many blocks are finitely many places.
LEMMA PlacesFinite ==
    ASSUME NEW S, IsFiniteSet(S), NEW size, \A x \in S : size[x] \in Nat
    PROVE  IsFiniteSet(Places(S, size)) /\ Cardinality(Places(S, size)) \in Nat
<1> DEFINE blocks == {{x} \X (1..size[x]) : x \in S}
           f == [x \in S |-> {x} \X (1..size[x])]
<1>1. f \in Surjection(S, blocks)
  BY DEF Surjection
<1>2. IsFiniteSet(blocks)
  <2> HIDE DEF f, blocks
  <2>1. QED
    BY <1>1, FS_Surjection
<1>3. ASSUME NEW T \in blocks PROVE IsFiniteSet(T)
  <2>1. PICK x \in S : T = {x} \X (1..size[x])
    OBVIOUS
  <2>2. QED
    BY <2>1, BlockSize
<1>4. IsFiniteSet(UNION blocks)
  <2> HIDE DEF blocks
  <2>1. QED
    BY <1>2, <1>3, FS_UNION
<1>5. Places(S, size) = UNION blocks
  BY DEF Places
<1> HIDE DEF blocks
<1>6. QED
  BY <1>4, <1>5, FS_CardinalityType

\* The places of some keys are those of all less those of the rest.
LEMMA PlacesMinus ==
    ASSUME NEW S, IsFiniteSet(S), NEW T, T \subseteq S, NEW size, \A x \in S : size[x] \in Nat
    PROVE  Cardinality(Places(S \ T, size))
              = Cardinality(Places(S, size)) - Cardinality(Places(T, size))
<1> DEFINE a == Places(S \ T, size)
           b == Places(T, size)
<1>1. IsFiniteSet(a) /\ Cardinality(a) \in Nat /\ IsFiniteSet(b) /\ Cardinality(b) \in Nat
  <2>1. IsFiniteSet(S \ T) /\ IsFiniteSet(T)
    BY FS_Subset
  <2>2. QED
    BY <2>1, PlacesFinite
<1>2. \A U, p : p \in Places(U, size) <=> \E y \in U : p \in {y} \X (1..size[y])
  BY DEF Places
<1>3. a \cup b = Places(S, size)
  BY <1>2
<1>4. a \cap b = {}
  <2>1. ASSUME NEW p, p \in a, p \in b PROVE FALSE
    <3>1. PICK y \in S \ T : p \in {y} \X (1..size[y])
      BY <1>2, <2>1
    <3>2. PICK z \in T : p \in {z} \X (1..size[z])
      BY <1>2, <2>1
    <3>3. p[1] = y /\ p[1] = z
      BY <3>1, <3>2
    <3>4. QED
      BY <3>3
  <2>2. QED
    BY <2>1
<1> HIDE DEF a, b
<1>5. Cardinality(a \cup b) = Cardinality(a) + Cardinality(b) - Cardinality(a \cap b)
  BY <1>1, FS_Union
<1>6. Cardinality(a \cap b) = 0
  BY <1>4, FS_EmptySet
<1>7. Cardinality(a) + Cardinality(b) - 0 = Cardinality(a) + Cardinality(b)
  BY <1>1
<1>8. Cardinality(Places(S, size)) = Cardinality(a) + Cardinality(b)
  BY <1>3, <1>5, <1>6, <1>7
<1>9. (Cardinality(a) + Cardinality(b)) - Cardinality(b) = Cardinality(a)
  BY <1>1
<1>10. Cardinality(a) = Cardinality(Places(S, size)) - Cardinality(b)
  BY <1>8, <1>9
<1>11. QED
  BY <1>10 DEF a, b

SizesIn(c) == [k \in Keys |-> c.entry[k].size]

\* The size of keys is the number of their places.
LEMMA SizeIs ==
    ASSUME NEW c \in Caches, NEW ks, ks \subseteq Keys
    PROVE  /\ IsFiniteSet(ks)
           /\ SizesIn(c) \in [Keys -> Nat]
           /\ SizeOf(c, ks) = Cardinality(Places(ks, SizesIn(c)))
           /\ SizeOf(c, ks) \in Nat
<1>1. SizesIn(c) \in [Keys -> Nat]
  BY DEF SizesIn, Caches
<1>2. IsFiniteSet(ks)
  BY LRUAssumption, FS_Subset
<1>3. UNION {{k} \X (1..c.entry[k].size) : k \in ks} = Places(ks, SizesIn(c))
  <2>1. \A k \in ks : SizesIn(c)[k] = c.entry[k].size
    BY DEF SizesIn
  <2>2. QED
    BY <2>1 DEF Places
<1>4. Cardinality(Places(ks, SizesIn(c))) \in Nat
  <2>1. \A k \in ks : SizesIn(c)[k] \in Nat
    BY <1>1
  <2>2. QED
    BY <1>2, <2>1, PlacesFinite
<1>5. QED
  BY <1>1, <1>2, <1>3, <1>4 DEF SizeOf

\* Sizes add up: that of a set without some keys,
LEMMA SizeMinus ==
    ASSUME NEW c \in Caches, NEW ks, ks \subseteq Keys, NEW gone, gone \subseteq ks
    PROVE  SizeOf(c, ks \ gone) = SizeOf(c, ks) - SizeOf(c, gone)
<1>1. \A k \in ks : SizesIn(c)[k] \in Nat
  BY SizeIs
<1>2. IsFiniteSet(ks)
  BY SizeIs
<1>3. Cardinality(Places(ks \ gone, SizesIn(c)))
         = Cardinality(Places(ks, SizesIn(c))) - Cardinality(Places(gone, SizesIn(c)))
  BY <1>1, <1>2, PlacesMinus
<1>4. QED
  BY <1>3, SizeIs

\* that of the same keys in two caches,
LEMMA SizeSame ==
    ASSUME NEW c, NEW d, NEW ks, \A k \in ks : c.entry[k].size = d.entry[k].size
    PROVE  SizeOf(c, ks) = SizeOf(d, ks)
<1>1. {{k} \X (1..c.entry[k].size) : k \in ks} = {{k} \X (1..d.entry[k].size) : k \in ks}
  OBVIOUS
<1>2. QED
  BY <1>1 DEF SizeOf

\* and that of a set with one more key.
LEMMA SizeMore ==
    ASSUME NEW c \in Caches, NEW d \in Caches, NEW ks, ks \subseteq Keys, NEW k \in Keys \ ks,
           \A j \in ks : c.entry[j] = d.entry[j]
    PROVE  SizeOf(d, ks \cup {k}) = SizeOf(c, ks) + d.entry[k].size
<1> DEFINE all == ks \cup {k}
<1>1. all \subseteq Keys /\ {k} \subseteq all /\ all \ {k} = ks
  OBVIOUS
<1>2. SizeOf(d, {k}) = d.entry[k].size
  <2>1. d.entry[k].size \in Nat
    BY DEF Caches
  <2>2. UNION {{j} \X (1..d.entry[j].size) : j \in {k}} = {k} \X (1..d.entry[k].size)
    OBVIOUS
  <2>3. SizeOf(d, {k}) = Cardinality({k} \X (1..d.entry[k].size))
    BY <2>2 DEF SizeOf
  <2>4. QED
    BY <2>1, <2>3, BlockSize
<1> HIDE DEF all
<1>3. SizeOf(d, all \ {k}) = SizeOf(d, all) - SizeOf(d, {k})
  BY <1>1, SizeMinus
<1>4. SizeOf(d, all) \in Nat /\ SizeOf(d, ks) \in Nat /\ d.entry[k].size \in Nat
  BY <1>1, SizeIs DEF Caches
<1>5. SizeOf(d, ks) = SizeOf(c, ks)
  BY SizeSame
<1>6. SizeOf(d, all) = SizeOf(c, ks) + d.entry[k].size
  <2>1. SizeOf(d, ks) = SizeOf(d, all) - d.entry[k].size
    BY <1>1, <1>2, <1>3
  <2>2. SizeOf(d, all) = SizeOf(d, ks) + d.entry[k].size
    BY <1>4, <2>1
  <2>3. QED
    BY <1>5, <2>2
<1>7. QED
  BY <1>6 DEF all

-----------------------------------------------------------------------------
(* What removes keys *)

\* d is c without the keys in gone, which the chains may still have.
Trimmed(d, c, gone) ==
    /\ d \in Caches /\ IsInjective(d.order)
    /\ Cached(d) = Cached(c) \ gone
    /\ Len(d.order) <= Len(c.order)
    /\ (Cached(c) \cap gone # {} => Len(d.order) < Len(c.order))
    /\ \A k \in Keys \ gone : d.entry[k] = c.entry[k]
    /\ d.bytes = c.bytes - SizeOf(c, gone)
    /\ d.heap = c.heap
    /\ \A h \in Hashes : d.heapKey[h] = IF h \in {Hash[k] : k \in gone} THEN NoKey ELSE c.heapKey[h]

\* Unlink() removes keys and leaves the chains as they are.
LEMMA UnlinkTrims ==
    ASSUME NEW c \in Caches, IsInjective(c.order), NEW gone, gone \subseteq Keys
    PROVE  Trimmed(Unlink(c, gone), c, gone) /\ Unlink(c, gone).chains = c.chains
<1> DEFINE d == Unlink(c, gone)
           order == Without(c.order, gone)
           entry == [k \in Keys |-> IF k \in gone THEN NoEntry ELSE c.entry[k]]
           heapKey == [h \in Hashes |-> IF h \in {Hash[k] : k \in gone} THEN NoKey ELSE c.heapKey[h]]
           bytes == c.bytes - SizeOf(c, gone)
<1>1. /\ c.order \in Seq(Keys) /\ c.entry \in [Keys -> [size : Nat, age : Nat]]
      /\ c.chains \in [Hashes -> SUBSET Keys] /\ c.bytes \in Int
      /\ c.heap \subseteq Nat \X Hashes /\ c.heapKey \in [Hashes -> Keys \cup {NoKey}]
      /\ c = [order |-> c.order, entry |-> c.entry, chains |-> c.chains,
              bytes |-> c.bytes, heap |-> c.heap, heapKey |-> c.heapKey]
  BY DEF Caches
<1>2. /\ d = [order |-> order, entry |-> entry, chains |-> c.chains,
              bytes |-> bytes, heap |-> c.heap, heapKey |-> heapKey]
  <2>1. d = [c EXCEPT !.order = order, !.entry = entry, !.bytes = bytes, !.heapKey = heapKey]
    BY DEF Unlink
  <2> HIDE DEF d, order, entry, bytes, heapKey
  <2> DEFINE c1 == [c EXCEPT !.order = order]
             c2 == [c1 EXCEPT !.entry = entry]
             c3 == [c2 EXCEPT !.bytes = bytes]
  <2>2. d = [c3 EXCEPT !.heapKey = heapKey]
    BY <2>1
  <2>3. c1 = [order |-> order, entry |-> c.entry, chains |-> c.chains,
              bytes |-> c.bytes, heap |-> c.heap, heapKey |-> c.heapKey]
    <3>1. PICK o, e, ch, b, p, k : c = [order |-> o, entry |-> e, chains |-> ch,
                                        bytes |-> b, heap |-> p, heapKey |-> k]
      BY <1>1
    <3>2. /\ c.entry = e /\ c.chains = ch /\ c.bytes = b /\ c.heap = p /\ c.heapKey = k
          /\ c1 = [order |-> order, entry |-> e, chains |-> ch,
                   bytes |-> b, heap |-> p, heapKey |-> k]
      BY <3>1
    <3> HIDE DEF c1
    <3>3. QED
      BY <3>2
  <2> HIDE DEF c1
  <2>4. c2 = [order |-> order, entry |-> entry, chains |-> c.chains,
              bytes |-> c.bytes, heap |-> c.heap, heapKey |-> c.heapKey]
    BY <2>3
  <2> HIDE DEF c2
  <2>5. c3 = [order |-> order, entry |-> entry, chains |-> c.chains,
              bytes |-> bytes, heap |-> c.heap, heapKey |-> c.heapKey]
    BY <2>4
  <2> HIDE DEF c3
  <2>6. QED
    BY <2>2, <2>5
<1>3. /\ order \in Seq(Keys) /\ IsInjective(order) /\ ToSet(order) = Cached(c) \ gone
      /\ Len(order) <= Len(c.order)
      /\ (Cached(c) \cap gone # {} => Len(order) < Len(c.order))
  BY <1>1, WithoutKeeps DEF Cached
<1>4. bytes \in Int
  <2>1. SizeOf(c, gone) \in Nat
    BY SizeIs
  <2>2. QED
    BY <1>1, <2>1
<1>5. entry \in [Keys -> [size : Nat, age : Nat]] /\ heapKey \in [Hashes -> Keys \cup {NoKey}]
  BY <1>1 DEF NoEntry
<1>6. \A k \in Keys \ gone : entry[k] = c.entry[k]
  OBVIOUS
<1>7. \A h \in Hashes : heapKey[h] = IF h \in {Hash[k] : k \in gone} THEN NoKey ELSE c.heapKey[h]
  OBVIOUS
<1> HIDE DEF order, entry, heapKey
<1>8. d \in Caches
  <2> HIDE DEF d, bytes
  <2>1. QED
    BY <1>1, <1>2, <1>3, <1>4, <1>5 DEF Caches
<1> HIDE DEF d
<1>9. Trimmed(d, c, gone) /\ d.chains = c.chains
  BY <1>2, <1>3, <1>6, <1>7, <1>8 DEF Trimmed, Cached
<1>10. QED
  BY <1>9 DEF d

\* Deleted() removes the cached ones of the keys from the chains as well.
LEMMA DeletedTrims ==
    ASSUME NEW c \in Caches, IsInjective(c.order), NEW ks
    PROVE  /\ Trimmed(Deleted(c, ks), c, ks \cap Cached(c))
           /\ \A h \in Hashes : Deleted(c, ks).chains[h] = c.chains[h] \ (ks \cap Cached(c))
<1> DEFINE gone == ks \cap Cached(c)
           u == Unlink(c, gone)
           chains == [h \in Hashes |-> u.chains[h] \ gone]
           d == Deleted(c, ks)
<1>1. gone \subseteq Keys
  BY DEF Caches, Cached, ToSet
<1>2. Trimmed(u, c, gone) /\ u.chains = c.chains
  BY <1>1, UnlinkTrims
<1>3. d = [u EXCEPT !.chains = chains]
  BY DEF Deleted
<1> HIDE DEF gone, u, d
<1>4. /\ u = [order |-> u.order, entry |-> u.entry, chains |-> u.chains,
              bytes |-> u.bytes, heap |-> u.heap, heapKey |-> u.heapKey]
      /\ u \in Caches /\ chains \in [Hashes -> SUBSET Keys]
  BY <1>2 DEF Trimmed, Caches
<1>5. d = [order |-> u.order, entry |-> u.entry, chains |-> chains,
           bytes |-> u.bytes, heap |-> u.heap, heapKey |-> u.heapKey]
  BY <1>3, <1>4
<1>6. d \in Caches
  BY <1>4, <1>5 DEF Caches
<1>7. Trimmed(d, c, gone)
  BY <1>2, <1>5, <1>6 DEF Trimmed, Cached
<1>8. \A h \in Hashes : d.chains[h] = c.chains[h] \ gone
  BY <1>2, <1>5
<1>9. QED
  BY <1>7, <1>8 DEF d, gone

\* What a cache keeps while keys are removed.
Shrunk(d, c) ==
    /\ Cached(d) \subseteq Cached(c) /\ Len(d.order) <= Len(c.order) /\ d.bytes <= c.bytes
    /\ \A k \in Cached(d) : d.entry[k] = c.entry[k]
    /\ d.heap = c.heap
    /\ \A h \in Hashes : d.chains[h] \subseteq c.chains[h]
    /\ (Counted(c) => Counted(d))

\* The types that are used most.
LEMMA CachedKeys ==
    ASSUME NEW c \in Caches
    PROVE  Cached(c) \subseteq Keys /\ c.order \in Seq(Keys) /\ c.bytes \in Int /\ Len(c.order) \in Nat
  BY DEF Caches, Cached, ToSet

LEMMA HashesAre == ASSUME NEW k \in Keys PROVE Hash[k] \in Hashes
  BY DEF Hashes

\* A cache without some of its keys is smaller, and its count stays right.
LEMMA TrimmedShrinks ==
    ASSUME NEW c \in Caches, NEW d, NEW gone, gone \subseteq Cached(c), Trimmed(d, c, gone),
           \A h \in Hashes : d.chains[h] \subseteq c.chains[h]
    PROVE  Shrunk(d, c)
<1>1. /\ d \in Caches /\ Cached(d) = Cached(c) \ gone /\ d.bytes = c.bytes - SizeOf(c, gone)
      /\ \A k \in Keys \ gone : d.entry[k] = c.entry[k]
      /\ Len(d.order) <= Len(c.order) /\ d.heap = c.heap
  BY DEF Trimmed
<1>2. gone \subseteq Keys /\ Cached(c) \subseteq Keys /\ c.bytes \in Int
  BY CachedKeys
<1>3. SizeOf(c, gone) \in Nat
  BY <1>2, SizeIs
<1>4. d.bytes <= c.bytes
  BY <1>1, <1>2, <1>3
<1>5. \A k \in Cached(d) : d.entry[k] = c.entry[k]
  BY <1>1, <1>2
<1>6. ASSUME Counted(c) PROVE Counted(d)
  <2>1. SizeOf(c, Cached(c) \ gone) = SizeOf(c, Cached(c)) - SizeOf(c, gone)
    BY <1>2, SizeMinus
  <2>2. SizeOf(d, Cached(d)) = SizeOf(c, Cached(d))
    BY <1>5, SizeSame
  <2>3. QED
    BY <1>1, <1>6, <2>1, <2>2 DEF Counted
<1>7. QED
  BY <1>1, <1>4, <1>5, <1>6 DEF Shrunk

\* Removing keys keeps a cache good, if the chains lose those that are not coming back.
LEMMA TrimmedGood ==
    ASSUME NEW c, NEW adding, adding \subseteq Keys, NEW shadows, Good(c, adding, shadows),
           NEW gone, gone \subseteq Cached(c), NEW d, Trimmed(d, c, gone),
           \A h \in Hashes : d.chains[h] = c.chains[h] \ (gone \ adding)
    PROVE  Good(d, adding, shadows)
<1>1. /\ c \in Caches /\ Linked(c, adding) /\ \A k \in Cached(c) \ shadows : Timed(c, k)
  BY DEF Good
<1>2. /\ d \in Caches /\ IsInjective(d.order) /\ Cached(d) = Cached(c) \ gone /\ d.heap = c.heap
      /\ \A k \in Keys \ gone : d.entry[k] = c.entry[k]
      /\ \A h \in Hashes : d.heapKey[h] = IF h \in {Hash[k] : k \in gone} THEN NoKey ELSE c.heapKey[h]
  BY DEF Trimmed
<1>3. Cached(c) \subseteq Keys
  BY <1>1, CachedKeys
<1>4. ASSUME NEW h \in Hashes
      PROVE  /\ d.chains[h] = {k \in Cached(d) \cup adding : Hash[k] = h}
             /\ d.heapKey[h] \in d.chains[h] \cup {NoKey}
  <2>1. /\ c.chains[h] = {k \in Cached(c) \cup adding : Hash[k] = h}
        /\ c.heapKey[h] \in c.chains[h] \cup {NoKey}
    BY <1>1 DEF Linked
  <2>2. d.chains[h] = {k \in Cached(d) \cup adding : Hash[k] = h}
    BY <1>2, <2>1
  <2>3. d.heapKey[h] \in d.chains[h] \cup {NoKey}
    <3>1. CASE h \in {Hash[k] : k \in gone}
      BY <1>2, <3>1
    <3>2. CASE h \notin {Hash[k] : k \in gone}
      <4>1. d.heapKey[h] = c.heapKey[h]
        BY <1>2, <3>2
      <4>2. CASE c.heapKey[h] \in c.chains[h]
        <5>1. Hash[c.heapKey[h]] = h
          BY <2>1, <4>2
        <5>2. c.heapKey[h] \notin gone
          BY <3>2, <5>1
        <5>3. QED
          BY <4>1, <4>2, <5>2
      <4>3. CASE c.heapKey[h] = NoKey
        BY <4>1, <4>3
      <4>4. QED
        BY <2>1, <4>2, <4>3
    <3>3. QED
      BY <3>1, <3>2
  <2>4. QED
    BY <2>2, <2>3
<1>5. ASSUME NEW k \in Cached(d) \ shadows PROVE Timed(d, k)
  <2>1. k \in Cached(c) \ shadows /\ k \in Keys \ gone /\ Hash[k] \in Hashes
    BY <1>2, <1>3, HashesAre
  <2>2. Timed(c, k) /\ d.entry[k] = c.entry[k]
    BY <1>1, <1>2, <2>1
  <2>3. Hash[k] \notin {Hash[j] : j \in gone}
    <3>1. ASSUME NEW j \in gone, Hash[k] = Hash[j] PROVE FALSE
      <4>1. j \in c.chains[Hash[k]]
        BY <1>1, <2>1, <3>1 DEF Linked
      <4>2. j = k
        BY <2>2, <4>1 DEF Timed
      <4>3. QED
        BY <2>1, <4>2
    <3>2. QED
      BY <3>1
  <2>4. d.heapKey[Hash[k]] = c.heapKey[Hash[k]]
    BY <1>2, <2>1, <2>3
  <2>5. d.chains[Hash[k]] = c.chains[Hash[k]]
    BY <2>1, <2>2 DEF Timed
  <2>6. QED
    BY <1>2, <2>2, <2>4, <2>5 DEF Timed
<1>6. QED
  BY <1>2, <1>4, <1>5 DEF Good, Linked

\* So does delete(), of any keys.
LEMMA DeletedGood ==
    ASSUME NEW c, NEW adding, adding \subseteq Keys, NEW shadows, Good(c, adding, shadows),
           NEW ks, ks \cap Cached(c) \cap adding = {}
    PROVE  /\ Good(Deleted(c, ks), adding, shadows)
           /\ Shrunk(Deleted(c, ks), c)
           /\ Cached(Deleted(c, ks)) = Cached(c) \ ks
           /\ (Cached(c) \cap ks # {} => Len(Deleted(c, ks).order) < Len(c.order))
<1> DEFINE d == Deleted(c, ks)
           gone == ks \cap Cached(c)
<1>1. c \in Caches /\ IsInjective(c.order)
  BY DEF Good
<1>2. Trimmed(d, c, gone) /\ \A h \in Hashes : d.chains[h] = c.chains[h] \ gone
  BY <1>1, DeletedTrims
<1>3. gone \subseteq Cached(c) /\ gone \ adding = gone /\ Cached(c) \cap gone = Cached(c) \cap ks
      /\ Cached(c) \ gone = Cached(c) \ ks
  OBVIOUS
<1> HIDE DEF d, gone
<1>4. Good(d, adding, shadows)
  BY <1>2, <1>3, TrimmedGood
<1>5. Shrunk(d, c)
  <2>1. \A h \in Hashes : d.chains[h] \subseteq c.chains[h]
    BY <1>2
  <2>2. QED
    BY <1>1, <1>2, <1>3, <2>1, TrimmedShrinks
<1>6. /\ Cached(d) = Cached(c) \ ks
      /\ (Cached(c) \cap ks # {} => Len(d.order) < Len(c.order))
  BY <1>2, <1>3 DEF Trimmed
<1>7. QED
  BY <1>4, <1>5, <1>6 DEF d

\* Shrinking twice is shrinking.
LEMMA ShrunkTwice ==
    ASSUME NEW c \in Caches, NEW d \in Caches, NEW e \in Caches, Shrunk(d, c), Shrunk(e, d)
    PROVE  Shrunk(e, c)
<1>1. /\ Len(c.order) \in Nat /\ Len(d.order) \in Nat /\ Len(e.order) \in Nat
      /\ c.bytes \in Int /\ d.bytes \in Int /\ e.bytes \in Int
  BY CachedKeys
<1>2. Len(e.order) <= Len(c.order) /\ e.bytes <= c.bytes
  BY <1>1 DEF Shrunk
<1>3. QED
  BY <1>2 DEF Shrunk

-----------------------------------------------------------------------------
(* The cleanup *)

\* The cleanup keeps a cache good, and leaves no expired key that the heap knows.
LEMMA CleanedGood ==
    ASSUME LRUInv
    PROVE  /\ Good(Cleaned(lru), {}, shadowed)
           /\ Len(Cleaned(lru).order) <= MaxSize
           /\ (~grown => Counted(Cleaned(lru)) /\ Cleaned(lru).bytes <= MaxBytes)
           /\ (CleanupDone => /\ sinceCleanup' \in 0..CleanupEvery
                              /\ (sinceCleanup' = 0 => Young(Cleaned(lru), shadowed)))
<1>1. /\ Good(lru, {}, shadowed) /\ lru \in Caches /\ Linked(lru, {})
      /\ \A k \in Cached(lru) \ shadowed : Timed(lru, k)
      /\ Len(lru.order) <= MaxSize
      /\ (~grown => Counted(lru) /\ lru.bytes <= MaxBytes)
      /\ sinceCleanup \in 0..CleanupEvery
      /\ (sinceCleanup = 0 => Young(lru, shadowed))
  BY DEF LRUInv, Good
<1>2. CleanupEvery \in Nat \ {0} /\ TTL \in Nat \ {0} /\ MaxSize \in Nat /\ MaxBytes \in Nat
  BY LRUAssumption
<1>3. CASE sinceCleanup < CleanupEvery
  <2>1. Cleaned(lru) = lru
    BY <1>3 DEF Cleaned
  <2>2. QED
    BY <1>1, <1>3, <2>1 DEF CleanupDone
<1>4. CASE ~(sinceCleanup < CleanupEvery) /\ lru.order = <<>>
  <2>1. Cleaned(lru) = lru
    BY <1>4 DEF Cleaned
  <2>2. Cached(lru) = {}
    BY <1>4 DEF Cached, ToSet
  <2>3. Young(lru, shadowed)
    BY <2>2 DEF Young
  <2>4. CleanupDone => sinceCleanup' = 0
    BY <1>4 DEF CleanupDone
  <2>5. QED
    BY <1>1, <1>2, <2>1, <2>3, <2>4
<1>5. CASE ~(sinceCleanup < CleanupEvery) /\ lru.order # <<>>
  <2> DEFINE due == {e[2] : e \in {x \in lru.heap : x[1] >= TTL}}
             expired == {k \in Cached(lru) : lru.entry[k].age >= TTL}
             ks == {lru.heapKey[h] : h \in due} \cap expired
             d == Deleted(lru, ks)
             heap == {e \in d.heap : e[1] < TTL}
             heapKey == [h \in Hashes |-> IF h \in due THEN NoKey ELSE d.heapKey[h]]
             c == Cleaned(lru)
  <2>1. c = [d EXCEPT !.heap = heap, !.heapKey = heapKey]
    BY <1>5 DEF Cleaned
  <2>2. /\ Good(d, {}, shadowed) /\ Shrunk(d, lru) /\ Cached(d) = Cached(lru) \ ks
    <3>1. {} \subseteq Keys /\ ks \cap Cached(lru) \cap {} = {}
      OBVIOUS
    <3> HIDE DEF ks
    <3>2. QED
      BY <1>1, <3>1, DeletedGood
  <2>3. /\ lru.heap \subseteq Nat \X Hashes /\ lru.entry \in [Keys -> [size : Nat, age : Nat]]
        /\ Cached(lru) \subseteq Keys
    BY <1>1, CachedKeys DEF Caches
  <2>4. ASSUME NEW k \in Cached(lru) \ shadowed
        PROVE  /\ Hash[k] \in due => k \in ks
               /\ lru.entry[k].age >= TTL => Hash[k] \in due
    <3>1. Timed(lru, k) /\ lru.entry[k].age \in Nat
      BY <1>1, <2>3
    <3>2. ASSUME Hash[k] \in due PROVE k \in ks
      <4>1. PICK e \in lru.heap : e[1] >= TTL /\ e[2] = Hash[k]
        BY <3>2
      <4>2. e[1] = Due(lru.entry[k].age)
        BY <3>1, <4>1 DEF Timed
      <4>3. lru.entry[k].age >= TTL
        BY <1>2, <3>1, <4>1, <4>2 DEF Due
      <4>4. lru.heapKey[Hash[k]] = k
        BY <3>1 DEF Timed
      <4>5. QED
        BY <3>2, <4>3, <4>4
    <3>3. ASSUME lru.entry[k].age >= TTL PROVE Hash[k] \in due
      <4>1. PICK e \in lru.heap : e[2] = Hash[k]
        BY <3>1 DEF Timed
      <4>2. e[1] = Due(lru.entry[k].age)
        BY <3>1, <4>1 DEF Timed
      <4>3. e[1] >= TTL
        BY <1>2, <3>1, <3>3, <4>2 DEF Due
      <4>4. QED
        BY <4>1, <4>3
    <3>4. QED
      BY <3>2, <3>3
  <2>5. /\ d \in Caches /\ Linked(d, {}) /\ IsInjective(d.order)
        /\ \A k \in Cached(d) \ shadowed : Timed(d, k)
    BY <2>2 DEF Good
  <2> HIDE DEF d, due, ks
  <2>6. /\ c \in Caches
        /\ c.order = d.order /\ c.entry = d.entry /\ c.chains = d.chains /\ c.bytes = d.bytes
        /\ c.heap = heap /\ c.heapKey = heapKey
    <3>1. PICK o, e, ch, b, p, k : d = [order |-> o, entry |-> e, chains |-> ch,
                                        bytes |-> b, heap |-> p, heapKey |-> k]
      BY <2>5 DEF Caches
    <3> DEFINE d1 == [d EXCEPT !.heap = heap]
    <3>2. /\ d.order = o /\ d.entry = e /\ d.chains = ch /\ d.bytes = b
          /\ d1 = [order |-> o, entry |-> e, chains |-> ch,
                   bytes |-> b, heap |-> heap, heapKey |-> k]
      <4> HIDE DEF heap
      <4>1. QED
        BY <3>1
    <3>3. c = [d1 EXCEPT !.heapKey = heapKey]
      BY <2>1
    <3>4. heap \subseteq Nat \X Hashes /\ heapKey \in [Hashes -> Keys \cup {NoKey}]
      BY <2>5 DEF Caches
    <3> HIDE DEF d1, heap, heapKey, c
    <3>5. c = [order |-> o, entry |-> e, chains |-> ch,
               bytes |-> b, heap |-> heap, heapKey |-> heapKey]
      BY <3>2, <3>3
    <3>6. c \in Caches
      BY <2>5, <3>2, <3>4, <3>5 DEF Caches
    <3>7. QED
      BY <3>2, <3>5, <3>6
  <2>7. Cached(c) = Cached(d)
    BY <2>6 DEF Cached
  <2>8. Linked(c, {})
    BY <2>5, <2>6, <2>7 DEF Linked
  <2>9. ASSUME NEW k \in Cached(c) \ shadowed
        PROVE  Timed(c, k) /\ c.entry[k].age < TTL
    <3>1. /\ k \in Cached(lru) \ shadowed /\ k \notin ks /\ k \in Keys /\ Hash[k] \in Hashes
          /\ d.entry[k] = lru.entry[k] /\ d.heap = lru.heap
      BY <2>2, <2>3, <2>7, HashesAre DEF Shrunk
    <3>2. Hash[k] \notin due /\ ~(lru.entry[k].age >= TTL) /\ lru.entry[k].age \in Nat
      BY <2>3, <2>4, <3>1
    <3>3. lru.entry[k].age < TTL
      BY <1>2, <3>2
    <3>4. Timed(d, k)
      BY <2>5, <2>7
    <3>5. c.heapKey[Hash[k]] = d.heapKey[Hash[k]]
      BY <2>6, <3>1, <3>2
    <3>6. \A e \in d.heap : e[2] = Hash[k] => e \in heap
      BY <3>1, <3>3, <3>4 DEF Timed, Due
    <3>7. c.heap \subseteq d.heap
      BY <2>6
    <3>8. Timed(c, k)
      BY <2>6, <3>4, <3>5, <3>6, <3>7 DEF Timed
    <3>9. QED
      BY <2>6, <3>1, <3>3, <3>8
  <2>10. Good(c, {}, shadowed) /\ Young(c, shadowed)
    BY <2>5, <2>6, <2>8, <2>9 DEF Good, Young
  <2>11. Len(c.order) <= MaxSize
    <3>1. Len(d.order) <= Len(lru.order) /\ Len(d.order) \in Nat /\ Len(lru.order) \in Nat
      BY <1>1, <2>2, <2>5, CachedKeys DEF Shrunk
    <3>2. QED
      BY <1>1, <1>2, <2>6, <3>1
  <2>12. ~grown => Counted(c) /\ c.bytes <= MaxBytes
    <3>1. SizeOf(c, Cached(c)) = SizeOf(d, Cached(d))
      BY <2>6, <2>7, SizeSame
    <3>2. d.bytes <= lru.bytes /\ d.bytes \in Int /\ lru.bytes \in Int
      BY <1>1, <2>2, <2>5, CachedKeys DEF Shrunk
    <3>3. QED
      BY <1>1, <1>2, <2>2, <2>6, <3>1, <3>2 DEF Shrunk, Counted
  <2>13. CleanupDone => sinceCleanup' = 0
    BY <1>5 DEF CleanupDone
  <2>14. QED
    BY <1>2, <2>10, <2>11, <2>12, <2>13
<1>6. QED
  BY <1>3, <1>4, <1>5

-----------------------------------------------------------------------------
(* What adds a key *)

\* The lesser of two numbers.
LEMMA MinOfTwo ==
    ASSUME NEW a \in Nat, NEW b \in Nat
    PROVE  Min({a, b}) = IF a <= b THEN a ELSE b
<1> DEFINE m == IF a <= b THEN a ELSE b
<1>1. m \in {a, b} /\ \A y \in {a, b} : m <= y
  OBVIOUS
<1>2. \A x \in {a, b} : (\A y \in {a, b} : x <= y) => x = m
  OBVIOUS
<1> HIDE DEF m
<1>3. QED
  BY <1>1, <1>2 DEF Min, m

\* With fewer keys to be timed a cache stays good.
LEMMA OtherShadows ==
    ASSUME NEW c, NEW adding, NEW old, Good(c, adding, old), NEW new, Cached(c) \cap old \subseteq new
    PROVE  Good(c, adding, new)
  BY DEF Good

\* f is r and k, which was the last to be used.
Added(f, r, k) ==
    /\ f \in Caches
    /\ f.order = Append(r.order, k)
    /\ \A j \in Cached(r) : f.entry[j] = r.entry[j]
    /\ f.entry[k].age = 0
    /\ f.chains = r.chains
    /\ f.heap = r.heap \cup {<<0, Hash[k]>>}
    /\ \A h \in Hashes : f.heapKey[h] = IF h = Hash[k] THEN k ELSE r.heapKey[h]

\* Entering a key makes a good cache of one that is waiting for it.
LEMMA AddedGood ==
    ASSUME NEW k \in Keys, NEW shadows, NEW r, Good(r, {k}, shadows), k \notin Cached(r),
           NEW f, Added(f, r, k),
           k \notin shadows => /\ r.chains[Hash[k]] \subseteq {k}
                               /\ \A e \in r.heap : e[2] # Hash[k]
    PROVE  /\ Good(f, {}, shadows)
           /\ Cached(f) = Cached(r) \cup {k}
           /\ Len(f.order) = Len(r.order) + 1
<1>1. /\ r \in Caches /\ IsInjective(r.order) /\ Linked(r, {k})
      /\ \A j \in Cached(r) \ shadows : Timed(r, j)
  BY DEF Good
<1>2. r.order \in Seq(Keys) /\ Cached(r) \subseteq Keys /\ Hash[k] \in Hashes
  BY <1>1, CachedKeys, HashesAre
<1>3. /\ f \in Caches /\ f.order = Append(r.order, k) /\ f.entry[k].age = 0
      /\ \A j \in Cached(r) : f.entry[j] = r.entry[j]
      /\ f.chains = r.chains /\ f.heap = r.heap \cup {<<0, Hash[k]>>}
      /\ \A h \in Hashes : f.heapKey[h] = IF h = Hash[k] THEN k ELSE r.heapKey[h]
  BY DEF Added
<1>4. /\ IsInjective(f.order) /\ Cached(f) = Cached(r) \cup {k}
      /\ Len(f.order) = Len(r.order) + 1
  <2>1. IsInjective(Append(r.order, k)) /\ ToSet(Append(r.order, k)) = ToSet(r.order) \cup {k}
    BY <1>1, <1>2, AppendOnce DEF Cached
  <2>2. QED
    BY <1>2, <1>3, <2>1 DEF Cached
<1>5. Linked(f, {})
  <2>1. SUFFICES ASSUME NEW h \in Hashes
                 PROVE  /\ f.chains[h] = {j \in Cached(f) : Hash[j] = h}
                        /\ f.heapKey[h] \in f.chains[h] \cup {NoKey}
    BY DEF Linked
  <2>2. /\ r.chains[h] = {j \in Cached(r) \cup {k} : Hash[j] = h}
        /\ r.heapKey[h] \in r.chains[h] \cup {NoKey}
    BY <1>1 DEF Linked
  <2>3. f.chains[h] = {j \in Cached(f) : Hash[j] = h}
    BY <1>3, <1>4, <2>2
  <2>4. f.heapKey[h] \in f.chains[h] \cup {NoKey}
    BY <1>3, <2>2
  <2>5. QED
    BY <2>3, <2>4
<1>6. k \in r.chains[Hash[k]]
  BY <1>1, <1>2 DEF Linked
<1>7. ASSUME NEW j \in Cached(r) \ shadows PROVE Timed(f, j)
  <2>1. Timed(r, j) /\ j \in Keys /\ Hash[j] \in Hashes /\ j # k
    BY <1>1, <1>2, HashesAre
  <2>2. Hash[j] # Hash[k]
    BY <1>6, <2>1 DEF Timed
  <2>3. \A e \in f.heap : e[2] = Hash[j] => e \in r.heap
    BY <1>3, <2>2
  <2>4. QED
    BY <1>3, <2>1, <2>2, <2>3 DEF Timed
<1>8. ASSUME k \notin shadows PROVE Timed(f, k)
  <2>1. f.chains[Hash[k]] = {k} /\ f.heapKey[Hash[k]] = k
    BY <1>2, <1>3, <1>6, <1>8
  <2>2. \A e \in f.heap : e[2] = Hash[k] => e = <<0, Hash[k]>>
    BY <1>3, <1>8
  <2>3. <<0, Hash[k]>> \in f.heap
    BY <1>3
  <2>4. Due(f.entry[k].age) = 0
    BY <1>3, LRUAssumption DEF Due
  <2>5. QED
    BY <2>1, <2>2, <2>3, <2>4 DEF Timed
<1>9. \A j \in Cached(f) \ shadows : Timed(f, j)
  BY <1>4, <1>7, <1>8
<1>10. QED
  BY <1>3, <1>4, <1>5, <1>9 DEF Good

\* How set() and get() finish: the key is entered last, and pushed on the heap.
LEMMA PushAdds ==
    ASSUME NEW r, NEW k \in Keys, NEW c \in Caches, c.order = Append(r.order, k),
           c.entry[k].age = 0, \A j \in Cached(r) : c.entry[j] = r.entry[j],
           c.chains = r.chains, c.heap = r.heap,
           \A h \in Hashes : h # Hash[k] => c.heapKey[h] = r.heapKey[h]
    PROVE  Added(Push(c, k), r, k) /\ Push(c, k).entry = c.entry /\ Push(c, k).bytes = c.bytes
<1> DEFINE heap == c.heap \cup {<<0, Hash[k]>>}
           keyed == [c.heapKey EXCEPT ![Hash[k]] = k]
           c1 == [c EXCEPT !.heap = heap]
           f == Push(c, k)
<1>1. f = [c1 EXCEPT !.heapKey[Hash[k]] = k]
  BY DEF Push
<1>2. PICK o, e, ch, b, p, q : /\ c = [order |-> o, entry |-> e, chains |-> ch,
                                       bytes |-> b, heap |-> p, heapKey |-> q]
  BY DEF Caches
<1>3. /\ c.order = o /\ c.entry = e /\ c.chains = ch /\ c.bytes = b
      /\ c1 = [order |-> o, entry |-> e, chains |-> ch,
               bytes |-> b, heap |-> heap, heapKey |-> q]
      /\ c1.heapKey = q /\ c.heapKey = q
  <2> HIDE DEF heap
  <2>1. QED
    BY <1>2
<1>4. f = [order |-> o, entry |-> e, chains |-> ch, bytes |-> b, heap |-> heap, heapKey |-> keyed]
  <2> HIDE DEF heap, c1, f
  <2>1. QED
    BY <1>1, <1>3
<1>5. /\ c.heapKey \in [Hashes -> Keys \cup {NoKey}] /\ c.heap \subseteq Nat \X Hashes
      /\ o \in Seq(Keys) /\ e \in [Keys -> [size : Nat, age : Nat]]
      /\ ch \in [Hashes -> SUBSET Keys] /\ b \in Int
  BY <1>3 DEF Caches
<1>6. keyed \in [Hashes -> Keys \cup {NoKey}]
      /\ \A h \in Hashes : keyed[h] = IF h = Hash[k] THEN k ELSE c.heapKey[h]
  BY <1>5
<1>7. heap \subseteq Nat \X Hashes
  BY <1>5, HashesAre
<1>8. heap = r.heap \cup {<<0, Hash[k]>>}
  OBVIOUS
<1> HIDE DEF heap, keyed, c1, f
<1>9. f \in Caches
  BY <1>4, <1>5, <1>6, <1>7 DEF Caches
<1>10. \A h \in Hashes : keyed[h] = IF h = Hash[k] THEN k ELSE r.heapKey[h]
  BY <1>6
<1>11. Added(f, r, k) /\ f.entry = c.entry /\ f.bytes = c.bytes
  BY <1>3, <1>4, <1>8, <1>9, <1>10 DEF Added
<1>12. QED
  BY <1>11 DEF f

\* What the history says of the keys that are not in it.
LEMMA ShadowIs ==
    ASSUME NEW c, Good(c, {}, shadowed), NEW k \in Keys, NEW sh, sh = Shadow(c, k)
    PROVE  /\ Cached(c) \cap shadowed \subseteq sh \cup {k}
           /\ \A j \in Cached(c) \ {k} : Hash[j] = Hash[k] => j \in sh
           /\ k \notin sh => /\ c.chains[Hash[k]] \subseteq {k}
                             /\ \A e \in c.heap : e[2] # Hash[k]
<1> DEFINE chain == c.chains[Hash[k]]
           known == (\E e \in c.heap : e[2] = Hash[k]) \/ chain \ {k} # {}
<1>1. sh = (shadowed \ {k}) \cup (IF known THEN chain \cup {k} ELSE {})
  BY DEF Shadow
<1>2. k \notin sh => ~known
  BY <1>1
<1>3. ASSUME NEW j \in Cached(c) \ {k}, Hash[j] = Hash[k] PROVE j \in sh
  <2>1. j \in chain
    BY <1>3, HashesAre DEF Good, Linked
  <2>2. QED
    BY <1>1, <1>3, <2>1
<1>4. QED
  BY <1>1, <1>2, <1>3

\* A step that enters k into what is left of the cleaned cache keeps the invariant.
LEMMA EntersKeep ==
    ASSUME LRUInv, NEW k \in Keys,
           NEW c, c = Cleaned(lru), NEW r, Good(r, {k}, shadowed' \cup {k}), k \notin Cached(r),
           Cached(r) \subseteq Cached(c), \A j \in Cached(r) : r.entry[j] = c.entry[j],
           r.heap = c.heap, r.chains[Hash[k]] \subseteq c.chains[Hash[k]] \cup {k},
           Len(r.order) < MaxSize,
           Added(lru', r, k), ~grown => Counted(lru') /\ lru'.bytes <= MaxBytes,
           shadowed' = Shadow(c, k), CleanupDone, UNCHANGED grown
    PROVE  LRUInv'
<1> PICK f, sh : f = lru' /\ sh = shadowed'
  OBVIOUS
<1>1. /\ Good(c, {}, shadowed) /\ sinceCleanup' \in 0..CleanupEvery
      /\ (sinceCleanup' = 0 => Young(c, shadowed))
  BY CleanedGood
<1>2. /\ Cached(c) \cap shadowed \subseteq sh \cup {k}
      /\ (k \notin sh => /\ c.chains[Hash[k]] \subseteq {k}
                         /\ \A e \in c.heap : e[2] # Hash[k])
  BY <1>1, ShadowIs
<1>3. Good(r, {k}, sh)
  <2>1. Good(r, {k}, sh \cup {k})
    OBVIOUS
  <2>2. QED
    BY <2>1, OtherShadows
<1>4. Added(f, r, k)
  OBVIOUS
<1>5. (k \notin sh => /\ r.chains[Hash[k]] \subseteq {k}
                      /\ \A e \in r.heap : e[2] # Hash[k])
  BY <1>2
<1>6. Good(f, {}, sh) /\ Cached(f) = Cached(r) \cup {k} /\ Len(f.order) = Len(r.order) + 1
  <2>1. k \in Keys /\ k \notin Cached(r)
    OBVIOUS
  <2>2. QED
    BY ONLY <1>3, <1>4, <1>5, <2>1, AddedGood
<1>7. Len(f.order) <= MaxSize
  <2>1. Len(r.order) \in Nat /\ MaxSize \in Nat
    BY CachedKeys, LRUAssumption DEF Good
  <2>2. QED
    BY <1>6, <2>1
<1>8. ASSUME sinceCleanup' = 0 PROVE Young(f, sh)
  <2>1. ASSUME NEW j \in Cached(f) \ sh PROVE f.entry[j].age < TTL
    <3>1. CASE j = k
      <4>1. f.entry[k].age = 0
        BY <1>4 DEF Added
      <4>2. QED
        BY <3>1, <4>1, LRUAssumption
    <3>2. CASE j # k
      <4>1. j \in Cached(r) /\ j \in Cached(c) \ shadowed
        BY <1>2, <1>6, <2>1, <3>2
      <4>2. f.entry[j] = c.entry[j]
        BY <1>4, <4>1 DEF Added
      <4>3. c.entry[j].age < TTL
        BY <1>1, <1>8, <4>1 DEF Young
      <4>4. QED
        BY <4>2, <4>3
    <3>3. QED
      BY <3>1, <3>2
  <2>2. QED
    BY <2>1 DEF Young
<1>9. ~grown => Counted(f) /\ f.bytes <= MaxBytes
  OBVIOUS
<1>10. /\ Good(f, {}, sh) /\ Len(f.order) <= MaxSize
       /\ (~grown => Counted(f) /\ f.bytes <= MaxBytes)
       /\ sinceCleanup' \in 0..CleanupEvery /\ (sinceCleanup' = 0 => Young(f, sh))
       /\ grown' \in BOOLEAN /\ grown' = grown
  BY <1>1, <1>6, <1>7, <1>8, <1>9 DEF LRUInv
<1>11. QED
  BY <1>10 DEF LRUInv

-----------------------------------------------------------------------------
(* The steps *)

\* get() of a key that is there: it leaves the order and enters it again.
LEMMA GetHitKeeps ==
    ASSUME LRUInv, NEW k \in Keys, GetHit(k)
    PROVE  LRUInv'
<1> PICK c, sh : c = Cleaned(lru) /\ sh = shadowed'
  OBVIOUS
<1>1. /\ Good(c, {}, shadowed) /\ Len(c.order) <= MaxSize
      /\ (~grown => Counted(c) /\ c.bytes <= MaxBytes)
  BY CleanedGood
<1>2. k \in Cached(c) /\ sh = Shadow(c, k) /\ CleanupDone /\ UNCHANGED grown
      /\ lru' = Push([c EXCEPT !.order = Append(Without(@, {k}), k), !.entry[k].age = 0], k)
  BY DEF GetHit
<1>3. c \in Caches /\ IsInjective(c.order) /\ Linked(c, {})
  BY <1>1 DEF Good
<1> DEFINE r == Unlink(c, {k})
           order == Append(Without(c.order, {k}), k)
           entry == [c.entry EXCEPT ![k] = [c.entry[k] EXCEPT !.age = 0]]
           moved == [c EXCEPT !.order = order, !.entry[k].age = 0]
<1>4. Trimmed(r, c, {k}) /\ r.chains = c.chains /\ r.order = Without(c.order, {k})
  <2>1. Unlink(c, {k}).order = Without(c.order, {k})
    BY <1>3 DEF Unlink, Caches
  <2>2. QED
    BY <1>3, <2>1, UnlinkTrims
<1> HIDE DEF r
<1>5. Good(r, {k}, sh \cup {k})
  <2>1. Linked(c, {k})
    BY <1>2, <1>3 DEF Linked
  <2>2. Good(c, {k}, shadowed)
    BY <1>1, <2>1 DEF Good
  <2>3. Good(c, {k}, sh \cup {k})
    BY <1>1, <1>2, <2>2, ShadowIs, OtherShadows
  <2>4. \A h \in Hashes : r.chains[h] = c.chains[h] \ ({k} \ {k})
    BY <1>4
  <2>5. QED
    BY <1>2, <1>4, <2>3, <2>4, TrimmedGood
<1>6. /\ r \in Caches /\ Cached(r) = Cached(c) \ {k} /\ Len(r.order) < Len(c.order)
      /\ \A j \in Keys \ {k} : r.entry[j] = c.entry[j]
      /\ r.heap = c.heap
      /\ \A h \in Hashes : h # Hash[k] => c.heapKey[h] = r.heapKey[h]
  BY <1>2, <1>4 DEF Trimmed
<1>7. Cached(c) \subseteq Keys /\ c.bytes \in Int /\ Len(c.order) \in Nat /\ Len(r.order) \in Nat
  BY <1>3, <1>6, CachedKeys
<1>8. entry \in [Keys -> [size : Nat, age : Nat]] /\ entry[k].age = 0
      /\ entry[k].size = c.entry[k].size /\ \A j \in Keys \ {k} : entry[j] = c.entry[j]
  BY ZenonT(60), <1>3 DEF Caches
<1>9. moved = [order |-> order, entry |-> entry, chains |-> r.chains,
               bytes |-> c.bytes, heap |-> r.heap, heapKey |-> c.heapKey]
  <2>1. PICK o, e, ch, b, p, q : c = [order |-> o, entry |-> e, chains |-> ch,
                                      bytes |-> b, heap |-> p, heapKey |-> q]
    BY <1>3 DEF Caches
  <2> DEFINE c1 == [c EXCEPT !.order = order]
  <2>2. /\ c.entry = e /\ c.chains = ch /\ c.bytes = b /\ c.heap = p /\ c.heapKey = q
        /\ c1 = [order |-> order, entry |-> e, chains |-> ch,
                 bytes |-> b, heap |-> p, heapKey |-> q]
    <3> HIDE DEF order
    <3>1. QED
      BY <2>1
  <2>3. moved = [c1 EXCEPT !.entry = entry]
    <3> HIDE DEF order
    <3>1. QED
      BY <2>1, <2>2
  <2> HIDE DEF order, entry, c1, moved
  <2>4. QED
    BY <1>4, <1>6, <2>2, <2>3
<1>10. lru' = Push(moved, k)
  BY <1>2
<1> HIDE DEF entry, moved
<1>11. /\ Added(lru', r, k) /\ lru'.entry = entry /\ lru'.bytes = c.bytes
  <2>1. moved \in Caches
    <3>1. order \in Seq(Keys) /\ r.chains \in [Hashes -> SUBSET Keys] /\ r.heap \subseteq Nat \X Hashes
          /\ c.heapKey \in [Hashes -> Keys \cup {NoKey}]
      BY SMTT(30), <1>3, <1>4, <1>6, CachedKeys DEF Caches
    <3> HIDE DEF order
    <3>2. QED
      BY <1>7, <1>8, <1>9, <3>1 DEF Caches
  <2>2. /\ moved.order = Append(r.order, k) /\ moved.entry = entry /\ moved.chains = r.chains
        /\ moved.heap = r.heap /\ moved.bytes = c.bytes /\ moved.heapKey = c.heapKey
    BY <1>4, <1>9
  <2>3. \A j \in Cached(r) : entry[j] = r.entry[j]
    BY <1>6, <1>7, <1>8
  <2>4. /\ Added(Push(moved, k), r, k) /\ Push(moved, k).entry = moved.entry
        /\ Push(moved, k).bytes = moved.bytes
    <3>1. /\ k \in Keys /\ moved \in Caches /\ moved.order = Append(r.order, k)
          /\ moved.entry[k].age = 0 /\ \A j \in Cached(r) : moved.entry[j] = r.entry[j]
          /\ moved.chains = r.chains /\ moved.heap = r.heap
          /\ \A h \in Hashes : h # Hash[k] => moved.heapKey[h] = r.heapKey[h]
      BY <1>6, <1>8, <2>1, <2>2, <2>3
    <3>2. QED
      BY ONLY <3>1, PushAdds
  <2>5. QED
    BY <1>10, <2>2, <2>4
<1>12. ~grown => Counted(lru') /\ lru'.bytes <= MaxBytes
  <2>1. PICK f : f = lru'
    OBVIOUS
  <2>2. Cached(f) = Cached(c)
    <3>1. Good(r, {k}, sh \cup {k}) /\ k \notin Cached(r) /\ Added(f, r, k)
      BY <1>5, <1>6, <1>11, <2>1
    <3>2. Cached(f) = Cached(r) \cup {k}
      BY <3>1, AddedGood
    <3>3. QED
      BY <1>2, <1>6, <3>2
  <2>3. \A j \in Cached(c) : f.entry[j].size = c.entry[j].size
    BY <1>7, <1>8, <1>11, <2>1
  <2>4. SizeOf(f, Cached(c)) = SizeOf(c, Cached(c))
    BY <2>3, SizeSame
  <2>5. ~grown => Counted(f) /\ f.bytes <= MaxBytes
    BY <1>1, <1>11, <2>1, <2>2, <2>4 DEF Counted
  <2>6. QED
    BY <2>1, <2>5
<1>13. Len(r.order) < MaxSize
  BY <1>1, <1>6, <1>7, LRUAssumption
<1>14. QED
  <2>1. /\ Good(r, {k}, shadowed' \cup {k}) /\ k \notin Cached(r) /\ Cached(r) \subseteq Cached(c)
        /\ \A j \in Cached(r) : r.entry[j] = c.entry[j]
        /\ r.chains[Hash[k]] \subseteq c.chains[Hash[k]] \cup {k}
    BY <1>4, <1>5, <1>6, <1>7
  <2>2. QED
    BY <1>2, <1>6, <1>11, <1>12, <1>13, <2>1, EntersKeep

\* What set() makes of the cleaned cache before it enters the key.
ChainedFor(c, k) == [c EXCEPT !.chains[Hash[k]] = @ \cup {k}]
ReplacedFor(c, k) == IF k \in Cached(c) THEN Unlink(ChainedFor(c, k), {k}) ELSE ChainedFor(c, k)

\* set() has the key in its chain, and not in the dictionary, before it makes room.
LEMMA ReplacedGood ==
    ASSUME NEW k \in Keys, NEW c, Good(c, {}, shadowed), NEW sh, sh = Shadow(c, k)
    PROVE  LET r == ReplacedFor(c, k)
           IN  /\ Good(r, {k}, sh \cup {k}) /\ Cached(r) = Cached(c) \ {k}
               /\ Len(r.order) <= Len(c.order) /\ r.bytes <= c.bytes
               /\ \A j \in Cached(r) : r.entry[j] = c.entry[j]
               /\ r.heap = c.heap
               /\ r.chains[Hash[k]] \subseteq c.chains[Hash[k]] \cup {k}
               /\ (Counted(c) => Counted(r))
<1> DEFINE d == ChainedFor(c, k)
           r == ReplacedFor(c, k)
           chains == [c.chains EXCEPT ![Hash[k]] = @ \cup {k}]
<1>1. c \in Caches /\ IsInjective(c.order) /\ Linked(c, {}) /\ Hash[k] \in Hashes
  BY HashesAre DEF Good
<1>2. /\ d \in Caches /\ d.order = c.order /\ d.entry = c.entry /\ d.bytes = c.bytes
      /\ d.heap = c.heap /\ d.heapKey = c.heapKey
      /\ \A h \in Hashes : d.chains[h] = IF h = Hash[k] THEN c.chains[h] \cup {k} ELSE c.chains[h]
  <2>1. PICK o, e, ch, b, p, q : c = [order |-> o, entry |-> e, chains |-> ch,
                                      bytes |-> b, heap |-> p, heapKey |-> q]
    BY <1>1 DEF Caches
  <2>2. d = [c EXCEPT !.chains = chains]
    BY <2>1 DEF ChainedFor
  <2>3. chains \in [Hashes -> SUBSET Keys]
        /\ \A h \in Hashes : chains[h] = IF h = Hash[k] THEN c.chains[h] \cup {k} ELSE c.chains[h]
    BY <1>1 DEF Caches
  <2> HIDE DEF chains, d
  <2>4. d = [order |-> o, entry |-> e, chains |-> chains, bytes |-> b, heap |-> p, heapKey |-> q]
        /\ c.order = o /\ c.entry = e /\ c.bytes = b /\ c.heap = p /\ c.heapKey = q
    BY <2>1, <2>2
  <2>5. d \in Caches
    BY <1>1, <2>3, <2>4 DEF Caches
  <2>6. QED
    BY <2>3, <2>4, <2>5
<1> HIDE DEF d
<1>3. Cached(d) = Cached(c)
  BY <1>2 DEF Cached
<1>4. Linked(d, {k})
  <2>1. SUFFICES ASSUME NEW h \in Hashes
                 PROVE  /\ d.chains[h] = {j \in Cached(d) \cup {k} : Hash[j] = h}
                        /\ d.heapKey[h] \in d.chains[h] \cup {NoKey}
    BY DEF Linked
  <2>2. /\ c.chains[h] = {j \in Cached(c) : Hash[j] = h}
        /\ c.heapKey[h] \in c.chains[h] \cup {NoKey}
    BY <1>1 DEF Linked
  <2>3. d.chains[h] = {j \in Cached(d) \cup {k} : Hash[j] = h}
    BY <1>2, <1>3, <2>2
  <2>4. d.heapKey[h] \in d.chains[h] \cup {NoKey}
    BY <1>2, <2>2
  <2>5. QED
    BY <2>3, <2>4
<1>5. ASSUME NEW j \in Cached(d) \ (sh \cup {k}) PROVE Timed(d, j)
  <2>1. /\ Cached(c) \cap shadowed \subseteq sh \cup {k}
        /\ \A i \in Cached(c) \ {k} : Hash[i] = Hash[k] => i \in sh
    BY ShadowIs
  <2>2. j \in Cached(c) \ shadowed /\ Hash[j] # Hash[k] /\ Hash[j] \in Hashes
    BY <1>1, <1>3, <2>1, CachedKeys, HashesAre
  <2>3. Timed(c, j)
    BY <2>2 DEF Good
  <2>4. QED
    BY <1>2, <2>2, <2>3 DEF Timed
<1>6. Good(d, {k}, sh \cup {k})
  BY <1>1, <1>2, <1>4, <1>5 DEF Good
<1>7. Counted(c) => Counted(d)
  <2>1. SizeOf(d, Cached(d)) = SizeOf(c, Cached(c))
    BY <1>2, <1>3, SizeSame
  <2>2. QED
    BY <1>2, <2>1 DEF Counted
<1>8. d.chains[Hash[k]] = c.chains[Hash[k]] \cup {k}
  BY <1>1, <1>2
<1>9. CASE k \in Cached(c)
  <2>1. r = Unlink(d, {k})
    BY <1>9 DEF ReplacedFor, d
  <2> HIDE DEF r
  <2>2. Trimmed(r, d, {k}) /\ r.chains = d.chains
    BY <1>1, <1>2, <2>1, UnlinkTrims
  <2>3. \A h \in Hashes : r.chains[h] = d.chains[h] \ ({k} \ {k})
    BY <2>2
  <2>4. Good(r, {k}, sh \cup {k})
    BY <1>3, <1>6, <1>9, <2>2, <2>3, TrimmedGood
  <2>5. Shrunk(r, d)
    BY <1>2, <1>3, <1>9, <2>2, TrimmedShrinks
  <2>6. /\ Good(r, {k}, sh \cup {k}) /\ Cached(r) = Cached(c) \ {k}
        /\ Len(r.order) <= Len(c.order) /\ r.bytes <= c.bytes
        /\ \A j \in Cached(r) : r.entry[j] = c.entry[j]
        /\ r.heap = c.heap
        /\ r.chains[Hash[k]] \subseteq c.chains[Hash[k]] \cup {k}
        /\ (Counted(c) => Counted(r))
    BY <1>2, <1>3, <1>7, <1>8, <2>2, <2>4, <2>5 DEF Trimmed, Shrunk
  <2>7. QED
    BY <2>6 DEF r
<1>10. CASE k \notin Cached(c)
  <2>1. r = d
    BY <1>10 DEF ReplacedFor, d
  <2> HIDE DEF r
  <2>2. Len(c.order) \in Nat /\ c.bytes \in Int
    BY <1>1, CachedKeys
  <2>3. /\ Good(r, {k}, sh \cup {k}) /\ Cached(r) = Cached(c) \ {k}
        /\ Len(r.order) <= Len(c.order) /\ r.bytes <= c.bytes
        /\ \A j \in Cached(r) : r.entry[j] = c.entry[j]
        /\ r.heap = c.heap
        /\ r.chains[Hash[k]] \subseteq c.chains[Hash[k]] \cup {k}
        /\ (Counted(c) => Counted(r))
    BY <1>2, <1>3, <1>6, <1>7, <1>8, <1>10, <2>1, <2>2
  <2>4. QED
    BY <2>3 DEF r
<1>11. QED
  BY <1>9, <1>10

\* What an eviction keeps, with the key that is being added.
EvictsTo(d, c, k, shadows) == Good(d, {k}, shadows) /\ k \notin Cached(d) /\ Shrunk(d, c)

\* An eviction leaves the cache waiting for the key; that of all keys leaves none.
LEMMA EvictedGood ==
    ASSUME NEW k \in Keys, NEW shadows, NEW c, Good(c, {k}, shadows), k \notin Cached(c), NEW n \in Nat
    PROVE  /\ EvictsTo(Evicted(c, n), c, k, shadows)
           /\ n = 1 /\ c.order # <<>> => Len(Evicted(c, n).order) < Len(c.order)
           /\ n = Len(c.order) => Cached(Evicted(c, n)) = {}
<1> DEFINE ks == ToSet(SubSeq(c.order, 1, n))
           d == Deleted(c, ks)
<1>1. Evicted(c, n) = d
  BY DEF Evicted
<1>2. c.order \in Seq(Keys)
  BY CachedKeys DEF Good
<1>3. n = 1 /\ c.order # <<>> => Cached(c) \cap ks # {}
  <2>1. SUFFICES ASSUME n = 1, c.order # <<>> PROVE Cached(c) \cap ks # {}
    OBVIOUS
  <2>2. Len(c.order) >= 1
    BY <1>2, <2>1
  <2>3. /\ Len(SubSeq(c.order, 1, 1)) = 1 /\ SubSeq(c.order, 1, 1) \in Seq(Keys)
        /\ SubSeq(c.order, 1, 1)[1] = c.order[1]
    <3>1. \A i \in 1..1 : c.order[i] \in Keys
      BY <1>2, <2>2
    <3> DEFINE t == SubSeq(c.order, 1, 1)
    <3>2. /\ t \in Seq(Keys) /\ Len(t) = (IF 1 <= 1 THEN 1 - 1 + 1 ELSE 0)
          /\ \A i \in 1..(1 - 1 + 1) : t[i] = c.order[1 + i - 1]
      BY <3>1, SubSeqProperties
    <3> HIDE DEF t
    <3>3. Len(t) = 1 /\ t[1] = c.order[1] /\ t \in Seq(Keys)
      BY <3>2
    <3>4. QED
      BY <3>3 DEF t
  <2>4. c.order[1] \in ks
    BY <2>1, <2>3 DEF ToSet
  <2>5. c.order[1] \in Cached(c)
    BY <1>2, <2>2 DEF Cached, ToSet
  <2>6. QED
    BY <2>4, <2>5
<1>4. n = Len(c.order) => ks = Cached(c)
  BY <1>2, SubSeqFull DEF Cached
<1>5. ks \cap Cached(c) \cap {k} = {}
  OBVIOUS
<1> HIDE DEF ks
<1>6. /\ Good(d, {k}, shadows) /\ Shrunk(d, c) /\ Cached(d) = Cached(c) \ ks
      /\ (Cached(c) \cap ks # {} => Len(d.order) < Len(c.order))
  BY <1>5, DeletedGood
<1> HIDE DEF d
<1>7. QED
  BY <1>1, <1>3, <1>4, <1>6 DEF EvictsTo

\* Two evictions are one.
LEMMA EvictsTwice ==
    ASSUME NEW c \in Caches, NEW k, NEW shadows, NEW d, NEW e,
           EvictsTo(d, c, k, shadows), EvictsTo(e, d, k, shadows)
    PROVE  EvictsTo(e, c, k, shadows)
<1>1. c \in Caches /\ d \in Caches /\ e \in Caches
  BY DEF EvictsTo, Good
<1>2. Shrunk(e, c)
  BY <1>1, ShrunkTwice DEF EvictsTo
<1>3. QED
  BY <1>2 DEF EvictsTo

\* The room set() makes: one place in the order, and enough bytes if they were counted.
LEMMA RoomGood ==
    ASSUME NEW k \in Keys, NEW shadows, NEW c, Good(c, {k}, shadows), k \notin Cached(c),
           Len(c.order) <= MaxSize, NEW size \in Nat, size <= MaxBytes
    PROVE  LET counted == IF Len(c.order) >= MaxSize THEN Evicted(c, 1) ELSE c
               room == MadeRoom(counted, size)
           IN  /\ EvictsTo(room, c, k, shadows) /\ Len(room.order) < MaxSize
               /\ (Counted(c) => room.bytes + size <= MaxBytes)
<1> DEFINE b == IF Len(c.order) >= MaxSize THEN Evicted(c, 1) ELSE c
           limit == Min({Len(b.order), MaxSize})
           fits == {n \in 0..limit : Evicted(b, n).bytes + size <= MaxBytes}
           n == IF fits = {} THEN limit ELSE Min(fits)
           d == MadeRoom(b, size)
<1>1. c \in Caches /\ MaxSize \in Nat \ {0} /\ MaxBytes \in Nat /\ Len(c.order) \in Nat
      /\ c.bytes \in Int
  BY LRUAssumption, CachedKeys DEF Good
<1>2. EvictsTo(b, c, k, shadows) /\ Len(b.order) < MaxSize
  <2>1. CASE Len(c.order) >= MaxSize
    <3>1. c.order # <<>>
      BY <1>1, <2>1
    <3>2. EvictsTo(Evicted(c, 1), c, k, shadows) /\ Len(Evicted(c, 1).order) < Len(c.order)
      BY <3>1, EvictedGood
    <3>3. Len(Evicted(c, 1).order) \in Nat
      BY <3>2, CachedKeys DEF EvictsTo, Good
    <3> HIDE DEF EvictsTo
    <3>4. QED
      BY <1>1, <2>1, <3>2, <3>3
  <2>2. CASE ~(Len(c.order) >= MaxSize)
    <3>1. Shrunk(c, c)
      BY <1>1 DEF Shrunk
    <3>2. b = c
      BY <2>2
    <3>3. QED
      BY <1>1, <2>2, <3>1, <3>2 DEF EvictsTo
  <2>3. QED
    BY <2>1, <2>2
<1> HIDE DEF b
<1>3. Good(b, {k}, shadows) /\ k \notin Cached(b) /\ Shrunk(b, c) /\ b \in Caches
      /\ Len(b.order) \in Nat
  BY <1>2, CachedKeys DEF EvictsTo, Good
<1>4. limit = Len(b.order)
  BY <1>1, <1>2, <1>3, MinOfTwo
<1> HIDE DEF limit
<1>5. n \in Nat /\ (fits # {} => n \in fits)
  <2>1. fits \subseteq Nat
    BY <1>3, <1>4
  <2> HIDE DEF fits
  <2>2. fits # {} => Min(fits) \in fits
    BY <2>1, MinIn
  <2>3. QED
    BY <1>3, <1>4, <2>1, <2>2
<1>6. d = Evicted(b, n)
  BY DEF MadeRoom, limit
<1> HIDE DEF d, n, fits
<1>7. EvictsTo(d, b, k, shadows) /\ d \in Caches
  BY <1>3, <1>5, <1>6, EvictedGood DEF EvictsTo, Good
<1>8. EvictsTo(d, c, k, shadows)
  BY <1>1, <1>2, <1>7, EvictsTwice
<1>9. Len(d.order) < MaxSize
  <2>1. Len(d.order) <= Len(b.order) /\ Len(d.order) \in Nat
    BY <1>7, CachedKeys DEF EvictsTo, Shrunk
  <2>2. QED
    BY <1>1, <1>2, <1>3, <2>1
<1>10. ASSUME Counted(c) PROVE d.bytes + size <= MaxBytes
  <2>1. fits # {}
    <3> DEFINE all == Evicted(b, limit)
    <3>1. Cached(all) = {} /\ EvictsTo(all, b, k, shadows)
      BY <1>3, <1>4, EvictedGood
    <3> HIDE DEF all
    <3>2. Counted(all)
      BY <1>3, <1>10, <3>1 DEF EvictsTo, Shrunk
    <3>3. SizeOf(all, {}) = 0
      <4>1. UNION {{j} \X (1..all.entry[j].size) : j \in {}} = {}
        OBVIOUS
      <4>2. QED
        BY <4>1, FS_EmptySet DEF SizeOf
    <3>4. all.bytes + size <= MaxBytes
      BY <1>1, <3>1, <3>2, <3>3 DEF Counted
    <3>5. limit \in fits
      BY <1>3, <1>4, <3>4 DEF fits, all
    <3>6. QED
      BY <3>5
  <2>2. n \in fits
    BY <1>5, <2>1
  <2>3. QED
    BY <1>6, <2>2 DEF fits
<1>11. QED
  BY <1>8, <1>9, <1>10 DEF d, b

\* set() of a value that is neither too large nor of a full chain.
LEMMA SetKeeps ==
    ASSUME LRUInv, NEW k \in Keys, NEW size \in Sizes, Set(k, size)
    PROVE  LRUInv'
<1> PICK c, sh : c = Cleaned(lru) /\ sh = shadowed'
  OBVIOUS
<1> DEFINE r == ReplacedFor(c, k)
           counted == IF Len(r.order) >= MaxSize THEN Evicted(r, 1) ELSE r
           room == MadeRoom(counted, size)
           stored == [room EXCEPT !.order = Append(@, k), !.entry[k] = [size |-> size, age |-> 0],
                                  !.bytes = @ + size]
<1>1. /\ Good(c, {}, shadowed) /\ Len(c.order) <= MaxSize
      /\ (~grown => Counted(c) /\ c.bytes <= MaxBytes)
  BY CleanedGood
<1>2. /\ size <= MaxBytes /\ sh = Shadow(c, k) /\ CleanupDone /\ UNCHANGED grown
      /\ lru' = Push(stored, k)
  <2>1. ~TooLarge(size) /\ size \in Nat /\ MaxBytes \in Nat
    BY LRUAssumption DEF Set
  <2>2. size <= MaxBytes
    BY <2>1 DEF TooLarge
  <2>3. QED
    BY <2>2 DEF Set, ReplacedFor, ChainedFor
<1>3. /\ Good(r, {k}, sh \cup {k}) /\ Cached(r) = Cached(c) \ {k}
      /\ Len(r.order) <= Len(c.order)
      /\ \A j \in Cached(r) : r.entry[j] = c.entry[j]
      /\ r.heap = c.heap
      /\ r.chains[Hash[k]] \subseteq c.chains[Hash[k]] \cup {k}
      /\ (Counted(c) => Counted(r))
  <2>1. Good(c, {}, shadowed) /\ sh = Shadow(c, k) /\ k \in Keys
    BY <1>1, <1>2
  <2>2. QED
    BY ONLY <2>1, ReplacedGood DEF r
<1>4. size \in Nat /\ MaxSize \in Nat /\ Hash[k] \in Hashes
  BY LRUAssumption, HashesAre
<1>5. Len(r.order) <= MaxSize
  <2>1. Len(r.order) \in Nat /\ Len(c.order) \in Nat
    BY <1>1, <1>3, CachedKeys DEF Good
  <2>2. QED
    BY <1>1, <1>3, <1>4, <2>1
<1> HIDE DEF r
<1>6. /\ EvictsTo(room, r, k, sh \cup {k}) /\ Len(room.order) < MaxSize
      /\ (Counted(r) => room.bytes + size <= MaxBytes)
  BY <1>2, <1>3, <1>4, <1>5, RoomGood
<1> HIDE DEF counted, room
<1>7. /\ Good(room, {k}, sh \cup {k}) /\ k \notin Cached(room) /\ Shrunk(room, r) /\ room \in Caches
      /\ Cached(room) \subseteq Keys /\ room.bytes \in Int
  BY <1>6, CachedKeys DEF EvictsTo, Good
<1>8. /\ stored \in Caches /\ stored.order = Append(room.order, k)
      /\ stored.entry[k] = [size |-> size, age |-> 0]
      /\ \A j \in Keys \ {k} : stored.entry[j] = room.entry[j]
      /\ stored.chains = room.chains /\ stored.heap = room.heap /\ stored.heapKey = room.heapKey
      /\ stored.bytes = room.bytes + size
  <2>1. PICK o, e, ch, b, p, q : room = [order |-> o, entry |-> e, chains |-> ch,
                                         bytes |-> b, heap |-> p, heapKey |-> q]
    BY <1>7 DEF Caches
  <2> DEFINE order == Append(o, k)
             entry == [e EXCEPT ![k] = [size |-> size, age |-> 0]]
             c1 == [room EXCEPT !.order = order]
             c2 == [c1 EXCEPT !.entry = entry]
             c3 == [c2 EXCEPT !.bytes = b + size]
  <2>2. /\ room.order = o /\ room.entry = e /\ room.chains = ch /\ room.bytes = b
        /\ room.heap = p /\ room.heapKey = q
    BY <2>1
  <2>3. /\ o \in Seq(Keys) /\ e \in [Keys -> [size : Nat, age : Nat]]
        /\ ch \in [Hashes -> SUBSET Keys] /\ b \in Int
        /\ p \subseteq Nat \X Hashes /\ q \in [Hashes -> Keys \cup {NoKey}]
    BY <1>7, <2>2 DEF Caches
  <2>4. /\ order \in Seq(Keys) /\ b + size \in Int
        /\ entry \in [Keys -> [size : Nat, age : Nat]]
        /\ entry[k] = [size |-> size, age |-> 0] /\ \A j \in Keys \ {k} : entry[j] = e[j]
    BY <1>4, <2>3
  <2>5. c1 = [order |-> order, entry |-> e, chains |-> ch, bytes |-> b, heap |-> p, heapKey |-> q]
    <3> HIDE DEF order
    <3>1. QED
      BY <2>1
  <2>6. stored = c3
    <3> HIDE DEF order
    <3>1. /\ c1.entry = e /\ c1.bytes = b
          /\ [room EXCEPT !.order = Append(@, k)] = c1
      BY <2>1, <2>2, <2>5 DEF order
    <3> HIDE DEF c1
    <3>2. c2 = [c1 EXCEPT !.entry[k] = [size |-> size, age |-> 0]]
      BY <2>5, <3>1
    <3>3. c2.bytes = b
      <4> HIDE DEF entry
      <4>1. QED
        BY <2>5
    <3> HIDE DEF c2
    <3>4. QED
      BY <3>1, <3>2, <3>3
  <2> HIDE DEF order, entry, c1, stored
  <2>7. c2 = [order |-> order, entry |-> entry, chains |-> ch, bytes |-> b, heap |-> p, heapKey |-> q]
    BY <2>5
  <2> HIDE DEF c2
  <2>8. stored = [order |-> order, entry |-> entry, chains |-> ch,
                  bytes |-> b + size, heap |-> p, heapKey |-> q]
    BY <2>6, <2>7
  <2>9. stored \in Caches
    BY <2>3, <2>4, <2>8 DEF Caches
  <2>10. QED
    BY <2>2, <2>4, <2>8, <2>9 DEF order
<1> HIDE DEF stored
<1>9. /\ Added(lru', room, k) /\ lru'.entry = stored.entry /\ lru'.bytes = room.bytes + size
  <2>1. /\ stored \in Caches /\ stored.order = Append(room.order, k) /\ stored.entry[k].age = 0
        /\ \A j \in Cached(room) : stored.entry[j] = room.entry[j]
        /\ stored.chains = room.chains /\ stored.heap = room.heap
        /\ \A h \in Hashes : h # Hash[k] => stored.heapKey[h] = room.heapKey[h]
    BY <1>7, <1>8
  <2>2. k \in Keys
    OBVIOUS
  <2>3. /\ Added(Push(stored, k), room, k) /\ Push(stored, k).entry = stored.entry
        /\ Push(stored, k).bytes = stored.bytes
    BY ONLY <2>1, <2>2, PushAdds
  <2>4. QED
    BY <1>2, <1>8, <2>3
<1>10. ~grown => Counted(lru') /\ lru'.bytes <= MaxBytes
  <2>1. PICK f : f = lru'
    OBVIOUS
  <2>2. f \in Caches /\ Cached(f) = Cached(room) \cup {k}
    <3>1. Good(room, {k}, sh \cup {k}) /\ k \notin Cached(room) /\ Added(f, room, k)
          /\ k \in Keys /\ k \in sh \cup {k}
      BY <1>7, <1>9, <2>1
    <3>2. Good(f, {}, sh \cup {k}) /\ Cached(f) = Cached(room) \cup {k}
      BY ONLY <3>1, AddedGood
    <3>3. QED
      BY <3>2 DEF Good
  <2>3. /\ \A j \in Cached(room) : f.entry[j] = room.entry[j]
        /\ f.entry[k].size = size /\ f.bytes = room.bytes + size
    BY <1>7, <1>8, <1>9, <2>1
  <2>4. SizeOf(f, Cached(room) \cup {k}) = SizeOf(room, Cached(room)) + f.entry[k].size
    <3>1. \A j \in Cached(room) : room.entry[j] = f.entry[j]
      BY <2>3
    <3>2. k \in Keys \ Cached(room) /\ Cached(room) \subseteq Keys /\ room \in Caches
      BY <1>7
    <3>3. QED
      BY ONLY <2>2, <3>1, <3>2, SizeMore
  <2>5. ASSUME ~grown PROVE Counted(f) /\ f.bytes <= MaxBytes
    <3>1. Counted(r) /\ Counted(room) /\ room.bytes + size <= MaxBytes
      BY <1>1, <1>3, <1>6, <1>7, <2>5 DEF Shrunk
    <3>2. QED
      BY <2>2, <2>3, <2>4, <3>1 DEF Counted
  <2>6. QED
    BY <2>1, <2>5
<1>11. /\ Good(room, {k}, shadowed' \cup {k}) /\ Cached(room) \subseteq Cached(c)
       /\ \A j \in Cached(room) : room.entry[j] = c.entry[j]
       /\ room.heap = c.heap /\ room.chains[Hash[k]] \subseteq c.chains[Hash[k]] \cup {k}
  BY <1>3, <1>4, <1>7 DEF Shrunk
<1>12. QED
  BY <1>2, <1>6, <1>7, <1>9, <1>10, <1>11, EntersKeep

\* A step that at most removes keys keeps what does not depend on the time.
LEMMA RemovalKeeps ==
    ASSUME LRUInv, NEW c, Good(c, {}, shadowed), Len(c.order) <= MaxSize,
           ~grown => Counted(c) /\ c.bytes <= MaxBytes,
           sinceCleanup' \in 0..CleanupEvery, sinceCleanup' = 0 => Young(c, shadowed),
           NEW ks, lru' = Deleted(c, ks), UNCHANGED <<grown, shadowed>>
    PROVE  LRUInv'
<1> PICK d : d = Deleted(c, ks)
  OBVIOUS
<1>1. Good(d, {}, shadowed) /\ Shrunk(d, c) /\ c \in Caches /\ d \in Caches
  <2>1. {} \subseteq Keys /\ ks \cap Cached(c) \cap {} = {}
    OBVIOUS
  <2>2. Good(d, {}, shadowed) /\ Shrunk(d, c)
    BY <2>1, DeletedGood
  <2>3. QED
    BY <2>2 DEF Good
<1>2. Len(d.order) <= MaxSize
  <2>1. Len(d.order) <= Len(c.order) /\ Len(d.order) \in Nat /\ Len(c.order) \in Nat /\ MaxSize \in Nat
    BY <1>1, CachedKeys, LRUAssumption DEF Shrunk
  <2>2. QED
    BY <2>1
<1>3. ~grown => Counted(d) /\ d.bytes <= MaxBytes
  <2>1. d.bytes <= c.bytes /\ d.bytes \in Int /\ c.bytes \in Int /\ MaxBytes \in Nat
    BY <1>1, CachedKeys, LRUAssumption DEF Shrunk
  <2>2. QED
    BY <1>1, <2>1 DEF Shrunk
<1>4. sinceCleanup' = 0 => Young(d, shadowed)
  BY <1>1 DEF Shrunk, Young
<1>5. /\ Good(d, {}, shadowed) /\ Len(d.order) <= MaxSize
      /\ (~grown => Counted(d) /\ d.bytes <= MaxBytes)
      /\ sinceCleanup' \in 0..CleanupEvery /\ (sinceCleanup' = 0 => Young(d, shadowed))
      /\ grown' \in BOOLEAN /\ grown' = grown /\ shadowed' = shadowed /\ lru' = d
  BY <1>1, <1>2, <1>3, <1>4 DEF LRUInv
<1>6. QED
  BY <1>5 DEF LRUInv

\* A value that changes its size: from then on the bytes are not judged.
LEMMA GrowKeeps ==
    ASSUME LRUInv, NEW k \in Keys, NEW size \in Sizes, Grow(k, size)
    PROVE  LRUInv'
<1> PICK d : d = lru'
  OBVIOUS
<1>1. /\ Good(lru, {}, shadowed) /\ lru \in Caches /\ Linked(lru, {}) /\ IsInjective(lru.order)
      /\ \A j \in Cached(lru) \ shadowed : Timed(lru, j)
      /\ Len(lru.order) <= MaxSize
      /\ sinceCleanup \in 0..CleanupEvery /\ (sinceCleanup = 0 => Young(lru, shadowed))
  BY DEF LRUInv, Good
<1>2. /\ d = [lru EXCEPT !.entry[k].size = size]
      /\ grown' = TRUE /\ sinceCleanup' = sinceCleanup /\ shadowed' = shadowed
  BY DEF Grow
<1>3. /\ d \in Caches /\ d.order = lru.order /\ d.chains = lru.chains /\ d.heap = lru.heap
      /\ d.heapKey = lru.heapKey /\ \A j \in Keys : d.entry[j].age = lru.entry[j].age
  <2>1. PICK o, e, ch, b, p, q : lru = [order |-> o, entry |-> e, chains |-> ch,
                                        bytes |-> b, heap |-> p, heapKey |-> q]
    BY <1>1 DEF Caches
  <2> DEFINE entry == [e EXCEPT ![k].size = size]
  <2>2. /\ lru.order = o /\ lru.entry = e /\ lru.chains = ch /\ lru.bytes = b
        /\ lru.heap = p /\ lru.heapKey = q
    BY <2>1
  <2>3. /\ o \in Seq(Keys) /\ e \in [Keys -> [size : Nat, age : Nat]]
        /\ ch \in [Hashes -> SUBSET Keys] /\ b \in Int
        /\ p \subseteq Nat \X Hashes /\ q \in [Hashes -> Keys \cup {NoKey}]
    BY <1>1, <2>2 DEF Caches
  <2>4. entry \in [Keys -> [size : Nat, age : Nat]] /\ \A j \in Keys : entry[j].age = e[j].age
    BY <2>3, LRUAssumption
  <2>5. d = [order |-> o, entry |-> entry, chains |-> ch, bytes |-> b, heap |-> p, heapKey |-> q]
    BY <1>2, <2>1
  <2> HIDE DEF entry
  <2>6. d \in Caches
    BY <2>3, <2>4, <2>5 DEF Caches
  <2>7. QED
    BY <2>2, <2>4, <2>5, <2>6
<1>4. Cached(d) = Cached(lru) /\ Cached(lru) \subseteq Keys
  BY <1>1, <1>3, CachedKeys DEF Cached
<1>5. Good(d, {}, shadowed)
  <2>1. Linked(d, {})
    BY <1>1, <1>3, <1>4 DEF Linked
  <2>2. \A j \in Cached(d) \ shadowed : Timed(d, j)
    BY <1>1, <1>3, <1>4 DEF Timed
  <2>3. QED
    BY <1>1, <1>3, <2>1, <2>2 DEF Good
<1>6. Young(lru, shadowed) => Young(d, shadowed)
  BY <1>3, <1>4 DEF Young
<1>7. /\ Good(d, {}, shadowed) /\ Len(d.order) <= MaxSize
      /\ sinceCleanup \in 0..CleanupEvery /\ (sinceCleanup = 0 => Young(d, shadowed))
  BY <1>1, <1>3, <1>5, <1>6
<1>8. QED
  BY <1>2, <1>7 DEF LRUInv

\* A tick makes the keys and what the heap has of them older together.
LEMMA TimeKeeps ==
    ASSUME LRUInv, TimeGoesOn
    PROVE  LRUInv'
<1> PICK d : d = lru'
  OBVIOUS
<1> DEFINE entry == [k \in Keys |-> LET e == lru.entry[k]
                                IN  IF k \notin Cached(lru) THEN e
                                    ELSE [e EXCEPT !.age = Min({e.age + 1, TTL + 1})]]
           heap == {<<Min({e[1] + 1, TTL}), e[2]>> : e \in lru.heap}
<1>1. /\ Good(lru, {}, shadowed) /\ lru \in Caches /\ Linked(lru, {}) /\ IsInjective(lru.order)
      /\ \A j \in Cached(lru) \ shadowed : Timed(lru, j)
      /\ Len(lru.order) <= MaxSize /\ (~grown => Counted(lru) /\ lru.bytes <= MaxBytes)
      /\ sinceCleanup \in 0..CleanupEvery /\ grown \in BOOLEAN
      /\ TTL \in Nat \ {0} /\ CleanupEvery \in Nat \ {0}
  BY LRUAssumption DEF LRUInv, Good
<1>2. /\ d = [lru EXCEPT !.entry = entry, !.heap = heap]
      /\ sinceCleanup' = Min({sinceCleanup + 1, CleanupEvery})
      /\ grown' = grown /\ shadowed' = shadowed
  <2>1. lru' = [lru EXCEPT !.entry = entry, !.heap = heap]
    BY DEF TimeGoesOn
  <2> HIDE DEF entry, heap
  <2>2. QED
    BY <2>1 DEF TimeGoesOn
<1>3. sinceCleanup' \in 1..CleanupEvery
  <2>1. sinceCleanup + 1 \in Nat /\ CleanupEvery \in Nat
    BY <1>1
  <2>2. sinceCleanup' = IF sinceCleanup + 1 <= CleanupEvery THEN sinceCleanup + 1 ELSE CleanupEvery
    BY <1>2, <2>1, MinOfTwo
  <2>3. QED
    BY <1>1, <2>2
<1>4. /\ lru.entry \in [Keys -> [size : Nat, age : Nat]] /\ lru.heap \subseteq Nat \X Hashes
      /\ Cached(lru) \subseteq Keys
  BY <1>1, CachedKeys DEF Caches
<1>5. ASSUME NEW k \in Keys
      PROVE  /\ entry[k] \in [size : Nat, age : Nat] /\ entry[k].size = lru.entry[k].size
             /\ k \in Cached(lru) =>
                  entry[k].age = IF lru.entry[k].age <= TTL THEN lru.entry[k].age + 1 ELSE TTL + 1
  <2>1. lru.entry[k].age + 1 \in Nat /\ TTL + 1 \in Nat /\ lru.entry[k] \in [size : Nat, age : Nat]
    BY <1>1, <1>4
  <2> DEFINE m == Min({lru.entry[k].age + 1, TTL + 1})
  <2>2. m = IF lru.entry[k].age + 1 <= TTL + 1 THEN lru.entry[k].age + 1 ELSE TTL + 1
    BY <2>1, MinOfTwo
  <2>3. entry[k] = IF k \in Cached(lru) THEN [lru.entry[k] EXCEPT !.age = m] ELSE lru.entry[k]
    OBVIOUS
  <2> HIDE DEF entry, m
  <2>4. m \in Nat /\ m = IF lru.entry[k].age <= TTL THEN lru.entry[k].age + 1 ELSE TTL + 1
    BY <1>1, <1>4, <2>1, <2>2
  <2>5. QED
    BY <2>1, <2>3, <2>4
<1>6. ASSUME NEW e \in lru.heap
      PROVE  /\ Min({e[1] + 1, TTL}) \in Nat
             /\ Min({e[1] + 1, TTL}) = IF e[1] < TTL THEN e[1] + 1 ELSE TTL
  <2>1. e[1] \in Nat /\ e[1] + 1 \in Nat /\ TTL \in Nat
    BY <1>1, <1>4
  <2>2. Min({e[1] + 1, TTL}) = IF e[1] + 1 <= TTL THEN e[1] + 1 ELSE TTL
    BY <2>1, MinOfTwo
  <2>3. QED
    BY <2>1, <2>2
<1>7. heap \subseteq Nat \X Hashes
  <2>1. ASSUME NEW x \in heap PROVE x \in Nat \X Hashes
    <3>1. PICK e \in lru.heap : x = <<Min({e[1] + 1, TTL}), e[2]>>
      OBVIOUS
    <3>2. e[2] \in Hashes /\ Min({e[1] + 1, TTL}) \in Nat
      BY <1>4, <1>6
    <3>3. QED
      BY <3>1, <3>2
  <2>2. QED
    BY <2>1
<1>8. entry \in [Keys -> [size : Nat, age : Nat]]
  BY <1>5
<1> HIDE DEF entry
<1>9. /\ d \in Caches /\ d.order = lru.order /\ d.entry = entry /\ d.chains = lru.chains
      /\ d.bytes = lru.bytes /\ d.heap = heap /\ d.heapKey = lru.heapKey
  <2>1. PICK o, e, ch, b, p, q : lru = [order |-> o, entry |-> e, chains |-> ch,
                                        bytes |-> b, heap |-> p, heapKey |-> q]
    BY <1>1 DEF Caches
  <2> DEFINE d1 == [lru EXCEPT !.entry = entry]
  <2> HIDE DEF heap
  <2>2. /\ lru.order = o /\ lru.entry = e /\ lru.chains = ch /\ lru.bytes = b
        /\ lru.heap = p /\ lru.heapKey = q
        /\ d1 = [order |-> o, entry |-> entry, chains |-> ch,
                 bytes |-> b, heap |-> p, heapKey |-> q]
    BY <2>1
  <2>3. d = [d1 EXCEPT !.heap = heap]
    BY <1>2
  <2>4. /\ o \in Seq(Keys) /\ ch \in [Hashes -> SUBSET Keys] /\ b \in Int
        /\ q \in [Hashes -> Keys \cup {NoKey}]
    BY <1>1, <2>2 DEF Caches
  <2> HIDE DEF d1
  <2>5. d = [order |-> o, entry |-> entry, chains |-> ch,
             bytes |-> b, heap |-> heap, heapKey |-> q]
    BY <2>2, <2>3
  <2>6. d \in Caches
    BY <1>7, <1>8, <2>4, <2>5 DEF Caches
  <2>7. QED
    BY <2>2, <2>5, <2>6
<1>10. Cached(d) = Cached(lru)
  BY <1>9 DEF Cached
<1>11. Linked(d, {})
  BY <1>1, <1>9, <1>10 DEF Linked
<1>12. ASSUME NEW k \in Cached(d) \ shadowed PROVE Timed(d, k)
  <2>1. Timed(lru, k) /\ k \in Keys /\ k \in Cached(lru) /\ lru.entry[k].age \in Nat
    BY <1>1, <1>4, <1>10
  <2>2. entry[k].age = IF lru.entry[k].age <= TTL THEN lru.entry[k].age + 1 ELSE TTL + 1
    BY <1>5, <2>1
  <2>3. \E e \in heap : e[2] = Hash[k]
    <3>1. PICK x \in lru.heap : x[2] = Hash[k]
      BY <2>1 DEF Timed
    <3>2. <<Min({x[1] + 1, TTL}), x[2]>> \in heap
      OBVIOUS
    <3>3. QED
      BY <3>1, <3>2
  <2>4. ASSUME NEW e \in heap, e[2] = Hash[k] PROVE e[1] = Due(entry[k].age)
    <3>1. PICK x \in lru.heap : e = <<Min({x[1] + 1, TTL}), x[2]>>
      BY <2>4
    <3>2. x[2] = Hash[k] /\ e[1] = Min({x[1] + 1, TTL})
      BY <2>4, <3>1
    <3>3. x[1] = Due(lru.entry[k].age)
      BY <2>1, <3>1, <3>2 DEF Timed
    <3>4. e[1] = IF x[1] < TTL THEN x[1] + 1 ELSE TTL
      BY <1>6, <3>1, <3>2
    <3>5. QED
      BY <1>1, <2>1, <2>2, <3>3, <3>4 DEF Due
  <2>5. QED
    BY <1>9, <2>1, <2>3, <2>4 DEF Timed
<1>13. Good(d, {}, shadowed)
  BY <1>1, <1>9, <1>11, <1>12 DEF Good
<1>14. ~grown => Counted(d) /\ d.bytes <= MaxBytes
  <2>1. \A k \in Cached(lru) : d.entry[k].size = lru.entry[k].size
    BY <1>4, <1>5, <1>9
  <2>2. SizeOf(d, Cached(lru)) = SizeOf(lru, Cached(lru))
    BY <2>1, SizeSame
  <2>3. QED
    BY <1>1, <1>9, <1>10, <2>2 DEF Counted
<1>15. /\ Good(d, {}, shadowed) /\ Len(d.order) <= MaxSize
       /\ (~grown => Counted(d) /\ d.bytes <= MaxBytes)
       /\ sinceCleanup' \in 0..CleanupEvery /\ sinceCleanup' # 0
  BY <1>1, <1>3, <1>9, <1>13, <1>14
<1>16. QED
  BY <1>1, <1>2, <1>15 DEF LRUInv

\* The cache as it is constructed, and after clear().
LEMMA EmptyGood ==
    /\ Good(Empty, {}, {}) /\ Len(Empty.order) <= MaxSize
    /\ Counted(Empty) /\ Empty.bytes <= MaxBytes /\ Young(Empty, {})
<1>1. Empty.order = <<>> /\ Empty.bytes = 0 /\ Empty.heap = {}
      /\ Empty.chains = [h \in Hashes |-> {}] /\ Empty.heapKey = [h \in Hashes |-> NoKey]
  BY DEF Empty
<1>2. Cached(Empty) = {}
  BY <1>1 DEF Cached, ToSet
<1>3. Empty \in Caches
  <2>1. <<>> \in Seq(Keys) /\ [k \in Keys |-> NoEntry] \in [Keys -> [size : Nat, age : Nat]]
    BY DEF NoEntry
  <2>2. QED
    BY <2>1 DEF Empty, Caches
<1>4. Good(Empty, {}, {})
  BY <1>1, <1>2, <1>3 DEF Good, Linked, IsInjective
<1>5. Counted(Empty)
  <2>1. UNION {{j} \X (1..Empty.entry[j].size) : j \in {}} = {}
    OBVIOUS
  <2>2. SizeOf(Empty, {}) = 0
    BY <2>1, FS_EmptySet DEF SizeOf
  <2>3. QED
    BY <1>1, <1>2, <2>2 DEF Counted
<1>6. Young(Empty, {})
  BY <1>2 DEF Young
<1>7. Len(Empty.order) <= MaxSize /\ Empty.bytes <= MaxBytes
  BY <1>1, LRUAssumption
<1>8. QED
  BY <1>4, <1>5, <1>6, <1>7

\* The invariant says what LRUAgrees does.
LEMMA CachesThat == LRUInv => LRUAgrees
<1> SUFFICES ASSUME LRUInv PROVE LRUAgrees
  OBVIOUS
<1>1. Linked(lru, {}) /\ Len(lru.order) <= MaxSize
  BY DEF LRUInv, Good
<1>2. \A h \in Hashes : /\ lru.chains[h] = {k \in Cached(lru) : Hash[k] = h}
                        /\ lru.heapKey[h] \in lru.chains[h] \cup {NoKey}
  BY <1>1 DEF Linked
<1>3. ~grown => lru.bytes = SizeOf(lru, Cached(lru)) /\ lru.bytes <= MaxBytes
  BY DEF LRUInv, Counted
<1>4. ASSUME sinceCleanup = 0, NEW k \in Cached(lru), lru.entry[k].age >= TTL PROVE k \in shadowed
  <2>1. SUFFICES ASSUME k \notin shadowed PROVE FALSE
    OBVIOUS
  <2>2. lru.entry[k].age < TTL
    BY <1>4, <2>1 DEF LRUInv, Young
  <2>3. lru.entry[k].age \in Nat /\ TTL \in Nat
    BY LRUAssumption, CachedKeys DEF LRUInv, Good, Caches
  <2>4. QED
    BY <1>4, <2>2, <2>3
<1>5. QED
  BY <1>1, <1>2, <1>3, <1>4 DEF LRUAgrees

-----------------------------------------------------------------------------

\* However the calls of the cache follow each other, with whatever keys that share
\* hashes: the structures are linked key by key, the count is kept while no value
\* changes its size, and what the heap knows of a key that alone has its hash comes up
\* when the key expires.
THEOREM LRUInvariant == LRUSpec => []LRUInv
<1>1. LRUInit => LRUInv
  <2> SUFFICES ASSUME LRUInit PROVE LRUInv
    OBVIOUS
  <2>1. lru = Empty /\ sinceCleanup = 0 /\ grown = FALSE /\ shadowed = {}
    BY DEF LRUInit
  <2>2. 0 \in 0..CleanupEvery
    BY LRUAssumption
  <2>3. QED
    BY <2>1, <2>2, EmptyGood DEF LRUInv
<1>2. LRUInv /\ [LRUNext]_lruVars => LRUInv'
  <2> SUFFICES ASSUME LRUInv, [LRUNext]_lruVars PROVE LRUInv'
    OBVIOUS
  <2>1. ASSUME NEW k \in Keys, GetHit(k) PROVE LRUInv'
    BY <2>1, GetHitKeeps
  <2>2. ASSUME NEW k \in Keys, GetMiss(k) PROVE LRUInv'
    <3>1. lru' = Deleted(Cleaned(lru), {k}) /\ CleanupDone /\ UNCHANGED <<grown, shadowed>>
      BY <2>2 DEF GetMiss
    <3>2. QED
      BY <3>1, CleanedGood, RemovalKeeps
  <2>3. ASSUME NEW k \in Keys, ContainsExpired(k) \/ Delete(k) PROVE LRUInv'
    <3>1. lru' = Deleted(lru, {k}) /\ UNCHANGED <<sinceCleanup, grown, shadowed>>
      BY <2>3 DEF ContainsExpired, Delete
    <3>2. QED
      BY <3>1, RemovalKeeps DEF LRUInv
  <2>4. ASSUME NEW k \in Keys, NEW size \in Sizes, SetRejected(k, size) PROVE LRUInv'
    <3>1. lru' = Cleaned(lru) /\ CleanupDone /\ UNCHANGED <<grown, shadowed>>
      BY <2>4 DEF SetRejected
    <3>2. QED
      BY <3>1, CleanedGood DEF LRUInv
  <2>5. ASSUME NEW k \in Keys, NEW size \in Sizes, Set(k, size) PROVE LRUInv'
    BY <2>5, SetKeeps
  <2>6. ASSUME NEW k \in Keys, NEW size \in Sizes, Grow(k, size) PROVE LRUInv'
    BY <2>6, GrowKeeps
  <2>7. CASE Clear
    <3>1. lru' = Empty /\ sinceCleanup' = 0 /\ shadowed' = {} /\ grown' \in BOOLEAN
      BY <2>7 DEF Clear, LRUInv
    <3>2. QED
      BY <3>1, EmptyGood, LRUAssumption DEF LRUInv
  <2>8. CASE TimeGoesOn
    BY <2>8, TimeKeeps
  <2>9. CASE UNCHANGED lruVars
    BY <2>9 DEF lruVars, LRUInv
  <2>10. QED
    BY <2>1, <2>2, <2>3, <2>4, <2>5, <2>6, <2>7, <2>8, <2>9 DEF LRUNext
<1>3. QED
  BY <1>1, <1>2, PTL DEF LRUSpec

\* After every sequence of calls the chains hold just the cached keys, a hash in the
\* mapping stands for one of them, the bounds hold, and a cleanup has left no expired
\* entry that alone has its hash.
THEOREM CacheAgrees == LRUSpec => []LRUAgrees
<1>1. QED
  BY LRUInvariant, CachesThat, PTL

-----------------------------------------------------------------------------
(***************************************************************************)
(* ApplicationContext                                                      *)
(*                                                                         *)
(* LockedFields says what the thread in the holder's lock may rely on, and *)
(* what everybody may rely on who asks it: an initialized holder has a     *)
(* client unless a reset has dropped it and is about to clear the flag.    *)
(* Undisturbed adds, for each place in a call that no reset has            *)
(* overlapped, what the thread has seen there and finds there still.       *)
(***************************************************************************)

TaskPlaces == {"rest", "check", "lock", "create", "flag", "read", "keep", "return", "answered",
           "reset", "resetFlag", "register", "unregister"}
InLock == {"create", "flag", "reset", "resetFlag"}

TaskRecord == [at : TaskPlaces, ctx : Contexts \cup {Null}, got : Clients \cup {Null}]

TaskTypes ==
    /\ local \in [AppThreads -> Contexts \cup {Null}]
    /\ registry \in [AppThreads -> Contexts \cup {Null}]
    /\ ctxClient \in [Contexts -> Clients \cup {Null}]
    /\ client \in Clients \cup {Null}
    /\ initialized \in BOOLEAN
    /\ dead \subseteq AppThreads
    /\ task \in [AppThreads -> TaskRecord]
    /\ \A t \in AppThreads : task[t].at \in {"keep", "return"} => task[t].ctx # Null

\* The holder's lock, and the two fields it guards.
LockedFields ==
    /\ \A t \in AppThreads : holderLock = t <=> task[t].at \in InLock
    /\ holderLock \in AppThreads \cup {Null}
    /\ \A t \in AppThreads : task[t].at \in {"create", "flag"} => ~initialized
    /\ \A t \in AppThreads : task[t].at = "flag" => client # Null
    /\ initialized /\ (\A t \in AppThreads : task[t].at # "resetFlag") => client # Null

\* What a call that no reset has overlapped knows.
Undisturbed ==
    \A t \in Asking \ resetSince :
        /\ \A u \in AppThreads : task[u].at # "resetFlag"
        /\ task[t].at = "read" => initialized
        /\ task[t].at = "return" => ctxClient[task[t].ctx] # Null
        /\ task[t].at = "answered" =>
              /\ task[t].got # Null
              /\ task[t].ctx = Null => initialized /\ task[t].got = client

ContextInv == TaskTypes /\ LockedFields /\ Undisturbed

USE ContextAssumption, ClientsAssumption

-----------------------------------------------------------------------------
\* There is always a client nobody has: no more are referenced than there are
\* holders, contexts and calls.
LEMMA FreshClient == TaskTypes => NewClient \in Clients
<1> SUFFICES ASSUME TaskTypes PROVE NewClient \in Clients
  OBVIOUS
<1> DEFINE kept == {ctxClient[c] : c \in Contexts}
           held == {task[t].got : t \in AppThreads}
           known == {client} \cup kept \cup held
<1>1. IsFiniteSet(kept) /\ Cardinality(kept) <= Cardinality(Contexts)
  <2> DEFINE f == [c \in Contexts |-> ctxClient[c]]
  <2>1. f \in Surjection(Contexts, kept)
    BY DEF Surjection
  <2>2. QED
    BY <2>1, FS_Surjection
<1>2. IsFiniteSet(held) /\ Cardinality(held) <= Cardinality(AppThreads)
  <2> DEFINE f == [t \in AppThreads |-> task[t].got]
  <2>1. f \in Surjection(AppThreads, held)
    BY DEF Surjection
  <2>2. QED
    BY <2>1, FS_Surjection
<1>3. IsFiniteSet({client}) /\ Cardinality({client}) = 1
  BY FS_Singleton
<1> HIDE DEF kept, held
<1>4. IsFiniteSet({client} \cup kept) /\ Cardinality({client} \cup kept) <= 1 + Cardinality(Contexts)
  <2>1. Cardinality({client} \cup kept) =
          Cardinality({client}) + Cardinality(kept) - Cardinality({client} \cap kept)
    BY <1>1, <1>3, FS_Union
  <2>2. Cardinality({client} \cap kept) \in Nat
    BY <1>1, FS_Intersection, FS_CardinalityType
  <2>3. /\ Cardinality(kept) \in Nat /\ Cardinality(Contexts) \in Nat
        /\ IsFiniteSet({client} \cup kept)
    BY <1>1, <1>3, FS_Union, FS_CardinalityType
  <2>4. QED
    BY <1>1, <1>3, <2>1, <2>2, <2>3
<1>5. /\ IsFiniteSet(known)
      /\ Cardinality(known) <= 1 + Cardinality(Contexts) + Cardinality(AppThreads)
  <2> DEFINE some == {client} \cup kept
  <2>1. IsFiniteSet(some) /\ Cardinality(some) <= 1 + Cardinality(Contexts)
    BY <1>4
  <2> HIDE DEF some
  <2>2. Cardinality(some \cup held) = Cardinality(some) + Cardinality(held) - Cardinality(some \cap held)
    BY <1>2, <2>1, FS_Union
  <2>3. Cardinality(some \cap held) \in Nat
    BY <2>1, FS_Intersection, FS_CardinalityType
  <2>4. IsFiniteSet(some \cup held)
    BY <1>2, <2>1, FS_Union
  <2>5. Cardinality(some \cup held) <= 1 + Cardinality(Contexts) + Cardinality(AppThreads)
    BY <1>2, <2>1, <2>2, <2>3, FS_CardinalityType
  <2>6. QED
    BY <2>4, <2>5 DEF some
<1> HIDE DEF known
<1>6. Clients \ known # {}
  <2>1. SUFFICES ASSUME Clients \subseteq known PROVE FALSE
    OBVIOUS
  <2>2. Cardinality(Clients) <= Cardinality(known)
    BY <1>5, <2>1, FS_Subset
  <2>3. QED
    BY <1>5, <2>2, FS_CardinalityType
<1>7. NewClient = CHOOSE n \in Clients \ known : TRUE
  BY DEF NewClient, known, kept, held
<1>8. QED
  BY <1>6, <1>7

-----------------------------------------------------------------------------
(* The holder of the client *)

LEMMA ContextInitInv == ContextInit => ContextInv /\ RegistryFollows
<1> SUFFICES ASSUME ContextInit PROVE ContextInv /\ RegistryFollows
  OBVIOUS
<1>1. TaskTypes
  BY DEF ContextInit, TaskTypes, TaskRecord, NoTask, TaskPlaces
<1>2. LockedFields
  BY DEF ContextInit, LockedFields, NoTask, InLock
<1>3. Undisturbed
  BY DEF ContextInit, Undisturbed, NoTask, Asking
<1>4. RegistryFollows
  BY DEF ContextInit, RegistryFollows
<1>5. QED
  BY <1>1, <1>2, <1>3, <1>4 DEF ContextInv

\* A step of a call moves one thread's task.
LEMMA TaskMoves ==
    ASSUME TaskTypes, NEW t \in AppThreads, NEW k \in TaskRecord,
           task' = [task EXCEPT ![t] = k], k.at \in {"keep", "return"} => k.ctx # Null,
           client' \in Clients \cup {Null}, initialized' \in BOOLEAN,
           local' \in [AppThreads -> Contexts \cup {Null}],
           registry' \in [AppThreads -> Contexts \cup {Null}],
           ctxClient' \in [Contexts -> Clients \cup {Null}], dead' \subseteq AppThreads
    PROVE  TaskTypes'
  BY DEF TaskTypes

\* A thread that moves between places outside the lock leaves the holder alone.
LEMMA OutsideLock ==
    ASSUME TaskTypes, LockedFields, NEW t \in AppThreads, NEW k \in TaskRecord,
           task' = [task EXCEPT ![t] = k], task[t].at \notin InLock, k.at \notin InLock,
           UNCHANGED holderVars
    PROVE  LockedFields'
  BY DEF TaskTypes, LockedFields, TaskRecord, InLock, holderVars, TaskPlaces

\* A call begins: beside a reset it is noted, else nobody is dropping the client.
LEMMA AskInv == ASSUME ContextInv, NEW t \in AppThreads, AskContext(t) \/ AskHolder(t)
                PROVE  ContextInv'
<1>1. TaskTypes'
  BY SMTT(30) DEF ContextInv, TaskTypes, TaskRecord, AskContext, AskHolder, On, Go, holderVars,
     registryVars, TaskPlaces
<1>2. LockedFields'
  BY DEF ContextInv, TaskTypes, TaskRecord, LockedFields, AskContext, AskHolder, On, Go,
     holderVars, registryVars, InLock, TaskPlaces
<1>3. Undisturbed'
  BY DEF ContextInv, TaskTypes, TaskRecord, LockedFields, Undisturbed, Asking, AskContext,
     AskHolder, On, Go, NotesResets, holderVars, registryVars, InLock, TaskPlaces
<1>4. QED
  BY <1>1, <1>2, <1>3 DEF ContextInv

\* The test outside the lock, and the one under it.
LEMMA CheckInv == ASSUME ContextInv, NEW t \in AppThreads, CheckInitialized(t) \/ TakeHolderLock(t)
                  PROVE  ContextInv'
<1>1. TaskTypes'
  BY DEF ContextInv, TaskTypes, TaskRecord, CheckInitialized, TakeHolderLock, On, Go, holderVars,
     registryVars, TaskPlaces
<1>2. LockedFields'
  BY DEF ContextInv, TaskTypes, TaskRecord, LockedFields, CheckInitialized, TakeHolderLock, On, Go,
     holderVars, registryVars, InLock, TaskPlaces
<1>3. Undisturbed'
  BY DEF ContextInv, TaskTypes, TaskRecord, LockedFields, Undisturbed, Asking, CheckInitialized,
     TakeHolderLock, On, Go, holderVars, registryVars, InLock, TaskPlaces
<1>4. QED
  BY <1>1, <1>2, <1>3 DEF ContextInv

\* Making the client, under the lock; nobody who has an answer is left behind, since
\* the holder was not initialized.
LEMMA CreateInv == ASSUME ContextInv, NEW t \in AppThreads, CreateClient(t) \/ SetInitialized(t)
                   PROVE  ContextInv'
<1>1. NewClient \in Clients
  BY FreshClient DEF ContextInv
<1>2. TaskTypes'
  <2>1. CASE CreateClient(t)
    BY <1>1, <2>1 DEF ContextInv, TaskTypes, TaskRecord, CreateClient, On, Go, registryVars, TaskPlaces
  <2>2. CASE SetInitialized(t)
    BY <2>2 DEF ContextInv, TaskTypes, TaskRecord, SetInitialized, On, Go, registryVars, TaskPlaces
  <2>3. QED
    BY <2>1, <2>2
<1>3. LockedFields'
  BY <1>1 DEF ContextInv, TaskTypes, TaskRecord, LockedFields, CreateClient, SetInitialized, On,
     Go, registryVars, InLock, TaskPlaces
<1>4. Undisturbed'
  BY SMTT(30), <1>1 DEF ContextInv, TaskTypes, TaskRecord, LockedFields, Undisturbed, Asking, CreateClient,
     SetInitialized, On, Go, registryVars, InLock, TaskPlaces
<1>5. QED
  BY <1>2, <1>3, <1>4 DEF ContextInv

\* The answer, from the holder or through the context.
LEMMA AnswerInv ==
    ASSUME ContextInv, NEW t \in AppThreads,
           ReadClient(t) \/ KeepClient(t) \/ ReturnClient(t) \/ UseClient(t)
    PROVE  ContextInv'
<1>1. NewClient \in Clients
  BY FreshClient DEF ContextInv
<1>2. PICK k \in TaskRecord :
        /\ task' = [task EXCEPT ![t] = k]
        /\ k.at \notin InLock
        /\ k.at \in {"keep", "return"} => k.ctx # Null
  <2>1. CASE ReadClient(t)
    <3> DEFINE k == [task[t] EXCEPT !.got = client,
                                   !.at = IF task[t].ctx = Null THEN "answered" ELSE "keep"]
    <3>1. k \in TaskRecord /\ k.at \notin InLock /\ (k.at \in {"keep", "return"} => k.ctx # Null)
      <4>1. client \in Clients \cup {Null} /\ task[t] \in TaskRecord
        BY DEF ContextInv, TaskTypes
      <4>2. CASE task[t].ctx = Null
        BY <4>1, <4>2 DEF TaskRecord, TaskPlaces, InLock
      <4>3. CASE task[t].ctx # Null
        BY <4>1, <4>3 DEF TaskRecord, TaskPlaces, InLock
      <4>4. QED
        BY <4>2, <4>3
    <3>2. task' = [task EXCEPT ![t] = k]
      BY <2>1 DEF ReadClient
    <3> HIDE DEF k
    <3>3. QED
      BY <3>1, <3>2
  <2>2. CASE KeepClient(t)
    <3> DEFINE k == [task[t] EXCEPT !.at = "return", !.got = Null]
    <3>1. k \in TaskRecord /\ k.at \notin InLock /\ k.ctx # Null
      BY <2>2 DEF KeepClient, On, ContextInv, TaskTypes, TaskRecord, TaskPlaces, InLock
    <3>2. QED
      BY <2>2, <3>1 DEF KeepClient
  <2>3. CASE ReturnClient(t)
    <3> DEFINE k == [task[t] EXCEPT !.at = "answered", !.got = ctxClient[task[t].ctx]]
    <3>1. ctxClient[task[t].ctx] \in Clients \cup {Null}
      BY <2>3 DEF ReturnClient, On, ContextInv, TaskTypes, TaskRecord
    <3>2. k \in TaskRecord /\ k.at \notin InLock /\ k.at \notin {"keep", "return"}
      BY <3>1 DEF ContextInv, TaskTypes, TaskRecord, TaskPlaces, InLock
    <3>3. QED
      BY <2>3, <3>2 DEF ReturnClient
  <2>4. CASE UseClient(t)
    <3>1. NoTask \in TaskRecord /\ NoTask.at = "rest"
      BY DEF NoTask, TaskRecord, TaskPlaces
    <3>2. QED
      BY <2>4, <3>1 DEF UseClient, EndTask, InLock
  <2>5. QED
    BY <2>1, <2>2, <2>3, <2>4
<1>3. /\ task[t].at \notin InLock
      /\ UNCHANGED <<client, initialized, holderLock, local, registry, dead>>
  BY DEF ReadClient, KeepClient, ReturnClient, UseClient, On, InLock, registryVars, holderVars
<1>4. TaskTypes'
  <2>1. ctxClient' \in [Contexts -> Clients \cup {Null}]
    BY <1>1 DEF ReadClient, KeepClient, ReturnClient, UseClient, registryVars,
       ContextInv, TaskTypes, TaskRecord
  <2>2. /\ client' \in Clients \cup {Null} /\ initialized' \in BOOLEAN
        /\ local' \in [AppThreads -> Contexts \cup {Null}]
        /\ registry' \in [AppThreads -> Contexts \cup {Null}]
        /\ dead' \subseteq AppThreads
    BY <1>3 DEF ContextInv, TaskTypes
  <2>3. QED
    BY <1>2, <2>1, <2>2, TaskMoves DEF ContextInv
<1>5. LockedFields'
  <2>1. UNCHANGED holderVars
    BY <1>3 DEF holderVars
  <2>2. QED
    BY <1>2, <1>3, <2>1, OutsideLock DEF ContextInv
<1>6. Undisturbed'
  <2>1. CASE ReadClient(t)
    BY <2>1 DEF ContextInv, TaskTypes, TaskRecord, LockedFields, Undisturbed, Asking, ReadClient,
       On, holderVars, registryVars, TaskPlaces
  <2>2. CASE KeepClient(t)
    BY <1>1, <2>2 DEF ContextInv, TaskTypes, TaskRecord, LockedFields, Undisturbed, Asking,
       KeepClient, On, holderVars, TaskPlaces
  <2>3. CASE ReturnClient(t)
    BY <2>3 DEF ContextInv, TaskTypes, TaskRecord, LockedFields, Undisturbed, Asking,
       ReturnClient, On, holderVars, registryVars, TaskPlaces
  <2>4. CASE UseClient(t)
    BY <2>4 DEF ContextInv, TaskTypes, TaskRecord, LockedFields, Undisturbed, Asking, UseClient,
       On, EndTask, NoTask, holderVars, registryVars, TaskPlaces
  <2>5. QED
    BY <2>1, <2>2, <2>3, <2>4
<1>7. QED
  BY <1>4, <1>5, <1>6 DEF ContextInv

\* A reset disturbs every call under way before it changes a field.
LEMMA ResetInv ==
    ASSUME ContextInv, NEW t \in AppThreads, ResetHolder(t) \/ DropClient(t) \/ DropFlag(t)
    PROVE  ContextInv'
<1>1. TaskTypes'
  <2>1. CASE ResetHolder(t)
    BY <2>1 DEF ContextInv, TaskTypes, TaskRecord, ResetHolder, On, Go, registryVars, TaskPlaces
  <2>2. CASE DropClient(t)
    BY ZenonT(60), <2>2 DEF ContextInv, TaskTypes, TaskRecord, DropClient, On, Go, registryVars, TaskPlaces
  <2>3. CASE DropFlag(t)
    BY <2>3 DEF ContextInv, TaskTypes, TaskRecord, DropFlag, EndTask, NoTask, registryVars, TaskPlaces
  <2>4. QED
    BY <2>1, <2>2, <2>3
<1>2. LockedFields'
  BY SMTT(30) DEF ContextInv, TaskTypes, TaskRecord, LockedFields, ResetHolder, DropClient, DropFlag, On,
     Go, EndTask, NoTask, registryVars, InLock, TaskPlaces
<1>3. Undisturbed'
  BY DEF ContextInv, TaskTypes, TaskRecord, LockedFields, Undisturbed, Asking, ResetHolder,
     DropClient, DropFlag, On, Go, EndTask, NoTask, registryVars, InLock, TaskPlaces
<1>4. QED
  BY <1>1, <1>2, <1>3 DEF ContextInv

-----------------------------------------------------------------------------
(* The registry *)

\* Setting or clearing a context leaves the holder alone, and takes a context's
\* client away only from calls it is noted for.
LEMMA SetInv ==
    ASSUME ContextInv, NEW t \in AppThreads, NEW c \in Contexts, SetContext(t, c) \/ ClearContext(t, c)
    PROVE  ContextInv'
<1>1. PICK w \in {"register", "unregister"} : task' = [task EXCEPT ![t].at = w]
  BY DEF SetContext, ClearContext, Go
<1> DEFINE k == [task[t] EXCEPT !.at = w]
<1>2. k \in TaskRecord /\ k.at = w /\ task' = [task EXCEPT ![t] = k]
  BY <1>1 DEF ContextInv, TaskTypes, TaskRecord, TaskPlaces
<1>3. UNCHANGED holderVars /\ task[t].at = "rest"
  BY DEF SetContext, ClearContext, On
<1>4. TaskTypes'
  BY <1>2, <1>3 DEF ContextInv, TaskTypes, SetContext, ClearContext, holderVars
<1>5. LockedFields'
  BY <1>2, <1>3, OutsideLock DEF ContextInv, InLock
<1>6. Undisturbed'
  BY <1>1, <1>3 DEF ContextInv, TaskTypes, TaskRecord, Undisturbed, Asking, SetContext,
     ClearContext, On, Go, holderVars, TaskPlaces
<1>7. QED
  BY <1>4, <1>5, <1>6 DEF ContextInv

LEMMA RegisterInv ==
    ASSUME ContextInv, NEW t \in AppThreads,
           Register(t) \/ Unregister(t) \/ CleanUp(t) \/ EndThread(t)
    PROVE  ContextInv'
<1>1. UNCHANGED <<holderVars, ctxClient, resetSince>>
  BY DEF Register, Unregister, CleanUp, EndThread
<1>2. /\ registry' \in [AppThreads -> Contexts \cup {Null}]
      /\ local' \in [AppThreads -> Contexts \cup {Null}]
      /\ dead' \subseteq AppThreads
  BY DEF ContextInv, TaskTypes, Register, Unregister, CleanUp, EndThread, Purged
<1>3. CASE UNCHANGED task
  BY <1>1, <1>2, <1>3 DEF ContextInv, TaskTypes, LockedFields, Undisturbed, Asking, holderVars
<1>4. CASE /\ task' = [task EXCEPT ![t] = NoTask] /\ task[t].at \in {"register", "unregister"}
  <2>1. NoTask \in TaskRecord /\ NoTask.at = "rest"
    BY DEF NoTask, TaskRecord, TaskPlaces
  <2>2. TaskTypes'
    <3>1. /\ client' \in Clients \cup {Null} /\ initialized' \in BOOLEAN
          /\ ctxClient' \in [Contexts -> Clients \cup {Null}]
      BY <1>1 DEF ContextInv, TaskTypes, holderVars
    <3>2. QED
      BY <1>2, <1>4, <2>1, <3>1, TaskMoves DEF ContextInv
  <2>3. LockedFields'
    BY <1>1, <1>4, <2>1, OutsideLock DEF ContextInv, InLock
  <2>4. Undisturbed'
    BY <1>1, <1>4, <2>1 DEF ContextInv, TaskTypes, Undisturbed, Asking, holderVars
  <2>5. QED
    BY <2>2, <2>3, <2>4 DEF ContextInv
<1>5. QED
  BY <1>3, <1>4 DEF Register, Unregister, CleanUp, EndThread, EndTask, On

\* RegistryFollows, and that a thread unregisters itself after it has let its context go.
RegistryInv ==
    RegistryFollows /\ \A t \in AppThreads : task[t].at = "unregister" => local[t] = Null

\* Only its own thread changes what a live thread has, and it is in the middle of
\* that until the registry has it too.
LEMMA RegistryStep == TaskTypes /\ RegistryInv /\ [ContextNext]_contextVars => RegistryInv'
<1> SUFFICES ASSUME TaskTypes, RegistryInv, [ContextNext]_contextVars, NEW u \in AppThreads
             PROVE  /\ u \notin dead' /\ task'[u].at \notin {"register", "unregister"} =>
                          registry'[u] = local'[u]
                    /\ task'[u].at = "unregister" => local'[u] = Null
  BY DEF RegistryInv, RegistryFollows, Alive, On
<1> DEFINE Goal == /\ u \notin dead' /\ task'[u].at \notin {"register", "unregister"} =>
                         registry'[u] = local'[u]
                   /\ task'[u].at = "unregister" => local'[u] = Null
<1>1. CASE /\ UNCHANGED <<local, registry, dead>>
           /\ \/ task'[u].at = task[u].at
              \/ {task[u].at, task'[u].at} \cap {"register", "unregister"} = {}
  BY <1>1 DEF RegistryInv, RegistryFollows, Alive, On
<1>2. ASSUME NEW t \in AppThreads, NEW c \in Contexts, SetContext(t, c) \/ ClearContext(t, c)
      PROVE  Goal
  BY <1>2 DEF SetContext, ClearContext, Go, On, TaskTypes, TaskRecord, RegistryInv,
     RegistryFollows, Alive
<1>3. ASSUME NEW t \in AppThreads, Register(t) \/ Unregister(t)
      PROVE  Goal
  <2>1. CASE u = t
    <3>1. CASE Register(t)
      BY <2>1, <3>1 DEF Register, Purged, TaskTypes, EndTask, NoTask
    <3>2. CASE Unregister(t)
      BY <2>1, <3>2 DEF Unregister, On, TaskTypes, EndTask, NoTask, RegistryInv
    <3>3. QED
      BY <1>3, <3>1, <3>2
  <2>2. CASE u # t
    BY <1>3, <2>2 DEF Register, Unregister, Purged, EndTask, TaskTypes, RegistryInv,
       RegistryFollows, Alive, On
  <2>3. QED
    BY <2>1, <2>2
<1>4. ASSUME NEW t \in AppThreads, CleanUp(t) \/ EndThread(t)
      PROVE  Goal
  BY <1>4 DEF CleanUp, EndThread, Purged, TaskTypes, RegistryInv, RegistryFollows, Alive, On
<1>5. ASSUME NEW t \in AppThreads,
             AskContext(t) \/ AskHolder(t) \/ CheckInitialized(t) \/ TakeHolderLock(t)
             \/ CreateClient(t) \/ SetInitialized(t) \/ ReadClient(t) \/ KeepClient(t)
             \/ ReturnClient(t) \/ UseClient(t) \/ ResetHolder(t) \/ DropClient(t) \/ DropFlag(t)
      PROVE  /\ UNCHANGED <<local, registry, dead>>
             /\ {task[t].at, task'[t].at} \cap {"register", "unregister"} = {}
             /\ \A v \in AppThreads \ {t} : task'[v] = task[v]
  BY <1>5 DEF AskContext, AskHolder, CheckInitialized, TakeHolderLock, CreateClient,
     SetInitialized, ReadClient, KeepClient, ReturnClient, UseClient, ResetHolder, DropClient,
     DropFlag, On, Go, EndTask, NoTask, registryVars, TaskTypes
<1>6. CASE UNCHANGED contextVars
  BY <1>1, <1>6 DEF contextVars
<1>7. QED
  BY <1>1, <1>2, <1>3, <1>4, <1>5, <1>6 DEF ContextNext

-----------------------------------------------------------------------------
LEMMA ContextStepInv == ContextInv /\ [ContextNext]_contextVars => ContextInv'
<1> SUFFICES ASSUME ContextInv, [ContextNext]_contextVars PROVE ContextInv'
  OBVIOUS
<1>1. CASE UNCHANGED contextVars
  BY <1>1 DEF contextVars, ContextInv, TaskTypes, LockedFields, Undisturbed, Asking
<1>2. CASE ContextNext
  BY <1>2, AskInv, CheckInv, CreateInv, AnswerInv, ResetInv, SetInv, RegisterInv DEF ContextNext
<1>3. QED
  BY <1>1, <1>2

\* What the holder of the client and the registry keep, whatever the threads do.
THEOREM ContextInvariant == ContextSpec => [](ContextInv /\ RegistryInv)
<1>1. ContextInit => ContextInv /\ RegistryInv
  BY ContextInitInv DEF RegistryInv, ContextInit, NoTask
<1>2. ContextInv /\ RegistryInv /\ [ContextNext]_contextVars => (ContextInv /\ RegistryInv)'
  BY ContextStepInv, RegistryStep DEF ContextInv
<1>3. QED
  BY <1>1, <1>2, PTL DEF ContextSpec

\* The double-checked lock (telemetry.py:173) gives every thread the one client, for
\* any number of threads that ask first at the same time.
THEOREM OneClient == ContextSpec => []ClientIsShared
<1>1. ContextInv /\ RegistryInv => ClientIsShared
  BY DEF ContextInv, Undisturbed, Asking, ClientIsShared, On
<1>2. QED
  BY <1>1, ContextInvariant, PTL

\* The registry of contexts (context.py) agrees with the threads' own, for any number
\* of threads that share contexts, end, or clean up.
THEOREM RegistryAgrees == ContextSpec => []RegistryFollows
<1>1. ContextInv /\ RegistryInv => RegistryFollows
  BY DEF RegistryInv
<1>2. QED
  BY <1>1, ContextInvariant, PTL

-----------------------------------------------------------------------------
(***************************************************************************)
(* ResourceManager                                                         *)
(*                                                                         *)
(* Until "with manager" blocks have overlapped, Managed says that one      *)
(* block at a time has the manager's field for itself, so that its exit    *)
(* finishes its own operation; Numbered, that identifiers are shared only  *)
(* by as many operations as were issued them; Slots, how the count of      *)
(* slots stands to the operations that hold one, and that it is never more *)
(* than those still to be finished, which is why a count that is taken     *)
(* down twice for one operation does no lasting harm.                      *)
(***************************************************************************)

Stages == {"rest", "number", "stamp", "enter", "run", "exit", "clear"}

WorkRecord == [at : Stages, op : Ids \cup {NoOperation}, managed : BOOLEAN, held : BOOLEAN]

\* Operations that have an identifier, whose slot has not been returned, and
\* which have yet to be finished for the last time.
Issued == {"stamp", "enter", "run", "exit", "clear"}
Open == {"stamp", "enter", "run", "exit"}
Inside == {"run", "exit", "clear"}  \* of a "with manager"

Holding == {w \in Workers : work[w].held}
Unfinished == {w \in Workers : work[w].at \in Open}

ResourceTypes ==
    /\ active \in Nat /\ counter \in 0..MaxStarts
    /\ startTimes \subseteq Ids
    /\ currentOp \in Ids \cup {NoOperation}
    /\ work \in [Workers -> WorkRecord]
    /\ doubled \in BOOLEAN /\ nested \in BOOLEAN
    /\ issued \in [Ids -> Nat]

Stands ==
    \A w \in Workers :
        /\ work[w].at = "number" => counter \in Ids
        /\ work[w].at \in Issued <=> work[w].op # NoOperation
        /\ work[w].held => work[w].at \in Open
        /\ work[w].at \in {"stamp", "enter", "run"} => work[w].held
        /\ work[w].at = "clear" => work[w].managed
        /\ work[w].at = "enter" => work[w].managed

\* The manager's field belongs to the one block that is inside.
Managed ==
    ~nested =>
        /\ \A w \in Workers : work[w].managed /\ work[w].at \in Inside => currentOp = work[w].op
        /\ \A v, w \in Workers :
              /\ work[v].managed /\ work[v].at \in Inside
              /\ work[w].managed /\ work[w].at \in Inside
              => v = w

Numbered ==
    /\ \A w \in Workers : work[w].op # NoOperation => issued[work[w].op] >= 1
    /\ \A v, w \in Workers :
          v # w /\ work[v].op = work[w].op /\ work[w].op # NoOperation => issued[work[w].op] >= 2
    /\ \A w \in Workers :
          work[w].at \in {"enter", "run"} /\ issued[work[w].op] = 1 /\ ~nested =>
              work[w].op \in startTimes

Slots ==
    ~nested =>
        /\ active <= Cardinality(Unfinished)
        /\ ~doubled => active = Cardinality(Holding)

ResourceInv == ResourceTypes /\ Stands /\ Managed /\ Numbered /\ Slots

USE ResourceAssumption

-----------------------------------------------------------------------------
(* Counting *)

LEMMA CountsAreFinite ==
    /\ IsFiniteSet(Holding) /\ Cardinality(Holding) \in Nat
    /\ IsFiniteSet(Unfinished) /\ Cardinality(Unfinished) \in Nat
<1>1. Holding \subseteq Workers /\ Unfinished \subseteq Workers
  BY DEF Holding, Unfinished
<1>2. QED
  BY <1>1, FS_Subset, FS_CardinalityType

\* What becomes of the two counts when one worker moves.
LEMMA CountsMove ==
    ASSUME ResourceTypes, NEW w \in Workers, NEW k \in WorkRecord, work' = [work EXCEPT ![w] = k]
    PROVE  /\ k.held = work[w].held => Cardinality(Holding)' = Cardinality(Holding)
           /\ k.held /\ ~work[w].held => Cardinality(Holding)' = Cardinality(Holding) + 1
           /\ ~k.held /\ work[w].held =>
                 Cardinality(Holding)' = Cardinality(Holding) - 1 /\ Cardinality(Holding) >= 1
           /\ (k.at \in Open <=> work[w].at \in Open) =>
                 Cardinality(Unfinished)' = Cardinality(Unfinished)
           /\ k.at \in Open /\ work[w].at \notin Open =>
                 Cardinality(Unfinished)' = Cardinality(Unfinished) + 1
           /\ k.at \notin Open /\ work[w].at \in Open =>
                 Cardinality(Unfinished)' = Cardinality(Unfinished) - 1 /\ Cardinality(Unfinished) >= 1
<1>1. /\ k.held => Holding' = Holding \cup {w}
      /\ ~k.held => Holding' = Holding \ {w}
      /\ w \in Holding <=> work[w].held
  BY DEF Holding, ResourceTypes, WorkRecord
<1>2. /\ k.at \in Open => Unfinished' = Unfinished \cup {w}
      /\ k.at \notin Open => Unfinished' = Unfinished \ {w}
      /\ w \in Unfinished <=> work[w].at \in Open
  BY DEF Unfinished, ResourceTypes, WorkRecord
<1>3. Cardinality(Holding)' = Cardinality(Holding') /\ Cardinality(Unfinished)' = Cardinality(Unfinished')
  OBVIOUS
<1>4. k.held \in BOOLEAN /\ work[w].held \in BOOLEAN
  BY DEF ResourceTypes, WorkRecord
<1>5. /\ w \notin Holding => Cardinality(Holding \cup {w}) = Cardinality(Holding) + 1
      /\ w \in Holding =>
            Cardinality(Holding \ {w}) = Cardinality(Holding) - 1 /\ Cardinality(Holding) >= 1
      /\ w \in Holding => Holding \cup {w} = Holding
      /\ w \notin Holding => Holding \ {w} = Holding
  BY OneElement, CountsAreFinite
<1>6. /\ w \notin Unfinished => Cardinality(Unfinished \cup {w}) = Cardinality(Unfinished) + 1
      /\ w \in Unfinished =>
            Cardinality(Unfinished \ {w}) = Cardinality(Unfinished) - 1 /\ Cardinality(Unfinished) >= 1
      /\ w \in Unfinished => Unfinished \cup {w} = Unfinished
      /\ w \notin Unfinished => Unfinished \ {w} = Unfinished
  BY OneElement, CountsAreFinite
<1>7. /\ k.held = work[w].held => Cardinality(Holding)' = Cardinality(Holding)
      /\ k.held /\ ~work[w].held => Cardinality(Holding)' = Cardinality(Holding) + 1
      /\ ~k.held /\ work[w].held =>
            Cardinality(Holding)' = Cardinality(Holding) - 1 /\ Cardinality(Holding) >= 1
  BY <1>1, <1>3, <1>4, <1>5
<1>8. /\ (k.at \in Open <=> work[w].at \in Open) => Cardinality(Unfinished)' = Cardinality(Unfinished)
      /\ k.at \in Open /\ work[w].at \notin Open =>
            Cardinality(Unfinished)' = Cardinality(Unfinished) + 1
      /\ k.at \notin Open /\ work[w].at \in Open =>
            Cardinality(Unfinished)' = Cardinality(Unfinished) - 1 /\ Cardinality(Unfinished) >= 1
  BY <1>2, <1>3, <1>6
<1>9. QED
  BY <1>7, <1>8

\* The counts change with the work alone.
LEMMA CountsStay ==
    ASSUME UNCHANGED work
    PROVE  UNCHANGED <<Holding, Unfinished>>
  BY DEF Holding, Unfinished

-----------------------------------------------------------------------------
(* The steps of an operation *)

LEMMA ResourceInitInv == ResourceInit => ResourceInv
<1> SUFFICES ASSUME ResourceInit PROVE ResourceInv
  OBVIOUS
<1>1. Holding = {} /\ Unfinished = {}
  BY DEF ResourceInit, Holding, Unfinished, NoWork, Open
<1>2. Slots
  BY <1>1, FS_EmptySet DEF ResourceInit, Slots
<1>3. ResourceTypes
  <2>1. NoWork \in WorkRecord
    BY DEF NoWork, WorkRecord, Stages
  <2>2. 0 \in 0..MaxStarts
    OBVIOUS
  <2>3. QED
    BY <2>1, <2>2 DEF ResourceInit, ResourceTypes
<1>4. Stands /\ Managed /\ Numbered
  BY DEF ResourceInit, Stands, Managed, Numbered, NoWork, Issued, Open, Inside
<1>5. QED
  BY <1>2, <1>3, <1>4 DEF ResourceInv

LEMMA BeginInv ==
    ASSUME ResourceInv, NEW w \in Workers, NEW managed \in BOOLEAN, Begin(w, managed)
    PROVE  ResourceInv'
<1> DEFINE k == [NoWork EXCEPT !.at = "number", !.managed = managed]
<1>1. k \in WorkRecord /\ work' = [work EXCEPT ![w] = k]
  BY DEF Begin, NoWork, WorkRecord, Stages
<1>2. /\ k.at = "number" /\ k.op = NoOperation /\ ~k.held /\ work[w].at = "rest"
      /\ work \in [Workers -> WorkRecord]
  BY DEF NoWork, Begin, ResourceInv, ResourceTypes
<1> HIDE DEF k
<1>3. ResourceTypes'
  BY <1>1, <1>2 DEF Begin, ResourceInv, ResourceTypes, Ids
<1>4. Stands'
  <2>1. counter' \in Ids
    BY DEF Begin, ResourceInv, ResourceTypes, Ids
  <2>2. \A v \in Workers \ {w} : work'[v] = work[v]
    BY <1>1, <1>2
  <2>3. work'[w] = k
    BY <1>1, <1>2
  <2>4. QED
    BY <1>2, <2>1, <2>2, <2>3 DEF ResourceInv, Stands, Issued, Open
<1>5. Managed'
  BY <1>1, <1>2 DEF Begin, ResourceInv, Managed, Inside
<1>6. Numbered'
  BY <1>1, <1>2 DEF Begin, ResourceInv, Numbered
<1>7. ~work[w].held
  BY <1>2 DEF ResourceInv, Stands, Open
<1>8. Cardinality(Holding)' = Cardinality(Holding) /\ Cardinality(Unfinished)' = Cardinality(Unfinished)
  <2>1. k.held = work[w].held
    BY <1>1, <1>2, <1>7 DEF WorkRecord
  <2>2. k.at \notin Open /\ work[w].at \notin Open
    BY <1>2 DEF Open
  <2>3. QED
    BY <1>1, <2>1, <2>2, CountsMove DEF ResourceInv
<1>9. Slots'
  BY <1>8 DEF Begin, ResourceInv, Slots
<1>10. QED
  BY <1>3, <1>4, <1>5, <1>6, <1>9 DEF ResourceInv

LEMMA NumberInv ==
    ASSUME ResourceInv, NEW w \in Workers, Number(w)
    PROVE  ResourceInv'
<1> DEFINE k == [work[w] EXCEPT !.at = "stamp", !.op = counter, !.held = TRUE]
<1>1. /\ work \in [Workers -> WorkRecord] /\ work[w].at = "number"
      /\ work[w].op = NoOperation /\ ~work[w].held /\ counter \in Ids
  BY DEF Number, ResourceInv, ResourceTypes, Stands, Issued, Open
<1>2. k \in WorkRecord /\ work' = [work EXCEPT ![w] = k]
  BY <1>1 DEF Number, WorkRecord, Stages
<1>3. k.at = "stamp" /\ k.op = counter /\ k.held /\ k.managed = work[w].managed
  BY <1>1 DEF WorkRecord
<1> HIDE DEF k
<1>4. /\ issued' \in [Ids -> Nat] /\ issued'[counter] = issued[counter] + 1
      /\ \A i \in Ids : i # counter => issued'[i] = issued[i]
  BY <1>1 DEF Number, ResourceInv, ResourceTypes
<1>5. ResourceTypes'
  <2>1. /\ active' \in Nat
        /\ UNCHANGED <<counter, startTimes, currentOp, doubled, nested>>
    BY DEF Number, ResourceInv, ResourceTypes
  <2>2. work' \in [Workers -> WorkRecord]
    BY <1>1, <1>2
  <2>3. QED
    BY <1>4, <2>1, <2>2 DEF ResourceInv, ResourceTypes
<1>6. Stands'
  <2>1. \A v \in Workers \ {w} : work'[v] = work[v]
    BY <1>1, <1>2
  <2>2. work'[w] = k
    BY <1>1, <1>2
  <2>3. counter # NoOperation /\ counter' = counter
    BY <1>1 DEF Ids, Number
  <2>4. QED
    BY <1>1, <1>3, <2>1, <2>2, <2>3 DEF ResourceInv, Stands, Issued, Open
<1>7. Managed'
  BY <1>1, <1>2, <1>3 DEF Number, ResourceInv, Managed, Inside
<1>8. Numbered'
  BY <1>1, <1>2, <1>3, <1>4, Z3 DEF Number, ResourceInv, ResourceTypes, WorkRecord, Numbered
<1>9. /\ Cardinality(Holding)' = Cardinality(Holding) + 1
      /\ Cardinality(Unfinished)' = Cardinality(Unfinished) + 1
  BY <1>1, <1>2, <1>3, CountsMove, CountsAreFinite DEF ResourceInv, Open
<1>10. Slots'
  BY <1>9, CountsAreFinite DEF Number, ResourceInv, ResourceTypes, Slots
<1>11. QED
  BY <1>5, <1>6, <1>7, <1>8, <1>10 DEF ResourceInv

\* A step that only moves an operation that has an identifier and has yet to be
\* finished: its record keeps all but its place.
LEMMA MovesOn ==
    ASSUME ResourceInv, NEW w \in Workers, NEW k \in WorkRecord, work' = [work EXCEPT ![w] = k],
           work[w].at \in Open, k = [work[w] EXCEPT !.at = k.at], k.at \in Open,
           k.at \in {"enter"} => work[w].managed, k.at \in {"stamp", "enter", "run"} => work[w].held,
           UNCHANGED <<active, counter, doubled, issued>>
    PROVE  Stands' /\ Cardinality(Holding)' = Cardinality(Holding)
                   /\ Cardinality(Unfinished)' = Cardinality(Unfinished)
<1>1. work \in [Workers -> WorkRecord]
  BY DEF ResourceInv, ResourceTypes
<1>2. k.op = work[w].op /\ k.held = work[w].held /\ k.managed = work[w].managed
  BY <1>1 DEF WorkRecord
<1>3. Stands'
  BY <1>1, <1>2 DEF ResourceInv, Stands, Issued, Open
<1>4. /\ Cardinality(Holding)' = Cardinality(Holding)
      /\ Cardinality(Unfinished)' = Cardinality(Unfinished)
  BY <1>1, <1>2, CountsMove, CountsAreFinite DEF ResourceInv
<1>5. QED
  BY <1>3, <1>4

LEMMA StampStartInv ==
    ASSUME ResourceInv, NEW w \in Workers, StampStart(w)
    PROVE  ResourceInv'
<1> DEFINE k == [work[w] EXCEPT !.at = IF work[w].managed THEN "enter" ELSE "run"]
<1>1. /\ work \in [Workers -> WorkRecord] /\ work[w].at = "stamp" /\ work[w].held
      /\ work[w].op # NoOperation /\ work[w].op \in Ids
  BY DEF StampStart, Advance, ResourceInv, ResourceTypes, WorkRecord, Stands, Issued, Open
<1>2. k \in WorkRecord /\ work' = [work EXCEPT ![w] = k]
  BY <1>1 DEF StampStart, Advance, WorkRecord, Stages
<1>3. /\ k.at = (IF work[w].managed THEN "enter" ELSE "run")
      /\ k.op = work[w].op /\ k.managed = work[w].managed
  BY <1>1 DEF WorkRecord
<1>4. k = [work[w] EXCEPT !.at = k.at]
  BY <1>1 DEF WorkRecord
<1> HIDE DEF k
<1>5. /\ Stands' /\ Cardinality(Holding)' = Cardinality(Holding)
      /\ Cardinality(Unfinished)' = Cardinality(Unfinished)
  BY <1>1, <1>2, <1>3, <1>4, MovesOn DEF StampStart, Open
<1>6. ResourceTypes'
  BY <1>1, <1>2 DEF StampStart, ResourceInv, ResourceTypes
<1>7. Managed'
  BY <1>1, <1>2, <1>3 DEF StampStart, ResourceInv, Managed, Inside
<1>8. Numbered'
  BY <1>1, <1>2, <1>3 DEF StampStart, ResourceInv, Numbered
<1>9. Slots'
  BY <1>5 DEF StampStart, ResourceInv, Slots
<1>10. QED
  BY <1>5, <1>6, <1>7, <1>8, <1>9 DEF ResourceInv

LEMMA EnterManagerInv ==
    ASSUME ResourceInv, NEW w \in Workers, EnterManager(w)
    PROVE  ResourceInv'
<1> DEFINE k == [work[w] EXCEPT !.at = "run"]
<1>1. /\ work \in [Workers -> WorkRecord] /\ work[w].at = "enter" /\ work[w].held
      /\ work[w].op # NoOperation /\ work[w].op \in Ids /\ work[w].managed
  BY DEF EnterManager, Advance, ResourceInv, ResourceTypes, WorkRecord, Stands, Issued, Open
<1>2. k \in WorkRecord /\ work' = [work EXCEPT ![w] = k]
  BY <1>1 DEF EnterManager, Advance, WorkRecord, Stages
<1>3. k.at = "run" /\ k.op = work[w].op /\ k.managed
  BY <1>1 DEF WorkRecord
<1>4. k = [work[w] EXCEPT !.at = k.at]
  BY <1>1 DEF WorkRecord
<1> HIDE DEF k
<1>5. /\ Stands' /\ Cardinality(Holding)' = Cardinality(Holding)
      /\ Cardinality(Unfinished)' = Cardinality(Unfinished)
  BY <1>1, <1>2, <1>3, <1>4, MovesOn DEF EnterManager, Open
<1>6. ResourceTypes'
  BY <1>1, <1>2 DEF EnterManager, ResourceInv, ResourceTypes
<1>7. Managed'
  <2> SUFFICES ASSUME ~nested' PROVE Managed'
    BY DEF Managed
  <2>1. ~nested /\ currentOp = NoOperation /\ currentOp' = work[w].op
    BY <1>6 DEF EnterManager, ResourceTypes, ResourceInv
  <2>2. \A v \in Workers : ~(work[v].managed /\ work[v].at \in Inside)
    BY <2>1 DEF ResourceInv, Managed, Stands, Inside, Issued
  <2>3. QED
    BY <1>1, <1>2, <1>3, <2>1, <2>2 DEF Managed
<1>8. Numbered'
  BY <1>1, <1>2, <1>3 DEF EnterManager, ResourceInv, Numbered
<1>9. Slots'
  BY <1>5 DEF EnterManager, ResourceInv, Slots
<1>10. QED
  BY <1>5, <1>6, <1>7, <1>8, <1>9 DEF ResourceInv

LEMMA EndBodyInv ==
    ASSUME ResourceInv, NEW w \in Workers, EndBody(w)
    PROVE  ResourceInv'
<1> DEFINE k == [work[w] EXCEPT !.at = "exit"]
<1>1. work \in [Workers -> WorkRecord] /\ work[w].at = "run"
  BY DEF EndBody, Advance, ResourceInv, ResourceTypes
<1>2. k \in WorkRecord /\ work' = [work EXCEPT ![w] = k]
  BY <1>1 DEF EndBody, Advance, WorkRecord, Stages
<1>3. k.at = "exit" /\ k.op = work[w].op /\ k.managed = work[w].managed
  BY <1>1 DEF WorkRecord
<1>4. k = [work[w] EXCEPT !.at = k.at]
  BY <1>1 DEF WorkRecord
<1> HIDE DEF k
<1>5. /\ Stands' /\ Cardinality(Holding)' = Cardinality(Holding)
      /\ Cardinality(Unfinished)' = Cardinality(Unfinished)
  BY <1>1, <1>2, <1>3, <1>4, MovesOn DEF EndBody, Open
<1>6. ResourceTypes'
  BY <1>1, <1>2 DEF EndBody, ResourceInv, ResourceTypes
<1>7. Managed'
  BY <1>1, <1>2, <1>3 DEF EndBody, ResourceInv, Managed, Inside
<1>8. Numbered'
  BY <1>1, <1>2, <1>3 DEF EndBody, ResourceInv, Numbered
<1>9. Slots'
  BY <1>5 DEF EndBody, ResourceInv, Slots
<1>10. QED
  BY <1>5, <1>6, <1>7, <1>8, <1>9 DEF ResourceInv

-----------------------------------------------------------------------------
(* The ways an operation is finished *)

LEMMA CheckRaisesInv ==
    ASSUME ResourceInv, NEW w \in Workers, CheckRaises(w)
    PROVE  ResourceInv'
<1> DEFINE k == [work[w] EXCEPT !.at = "exit", !.held = FALSE]
<1>1. /\ work \in [Workers -> WorkRecord] /\ work[w].at = "run" /\ work[w].held
      /\ work[w].op # NoOperation
  BY DEF CheckRaises, ResourceInv, ResourceTypes, Stands, Issued
<1>2. k \in WorkRecord /\ work' = [work EXCEPT ![w] = k]
  BY <1>1 DEF CheckRaises, WorkRecord, Stages
<1>3. k.at = "exit" /\ k.op = work[w].op /\ k.managed = work[w].managed /\ ~k.held
  BY <1>1 DEF WorkRecord
<1> HIDE DEF k
<1>4. /\ active' = (IF active > 0 THEN active - 1 ELSE 0) /\ startTimes' = startTimes \ {work[w].op}
      /\ doubled' = doubled /\ UNCHANGED <<counter, nested, issued, currentOp>>
  BY <1>1 DEF CheckRaises, Finishes, ResourceInv, ResourceTypes
<1>5. ResourceTypes'
  BY <1>2, <1>4 DEF ResourceInv, ResourceTypes
<1>6. Stands'
  BY <1>1, <1>2, <1>3, <1>4 DEF ResourceInv, Stands, Issued, Open
<1>7. Managed'
  BY <1>1, <1>2, <1>3, <1>4 DEF ResourceInv, Managed, Inside
<1>8. Numbered'
  BY <1>1, <1>2, <1>3, <1>4 DEF ResourceInv, ResourceTypes, Stands, Issued, Numbered
<1>9. /\ Cardinality(Holding)' = Cardinality(Holding) - 1
      /\ Cardinality(Unfinished)' = Cardinality(Unfinished)
      /\ Cardinality(Holding) >= 1
  BY <1>1, <1>2, <1>3, CountsMove DEF ResourceInv, Open
<1>10. Slots'
  BY <1>4, <1>9, CountsAreFinite DEF ResourceInv, ResourceTypes, Slots
<1>11. QED
  BY <1>5, <1>6, <1>7, <1>8, <1>10 DEF ResourceInv

\* The count taken down for an operation that is finished for the last time.
LEMMA FinishedSlots ==
    ASSUME ResourceTypes, Slots, NEW w \in Workers,
           active' = IF active > 0 THEN active - 1 ELSE 0,
           ~doubled' => ~doubled /\ work[w].held, UNCHANGED nested,
           Cardinality(Unfinished)' = Cardinality(Unfinished) - 1, Cardinality(Unfinished) >= 1,
           work[w].held =>
              Cardinality(Holding)' = Cardinality(Holding) - 1 /\ Cardinality(Holding) >= 1
    PROVE  Slots'
<1> SUFFICES ASSUME ~nested'
             PROVE  /\ active' <= Cardinality(Unfinished)'
                    /\ ~doubled' => active' = Cardinality(Holding)'
  BY DEF Slots
<1>1. ~nested /\ active \in Nat /\ active <= Cardinality(Unfinished)
  BY DEF Slots, ResourceTypes
<1>2. active' <= Cardinality(Unfinished)'
  BY <1>1, CountsAreFinite
<1>3. ASSUME ~doubled' PROVE active' = Cardinality(Holding)'
  <2>1. active = Cardinality(Holding) /\ work[w].held
    BY <1>1, <1>3 DEF Slots
  <2>2. QED
    BY <1>1, <2>1, CountsAreFinite
<1>4. QED
  BY <1>2, <1>3

LEMMA ExitOperationInv ==
    ASSUME ResourceInv, NEW w \in Workers, ExitOperation(w)
    PROVE  ResourceInv'
<1>1. /\ work \in [Workers -> WorkRecord] /\ work[w].at = "exit" /\ ~work[w].managed
      /\ work[w].op # NoOperation
  BY DEF ExitOperation, ResourceInv, ResourceTypes, Stands, Issued
<1>2. NoWork \in WorkRecord /\ work' = [work EXCEPT ![w] = NoWork]
  BY DEF ExitOperation, NoWork, WorkRecord, Stages
<1>3. NoWork.at = "rest" /\ NoWork.op = NoOperation /\ ~NoWork.held /\ ~NoWork.managed
  BY DEF NoWork
<1>4. /\ active' = (IF active > 0 THEN active - 1 ELSE 0) /\ startTimes' = startTimes \ {work[w].op}
      /\ doubled' = (doubled \/ ~work[w].held) /\ UNCHANGED <<counter, nested, issued, currentOp>>
  BY DEF ExitOperation, Finishes
<1>5. ResourceTypes'
  BY <1>1, <1>2, <1>4 DEF ResourceInv, ResourceTypes, WorkRecord
<1>6. Stands'
  BY <1>1, <1>2, <1>3, <1>4 DEF ResourceInv, Stands, Issued, Open
<1>7. Managed'
  BY <1>1, <1>2, <1>3, <1>4 DEF ResourceInv, Managed, Inside
<1>8. Numbered'
  BY <1>1, <1>2, <1>3, <1>4 DEF ResourceInv, ResourceTypes, Stands, Issued, Numbered
<1>9. /\ Cardinality(Unfinished)' = Cardinality(Unfinished) - 1 /\ Cardinality(Unfinished) >= 1
      /\ work[w].held =>
            Cardinality(Holding)' = Cardinality(Holding) - 1 /\ Cardinality(Holding) >= 1
  BY <1>1, <1>2, <1>3, CountsMove DEF ResourceInv, Open
<1>10. Slots'
  BY <1>1, <1>4, <1>9, FinishedSlots DEF ResourceInv
<1>11. QED
  BY <1>5, <1>6, <1>7, <1>8, <1>10 DEF ResourceInv

\* A manager that nobody else has entered finishes its own operation.
LEMMA ExitManagerInv ==
    ASSUME ResourceInv, NEW w \in Workers, ExitManager(w)
    PROVE  ResourceInv'
<1>1. /\ work \in [Workers -> WorkRecord] /\ work[w].at = "exit" /\ work[w].managed
      /\ work[w].op # NoOperation /\ nested \in BOOLEAN
  BY DEF ExitManager, ResourceInv, ResourceTypes, Stands, Issued
<1>2. ~nested => currentOp = work[w].op
  BY <1>1 DEF ResourceInv, Managed, Inside
<1>3. CASE currentOp = NoOperation
  <2>1. nested /\ UNCHANGED <<active, counter, startTimes, doubled, nested, issued, currentOp>>
    BY <1>1, <1>2, <1>3 DEF ExitManager
  <2>2. NoWork \in WorkRecord /\ work' = [work EXCEPT ![w] = NoWork]
    BY <1>3 DEF ExitManager, NoWork, WorkRecord, Stages
  <2>3. NoWork.at = "rest" /\ NoWork.op = NoOperation /\ ~NoWork.held
    BY DEF NoWork
  <2>4. ResourceTypes'
    BY <1>1, <2>1, <2>2 DEF ResourceInv, ResourceTypes
  <2>5. Stands'
    BY <1>1, <2>1, <2>2, <2>3 DEF ResourceInv, Stands, Issued, Open
  <2>6. Managed' /\ Slots'
    BY <2>1 DEF Managed, Slots
  <2>7. Numbered'
    BY <1>1, <2>1, <2>2, <2>3 DEF ResourceInv, Numbered
  <2>8. QED
    BY <2>4, <2>5, <2>6, <2>7 DEF ResourceInv
<1>4. CASE currentOp # NoOperation
  <2> DEFINE k == [work[w] EXCEPT !.at = "clear", !.held = FALSE]
  <2>1. k \in WorkRecord /\ work' = [work EXCEPT ![w] = k]
    BY <1>1, <1>4 DEF ExitManager, WorkRecord, Stages
  <2>2. k.at = "clear" /\ k.op = work[w].op /\ k.managed /\ ~k.held
    BY <1>1 DEF WorkRecord
  <2> HIDE DEF k
  <2>3. /\ active' = (IF active > 0 THEN active - 1 ELSE 0) /\ startTimes' = startTimes \ {currentOp}
        /\ doubled' = (doubled \/ ~work[w].held \/ work[w].op # currentOp)
        /\ UNCHANGED <<counter, nested, issued, currentOp>>
    BY <1>4 DEF ExitManager, Finishes
  <2>4. ResourceTypes'
    BY <1>1, <2>1, <2>3 DEF ResourceInv, ResourceTypes, WorkRecord
  <2>5. Stands'
    BY <1>1, <2>1, <2>2, <2>3 DEF ResourceInv, Stands, Issued, Open
  <2>6. Managed'
    BY <1>1, <2>1, <2>2, <2>3 DEF ResourceInv, Managed, Inside
  <2>7. Numbered'
    BY <1>1, <1>2, <2>1, <2>2, <2>3 DEF ResourceInv, ResourceTypes, Stands, Issued, Numbered
  <2>8. /\ Cardinality(Unfinished)' = Cardinality(Unfinished) - 1 /\ Cardinality(Unfinished) >= 1
        /\ work[w].held =>
              Cardinality(Holding)' = Cardinality(Holding) - 1 /\ Cardinality(Holding) >= 1
    BY <1>1, <2>1, <2>2, CountsMove DEF ResourceInv, Open
  <2>9. Slots'
    BY <1>1, <2>3, <2>8, FinishedSlots DEF ResourceInv
  <2>10. QED
    BY <2>4, <2>5, <2>6, <2>7, <2>9 DEF ResourceInv
<1>5. QED
  BY <1>3, <1>4

LEMMA ClearManagerInv ==
    ASSUME ResourceInv, NEW w \in Workers, ClearManager(w)
    PROVE  ResourceInv'
<1>1. /\ work \in [Workers -> WorkRecord] /\ work[w].at = "clear" /\ work[w].managed
      /\ work[w].op # NoOperation /\ ~work[w].held
  BY DEF ClearManager, ResourceInv, ResourceTypes, Stands, Issued, Open
<1>2. NoWork \in WorkRecord /\ work' = [work EXCEPT ![w] = NoWork]
  BY DEF ClearManager, NoWork, WorkRecord, Stages
<1>3. NoWork.at = "rest" /\ NoWork.op = NoOperation /\ ~NoWork.held /\ ~NoWork.managed
  BY DEF NoWork
<1>4. currentOp' = NoOperation /\ UNCHANGED <<active, counter, startTimes, doubled, nested, issued>>
  BY DEF ClearManager
<1>5. ResourceTypes'
  BY <1>1, <1>2, <1>4 DEF ResourceInv, ResourceTypes
<1>6. Stands'
  BY <1>1, <1>2, <1>3, <1>4 DEF ResourceInv, Stands, Issued, Open
<1>7. Managed'
  BY <1>1, <1>2, <1>3, <1>4 DEF ResourceInv, Managed, Inside
<1>8. Numbered'
  BY <1>1, <1>2, <1>3, <1>4 DEF ResourceInv, Numbered
<1>9. /\ Cardinality(Holding)' = Cardinality(Holding)
      /\ Cardinality(Unfinished)' = Cardinality(Unfinished)
  <2>1. work[w].held = NoWork.held
    BY <1>1, <1>2, <1>3 DEF WorkRecord
  <2>2. QED
    BY <1>1, <1>2, <1>3, <2>1, CountsMove DEF ResourceInv, Open
<1>10. Slots'
  BY <1>4, <1>9 DEF ResourceInv, Slots
<1>11. QED
  BY <1>5, <1>6, <1>7, <1>8, <1>10 DEF ResourceInv

-----------------------------------------------------------------------------
(* Theorems *)

LEMMA ResourceStep == ResourceInv /\ [ResourceNext]_resourceVars => ResourceInv'
<1> SUFFICES ASSUME ResourceInv, [ResourceNext]_resourceVars PROVE ResourceInv'
  OBVIOUS
<1>1. CASE UNCHANGED resourceVars
  <2>1. UNCHANGED <<active, counter, startTimes, currentOp, work, doubled, nested, issued>>
    BY <1>1 DEF resourceVars
  <2>2. UNCHANGED <<Holding, Unfinished>>
    BY <2>1, CountsStay
  <2>3. ResourceTypes' /\ Stands' /\ Managed' /\ Numbered'
    BY <2>1 DEF ResourceInv, ResourceTypes, Stands, Managed, Numbered
  <2>4. Slots'
    BY <2>1, <2>2 DEF ResourceInv, Slots
  <2>5. QED
    BY <2>3, <2>4 DEF ResourceInv
<1>2. ASSUME NEW w \in Workers, NEW managed \in BOOLEAN, Begin(w, managed) PROVE ResourceInv'
  BY <1>2, BeginInv
<1>3. ASSUME NEW w \in Workers, Number(w) \/ StampStart(w) \/ EnterManager(w) \/ EndBody(w)
      PROVE  ResourceInv'
  BY <1>3, NumberInv, StampStartInv, EnterManagerInv, EndBodyInv
<1>4. ASSUME NEW w \in Workers,
             CheckRaises(w) \/ ExitOperation(w) \/ ExitManager(w) \/ ClearManager(w)
      PROVE  ResourceInv'
  BY <1>4, CheckRaisesInv, ExitOperationInv, ExitManagerInv, ClearManagerInv
<1>5. QED
  BY <1>1, <1>2, <1>3, <1>4 DEF ResourceNext

\* The strengthened invariant of the resource manager: the count of slots, the
\* identifiers, the start times and the manager's own field stand as the
\* operations that are under way require, for any number of threads.
THEOREM ResourceInvariant == ResourceSpec => []ResourceInv
<1>1. ResourceInit => ResourceInv
  BY ResourceInitInv
<1>2. ResourceInv /\ [ResourceNext]_resourceVars => ResourceInv'
  BY ResourceStep
<1>3. QED
  BY <1>1, <1>2, PTL DEF ResourceSpec

LEMMA SlotsFollow == ResourceInv => SlotsReturn
<1> SUFFICES ASSUME ResourceInv PROVE SlotsReturn
  OBVIOUS
<1>1. ASSUME \A w \in Workers : work[w].at = "rest", ~nested PROVE active = 0
  <2>1. Unfinished = {}
    BY <1>1 DEF Unfinished, Open
  <2>2. active <= 0 /\ active \in Nat
    BY <1>1, <2>1, FS_EmptySet DEF ResourceInv, ResourceTypes, Slots
  <2>3. QED
    BY <2>2
<1>2. ~doubled /\ ~nested => active = Cardinality({w \in Workers : work[w].held})
  BY DEF ResourceInv, Slots, Holding
<1>3. \A w \in Workers :
         work[w].at = "run" /\ issued[work[w].op] = 1 /\ ~nested => work[w].op \in startTimes
  BY DEF ResourceInv, Numbered
<1>4. QED
  BY <1>1, <1>2, <1>3 DEF SlotsReturn

\* Every slot of the resource manager comes back, the slots in use are those of
\* the operations, and an operation that runs can time out: each as far as the
\* manager's missing lock allows.
THEOREM SlotsAreReturned == ResourceSpec => []SlotsReturn
<1>1. QED
  BY ResourceInvariant, SlotsFollow, PTL
-----------------------------------------------------------------------------
(***************************************************************************)
(* SecurityRateLimiter                                                     *)
(*                                                                         *)
(* The queue and the admissions end alike: the last events follow the last *)
(* admissions one by one, each as old as the reading it was decided by,    *)
(* which is older than its admission by the delay at most (Follow). A      *)
(* reading out of order can only stop the popleft loop early, and an event *)
(* that is left is then of an admission in sight; one that is gone was     *)
(* older than the interval by a reading, hence its admission by the        *)
(* interval less the delay (OldOnesLeft). A queue that cannot hold the     *)
(* budget forgets events of its own accord, and only the first half of     *)
(* this is left. Only the front of the admissions is ever forgotten,       *)
(* because they are in order.                                              *)
(***************************************************************************)

\* The oldest admission comes first.
InOrder(made) == \A i, j \in 1..Len(made) : i <= j => made[j] <= made[i]

\* The last events and the last admissions belong together: an event is as old as the
\* reading it was decided by.  The admissions of the oldest events have been forgotten.
Follow(queue, made, d) ==
    \A k \in 1..Len(queue) :
        LET i == Len(made) - Len(queue) + k
        IN  /\ i >= 1 => made[i] <= queue[k] /\ queue[k] <= made[i] + d
            /\ i < 1 => queue[k] = Horizon

\* The admissions without an event are of long ago.
OldOnesLeft(queue, made, d) ==
    \A i \in 1..Len(made) : i <= Len(made) - Len(queue) => made[i] + d > Interval

\* The types, and the three relations between events and admissions.
SecurityInv ==
    /\ queueSize \in Nat \ {0}
    /\ events \in Seq(0..Horizon) /\ admitted \in Seq(0..(Horizon - 1))
    /\ reading \in [Callers -> 0..MaxDelay \cup {Idle}]
    /\ delay \in 0..MaxDelay
    /\ InOrder(admitted)
    /\ Follow(events, admitted, delay)
    /\ queueSize >= SecurityCalls => OldOnesLeft(events, admitted, delay)

USE SecurityAssumption

-----------------------------------------------------------------------------
(* Helpers *)

\* Ages end at a number past every interval and delay.
LEMMA HorizonIs == Horizon \in Nat /\ Horizon = Interval + MaxDelay + 1
  BY DEF Horizon

\* Ages are numbers.
LEMMA AgesAre ==
    ASSUME NEW b \in Int, NEW q \in Seq(0..b)
    PROVE  Len(q) \in Nat /\ \A k \in 1..Len(q) : q[k] \in Nat /\ q[k] <= b
<1>1. \A k \in 1..Len(q) : q[k] \in 0..b
  BY ElementOfSeq
<1>2. QED
  BY <1>1

\* NotOlder() takes a number of events from the front, each too old, and the next is not.
LEMMA NotOlderIs ==
    ASSUME NEW S, S \subseteq Nat, NEW q \in Seq(S), NEW age \in Int
    PROVE  \E n \in 0..Len(q) :
              /\ NotOlder(q, age) \in Seq(S) /\ Len(NotOlder(q, age)) = Len(q) - n
              /\ \A k \in 1..(Len(q) - n) : NotOlder(q, age)[k] = q[n + k]
              /\ \A k \in 1..n : q[k] > age
              /\ n < Len(q) => q[n + 1] <= age
<1> DEFINE gone == {n \in 0..Len(q) : \A k \in 1..n : q[k] > age}
           n == Max(gone)
           r == NotOlder(q, age)
<1>1. Len(q) \in Nat /\ \A k \in 1..Len(q) : q[k] \in S
  BY ElementOfSeq
<1>2. gone \subseteq Nat /\ 0 \in gone /\ \A x \in gone : x <= Len(q)
  BY <1>1
<1>3. n \in gone /\ \A x \in gone : x <= n
  <2> HIDE DEF gone
  <2>1. QED
    BY <1>1, <1>2, MaxIn
<1>4. r = SubSeq(q, 1 + n, Len(q))
  BY DEF NotOlder
<1> HIDE DEF n, r
<1>5. n \in 0..Len(q) /\ \A k \in 1..n : q[k] > age
  BY <1>3
<1>6. n < Len(q) => q[n + 1] <= age
  <2>1. SUFFICES ASSUME n < Len(q), ~(q[n + 1] <= age) PROVE FALSE
    OBVIOUS
  <2>2. q[n + 1] \in Nat /\ n + 1 \in 0..Len(q)
    <3>1. n + 1 \in 1..Len(q)
      BY <1>1, <1>5, <2>1
    <3>2. q[n + 1] \in S
      BY <1>1, <3>1
    <3>3. q[n + 1] \in Nat
      BY ONLY <3>2, S \subseteq Nat
    <3>4. n + 1 \in 0..Len(q)
      BY ONLY <1>1, <3>1
    <3>5. QED
      BY <3>3, <3>4
  <2>3. \A k \in 1..(n + 1) : k \in 1..n \/ k = n + 1
    BY <1>5
  <2>4. \A k \in 1..(n + 1) : q[k] > age
    BY <1>5, <2>1, <2>2, <2>3
  <2>5. n + 1 \in gone
    BY <2>2, <2>4
  <2> HIDE DEF gone
  <2>6. QED
    BY <1>3, <1>5, <2>5
<1>7. /\ r \in Seq(S) /\ Len(r) = Len(q) - n
      /\ \A k \in 1..(Len(q) - n) : r[k] = q[n + k]
  <2> DEFINE m == 1 + n
             l == Len(q)
  <2>1. m \in Int /\ l \in Int /\ \A i \in m..l : q[i] \in S
    BY <1>1, <1>5
  <2> HIDE DEF m, l
  <2>2. /\ SubSeq(q, m, l) \in Seq(S)
        /\ Len(SubSeq(q, m, l)) = IF m <= l THEN l - m + 1 ELSE 0
        /\ \A i \in 1..(l - m + 1) : SubSeq(q, m, l)[i] = q[m + i - 1]
    BY <2>1, SubSeqProperties
  <2>3. (IF m <= l THEN l - m + 1 ELSE 0) = Len(q) - n /\ l - m + 1 = Len(q) - n
    BY <1>1, <1>5 DEF m, l
  <2>4. \A i \in 1..(Len(q) - n) : m + i - 1 = n + i
    BY <1>5 DEF m
  <2>5. QED
    BY <1>4, <2>2, <2>3, <2>4 DEF m, l
<1>8. QED
  BY <1>5, <1>6, <1>7 DEF r

\* A set of numbers within an interval, or around it.
LEMMA CountIn ==
    ASSUME NEW b \in Nat, NEW n \in Nat, NEW T, T \subseteq 1..b
    PROVE  /\ T \subseteq (b - n + 1)..b => Cardinality(T) <= n
           /\ (b - n + 1)..b \subseteq T => Cardinality(T) >= n
<1> DEFINE I == (b - n + 1)..b
<1>1. IsFiniteSet(I) /\ Cardinality(I) = n
  <2>1. b - n + 1 \in Int /\ b \in Int
    OBVIOUS
  <2>2. IsFiniteSet(I) /\ Cardinality(I) = IF b - n + 1 > b THEN 0 ELSE b - (b - n + 1) + 1
    BY <2>1, FS_Interval
  <2>3. (IF b - n + 1 > b THEN 0 ELSE b - (b - n + 1) + 1) = n
    OBVIOUS
  <2>4. QED
    BY <2>2, <2>3
<1>2. IsFiniteSet(T) /\ Cardinality(T) \in Nat
  <2>1. IsFiniteSet(1..b)
    BY FS_Interval
  <2>2. QED
    BY <2>1, FS_Subset, FS_CardinalityType
<1> HIDE DEF I
<1>3. T \subseteq I => Cardinality(T) <= n
  BY <1>1, FS_Subset
<1>4. I \subseteq T => Cardinality(T) >= n
  BY <1>1, <1>2, FS_Subset
<1>5. QED
  BY <1>3, <1>4 DEF I

\* The oldest reading so far.
LEMMA LaterIs ==
    ASSUME NEW m \in 0..MaxDelay, NEW n \in 0..MaxDelay
    PROVE  Later(m, n) \in 0..MaxDelay /\ m <= Later(m, n) /\ n <= Later(m, n)
  BY DEF Later

\* What follows and is in order still does when the front leaves, and with a later delay.
LEMMA FrontLeaves ==
    ASSUME NEW queue \in Seq(0..Horizon), NEW made \in Seq(0..(Horizon - 1)),
           NEW d \in Nat, NEW later \in Nat, d <= later, Follow(queue, made, d),
           NEW n \in 0..Len(queue), NEW rest \in Seq(0..Horizon), Len(rest) = Len(queue) - n,
           \A k \in 1..Len(rest) : rest[k] = queue[n + k]
    PROVE  Follow(rest, made, later)
<1>1. Len(queue) \in Nat /\ Len(made) \in Nat /\ Len(rest) \in Nat
  OBVIOUS
<1>2. \A i \in 1..Len(made) : made[i] \in Nat
  BY AgesAre, HorizonIs, SMTT(30)
<1>3. SUFFICES ASSUME NEW k \in 1..Len(rest),
                      NEW i, i = Len(made) - Len(rest) + k
               PROVE  /\ i >= 1 => made[i] <= rest[k] /\ rest[k] <= made[i] + later
                      /\ i < 1 => rest[k] = Horizon
  BY DEF Follow
<1>4. n + k \in 1..Len(queue) /\ i = Len(made) - Len(queue) + (n + k) /\ i \in Int
      /\ i <= Len(made)
  BY <1>1, <1>3
<1>5. /\ i >= 1 => made[i] <= queue[n + k] /\ queue[n + k] <= made[i] + d
      /\ i < 1 => queue[n + k] = Horizon
  BY <1>4 DEF Follow
<1>6. rest[k] = queue[n + k] /\ rest[k] \in Nat
  <2>1. Horizon \in Int
    BY HorizonIs
  <2> HIDE DEF Horizon
  <2>2. \A j \in 1..Len(rest) : rest[j] \in Nat
    BY ONLY <2>1, rest \in Seq(0..Horizon), AgesAre
  <2>3. QED
    BY <1>3, <2>2
<1>7. ASSUME i >= 1 PROVE made[i] <= rest[k] /\ rest[k] <= made[i] + later
  <2>1. made[i] \in Nat
    BY <1>2, <1>4, <1>7
  <2>2. QED
    BY <1>5, <1>6, <1>7, <2>1
<1>8. QED
  BY <1>5, <1>6, <1>7

\* The events that are left when a caller decides, by its reading.
LEMMA RemainingIs ==
    ASSUME SecurityInv, NEW t \in Callers, reading[t] # Idle,
           NEW d, d = Later(delay, reading[t]), NEW rest, rest = Remaining(reading[t])
    PROVE  /\ reading[t] \in 0..MaxDelay /\ d \in 0..MaxDelay
           /\ rest \in Seq(0..Horizon)
           /\ Follow(rest, admitted, d)
           /\ queueSize >= SecurityCalls => OldOnesLeft(rest, admitted, d)
           /\ rest # <<>> => rest[1] <= Interval + d
<1> PICK now : now = reading[t]
  OBVIOUS
<1>1. /\ now \in 0..MaxDelay /\ delay \in 0..MaxDelay
      /\ events \in Seq(0..Horizon) /\ admitted \in Seq(0..(Horizon - 1))
      /\ Follow(events, admitted, delay)
  BY DEF SecurityInv
<1>2. d \in 0..MaxDelay /\ delay <= d /\ now <= d
  BY <1>1, LaterIs
<1>3. PICK n \in 0..Len(events) :
         /\ rest \in Seq(0..Horizon) /\ Len(rest) = Len(events) - n
         /\ \A k \in 1..(Len(events) - n) : rest[k] = events[n + k]
         /\ \A k \in 1..n : events[k] > Interval + now
         /\ n < Len(events) => events[n + 1] <= Interval + now
  <2>1. 0..Horizon \subseteq Nat /\ Interval + now \in Int /\ rest = NotOlder(events, Interval + now)
    BY <1>1 DEF Remaining
  <2> HIDE DEF Horizon
  <2>2. \E n \in 0..Len(events) :
         /\ NotOlder(events, Interval + now) \in Seq(0..Horizon)
         /\ Len(NotOlder(events, Interval + now)) = Len(events) - n
         /\ \A k \in 1..(Len(events) - n) : NotOlder(events, Interval + now)[k] = events[n + k]
         /\ \A k \in 1..n : events[k] > Interval + now
         /\ n < Len(events) => events[n + 1] <= Interval + now
    BY ONLY <1>1, <2>1, NotOlderIs
  <2>3. QED
    BY <2>1, <2>2
<1>4. Len(events) \in Nat /\ Len(admitted) \in Nat
  BY <1>1
<1>5. Follow(rest, admitted, d)
  <2>1. delay \in Nat /\ d \in Nat /\ \A k \in 1..Len(rest) : rest[k] = events[n + k]
    BY <1>1, <1>2, <1>3
  <2>2. QED
    BY ONLY <1>1, <1>2, <1>3, <2>1, FrontLeaves
<1>6. ASSUME queueSize >= SecurityCalls PROVE OldOnesLeft(rest, admitted, d)
  <2>1. SUFFICES ASSUME NEW i \in 1..Len(admitted), i <= Len(admitted) - Len(rest)
                 PROVE  admitted[i] + d > Interval
    BY DEF OldOnesLeft
  <2>2. admitted[i] \in Nat
    <3>1. Horizon - 1 \in Int
      BY HorizonIs
    <3>2. QED
      BY <1>1, <3>1, AgesAre
  <2>3. CASE i <= Len(admitted) - Len(events)
    <3>1. admitted[i] + delay > Interval
      BY <1>6, <2>3 DEF SecurityInv, OldOnesLeft
    <3>2. QED
      BY <1>1, <1>2, <2>2, <3>1
  <2>4. CASE ~(i <= Len(admitted) - Len(events))
    <3> DEFINE k == i - (Len(admitted) - Len(events))
    <3>1. k \in 1..n /\ k \in 1..Len(events) /\ i = Len(admitted) - Len(events) + k
      BY <1>3, <1>4, <2>1, <2>4
    <3> HIDE DEF k
    <3>2. events[k] <= admitted[i] + delay
      <4>1. i >= 1
        OBVIOUS
      <4>2. QED
        BY <1>1, <3>1, <4>1 DEF Follow
    <3>3. events[k] > Interval + now
      BY <1>3, <3>1
    <3>4. events[k] \in Nat
      BY <1>1, <3>1, AgesAre, HorizonIs, SMTT(30)
    <3>5. PICK e, a : e = events[k] /\ a = admitted[i]
      OBVIOUS
    <3>6. /\ e \in Nat /\ a \in Nat /\ e <= a + delay /\ e > Interval + now
          /\ delay \in Nat /\ d \in Nat /\ now \in Nat /\ Interval \in Nat /\ delay <= d
      BY <1>1, <1>2, <2>2, <3>2, <3>3, <3>4, <3>5
    <3>7. a + d > Interval
      BY ONLY <3>6
    <3>8. QED
      BY <3>5, <3>7
  <2>5. QED
    BY <2>3, <2>4
<1>7. ASSUME rest # <<>> PROVE rest[1] <= Interval + d
  <2>1. Len(rest) >= 1 /\ n < Len(events) /\ 1 \in 1..(Len(events) - n)
    BY <1>3, <1>4, <1>7
  <2>2. rest[1] = events[n + 1] /\ events[n + 1] <= Interval + now
    BY <1>3, <2>1
  <2>3. rest[1] \in Nat
    BY <1>3, <2>1, AgesAre, HorizonIs
  <2>4. QED
    BY <1>1, <1>2, <2>2, <2>3
<1>8. QED
  BY <1>1, <1>2, <1>3, <1>5, <1>6, <1>7

\* An admission follows its event.
LEMMA BothAppended ==
    ASSUME NEW queue \in Seq(0..Horizon), NEW made \in Seq(0..(Horizon - 1)),
           NEW d \in Nat, Follow(queue, made, d), NEW now \in 0..d
    PROVE  /\ Follow(Append(queue, now), Append(made, 0), d)
           /\ OldOnesLeft(queue, made, d) => OldOnesLeft(Append(queue, now), Append(made, 0), d)
<1> DEFINE q == Append(queue, now)
           m == Append(made, 0)
<1>1. Len(queue) \in Nat /\ Len(made) \in Nat
  OBVIOUS
<1>2. /\ Len(q) = Len(queue) + 1 /\ q[Len(queue) + 1] = now
      /\ \A k \in 1..Len(queue) : q[k] = queue[k]
      /\ Len(m) = Len(made) + 1 /\ m[Len(made) + 1] = 0
      /\ \A i \in 1..Len(made) : m[i] = made[i]
  OBVIOUS
<1> HIDE DEF q, m
<1>3. Follow(q, m, d)
  <2>1. SUFFICES ASSUME NEW k \in 1..Len(q), NEW i, i = Len(m) - Len(q) + k
                 PROVE  /\ i >= 1 => m[i] <= q[k] /\ q[k] <= m[i] + d
                        /\ i < 1 => q[k] = Horizon
    BY DEF Follow
  <2>2. CASE k = Len(queue) + 1
    <3>1. i = Len(made) + 1 /\ i >= 1
      BY <1>1, <1>2, <2>1, <2>2
    <3>2. m[i] = 0 /\ q[k] = now
      BY <1>2, <2>2, <3>1
    <3>3. QED
      BY <3>1, <3>2
  <2>3. CASE k # Len(queue) + 1
    <3>1. k \in 1..Len(queue) /\ i = Len(made) - Len(queue) + k /\ i <= Len(made) /\ i \in Int
      <4>1. Len(q) = Len(queue) + 1 /\ Len(m) = Len(made) + 1
        BY <1>2
      <4>2. k \in 1..Len(q) /\ i = Len(m) - Len(q) + k
        BY <2>1
      <4>3. QED
        BY ONLY <1>1, <2>3, <4>1, <4>2, SMTT(30)
    <3>2. /\ i >= 1 => made[i] <= queue[k] /\ queue[k] <= made[i] + d
          /\ i < 1 => queue[k] = Horizon
      BY <3>1 DEF Follow
    <3>3. q[k] = queue[k] /\ (i >= 1 => m[i] = made[i])
      <4>1. i >= 1 => i \in 1..Len(made)
        BY ONLY <1>1, <3>1
      <4>2. QED
        BY ONLY <1>2, <3>1, <4>1, SMTT(30)
    <3>4. QED
      BY <3>2, <3>3
  <2>4. QED
    BY <2>2, <2>3
<1>4. ASSUME OldOnesLeft(queue, made, d) PROVE OldOnesLeft(q, m, d)
  <2>1. SUFFICES ASSUME NEW i \in 1..Len(m), i <= Len(m) - Len(q)
                 PROVE  m[i] + d > Interval
    BY DEF OldOnesLeft
  <2>2. i \in 1..Len(made) /\ i <= Len(made) - Len(queue)
    BY <1>1, <1>2, <2>1
  <2>3. QED
    BY <1>2, <1>4, <2>2 DEF OldOnesLeft
<1>5. QED
  BY <1>3, <1>4 DEF q, m

\* An admission of now is the latest.
LEMMA LatestLast ==
    ASSUME NEW b \in Nat, NEW made \in Seq(0..b), InOrder(made)
    PROVE  InOrder(Append(made, 0)) /\ Append(made, 0) \in Seq(0..b)
<1> DEFINE m == Append(made, 0)
<1>1. /\ Len(made) \in Nat /\ Len(m) = Len(made) + 1 /\ m[Len(made) + 1] = 0
      /\ \A i \in 1..Len(made) : m[i] = made[i]
      /\ m \in Seq(0..b)
  OBVIOUS
<1>2. \A i \in 1..Len(made) : made[i] \in Nat
  BY AgesAre
<1> HIDE DEF m
<1>3. SUFFICES ASSUME NEW i \in 1..Len(m), NEW j \in 1..Len(m), i <= j
               PROVE  m[j] <= m[i]
  BY <1>1 DEF InOrder, m
<1>4. CASE j = Len(made) + 1
  <2>1. m[j] = 0
    BY <1>1, <1>4
  <2>2. m[i] \in Nat
    <3>1. i \in 1..Len(made) \/ i = Len(made) + 1
      BY <1>1
    <3>2. QED
      BY <1>1, <1>2, <3>1
  <2>3. QED
    BY <2>1, <2>2
<1>5. CASE j # Len(made) + 1
  <2>1. i \in 1..Len(made) /\ j \in 1..Len(made)
    BY <1>1, <1>3, <1>5
  <2>2. made[j] <= made[i]
    BY <1>3, <2>1 DEF InOrder
  <2>3. QED
    BY <1>1, <2>1, <2>2
<1>6. QED
  BY <1>4, <1>5

\* A function on the first n numbers is a sequence of length n.
LEMMA SequenceOf ==
    ASSUME NEW S, NEW n \in Nat, NEW f \in [1..n -> S]
    PROVE  f \in Seq(S) /\ Len(f) = n
  OBVIOUS

\* A tick: everything is older, the admissions that are too old leave, and all else stays.
LEMMA AllAge ==
    ASSUME NEW queue \in Seq(0..Horizon), NEW made \in Seq(0..(Horizon - 1)),
           NEW d \in 0..MaxDelay, InOrder(made), Follow(queue, made, d),
           NEW q, q = [k \in DOMAIN queue |-> IF queue[k] < Horizon THEN queue[k] + 1 ELSE queue[k]],
           NEW g, g = [k \in DOMAIN made |-> IF made[k] < Horizon THEN made[k] + 1 ELSE made[k]],
           NEW m, m = NotOlder(g, Horizon - 1)
    PROVE  /\ q \in Seq(0..Horizon) /\ Len(q) = Len(queue) /\ m \in Seq(0..(Horizon - 1))
           /\ InOrder(m) /\ Follow(q, m, d)
           /\ OldOnesLeft(queue, made, d) => OldOnesLeft(q, m, d)
<1>1. PICK h : h = Horizon /\ h \in Nat /\ h = Interval + MaxDelay + 1
  BY HorizonIs
<1> HIDE DEF Horizon
<1>2. /\ Len(queue) \in Nat /\ DOMAIN queue = 1..Len(queue)
      /\ Len(made) \in Nat /\ DOMAIN made = 1..Len(made)
  OBVIOUS
<1>3. \A k \in 1..Len(queue) : queue[k] \in 0..h
  BY <1>1, ElementOfSeq
<1>4. \A k \in 1..Len(made) : made[k] \in 0..(h - 1)
  BY <1>1, ElementOfSeq
<1>5. /\ q \in Seq(0..h) /\ Len(q) = Len(queue)
      /\ \A k \in 1..Len(queue) : q[k] = IF queue[k] < h THEN queue[k] + 1 ELSE queue[k]
  <2>1. q = [k \in 1..Len(queue) |-> IF queue[k] < h THEN queue[k] + 1 ELSE queue[k]]
    BY <1>1, <1>2
  <2>2. \A k \in 1..Len(queue) : (IF queue[k] < h THEN queue[k] + 1 ELSE queue[k]) \in 0..h
    BY <1>1, <1>3
  <2>3. q \in [1..Len(queue) -> 0..h]
    BY ONLY <2>1, <2>2
  <2>4. q \in Seq(0..h) /\ Len(q) = Len(queue)
    BY ONLY <1>2, <2>3, SequenceOf
  <2>5. QED
    BY <2>1, <2>4
<1>6. g \in Seq(1..h) /\ Len(g) = Len(made) /\ \A k \in 1..Len(made) : g[k] = made[k] + 1
  <2>1. \A k \in 1..Len(made) :
           (IF made[k] < h THEN made[k] + 1 ELSE made[k]) = made[k] + 1 /\ made[k] + 1 \in 1..h
    BY <1>1, <1>4
  <2>2. g = [k \in 1..Len(made) |-> made[k] + 1]
    BY <1>1, <1>2, <2>1
  <2>3. g \in [1..Len(made) -> 1..h]
    BY ONLY <2>1, <2>2
  <2>4. g \in Seq(1..h) /\ Len(g) = Len(made)
    BY ONLY <1>2, <2>3, SequenceOf
  <2>5. QED
    BY <2>2, <2>4
<1>7. PICK n \in 0..Len(g) :
         /\ m \in Seq(1..h) /\ Len(m) = Len(g) - n
         /\ \A k \in 1..(Len(g) - n) : m[k] = g[n + k]
         /\ \A k \in 1..n : g[k] > h - 1
         /\ n < Len(g) => g[n + 1] <= h - 1
  <2>1. 1..h \subseteq Nat /\ h - 1 \in Int /\ m = NotOlder(g, h - 1)
    BY <1>1
  <2>2. PICK age : age = h - 1 /\ age \in Int
    BY <2>1
  <2>3. g \in Seq(1..h)
    BY <1>6
  <2>4. \E n \in 0..Len(g) :
         /\ NotOlder(g, age) \in Seq(1..h) /\ Len(NotOlder(g, age)) = Len(g) - n
         /\ \A k \in 1..(Len(g) - n) : NotOlder(g, age)[k] = g[n + k]
         /\ \A k \in 1..n : g[k] > age
         /\ n < Len(g) => g[n + 1] <= age
    BY ONLY <2>1, <2>2, <2>3, NotOlderIs
  <2>5. NotOlder(g, age) = m /\ age = h - 1
    BY <2>1, <2>2
  <2>6. QED
    BY ONLY <2>4, <2>5
<1>8. n \in 0..Len(made) /\ Len(m) = Len(made) - n /\ Len(m) \in Nat
      /\ \A k \in 1..Len(m) : n + k \in 1..Len(made) /\ m[k] = made[n + k] + 1
  <2>1. n \in 0..Len(made) /\ Len(m) = Len(made) - n /\ Len(m) \in Nat
    <3>1. n \in 0..Len(g) /\ Len(m) = Len(g) - n /\ Len(g) = Len(made)
      BY <1>6, <1>7
    <3>2. QED
      BY ONLY <1>2, <3>1
  <2>2. ASSUME NEW k \in 1..Len(m) PROVE n + k \in 1..Len(made) /\ m[k] = made[n + k] + 1
    <3>1. n + k \in 1..Len(made) /\ k \in 1..(Len(g) - n)
      BY ONLY <1>2, <1>6, <2>1, k \in 1..Len(m)
    <3>2. QED
      BY <1>6, <1>7, <3>1
  <2>3. QED
    BY <2>1, <2>2
<1>9. \A i, j \in 1..Len(made) : i <= j => made[j] <= made[i]
  BY DEF InOrder
<1>10. InOrder(m)
  <2>1. SUFFICES ASSUME NEW i \in 1..Len(m), NEW j \in 1..Len(m), i <= j
                 PROVE  m[j] <= m[i]
    BY DEF InOrder
  <2>2. n + i \in 1..Len(made) /\ n + j \in 1..Len(made) /\ n + i <= n + j
    BY <1>8, <2>1
  <2>3. made[n + j] <= made[n + i] /\ made[n + j] \in Int /\ made[n + i] \in Int
    BY <1>4, <1>9, <2>2
  <2>4. m[i] = made[n + i] + 1 /\ m[j] = made[n + j] + 1
    BY <1>8
  <2>5. QED
    BY <2>3, <2>4, SMTT(30)
<1>11. m \in Seq(0..(h - 1))
  <2>1. ASSUME NEW k \in 1..Len(m) PROVE m[k] \in 0..(h - 1)
    <3>1. n < Len(made) /\ 1 \in 1..Len(m)
      <4>1. k \in 1..Len(m) /\ n \in 0..Len(made) /\ Len(m) = Len(made) - n
        BY <1>8
      <4>2. QED
        BY ONLY <1>2, <4>1, SMTT(30)
    <3>2. m[1] <= h - 1
      <4>1. g[n + 1] <= h - 1 /\ 1 \in 1..(Len(g) - n)
        BY <1>6, <1>7, <1>8, <3>1
      <4>2. QED
        BY <1>7, <4>1
    <3>3. m[k] <= m[1]
      BY <1>10, <3>1 DEF InOrder
    <3>4. m[k] \in 1..h /\ m[1] \in 1..h
      <4>1. m \in Seq(1..h)
        BY <1>7
      <4>2. QED
        BY <3>1, <4>1, ElementOfSeq
    <3>5. QED
      BY <1>1, <3>2, <3>3, <3>4
  <2>2. m \in [1..Len(m) -> 1..h]
    <3>1. m \in Seq(1..h)
      BY ONLY <1>7
    <3>2. QED
      BY ONLY <3>1, LenProperties
  <2>3. m \in [1..Len(m) -> 0..(h - 1)]
    BY ONLY <2>1, <2>2
  <2>4. QED
    BY ONLY <1>8, <2>3, SequenceOf
<1>12. Follow(q, m, d)
  <2>1. SUFFICES ASSUME NEW k \in 1..Len(q), NEW i, i = Len(m) - Len(q) + k
                 PROVE  /\ i >= 1 => m[i] <= q[k] /\ q[k] <= m[i] + d
                        /\ i < 1 => q[k] = h
    BY <1>1 DEF Follow
  <2>2. PICK e, a : e = queue[k] /\ a = made[n + i]
    OBVIOUS
  <2>3. /\ k \in 1..Len(queue) /\ n + i = Len(made) - Len(queue) + k /\ i \in Int
        /\ n + i <= Len(made)
    BY <1>2, <1>5, <1>8, <2>1
  <2>4. /\ n + i >= 1 => a <= e /\ e <= a + d
        /\ n + i < 1 => e = h
    BY <1>1, <2>2, <2>3 DEF Follow
  <2>5. e \in 0..h /\ q[k] = IF e < h THEN e + 1 ELSE e
    BY <1>3, <1>5, <2>2, <2>3
  <2>6. ASSUME n + i >= 1 PROVE a \in 0..(h - 1)
    BY <1>4, <1>8, <2>2, <2>3, <2>6
  <2>7. ASSUME i >= 1 PROVE m[i] = a + 1 /\ n + i >= 1
    <3>1. i \in 1..Len(m) /\ n + i >= 1
      BY <1>8, <2>3, <2>7
    <3>2. QED
      BY <1>8, <2>2, <3>1
  <2>8. ASSUME i < 1, n + i >= 1 PROVE a >= h - 1
    <3>1. n + i \in 1..n /\ n + i \in 1..Len(made)
      BY <1>8, <2>3, <2>8
    <3>2. g[n + i] > h - 1 /\ g[n + i] = made[n + i] + 1
      BY <1>6, <1>7, <3>1
    <3>3. QED
      BY <1>1, <2>2, <2>6, <2>8, <3>2
  <2>9. PICK x, y : x = m[i] /\ y = q[k]
    OBVIOUS
  <2>10. y = (IF e < h THEN e + 1 ELSE e) /\ (i >= 1 => x = a + 1) /\ d \in Nat /\ n \in Nat
    BY <1>8, <2>5, <2>7, <2>9
  <2>11. n + i >= 1 => a \in 0..(h - 1)
    BY <2>6
  <2>12. i < 1 /\ n + i >= 1 => a >= h - 1
    BY <2>8
  <2>13. e \in 0..h /\ i \in Int
    BY <2>3, <2>5
  <2>14. i >= 1 => x <= y /\ y <= x + d
    BY ONLY <1>1, <2>4, <2>10, <2>11, <2>13, SMTT(30)
  <2>15. i < 1 => y = h
    BY ONLY <1>1, <2>4, <2>10, <2>11, <2>12, <2>13
  <2>16. QED
    BY <2>9, <2>14, <2>15
<1>13. ASSUME OldOnesLeft(queue, made, d) PROVE OldOnesLeft(q, m, d)
  <2>1. SUFFICES ASSUME NEW i \in 1..Len(m), i <= Len(m) - Len(q)
                 PROVE  m[i] + d > Interval
    BY DEF OldOnesLeft
  <2>2. n + i \in 1..Len(made) /\ n + i <= Len(made) - Len(queue)
    BY <1>2, <1>5, <1>8, <2>1
  <2>3. made[n + i] + d > Interval /\ made[n + i] \in Int
    BY <1>4, <1>13, <2>2 DEF OldOnesLeft
  <2>4. QED
    BY <1>8, <2>3
<1>14. QED
  BY <1>1, <1>5, <1>10, <1>11, <1>12, <1>13

-----------------------------------------------------------------------------
(* The invariant *)

\* Nobody has been admitted at first.
LEMMA SecurityStarts ==
    SecurityInit => SecurityInv
<1> SUFFICES ASSUME SecurityInit PROVE SecurityInv
  OBVIOUS
<1>1. events = <<>> /\ admitted = <<>> /\ Len(events) = 0 /\ Len(admitted) = 0
  BY DEF SecurityInit
<1>2. events \in Seq(0..Horizon) /\ admitted \in Seq(0..(Horizon - 1))
  BY <1>1
<1>3. InOrder(admitted) /\ Follow(events, admitted, delay) /\ OldOnesLeft(events, admitted, delay)
  BY <1>1 DEF InOrder, Follow, OldOnesLeft
<1>4. queueSize \in Nat \ {0} /\ delay \in 0..MaxDelay
      /\ reading \in [Callers -> 0..MaxDelay \cup {Idle}]
  BY DEF SecurityInit
<1>5. QED
  BY <1>2, <1>3, <1>4 DEF SecurityInv

\* A reading changes nothing else.
LEMMA ReadClockKeeps ==
    ASSUME SecurityInv, NEW t \in Callers, ReadClock(t)
    PROVE  SecurityInv'
<1>1. reading' \in [Callers -> 0..MaxDelay \cup {Idle}]
  BY DEF SecurityInv, ReadClock
<1>2. QED
  BY <1>1 DEF SecurityInv, ReadClock

\* An admission while the queue can hold the budget drops no event of its own accord.
LEMMA AdmitKeeps ==
    ASSUME SecurityInv, NEW t \in Callers, Admit(t)
    PROVE  SecurityInv'
<1> PICK rest, d, now : rest = Remaining(reading[t]) /\ d = Later(delay, reading[t])
                        /\ now = reading[t]
  OBVIOUS
<1>1. /\ now \in 0..MaxDelay /\ d \in 0..MaxDelay /\ rest \in Seq(0..Horizon)
      /\ Follow(rest, admitted, d)
      /\ queueSize >= SecurityCalls => OldOnesLeft(rest, admitted, d)
  BY RemainingIs DEF Admit
<1>2. now \in 0..d
  <2>1. now <= d /\ d \in Nat
    BY <1>1, LaterIs DEF SecurityInv
  <2>2. QED
    BY <1>1, <2>1
<1>3. /\ queueSize \in Nat \ {0} /\ admitted \in Seq(0..(Horizon - 1)) /\ InOrder(admitted)
      /\ reading \in [Callers -> 0..MaxDelay \cup {Idle}]
  BY DEF SecurityInv
<1>4. PICK kept : kept = IF Len(rest) < queueSize THEN rest ELSE Tail(rest)
  OBVIOUS
<1>5. /\ kept \in Seq(0..Horizon) /\ Follow(kept, admitted, d)
      /\ queueSize >= SecurityCalls => OldOnesLeft(kept, admitted, d)
  <2>1. CASE Len(rest) < queueSize
    BY <1>1, <1>4, <2>1
  <2>2. CASE ~(Len(rest) < queueSize)
    <3>1. Len(rest) \in Nat /\ Len(rest) < SecurityCalls
      BY <1>1 DEF Admit
    <3>2. ~(queueSize >= SecurityCalls) /\ 1 \in 0..Len(rest)
      BY <1>3, <2>2, <3>1
    <3>3. /\ kept \in Seq(0..Horizon) /\ Len(kept) = Len(rest) - 1
          /\ \A k \in 1..Len(kept) : kept[k] = rest[1 + k]
      <4>1. kept = Tail(rest) /\ rest # <<>>
        BY <1>4, <2>2, <3>2
      <4> HIDE DEF Horizon
      <4>2. QED
        BY <1>1, <4>1
    <3>4. d \in Nat /\ d <= d
      BY <1>1
    <3>5. Follow(kept, admitted, d)
      BY ONLY <1>1, <1>3, <3>2, <3>3, <3>4, FrontLeaves
    <3>6. QED
      BY <3>2, <3>3, <3>5
  <2>3. QED
    BY <2>1, <2>2
<1>6. events' = Append(kept, now) /\ admitted' = Append(admitted, 0)
      /\ delay' = d /\ reading' = [reading EXCEPT ![t] = Idle] /\ queueSize' = queueSize
  BY <1>4 DEF Admit, Enqueue
<1>7. /\ Follow(events', admitted', delay')
      /\ queueSize' >= SecurityCalls => OldOnesLeft(events', admitted', delay')
  <2>1. d \in Nat
    BY <1>1
  <2>2. /\ Follow(Append(kept, now), Append(admitted, 0), d)
        /\ OldOnesLeft(kept, admitted, d)
              => OldOnesLeft(Append(kept, now), Append(admitted, 0), d)
    BY ONLY <1>2, <1>3, <1>5, <2>1, BothAppended
  <2>3. QED
    BY <1>5, <1>6, <2>2
<1>8. InOrder(admitted') /\ admitted' \in Seq(0..(Horizon - 1))
  <2>1. Horizon - 1 \in Nat
    BY HorizonIs
  <2> HIDE DEF Horizon
  <2>2. InOrder(Append(admitted, 0)) /\ Append(admitted, 0) \in Seq(0..(Horizon - 1))
    BY ONLY <1>3, <2>1, LatestLast
  <2>3. QED
    BY <1>6, <2>2
<1>9. events' \in Seq(0..Horizon)
  <2>1. now \in 0..Horizon
    BY <1>1, HorizonIs
  <2> HIDE DEF Horizon
  <2>2. QED
    BY <1>5, <1>6, <2>1
<1>10. reading' \in [Callers -> 0..MaxDelay \cup {Idle}] /\ queueSize' \in Nat \ {0}
       /\ delay' \in 0..MaxDelay
  BY <1>1, <1>3, <1>6
<1>11. QED
  BY <1>7, <1>8, <1>9, <1>10 DEF SecurityInv

\* A refusal only drops old events.
LEMMA RefuseKeeps ==
    ASSUME SecurityInv, NEW t \in Callers, Refuse(t)
    PROVE  SecurityInv'
<1> PICK rest, d, now : rest = Remaining(reading[t]) /\ d = Later(delay, reading[t])
                        /\ now = reading[t]
  OBVIOUS
<1>1. /\ now \in 0..MaxDelay /\ d \in 0..MaxDelay /\ rest \in Seq(0..Horizon)
      /\ Follow(rest, admitted, d)
      /\ queueSize >= SecurityCalls => OldOnesLeft(rest, admitted, d)
  BY RemainingIs DEF Refuse
<1>2. events' = rest /\ admitted' = admitted /\ delay' = d
      /\ reading' = [reading EXCEPT ![t] = Idle] /\ queueSize' = queueSize
  BY DEF Refuse
<1>3. QED
  BY <1>1, <1>2 DEF SecurityInv

\* Time takes events and admissions alike.
LEMMA TickKeeps ==
    ASSUME SecurityInv, SecurityTick
    PROVE  SecurityInv'
<1> PICK g : g = [k \in DOMAIN admitted |-> IF admitted[k] < Horizon THEN admitted[k] + 1
                                            ELSE admitted[k]]
  OBVIOUS
<1>1. /\ events \in Seq(0..Horizon) /\ admitted \in Seq(0..(Horizon - 1))
      /\ delay \in 0..MaxDelay /\ InOrder(admitted) /\ Follow(events, admitted, delay)
  BY DEF SecurityInv
<1>2. /\ events' = [k \in DOMAIN events |-> IF events[k] < Horizon THEN events[k] + 1
                                            ELSE events[k]]
      /\ admitted' = NotOlder(g, Horizon - 1)
      /\ queueSize' = queueSize /\ delay' = delay
  BY DEF SecurityTick
<1>3. PICK q, m : q = events' /\ m = admitted'
  OBVIOUS
<1>4. /\ q = [k \in DOMAIN events |-> IF events[k] < Horizon THEN events[k] + 1
                                      ELSE events[k]]
      /\ m = NotOlder(g, Horizon - 1)
  BY <1>2, <1>3
<1>5. /\ q \in Seq(0..Horizon) /\ Len(q) = Len(events) /\ m \in Seq(0..(Horizon - 1))
      /\ InOrder(m) /\ Follow(q, m, delay)
      /\ OldOnesLeft(events, admitted, delay) => OldOnesLeft(q, m, delay)
  BY ONLY <1>1, <1>4, AllAge, g = [k \in DOMAIN admitted |->
                                     IF admitted[k] < Horizon THEN admitted[k] + 1
                                     ELSE admitted[k]]
<1>6. reading' \in [Callers -> 0..MaxDelay \cup {Idle}]
  <2>1. reading' = [t \in Callers |-> IF reading[t] = Idle THEN Idle ELSE reading[t] + 1]
        /\ \A t \in Callers : reading[t] # MaxDelay
    BY DEF SecurityTick
  <2>2. ASSUME NEW t \in Callers
        PROVE  (IF reading[t] = Idle THEN Idle ELSE reading[t] + 1) \in 0..MaxDelay \cup {Idle}
    <3>1. reading[t] \in 0..MaxDelay \cup {Idle} /\ reading[t] # MaxDelay
      BY <2>1 DEF SecurityInv
    <3>2. QED
      BY <3>1
  <2>3. QED
    BY <2>1, <2>2
<1>7. QED
  BY <1>2, <1>3, <1>5, <1>6 DEF SecurityInv

\* The events a limiter keeps and the admissions it made belong together, whatever the
\* order in which readings of the clock reach the lock.
THEOREM SecurityInvariant == SecuritySpec => []SecurityInv
<1>1. SecurityInit => SecurityInv
  BY SecurityStarts
<1>2. SecurityInv /\ [SecurityNext]_securityVars => SecurityInv'
  <2> SUFFICES ASSUME SecurityInv, [SecurityNext]_securityVars PROVE SecurityInv'
    OBVIOUS
  <2>1. ASSUME NEW t \in Callers, ReadClock(t) PROVE SecurityInv'
    BY <2>1, ReadClockKeeps
  <2>2. ASSUME NEW t \in Callers, Admit(t) PROVE SecurityInv'
    BY <2>2, AdmitKeeps
  <2>3. ASSUME NEW t \in Callers, Refuse(t) PROVE SecurityInv'
    BY <2>3, RefuseKeeps
  <2>4. CASE SecurityTick
    BY <2>4, TickKeeps
  <2>5. CASE UNCHANGED securityVars
    BY <2>5 DEF SecurityInv, securityVars
  <2>6. QED
    BY <2>1, <2>2, <2>3, <2>4, <2>5 DEF SecurityNext
<1>3. QED
  BY <1>1, <1>2, PTL DEF SecuritySpec

-----------------------------------------------------------------------------
(* The verdicts *)

\* Whoever is admitted finds fewer than max_calls admissions in the interval less the
\* delay.
LEMMA AdmitInBudget ==
    ASSUME SecurityInv, NEW t \in Callers, Admit(t), queueSize >= SecurityCalls
    PROVE  Recent(Interval - delay') < SecurityCalls
<1> PICK rest, d : rest = Remaining(reading[t]) /\ d = Later(delay, reading[t])
  OBVIOUS
<1>1. d \in 0..MaxDelay /\ rest \in Seq(0..Horizon) /\ OldOnesLeft(rest, admitted, d)
  BY RemainingIs DEF Admit
<1>2. delay' = d /\ Len(rest) < SecurityCalls /\ Len(rest) \in Nat
  BY <1>1 DEF Admit
<1>3. admitted \in Seq(0..(Horizon - 1)) /\ Len(admitted) \in Nat
      /\ DOMAIN admitted = 1..Len(admitted)
  BY DEF SecurityInv
<1> DEFINE T == {k \in DOMAIN admitted : admitted[k] <= Interval - d}
<1>4. T \subseteq 1..Len(admitted)
  BY <1>3
<1>5. T \subseteq (Len(admitted) - Len(rest) + 1)..Len(admitted)
  <2>1. SUFFICES ASSUME NEW k \in T
                 PROVE  k \in (Len(admitted) - Len(rest) + 1)..Len(admitted)
    OBVIOUS
  <2>2. k \in 1..Len(admitted) /\ admitted[k] <= Interval - d
    BY <1>3
  <2>3. admitted[k] \in Nat
    <3>1. Horizon - 1 \in Int
      BY HorizonIs
    <3>2. QED
      BY <1>3, <2>2, <3>1, AgesAre
  <2>4. ~(admitted[k] + d > Interval)
    BY <1>1, <2>2, <2>3
  <2>5. ~(k <= Len(admitted) - Len(rest))
    BY <1>1, <2>2, <2>4 DEF OldOnesLeft
  <2>6. QED
    BY <1>2, <1>3, <2>2, <2>5
<1> HIDE DEF T
<1>6. Cardinality(T) <= Len(rest)
  BY <1>2, <1>3, <1>4, <1>5, CountIn
<1>7. Cardinality(T) \in Nat
  <2>1. IsFiniteSet(1..Len(admitted))
    BY <1>3, FS_Interval
  <2>2. QED
    BY <1>4, <2>1, FS_Subset, FS_CardinalityType
<1>8. Recent(Interval - delay') = Cardinality(T)
  BY <1>2 DEF Recent, T
<1>9. QED
  BY <1>2, <1>6, <1>7, <1>8

\* Whoever is refused finds max_calls admissions in the interval and the delay.
LEMMA RefuseForReason ==
    ASSUME SecurityInv, NEW t \in Callers, Refuse(t)
    PROVE  Recent(Interval + delay') >= SecurityCalls
<1> PICK rest, d : rest = Remaining(reading[t]) /\ d = Later(delay, reading[t])
  OBVIOUS
<1>1. /\ d \in 0..MaxDelay /\ rest \in Seq(0..Horizon) /\ Follow(rest, admitted, d)
      /\ rest # <<>> => rest[1] <= Interval + d
  BY RemainingIs DEF Refuse
<1>2. delay' = d /\ Len(rest) >= SecurityCalls /\ Len(rest) \in Nat /\ Len(rest) >= 1
  BY <1>1 DEF Refuse
<1>3. admitted \in Seq(0..(Horizon - 1)) /\ Len(admitted) \in Nat
      /\ DOMAIN admitted = 1..Len(admitted)
  BY DEF SecurityInv
<1> DEFINE T == {k \in DOMAIN admitted : admitted[k] <= Interval + d}
           i == Len(admitted) - Len(rest) + 1
<1>4. T \subseteq 1..Len(admitted)
  BY <1>3
<1>5. rest[1] \in Nat /\ rest[1] <= Interval + d
  <2>1. rest # <<>> /\ 1 \in 1..Len(rest)
    BY <1>1, <1>2
  <2>2. QED
    BY <1>1, <2>1, AgesAre, HorizonIs
<1>6. i >= 1 /\ admitted[i] <= rest[1]
  <2>1. /\ i >= 1 => admitted[i] <= rest[1]
        /\ i < 1 => rest[1] = Horizon
    BY <1>1, <1>2 DEF Follow
  <2>2. rest[1] # Horizon
    BY <1>1, <1>5, HorizonIs
  <2>3. QED
    BY <1>2, <1>3, <2>1, <2>2
<1>7. i \in 1..Len(admitted)
  BY <1>2, <1>3, <1>6
<1>8. \A k \in 1..Len(admitted) : admitted[k] \in Nat
  <2>1. Horizon - 1 \in Int
    BY HorizonIs
  <2>2. QED
    BY <1>3, <2>1, AgesAre
<1>9. i..Len(admitted) \subseteq T
  <2>1. SUFFICES ASSUME NEW k \in i..Len(admitted) PROVE k \in T
    OBVIOUS
  <2>2. k \in 1..Len(admitted) /\ i <= k
    BY <1>3, <1>7
  <2>3. admitted[k] <= admitted[i]
    BY <1>7, <2>2 DEF SecurityInv, InOrder
  <2> HIDE DEF i
  <2>4. admitted[k] <= Interval + d
    BY <1>1, <1>5, <1>6, <1>7, <1>8, <2>2, <2>3, SMTT(30)
  <2>5. QED
    BY <1>3, <2>2, <2>4
<1>10. (Len(admitted) - Len(rest) + 1)..Len(admitted) \subseteq T
  BY <1>9
<1> HIDE DEF T, i
<1>11. Cardinality(T) >= Len(rest)
  BY <1>2, <1>3, <1>4, <1>10, CountIn
<1>12. Cardinality(T) \in Nat
  <2>1. IsFiniteSet(1..Len(admitted))
    BY <1>3, FS_Interval
  <2>2. QED
    BY <1>4, <2>1, FS_Subset, FS_CardinalityType
<1>13. Recent(Interval + delay') = Cardinality(T)
  BY <1>2 DEF Recent, T
<1>14. QED
  BY <1>2, <1>11, <1>12, <1>13

\* What _SecurityRateLimiter.try_acquire decides is right but for the delay between a
\* caller's reading of the clock and its turn at the lock.
THEOREM VerdictsHold == SecuritySpec => SecurityVerdicts
<1>1. SecurityInv /\ [SecurityNext]_securityVars =>
         [\A t \in Callers :
            /\ Admit(t) /\ queueSize >= SecurityCalls =>
                  Recent(Interval - delay') < SecurityCalls
            /\ Refuse(t) => Recent(Interval + delay') >= SecurityCalls]_securityVars
  <2> SUFFICES ASSUME SecurityInv, NEW t \in Callers
               PROVE  /\ Admit(t) /\ queueSize >= SecurityCalls =>
                            Recent(Interval - delay') < SecurityCalls
                      /\ Refuse(t) => Recent(Interval + delay') >= SecurityCalls
    OBVIOUS
  <2>1. ASSUME Admit(t), queueSize >= SecurityCalls
        PROVE  Recent(Interval - delay') < SecurityCalls
    BY <2>1, AdmitInBudget
  <2>2. ASSUME Refuse(t) PROVE Recent(Interval + delay') >= SecurityCalls
    BY <2>2, RefuseForReason
  <2>3. QED
    BY <2>1, <2>2
<1>2. QED
  BY <1>1, SecurityInvariant, PTL DEF SecuritySpec, SecurityVerdicts
=============================================================================
