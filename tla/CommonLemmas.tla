----------------------------- MODULE CommonLemmas -----------------------------
(***************************************************************************)
(* What the proofs need to know of finite sets that gain or lose an        *)
(* element, and of the sequences the models keep: queues and orders in     *)
(* which an element occurs once, from which one is taken out at the front, *)
(* by value or by position, or to which one is added at the end; and of    *)
(* sums of sizes.                                                          *)
(***************************************************************************)
EXTENDS Integers, Sequences, SequencesExt, SequenceTheorems, FiniteSetTheorems,
        WellFoundedInduction, TLAPS

\* One element more or less.
LEMMA OneElement ==
    ASSUME NEW S, IsFiniteSet(S), NEW e
    PROVE  /\ e \notin S => Cardinality(S \cup {e}) = Cardinality(S) + 1
           /\ e \in S => Cardinality(S \ {e}) = Cardinality(S) - 1 /\ Cardinality(S) >= 1
           /\ e \in S => S \cup {e} = S
           /\ e \notin S => S \ {e} = S
<1>1. e \notin S => Cardinality(S \cup {e}) = Cardinality(S) + 1
  BY FS_AddElement
<1>2. e \in S => Cardinality(S \ {e}) = Cardinality(S) - 1
  BY FS_RemoveElement
<1>3. e \in S => Cardinality(S) >= 1
  BY FS_EmptySet, FS_CardinalityType
<1>4. QED
  BY <1>1, <1>2, <1>3

\* Every set of numbers has a least element.
LEMMA Least ==
    ASSUME NEW T, T \subseteq Nat, T # {}
    PROVE  \E x \in T : \A y \in T : x <= y
<1>1. PICK x \in T : \A y \in T : ~(<<y, x>> \in OpToRel(<, Nat))
  BY NatLessThanWellFounded, WFMin
<1>2. \A y \in T : ~(y < x)
  BY <1>1 DEF OpToRel
<1>3. QED
  BY <1>2

\* The minimum of a set of numbers is one of them.
LEMMA MinIn ==
    ASSUME NEW T, T \subseteq Nat, T # {}
    PROVE  Min(T) \in T
  BY Least DEF Min

\* A set of numbers with a bound has a greatest element.
LEMMA MaxIn ==
    ASSUME NEW T, T \subseteq Nat, T # {}, NEW b \in Nat, \A y \in T : y <= b
    PROVE  Max(T) \in T /\ \A y \in T : y <= Max(T)
<1> DEFINE U == {u \in Nat : \A y \in T : y <= u}
<1>1. PICK m \in U : \A u \in U : m <= u
  <2>1. U \subseteq Nat /\ U # {}
    OBVIOUS
  <2>2. QED
    BY <2>1, Least
<1>2. m \in T
  <2>1. SUFFICES ASSUME m \notin T PROVE FALSE
    OBVIOUS
  <2>2. m \in Nat /\ \A y \in T : y \in Nat /\ y <= m - 1
    BY <1>1, <2>1
  <2>3. PICK y \in T : TRUE
    OBVIOUS
  <2>4. m - 1 \in Nat
    BY <2>2, <2>3
  <2>5. m - 1 \in U
    BY <2>2, <2>4
  <2>6. QED
    BY <1>1, <2>2, <2>5
<1>3. \E x \in T : \A y \in T : x >= y
  BY <1>1, <1>2
<1>4. QED
  BY <1>3 DEF Max

\* Without its k-th element a sequence is one shorter, and what follows moves up.
LEMMA RemoveAtElements ==
    ASSUME NEW S, NEW s \in Seq(S), NEW k \in 1..Len(s)
    PROVE  /\ RemoveAt(s, k) \in Seq(S)
           /\ Len(RemoveAt(s, k)) = Len(s) - 1
           /\ \A j \in 1..(Len(s) - 1) : RemoveAt(s, k)[j] = IF j < k THEN s[j] ELSE s[j + 1]
<1> DEFINE a == SubSeq(s, 1, k - 1)
           b == SubSeq(s, k + 1, Len(s))
<1>1. a \in Seq(S) /\ Len(a) = k - 1 /\ \A j \in 1..(k - 1) : a[j] = s[j]
  OBVIOUS
<1>2. b \in Seq(S) /\ Len(b) = Len(s) - k /\ \A j \in 1..(Len(s) - k) : b[j] = s[k + j]
  OBVIOUS
<1>3. RemoveAt(s, k) = a \o b
  BY DEF RemoveAt
<1> HIDE DEF a, b
<1>4. /\ a \o b \in Seq(S) /\ Len(a \o b) = Len(s) - 1
      /\ \A j \in 1..(Len(s) - 1) : (a \o b)[j] = IF j <= Len(a) THEN a[j] ELSE b[j - Len(a)]
  <2>1. a \in Seq(S) /\ b \in Seq(S)
    BY <1>1, <1>2
  <2>2. /\ a \o b \in Seq(S) /\ Len(a \o b) = Len(a) + Len(b)
        /\ \A j \in 1..(Len(a) + Len(b)) :
              (a \o b)[j] = IF j <= Len(a) THEN a[j] ELSE b[j - Len(a)]
    BY <2>1, ConcatProperties
  <2>3. Len(a) + Len(b) = Len(s) - 1
    BY <1>1, <1>2
  <2>4. QED
    BY <2>2, <2>3
<1>5. ASSUME NEW j \in 1..(Len(s) - 1)
      PROVE  (a \o b)[j] = IF j < k THEN s[j] ELSE s[j + 1]
  <2>1. CASE j < k
    BY <1>1, <1>4, <2>1
  <2>2. CASE ~(j < k)
    <3>1. j - (k - 1) \in 1..(Len(s) - k) /\ k + (j - (k - 1)) = j + 1
      BY <2>2
    <3>2. QED
      BY <1>1, <1>2, <1>4, <2>2, <3>1
  <2>3. QED
    BY <2>1, <2>2
<1>6. QED
  BY <1>3, <1>4, <1>5

\* RemoveFirst takes out an occurrence of the element, if there is one.
LEMMA RemoveFirstElements ==
    ASSUME NEW S, NEW s \in Seq(S), NEW e
    PROVE  \/ /\ RemoveFirst(s, e) = s
              /\ \A j \in 1..Len(s) : s[j] # e
           \/ \E k \in 1..Len(s) :
                 /\ s[k] = e
                 /\ RemoveFirst(s, e) \in Seq(S)
                 /\ Len(RemoveFirst(s, e)) = Len(s) - 1
                 /\ \A j \in 1..(Len(s) - 1) :
                       RemoveFirst(s, e)[j] = IF j < k THEN s[j] ELSE s[j + 1]
<1>1. CASE ~\E i \in 1..Len(s) : s[i] = e
  BY <1>1 DEF RemoveFirst
<1>2. CASE \E i \in 1..Len(s) : s[i] = e
  <2> DEFINE I == {i \in 1..Len(s) : s[i] = e}
             k == Min(I)
  <2>1. k \in I
    <3>1. I \subseteq Nat /\ I # {}
      BY <1>2
    <3>2. QED
      BY <3>1, MinIn
  <2>2. RemoveFirst(s, e) = RemoveAt(s, k)
    BY <1>2 DEF RemoveFirst, SelectInSeq
  <2>3. k \in 1..Len(s) /\ s[k] = e
    BY <2>1
  <2> HIDE DEF k
  <2>4. QED
    BY ZenonT(60), <2>2, <2>3, RemoveAtElements
<1>3. QED
  BY <1>1, <1>2

\* Taking an element out of a sequence does not make it longer.
LEMMA RemoveFirstShrinks ==
    ASSUME NEW S, NEW s \in Seq(S), NEW e
    PROVE  RemoveFirst(s, e) \in Seq(S) /\ Len(RemoveFirst(s, e)) <= Len(s)
<1>1. Len(s) \in Nat
  OBVIOUS
<1>2. QED
  BY <1>1, RemoveFirstElements

\* Where every element occurs once, RemoveFirst leaves all the others, each once, and the
\* last one where it is.
LEMMA RemoveFirstOnce ==
    ASSUME NEW S, NEW s \in Seq(S), NEW e, IsInjective(s)
    PROVE  /\ ToSet(RemoveFirst(s, e)) = ToSet(s) \ {e}
           /\ IsInjective(RemoveFirst(s, e))
           /\ s # <<>> /\ Last(s) # e =>
                 RemoveFirst(s, e) # <<>> /\ Last(RemoveFirst(s, e)) = Last(s)
<1> DEFINE r == RemoveFirst(s, e)
<1>1. CASE r = s /\ \A j \in 1..Len(s) : s[j] # e
  BY <1>1 DEF ToSet
<1>2. ASSUME NEW k \in 1..Len(s), s[k] = e, r \in Seq(S), Len(r) = Len(s) - 1,
             \A j \in 1..(Len(s) - 1) : r[j] = IF j < k THEN s[j] ELSE s[j + 1]
      PROVE  /\ ToSet(r) = ToSet(s) \ {e}
             /\ IsInjective(r)
             /\ s # <<>> /\ Last(s) # e => r # <<>> /\ Last(r) = Last(s)
  <2> HIDE DEF r
  <2>1. DOMAIN s = 1..Len(s) /\ DOMAIN r = 1..(Len(s) - 1) /\ Len(s) \in Nat
    BY <1>2
  <2>2. \A i, j \in 1..Len(s) : s[i] = s[j] => i = j
    BY <2>1 DEF IsInjective
  <2>3. ASSUME NEW j \in 1..(Len(s) - 1)
        PROVE  /\ j \in 1..Len(s) /\ j + 1 \in 1..Len(s)
               /\ r[j] \in {s[j], s[j + 1]} /\ r[j] \in ToSet(s) /\ r[j] # e
    <3>1. j \in 1..Len(s) /\ j + 1 \in 1..Len(s)
      BY <2>1
    <3>2. r[j] = IF j < k THEN s[j] ELSE s[j + 1]
      BY <1>2
    <3>3. r[j] # e
      BY <1>2, <2>1, <2>2, <3>1, <3>2
    <3>4. QED
      BY <2>1, <3>1, <3>2, <3>3 DEF ToSet
  <2>4. ASSUME NEW i \in 1..Len(s), s[i] # e
        PROVE  \E j \in 1..(Len(s) - 1) : r[j] = s[i]
    <3>1. CASE i < k
      <4>1. i \in 1..(Len(s) - 1) /\ r[i] = s[i]
        BY <1>2, <2>1, <3>1
      <4>2. QED
        BY <4>1
    <3>2. CASE i > k
      <4>1. i - 1 \in 1..(Len(s) - 1) /\ ~(i - 1 < k) /\ (i - 1) + 1 = i
        BY <2>1, <3>2
      <4>2. r[i - 1] = s[i]
        BY <1>2, <4>1
      <4>3. QED
        BY <4>1, <4>2
    <3>3. QED
      BY <1>2, <2>1, <2>4, <3>1, <3>2
  <2>5. ToSet(r) = ToSet(s) \ {e}
    <3>1. \A x \in ToSet(r) : x \in ToSet(s) \ {e}
      BY <2>1, <2>3 DEF ToSet
    <3>2. \A x \in ToSet(s) \ {e} : x \in ToSet(r)
      BY <2>1, <2>4 DEF ToSet
    <3>3. QED
      BY <3>1, <3>2
  <2>6. IsInjective(r)
    <3> SUFFICES ASSUME NEW i \in 1..(Len(s) - 1), NEW j \in 1..(Len(s) - 1), r[i] = r[j], i < j
                 PROVE  FALSE
      BY <2>1 DEF IsInjective
    <3>1. /\ i < k => r[i] = s[i]
          /\ ~(i < k) => r[i] = s[i + 1]
          /\ j < k => r[j] = s[j]
          /\ ~(j < k) => r[j] = s[j + 1]
      BY <1>2
    <3>2. /\ i \in 1..Len(s) /\ i + 1 \in 1..Len(s)
          /\ j \in 1..Len(s) /\ j + 1 \in 1..Len(s)
      BY <2>1
    <3>3. CASE i < k /\ ~(j < k)
      <4>1. s[i] = s[j + 1] /\ i # j + 1
        BY <1>2, <3>1, <3>3
      <4>2. QED
        BY <2>2, <3>2, <4>1
    <3>4. CASE i < k /\ j < k
      BY <1>2, <2>2, <3>1, <3>2, <3>4
    <3>5. CASE ~(i < k)
      <4>1. s[i + 1] = s[j + 1] /\ i + 1 # j + 1
        BY <1>2, <3>1, <3>5
      <4>2. QED
        BY <2>2, <3>2, <4>1
    <3>6. QED
      BY <3>3, <3>4, <3>5
  <2>7. ASSUME s # <<>>, s[Len(s)] # e PROVE r # <<>> /\ r[Len(r)] = s[Len(s)]
    <3>1. Len(s) \in 1..Len(s) /\ k < Len(s)
      BY <1>2, <2>1, <2>7
    <3>2. Len(s) - 1 \in 1..(Len(s) - 1) /\ ~(Len(s) - 1 < k) /\ (Len(s) - 1) + 1 = Len(s)
      BY <2>1, <3>1
    <3>3. r[Len(s) - 1] = s[Len(s)]
      BY <1>2, <3>2
    <3>4. QED
      BY <1>2, <3>2, <3>3
  <2>8. QED
    BY <2>5, <2>6, <2>7 DEF Last
<1>3. QED
  BY <1>1, <1>2, RemoveFirstElements

\* The tail has all the elements but the first, each once, and the same last one.
LEMMA TailOnce ==
    ASSUME NEW S, NEW s \in Seq(S), s # <<>>, IsInjective(s)
    PROVE  /\ Tail(s) \in Seq(S) /\ IsInjective(Tail(s))
           /\ ToSet(Tail(s)) = ToSet(s) \ {Head(s)}
<1>1. /\ DOMAIN s = 1..Len(s) /\ Len(s) \in Nat /\ Len(s) > 0 /\ Head(s) = s[1]
      /\ Tail(s) \in Seq(S) /\ DOMAIN Tail(s) = 1..(Len(s) - 1)
      /\ \A j \in 1..(Len(s) - 1) : Tail(s)[j] = s[j + 1]
  OBVIOUS
<1>2. \A i, j \in 1..Len(s) : s[i] = s[j] => i = j
  BY <1>1 DEF IsInjective
<1>3. IsInjective(Tail(s))
  BY <1>1, <1>2 DEF IsInjective
<1>4. ASSUME NEW j \in 1..(Len(s) - 1) PROVE Tail(s)[j] \in ToSet(s) \ {Head(s)}
  <2>1. j + 1 \in 1..Len(s) /\ 1 \in 1..Len(s) /\ j + 1 # 1
    BY <1>1
  <2>2. QED
    BY <1>1, <1>2, <2>1 DEF ToSet
<1>5. ASSUME NEW i \in 1..Len(s), s[i] # Head(s)
      PROVE  \E j \in 1..(Len(s) - 1) : Tail(s)[j] = s[i]
  <2>1. i - 1 \in 1..(Len(s) - 1) /\ (i - 1) + 1 = i
    BY <1>1, <1>5
  <2>2. QED
    BY <1>1, <2>1
<1>6. ToSet(Tail(s)) = ToSet(s) \ {Head(s)}
  <2>1. \A x \in ToSet(Tail(s)) : x \in ToSet(s) \ {Head(s)}
    BY <1>1, <1>4 DEF ToSet
  <2>2. ASSUME NEW x \in ToSet(s) \ {Head(s)} PROVE x \in ToSet(Tail(s))
    <3>1. PICK i \in 1..Len(s) : s[i] = x
      BY <1>1 DEF ToSet
    <3>2. PICK j \in 1..(Len(s) - 1) : Tail(s)[j] = x
      BY <1>5, <3>1
    <3>3. QED
      BY <1>1, <3>2 DEF ToSet
  <2>3. QED
    BY <2>1, <2>2
<1>7. QED
  BY <1>1, <1>3, <1>6

\* An element that is not there yet is added at the end.
LEMMA AppendOnce ==
    ASSUME NEW S, NEW s \in Seq(S), NEW e \in S, IsInjective(s), e \notin ToSet(s)
    PROVE  /\ Append(s, e) \in Seq(S) /\ IsInjective(Append(s, e))
           /\ ToSet(Append(s, e)) = ToSet(s) \cup {e}
           /\ Append(s, e) # <<>> /\ Last(Append(s, e)) = e
<1> DEFINE r == Append(s, e)
<1>1. /\ DOMAIN s = 1..Len(s) /\ Len(s) \in Nat
      /\ r \in Seq(S) /\ Len(r) = Len(s) + 1 /\ DOMAIN r = 1..(Len(s) + 1)
      /\ r[Len(s) + 1] = e /\ \A j \in 1..Len(s) : r[j] = s[j]
  OBVIOUS
<1> HIDE DEF r
<1>2. /\ \A i, j \in 1..Len(s) : s[i] = s[j] => i = j
      /\ \A i \in 1..Len(s) : s[i] # e
  BY <1>1 DEF IsInjective, ToSet
<1>3. \A i \in 1..(Len(s) + 1) : i \in 1..Len(s) \/ i = Len(s) + 1
  BY <1>1
<1>4. IsInjective(r)
  BY <1>1, <1>2, <1>3 DEF IsInjective
<1>5. ToSet(r) = ToSet(s) \cup {e}
  BY <1>1, <1>3 DEF ToSet
<1>6. r # <<>> /\ Last(r) = e
  BY <1>1 DEF Last
<1>7. QED
  BY <1>1, <1>4, <1>5, <1>6 DEF r

-----------------------------------------------------------------------------
(* Sums of sizes, as sets of places *)

\* The bytes of several sizes, each by its owner and its place.
Places(S, size) == UNION {{x} \X (1..size[x]) : x \in S}

\* A block has as many places as its size says,
LEMMA BlockSize ==
    ASSUME NEW x, NEW k \in Nat
    PROVE  IsFiniteSet({x} \X (1..k)) /\ Cardinality({x} \X (1..k)) = k
<1>1. IsFiniteSet({x}) /\ Cardinality({x}) = 1
  BY FS_Singleton
<1>2. IsFiniteSet(1..k) /\ Cardinality(1..k) = k
  BY FS_Interval
<1> DEFINE single == {x}
           places == 1..k
<1> HIDE DEF single, places
<1>3. /\ IsFiniteSet(single \X places)
      /\ Cardinality(single \X places) = Cardinality(single) * Cardinality(places)
  BY <1>1, <1>2, FS_Product DEF single, places
<1>4. Cardinality(single) * Cardinality(places) = k
  BY <1>1, <1>2 DEF single, places
<1>5. QED
  BY <1>3, <1>4 DEF single, places

\* the places of a set are those of an element and those of the others,
LEMMA PlacesSplit ==
    ASSUME NEW S, NEW x \in S, NEW size
    PROVE  /\ Places(S, size) = Places(S \ {x}, size) \cup ({x} \X (1..size[x]))
           /\ Places(S \ {x}, size) \cap ({x} \X (1..size[x])) = {}
<1>1. \A p : p \in Places(S, size) <=> \E y \in S : p \in {y} \X (1..size[y])
  BY DEF Places
<1>2. \A p : p \in Places(S \ {x}, size) <=> \E y \in S \ {x} : p \in {y} \X (1..size[y])
  BY DEF Places
<1>3. Places(S, size) = Places(S \ {x}, size) \cup ({x} \X (1..size[x]))
  BY <1>1, <1>2
<1>4. ASSUME NEW p, p \in Places(S \ {x}, size), p \in {x} \X (1..size[x]) PROVE FALSE
  <2>1. PICK y \in S \ {x} : p \in {y} \X (1..size[y])
    BY <1>2, <1>4
  <2>2. p[1] = y /\ p[1] = x
    BY <1>4, <2>1
  <2>3. QED
    BY <2>1, <2>2
<1>5. QED
  BY <1>3, <1>4

\* A set of places when one owner's size changes.
LEMMA PlacesChange ==
    ASSUME NEW S, NEW x \in S, NEW size, NEW new,
           size[x] \in Nat, new[x] \in Nat, \A y \in S \ {x} : new[y] = size[y],
           IsFiniteSet(Places(S, size))
    PROVE  /\ IsFiniteSet(Places(S, new))
           /\ Cardinality(Places(S, new)) = Cardinality(Places(S, size)) - size[x] + new[x]
           /\ Cardinality(Places(S, new)) \in Nat /\ Cardinality(Places(S, size)) \in Nat
<1> DEFINE rest == Places(S \ {x}, size)
           old == {x} \X (1..size[x])
           now == {x} \X (1..new[x])
<1>1. Places(S \ {x}, new) = rest
  BY DEF Places
<1>2. Places(S, size) = rest \cup old /\ rest \cap old = {}
  BY PlacesSplit
<1>3. Places(S, new) = rest \cup now /\ rest \cap now = {}
  <2>1. /\ Places(S, new) = Places(S \ {x}, new) \cup now
        /\ Places(S \ {x}, new) \cap now = {}
    BY PlacesSplit
  <2> HIDE DEF rest, now
  <2>2. QED
    BY <1>1, <2>1
<1>4. IsFiniteSet(old) /\ Cardinality(old) = size[x]
  BY BlockSize
<1>5. IsFiniteSet(now) /\ Cardinality(now) = new[x]
  BY BlockSize
<1> HIDE DEF rest, old, now
<1>6. IsFiniteSet(rest) /\ Cardinality(rest) \in Nat
  BY <1>2, FS_Subset, FS_CardinalityType
<1>7. Cardinality({}) = 0
  BY FS_EmptySet
<1>8. Cardinality(Places(S, size)) = Cardinality(rest) + size[x]
  <2>1. Cardinality(rest \cup old) = Cardinality(rest) + size[x] - Cardinality(rest \cap old)
    BY <1>4, <1>6, FS_Union
  <2>2. Cardinality(rest \cap old) = 0
    BY <1>2, <1>7
  <2>3. Cardinality(rest) + size[x] - 0 = Cardinality(rest) + size[x]
    BY <1>6
  <2>4. QED
    BY <1>2, <2>1, <2>2, <2>3
<1>9. /\ IsFiniteSet(Places(S, new))
      /\ Cardinality(Places(S, new)) = Cardinality(rest) + new[x]
  <2>1. /\ IsFiniteSet(rest \cup now)
        /\ Cardinality(rest \cup now) = Cardinality(rest) + new[x] - Cardinality(rest \cap now)
    BY <1>5, <1>6, FS_Union
  <2>2. Cardinality(rest \cap now) = 0
    BY <1>3, <1>7
  <2>3. Cardinality(rest) + new[x] - 0 = Cardinality(rest) + new[x]
    BY <1>6
  <2>4. Cardinality(rest \cup now) = Cardinality(rest) + new[x]
    BY <2>1, <2>2, <2>3
  <2>5. QED
    BY <1>3, <2>1, <2>4
<1>10. QED
  BY <1>6, <1>8, <1>9

\* Places depend on the sizes alone.
LEMMA PlacesSame ==
    ASSUME NEW S, NEW size, NEW new, \A y \in S : new[y] = size[y]
    PROVE  Places(S, new) = Places(S, size)
  BY DEF Places

\* No element, no places.
LEMMA NoPlaces ==
    ASSUME NEW S, NEW size, \A y \in S : size[y] = 0
    PROVE  Places(S, size) = {}
<1>1. ASSUME NEW y \in S PROVE {y} \X (1..size[y]) = {}
  <2>1. 1..size[y] = {}
    <3>1. size[y] = 0
      OBVIOUS
    <3>2. 1..0 = {}
      OBVIOUS
    <3>3. QED
      BY <3>1, <3>2
  <2>2. QED
    BY <2>1
<1>2. QED
  BY <1>1 DEF Places
=============================================================================
