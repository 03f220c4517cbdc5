------------------------------ MODULE CacheProofs ------------------------------
(***************************************************************************)
(* The caches FIFO, LRU and LFU implement CacheSpec.                       *)
(*                                                                         *)
(* The inductive invariant has a part for all of them and one for each:    *)
(*   Store    the list has every slot once, and the map owns the slots in  *)
(*            use: each of its keys has one of them, with that key in it;  *)
(*   FifoInv  the slots in use are the last ones, the others have no key;  *)
(*   EndKept  the slots in use are the first ones, and the iterator points *)
(*            behind them (LRU and LFU);                                   *)
(*   Counted  the multimap has one entry for each slot in use, its counts  *)
(*            ascend, and entries of equal counts are in the order of the  *)
(*            last uses of their keys (LFU).                               *)
(* From it the mapped state is computed (FifoShows, LruShows, LfuShows),   *)
(* and each call is matched with the call of CacheSpec (InsertMaps,        *)
(* UpdateMaps, EraseMaps, FindMaps).                                       *)
(***************************************************************************)
EXTENDS Caches, SequenceLemmas

\* A list of nodes: no repetitions, and no node is End.
IsList(s, T) == s \in Seq(T) /\ Injective(s) /\ End \notin T

\* position inverts at: an iterator has one place in its list.
LEMMA PositionIs ==
  ASSUME NEW T, NEW s, IsList(s, T), NEW q \in 1 .. Len(s) + 1
  PROVE  position(s, at(s, q)) = q
  <1>1. s \in Seq(T) /\ Injective(s) /\ End \notin T /\ Len(s) \in Nat
    BY DEF IsList
  <1>2. CASE q = Len(s) + 1
    BY <1>1, <1>2 DEF position, at
  <1>3. CASE q # Len(s) + 1
    <2>1. q \in 1 .. Len(s) /\ at(s, q) = s[q] /\ s[q] # End
      BY <1>1, <1>3 DEF at
    <2> QED
      BY <1>1, <2>1, IndexIs DEF position, SelectInSeq
  <1> QED
    BY <1>2, <1>3

\* What splice does to the node at p and a place before the one at q.
LEMMA SpliceGives ==
  ASSUME NEW T, NEW s, IsList(s, T), NEW p \in 1 .. Len(s), NEW q \in 1 .. Len(s) + 1
  PROVE  LET r == splice(s, at(s, q), s[p])
         IN /\ r \in Seq(T) /\ Len(r) = Len(s)
            /\ q <= p => \A i \in 1 .. Len(s) :
                 r[i] = IF i < q THEN s[i] ELSE IF i = q THEN s[p]
                        ELSE IF i <= p THEN s[i - 1] ELSE s[i]
            /\ q > p => \A i \in 1 .. Len(s) :
                 r[i] = IF i < p THEN s[i] ELSE IF i < q - 1 THEN s[i + 1]
                        ELSE IF i = q - 1 THEN s[p] ELSE s[i]
  <1> DEFINE rest == RemoveAt(s, p)
             n == Len(s)
             w == IF q < p THEN q ELSE q - 1
             r == splice(s, at(s, q), s[p])
  <1>1. s \in Seq(T) /\ Injective(s) /\ End \notin T /\ n \in Nat /\ s[p] \in T
    BY DEF IsList
  <1>2. /\ rest \in Seq(T) /\ Len(rest) = n - 1 /\ Injective(rest)
        /\ \A i \in 1 .. n - 1 : rest[i] = IF i < p THEN s[i] ELSE s[i + 1]
    BY <1>1, RemoveAtGives, RemoveAtInjective
  <1>3. RemoveFirst(s, s[p]) = rest
    BY <1>1, RemoveFirstIs
  <1>4. CASE q = p
    <2>1. at(s, q) = s[p]
      BY <1>1, <1>4 DEF at
    <2>2. r = s
      BY <2>1 DEF splice
    <2> HIDE DEF r
    <2> QED
      BY <1>1, <1>4, <2>2 DEF r
  <1>5. CASE q # p
    <2> HIDE DEF rest
    <2>1. at(s, q) # s[p]
      <3>1. CASE q = n + 1
        BY <1>1, <3>1 DEF at
      <3>2. CASE q # n + 1
        BY <1>1, <1>5, <3>2 DEF at, Injective
      <3> QED
        BY <3>1, <3>2
    <2>2. w \in 1 .. n /\ at(s, q) = at(rest, w)
      BY <1>1, <1>2, <1>5 DEF at
    <2>3. position(rest, at(s, q)) = w
      <3>1. IsList(rest, T) /\ w \in 1 .. Len(rest) + 1
        BY <1>1, <1>2, <2>2 DEF IsList
      <3> HIDE DEF w
      <3> QED
        BY <2>2, <3>1, PositionIs
    <2>4. r = InsertAt(rest, w, s[p])
      BY <1>3, <2>1, <2>3 DEF splice
    <2> HIDE DEF r, w
    <2>5. /\ r \in Seq(T) /\ Len(r) = n
          /\ \A i \in 1 .. n :
               r[i] = IF i < w THEN rest[i] ELSE IF i = w THEN s[p] ELSE rest[i - 1]
      <3>1. w \in 1 .. Len(rest) + 1 /\ Len(rest) + 1 = n
        BY <1>1, <1>2, <2>2
      <3> DEFINE e == s[p]
      <3>2. rest \in Seq(T) /\ e \in T
        BY <1>1, <1>2
      <3> HIDE DEF e
      <3>3. PutsAt(T, rest, w, e, InsertAt(rest, w, e))
        BY <3>1, <3>2, InsertAtGives
      <3> QED
        BY <2>4, <3>1, <3>3 DEF e, PutsAt
    <2>6. ASSUME q < p, NEW i \in 1 .. n
          PROVE  r[i] = IF i < q THEN s[i] ELSE IF i = q THEN s[p]
                        ELSE IF i <= p THEN s[i - 1] ELSE s[i]
      <3>1. w = q
        BY <2>6 DEF w
      <3>2. r[i] = IF i < q THEN rest[i] ELSE IF i = q THEN s[p] ELSE rest[i - 1]
        BY <2>5, <3>1
      <3>3. i < q => i \in 1 .. n - 1 /\ i < p
        BY <1>1, <2>6
      <3>4. i > q => i - 1 \in 1 .. n - 1 /\ (i - 1) + 1 = i /\ (i - 1 < p <=> i <= p)
        BY <1>1, <2>6
      <3>5. i < q => rest[i] = s[i]
        BY <1>2, <3>3
      <3>6. i > q => rest[i - 1] = IF i <= p THEN s[i - 1] ELSE s[i]
        BY <1>2, <3>4
      <3> QED
        BY <1>1, <3>2, <3>5, <3>6
    <2>7. ASSUME q > p, NEW i \in 1 .. n
          PROVE  r[i] = IF i < p THEN s[i] ELSE IF i < q - 1 THEN s[i + 1]
                        ELSE IF i = q - 1 THEN s[p] ELSE s[i]
      <3>1. w = q - 1
        BY <2>7 DEF w
      <3>2. r[i] = IF i < q - 1 THEN rest[i] ELSE IF i = q - 1 THEN s[p] ELSE rest[i - 1]
        BY <2>5, <3>1
      <3>3. i < q - 1 => i \in 1 .. n - 1
        BY <1>1, <2>7
      <3>4. i > q - 1 => i - 1 \in 1 .. n - 1 /\ (i - 1) + 1 = i /\ ~(i - 1 < p)
        BY <1>1, <2>7
      <3>5. i < q - 1 => rest[i] = IF i < p THEN s[i] ELSE s[i + 1]
        BY <1>2, <3>3
      <3>6. i > q - 1 => rest[i - 1] = s[i]
        BY <1>2, <3>4
      <3> QED
        BY <1>1, <2>7, <3>2, <3>5, <3>6
    <2> QED
      BY <1>5, <2>5, <2>6, <2>7 DEF r
  <1> QED
    BY <1>4, <1>5

\* splice keeps a list a list.
LEMMA SpliceKeeps ==
  ASSUME NEW T, NEW s, IsList(s, T), NEW p \in 1 .. Len(s), NEW q \in 1 .. Len(s) + 1
  PROVE  IsList(splice(s, at(s, q), s[p]), T)
  <1> DEFINE r == splice(s, at(s, q), s[p])
             n == Len(s)
             from(i) == IF q <= p
                          THEN IF i < q THEN i ELSE IF i = q THEN p ELSE IF i <= p THEN i - 1 ELSE i
                          ELSE IF i < p THEN i ELSE IF i < q - 1 THEN i + 1
                               ELSE IF i = q - 1 THEN p ELSE i
  <1>1. s \in Seq(T) /\ End \notin T /\ n \in Nat /\ DOMAIN s = 1 .. n
    BY DEF IsList
  <1>2. \A i, j \in 1 .. n : s[i] = s[j] => i = j
    BY <1>1 DEF IsList, Injective
  <1>3. r \in Seq(T) /\ Len(r) = n /\ DOMAIN r = 1 .. n
    BY SpliceGives
  <1>4. \A i \in 1 .. n : from(i) \in 1 .. n
    BY <1>1
  <1>5. \A i, j \in 1 .. n : from(i) = from(j) => i = j
    BY <1>1
  <1>6. \A i \in 1 .. n : r[i] = s[from(i)]
    <2>1. CASE q <= p
      <3>1. \A i \in 1 .. n : r[i] = IF i < q THEN s[i] ELSE IF i = q THEN s[p]
                                     ELSE IF i <= p THEN s[i - 1] ELSE s[i]
        BY <2>1, SpliceGives
      <3> HIDE DEF r
      <3> QED
        BY <2>1, <3>1
    <2>2. CASE ~(q <= p)
      <3>1. \A i \in 1 .. n : r[i] = IF i < p THEN s[i] ELSE IF i < q - 1 THEN s[i + 1]
                                     ELSE IF i = q - 1 THEN s[p] ELSE s[i]
        <4>1. q > p
          BY <1>1, <2>2
        <4> QED
          BY <4>1, SpliceGives
      <3> HIDE DEF r
      <3> QED
        BY <2>2, <3>1
    <2> QED
      BY <2>1, <2>2
  <1> HIDE DEF r, from
  <1>7. ASSUME NEW i \in 1 .. n, NEW j \in 1 .. n, r[i] = r[j] PROVE i = j
    BY <1>2, <1>4, <1>5, <1>6, <1>7
  <1> QED
    BY <1>1, <1>3, <1>7 DEF IsList, Injective, r

\* Moving a node to the front.
LEMMA ToFront ==
  ASSUME NEW T, NEW s, IsList(s, T), NEW p \in 1 .. Len(s)
  PROVE  LET r == splice(s, begin(s), s[p])
         IN /\ IsList(r, T) /\ Len(r) = Len(s)
            /\ \A i \in 1 .. Len(s) :
                 r[i] = IF i = 1 THEN s[p] ELSE IF i <= p THEN s[i - 1] ELSE s[i]
  <1> DEFINE r == splice(s, begin(s), s[p])
  <1>1. Len(s) \in Nat /\ 1 \in 1 .. Len(s) + 1 /\ 1 <= p /\ begin(s) = at(s, 1)
    BY DEF IsList, begin
  <1>2. IsList(r, T) /\ Len(r) = Len(s)
    BY <1>1, SpliceGives, SpliceKeeps
  <1>3. \A i \in 1 .. Len(s) : r[i] = IF i < 1 THEN s[i] ELSE IF i = 1 THEN s[p]
                                      ELSE IF i <= p THEN s[i - 1] ELSE s[i]
    BY <1>1, SpliceGives
  <1> HIDE DEF r
  <1>4. \A i \in 1 .. Len(s) : r[i] = IF i = 1 THEN s[p] ELSE IF i <= p THEN s[i - 1] ELSE s[i]
    BY <1>1, <1>3
  <1> QED
    BY <1>2, <1>4 DEF r

\* Moving a node before the one at q, which comes after it.
LEMMA ToBack ==
  ASSUME NEW T, NEW s, IsList(s, T), NEW p \in 1 .. Len(s), NEW q \in p + 1 .. Len(s) + 1
  PROVE  LET r == splice(s, at(s, q), s[p])
         IN /\ IsList(r, T) /\ Len(r) = Len(s)
            /\ \A i \in 1 .. Len(s) :
                 r[i] = IF i < p THEN s[i] ELSE IF i < q - 1 THEN s[i + 1]
                        ELSE IF i = q - 1 THEN s[p] ELSE s[i]
  <1>1. Len(s) \in Nat /\ q \in 1 .. Len(s) + 1 /\ q > p
    BY DEF IsList
  <1> QED
    BY <1>1, SpliceGives, SpliceKeeps

--------------------------------------------------------------------------------
(* The operators of CacheSpec are those of the caches. *)

\* The instance of CacheSpec has operators of its own for the same functions.
LEMMA SameRemoval ==
  ASSUME NEW s, NEW e
  PROVE  Abstract!RemoveFirst(s, e) = RemoveFirst(s, e)
  BY Zenon DEF RemoveFirst, RemoveAt, SelectInSeq, Min, Abstract!RemoveFirst, Abstract!RemoveAt,
               Abstract!SelectInSeq, Abstract!Min

LEMMA SameRestriction ==
  ASSUME NEW f, NEW S
  PROVE  Abstract!Restrict(f, S) = Restrict(f, S)
  BY Zenon DEF Restrict, Abstract!Restrict

\* What the caches show to CacheSpec.
Mapped ==
  /\ Recency \in Seq(Keys) /\ Injective(Recency)
  /\ Len(Recency) = usedSize /\ usedSize <= Capacity
  /\ DOMAIN keyedElements = {Recency[i] : i \in 1 .. usedSize}

\* The values of the cached keys, as CacheSpec has them.
Contents == [k \in DOMAIN keyedElements |-> value[keyedElements[k]]]

\* The cached keys are those of the map.
LEMMA CachedAre == ASSUME Mapped PROVE Abstract!Cached = DOMAIN keyedElements
  BY DEF Mapped, Abstract!Cached, Abstract!Range

\* A new key: kept is what was cached without the victim, if the cache was full.
LEMMA InsertMaps ==
  ASSUME Mapped, NEW k \in Keys, NEW v \in Values, ~Stored(k),
         kind' = kind, call' = <<"insert">>,
         NEW kept \in Seq(Keys),
         usedSize < Capacity => kept = Recency,
         ~(usedSize < Capacity) => kept = RemoveFirst(Recency, Abstract!Victim),
         Recency' = Append(kept, k),
         usedSize' = Len(kept) + 1,
         DOMAIN keyedElements' = {kept[i] : i \in 1 .. Len(kept)} \cup {k},
         Contents' = [j \in DOMAIN keyedElements' |-> IF j = k THEN v ELSE Contents[j]],
         Uses' = [j \in DOMAIN keyedElements' |-> IF j = k THEN 1 ELSE Uses[j]]
  PROVE  Abstract!Next
  <1>1. k \notin Abstract!Cached
    BY CachedAre DEF Stored
  <1>2. kept = IF Len(Recency) < Capacity THEN Recency
               ELSE Abstract!RemoveFirst(Recency, Abstract!Victim)
    BY SameRemoval DEF Mapped
  <1>3. Abstract!Range(kept) \cup {k} = DOMAIN keyedElements'
    BY DEF Abstract!Range
  <1>4. usedSize' = Len(Recency')
    OBVIOUS
  <1>5. Abstract!Insert(k, v)
    BY <1>1, <1>2, <1>3 DEF Abstract!Insert, Contents
  <1> QED
    BY <1>4, <1>5 DEF Abstract!Next

\* An access, by an update or by find: k is now the most recently used key, if it matters.
Accessed(k) ==
  /\ Recency' = IF kind = "FIFO" THEN Recency ELSE Append(RemoveFirst(Recency, k), k)
  /\ Uses' = IF kind = "LFU" THEN [Uses EXCEPT ![k] = @ + 1] ELSE Uses

LEMMA UseMaps == ASSUME NEW k, Accessed(k) PROVE Abstract!Use(k)
  BY SameRemoval DEF Accessed, Abstract!Use

\* A stored key gets a new value.
LEMMA UpdateMaps ==
  ASSUME Mapped, NEW k \in Keys, NEW v \in Values, Stored(k),
         kind' = kind, call' = <<"insert">>, Accessed(k),
         usedSize' = Len(Recency'),
         Contents' = [Contents EXCEPT ![k] = v]
  PROVE  Abstract!Next
  <1>1. k \in Abstract!Cached
    BY CachedAre DEF Stored
  <1>2. Abstract!Update(k, v)
    BY <1>1, UseMaps DEF Abstract!Update, Contents
  <1> QED
    BY <1>2 DEF Abstract!Next

\* A key is erased,
LEMMA EraseMaps ==
  ASSUME Mapped, NEW k \in Keys,
         kind' = kind, call' = <<"erase", Stored(k)>>,
         Recency' = RemoveFirst(Recency, k),
         usedSize' = Len(Recency'),
         Contents' = Restrict(Contents, DOMAIN keyedElements \ {k}),
         Uses' = Restrict(Uses, DOMAIN keyedElements \ {k})
  PROVE  Abstract!Next
  <1>1. Abstract!Cached = DOMAIN keyedElements
    BY CachedAre
  <1>2. call' = <<"erase", k \in Abstract!Cached>>
    BY <1>1 DEF Stored
  <1>3. Abstract!Erase(k)
    BY <1>1, <1>2, SameRemoval, SameRestriction DEF Abstract!Erase, Contents
  <1> QED
    BY <1>3 DEF Abstract!Next

\* or was not there.
LEMMA ErasesNothing ==
  ASSUME Mapped, NEW k \in Keys, ~Stored(k),
         kind' = kind, call' = <<"erase", Stored(k)>>,
         Recency' = Recency, usedSize' = usedSize, Contents' = Contents, Uses' = Uses
  PROVE  Abstract!Next
  <1>1. Recency = RemoveFirst(Recency, k)
    <2>1. \A i \in 1 .. Len(Recency) : Recency[i] # k
      BY DEF Mapped, Stored
    <2> QED
      BY <2>1, RemoveNothing
  <1>2. /\ Contents = Restrict(Contents, DOMAIN keyedElements \ {k})
        /\ Uses = Restrict(Uses, DOMAIN keyedElements \ {k})
    <2> DEFINE D == DOMAIN keyedElements
    <2>1. D \ {k} = D
      BY DEF Stored
    <2> HIDE DEF D
    <2>2. Contents = [j \in D |-> Contents[j]] /\ Uses = [j \in D |-> Uses[j]]
      BY DEF Contents, Uses, D
    <2>3. /\ Restrict(Contents, D) = [j \in D |-> Contents[j]]
          /\ Restrict(Uses, D) = [j \in D |-> Uses[j]]
      BY DEF Restrict
    <2> QED
      BY <2>1, <2>2, <2>3 DEF D
  <1>3. usedSize' = Len(Recency')
    BY DEF Mapped
  <1> QED
    BY <1>1, <1>2, <1>3, EraseMaps

\* A lookup, with or without a use.
LEMMA FindMaps ==
  ASSUME Mapped, NEW k \in Keys, NEW peek \in BOOLEAN,
         kind' = kind, usedSize' = Len(Recency'), Contents' = Contents,
         IF Stored(k) /\ ~peek THEN Accessed(k) ELSE Recency' = Recency /\ Uses' = Uses,
         call' = IF ~Stored(k) THEN <<"find", peek>>
                 ELSE IF kind = "LFU" THEN <<"find", peek, Contents[k], Uses'[k]>>
                 ELSE <<"find", peek, Contents[k]>>
  PROVE  Abstract!Next
  <1>1. Stored(k) <=> k \in Abstract!Cached
    BY CachedAre DEF Stored
  <1>2. Abstract!Find(k, peek)
    BY <1>1, UseMaps DEF Abstract!Find, Contents
  <1> QED
    BY <1>2 DEF Abstract!Next

LEMMA SameMin == ASSUME NEW S PROVE Abstract!Min(S) = Min(S)
  BY Zenon DEF Min, Abstract!Min

\* Where uses do not count, the victim is the key that comes first.
LEMMA FirstIsVictim ==
  ASSUME Mapped, usedSize >= 1, kind # "LFU"
  PROVE  Abstract!Victim = Recency[1]
  <1> DEFINE I == {i \in 1 .. Len(Recency) : Abstract!Candidate(Recency[i])}
  <1>1. Len(Recency) \in Nat /\ Len(Recency) >= 1
    BY DEF Mapped
  <1>2. I = 1 .. Len(Recency)
    BY DEF Abstract!Candidate
  <1>3. Min(I) = 1
    BY <1>1, <1>2, LeastIs
  <1> QED
    BY <1>1, <1>2, <1>3, SameMin DEF Abstract!Victim, Abstract!SelectInSeq

--------------------------------------------------------------------------------
(* The slots in use and the map of keys. *)

\* keyed leads from the keys to the slots of U, and their keys lead back.
Owns(ky, keyed, U) ==
  /\ \A s \in U : ky[s] \in DOMAIN keyed /\ keyed[ky[s]] = s
  /\ \A k \in DOMAIN keyed : k \in Keys /\ keyed[k] \in U /\ ky[keyed[k]] = k

\* f and g agree on S.
Agrees(f, g, S) == \A x \in S : f[x] = g[x]

\* What erase and emplace make of the map.
LEMMA WithoutGives ==
  ASSUME NEW keyed, NEW k
  PROVE  /\ DOMAIN Without(keyed, k) = DOMAIN keyed \ {k}
         /\ \A j \in DOMAIN keyed \ {k} : Without(keyed, k)[j] = keyed[j]
  BY DEF Without, Restrict

LEMMA WithGives ==
  ASSUME NEW keyed, NEW k, NEW s
  PROVE  /\ DOMAIN With(keyed, k, s) = DOMAIN keyed \cup {k}
         /\ With(keyed, k, s)[k] = s
         /\ \A j \in DOMAIN keyed : j # k => With(keyed, k, s)[j] = keyed[j]
  BY DEF With

\* Ownership is kept when a key and its slot go,
LEMMA Forget ==
  ASSUME NEW ky, NEW ky2, NEW keyed, NEW U, Owns(ky, keyed, U), NEW s \in U,
         Agrees(ky2, ky, U \ {s})
  PROVE  Owns(ky2, Without(keyed, ky[s]), U \ {s})
  <1> DEFINE w == Without(keyed, ky[s])
  <1>1. /\ DOMAIN w = DOMAIN keyed \ {ky[s]}
        /\ \A j \in DOMAIN keyed \ {ky[s]} : w[j] = keyed[j]
    BY WithoutGives
  <1> HIDE DEF w
  <1>2. /\ \A t \in U \ {s} : ky2[t] \in DOMAIN w /\ w[ky2[t]] = t
        /\ \A k \in DOMAIN w : k \in Keys /\ w[k] \in U \ {s} /\ ky2[w[k]] = k
    BY <1>1 DEF Owns, Agrees
  <1> QED
    BY <1>2 DEF Owns, w

\* when a key goes that is not in the map,
LEMMA ForgetNothing ==
  ASSUME NEW ky, NEW keyed, NEW U, Owns(ky, keyed, U), NEW k, k \notin DOMAIN keyed
  PROVE  Owns(ky, Without(keyed, k), U) /\ DOMAIN Without(keyed, k) = DOMAIN keyed
  <1> DEFINE w == Without(keyed, k)
  <1>1. DOMAIN w = DOMAIN keyed /\ \A j \in DOMAIN keyed : w[j] = keyed[j]
    BY WithoutGives
  <1> HIDE DEF w
  <1> QED
    BY <1>1 DEF Owns, w

\* and when a new key gets a slot that is not in use.
LEMMA Enter ==
  ASSUME NEW ky, NEW ky2, NEW keyed, NEW U, Owns(ky, keyed, U), NEW s, s \notin U,
         NEW k \in Keys, k \notin DOMAIN keyed, ky2[s] = k, Agrees(ky2, ky, U)
  PROVE  Owns(ky2, With(keyed, k, s), U \cup {s})
  <1> DEFINE w == With(keyed, k, s)
  <1>1. /\ DOMAIN w = DOMAIN keyed \cup {k} /\ w[k] = s
        /\ \A j \in DOMAIN keyed : j # k => w[j] = keyed[j]
    BY DEF With
  <1> HIDE DEF w
  <1>2. /\ \A t \in U \cup {s} : ky2[t] \in DOMAIN w /\ w[ky2[t]] = t
        /\ \A j \in DOMAIN w : j \in Keys /\ w[j] \in U \cup {s} /\ ky2[w[j]] = j
    BY <1>1 DEF Owns, Agrees
  <1> QED
    BY <1>2 DEF Owns, w

\* The places of the slots in use, and the slots.
Used == IF kind = "FIFO" THEN Capacity - usedSize + 1 .. Capacity ELSE 1 .. usedSize
InUse == {list[i] : i \in Used}

\* The list has every slot once, and the map owns the slots in use.
Store ==
  /\ IsList(list, Slots) /\ Len(list) = Capacity
  /\ usedSize \in 0 .. Capacity
  /\ key \in [Slots -> Keys \cup {NoKey}]
  /\ value \in [Slots -> Values \cup {DefaultValue}]
  /\ Owns(key, keyedElements, InUse)

\* What Store says of the places in the list.
LEMMA StoreFacts ==
  ASSUME Store
  PROVE  /\ Capacity \in Nat /\ Capacity >= 1 /\ usedSize \in Nat
         /\ list \in Seq(Slots) /\ DOMAIN list = Slots
         /\ \A i \in Slots : list[i] \in Slots
         /\ \A i, j \in Slots : list[i] = list[j] => i = j
         /\ Used \subseteq Slots
         /\ \A i \in Slots : list[i] \in InUse <=> i \in Used
  <1>1. /\ Capacity \in Nat /\ Capacity >= 1 /\ usedSize \in Nat
        /\ list \in Seq(Slots) /\ DOMAIN list = Slots
    BY CacheAssumption DEF Store, IsList, Slots
  <1>2. /\ \A i \in Slots : list[i] \in Slots
        /\ \A i, j \in Slots : list[i] = list[j] => i = j
    BY <1>1 DEF Store, IsList, Injective
  <1>3. Used \subseteq Slots
    BY <1>1 DEF Store, Used, Slots
  <1> QED
    BY <1>1, <1>2, <1>3 DEF InUse

\* A slot in use and its key.
LEMMA Dropped ==
  ASSUME Store, NEW slot \in InUse
  PROVE  LET w == Without(keyedElements, key[slot])
         IN /\ Owns(key, w, InUse \ {slot})
            /\ DOMAIN w = DOMAIN keyedElements \ {key[slot]}
            /\ \A j \in DOMAIN w : w[j] = keyedElements[j]
            /\ key[slot] \in Keys
  <1> DEFINE w == Without(keyedElements, key[slot])
  <1>1. DOMAIN w = DOMAIN keyedElements \ {key[slot]}
        /\ \A j \in DOMAIN keyedElements \ {key[slot]} : w[j] = keyedElements[j]
    BY WithoutGives
  <1>2. Owns(key, keyedElements, InUse) /\ Agrees(key, key, InUse \ {slot})
    BY DEF Store, Agrees
  <1>3. Owns(key, w, InUse \ {slot})
    BY <1>2, Forget
  <1>4. key[slot] \in Keys
    BY <1>2 DEF Owns
  <1> HIDE DEF w
  <1> QED
    BY <1>1, <1>3, <1>4 DEF w

\* A key enters a slot that is not, or no longer, in use.
Base(w, U, slot) ==
  /\ U \in SUBSET Slots /\ slot \in Slots \ U
  /\ Owns(key, w, U) /\ DOMAIN w \subseteq DOMAIN keyedElements
  /\ \A j \in DOMAIN w : w[j] = keyedElements[j]
\* k and v go to the slot,
Puts(w, slot, k, v) ==
  /\ keyedElements' = With(w, k, slot)
  /\ key' = [key EXCEPT ![slot] = k] /\ value' = [value EXCEPT ![slot] = v]
\* and this is what holds then.
Held(w, U, slot, k, v) ==
  /\ Owns(key', keyedElements', U \cup {slot})
  /\ DOMAIN keyedElements' = DOMAIN w \cup {k}
  /\ key' \in [Slots -> Keys \cup {NoKey}]
  /\ value' \in [Slots -> Values \cup {DefaultValue}]
  /\ key'[slot] = k /\ \A t \in Slots \ {slot} : key'[t] = key[t]
  /\ Contents' = [j \in DOMAIN keyedElements' |-> IF j = k THEN v ELSE Contents[j]]

LEMMA Entered ==
  ASSUME Store, NEW k \in Keys, NEW v \in Values, ~Stored(k),
         NEW w, NEW U, NEW slot, Base(w, U, slot), Puts(w, slot, k, v)
  PROVE  Held(w, U, slot, k, v)
  <1> USE DEF Base, Puts
  <1>1. /\ key'[slot] = k /\ \A t \in Slots \ {slot} : key'[t] = key[t]
        /\ key' \in [Slots -> Keys \cup {NoKey}]
        /\ value'[slot] = v /\ \A t \in Slots \ {slot} : value'[t] = value[t]
        /\ value' \in [Slots -> Values \cup {DefaultValue}]
    BY DEF Store
  <1>2. k \notin DOMAIN keyedElements /\ k \notin DOMAIN w
    BY DEF Stored
  <1>3. Agrees(key', key, U)
    BY <1>1 DEF Agrees
  <1>4. Owns(key', With(w, k, slot), U \cup {slot})
    BY <1>1, <1>2, <1>3, Enter
  <1>5. /\ DOMAIN With(w, k, slot) = DOMAIN w \cup {k} /\ With(w, k, slot)[k] = slot
        /\ \A j \in DOMAIN w : j # k => With(w, k, slot)[j] = w[j]
    BY DEF With
  <1>6. /\ DOMAIN keyedElements' = DOMAIN w \cup {k} /\ keyedElements'[k] = slot
        /\ \A j \in DOMAIN w : keyedElements'[j] = keyedElements[j]
    BY <1>2, <1>5
  <1>7. \A j \in DOMAIN w : keyedElements[j] \in U
    BY DEF Owns
  <1>8. ASSUME NEW j \in DOMAIN keyedElements'
        PROVE  value'[keyedElements'[j]] = IF j = k THEN v ELSE Contents[j]
    <2>1. CASE j = k
      BY <1>1, <1>6, <2>1
    <2>2. CASE j # k
      <3>1. j \in DOMAIN w /\ keyedElements'[j] = keyedElements[j]
        BY <1>6, <2>2
      <3>2. keyedElements[j] \in Slots \ {slot}
        BY <1>7, <3>1
      <3>3. Contents[j] = value[keyedElements[j]]
        BY <3>1 DEF Contents
      <3> QED
        BY <1>1, <2>2, <3>1, <3>2, <3>3
    <2> QED
      BY <2>1, <2>2
  <1>9. Contents' = [j \in DOMAIN keyedElements' |-> IF j = k THEN v ELSE Contents[j]]
    BY <1>8 DEF Contents
  <1> QED
    BY <1>1, <1>4, <1>6, <1>9 DEF Held

\* Uses are 1 but in LFU.
LEMMA UsesEntered ==
  ASSUME kind # "LFU", kind' = kind, NEW k, DOMAIN keyedElements' \subseteq DOMAIN keyedElements \cup {k}
  PROVE  Uses' = [j \in DOMAIN keyedElements' |-> IF j = k THEN 1 ELSE Uses[j]]
  BY DEF Uses

\* What is left in the mapped state when a key is erased.
LEMMA Reduced ==
  ASSUME NEW k, keyedElements' = Without(keyedElements, k), value' = value
  PROVE  /\ Contents' = Restrict(Contents, DOMAIN keyedElements \ {k})
         /\ kind # "LFU" /\ kind' = kind => Uses' = Restrict(Uses, DOMAIN keyedElements \ {k})
  <1>1. DOMAIN keyedElements' = DOMAIN keyedElements \ {k}
        /\ \A j \in DOMAIN keyedElements \ {k} : keyedElements'[j] = keyedElements[j]
    BY WithoutGives
  <1>2. Contents' = [j \in DOMAIN keyedElements \ {k} |-> value[keyedElements[j]]]
    BY <1>1 DEF Contents
  <1>3. Restrict(Contents, DOMAIN keyedElements \ {k})
          = [j \in DOMAIN keyedElements \ {k} |-> value[keyedElements[j]]]
    BY DEF Contents, Restrict
  <1>4. ASSUME kind # "LFU", kind' = kind
        PROVE  Uses' = Restrict(Uses, DOMAIN keyedElements \ {k})
    BY <1>1, <1>4 DEF Uses, Restrict
  <1> QED
    BY <1>2, <1>3, <1>4

\* The value of a key changes.
LEMMA Changed ==
  ASSUME Store, NEW k, Stored(k), NEW v \in Values, keyedElements' = keyedElements,
         value' = [value EXCEPT ![keyedElements[k]] = v]
  PROVE  /\ Contents' = [Contents EXCEPT ![k] = v]
         /\ value' \in [Slots -> Values \cup {DefaultValue}]
  <1>1. k \in DOMAIN keyedElements /\ \A j \in DOMAIN keyedElements :
          /\ keyedElements[j] \in Slots
          /\ keyedElements[j] = keyedElements[k] => j = k
    BY StoreFacts DEF Store, Owns, Stored, InUse
  <1>2. value' \in [Slots -> Values \cup {DefaultValue}]
    BY <1>1 DEF Store
  <1>3. \A j \in DOMAIN keyedElements :
          value'[keyedElements[j]] = IF j = k THEN v ELSE value[keyedElements[j]]
    BY <1>1 DEF Store
  <1> QED
    BY <1>1, <1>2, <1>3 DEF Contents

\* A stored key has its slot at a place in use.
LEMMA SlotOf ==
  ASSUME Store, NEW k, Stored(k)
  PROVE  \E p \in Used : keyedElements[k] = list[p] /\ key[list[p]] = k
  BY DEF Store, Owns, InUse, Stored

--------------------------------------------------------------------------------
(* LRU and LFU keep the slots in use first. *)

\* The iterator points behind the slots in use.
EndKept == kind # "FIFO" /\ Store /\ listEnd = at(list, usedSize + 1)

\* r is list with its node at p, in use, behind those in use.
Unuses(p, r) ==
  /\ IsList(r, Slots) /\ Len(r) = Capacity
  /\ \A i \in 1 .. Capacity :
       r[i] = IF i < p THEN list[i] ELSE IF i < usedSize THEN list[i + 1]
              ELSE IF i = usedSize THEN list[p] ELSE list[i]
  /\ p = usedSize => r = list
  /\ prev(r, listEnd) = list[p]
  /\ {r[i] : i \in 1 .. usedSize - 1} = InUse \ {list[p]}

\* unused moves a slot in use to the end of those in use.
LEMMA UnusedGives ==
  ASSUME EndKept, NEW p \in 1 .. usedSize
  PROVE  Unuses(p, unused(list[p]))
  <1> DEFINE n == usedSize
             C == Capacity
             r == unused(list[p])
  <1>1. Store /\ listEnd = at(list, n + 1) /\ InUse = {list[i] : i \in 1 .. n}
    BY DEF EndKept, InUse, Used
  <1>2. /\ C \in Nat /\ C >= 1 /\ n \in 1 .. C /\ p \in 1 .. n /\ p \in 1 .. C /\ n + 1 \in 1 .. C + 1
        /\ IsList(list, Slots) /\ Len(list) = C
        /\ \A i, j \in 1 .. C : list[i] = list[j] => i = j
    BY <1>1, StoreFacts DEF Store, Slots
  <1>3. prev(list, listEnd) = list[n]
    <2>1. position(list, listEnd) = n + 1
      BY <1>1, <1>2, PositionIs
    <2> QED
      BY <1>2, <2>1 DEF prev, at
  <1>4. /\ IsList(r, Slots) /\ Len(r) = C /\ (p = n => r = list)
        /\ \A i \in 1 .. C :
             r[i] = IF i < p THEN list[i] ELSE IF i < n THEN list[i + 1]
                    ELSE IF i = n THEN list[p] ELSE list[i]
    <2>1. CASE p = n
      <3>1. r = list
        BY <1>3, <2>1 DEF unused
      <3> HIDE DEF r
      <3> QED
        BY <1>2, <2>1, <3>1
    <2>2. CASE p # n
      <3> DEFINE q == n + 1
                 x == splice(list, at(list, q), list[p])
      <3>1. r = x
        BY <1>1, <1>2, <1>3, <2>2 DEF unused
      <3>2. IsList(list, Slots) /\ p \in 1 .. Len(list) /\ q \in p + 1 .. Len(list) + 1
        BY <1>2
      <3>3. q - 1 = n
        BY <1>2
      <3> HIDE DEF q, r
      <3>4. /\ IsList(x, Slots) /\ Len(x) = Len(list)
            /\ \A i \in 1 .. Len(list) :
                 x[i] = IF i < p THEN list[i] ELSE IF i < q - 1 THEN list[i + 1]
                        ELSE IF i = q - 1 THEN list[p] ELSE list[i]
        BY <3>2, ToBack
      <3> HIDE DEF x
      <3> QED
        BY <1>2, <2>2, <3>1, <3>3, <3>4
    <2> QED
      BY <2>1, <2>2
  <1> HIDE DEF r
  <1>5. prev(r, listEnd) = list[p]
    <2>1. r[n] = list[p]
      BY <1>2, <1>4
    <2>2. at(r, n + 1) = at(list, n + 1)
      <3>1. n + 1 <= C => r[n + 1] = list[n + 1]
        BY <1>2, <1>4
      <3> QED
        BY <1>2, <1>4, <3>1 DEF at
    <2>3. position(r, listEnd) = n + 1
      BY <1>1, <1>2, <1>4, <2>2, PositionIs
    <2> QED
      BY <1>2, <1>4, <2>1, <2>3 DEF prev, at
  <1>6. {r[i] : i \in 1 .. n - 1} = InUse \ {list[p]}
    <2>1. ASSUME NEW i \in 1 .. n - 1 PROVE r[i] \in InUse \ {list[p]}
      <3>1. CASE i < p
        BY <1>1, <1>2, <1>4, <3>1
      <3>2. CASE ~(i < p)
        <4>1. r[i] = list[i + 1] /\ i + 1 \in 1 .. n /\ i + 1 # p
          BY <1>2, <1>4, <3>2
        <4> QED
          BY <1>1, <1>2, <4>1
      <3> QED
        BY <3>1, <3>2
    <2>2. ASSUME NEW i \in 1 .. n, i # p PROVE list[i] \in {r[j] : j \in 1 .. n - 1}
      <3>1. CASE i < p
        <4>1. r[i] = list[i] /\ i \in 1 .. n - 1
          BY <1>2, <1>4, <3>1
        <4> QED
          BY <4>1
      <3>2. CASE ~(i < p)
        <4>1. i - 1 \in 1 .. n - 1 /\ i - 1 \in 1 .. C /\ ~(i - 1 < p) /\ i - 1 < n /\ (i - 1) + 1 = i
          <5>1. n \in Nat /\ C \in Nat /\ p \in Nat /\ p >= 1 /\ i \in Nat /\ n <= C /\ i <= n
            BY <1>2
          <5> QED
            BY <2>2, <3>2, <5>1
        <4>2. r[i - 1] = list[i]
          BY <1>4, <4>1
        <4> QED
          BY <4>1, <4>2
      <3> QED
        BY <3>1, <3>2
    <2>3. ASSUME NEW s \in InUse \ {list[p]} PROVE s \in {r[j] : j \in 1 .. n - 1}
      <3>1. PICK i \in 1 .. n : s = list[i]
        BY <1>1
      <3> QED
        BY <2>2, <3>1
    <2> QED
      BY <2>1, <2>3
  <1> QED
    BY <1>4, <1>5, <1>6 DEF Unuses, r

\* r is list with its node at p in front.
Fronts(p, r) ==
  /\ IsList(r, Slots) /\ Len(r) = Capacity
  /\ \A i \in 1 .. Capacity : r[i] = IF i = 1 THEN list[p] ELSE IF i <= p THEN list[i - 1] ELSE list[i]
  /\ \A q \in p + 1 .. Capacity + 1 : at(r, q) = at(list, q)

\* A splice to begin moves a slot to the front.
LEMMA FrontGives ==
  ASSUME Store, NEW p \in 1 .. Capacity
  PROVE  Fronts(p, splice(list, begin(list), list[p]))
  <1> DEFINE r == splice(list, begin(list), list[p])
             C == Capacity
  <1>1. IsList(list, Slots) /\ Len(list) = C /\ C \in Nat /\ p \in 1 .. Len(list)
    BY StoreFacts DEF Store
  <1>2. /\ IsList(r, Slots) /\ Len(r) = Len(list)
        /\ \A i \in 1 .. Len(list) :
             r[i] = IF i = 1 THEN list[p] ELSE IF i <= p THEN list[i - 1] ELSE list[i]
    BY <1>1, ToFront
  <1> HIDE DEF r
  <1>3. \A i \in 1 .. C : r[i] = IF i = 1 THEN list[p] ELSE IF i <= p THEN list[i - 1] ELSE list[i]
    BY <1>1, <1>2
  <1>4. ASSUME NEW q \in p + 1 .. C + 1 PROVE at(r, q) = at(list, q)
    <2>1. CASE q <= C
      <3>1. q \in 1 .. C /\ q # 1 /\ ~(q <= p)
        BY <1>1, <2>1
      <3> QED
        BY <1>1, <1>2, <1>3, <3>1 DEF at
    <2>2. CASE ~(q <= C)
      BY <1>1, <1>2, <2>2 DEF at
    <2> QED
      BY <2>1, <2>2
  <1> QED
    BY <1>1, <1>2, <1>3, <1>4 DEF Fronts, r

--------------------------------------------------------------------------------
(* FIFO. *)

\* The slots in use are the last ones, and the others have no key.
FifoInv == kind = "FIFO" /\ Store /\ \A i \in Slots \ Used : key[list[i]] = NoKey

\* What FifoInv means for the mapped state.
FifoShows ==
  /\ Recency = [i \in 1 .. usedSize |-> key[list[Capacity - usedSize + i]]]
  /\ Mapped

LEMMA FifoRecency == FifoInv => FifoShows
  <1> SUFFICES ASSUME FifoInv PROVE FifoShows
    OBVIOUS
  <1>1. Recency = [i \in 1 .. usedSize |-> key[list[Capacity - usedSize + i]]]
    BY DEF FifoInv, Recency
  <1>2. Store /\ Used = Capacity - usedSize + 1 .. Capacity
    BY DEF FifoInv, Used
  <1>3. usedSize \in Nat /\ usedSize <= Capacity /\ Capacity \in Nat
    BY <1>2, StoreFacts DEF Store
  <1>4. ASSUME NEW i \in 1 .. usedSize
        PROVE  /\ Capacity - usedSize + i \in Used /\ Capacity - usedSize + i \in Slots
               /\ list[Capacity - usedSize + i] \in InUse
    <2>1. Capacity - usedSize + i \in Used
      BY <1>2, <1>3
    <2> QED
      BY <1>2, <2>1, StoreFacts DEF InUse
  <1>5. \A i \in 1 .. usedSize :
          /\ Recency[i] = key[list[Capacity - usedSize + i]]
          /\ Recency[i] \in DOMAIN keyedElements
          /\ keyedElements[Recency[i]] = list[Capacity - usedSize + i]
    BY <1>1, <1>2, <1>4 DEF Store, Owns
  <1>6. DOMAIN keyedElements \subseteq Keys
    BY <1>2 DEF Store, Owns
  <1>7. Recency \in Seq(Keys) /\ Len(Recency) = usedSize /\ DOMAIN Recency = 1 .. usedSize
    <2>1. \A i \in 1 .. usedSize : key[list[Capacity - usedSize + i]] \in Keys
      BY <1>5, <1>6
    <2> QED
      BY <1>1, <1>3, <2>1
  <1>8. Injective(Recency)
    <2> SUFFICES ASSUME NEW i \in 1 .. usedSize, NEW j \in 1 .. usedSize, Recency[i] = Recency[j]
                 PROVE  i = j
      BY <1>7 DEF Injective
    <2>1. list[Capacity - usedSize + i] = list[Capacity - usedSize + j]
      BY <1>5
    <2>2. Capacity - usedSize + i = Capacity - usedSize + j
      BY <1>2, <1>4, <2>1, StoreFacts
    <2> QED
      BY <1>3, <2>2
  <1>9. ASSUME NEW k \in DOMAIN keyedElements PROVE \E i \in 1 .. usedSize : Recency[i] = k
    <2>1. keyedElements[k] \in InUse /\ key[keyedElements[k]] = k
      BY <1>2 DEF Store, Owns
    <2>2. PICK q \in Used : list[q] = keyedElements[k]
      BY <2>1 DEF InUse
    <2>3. q - (Capacity - usedSize) \in 1 .. usedSize
          /\ Capacity - usedSize + (q - (Capacity - usedSize)) = q
      BY <1>2, <1>3, <2>2
    <2> QED
      BY <1>5, <2>1, <2>2, <2>3
  <1> QED
    BY <1>1, <1>3, <1>5, <1>7, <1>8, <1>9 DEF Mapped, FifoShows

\* doInsert takes the first slot: an unused one, or that of the oldest key.
LEMMA FifoInserts ==
  ASSUME FifoInv, NEW k \in Keys, NEW v \in Values, ~Stored(k), fifoDoInsert(k, v),
         call' = <<"insert">>, kind' = kind
  PROVE  FifoInv' /\ Abstract!Next
  <1> DEFINE n == usedSize
             C == Capacity
             m == IF n < C THEN n ELSE C - 1
             slot == list[1]
             w == Without(keyedElements, key[slot])
             U == {list[i] : i \in C - m + 1 .. C}
             kept == [i \in 1 .. m |-> key[list[C - m + i]]]
  <1>1. /\ Store /\ Used = C - n + 1 .. C /\ InUse = {list[i] : i \in C - n + 1 .. C}
        /\ \A i \in Slots \ Used : key[list[i]] = NoKey
    BY DEF FifoInv, Used, InUse
  <1>2. /\ C \in Nat /\ C >= 1 /\ n \in 0 .. C /\ Slots = 1 .. C /\ m \in 0 .. C - 1
        /\ IsList(list, Slots) /\ Len(list) = C /\ DOMAIN key = Slots /\ DOMAIN value = Slots
        /\ \A i \in 1 .. C : list[i] \in Slots
        /\ \A i, j \in 1 .. C : list[i] = list[j] => i = j
        /\ Owns(key, keyedElements, InUse)
    <2>1. C \in Nat /\ C >= 1 /\ n \in 0 .. C /\ Slots = 1 .. C
      BY <1>1, StoreFacts DEF Store, Slots
    <2>2. m \in 0 .. C - 1
      BY <2>1
    <2> QED
      BY <1>1, <2>1, <2>2, StoreFacts DEF Store
  <1>3. slot = begin(list) /\ slot = list[1] /\ slot \in Slots /\ slot \notin U
    BY <1>2 DEF begin, at
  <1>4. /\ list' = splice(list, End, slot) /\ key' = [key EXCEPT ![slot] = k]
        /\ value' = [value EXCEPT ![slot] = v] /\ keyedElements' = With(w, k, slot)
        /\ usedSize' = IF key[slot] = NoKey THEN n + 1 ELSE n
    BY <1>3 DEF fifoDoInsert
  <1>5. /\ IsList(list', Slots) /\ Len(list') = C
        /\ \A i \in 1 .. C : list'[i] = IF i < C THEN list[i + 1] ELSE slot
    <2> DEFINE p == 1
               q == C + 1
               r == splice(list, at(list, q), list[p])
    <2>1. /\ p = 1 /\ q = C + 1 /\ at(list, q) = End
          /\ p \in 1 .. Len(list) /\ q \in p + 1 .. Len(list) + 1
      BY <1>2 DEF at
    <2>2. list' = r
      BY <1>4, <2>1
    <2> HIDE DEF p, q
    <2>3. /\ IsList(r, Slots) /\ Len(r) = Len(list)
          /\ \A i \in 1 .. Len(list) :
               r[i] = IF i < p THEN list[i] ELSE IF i < q - 1 THEN list[i + 1]
                      ELSE IF i = q - 1 THEN list[p] ELSE list[i]
      <3>1. IsList(list, Slots) /\ p \in 1 .. Len(list) /\ q \in p + 1 .. Len(list) + 1
        BY <1>2, <2>1
      <3> QED
        BY <3>1, ToBack, SMT
    <2> HIDE DEF r
    <2> QED
      BY <1>2, <2>1, <2>2, <2>3
  <1>6. n \in Nat /\ m \in Nat /\ (n < C => m = n) /\ (~(n < C) => n = C /\ m = C - 1)
    BY <1>2
  <1> HIDE DEF m, slot
  <1>7. /\ Owns(key, w, U) /\ DOMAIN w \subseteq DOMAIN keyedElements
        /\ \A j \in DOMAIN w : w[j] = keyedElements[j]
        /\ usedSize' = m + 1
    <2>1. CASE n < C   \* the first slot is unused, and has no key
      <3>1. 1 \in Slots \ Used /\ key[slot] = NoKey
        BY <1>1, <1>2, <1>3, <2>1
      <3>2. U = InUse /\ m = n
        BY <1>1, <1>6, <2>1
      <3>3. key[slot] \notin DOMAIN keyedElements
        BY <1>2, <3>1, CacheAssumption DEF Owns
      <3>4. Owns(key, w, InUse) /\ DOMAIN w = DOMAIN keyedElements
        <4>1. Owns(key, keyedElements, InUse)
          BY <1>2
        <4> QED
          BY <3>3, <4>1, ForgetNothing
      <3>5. \A j \in DOMAIN w : w[j] = keyedElements[j]
        BY DEF Without, Restrict
      <3> HIDE DEF w, U
      <3> QED
        BY <1>2, <1>4, <3>1, <3>2, <3>4, <3>5
    <2>2. CASE ~(n < C)   \* the first slot has the oldest element
      <3>1. n = C /\ m = C - 1 /\ 1 \in Used
        BY <1>1, <1>2, <1>6, <2>2
      <3>2. slot \in InUse /\ U = InUse \ {slot}
        <4>1. InUse = {list[i] : i \in 1 .. C} /\ U = {list[i] : i \in 2 .. C}
          <5>1. C - n + 1 = 1 /\ C - m + 1 = 2
            BY <1>2, <3>1
          <5> QED
            BY <1>1, <5>1
        <4>2. slot = list[1] /\ 1 \in 1 .. C /\ 1 .. C = {1} \cup (2 .. C)
          BY <1>2, <1>3
        <4>3. U \subseteq InUse /\ InUse \subseteq U \cup {slot} /\ slot \in InUse
          BY <4>1, <4>2
        <4> HIDE DEF U
        <4> QED
          BY <1>3, <4>3
      <3>3. /\ Owns(key, w, InUse \ {slot}) /\ DOMAIN w = DOMAIN keyedElements \ {key[slot]}
            /\ \A j \in DOMAIN w : w[j] = keyedElements[j]
            /\ key[slot] \in Keys
        BY <1>1, <3>2, Dropped
      <3> HIDE DEF w, U
      <3> QED
        BY <1>2, <1>4, <3>1, <3>2, <3>3, CacheAssumption
    <2> QED
      BY <2>1, <2>2
  <1>10. U \subseteq Slots
    BY <1>2, <1>6
  <1> HIDE DEF w
  <1>11. /\ Owns(key', keyedElements', U \cup {slot})
         /\ DOMAIN keyedElements' = DOMAIN w \cup {k}
         /\ key' \in [Slots -> Keys \cup {NoKey}]
         /\ value' \in [Slots -> Values \cup {DefaultValue}]
         /\ key'[slot] = k /\ \A t \in Slots \ {slot} : key'[t] = key[t]
         /\ Contents' = [j \in DOMAIN keyedElements' |-> IF j = k THEN v ELSE Contents[j]]
    <2> HIDE DEF U
    <2>1. Store /\ Base(w, U, slot) /\ Puts(w, slot, k, v)
      BY <1>1, <1>3, <1>4, <1>7, <1>10 DEF Base, Puts
    <2>2. Held(w, U, slot, k, v)
      BY <2>1, Entered
    <2> QED
      BY <2>2 DEF Held
  <1>12. Used' = C - m .. C /\ InUse' = U \cup {slot}
    <2>1. Used' = C - m .. C
      BY <1>1, <1>2, <1>6, <1>7 DEF Used, FifoInv
    <2>2. InUse' = {list'[i] : i \in C - m .. C}
      BY <2>1 DEF InUse
    <2>3. ASSUME NEW i \in C - m .. C PROVE list'[i] \in U \cup {slot}
      <3>1. i \in 1 .. C
        BY <1>2, <1>6
      <3>2. CASE i = C
        BY <1>5, <3>1, <3>2
      <3>3. CASE i # C
        <4>1. i + 1 \in C - m + 1 .. C /\ list'[i] = list[i + 1]
          BY <1>2, <1>5, <1>6, <3>1, <3>3
        <4> QED
          BY <4>1
      <3> QED
        BY <3>2, <3>3
    <2>4. ASSUME NEW i \in C - m + 1 .. C PROVE list[i] \in InUse'
      <3>1. i - 1 \in C - m .. C /\ i - 1 \in 1 .. C /\ i - 1 < C /\ (i - 1) + 1 = i
        BY <1>2, <1>6
      <3>2. list'[i - 1] = list[i]
        BY <1>5, <3>1
      <3> QED
        BY <2>2, <3>1, <3>2
    <2>5. slot \in InUse'
      <3>1. C \in C - m .. C /\ list'[C] = slot
        BY <1>2, <1>5, <1>6
      <3> QED
        BY <2>2, <3>1
    <2> QED
      BY <2>1, <2>2, <2>3, <2>4, <2>5
  <1>13. Store'
    <2>1. usedSize' \in 0 .. C
      BY <1>2, <1>6, <1>7
    <2> QED
      BY <1>5, <1>11, <1>12, <2>1 DEF Store
  <1>14. ASSUME NEW i \in Slots \ Used' PROVE key'[list'[i]] = NoKey
    <2>1. i \in 1 .. C /\ i < C - m
      BY <1>2, <1>6, <1>12
    <2>2. n < C /\ m = n
      BY <1>2, <1>6, <2>1
    <2>3. i + 1 \in Slots \ Used /\ i + 1 # 1 /\ i + 1 \in 1 .. C /\ 1 \in 1 .. C
      BY <1>1, <1>2, <2>1, <2>2
    <2>4. list'[i] = list[i + 1] /\ list[i + 1] # slot /\ list[i + 1] \in Slots
      BY <1>2, <1>5, <2>1, <2>2, <2>3 DEF slot
    <2> QED
      BY <1>1, <1>11, <2>3, <2>4
  <1>15. FifoInv'
    BY <1>13, <1>14 DEF FifoInv
  <1>16. /\ Recency = [i \in 1 .. n |-> key[list[C - n + i]]]
         /\ Recency \in Seq(Keys) /\ Len(Recency) = n /\ Injective(Recency)
         /\ Mapped
    BY FifoRecency DEF Mapped, FifoShows
  <1>17. /\ Recency' = [i \in 1 .. usedSize' |-> key'[list'[C - usedSize' + i]]]
         /\ Recency' \in Seq(Keys) /\ Len(Recency') = m + 1
         /\ DOMAIN keyedElements' = {Recency'[i] : i \in 1 .. usedSize'}
    <2>1. FifoShows'
      BY <1>15, FifoRecency, PTL
    <2> QED
      BY <1>7, <2>1 DEF Mapped, FifoShows
  <1>18. kept \in Seq(Keys) /\ Len(kept) = m /\ DOMAIN kept = 1 .. m
    <2>1. ASSUME NEW i \in 1 .. m PROVE key[list[C - m + i]] \in Keys
      <3>1. C - m + i \in C - m + 1 .. C
        BY <1>2, <1>6
      <3>2. list[C - m + i] \in U
        BY <3>1
      <3> QED
        BY <1>7, <1>16, <3>2 DEF Owns, Mapped
    <2> QED
      BY <1>6, <2>1
  <1>19. n < C => kept = Recency
    BY <1>6, <1>16
  <1>20. ~(n < C) => kept = RemoveFirst(Recency, Abstract!Victim)
    <2> SUFFICES ASSUME ~(n < C) PROVE kept = RemoveFirst(Recency, Abstract!Victim)
      OBVIOUS
    <2>1. n = C /\ m = C - 1 /\ n >= 1 /\ 1 \in 1 .. Len(Recency)
      BY <1>2, <1>6, <1>16
    <2>2. Abstract!Victim = Recency[1]
      BY <1>16, <2>1, FirstIsVictim DEF FifoInv
    <2>3. ASSUME NEW i \in 1 .. m PROVE kept[i] = Recency[i + 1]
      <3>1. i + 1 \in 1 .. n /\ C - m + i = C - n + (i + 1)
        BY <1>2, <2>1
      <3>2. Recency[i + 1] = key[list[C - n + (i + 1)]]
        BY <1>16, <3>1
      <3> QED
        BY <3>1, <3>2
    <2>4. kept = RemoveFirst(Recency, Recency[1])
      <3> HIDE DEF kept
      <3>1. /\ Recency \in Seq(Keys) /\ Injective(Recency) /\ Len(Recency) >= 1
            /\ kept \in Seq(Keys) /\ Len(kept) = Len(Recency) - 1
            /\ \A i \in 1 .. Len(Recency) - 1 : kept[i] = Recency[i + 1]
        BY <1>16, <1>18, <2>1, <2>3
      <3> QED
        BY <3>1, FirstRemoved
    <2> QED
      BY <2>2, <2>4
  <1>21. Recency' = Append(kept, k)
    <2>1. ASSUME NEW i \in 1 .. m + 1
          PROVE  Recency'[i] = IF i = m + 1 THEN k ELSE kept[i]
      <3>1. i \in 1 .. usedSize' /\ C - usedSize' + i = C - m - 1 + i /\ C - m - 1 + i \in 1 .. C
        BY <1>2, <1>6, <1>7
      <3>2. Recency'[i] = key'[list'[C - m - 1 + i]]
        BY <1>17, <3>1
      <3>3. CASE i = m + 1
        <4>1. C - m - 1 + i = C
          BY <1>2, <1>6, <3>3
        <4> QED
          BY <1>5, <1>11, <3>1, <3>2, <3>3, <4>1
      <3>4. CASE i # m + 1
        <4>1. /\ i \in 1 .. m /\ C - m - 1 + i < C /\ (C - m - 1 + i) + 1 = C - m + i
              /\ C - m + i \in C - m + 1 .. C
          BY <1>2, <1>6, <3>4
        <4>2. list'[C - m - 1 + i] = list[C - m + i]
          BY <1>5, <3>1, <4>1
        <4>3. list[C - m + i] \in U
          BY <4>1
        <4>4. list[C - m + i] \in Slots \ {slot}
          BY <1>3, <1>10, <4>3
        <4>5. key'[list[C - m + i]] = key[list[C - m + i]]
          BY <1>11, <4>4
        <4> QED
          BY <3>2, <3>4, <4>1, <4>2, <4>5
      <3> QED
        BY <3>3, <3>4
    <2> HIDE DEF kept
    <2> DEFINE y == Append(kept, k)
    <2>2. /\ y \in Seq(Keys) /\ Len(y) = m + 1
          /\ \A i \in 1 .. m : y[i] = kept[i]
          /\ y[m + 1] = k
      BY <1>18, AppendProperties
    <2> HIDE DEF y
    <2>3. \A i \in 1 .. m + 1 : Recency'[i] = y[i]
      BY <1>6, <2>1, <2>2
    <2>4. Recency' = y
      BY <1>17, <2>2, <2>3, SeqEqual
    <2> QED
      BY <2>4 DEF y
  <1>22. DOMAIN keyedElements' = {kept[i] : i \in 1 .. Len(kept)} \cup {k}
    <2> HIDE DEF kept
    <2>1. /\ \A i \in 1 .. m : Recency'[i] = kept[i]
          /\ Recency'[m + 1] = k
      BY <1>18, <1>21, AppendProperties
    <2>2. /\ usedSize' = m + 1 /\ Len(kept) = m /\ m \in Nat
          /\ DOMAIN keyedElements' = {Recency'[i] : i \in 1 .. m + 1}
      BY <1>6, <1>7, <1>17, <1>18
    <2> QED
      BY <2>1, <2>2
  <1>23. Uses' = [j \in DOMAIN keyedElements' |-> IF j = k THEN 1 ELSE Uses[j]]
    BY <1>7, <1>11, UsesEntered DEF FifoInv
  <1> HIDE DEF kept
  <1>24. usedSize' = Len(kept) + 1
    BY <1>7, <1>18
  <1>25. Abstract!Next
    BY <1>11, <1>16, <1>18, <1>19, <1>20, <1>21, <1>22, <1>23, <1>24, InsertMaps
  <1> QED
    BY <1>15, <1>25

\* doUpdate keeps the order.
LEMMA FifoUpdates ==
  ASSUME FifoInv, NEW k \in Keys, NEW v \in Values, Stored(k), fifoDoUpdate(k, v),
         call' = <<"insert">>, kind' = kind
  PROVE  FifoInv' /\ Abstract!Next
  <1>1. /\ value' = [value EXCEPT ![keyedElements[k]] = v]
        /\ UNCHANGED <<list, key, keyedElements, usedSize>>
    BY DEF fifoDoUpdate
  <1>2. Store /\ kind = "FIFO" /\ kind' = "FIFO" /\ FifoShows
    BY FifoRecency DEF FifoInv
  <1>3. /\ Contents' = [Contents EXCEPT ![k] = v]
        /\ value' \in [Slots -> Values \cup {DefaultValue}]
    BY <1>1, <1>2, Changed
  <1>4. FifoInv'
    BY <1>1, <1>2, <1>3 DEF FifoInv, Store, Used, InUse, Owns
  <1>5. Recency' = Recency /\ Uses' = Uses
    BY <1>1, <1>2 DEF Recency, Uses
  <1>6. Accessed(k) /\ usedSize' = Len(Recency') /\ Mapped
    BY <1>1, <1>2, <1>5 DEF Accessed, FifoShows, Mapped
  <1> QED
    BY <1>3, <1>4, <1>6, UpdateMaps

\* find changes nothing.
LEMMA FifoFinds ==
  ASSUME FifoInv, NEW k \in Keys, fifoFind(k), kind' = kind
  PROVE  FifoInv' /\ Abstract!Next
  <1>1. UNCHANGED <<list, key, value, keyedElements, usedSize>>
    BY DEF fifoFind
  <1>2. Store /\ kind = "FIFO" /\ kind' = "FIFO" /\ FifoShows
    BY FifoRecency DEF FifoInv
  <1>3. FifoInv'
    BY <1>1, <1>2 DEF FifoInv, Store, Used, InUse, Owns
  <1>4. Recency' = Recency /\ Uses' = Uses /\ Contents' = Contents
    BY <1>1, <1>2 DEF Recency, Uses, Contents
  <1>5. Accessed(k) /\ usedSize' = Len(Recency') /\ Mapped
    BY <1>1, <1>2, <1>4 DEF Accessed, FifoShows, Mapped
  <1>6. call' = IF ~Stored(k) THEN <<"find", FALSE>> ELSE <<"find", FALSE, Contents[k]>>
    BY DEF fifoFind, Stored, Contents
  <1> QED
    BY <1>2, <1>3, <1>4, <1>5, <1>6, FindMaps

\* doErase moves the slot to the front of the list.
LEMMA FifoErases ==
  ASSUME FifoInv, NEW k \in Keys, Stored(k), fifoDoErase(keyedElements[k]),
         call' = <<"erase", Stored(k)>>, kind' = kind
  PROVE  FifoInv' /\ Abstract!Next
  <1> DEFINE n == usedSize
             C == Capacity
             slot == keyedElements[k]
             d == C - n
  <1>1. /\ Store /\ Used = d + 1 .. C /\ InUse = {list[i] : i \in d + 1 .. C}
        /\ \A i \in Slots \ Used : key[list[i]] = NoKey
    BY DEF FifoInv, Used, InUse
  <1>2. /\ C \in Nat /\ C >= 1 /\ n \in 0 .. C /\ Slots = 1 .. C /\ d \in 0 .. C
        /\ IsList(list, Slots) /\ Len(list) = C /\ DOMAIN key = Slots /\ DOMAIN value = Slots
        /\ \A i \in 1 .. C : list[i] \in Slots
        /\ \A i, j \in 1 .. C : list[i] = list[j] => i = j
        /\ Owns(key, keyedElements, InUse)
    BY <1>1, StoreFacts DEF Store, Slots
  <1>3. PICK p \in d + 1 .. C : slot = list[p] /\ key[list[p]] = k
    BY <1>1, SlotOf
  <1>4. p \in 1 .. C /\ slot \in Slots /\ slot \in InUse /\ key[slot] = k
    BY <1>1, <1>2, <1>3
  <1>5. /\ list' = splice(list, begin(list), list[p]) /\ key' = [key EXCEPT ![slot] = NoKey]
        /\ value' = value /\ keyedElements' = Without(keyedElements, k) /\ usedSize' = n - 1
    BY <1>3, <1>4 DEF fifoDoErase
  <1>6. /\ IsList(list', Slots) /\ Len(list') = C
        /\ \A i \in 1 .. C : list'[i] = IF i = 1 THEN list[p] ELSE IF i <= p THEN list[i - 1] ELSE list[i]
    <2> DEFINE r == splice(list, begin(list), list[p])
    <2>1. /\ IsList(r, Slots) /\ Len(r) = Len(list)
          /\ \A i \in 1 .. Len(list) :
               r[i] = IF i = 1 THEN list[p] ELSE IF i <= p THEN list[i - 1] ELSE list[i]
      <3>1. IsList(list, Slots) /\ p \in 1 .. Len(list)
        BY <1>2, <1>4
      <3> QED
        BY <3>1, ToFront
    <2> HIDE DEF r
    <2> QED
      BY <1>2, <1>5, <2>1 DEF r
  <1> HIDE DEF slot
  <1>7. /\ key'[slot] = NoKey /\ \A t \in Slots \ {slot} : key'[t] = key[t]
        /\ key' \in [Slots -> Keys \cup {NoKey}]
    BY <1>1, <1>4, <1>5 DEF Store
  <1>8. Owns(key', keyedElements', InUse \ {slot})
    <2>1. InUse \subseteq Slots
      BY <1>1, <1>2
    <2>2. Agrees(key', key, InUse \ {slot})
      BY <1>7, <2>1 DEF Agrees
    <2>3. Owns(key', Without(keyedElements, key[slot]), InUse \ {slot})
      BY <1>2, <1>4, <2>2, Forget
    <2> QED
      BY <1>4, <1>5, <2>3
  <1> HIDE DEF d
  <1>9. Used' = d + 2 .. C /\ n >= 1 /\ n = C - d
    BY <1>1, <1>2, <1>3, <1>5 DEF Used, FifoInv, d
  <1>10. InUse' = InUse \ {slot}
    <2>1. InUse' = {list'[i] : i \in d + 2 .. C}
      BY <1>9 DEF InUse
    <2>2. ASSUME NEW i \in d + 2 .. C PROVE list'[i] \in InUse \ {slot}
      <3>1. i \in 1 .. C /\ i # 1
        BY <1>2
      <3>2. CASE i <= p
        <4>1. list'[i] = list[i - 1] /\ i - 1 \in d + 1 .. C /\ i - 1 # p /\ i - 1 \in 1 .. C
          BY <1>2, <1>3, <1>6, <3>1, <3>2
        <4> QED
          BY <1>1, <1>2, <1>3, <1>4, <4>1
      <3>3. CASE ~(i <= p)
        <4>1. list'[i] = list[i] /\ i \in d + 1 .. C /\ i # p
          BY <1>2, <1>3, <1>6, <3>1, <3>3
        <4> QED
          BY <1>1, <1>2, <1>3, <1>4, <3>1, <4>1
      <3> QED
        BY <3>2, <3>3
    <2>3. ASSUME NEW i \in d + 1 .. C, i # p PROVE list[i] \in InUse'
      <3>1. CASE i < p
        <4>1. i + 1 \in d + 2 .. C /\ i + 1 \in 1 .. C /\ i + 1 # 1 /\ i + 1 <= p /\ (i + 1) - 1 = i
          <5>1. d \in Nat /\ C \in Nat /\ p \in Nat /\ i \in Nat /\ p <= C /\ i >= d + 1
            BY <1>2, <1>3
          <5> QED
            BY <3>1, <5>1
        <4>2. list'[i + 1] = list[i]
          BY <1>6, <4>1
        <4> QED
          BY <2>1, <4>1, <4>2
      <3>2. CASE ~(i < p)
        <4>1. i \in d + 2 .. C /\ i \in 1 .. C /\ i # 1 /\ ~(i <= p)
          BY <1>2, <1>3, <2>3, <3>2
        <4>2. list'[i] = list[i]
          BY <1>6, <4>1
        <4> QED
          BY <2>1, <4>1, <4>2
      <3> QED
        BY <3>1, <3>2
    <2> QED
      BY <1>1, <1>3, <2>1, <2>2, <2>3
  <1>11. Store'
    <2>1. usedSize' \in 0 .. C
      BY <1>2, <1>5, <1>9
    <2> QED
      BY <1>1, <1>5, <1>6, <1>7, <1>8, <1>10, <2>1 DEF Store
  <1>12. ASSUME NEW i \in Slots \ Used' PROVE key'[list'[i]] = NoKey
    <2>1. i \in 1 .. C /\ i <= d + 1 /\ i <= p
      BY <1>2, <1>3, <1>9
    <2>2. CASE i = 1
      BY <1>3, <1>6, <1>7, <2>1, <2>2
    <2>3. CASE i # 1
      <3>1. i - 1 \in Slots \ Used /\ i - 1 # p /\ i - 1 \in 1 .. C
        BY <1>1, <1>2, <1>3, <2>1, <2>3
      <3>2. list'[i] = list[i - 1] /\ list[i - 1] # slot /\ list[i - 1] \in Slots
        BY <1>2, <1>3, <1>4, <1>6, <2>1, <2>3, <3>1
      <3> QED
        BY <1>1, <1>7, <3>1, <3>2
    <2> QED
      BY <2>2, <2>3
  <1>13. FifoInv'
    BY <1>11, <1>12 DEF FifoInv
  <1>14. /\ Recency = [i \in 1 .. n |-> key[list[d + i]]]
         /\ Recency \in Seq(Keys) /\ Len(Recency) = n /\ Injective(Recency)
         /\ Mapped
    BY FifoRecency DEF Mapped, FifoShows, d
  <1>15. /\ Recency' = [i \in 1 .. n - 1 |-> key'[list'[d + 1 + i]]]
         /\ Recency' \in Seq(Keys) /\ Len(Recency') = n - 1 /\ usedSize' = Len(Recency')
    <2>1. FifoShows'
      BY <1>13, FifoRecency, PTL
    <2>2. C - usedSize' = d + 1 /\ usedSize' = n - 1
      BY <1>2, <1>5, <1>9
    <2>3. Recency' = [i \in 1 .. usedSize' |-> key'[list'[C - usedSize' + i]]]
      BY <2>1 DEF FifoShows
    <2>4. Recency' \in Seq(Keys) /\ Len(Recency') = usedSize'
      BY <2>1 DEF Mapped, FifoShows
    <2> QED
      BY <2>2, <2>3, <2>4
  <1>16. Recency' = RemoveFirst(Recency, k)
    <2> DEFINE q == p - d
    <2>1. q \in 1 .. n /\ d + q = p
      BY <1>2, <1>3, <1>9
    <2> HIDE DEF q
    <2>2. Recency[q] = k
      BY <1>3, <1>14, <2>1
    <2>3. ASSUME NEW i \in 1 .. n - 1
          PROVE  Recency'[i] = IF i < q THEN Recency[i] ELSE Recency[i + 1]
      <3>1. /\ d + 1 + i \in 1 .. C /\ d + 1 + i # 1 /\ (d + 1 + i) - 1 = d + i
            /\ d + 1 + i = d + (i + 1) /\ i \in 1 .. n /\ i + 1 \in 1 .. n
            /\ d + i \in d + 1 .. C /\ d + (i + 1) \in d + 1 .. C
            /\ (d + 1 + i <= p <=> i < q)
        BY <1>2, <1>9, <2>1
      <3>2. list'[d + 1 + i] = IF i < q THEN list[d + i] ELSE list[d + (i + 1)]
        BY <1>6, <3>1
      <3>3. list'[d + 1 + i] \in Slots \ {slot}
        <4>1. d + 1 + i \in d + 2 .. C
          BY <1>2, <1>9
        <4>2. list'[d + 1 + i] \in InUse'
          BY <1>9, <4>1 DEF InUse
        <4>3. InUse \subseteq Slots
          BY <1>1, <1>2
        <4> QED
          BY <1>10, <4>2, <4>3
      <3>4. Recency'[i] = key[list'[d + 1 + i]]
        BY <1>7, <1>15, <3>3
      <3>5. Recency[i] = key[list[d + i]] /\ Recency[i + 1] = key[list[d + (i + 1)]]
        BY <1>14, <3>1
      <3> QED
        BY <3>2, <3>4, <3>5
    <2>4. /\ Recency \in Seq(Keys) /\ Injective(Recency) /\ q \in 1 .. Len(Recency)
          /\ k = Recency[q] /\ Recency' \in Seq(Keys) /\ Len(Recency') = Len(Recency) - 1
          /\ \A i \in 1 .. Len(Recency) - 1 :
               Recency'[i] = IF i < q THEN Recency[i] ELSE Recency[i + 1]
      BY <1>14, <1>15, <2>1, <2>2, <2>3
    <2> QED
      BY <2>4, RemovedIs
  <1>17. /\ Contents' = Restrict(Contents, DOMAIN keyedElements \ {k})
         /\ Uses' = Restrict(Uses, DOMAIN keyedElements \ {k})
    BY <1>5, Reduced DEF FifoInv
  <1> QED
    BY <1>13, <1>14, <1>15, <1>16, <1>17, EraseMaps

\* Every call on a FIFO cache.
LEMMA FifoStep ==
  ASSUME FifoInv, Next
  PROVE  FifoInv' /\ Abstract!Next
  <1>1. kind = "FIFO" /\ kind' = kind /\ fifoNext
    BY DEF FifoInv, Next
  <1>2. PICK k \in Keys : fifoErase(k) \/ fifoFind(k) \/ \E v \in Values : fifoInsert(k, v)
    BY <1>1 DEF fifoNext
  <1>3. CASE fifoErase(k)
    <2>1. CASE Stored(k)
      BY <1>1, <1>3, <2>1, FifoErases DEF fifoErase
    <2>2. CASE ~Stored(k)
      <3>1. UNCHANGED <<list, key, value, keyedElements, usedSize>> /\ call' = <<"erase", Stored(k)>>
        BY <1>3, <2>2 DEF fifoErase
      <3>2. FifoInv'
        BY <1>1, <3>1 DEF FifoInv, Store, Used, InUse, Owns
      <3>3. Recency' = Recency /\ Uses' = Uses /\ Contents' = Contents
        BY <1>1, <3>1 DEF Recency, Uses, Contents
      <3>4. Mapped
        BY FifoRecency DEF FifoShows
      <3> QED
        BY <1>1, <2>2, <3>1, <3>2, <3>3, <3>4, ErasesNothing
    <2> QED
      BY <2>1, <2>2
  <1>4. CASE fifoFind(k)
    BY <1>1, <1>4, FifoFinds
  <1>5. ASSUME NEW v \in Values, fifoInsert(k, v) PROVE FifoInv' /\ Abstract!Next
    <2>1. CASE Stored(k)
      BY <1>1, <1>5, <2>1, FifoUpdates DEF fifoInsert
    <2>2. CASE ~Stored(k)
      BY <1>1, <1>5, <2>2, FifoInserts DEF fifoInsert
    <2> QED
      BY <2>1, <2>2
  <1> QED
    BY <1>2, <1>3, <1>4, <1>5

--------------------------------------------------------------------------------
(* LRU. *)

\* The slots in use are the first ones; a key of the others is stale.
LruInv == kind = "LRU" /\ EndKept

\* What LruInv means for the mapped state.
LruShows ==
  /\ Recency = [i \in 1 .. usedSize |-> key[list[usedSize + 1 - i]]]
  /\ Mapped

LEMMA LruRecency == LruInv => LruShows
  <1> SUFFICES ASSUME LruInv PROVE LruShows
    OBVIOUS
  <1> DEFINE n == usedSize
  <1>1. Recency = [i \in 1 .. n |-> key[list[n + 1 - i]]]
    BY DEF LruInv, Recency
  <1>2. Store /\ Used = 1 .. n
    BY DEF LruInv, EndKept, Used
  <1>3. n \in Nat /\ n <= Capacity /\ Capacity \in Nat
    BY <1>2, StoreFacts DEF Store
  <1>4. ASSUME NEW i \in 1 .. n
        PROVE  n + 1 - i \in Used /\ n + 1 - i \in Slots /\ list[n + 1 - i] \in InUse
    <2>1. n + 1 - i \in Used
      BY <1>2, <1>3
    <2> QED
      BY <1>2, <2>1, StoreFacts DEF InUse
  <1>5. \A i \in 1 .. n :
          /\ Recency[i] = key[list[n + 1 - i]]
          /\ Recency[i] \in DOMAIN keyedElements
          /\ keyedElements[Recency[i]] = list[n + 1 - i]
    BY <1>1, <1>2, <1>4 DEF Store, Owns
  <1>6. DOMAIN keyedElements \subseteq Keys
    BY <1>2 DEF Store, Owns
  <1>7. Recency \in Seq(Keys) /\ Len(Recency) = n /\ DOMAIN Recency = 1 .. n
    <2>1. \A i \in 1 .. n : key[list[n + 1 - i]] \in Keys
      BY <1>5, <1>6
    <2> QED
      BY <1>1, <1>3, <2>1
  <1>8. Injective(Recency)
    <2> SUFFICES ASSUME NEW i \in 1 .. n, NEW j \in 1 .. n, Recency[i] = Recency[j]
                 PROVE  i = j
      BY <1>7 DEF Injective
    <2>1. list[n + 1 - i] = list[n + 1 - j]
      BY <1>5
    <2>2. n + 1 - i = n + 1 - j
      BY <1>2, <1>4, <2>1, StoreFacts
    <2> QED
      BY <1>3, <2>2
  <1>9. ASSUME NEW k \in DOMAIN keyedElements PROVE \E i \in 1 .. n : Recency[i] = k
    <2>1. keyedElements[k] \in InUse /\ key[keyedElements[k]] = k
      BY <1>2 DEF Store, Owns
    <2>2. PICK q \in Used : list[q] = keyedElements[k]
      BY <2>1 DEF InUse
    <2>3. n + 1 - q \in 1 .. n /\ n + 1 - (n + 1 - q) = q
      BY <1>2, <1>3, <2>2
    <2> QED
      BY <1>5, <2>1, <2>2, <2>3
  <1> QED
    BY <1>1, <1>3, <1>5, <1>7, <1>8, <1>9 DEF Mapped, LruShows

\* The facts of an LRU cache.
LruFacts ==
  /\ Capacity \in Nat /\ Capacity >= 1 /\ usedSize \in 0 .. Capacity /\ Slots = 1 .. Capacity
  /\ Store /\ EndKept /\ kind = "LRU" /\ Used = 1 .. usedSize
  /\ InUse = {list[i] : i \in 1 .. usedSize}
  /\ IsList(list, Slots) /\ Len(list) = Capacity
  /\ \A i \in 1 .. Capacity : list[i] \in Slots
  /\ \A i, j \in 1 .. Capacity : list[i] = list[j] => i = j
  /\ Recency = [i \in 1 .. usedSize |-> key[list[usedSize + 1 - i]]]
  /\ Recency \in Seq(Keys) /\ Len(Recency) = usedSize /\ Injective(Recency)
  /\ Mapped

LEMMA LruFactsHold == LruInv => LruFacts
  <1> SUFFICES ASSUME LruInv PROVE LruFacts
    OBVIOUS
  <1>1. Store /\ EndKept /\ kind = "LRU" /\ Used = 1 .. usedSize
        /\ InUse = {list[i] : i \in 1 .. usedSize}
    BY DEF LruInv, EndKept, Used, InUse
  <1>2. /\ Capacity \in Nat /\ Capacity >= 1 /\ usedSize \in 0 .. Capacity /\ Slots = 1 .. Capacity
        /\ IsList(list, Slots) /\ Len(list) = Capacity
        /\ \A i \in 1 .. Capacity : list[i] \in Slots
        /\ \A i, j \in 1 .. Capacity : list[i] = list[j] => i = j
    BY <1>1, StoreFacts DEF Store, Slots
  <1>3. /\ Recency = [i \in 1 .. usedSize |-> key[list[usedSize + 1 - i]]]
        /\ Recency \in Seq(Keys) /\ Len(Recency) = usedSize /\ Injective(Recency)
        /\ Mapped
    BY LruRecency DEF LruShows, Mapped
  <1> QED
    BY <1>1, <1>2, <1>3 DEF LruFacts

\* doErase moves the slot behind those in use and the iterator back to it.
LEMMA LruErases ==
  ASSUME LruInv, NEW k \in Keys, Stored(k), lruErase(k), kind' = kind
  PROVE  LruInv' /\ Abstract!Next
  <1> DEFINE n == usedSize
             C == Capacity
             slot == keyedElements[k]
             r == unused(slot)
  <1>1. LruFacts
    BY LruFactsHold
  <1>2. PICK p \in 1 .. n : slot = list[p] /\ key[list[p]] = k
    BY <1>1, SlotOf DEF LruFacts
  <1>3. Unuses(p, r)
    BY <1>1, <1>2, UnusedGives DEF LruFacts
  <1>4. /\ list' = r /\ listEnd' = slot
        /\ keyedElements' = Without(keyedElements, k) /\ usedSize' = n - 1
        /\ key' = key /\ value' = value /\ call' = <<"erase", Stored(k)>>
    BY <1>2, <1>3 DEF lruErase, lruDoErase, Unuses
  <1> HIDE DEF slot, r
  <1>5. /\ IsList(list', Slots) /\ Len(list') = C
        /\ \A i \in 1 .. C :
             list'[i] = IF i < p THEN list[i] ELSE IF i < n THEN list[i + 1]
                        ELSE IF i = n THEN list[p] ELSE list[i]
        /\ {list'[i] : i \in 1 .. n - 1} = InUse \ {slot}
    BY <1>2, <1>3, <1>4 DEF Unuses
  <1>6. n \in Nat /\ C \in Nat /\ n <= C /\ n >= 1 /\ p \in Nat /\ 1 <= p /\ p <= n /\ slot \in InUse
    BY <1>1, <1>2 DEF LruFacts
  <1>7. InUse' = InUse \ {slot} /\ usedSize' \in 0 .. C
    <2>1. Used' = 1 .. n - 1
      BY <1>1, <1>4 DEF Used, LruFacts
    <2>2. InUse' = {list'[i] : i \in 1 .. n - 1}
      BY <2>1 DEF InUse
    <2>3. n - 1 \in 0 .. C
      BY <1>6
    <2> QED
      BY <1>4, <1>5, <2>2, <2>3
  <1>8. Owns(key', keyedElements', InUse')
    <2>1. Owns(key, Without(keyedElements, key[slot]), InUse \ {slot})
      BY <1>1, <1>6, Dropped DEF LruFacts
    <2> QED
      BY <1>2, <1>4, <1>7, <2>1
  <1>9. Store'
    BY <1>1, <1>4, <1>5, <1>7, <1>8 DEF Store, LruFacts
  <1>10. listEnd' = at(list', usedSize' + 1)
    <2>1. n \in 1 .. C /\ (n - 1) + 1 = n
      BY <1>6
    <2>2. list'[n] = slot
      BY <1>2, <1>5, <1>6, <2>1
    <2> QED
      BY <1>4, <1>5, <1>6, <2>1, <2>2 DEF at
  <1>11. LruInv'
    BY <1>1, <1>9, <1>10 DEF LruInv, EndKept, LruFacts
  <1>12. /\ Recency' = [i \in 1 .. n - 1 |-> key[list'[n - i]]]
         /\ Recency' \in Seq(Keys) /\ Len(Recency') = n - 1 /\ usedSize' = Len(Recency')
    <2>1. LruShows'
      BY <1>11, LruRecency, PTL
    <2>2. Recency' = [i \in 1 .. usedSize' |-> key'[list'[usedSize' + 1 - i]]]
      BY <2>1 DEF LruShows
    <2>3. Recency' \in Seq(Keys) /\ Len(Recency') = usedSize'
      BY <2>1 DEF LruShows, Mapped
    <2>4. \A i \in 1 .. n - 1 : usedSize' + 1 - i = n - i
      BY <1>4, <1>6
    <2> QED
      BY <1>4, <2>2, <2>3, <2>4
  <1>13. Recency' = RemoveFirst(Recency, k)
    <2> DEFINE q == n + 1 - p
    <2>1. q \in 1 .. n /\ n + 1 - q = p
      BY <1>6
    <2>2. ASSUME NEW i \in 1 .. n - 1
          PROVE  Recency'[i] = IF i < q THEN Recency[i] ELSE Recency[i + 1]
      <3>1. /\ n - i \in 1 .. C /\ n - i < n /\ (n - i) + 1 = n + 1 - i /\ n + 1 - (i + 1) = n - i
            /\ i \in 1 .. n /\ i + 1 \in 1 .. n /\ (n - i < p <=> ~(i < q))
        BY <1>6
      <3> HIDE DEF q
      <3>2. list'[n - i] = IF i < q THEN list[n + 1 - i] ELSE list[n - i]
        BY <1>5, <3>1
      <3>3. Recency'[i] = key[list'[n - i]]
        BY <1>12
      <3>4. Recency[i] = key[list[n + 1 - i]] /\ Recency[i + 1] = key[list[n - i]]
        BY <1>1, <3>1 DEF LruFacts
      <3> QED
        BY <3>2, <3>3, <3>4
    <2> HIDE DEF q
    <2>3. Recency[q] = k
      BY <1>1, <1>2, <2>1 DEF LruFacts
    <2>4. /\ Recency \in Seq(Keys) /\ Injective(Recency) /\ q \in 1 .. Len(Recency)
          /\ k = Recency[q] /\ Recency' \in Seq(Keys) /\ Len(Recency') = Len(Recency) - 1
          /\ \A i \in 1 .. Len(Recency) - 1 :
               Recency'[i] = IF i < q THEN Recency[i] ELSE Recency[i + 1]
      BY <1>1, <1>12, <2>1, <2>2, <2>3 DEF LruFacts
    <2> QED
      BY <2>4, RemovedIs
  <1>14. /\ Contents' = Restrict(Contents, DOMAIN keyedElements \ {k})
         /\ Uses' = Restrict(Uses, DOMAIN keyedElements \ {k})
    BY <1>1, <1>4, Reduced DEF LruFacts
  <1> QED
    BY <1>1, <1>4, <1>11, <1>12, <1>13, <1>14, EraseMaps DEF LruFacts

\* The slot of a stored key goes to the front.
LEMMA LruAccesses ==
  ASSUME LruInv, NEW k \in Keys, Stored(k), kind' = kind,
         list' = lruDoAccess(list, keyedElements[k]),
         UNCHANGED <<listEnd, key, keyedElements, usedSize>>,
         value' \in [Slots -> Values \cup {DefaultValue}]
  PROVE  LruInv' /\ Accessed(k) /\ usedSize' = Len(Recency')
  <1> DEFINE n == usedSize
             C == Capacity
  <1>1. LruFacts
    BY LruFactsHold
  <1>2. PICK p \in 1 .. n : keyedElements[k] = list[p] /\ key[list[p]] = k
    BY <1>1, SlotOf DEF LruFacts
  <1>3. n \in Nat /\ C \in Nat /\ n <= C /\ n >= 1 /\ p \in Nat /\ 1 <= p /\ p <= n
    BY <1>1, <1>2 DEF LruFacts
  <1>4. Fronts(p, list')
    <2>1. list' = splice(list, begin(list), list[p])
      BY <1>2 DEF lruDoAccess
    <2>2. Store /\ p \in 1 .. C
      BY <1>1, <1>3 DEF LruFacts
    <2> QED
      BY <2>1, <2>2, FrontGives
  <1>5. /\ IsList(list', Slots) /\ Len(list') = C
        /\ \A i \in 1 .. C : list'[i] = IF i = 1 THEN list[p] ELSE IF i <= p THEN list[i - 1] ELSE list[i]
        /\ at(list', n + 1) = at(list, n + 1)
    BY <1>3, <1>4 DEF Fronts
  <1>6. InUse' = InUse
    <2>1. InUse' = {list'[i] : i \in 1 .. n}
      BY <1>1 DEF InUse, Used, LruFacts
    <2>2. ASSUME NEW i \in 1 .. n PROVE \E j \in 1 .. n : list'[i] = list[j]
      <3>1. i \in 1 .. C /\ (i # 1 => i - 1 \in 1 .. n)
        BY <1>3
      <3> QED
        BY <1>2, <1>5, <3>1
    <2>3. ASSUME NEW i \in 1 .. n PROVE \E j \in 1 .. n : list[i] = list'[j]
      <3>1. CASE i < p
        <4>1. i + 1 \in 1 .. n /\ i + 1 \in 1 .. C /\ i + 1 # 1 /\ i + 1 <= p /\ (i + 1) - 1 = i
          BY <1>3, <3>1
        <4> QED
          BY <1>5, <4>1
      <3>2. CASE i = p
        <4>1. 1 \in 1 .. n /\ 1 \in 1 .. C
          BY <1>3
        <4> QED
          BY <1>5, <3>2, <4>1
      <3>3. CASE i > p
        <4>1. i \in 1 .. C /\ i # 1 /\ ~(i <= p)
          BY <1>3, <3>3
        <4> QED
          BY <1>5, <4>1
      <3> QED
        BY <1>3, <3>1, <3>2, <3>3
    <2>4. InUse = {list[i] : i \in 1 .. n}
      BY <1>1 DEF LruFacts
    <2> QED
      BY <2>1, <2>2, <2>3, <2>4
  <1>7. LruInv'
    <2>1. Owns(key', keyedElements', InUse')
      BY <1>1, <1>6 DEF LruFacts, Store
    <2>2. Store'
      BY <1>1, <1>5, <2>1 DEF Store, LruFacts
    <2> QED
      BY <1>1, <1>5, <2>2 DEF LruInv, EndKept, LruFacts
  <1>8. /\ Recency' = [i \in 1 .. n |-> key[list'[n + 1 - i]]]
        /\ Recency' \in Seq(Keys) /\ Len(Recency') = n /\ usedSize' = Len(Recency')
    <2>1. LruShows'
      BY <1>7, LruRecency, PTL
    <2> QED
      BY <2>1 DEF LruShows, Mapped
  <1>9. Recency' = Append(RemoveFirst(Recency, k), k)
    <2> DEFINE q == n + 1 - p
    <2>1. q \in 1 .. n /\ n + 1 - q = p
      BY <1>3
    <2>2. ASSUME NEW i \in 1 .. n
          PROVE  Recency'[i] = IF i < q THEN Recency[i] ELSE IF i < n THEN Recency[i + 1] ELSE key[list[p]]
      <3>1. /\ n + 1 - i \in 1 .. C /\ (n + 1 - i = 1 <=> ~(i < n)) /\ (n + 1 - i <= p <=> ~(i < q))
            /\ (n + 1 - i) - 1 = n - i /\ (i < n => i + 1 \in 1 .. n) /\ n + 1 - (i + 1) = n - i
            /\ (i < q => i < n)
        BY <1>3
      <3> HIDE DEF q
      <3>2. list'[n + 1 - i] = IF ~(i < n) THEN list[p] ELSE IF ~(i < q) THEN list[n - i] ELSE list[n + 1 - i]
        BY <1>5, <3>1
      <3>3. Recency'[i] = key[list'[n + 1 - i]]
        BY <1>8
      <3>4. Recency[i] = key[list[n + 1 - i]] /\ (i < n => Recency[i + 1] = key[list[n - i]])
        BY <1>1, <3>1 DEF LruFacts
      <3> QED
        BY <3>1, <3>2, <3>3, <3>4
    <2> HIDE DEF q
    <2>3. Recency[q] = k /\ key[list[p]] = Recency[q]
      BY <1>1, <1>2, <2>1 DEF LruFacts
    <2>4. /\ Recency \in Seq(Keys) /\ Injective(Recency) /\ q \in 1 .. Len(Recency)
          /\ k = Recency[q] /\ Recency' \in Seq(Keys) /\ Len(Recency') = Len(Recency)
          /\ \A i \in 1 .. Len(Recency) :
               Recency'[i] = IF i < q THEN Recency[i]
                             ELSE IF i < Len(Recency) THEN Recency[i + 1] ELSE Recency[q]
      <3>1. Recency \in Seq(Keys) /\ Injective(Recency) /\ Len(Recency) = n
        BY <1>1 DEF LruFacts
      <3>2. Recency' \in Seq(Keys) /\ Len(Recency') = n
        BY <1>8
      <3>3. \A i \in 1 .. n : Recency'[i] = IF i < q THEN Recency[i]
                                          ELSE IF i < n THEN Recency[i + 1] ELSE Recency[q]
        BY <2>2, <2>3
      <3> QED
        BY <2>1, <2>3, <3>1, <3>2, <3>3
    <2> QED
      BY <2>4, MovedIs
  <1>10. Uses' = Uses
    BY <1>1 DEF Uses, LruFacts
  <1> QED
    BY <1>1, <1>7, <1>8, <1>9, <1>10 DEF Accessed, LruFacts

\* doInsert takes the slot at the iterator, which doPrune has moved when all are in use.
LEMMA LruInserts ==
  ASSUME LruInv, NEW k \in Keys, NEW v \in Values, ~Stored(k), lruDoInsert(k, v),
         call' = <<"insert">>, kind' = kind
  PROVE  LruInv' /\ Abstract!Next
  <1> DEFINE n == usedSize
             C == Capacity
             m == IF n < C THEN n ELSE C - 1
             p == m + 1
             slot == list[p]
             base == IF usedSize >= Capacity THEN lruDoPrune ELSE lruKept
             w == base.keyed
             U == {list[i] : i \in 1 .. m}
             kept == [i \in 1 .. m |-> key[list[p - i]]]
  <1>1. LruFacts
    BY LruFactsHold
  <1>2. /\ n \in Nat /\ C \in Nat /\ n <= C /\ C >= 1 /\ m \in Nat /\ m <= C - 1 /\ p \in 1 .. C
        /\ (n < C => m = n) /\ (~(n < C) => n = C /\ m = C - 1)
        /\ n \in 0 .. C /\ Slots = 1 .. C /\ Len(list) = C /\ p = m + 1
    BY <1>1 DEF LruFacts
  <1> HIDE DEF m, p
  <1>3. slot \in Slots /\ slot \notin U /\ U \subseteq Slots
    <2>1. p \notin 1 .. m /\ 1 .. m \subseteq 1 .. C
      BY <1>2
    <2> QED
      BY <1>1, <1>2, <2>1 DEF LruFacts
  <1>4. /\ keyedElements' = With(base.keyed, k, base.end)
        /\ value' = [value EXCEPT ![base.end] = v]
        /\ key' = [key EXCEPT ![base.end] = k]
        /\ listEnd' = next(base.list, base.end)
        /\ usedSize' = base.used + 1
        /\ list' = lruDoAccess(base.list, base.end)
    BY DEF lruDoInsert
  <1> HIDE DEF U
  <1>5. /\ base.list = list /\ base.end = slot /\ base.used = m
        /\ Base(w, U, slot)
    <2>1. CASE n < C   \* the first unused slot
      <3>1. base = lruKept /\ m = n
        BY <1>2, <2>1
      <3>2. listEnd = list[p]
        BY <1>1, <1>2, <2>1 DEF LruFacts, EndKept, at
      <3>3. w = keyedElements
        BY <3>1 DEF lruKept
      <3>4. U = InUse
        BY <1>1, <3>1 DEF LruFacts, U
      <3>5. Owns(key, keyedElements, U)
        BY <1>1, <3>4 DEF LruFacts, Store
      <3>6. Base(w, U, slot)
        BY <1>3, <3>3, <3>5 DEF Base
      <3> QED
        BY <3>1, <3>2, <3>6 DEF lruKept
    <2>2. CASE ~(n < C)   \* the slot that was not used for the longest time
      <3>1. /\ n = C /\ p = n /\ m = n - 1 /\ p \in 1 .. n /\ usedSize > 0 /\ usedSize >= Capacity
            /\ Last(list) = list[p]
        BY <1>2, <2>2 DEF Last
      <3>2. base = lruDoErase(list[p])
        BY <3>1 DEF lruDoPrune
      <3>3. Unuses(p, unused(list[p]))
        BY <1>1, <3>1, UnusedGives DEF LruFacts
      <3>4. unused(list[p]) = list /\ prev(unused(list[p]), listEnd) = slot
        BY <3>1, <3>3 DEF Unuses
      <3>5. w = Without(keyedElements, key[slot])
        BY <3>2 DEF lruDoErase
      <3>6. slot \in InUse /\ InUse \ {slot} = U
        <4>1. InUse = {list[i] : i \in 1 .. n}
          BY <1>1 DEF LruFacts
        <4>2. \A i \in 1 .. n : i # p => i \in 1 .. m
          BY <1>2, <3>1
        <4>3. slot \in InUse
          BY <3>1, <4>1
        <4>4. U \subseteq InUse
          BY <1>2, <3>1, <4>1 DEF U
        <4>5. InUse \ {slot} \subseteq U
          BY <4>1, <4>2 DEF U
        <4> QED
          BY <1>3, <4>3, <4>4, <4>5
      <3>7. Base(w, U, slot)
        <4>1. /\ Owns(key, Without(keyedElements, key[slot]), InUse \ {slot})
              /\ DOMAIN Without(keyedElements, key[slot]) = DOMAIN keyedElements \ {key[slot]}
              /\ \A j \in DOMAIN Without(keyedElements, key[slot]) :
                   Without(keyedElements, key[slot])[j] = keyedElements[j]
          BY <1>1, <3>6, Dropped DEF LruFacts
        <4> QED
          BY <1>3, <3>5, <3>6, <4>1 DEF Base
      <3> QED
        BY <3>1, <3>2, <3>4, <3>7 DEF lruDoErase
    <2> QED
      BY <2>1, <2>2
  <1>6. Held(w, U, slot, k, v)
    <2>1. Store /\ Puts(w, slot, k, v)
      BY <1>1, <1>4, <1>5 DEF Puts, LruFacts
    <2> QED
      BY <1>5, <2>1, Entered
  <1>7. /\ list' = splice(list, begin(list), list[p]) /\ listEnd' = next(list, slot)
        /\ usedSize' = m + 1
    BY <1>4, <1>5 DEF lruDoAccess
  <1> HIDE DEF base, w
  <1>8. Fronts(p, list')
    <2>1. Store /\ p \in 1 .. C
      BY <1>1, <1>2 DEF LruFacts
    <2> QED
      BY <1>7, <2>1, FrontGives
  <1>9. /\ IsList(list', Slots) /\ Len(list') = C
        /\ \A i \in 1 .. C : list'[i] = IF i = 1 THEN slot ELSE IF i <= p THEN list[i - 1] ELSE list[i]
        /\ at(list', p + 1) = at(list, p + 1)
    BY <1>2, <1>8 DEF Fronts
  <1>10. listEnd' = at(list', usedSize' + 1)
    <2>1. IsList(list, Slots) /\ p \in 1 .. Len(list) + 1 /\ slot = at(list, p)
      BY <1>1, <1>2 DEF LruFacts, at
    <2>2. position(list, slot) = p
      <3> QED
        BY <2>1, PositionIs
    <2> QED
      BY <1>2, <1>7, <1>9, <2>2 DEF next
  <1>11. Used' = 1 .. p /\ InUse' = U \cup {slot}
    <2>1. Used' = 1 .. p
      BY <1>1, <1>2, <1>7 DEF Used, LruFacts
    <2>2. InUse' = {list'[i] : i \in 1 .. p}
      BY <2>1 DEF InUse
    <2>3. ASSUME NEW i \in 1 .. p PROVE list'[i] \in U \cup {slot}
      <3>1. i \in 1 .. C /\ (i # 1 => i - 1 \in 1 .. m)
        BY <1>2
      <3> QED
        BY <1>9, <3>1 DEF U
    <2>4. ASSUME NEW i \in 1 .. m PROVE list[i] \in InUse'
      <3>1. i + 1 \in 1 .. p /\ i + 1 \in 1 .. C /\ i + 1 # 1 /\ i + 1 <= p /\ (i + 1) - 1 = i
        BY <1>2
      <3>2. list'[i + 1] = list[i]
        BY <1>9, <3>1
      <3> QED
        BY <2>2, <3>1, <3>2
    <2>5. slot \in InUse'
      <3>1. 1 \in 1 .. p /\ list'[1] = slot
        BY <1>2, <1>9
      <3> QED
        BY <2>2, <3>1
    <2> QED
      BY <2>1, <2>2, <2>3, <2>4, <2>5 DEF U
  <1>12. LruInv'
    <2>1. usedSize' \in 0 .. C
      BY <1>2, <1>7
    <2>2. Owns(key', keyedElements', InUse')
      BY <1>6, <1>11 DEF Held
    <2>3. Store'
      BY <1>6, <1>9, <2>1, <2>2 DEF Store, Held
    <2> QED
      BY <1>1, <1>10, <2>3 DEF LruInv, EndKept, LruFacts
  <1>13. /\ Recency' = [i \in 1 .. p |-> key'[list'[p + 1 - i]]]
         /\ Recency' \in Seq(Keys) /\ Len(Recency') = p
         /\ DOMAIN keyedElements' = {Recency'[i] : i \in 1 .. p}
    <2>1. LruShows'
      BY <1>12, LruRecency, PTL
    <2>2. usedSize' = p
      BY <1>2, <1>7
    <2> QED
      BY <2>1, <2>2 DEF LruShows, Mapped
  <1>14. kept \in Seq(Keys) /\ Len(kept) = m /\ DOMAIN kept = 1 .. m
    <2>1. ASSUME NEW i \in 1 .. m PROVE key[list[p - i]] \in Keys
      <3>1. p - i \in 1 .. m
        BY <1>2
      <3>2. list[p - i] \in U
        BY <3>1 DEF U
      <3>3. Owns(key, w, U) /\ DOMAIN w \subseteq DOMAIN keyedElements /\ DOMAIN keyedElements \subseteq Keys
        BY <1>1, <1>5 DEF Base, LruFacts, Store, Owns
      <3> QED
        BY <3>2, <3>3 DEF Owns
    <2>2. kept = [i \in 1 .. m |-> key[list[p - i]]] /\ m \in Nat
      BY <1>2
    <2> HIDE DEF slot, kept
    <2> QED
      BY <2>1, <2>2
  <1>15. n < C => kept = Recency
    <2>1. n < C => \A i \in 1 .. n : p - i = n + 1 - i
      BY <1>2
    <2> QED
      BY <1>1, <1>2, <2>1 DEF LruFacts
  <1>16. ~(n < C) => kept = RemoveFirst(Recency, Abstract!Victim)
    <2> SUFFICES ASSUME ~(n < C) PROVE kept = RemoveFirst(Recency, Abstract!Victim)
      OBVIOUS
    <2>1. n = C /\ m = n - 1 /\ n >= 1 /\ p = n
      BY <1>2
    <2>2. Abstract!Victim = Recency[1]
      BY <1>1, <2>1, FirstIsVictim DEF LruFacts
    <2>3. ASSUME NEW i \in 1 .. m PROVE kept[i] = Recency[i + 1]
      <3>1. i + 1 \in 1 .. n /\ n + 1 - (i + 1) = p - i
        BY <1>2, <2>1
      <3>2. Recency[i + 1] = key[list[n + 1 - (i + 1)]]
        BY <1>1, <3>1 DEF LruFacts
      <3> QED
        BY <3>1, <3>2
    <2>4. kept = RemoveFirst(Recency, Recency[1])
      <3> HIDE DEF kept
      <3>1. /\ Recency \in Seq(Keys) /\ Injective(Recency) /\ Len(Recency) >= 1
            /\ kept \in Seq(Keys) /\ Len(kept) = Len(Recency) - 1
            /\ \A i \in 1 .. Len(Recency) - 1 : kept[i] = Recency[i + 1]
        BY <1>1, <1>14, <2>1, <2>3 DEF LruFacts
      <3> QED
        BY <3>1, FirstRemoved
    <2> QED
      BY <2>2, <2>4
  <1>17. Recency' = Append(kept, k)
    <2>1. ASSUME NEW i \in 1 .. m + 1
          PROVE  Recency'[i] = IF i = m + 1 THEN k ELSE kept[i]
      <3>1. /\ i \in 1 .. p /\ p + 1 - i \in 1 .. C /\ (p + 1 - i = 1 <=> i = m + 1)
            /\ (p + 1 - i) - 1 = p - i /\ p + 1 - i <= p /\ (i # m + 1 => p - i \in 1 .. m /\ i \in 1 .. m)
        BY <1>2
      <3>2. Recency'[i] = key'[list'[p + 1 - i]]
        BY <1>13, <3>1
      <3>3. key'[slot] = k /\ \A t \in Slots \ {slot} : key'[t] = key[t]
        BY <1>6 DEF Held
      <3>4. CASE i = m + 1
        BY <1>9, <3>1, <3>2, <3>3, <3>4
      <3>5. CASE i # m + 1
        <4>1. list'[p + 1 - i] = list[p - i]
          BY <1>9, <3>1, <3>5
        <4>2. list[p - i] \in U
          BY <3>1, <3>5 DEF U
        <4>3. list[p - i] \in Slots \ {slot}
          BY <1>3, <4>2
        <4> QED
          BY <3>1, <3>2, <3>3, <3>5, <4>1, <4>3
      <3> QED
        BY <3>4, <3>5
    <2> HIDE DEF kept
    <2> DEFINE y == Append(kept, k)
    <2>2. /\ y \in Seq(Keys) /\ Len(y) = m + 1
          /\ \A i \in 1 .. m : y[i] = kept[i]
          /\ y[m + 1] = k
      BY <1>14, AppendProperties
    <2> HIDE DEF y
    <2>3. \A i \in 1 .. m + 1 : Recency'[i] = y[i]
      BY <1>2, <2>1, <2>2
    <2>4. Recency' = y
      BY <1>2, <1>13, <2>2, <2>3, SeqEqual
    <2> QED
      BY <2>4 DEF y
  <1>18. DOMAIN keyedElements' = {kept[i] : i \in 1 .. Len(kept)} \cup {k}
    <2> HIDE DEF kept
    <2>1. /\ \A i \in 1 .. m : Recency'[i] = kept[i]
          /\ Recency'[m + 1] = k
      BY <1>14, <1>17, AppendProperties
    <2>2. /\ Len(kept) = m /\ m \in Nat
          /\ DOMAIN keyedElements' = {Recency'[i] : i \in 1 .. m + 1}
      BY <1>2, <1>13, <1>14
    <2> QED
      BY <2>1, <2>2
  <1> HIDE DEF kept
  <1>19. Uses' = [j \in DOMAIN keyedElements' |-> IF j = k THEN 1 ELSE Uses[j]]
    <2>1. DOMAIN keyedElements' \subseteq DOMAIN keyedElements \cup {k} /\ kind # "LFU"
      BY <1>1, <1>5, <1>6 DEF Base, Held, LruFacts
    <2> QED
      BY <2>1, UsesEntered
  <1>20. usedSize' = Len(kept) + 1
    BY <1>7, <1>14
  <1>21. Contents' = [j \in DOMAIN keyedElements' |-> IF j = k THEN v ELSE Contents[j]]
    BY <1>6 DEF Held
  <1>22. Mapped
    BY <1>1 DEF LruFacts
  <1>23. Abstract!Next
    BY <1>14, <1>15, <1>16, <1>17, <1>18, <1>19, <1>20, <1>21, <1>22, InsertMaps
  <1> QED
    BY <1>12, <1>23

\* Every call on an LRU cache.
LEMMA LruStep ==
  ASSUME LruInv, Next
  PROVE  LruInv' /\ Abstract!Next
  <1>1. kind = "LRU" /\ kind' = kind /\ lruNext
    BY DEF LruInv, Next
  <1>2. PICK k \in Keys : \/ lruErase(k)
                          \/ \E v \in Values : lruInsert(k, v)
                          \/ \E peek \in BOOLEAN : lruFind(k, peek)
    BY <1>1 DEF lruNext
  <1>3. ASSUME UNCHANGED <<list, listEnd, key, value, keyedElements, usedSize>>
        PROVE  /\ LruInv' /\ Recency' = Recency /\ Uses' = Uses /\ Contents' = Contents
               /\ usedSize' = Len(Recency')
    <2>1. LruInv'
      BY <1>1, <1>3 DEF LruInv, EndKept, Store, Used, InUse, Owns
    <2>2. Recency' = Recency /\ Uses' = Uses /\ Contents' = Contents
      BY <1>1, <1>3 DEF Recency, Uses, Contents
    <2>3. LruFacts
      BY LruFactsHold
    <2> QED
      BY <1>3, <2>1, <2>2, <2>3 DEF LruFacts
  <1>4. Mapped /\ Store
    BY LruFactsHold DEF LruFacts
  <1>5. CASE lruErase(k)
    <2>1. CASE Stored(k)
      BY <1>1, <1>5, <2>1, LruErases
    <2>2. CASE ~Stored(k)
      <3>1. UNCHANGED <<list, listEnd, key, value, keyedElements, usedSize>>
            /\ call' = <<"erase", Stored(k)>>
        BY <1>5, <2>2 DEF lruErase, lruKept
      <3> QED
        BY <1>1, <1>3, <1>4, <2>2, <3>1, ErasesNothing
    <2> QED
      BY <2>1, <2>2
  <1>6. ASSUME NEW v \in Values, lruInsert(k, v) PROVE LruInv' /\ Abstract!Next
    <2>1. CASE Stored(k)
      <3>1. /\ value' = [value EXCEPT ![keyedElements[k]] = v]
            /\ list' = lruDoAccess(list, keyedElements[k])
            /\ UNCHANGED <<listEnd, key, keyedElements, usedSize>> /\ call' = <<"insert">>
        BY <1>6, <2>1 DEF lruInsert, lruDoUpdate
      <3>2. /\ Contents' = [Contents EXCEPT ![k] = v]
            /\ value' \in [Slots -> Values \cup {DefaultValue}]
        BY <1>4, <2>1, <3>1, Changed
      <3>3. LruInv' /\ Accessed(k) /\ usedSize' = Len(Recency')
        BY <1>1, <2>1, <3>1, <3>2, LruAccesses
      <3> QED
        BY <1>1, <1>4, <2>1, <3>1, <3>2, <3>3, UpdateMaps
    <2>2. CASE ~Stored(k)
      BY <1>1, <1>6, <2>2, LruInserts DEF lruInsert
    <2> QED
      BY <2>1, <2>2
  <1>7. ASSUME NEW peek \in BOOLEAN, lruFind(k, peek) PROVE LruInv' /\ Abstract!Next
    <2>1. /\ list' = IF Stored(k) /\ ~peek THEN lruDoAccess(list, keyedElements[k]) ELSE list
          /\ UNCHANGED <<listEnd, key, value, keyedElements, usedSize>>
      BY <1>7 DEF lruFind
    <2>2. /\ LruInv' /\ usedSize' = Len(Recency') /\ Contents' = Contents
          /\ IF Stored(k) /\ ~peek THEN Accessed(k) ELSE Recency' = Recency /\ Uses' = Uses
      <3>1. CASE Stored(k) /\ ~peek
        <4>1. list' = lruDoAccess(list, keyedElements[k])
              /\ value' \in [Slots -> Values \cup {DefaultValue}]
          BY <1>4, <2>1, <3>1 DEF Store
        <4>2. LruInv' /\ Accessed(k) /\ usedSize' = Len(Recency')
          BY <1>1, <2>1, <3>1, <4>1, LruAccesses
        <4>3. Contents' = Contents
          BY <2>1 DEF Contents
        <4> QED
          BY <3>1, <4>2, <4>3
      <3>2. CASE ~(Stored(k) /\ ~peek)
        <4>1. UNCHANGED <<list, listEnd, key, value, keyedElements, usedSize>>
          BY <2>1, <3>2
        <4> QED
          BY <1>3, <3>2, <4>1
      <3> QED
        BY <3>1, <3>2
    <2>3. call' = IF ~Stored(k) THEN <<"find", peek>> ELSE <<"find", peek, Contents[k]>>
      BY <1>7 DEF lruFind, Stored, Contents
    <2> QED
      BY <1>1, <1>4, <2>1, <2>2, <2>3, FindMaps
  <1> QED
    BY <1>2, <1>5, <1>6, <1>7

--------------------------------------------------------------------------------
(* LFU: the multimap and the order of the keys. *)

\* a comes before b.
Before(s, a, b) == \E x, y \in 1 .. Len(s) : x < y /\ s[x] = a /\ s[y] = b

\* The order of the others is kept by a removal and by an append.
LEMMA BeforeRemoved ==
  ASSUME NEW T, NEW s \in Seq(T), NEW p \in 1 .. Len(s), NEW r, DropsAt(T, s, p, r),
         NEW a, NEW b, a # s[p], b # s[p], Before(s, a, b)
  PROVE  Before(r, a, b)
  <1> DEFINE f(i) == IF i < p THEN i ELSE i - 1
  <1>1. /\ Len(s) \in Nat /\ Len(r) = Len(s) - 1
        /\ \A i \in 1 .. Len(s) - 1 : r[i] = IF i < p THEN s[i] ELSE s[i + 1]
    BY DEF DropsAt
  <1>2. PICK x \in 1 .. Len(s), y \in 1 .. Len(s) : x < y /\ s[x] = a /\ s[y] = b
    BY DEF Before
  <1>3. x # p /\ y # p
    BY <1>2
  <1>4. ASSUME NEW i \in 1 .. Len(s), i # p PROVE f(i) \in 1 .. Len(s) - 1 /\ r[f(i)] = s[i]
    <2>1. CASE i < p
      <3>1. i \in 1 .. Len(s) - 1
        BY <1>1, <2>1
      <3> QED
        BY <1>1, <2>1, <3>1
    <2>2. CASE ~(i < p)
      <3>1. i - 1 \in 1 .. Len(s) - 1 /\ ~(i - 1 < p) /\ (i - 1) + 1 = i /\ f(i) = i - 1
        BY <1>1, <1>4, <2>2
      <3> QED
        BY <1>1, <3>1
    <2> QED
      BY <2>1, <2>2
  <1>5. f(x) < f(y)
    BY <1>1, <1>2, <1>3
  <1> HIDE DEF f
  <1> QED
    BY <1>1, <1>2, <1>3, <1>4, <1>5 DEF Before

LEMMA BeforeAppended ==
  ASSUME NEW T, NEW s \in Seq(T), NEW e \in T, NEW a
  PROVE  /\ \A b : Before(s, a, b) => Before(Append(s, e), a, b)
         /\ a \in Rng(s) => Before(Append(s, e), a, e)
  <1> DEFINE r == Append(s, e)
  <1>1. /\ Len(s) \in Nat /\ Len(r) = Len(s) + 1
        /\ \A i \in 1 .. Len(s) : r[i] = s[i]
        /\ r[Len(s) + 1] = e
    BY AppendProperties
  <1> HIDE DEF r
  <1>2. ASSUME NEW b, Before(s, a, b) PROVE Before(r, a, b)
    <2>1. PICK x \in 1 .. Len(s), y \in 1 .. Len(s) : x < y /\ s[x] = a /\ s[y] = b
      BY <1>2 DEF Before
    <2>2. x \in 1 .. Len(r) /\ y \in 1 .. Len(r) /\ r[x] = a /\ r[y] = b
      BY <1>1, <2>1
    <2> QED
      BY <2>1, <2>2 DEF Before
  <1>3. ASSUME a \in Rng(s) PROVE Before(r, a, e)
    <2>1. PICK x \in 1 .. Len(s) : s[x] = a
      BY <1>3 DEF Rng
    <2>2. x \in 1 .. Len(r) /\ Len(s) + 1 \in 1 .. Len(r) /\ x < Len(s) + 1 /\ r[x] = a
      BY <1>1, <2>1
    <2> QED
      BY <1>1, <2>2 DEF Before
  <1> QED
    BY <1>2, <1>3 DEF r

\* An entry of the multimap.
Entry == Nat \X Slots

\* The multimap has an entry for each slot of U; ...
Entries(es, U) ==
  /\ es \in Seq(Entry)
  /\ \A i, j \in 1 .. Len(es) : es[i][2] = es[j][2] => i = j
  /\ \A i \in 1 .. Len(es) : es[i][2] \in U
  /\ \A s \in U : \E i \in 1 .. Len(es) : es[i][2] = s

\* ... it is in the order of the counts and, among equals, of the last use ...
Ordered(es, ky, rec) ==
  \A i, j \in 1 .. Len(es) : i < j =>
    \/ es[i][1] < es[j][1]
    \/ es[i][1] = es[j][1] /\ Before(rec, ky[es[i][2]], ky[es[j][2]])

\* ... and rec has the keys of these slots.
KeysOf(ky, U, rec) ==
  /\ rec \in Seq(Keys) /\ Injective(rec)
  /\ \A s, t \in U : ky[s] = ky[t] => s = t
  /\ \A s \in U : ky[s] \in Rng(rec)
  /\ \A k \in Rng(rec) : \E s \in U : ky[s] = k

\* The inductive invariant of the multimap.
Counted(es, U, ky, rec) == Entries(es, U) /\ Ordered(es, ky, rec) /\ KeysOf(ky, U, rec)

\* A slot has one entry.
LEMMA Unique ==
  ASSUME NEW es, NEW U, Entries(es, U), NEW e \in Rng(es), NEW d \in Rng(es), e[2] = d[2]
  PROVE  e = d
  BY DEF Entries, Rng

\* The entries without the one of a slot.
LEMMA EntriesErased ==
  ASSUME NEW es, NEW U, Entries(es, U), NEW p \in 1 .. Len(es), NEW s, s = es[p][2]
  PROVE  /\ Entries(RemoveAt(es, p), U \ {s})
         /\ Rng(RemoveAt(es, p)) = Rng(es) \ {es[p]}
  <1> DEFINE r == RemoveAt(es, p)
             n == Len(es)
  <1>1. es \in Seq(Entry) /\ n \in Nat /\ DOMAIN es = 1 .. n
    BY DEF Entries
  <1>2. Injective(es)
    BY <1>1 DEF Entries, Injective
  <1>3. DropsAt(Entry, es, p, r)
    <2>1. RemoveFirst(es, es[p]) = r
      BY <1>1, <1>2, RemoveFirstIs
    <2> QED
      BY <1>1, <1>2, <2>1, RemovedGives
  <1>4. Rng(r) = Rng(es) \ {es[p]}
    BY <1>1, <1>2, <1>3, DroppedRange
  <1>5. r \in Seq(Entry) /\ Injective(r) /\ DOMAIN r = 1 .. Len(r)
    BY <1>3 DEF DropsAt
  <1> HIDE DEF r
  <1>6. ASSUME NEW i \in 1 .. Len(r) PROVE r[i] \in Rng(es) /\ r[i] # es[p]
    BY <1>4, <1>6 DEF Rng
  <1>7. ASSUME NEW i \in 1 .. Len(r) PROVE r[i][2] \in U \ {s}
    <2>1. PICK x \in 1 .. n : r[i] = es[x]
      BY <1>6 DEF Rng
    <2>2. x # p
      BY <1>6, <2>1
    <2> QED
      BY <2>1, <2>2 DEF Entries
  <1>8. ASSUME NEW i \in 1 .. Len(r), NEW j \in 1 .. Len(r), r[i][2] = r[j][2] PROVE i = j
    <2>1. r[i] = r[j]
      BY <1>6, <1>8, Unique
    <2> QED
      BY <1>5, <2>1 DEF Injective
  <1>9. ASSUME NEW t \in U \ {s} PROVE \E i \in 1 .. Len(r) : r[i][2] = t
    <2>1. PICK x \in 1 .. n : es[x][2] = t
      BY DEF Entries
    <2>2. es[x] \in Rng(r)
      BY <1>4, <2>1 DEF Rng
    <2> QED
      BY <2>1, <2>2 DEF Rng
  <1>10. Entries(r, U \ {s})
    BY <1>5, <1>7, <1>8, <1>9 DEF Entries
  <1> QED
    BY <1>4, <1>10 DEF r

\* erase keeps the invariant when the key goes from the history too.
LEMMA CountedErased ==
  ASSUME NEW es, NEW U, NEW ky, NEW rec, Counted(es, U, ky, rec),
         NEW p \in 1 .. Len(es), NEW s, s = es[p][2]
  PROVE  Counted(RemoveAt(es, p), U \ {s}, ky, RemoveFirst(rec, ky[s]))
  <1> DEFINE r == RemoveAt(es, p)
             n == Len(es)
             q == RemoveFirst(rec, ky[s])
  <1>1. /\ Entries(es, U) /\ es \in Seq(Entry) /\ n \in Nat /\ rec \in Seq(Keys) /\ Injective(rec)
        /\ s \in U
    BY DEF Counted, Entries, KeysOf
  <1>2. Entries(r, U \ {s})
    BY <1>1, EntriesErased
  <1>3. /\ Len(r) = n - 1
        /\ \A i \in 1 .. n - 1 : r[i] = IF i < p THEN es[i] ELSE es[i + 1]
    BY <1>1, RemoveAtGives
  <1>4. PICK z \in 1 .. Len(rec) : rec[z] = ky[s]
    BY <1>1 DEF Counted, KeysOf, Rng
  <1>5. DropsAt(Keys, rec, z, q)
    BY <1>1, <1>4, RemovedGives
  <1>6. Rng(q) = Rng(rec) \ {ky[s]}
    BY <1>1, <1>4, <1>5, DroppedRange
  <1> HIDE DEF r, q
  <1>7. KeysOf(ky, U \ {s}, q)
    BY <1>1, <1>5, <1>6 DEF Counted, KeysOf, DropsAt
  <1>8. ASSUME NEW i \in 1 .. Len(r), NEW j \in 1 .. Len(r), i < j
        PROVE  \/ r[i][1] < r[j][1]
               \/ r[i][1] = r[j][1] /\ Before(q, ky[r[i][2]], ky[r[j][2]])
    <2>1. PICK x \in 1 .. n, y \in 1 .. n : x < y /\ r[i] = es[x] /\ r[j] = es[y]
      <3> DEFINE f(a) == IF a < p THEN a ELSE a + 1
      <3>1. f(i) \in 1 .. n /\ f(j) \in 1 .. n /\ f(i) < f(j)
        BY <1>1, <1>3, <1>8
      <3>2. \A a \in 1 .. Len(r) : r[a] = es[f(a)]
        BY <1>3
      <3> HIDE DEF f
      <3> QED
        BY <3>1, <3>2
    <2>2. \/ es[x][1] < es[y][1]
          \/ es[x][1] = es[y][1] /\ Before(rec, ky[es[x][2]], ky[es[y][2]])
      BY <2>1 DEF Counted, Ordered
    <2>3. r[i][2] \in U \ {s} /\ r[j][2] \in U \ {s}
      BY <1>2 DEF Entries
    <2>4. ky[r[i][2]] # ky[s] /\ ky[r[j][2]] # ky[s]
      BY <1>1, <2>3 DEF Counted, KeysOf
    <2>5. Before(rec, ky[r[i][2]], ky[r[j][2]]) => Before(q, ky[r[i][2]], ky[r[j][2]])
      <3> DEFINE a == ky[r[i][2]]
                 b == ky[r[j][2]]
      <3>1. a # rec[z] /\ b # rec[z]
        BY <1>4, <2>4
      <3> HIDE DEF a, b
      <3>2. Before(rec, a, b) => Before(q, a, b)
        BY <1>1, <1>5, <3>1, BeforeRemoved
      <3> QED
        BY <3>2 DEF a, b
    <2> QED
      BY <2>1, <2>2, <2>5
  <1>9. Ordered(r, ky, q)
    BY <1>8 DEF Ordered
  <1> QED
    BY <1>2, <1>7, <1>9 DEF Counted, r, q

\* upper_bound of a multimap in order.
LEMMA UpperBoundIs ==
  ASSUME NEW es \in Seq(Entry), NEW ky, NEW rec, Ordered(es, ky, rec), NEW c \in Nat
  PROVE  LET u == upperBound(es, c)
         IN /\ u \in 1 .. Len(es) + 1
            /\ \A i \in 1 .. Len(es) : IF i < u THEN es[i][1] <= c ELSE es[i][1] > c
  <1> DEFINE n == Len(es)
             I == {i \in 1 .. n : es[i][1] > c}
             u == upperBound(es, c)
  <1>1. n \in Nat /\ \A i \in 1 .. n : es[i][1] \in Nat
    BY DEF Entry
  <1>2. CASE I = {}
    <2>1. u = n + 1
      BY <1>1, <1>2 DEF upperBound, SelectInSeq
    <2>2. \A i \in 1 .. n : ~(es[i][1] > c)
      BY <1>2
    <2> HIDE DEF u, I
    <2>3. u \in 1 .. n + 1 /\ \A i \in 1 .. n : i < u /\ es[i][1] <= c
      BY <1>1, <2>1, <2>2
    <2> QED
      BY <2>3 DEF u
  <1>3. CASE I # {}
    <2>1. I \in SUBSET Nat
      BY <1>1
    <2>2. Min(I) \in I /\ \A y \in I : Min(I) <= y
      BY <1>3, <2>1, LeastExists
    <2>3. u = Min(I)
      <3>1. Min(I) # 0
        BY <2>2
      <3> QED
        BY <1>3, <3>1 DEF upperBound, SelectInSeq
    <2> HIDE DEF u
    <2>4. u \in 1 .. n /\ es[u][1] > c /\ \A y \in 1 .. n : es[y][1] > c => u <= y
      BY <2>2, <2>3
    <2>5. ASSUME NEW i \in 1 .. n PROVE IF i < u THEN es[i][1] <= c ELSE es[i][1] > c
      <3>1. CASE i < u
        BY <1>1, <2>4, <3>1
      <3>2. CASE i = u
        BY <2>4, <3>2
      <3>3. CASE u < i
        <4>1. es[u][1] <= es[i][1]
          BY <1>1, <2>4, <3>3 DEF Ordered
        <4> QED
          BY <1>1, <2>4, <3>3, <4>1
      <3> QED
        BY <1>1, <2>4, <3>1, <3>2, <3>3
    <2>6. u \in 1 .. n + 1
      BY <1>1, <2>4
    <2> QED
      BY <2>5, <2>6 DEF u
  <1> QED
    BY <1>2, <1>3

\* emplace keeps it for a slot that has no entry and a key that comes last.
LEMMA CountedEmplaced ==
  ASSUME NEW es, NEW U, NEW ky, NEW rec, Counted(es, U, ky, rec), NEW ky2, Agrees(ky2, ky, U),
         NEW s \in Slots, s \notin U, NEW k \in Keys, k \notin Rng(rec), ky2[s] = k, NEW c \in Nat
  PROVE  /\ Counted(emplace(es, c, s), U \cup {s}, ky2, Append(rec, k))
         /\ Rng(emplace(es, c, s)) = Rng(es) \cup {<<c, s>>}
  <1> DEFINE r == emplace(es, c, s)
             n == Len(es)
             u == upperBound(es, c)
             x == <<c, s>>
             q == Append(rec, k)
             g(i) == IF i < u THEN i ELSE i - 1
             h(i) == IF i < u THEN i ELSE i + 1
  <1>1. /\ Entries(es, U) /\ es \in Seq(Entry) /\ n \in Nat /\ rec \in Seq(Keys) /\ Injective(rec)
        /\ Ordered(es, ky, rec) /\ x \in Entry /\ x[1] = c /\ x[2] = s
    BY DEF Counted, Entries, KeysOf, Entry
  <1>2. /\ u \in 1 .. n + 1
        /\ \A i \in 1 .. n : IF i < u THEN es[i][1] <= c ELSE es[i][1] > c
    BY <1>1, UpperBoundIs
  <1>3. r = InsertAt(es, u, x)
    BY DEF emplace
  <1> HIDE DEF r, u, x, q
  <1>4. /\ r \in Seq(Entry) /\ Len(r) = n + 1
        /\ \A i \in 1 .. n + 1 : r[i] = IF i < u THEN es[i] ELSE IF i = u THEN x ELSE es[i - 1]
    <2>1. es \in Seq(Entry) /\ u \in 1 .. Len(es) + 1 /\ x \in Entry
      BY <1>1, <1>2
    <2>2. PutsAt(Entry, es, u, x, InsertAt(es, u, x))
      BY <2>1, InsertAtGives
    <2> QED
      BY <1>3, <2>2 DEF PutsAt
  <1>5. /\ r[u] = x
        /\ \A i \in 1 .. n + 1 : i # u => g(i) \in 1 .. n /\ r[i] = es[g(i)]
        /\ \A i, j \in 1 .. n + 1 : i # u /\ j # u /\ i < j => g(i) < g(j)
        /\ \A i, j \in 1 .. n + 1 : i # u /\ j # u /\ g(i) = g(j) => i = j
        /\ \A i \in 1 .. n : h(i) \in 1 .. n + 1 /\ r[h(i)] = es[i]
    <2>1. r[u] = x
      BY <1>1, <1>2, <1>4
    <2>2. ASSUME NEW i \in 1 .. n + 1, i # u PROVE g(i) \in 1 .. n /\ r[i] = es[g(i)]
      BY <1>1, <1>2, <1>4, <2>2
    <2>3. \A i, j \in 1 .. n + 1 : i # u /\ j # u /\ i < j => g(i) < g(j)
      BY <1>1, <1>2
    <2>4. \A i, j \in 1 .. n + 1 : i # u /\ j # u /\ g(i) = g(j) => i = j
      BY <1>1, <1>2
    <2>5. ASSUME NEW i \in 1 .. n PROVE h(i) \in 1 .. n + 1 /\ r[h(i)] = es[i]
      <3>1. CASE i < u
        BY <1>1, <1>2, <1>4, <3>1
      <3>2. CASE ~(i < u)
        <4>1. h(i) = i + 1 /\ i + 1 \in 1 .. n + 1 /\ ~(i + 1 < u) /\ i + 1 # u /\ (i + 1) - 1 = i
          BY <1>1, <1>2, <3>2
        <4> QED
          BY <1>4, <4>1
      <3> QED
        BY <3>1, <3>2
    <2> QED
      BY <2>1, <2>2, <2>3, <2>4, <2>5
  <1> HIDE DEF g, h
  <1>6. Rng(r) = Rng(es) \cup {x}
    <2>1. \A i \in 1 .. n + 1 : r[i] \in Rng(es) \cup {x}
      BY <1>5 DEF Rng
    <2>2. x \in Rng(r) /\ \A i \in 1 .. n : es[i] \in Rng(r)
      BY <1>2, <1>4, <1>5 DEF Rng
    <2> QED
      BY <1>4, <2>1, <2>2 DEF Rng
  <1>7. ASSUME NEW i \in 1 .. n + 1, i # u PROVE r[i][2] \in U
    BY <1>1, <1>5, <1>7 DEF Entries
  <1>8. Entries(r, U \cup {s})
    <2>1. ASSUME NEW i \in 1 .. n + 1, NEW j \in 1 .. n + 1, r[i][2] = r[j][2] PROVE i = j
      <3>1. CASE i # u /\ j # u
        <4>1. g(i) = g(j)
          <5>1. g(i) \in 1 .. n /\ g(j) \in 1 .. n /\ r[i] = es[g(i)] /\ r[j] = es[g(j)]
            BY <1>5, <3>1
          <5>2. \A a, b \in 1 .. n : es[a][2] = es[b][2] => a = b
            BY <1>1 DEF Entries
          <5> QED
            BY <2>1, <5>1, <5>2
        <4> QED
          BY <1>5, <3>1, <4>1
      <3>2. CASE i = u \/ j = u
        BY <1>1, <1>5, <1>7, <2>1, <3>2
      <3> QED
        BY <3>1, <3>2
    <2>2. \A i \in 1 .. n + 1 : r[i][2] \in U \cup {s}
      BY <1>1, <1>5, <1>7
    <2>3. ASSUME NEW t \in U \cup {s} PROVE \E i \in 1 .. n + 1 : r[i][2] = t
      <3>1. CASE t = s
        BY <1>1, <1>2, <1>5, <3>1
      <3>2. CASE t # s
        <4>1. PICK i \in 1 .. n : es[i][2] = t
          BY <1>1, <3>2 DEF Entries
        <4> QED
          BY <1>5, <4>1
      <3> QED
        BY <3>1, <3>2
    <2> QED
      BY <1>4, <2>1, <2>2, <2>3 DEF Entries
  <1>9. q \in Seq(Keys) /\ Injective(q) /\ Rng(q) = Rng(rec) \cup {k}
    BY <1>1, AppendProperties, AppendedRange, AppendedInjective DEF q
  <1>10. KeysOf(ky2, U \cup {s}, q)
    <2>1. \A t \in U : ky2[t] = ky[t] /\ ky[t] \in Rng(rec) /\ ky[t] # k
      BY DEF Agrees, Counted, KeysOf
    <2>2. \A a, b \in U : ky[a] = ky[b] => a = b
      BY DEF Counted, KeysOf
    <2>3. \A j \in Rng(rec) : \E t \in U : ky[t] = j
      BY DEF Counted, KeysOf
    <2>4. \A a, b \in U \cup {s} : ky2[a] = ky2[b] => a = b
      BY <2>1, <2>2
    <2>5. \A t \in U \cup {s} : ky2[t] \in Rng(q)
      BY <1>9, <2>1
    <2>6. \A j \in Rng(q) : \E t \in U \cup {s} : ky2[t] = j
      BY <1>9, <2>1, <2>3
    <2> QED
      BY <1>9, <2>4, <2>5, <2>6 DEF KeysOf
  <1>11. ASSUME NEW i \in 1 .. n + 1, NEW j \in 1 .. n + 1, i < j
         PROVE  \/ r[i][1] < r[j][1]
                \/ r[i][1] = r[j][1] /\ Before(q, ky2[r[i][2]], ky2[r[j][2]])
    <2>1. CASE i # u /\ j # u
      <3>1. g(i) \in 1 .. n /\ g(j) \in 1 .. n /\ g(i) < g(j) /\ r[i] = es[g(i)] /\ r[j] = es[g(j)]
        BY <1>5, <1>11, <2>1
      <3>2. \/ r[i][1] < r[j][1]
            \/ r[i][1] = r[j][1] /\ Before(rec, ky[r[i][2]], ky[r[j][2]])
        BY <1>1, <3>1 DEF Ordered
      <3>3. ky2[r[i][2]] = ky[r[i][2]] /\ ky2[r[j][2]] = ky[r[j][2]]
        BY <1>7, <2>1 DEF Agrees
      <3> DEFINE a == ky2[r[i][2]]
                 b == ky2[r[j][2]]
      <3>4. Before(rec, a, b) => Before(q, a, b)
        <4> HIDE DEF a, b
        <4> QED
          BY <1>1, BeforeAppended DEF q
      <3> QED
        BY <3>2, <3>3, <3>4
    <2>2. CASE j = u
      <3>1. i # u /\ i < u /\ g(i) = i /\ i \in 1 .. n /\ r[i] = es[i] /\ es[i][1] <= c
        BY <1>1, <1>2, <1>5, <1>11, <2>2 DEF g
      <3>2. r[j][1] = c /\ r[j][2] = s
        BY <1>1, <1>5, <2>2
      <3>3. ky2[r[i][2]] \in Rng(rec)
        BY <1>7, <3>1 DEF Agrees, Counted, KeysOf
      <3> DEFINE a == ky2[r[i][2]]
      <3>4. Before(q, a, k)
        <4>1. a \in Rng(rec)
          BY <3>3
        <4> HIDE DEF a
        <4> QED
          BY <1>1, <4>1, BeforeAppended DEF q
      <3>5. es[i][1] \in Nat
        BY <1>1, <3>1 DEF Entry
      <3> QED
        BY <3>1, <3>2, <3>4, <3>5
    <2>3. CASE i = u
      <3>1. j # u /\ g(j) = j - 1 /\ j - 1 \in 1 .. n /\ ~(j - 1 < u) /\ r[j] = es[j - 1]
        BY <1>1, <1>2, <1>5, <1>11, <2>3 DEF g
      <3>2. es[j - 1][1] > c /\ r[i][1] = c
        BY <1>1, <1>2, <1>5, <2>3, <3>1
      <3>3. es[j - 1][1] \in Nat
        BY <1>1, <3>1 DEF Entry
      <3> QED
        BY <3>1, <3>2, <3>3
    <2> QED
      BY <2>1, <2>2, <2>3
  <1>12. Ordered(r, ky2, q)
    BY <1>4, <1>11 DEF Ordered
  <1> QED
    BY <1>6, <1>8, <1>10, <1>12 DEF Counted, r, q, x

--------------------------------------------------------------------------------
(* LFU. *)

\* The slots in use are the first ones, and each has its entry.
LfuInv ==
  /\ kind = "LFU" /\ EndKept
  /\ Counted(lfuList, InUse, key, recent) /\ Len(recent) = usedSize

\* What LfuInv means for the mapped state.
LfuShows ==
  /\ Recency = recent /\ Mapped
  /\ \A k \in DOMAIN keyedElements :
       /\ Uses[k] = refcount(keyedElements[k])
       /\ <<Uses[k], keyedElements[k]>> \in Rng(lfuList)

\* The iterator to the entry of a slot.
LEMMA LfuPositionIs ==
  ASSUME NEW U, Entries(lfuList, U), NEW p \in 1 .. Len(lfuList), NEW s, s = lfuList[p][2]
  PROVE  lfuPosition(s) = p
  <1>1. {i \in 1 .. Len(lfuList) : lfuList[i][2] = s} = {p}
    BY DEF Entries
  <1>2. p \in Nat
    OBVIOUS
  <1>3. Min({p}) = p
    BY <1>2, LeastIs
  <1> QED
    BY <1>1, <1>3 DEF lfuPosition, SelectInSeq

\* The entry of a slot.
LEMMA EntryOf ==
  ASSUME LfuInv, NEW s \in InUse
  PROVE  \E p \in 1 .. Len(lfuList) :
           /\ lfuPosition(s) = p /\ lfuList[p][2] = s /\ refcount(s) = lfuList[p][1]
           /\ lfuList[p] = <<refcount(s), s>> /\ refcount(s) \in Nat
  <1>1. Entries(lfuList, InUse)
    BY DEF LfuInv, Counted
  <1>2. PICK p \in 1 .. Len(lfuList) : lfuList[p][2] = s
    BY <1>1 DEF Entries
  <1>3. lfuPosition(s) = p
    BY <1>1, <1>2, LfuPositionIs
  <1>4. lfuList[p] \in Nat \X Slots
    BY <1>1 DEF Entries, Entry
  <1>5. refcount(s) = lfuList[p][1]
    BY <1>3 DEF refcount
  <1> QED
    BY <1>2, <1>3, <1>4, <1>5

LEMMA LfuRecency == LfuInv => LfuShows
  <1> SUFFICES ASSUME LfuInv PROVE LfuShows
    OBVIOUS
  <1>1. kind = "LFU" /\ Recency = recent
    BY DEF LfuInv, Recency
  <1>2. Store /\ Owns(key, keyedElements, InUse)
    BY DEF LfuInv, EndKept, Store
  <1>3. KeysOf(key, InUse, recent) /\ Len(recent) = usedSize
    BY DEF LfuInv, Counted
  <1>4. usedSize <= Capacity
    BY <1>2, StoreFacts DEF Store
  <1>5. DOMAIN keyedElements = Rng(recent)
    <2>1. \A k \in DOMAIN keyedElements : keyedElements[k] \in InUse /\ key[keyedElements[k]] = k
      BY <1>2 DEF Owns
    <2>2. \A s \in InUse : key[s] \in DOMAIN keyedElements
      BY <1>2 DEF Owns
    <2>3. \A s \in InUse : key[s] \in Rng(recent)
      BY <1>3 DEF KeysOf
    <2>4. \A k \in Rng(recent) : \E s \in InUse : key[s] = k
      BY <1>3 DEF KeysOf
    <2> QED
      BY <2>1, <2>2, <2>3, <2>4
  <1>6. Mapped
    BY <1>1, <1>3, <1>4, <1>5 DEF Mapped, KeysOf, Rng
  <1>7. ASSUME NEW k \in DOMAIN keyedElements
        PROVE  /\ Uses[k] = refcount(keyedElements[k])
               /\ <<Uses[k], keyedElements[k]>> \in Rng(lfuList)
    <2>1. keyedElements[k] \in InUse
      BY <1>2 DEF Owns
    <2>2. Uses[k] = refcount(keyedElements[k])
      BY <1>1 DEF Uses
    <2> QED
      BY <2>1, <2>2, EntryOf DEF Rng
  <1> QED
    BY <1>1, <1>6, <1>7 DEF LfuShows

\* The facts of an LFU cache.
LfuFacts ==
  /\ Capacity \in Nat /\ Capacity >= 1 /\ usedSize \in 0 .. Capacity /\ Slots = 1 .. Capacity
  /\ Store /\ EndKept /\ kind = "LFU" /\ InUse = {list[i] : i \in 1 .. usedSize}
  /\ IsList(list, Slots) /\ Len(list) = Capacity
  /\ \A i \in 1 .. Capacity : list[i] \in Slots
  /\ \A i, j \in 1 .. Capacity : list[i] = list[j] => i = j
  /\ Owns(key, keyedElements, InUse) /\ InUse \subseteq Slots
  /\ Counted(lfuList, InUse, key, recent) /\ Entries(lfuList, InUse)
  /\ recent \in Seq(Keys) /\ Injective(recent) /\ Len(recent) = usedSize
  /\ DOMAIN keyedElements = Rng(recent)
  /\ LfuShows

LEMMA LfuFactsHold == LfuInv => LfuFacts
  <1> SUFFICES ASSUME LfuInv PROVE LfuFacts
    OBVIOUS
  <1>1. Store /\ EndKept /\ kind = "LFU" /\ InUse = {list[i] : i \in 1 .. usedSize}
    BY DEF LfuInv, EndKept, Used, InUse
  <1>2. /\ Capacity \in Nat /\ Capacity >= 1 /\ usedSize \in 0 .. Capacity /\ Slots = 1 .. Capacity
        /\ IsList(list, Slots) /\ Len(list) = Capacity
        /\ \A i \in 1 .. Capacity : list[i] \in Slots
        /\ \A i, j \in 1 .. Capacity : list[i] = list[j] => i = j
        /\ Owns(key, keyedElements, InUse) /\ InUse \subseteq Slots
    BY <1>1, StoreFacts DEF Store, Slots
  <1>3. /\ Counted(lfuList, InUse, key, recent) /\ Entries(lfuList, InUse)
        /\ recent \in Seq(Keys) /\ Injective(recent) /\ Len(recent) = usedSize
    BY DEF LfuInv, Counted, KeysOf
  <1>4. DOMAIN keyedElements = Rng(recent) /\ LfuShows
    BY <1>3, LfuRecency DEF LfuShows, Mapped, Rng
  <1> QED
    BY <1>1, <1>2, <1>3, <1>4 DEF LfuFacts

\* The victim is the key of the first entry.
LEMMA FirstEntryIsVictim ==
  ASSUME LfuInv, usedSize >= 1
  PROVE  /\ lfuList[1][2] \in InUse
         /\ Abstract!Victim = key[lfuList[1][2]]
  <1> DEFINE n == usedSize
             s == lfuList[1][2]
             a == key[s]
             I == {i \in 1 .. Len(Recency) : Abstract!Candidate(Recency[i])}
  <1>1. LfuFacts
    BY LfuFactsHold
  <1>2. n \in Nat /\ Recency = recent /\ Len(recent) = n /\ Mapped /\ kind = "LFU"
    BY <1>1 DEF LfuFacts, LfuShows
  <1>3. 1 \in 1 .. Len(lfuList) /\ lfuList \in Seq(Entry)
    <2>1. list[1] \in InUse
      BY <1>1, <1>2 DEF LfuFacts
    <2>2. PICK i \in 1 .. Len(lfuList) : lfuList[i][2] = list[1]
      BY <1>1, <2>1 DEF LfuFacts, Entries
    <2> QED
      BY <1>1, <2>2 DEF LfuFacts, Entries
  <1>4. s \in InUse /\ lfuList[1] \in Rng(lfuList)
    BY <1>1, <1>3 DEF LfuFacts, Entries, Rng
  <1>5. a \in DOMAIN keyedElements /\ keyedElements[a] = s
    BY <1>1, <1>4 DEF LfuFacts, Owns
  <1>6. PICK x \in 1 .. n : recent[x] = a
    BY <1>1, <1>2, <1>5 DEF LfuFacts, Rng
  <1> HIDE DEF s, a
  <1>7. ASSUME NEW k \in DOMAIN keyedElements
        PROVE  \E y \in 1 .. Len(lfuList) : lfuList[y] = <<Uses[k], keyedElements[k]>>
    BY <1>1 DEF LfuFacts, LfuShows, Rng
  <1>8. Uses[a] = lfuList[1][1]
    <2>1. PICK y \in 1 .. Len(lfuList) : lfuList[y] = <<Uses[a], keyedElements[a]>>
      BY <1>5, <1>7
    <2>2. lfuList[y][2] = lfuList[1][2]
      BY <1>5, <2>1 DEF s
    <2>3. y = 1
      BY <1>1, <1>3, <2>2 DEF LfuFacts, Entries
    <2> QED
      BY <2>1, <2>3
  <1>9. ASSUME NEW k \in DOMAIN keyedElements
        PROVE  /\ Uses[a] <= Uses[k]
               /\ Uses[k] <= Uses[a] => k = a \/ Before(recent, a, k)
    <2>1. PICK y \in 1 .. Len(lfuList) : lfuList[y] = <<Uses[k], keyedElements[k]>>
      BY <1>7
    <2>2. lfuList[1][1] \in Nat /\ lfuList[y][1] \in Nat /\ lfuList[y][1] = Uses[k]
          /\ lfuList[y][2] = keyedElements[k] /\ key[keyedElements[k]] = k
      <3>1. lfuList[1] \in Nat \X Slots /\ lfuList[y] \in Nat \X Slots
        BY <1>3, <2>1 DEF Entry
      <3>2. key[keyedElements[k]] = k
        BY <1>1 DEF LfuFacts, Owns
      <3> QED
        BY <2>1, <3>1, <3>2
    <2>3. CASE y = 1
      <3>1. keyedElements[k] = s /\ Uses[k] = Uses[a]
        BY <1>8, <2>2, <2>3 DEF s
      <3>2. k = a
        BY <2>2, <3>1 DEF a
      <3> QED
        BY <1>8, <2>2, <3>1, <3>2
    <2>4. CASE y # 1
      <3>1. 1 < y
        BY <2>1, <2>4
      <3>2. \/ lfuList[1][1] < lfuList[y][1]
            \/ lfuList[1][1] = lfuList[y][1] /\ Before(recent, key[lfuList[1][2]], key[lfuList[y][2]])
        BY <1>1, <1>3, <3>1 DEF LfuFacts, Counted, Ordered
      <3>3. key[lfuList[1][2]] = a /\ key[lfuList[y][2]] = k
        BY <2>2 DEF a, s
      <3> QED
        BY <1>8, <2>2, <3>2, <3>3
    <2> QED
      BY <2>3, <2>4
  <1>10. Abstract!Cached = DOMAIN keyedElements
    BY <1>2, CachedAre
  <1>11. x \in I
    <2>1. Abstract!Candidate(a)
      BY <1>9, <1>10 DEF Abstract!Candidate
    <2> QED
      BY <1>2, <1>6, <2>1
  <1>12. ASSUME NEW i \in I PROVE x <= i
    <2>1. i \in 1 .. n /\ recent[i] \in DOMAIN keyedElements
      BY <1>1, <1>2 DEF LfuFacts, Rng
    <2>2. Uses[recent[i]] <= Uses[a]
      BY <1>2, <1>5, <1>10 DEF Abstract!Candidate
    <2>3. recent[i] = a \/ Before(recent, a, recent[i])
      BY <1>9, <2>1, <2>2
    <2>4. \A y, z \in 1 .. n : recent[y] = recent[z] => y = z
      <3>1. Injective(recent) /\ recent \in Seq(Keys) /\ Len(recent) = n
        BY <1>1 DEF LfuFacts
      <3>2. DOMAIN recent = 1 .. n
        BY <3>1
      <3> QED
        BY <3>1, <3>2 DEF Injective
    <2>5. CASE recent[i] = a
      BY <1>6, <2>1, <2>4, <2>5
    <2>6. CASE Before(recent, a, recent[i])
      <3>1. PICK y \in 1 .. n, z \in 1 .. n : y < z /\ recent[y] = a /\ recent[z] = recent[i]
        BY <1>2, <2>6 DEF Before
      <3>2. y = x /\ z = i
        BY <1>6, <2>1, <2>4, <3>1
      <3> QED
        BY <3>1, <3>2
    <2> QED
      BY <2>3, <2>5, <2>6
  <1>13. I \in SUBSET Nat /\ I # {}
    BY <1>2, <1>11
  <1>14. Min(I) = x
    <2> HIDE DEF I
    <2> QED
      BY <1>11, <1>12, <1>13, LeastIs
  <1>15. Abstract!Victim = recent[x]
    BY <1>2, <1>13, <1>14, SameMin DEF Abstract!Victim, Abstract!SelectInSeq
  <1> QED
    BY <1>4, <1>6, <1>15 DEF s, a

\* A slot in use loses its entry.
LEMMA LfuForgets ==
  ASSUME LfuInv, NEW s \in InUse
  PROVE  /\ Counted(erased(s), InUse \ {s}, key, RemoveFirst(recent, key[s]))
         /\ Rng(erased(s)) = Rng(lfuList) \ {<<refcount(s), s>>}
         /\ Len(RemoveFirst(recent, key[s])) = usedSize - 1
  <1>1. LfuFacts
    BY LfuFactsHold
  <1>2. PICK p \in 1 .. Len(lfuList) :
          /\ lfuPosition(s) = p /\ lfuList[p][2] = s /\ lfuList[p] = <<refcount(s), s>>
    BY EntryOf
  <1>3. erased(s) = RemoveAt(lfuList, p)
    BY <1>2 DEF erased
  <1>4. Counted(RemoveAt(lfuList, p), InUse \ {s}, key, RemoveFirst(recent, key[s]))
    BY <1>1, <1>2, CountedErased DEF LfuFacts
  <1>5. Rng(RemoveAt(lfuList, p)) = Rng(lfuList) \ {lfuList[p]}
    BY <1>1, <1>2, EntriesErased DEF LfuFacts
  <1>6. Len(RemoveFirst(recent, key[s])) = usedSize - 1
    <2>1. PICK z \in 1 .. Len(recent) : recent[z] = key[s]
      BY <1>1 DEF LfuFacts, Counted, KeysOf, Rng
    <2>2. DropsAt(Keys, recent, z, RemoveFirst(recent, key[s]))
      BY <1>1, <2>1, RemovedGives DEF LfuFacts
    <2> QED
      BY <1>1, <2>2 DEF DropsAt, LfuFacts
  <1> QED
    BY <1>2, <1>3, <1>4, <1>5, <1>6

\* doErase removes the entry and moves the slot behind those in use.
LEMMA LfuErases ==
  ASSUME LfuInv, NEW k \in Keys, Stored(k), lfuErase(k), kind' = kind
  PROVE  LfuInv' /\ Abstract!Next
  <1> DEFINE n == usedSize
             C == Capacity
             slot == keyedElements[k]
             r == unused(slot)
  <1>1. LfuFacts
    BY LfuFactsHold
  <1>2. PICK p \in 1 .. n : slot = list[p] /\ key[list[p]] = k
    BY <1>1, SlotOf DEF LfuFacts, Used
  <1>3. Unuses(p, r)
    BY <1>1, <1>2, UnusedGives DEF LfuFacts
  <1>4. /\ list' = r /\ listEnd' = slot
        /\ keyedElements' = Without(keyedElements, k) /\ usedSize' = n - 1
        /\ lfuList' = erased(slot) /\ recent' = RemoveFirst(recent, k)
        /\ key' = key /\ value' = value /\ call' = <<"erase", Stored(k)>>
    BY <1>2, <1>3 DEF lfuErase, lfuDoErase, Unuses
  <1> HIDE DEF slot, r
  <1>5. /\ IsList(list', Slots) /\ Len(list') = C
        /\ \A i \in 1 .. C :
             list'[i] = IF i < p THEN list[i] ELSE IF i < n THEN list[i + 1]
                        ELSE IF i = n THEN list[p] ELSE list[i]
        /\ {list'[i] : i \in 1 .. n - 1} = InUse \ {slot}
    BY <1>2, <1>3, <1>4 DEF Unuses
  <1>6. n \in Nat /\ C \in Nat /\ n <= C /\ n >= 1 /\ p \in Nat /\ 1 <= p /\ p <= n /\ slot \in InUse
    BY <1>1, <1>2 DEF LfuFacts
  <1>7. InUse' = InUse \ {slot} /\ usedSize' \in 0 .. C
    <2>1. Used' = 1 .. n - 1
      BY <1>1, <1>4 DEF Used, LfuFacts
    <2>2. InUse' = {list'[i] : i \in 1 .. n - 1}
      BY <2>1 DEF InUse
    <2>3. n - 1 \in 0 .. C
      BY <1>6
    <2> QED
      BY <1>4, <1>5, <2>2, <2>3
  <1>8. Owns(key', keyedElements', InUse')
    <2>1. Owns(key, Without(keyedElements, key[slot]), InUse \ {slot})
      BY <1>1, <1>6, Dropped DEF LfuFacts
    <2> QED
      BY <1>2, <1>4, <1>7, <2>1
  <1>9. Store'
    BY <1>1, <1>4, <1>5, <1>7, <1>8 DEF Store, LfuFacts
  <1>10. listEnd' = at(list', usedSize' + 1)
    <2>1. n \in 1 .. C /\ (n - 1) + 1 = n
      BY <1>6
    <2>2. list'[n] = slot
      BY <1>2, <1>5, <1>6, <2>1
    <2> QED
      BY <1>4, <1>5, <1>6, <2>1, <2>2 DEF at
  <1>11. /\ Counted(erased(slot), InUse \ {slot}, key, RemoveFirst(recent, key[slot]))
         /\ Rng(erased(slot)) = Rng(lfuList) \ {<<refcount(slot), slot>>}
         /\ Len(RemoveFirst(recent, key[slot])) = n - 1
    BY <1>6, LfuForgets
  <1>12. key[slot] = k
    BY <1>2
  <1>13. LfuInv'
    <2>1. Counted(lfuList', InUse', key', recent') /\ Len(recent') = usedSize'
      BY <1>4, <1>7, <1>11, <1>12
    <2>2. EndKept' /\ kind' = "LFU"
      BY <1>1, <1>9, <1>10 DEF EndKept, LfuFacts
    <2> QED
      BY <2>1, <2>2 DEF LfuInv
  <1>14. LfuShows'
    BY <1>13, LfuRecency, PTL
  <1>15. Recency' = RemoveFirst(Recency, k) /\ usedSize' = Len(Recency')
    BY <1>1, <1>4, <1>11, <1>12, <1>14 DEF LfuFacts, LfuShows
  <1>16. Uses' = Restrict(Uses, DOMAIN keyedElements \ {k})
    <2>1. DOMAIN keyedElements' = DOMAIN keyedElements \ {k}
          /\ \A j \in DOMAIN keyedElements \ {k} : keyedElements'[j] = keyedElements[j]
      BY <1>4, WithoutGives
    <2>2. ASSUME NEW j \in DOMAIN keyedElements \ {k} PROVE Uses'[j] = Uses[j]
      <3>1. <<Uses'[j], keyedElements[j]>> \in Rng(lfuList')
        BY <1>14, <2>1 DEF LfuShows
      <3>2. <<Uses'[j], keyedElements[j]>> \in Rng(lfuList)
        BY <1>4, <1>11, <3>1
      <3>3. <<Uses[j], keyedElements[j]>> \in Rng(lfuList)
        BY <1>1 DEF LfuFacts, LfuShows
      <3> DEFINE d == <<Uses'[j], keyedElements[j]>>
                 e == <<Uses[j], keyedElements[j]>>
      <3>4. d[2] = e[2] /\ d[1] = Uses'[j] /\ e[1] = Uses[j]
        OBVIOUS
      <3> HIDE DEF d, e
      <3>5. d = e
        <4>1. Entries(lfuList, InUse) /\ d \in Rng(lfuList) /\ e \in Rng(lfuList)
          BY <1>1, <3>2, <3>3 DEF LfuFacts, d, e
        <4> QED
          BY <3>4, <4>1, Unique
      <3> QED
        BY <3>4, <3>5
    <2>3. Uses' = [j \in DOMAIN keyedElements' |-> Uses'[j]]
      BY DEF Uses
    <2>4. Restrict(Uses, DOMAIN keyedElements \ {k}) = [j \in DOMAIN keyedElements \ {k} |-> Uses[j]]
      BY DEF Restrict
    <2> QED
      BY <2>1, <2>2, <2>3, <2>4
  <1>17. Contents' = Restrict(Contents, DOMAIN keyedElements \ {k})
    BY <1>4, Reduced
  <1>18. Mapped
    BY <1>1 DEF LfuFacts, LfuShows
  <1> QED
    BY <1>4, <1>13, <1>15, <1>16, <1>17, <1>18, EraseMaps

\* A use of a stored key.
LEMMA LfuAccesses ==
  ASSUME LfuInv, NEW k \in Keys, Stored(k), kind' = kind,
         lfuDoAccess(keyedElements[k]),
         UNCHANGED <<list, listEnd, key, keyedElements, usedSize>>,
         value' \in [Slots -> Values \cup {DefaultValue}]
  PROVE  LfuInv' /\ Accessed(k) /\ usedSize' = Len(Recency')
  <1> DEFINE n == usedSize
             slot == keyedElements[k]
             es == erased(slot)
             rec == RemoveFirst(recent, k)
             c == refcount(slot) + 1
  <1>1. LfuFacts
    BY LfuFactsHold
  <1>2. slot \in InUse /\ key[slot] = k /\ slot \in Slots /\ k \in DOMAIN keyedElements
    BY <1>1 DEF LfuFacts, Owns, Stored
  <1>3. lfuList' = emplace(es, c, slot) /\ recent' = Append(rec, k)
    BY <1>2 DEF lfuDoAccess
  <1>4. refcount(slot) \in Nat /\ c \in Nat
    BY <1>2, EntryOf
  <1> HIDE DEF slot
  <1>5. /\ Counted(es, InUse \ {slot}, key, rec)
        /\ Rng(es) = Rng(lfuList) \ {<<refcount(slot), slot>>}
        /\ Len(rec) = n - 1
    BY <1>2, LfuForgets
  <1> HIDE DEF es, rec, c
  <1>6. rec \in Seq(Keys) /\ k \notin Rng(rec)
    <2>1. /\ rec \in Seq(Keys)
          /\ \A j \in Rng(rec) : \E t \in InUse \ {slot} : key[t] = j
      BY <1>5 DEF Counted, KeysOf
    <2>2. \A t \in InUse \ {slot} : key[t] # k
      <3>1. \A t \in InUse : keyedElements[key[t]] = t
        BY <1>1 DEF LfuFacts, Owns
      <3> QED
        BY <1>2, <3>1
    <2> QED
      BY <2>1, <2>2
  <1>7. /\ Counted(lfuList', InUse, key, recent')
        /\ Rng(lfuList') = Rng(es) \cup {<<c, slot>>}
    <2> DEFINE V == InUse \ {slot}
    <2>1. /\ Counted(es, V, key, rec) /\ Agrees(key, key, V) /\ slot \in Slots /\ slot \notin V
          /\ k \in Keys /\ k \notin Rng(rec) /\ key[slot] = k /\ c \in Nat
      BY <1>2, <1>4, <1>5, <1>6 DEF Agrees
    <2>2. V \cup {slot} = InUse
      BY <1>2
    <2> HIDE DEF V
    <2>3. /\ Counted(emplace(es, c, slot), V \cup {slot}, key, Append(rec, k))
          /\ Rng(emplace(es, c, slot)) = Rng(es) \cup {<<c, slot>>}
      BY <2>1, CountedEmplaced
    <2> QED
      BY <1>3, <2>2, <2>3
  <1>8. Len(recent') = n
    <2>1. Len(Append(rec, k)) = Len(rec) + 1
      BY <1>6, AppendProperties
    <2> QED
      BY <1>1, <1>3, <1>5, <2>1 DEF LfuFacts
  <1>9. InUse' = InUse
    BY <1>1 DEF InUse, Used, LfuFacts
  <1>10. LfuInv'
    <2>1. Store'
      BY <1>1, <1>9 DEF Store, LfuFacts
    <2>2. EndKept' /\ kind' = "LFU"
      BY <1>1, <2>1 DEF EndKept, LfuFacts
    <2> QED
      BY <1>7, <1>8, <1>9, <2>2 DEF LfuInv
  <1>11. LfuShows'
    BY <1>10, LfuRecency, PTL
  <1>12. Recency' = Append(RemoveFirst(Recency, k), k) /\ usedSize' = Len(Recency')
    BY <1>1, <1>3, <1>8, <1>11 DEF LfuFacts, LfuShows, rec
  <1>13. Entries(lfuList', InUse)
    BY <1>7 DEF Counted
  <1>14. ASSUME NEW j \in DOMAIN keyedElements, NEW d, <<d, keyedElements[j]>> \in Rng(lfuList')
         PROVE  Uses'[j] = d
    <2> DEFINE a == <<Uses'[j], keyedElements[j]>>
               b == <<d, keyedElements[j]>>
    <2>1. a[2] = b[2] /\ a[1] = Uses'[j] /\ b[1] = d /\ b \in Rng(lfuList') /\ a \in Rng(lfuList')
      BY <1>11, <1>14 DEF LfuShows
    <2> HIDE DEF a, b
    <2>2. a = b
      BY <1>13, <2>1, Unique
    <2> QED
      BY <2>1, <2>2
  <1>15. Uses'[k] = Uses[k] + 1
    <2>1. <<c, keyedElements[k]>> \in Rng(lfuList')
      BY <1>7 DEF slot
    <2>2. Uses[k] = refcount(slot)
      BY <1>1, <1>2 DEF LfuFacts, LfuShows, slot
    <2> QED
      BY <1>2, <1>14, <2>1, <2>2 DEF c
  <1>16. ASSUME NEW j \in DOMAIN keyedElements, j # k PROVE Uses'[j] = Uses[j]
    <2>1. keyedElements[j] # slot
      BY <1>1, <1>2, <1>16 DEF LfuFacts, Owns
    <2>2. <<Uses[j], keyedElements[j]>> \in Rng(lfuList)
      BY <1>1 DEF LfuFacts, LfuShows
    <2>3. <<Uses[j], keyedElements[j]>> \in Rng(lfuList')
      BY <1>5, <1>7, <2>1, <2>2
    <2> QED
      BY <1>14, <2>3
  <1>17. Uses' = [Uses EXCEPT ![k] = @ + 1]
    <2>1. DOMAIN Uses = DOMAIN keyedElements
      BY DEF Uses
    <2>2. Uses' = [j \in DOMAIN keyedElements |-> Uses'[j]] /\ Uses = [j \in DOMAIN keyedElements |-> Uses[j]]
      BY DEF Uses
    <2> QED
      BY <1>2, <1>15, <1>16, <2>1, <2>2
  <1> QED
    BY <1>1, <1>10, <1>12, <1>17 DEF Accessed, LfuFacts

\* What doInsert goes on from: m slots are in use, those of U, and the next one takes the key.
LfuBase(b, m, U) ==
  /\ IsList(b.list, Slots) /\ Len(b.list) = Capacity
  /\ b.end = b.list[m + 1] /\ b.used = m
  /\ U = {b.list[i] : i \in 1 .. m}
  /\ Base(b.keyed, U, b.end)
  /\ Counted(b.lfu, U, key, b.recent) /\ Len(b.recent) = m
  /\ \A e \in Rng(lfuList) : e[2] \in U => e \in Rng(b.lfu)
  /\ IF usedSize < Capacity THEN b.recent = Recency
     ELSE b.recent = RemoveFirst(Recency, Abstract!Victim)

\* A cache with room starts from what it has,
LEMMA LfuKeepsAll ==
  ASSUME LfuInv, usedSize < Capacity
  PROVE  LfuBase(lfuKept, usedSize, InUse)
  <1> DEFINE b == lfuKept
  <1>1. LfuFacts
    BY LfuFactsHold
  <1>2. /\ b.list = list /\ b.end = listEnd /\ b.keyed = keyedElements /\ b.used = usedSize
        /\ b.lfu = lfuList /\ b.recent = recent
    BY DEF lfuKept
  <1>3. usedSize + 1 \in 1 .. Capacity /\ usedSize + 1 \notin 1 .. usedSize
    BY <1>1 DEF LfuFacts
  <1>4. listEnd = list[usedSize + 1] /\ list[usedSize + 1] \in Slots \ InUse
    <2>1. listEnd = list[usedSize + 1]
      BY <1>1, <1>3 DEF LfuFacts, EndKept, at
    <2>2. \A i \in 1 .. usedSize : i \in 1 .. Capacity
      BY <1>1 DEF LfuFacts
    <2> QED
      BY <1>1, <1>3, <2>1, <2>2 DEF LfuFacts
  <1>5. Base(keyedElements, InUse, listEnd)
    BY <1>1, <1>4 DEF Base, LfuFacts
  <1> HIDE DEF b
  <1>6. LfuBase(b, usedSize, InUse)
    BY <1>1, <1>2, <1>4, <1>5 DEF LfuBase, LfuFacts, LfuShows
  <1> QED
    BY <1>6 DEF b

\* a full one from what doPrune leaves.
LEMMA LfuPrunes ==
  ASSUME LfuInv, usedSize = Capacity
  PROVE  LfuBase(lfuDoPrune, usedSize - 1, InUse \ {lfuList[1][2]})
  <1> DEFINE n == usedSize
             slot == lfuList[1][2]
             b == lfuDoErase(slot)
             r == unused(slot)
  <1>1. LfuFacts
    BY LfuFactsHold
  <1>2. n \in Nat /\ n >= 1 /\ n = Capacity /\ usedSize > 0
    BY <1>1 DEF LfuFacts
  <1>3. slot \in InUse /\ Abstract!Victim = key[slot]
    BY <1>2, FirstEntryIsVictim
  <1> HIDE DEF slot
  <1>4. PICK p \in 1 .. n : slot = list[p]
    BY <1>1, <1>3 DEF LfuFacts
  <1>5. Unuses(p, r)
    BY <1>1, <1>4, UnusedGives DEF LfuFacts
  <1>6. /\ b.list = r /\ b.end = slot /\ b.keyed = Without(keyedElements, key[slot]) /\ b.used = n - 1
        /\ b.lfu = erased(slot) /\ b.recent = RemoveFirst(recent, key[slot])
    BY <1>4, <1>5 DEF lfuDoErase, Unuses
  <1> HIDE DEF b, r
  <1>7. /\ IsList(r, Slots) /\ Len(r) = Capacity /\ r[n] = slot
        /\ {r[i] : i \in 1 .. n - 1} = InUse \ {slot}
    BY <1>2, <1>4, <1>5 DEF Unuses
  <1>8. Base(b.keyed, InUse \ {slot}, slot)
    <2>1. /\ Owns(key, Without(keyedElements, key[slot]), InUse \ {slot})
          /\ DOMAIN Without(keyedElements, key[slot]) = DOMAIN keyedElements \ {key[slot]}
          /\ \A j \in DOMAIN Without(keyedElements, key[slot]) :
               Without(keyedElements, key[slot])[j] = keyedElements[j]
      BY <1>1, <1>3, Dropped DEF LfuFacts
    <2> QED
      BY <1>1, <1>3, <1>6, <2>1 DEF Base, LfuFacts
  <1>9. /\ Counted(erased(slot), InUse \ {slot}, key, RemoveFirst(recent, key[slot]))
        /\ Rng(erased(slot)) = Rng(lfuList) \ {<<refcount(slot), slot>>}
        /\ Len(RemoveFirst(recent, key[slot])) = n - 1
    BY <1>3, LfuForgets
  <1>10. \A e \in Rng(lfuList) : e[2] \in InUse \ {slot} => e \in Rng(b.lfu)
    BY <1>6, <1>9
  <1>11. b.recent = RemoveFirst(Recency, Abstract!Victim) /\ ~(usedSize < Capacity)
    BY <1>1, <1>2, <1>3, <1>6 DEF LfuFacts, LfuShows
  <1>12. n = (n - 1) + 1
    BY <1>2
  <1>13. LfuBase(b, n - 1, InUse \ {slot})
    BY <1>6, <1>7, <1>8, <1>9, <1>10, <1>11, <1>12 DEF LfuBase
  <1>14. lfuDoPrune = b
    BY <1>2 DEF lfuDoPrune, b, slot
  <1> QED
    BY <1>13, <1>14 DEF slot

\* doInsert takes the slot at the iterator and counts one use.
LEMMA LfuInserts ==
  ASSUME LfuInv, NEW k \in Keys, NEW v \in Values, ~Stored(k), lfuDoInsert(k, v),
         call' = <<"insert">>, kind' = kind
  PROVE  LfuInv' /\ Abstract!Next
  <1> DEFINE n == usedSize
             C == Capacity
             base == IF usedSize >= Capacity THEN lfuDoPrune ELSE lfuKept
  <1>1. LfuFacts
    BY LfuFactsHold
  <1>2. /\ keyedElements' = With(base.keyed, k, base.end)
        /\ lfuList' = emplace(base.lfu, 1, base.end)
        /\ value' = [value EXCEPT ![base.end] = v]
        /\ key' = [key EXCEPT ![base.end] = k]
        /\ list' = base.list
        /\ listEnd' = next(base.list, base.end)
        /\ usedSize' = base.used + 1
        /\ recent' = Append(base.recent, k)
    BY DEF lfuDoInsert
  <1>3. PICK m \in 0 .. C - 1, U \in SUBSET Slots : LfuBase(base, m, U)
    <2>1. n \in Nat /\ C \in Nat /\ C >= 1 /\ n <= C
      BY <1>1 DEF LfuFacts
    <2>2. InUse \in SUBSET Slots
      BY <1>1 DEF LfuFacts
    <2>3. CASE n < C
      <3>1. base = lfuKept /\ n \in 0 .. C - 1
        BY <2>1, <2>3
      <3>2. LfuBase(base, n, InUse)
        BY <2>3, <3>1, LfuKeepsAll
      <3> QED
        BY <2>2, <3>1, <3>2
    <2>4. CASE ~(n < C)
      <3>1. base = lfuDoPrune /\ n = C /\ n - 1 \in 0 .. C - 1
        BY <2>1, <2>4
      <3>2. LfuBase(base, n - 1, InUse \ {lfuList[1][2]})
        BY <3>1, LfuPrunes
      <3>3. InUse \ {lfuList[1][2]} \in SUBSET Slots
        BY <2>2
      <3> QED
        BY <3>1, <3>2, <3>3
    <2> QED
      BY <2>3, <2>4
  <1> HIDE DEF base
  <1> DEFINE slot == base.end
             w == base.keyed
             es == base.lfu
             kept == base.recent
  <1>4. /\ IsList(list', Slots) /\ Len(list') = C
        /\ slot = list'[m + 1] /\ usedSize' = m + 1
        /\ U = {list'[i] : i \in 1 .. m}
        /\ Base(w, U, slot)
        /\ Counted(es, U, key, kept) /\ Len(kept) = m
        /\ \A e \in Rng(lfuList) : e[2] \in U => e \in Rng(es)
        /\ listEnd' = next(list', slot)
    BY <1>2, <1>3 DEF LfuBase
  <1>5. /\ Puts(w, slot, k, v) /\ lfuList' = emplace(es, 1, slot) /\ recent' = Append(kept, k)
    BY <1>2 DEF Puts
  <1>6. /\ n < C => kept = Recency
        /\ ~(n < C) => kept = RemoveFirst(Recency, Abstract!Victim)
    BY <1>3 DEF LfuBase
  <1> HIDE DEF slot, w, es, kept
  <1>7. Held(w, U, slot, k, v)
    <2>1. Store
      BY <1>1 DEF LfuFacts
    <2> QED
      BY <1>4, <1>5, <2>1, Entered
  <1>8. /\ Owns(key', keyedElements', U \cup {slot})
        /\ DOMAIN keyedElements' = DOMAIN w \cup {k}
        /\ key' \in [Slots -> Keys \cup {NoKey}]
        /\ value' \in [Slots -> Values \cup {DefaultValue}]
        /\ key'[slot] = k /\ \A t \in Slots \ {slot} : key'[t] = key[t]
        /\ Contents' = [j \in DOMAIN keyedElements' |-> IF j = k THEN v ELSE Contents[j]]
    BY <1>7 DEF Held
  <1>9. /\ slot \in Slots /\ slot \notin U /\ Owns(key, w, U)
        /\ DOMAIN w \subseteq DOMAIN keyedElements
        /\ \A j \in DOMAIN w : w[j] = keyedElements[j]
    BY <1>4 DEF Base
  <1>10. kept \in Seq(Keys) /\ Rng(kept) = DOMAIN w
    <2>1. /\ kept \in Seq(Keys)
          /\ \A s \in U : key[s] \in Rng(kept)
          /\ \A j \in Rng(kept) : \E s \in U : key[s] = j
      BY <1>4 DEF Counted, KeysOf
    <2>2. /\ \A s \in U : key[s] \in DOMAIN w
          /\ \A j \in DOMAIN w : w[j] \in U /\ key[w[j]] = j
      BY <1>9 DEF Owns
    <2> QED
      BY <2>1, <2>2
  <1>11. k \notin DOMAIN w /\ k \notin DOMAIN keyedElements
    BY <1>9 DEF Stored
  <1>12. Agrees(key', key, U)
    BY <1>8, <1>9 DEF Agrees
  <1>13. /\ Counted(lfuList', U \cup {slot}, key', recent')
         /\ Rng(lfuList') = Rng(es) \cup {<<1, slot>>}
    <2> DEFINE c == 1
    <2>1. /\ Counted(es, U, key, kept) /\ Agrees(key', key, U) /\ slot \in Slots /\ slot \notin U
          /\ k \in Keys /\ k \notin Rng(kept) /\ key'[slot] = k /\ c \in Nat /\ c = 1
      BY <1>4, <1>8, <1>9, <1>10, <1>11, <1>12
    <2> HIDE DEF c
    <2>2. /\ Counted(emplace(es, c, slot), U \cup {slot}, key', Append(kept, k))
          /\ Rng(emplace(es, c, slot)) = Rng(es) \cup {<<c, slot>>}
      BY <2>1, CountedEmplaced
    <2> QED
      BY <1>5, <2>1, <2>2
  <1>14. m \in Nat /\ C \in Nat /\ m + 1 <= C /\ m + 1 \in 1 .. C
    BY <1>1, <1>3 DEF LfuFacts
  <1>15. InUse' = U \cup {slot}
    <2>1. Used' = 1 .. m + 1
      BY <1>1, <1>4 DEF Used, LfuFacts
    <2>2. InUse' = {list'[i] : i \in 1 .. m + 1}
      BY <2>1 DEF InUse
    <2>3. \A i : i \in 1 .. m + 1 <=> i \in 1 .. m \/ i = m + 1
      BY <1>14
    <2> QED
      BY <1>4, <2>2, <2>3
  <1>16. listEnd' = at(list', usedSize' + 1)
    <2> DEFINE q == m + 1
    <2>1. IsList(list', Slots) /\ q \in 1 .. Len(list') + 1 /\ slot = at(list', q)
      BY <1>4, <1>14 DEF at
    <2> HIDE DEF q
    <2>2. position(list', slot) = q
      BY <2>1, PositionIs
    <2> QED
      BY <1>4, <2>2 DEF next, q
  <1>17. LfuInv'
    <2>1. usedSize' \in 0 .. C
      BY <1>4, <1>14
    <2>2. Store'
      BY <1>4, <1>8, <1>15, <2>1 DEF Store
    <2>3. EndKept' /\ kind' = "LFU"
      BY <1>1, <1>16, <2>2 DEF EndKept, LfuFacts
    <2>4. Len(recent') = usedSize'
      BY <1>4, <1>5, <1>10, AppendProperties
    <2> QED
      BY <1>13, <1>15, <2>3, <2>4 DEF LfuInv
  <1>18. LfuShows'
    BY <1>17, LfuRecency, PTL
  <1>19. Recency' = Append(kept, k)
    BY <1>5, <1>18 DEF LfuShows
  <1>20. DOMAIN keyedElements' = {kept[i] : i \in 1 .. Len(kept)} \cup {k}
    BY <1>8, <1>10 DEF Rng
  <1>21. Entries(lfuList', InUse')
    BY <1>13, <1>15 DEF Counted
  <1>22. ASSUME NEW j \in DOMAIN keyedElements', NEW d, <<d, keyedElements'[j]>> \in Rng(lfuList')
         PROVE  Uses'[j] = d
    <2> DEFINE a == <<Uses'[j], keyedElements'[j]>>
               b == <<d, keyedElements'[j]>>
    <2>1. a[2] = b[2] /\ a[1] = Uses'[j] /\ b[1] = d /\ b \in Rng(lfuList') /\ a \in Rng(lfuList')
      BY <1>18, <1>22 DEF LfuShows
    <2> HIDE DEF a, b
    <2>2. a = b
      BY <1>21, <2>1, Unique
    <2> QED
      BY <2>1, <2>2
  <1>23. keyedElements'[k] = slot /\ \A j \in DOMAIN w : keyedElements'[j] = keyedElements[j]
    <2>1. keyedElements' = With(w, k, slot)
      BY <1>5 DEF Puts
    <2>2. /\ With(w, k, slot)[k] = slot
          /\ \A j \in DOMAIN w : j # k => With(w, k, slot)[j] = w[j]
      BY DEF With
    <2> QED
      BY <1>9, <1>11, <2>1, <2>2
  <1>24. Uses'[k] = 1
    <2>1. <<1, keyedElements'[k]>> \in Rng(lfuList') /\ k \in DOMAIN keyedElements'
      BY <1>8, <1>13, <1>23
    <2> QED
      BY <1>22, <2>1
  <1>25. ASSUME NEW j \in DOMAIN w PROVE Uses'[j] = Uses[j]
    <2> DEFINE e == <<Uses[j], keyedElements[j]>>
    <2>1. e \in Rng(lfuList)
      BY <1>1, <1>9 DEF LfuFacts, LfuShows
    <2>2. keyedElements[j] \in U
      BY <1>9 DEF Owns
    <2>3. e[2] \in U
      BY <2>2
    <2> HIDE DEF e
    <2>4. e \in Rng(lfuList')
      BY <1>4, <1>13, <2>1, <2>3
    <2>5. <<Uses[j], keyedElements'[j]>> \in Rng(lfuList') /\ j \in DOMAIN keyedElements'
      BY <1>8, <1>23, <2>4 DEF e
    <2> QED
      BY <1>22, <2>5
  <1>26. Uses' = [j \in DOMAIN keyedElements' |-> IF j = k THEN 1 ELSE Uses[j]]
    <2>1. Uses' = [j \in DOMAIN keyedElements' |-> Uses'[j]]
      BY DEF Uses
    <2>2. \A j \in DOMAIN keyedElements' : Uses'[j] = IF j = k THEN 1 ELSE Uses[j]
      BY <1>8, <1>24, <1>25
    <2> QED
      BY <2>1, <2>2
  <1>27. Mapped /\ usedSize' = Len(kept) + 1
    BY <1>1, <1>4 DEF LfuFacts, LfuShows
  <1>28. Abstract!Next
    BY <1>6, <1>8, <1>10, <1>19, <1>20, <1>26, <1>27, InsertMaps
  <1> QED
    BY <1>17, <1>28

\* Every call on an LFU cache.
LEMMA LfuStep ==
  ASSUME LfuInv, Next
  PROVE  LfuInv' /\ Abstract!Next
  <1>1. kind = "LFU" /\ kind' = kind /\ lfuNext
    BY DEF LfuInv, Next
  <1>2. PICK k \in Keys : \/ lfuErase(k)
                          \/ \E v \in Values : lfuInsert(k, v)
                          \/ \E peek \in BOOLEAN : lfuFind(k, peek)
    BY <1>1 DEF lfuNext
  <1>3. LfuFacts
    BY LfuFactsHold
  <1>4. Mapped /\ Store
    BY <1>3 DEF LfuFacts, LfuShows
  <1>5. ASSUME UNCHANGED <<list, listEnd, key, value, keyedElements, usedSize, lfuList, recent>>
        PROVE  /\ LfuInv' /\ Recency' = Recency /\ Uses' = Uses /\ Contents' = Contents
               /\ usedSize' = Len(Recency')
    <2>1. InUse' = InUse
      BY <1>1, <1>5 DEF InUse, Used
    <2>2. LfuInv'
      BY <1>1, <1>5, <2>1 DEF LfuInv, EndKept, Store
    <2>3. Recency' = Recency /\ Contents' = Contents
      BY <1>1, <1>5 DEF Recency, Contents
    <2>4. LfuShows' /\ LfuShows
      BY <1>3, <2>2, LfuRecency, PTL DEF LfuFacts
    <2>5. ASSUME NEW j \in DOMAIN keyedElements PROVE Uses'[j] = Uses[j]
      <3> DEFINE d == <<Uses'[j], keyedElements[j]>>
                 e == <<Uses[j], keyedElements[j]>>
      <3>1. d \in Rng(lfuList) /\ e \in Rng(lfuList)
        BY <1>5, <2>4 DEF LfuShows, Rng
      <3>2. d[2] = e[2] /\ d[1] = Uses'[j] /\ e[1] = Uses[j]
        OBVIOUS
      <3>3. Entries(lfuList, InUse)
        BY DEF LfuInv, Counted
      <3> HIDE DEF d, e
      <3>4. d = e
        BY <3>1, <3>2, <3>3, Unique
      <3> QED
        BY <3>2, <3>4
    <2>6. /\ Uses' = [j \in DOMAIN keyedElements' |-> Uses'[j]]
          /\ Uses = [j \in DOMAIN keyedElements |-> Uses[j]]
      BY DEF Uses
    <2>7. Uses' = Uses
      BY <1>5, <2>5, <2>6
    <2> QED
      BY <1>3, <1>5, <2>2, <2>3, <2>7 DEF LfuFacts, LfuShows
  <1>6. CASE lfuErase(k)
    <2>1. CASE Stored(k)
      BY <1>1, <1>6, <2>1, LfuErases
    <2>2. CASE ~Stored(k)
      <3>1. UNCHANGED <<list, listEnd, key, value, keyedElements, usedSize, lfuList, recent>>
            /\ call' = <<"erase", Stored(k)>>
        BY <1>6, <2>2 DEF lfuErase, lfuKept
      <3> QED
        BY <1>1, <1>4, <1>5, <2>2, <3>1, ErasesNothing
    <2> QED
      BY <2>1, <2>2
  <1>7. ASSUME NEW v \in Values, lfuInsert(k, v) PROVE LfuInv' /\ Abstract!Next
    <2>1. CASE Stored(k)
      <3>1. /\ value' = [value EXCEPT ![keyedElements[k]] = v]
            /\ lfuDoAccess(keyedElements[k])
            /\ UNCHANGED <<list, listEnd, key, keyedElements, usedSize>> /\ call' = <<"insert">>
        BY <1>7, <2>1 DEF lfuInsert, lfuDoUpdate
      <3>2. /\ Contents' = [Contents EXCEPT ![k] = v]
            /\ value' \in [Slots -> Values \cup {DefaultValue}]
        BY <1>4, <2>1, <3>1, Changed
      <3>3. LfuInv' /\ Accessed(k) /\ usedSize' = Len(Recency')
        BY <1>1, <2>1, <3>1, <3>2, LfuAccesses
      <3> QED
        BY <1>1, <1>4, <2>1, <3>1, <3>2, <3>3, UpdateMaps
    <2>2. CASE ~Stored(k)
      BY <1>1, <1>7, <2>2, LfuInserts DEF lfuInsert
    <2> QED
      BY <2>1, <2>2
  <1>8. ASSUME NEW peek \in BOOLEAN, lfuFind(k, peek) PROVE LfuInv' /\ Abstract!Next
    <2>1. /\ IF Stored(k) /\ ~peek THEN lfuDoAccess(keyedElements[k]) ELSE UNCHANGED <<lfuList, recent>>
          /\ UNCHANGED <<list, listEnd, key, value, keyedElements, usedSize>>
      BY <1>8 DEF lfuFind
    <2>2. /\ LfuInv' /\ usedSize' = Len(Recency') /\ Contents' = Contents
          /\ IF Stored(k) /\ ~peek THEN Accessed(k) ELSE Recency' = Recency /\ Uses' = Uses
      <3>1. CASE Stored(k) /\ ~peek
        <4>1. lfuDoAccess(keyedElements[k]) /\ value' \in [Slots -> Values \cup {DefaultValue}]
          BY <1>4, <2>1, <3>1 DEF Store
        <4>2. LfuInv' /\ Accessed(k) /\ usedSize' = Len(Recency')
          BY <1>1, <2>1, <3>1, <4>1, LfuAccesses
        <4>3. Contents' = Contents
          BY <2>1 DEF Contents
        <4> QED
          BY <3>1, <4>2, <4>3
      <3>2. CASE ~(Stored(k) /\ ~peek)
        <4>1. UNCHANGED <<list, listEnd, key, value, keyedElements, usedSize, lfuList, recent>>
          BY <2>1, <3>2
        <4> QED
          BY <1>5, <3>2, <4>1
      <3> QED
        BY <3>1, <3>2
    <2>3. call' = IF ~Stored(k) THEN <<"find", peek>> ELSE <<"find", peek, Contents[k], Uses'[k]>>
      <3>1. CASE ~Stored(k)
        BY <1>8, <3>1 DEF lfuFind
      <3>2. CASE Stored(k)
        <4>1. k \in DOMAIN keyedElements /\ Uses[k] = refcount(keyedElements[k])
          BY <1>3, <3>2 DEF Stored, LfuFacts, LfuShows
        <4>2. Contents[k] = value[keyedElements[k]]
          BY <4>1 DEF Contents
        <4>3. Uses'[k] = IF peek THEN Uses[k] ELSE Uses[k] + 1
          <5>1. k \in DOMAIN Uses
            BY <4>1 DEF Uses
          <5>2. CASE peek
            BY <2>2, <5>2
          <5>3. CASE ~peek
            BY <1>1, <2>2, <3>2, <5>1, <5>3 DEF Accessed
          <5> QED
            BY <5>2, <5>3
        <4>4. call' = <<"find", peek, value[keyedElements[k]],
                        IF peek THEN refcount(keyedElements[k]) ELSE refcount(keyedElements[k]) + 1>>
          BY <1>8, <3>2 DEF lfuFind
        <4> QED
          BY <3>2, <4>1, <4>2, <4>3, <4>4
      <3> QED
        BY <3>1, <3>2
    <2> QED
      BY <1>1, <1>4, <2>1, <2>2, <2>3, FindMaps
  <1> QED
    BY <1>2, <1>6, <1>7, <1>8

--------------------------------------------------------------------------------
(* The caches implement their abstract specification. *)

\* The inductive invariant of the caches.
CacheInv == FifoInv \/ LruInv \/ LfuInv

\* It holds at first, where the caches are empty,
LEMMA CachesBegin == Init => CacheInv /\ Abstract!Init
  <1> SUFFICES ASSUME Init PROVE CacheInv /\ Abstract!Init
    OBVIOUS
  <1>1. /\ Capacity \in Nat /\ Capacity >= 1 /\ Slots = 1 .. Capacity
        /\ list = [i \in Slots |-> i] /\ listEnd = begin(list) /\ usedSize = 0
        /\ key = [s \in Slots |-> NoKey] /\ value = [s \in Slots |-> DefaultValue]
        /\ keyedElements = <<>> /\ lfuList = <<>> /\ recent = <<>> /\ call = <<>>
        /\ kind \in {"FIFO", "LRU", "LFU"}
    BY CacheAssumption DEF Init, Slots
  <1>2. list \in Seq(Slots) /\ Len(list) = Capacity /\ Injective(list) /\ End \notin Slots
    BY <1>1 DEF Injective, End
  <1>3. Used = {} /\ InUse = {}
    BY <1>1 DEF Used, InUse
  <1>4. DOMAIN keyedElements = {}
    BY <1>1
  <1>5. Owns(key, keyedElements, InUse)
    BY <1>3, <1>4 DEF Owns
  <1>6. Store
    BY <1>1, <1>2, <1>5 DEF Store, IsList
  <1>7. listEnd = at(list, usedSize + 1)
    BY <1>1 DEF begin
  <1>8. kind = "FIFO" => FifoInv
    BY <1>1, <1>2, <1>6 DEF FifoInv
  <1>9. kind = "LRU" => LruInv
    BY <1>6, <1>7 DEF LruInv, EndKept
  <1>10. Counted(lfuList, InUse, key, recent) /\ Len(recent) = usedSize
    <2>1. lfuList \in Seq(Entry) /\ Len(lfuList) = 0 /\ recent \in Seq(Keys) /\ Len(recent) = 0
          /\ 1 .. Len(lfuList) = {} /\ Rng(recent) = {} /\ Injective(recent)
      BY <1>1 DEF Rng, Injective
    <2> QED
      BY <1>1, <1>3, <2>1 DEF Counted, Entries, Ordered, KeysOf
  <1>11. kind = "LFU" => LfuInv
    BY <1>6, <1>7, <1>10 DEF LfuInv, EndKept
  <1>12. CacheInv
    BY <1>1, <1>8, <1>9, <1>11 DEF CacheInv
  <1>13. Recency = <<>>
    BY <1>1 DEF Recency
  <1>14. Uses = <<>> /\ [k \in DOMAIN keyedElements |-> value[keyedElements[k]]] = <<>>
    BY <1>4 DEF Uses
  <1>15. Abstract!Init
    BY <1>1, <1>13, <1>14 DEF Abstract!Init, Abstract!Policies
  <1> QED
    BY <1>12, <1>15

\* and every step keeps it and is a step of CacheSpec.
LEMMA CachesContinue ==
  CacheInv /\ [Next]_vars => CacheInv' /\ [IsCache => [Abstract!Next]_(Abstract!vars)]_vars
  <1>1. ASSUME CacheInv, Next PROVE CacheInv' /\ Abstract!Next
    BY <1>1, FifoStep, LruStep, LfuStep DEF CacheInv
  <1>2. ASSUME CacheInv, UNCHANGED vars PROVE CacheInv'
    <2>1. InUse' = InUse /\ Used' = Used
      BY <1>2 DEF vars, InUse, Used
    <2>2. Store => Store'
      BY <1>2, <2>1 DEF vars, Store
    <2>3. FifoInv => FifoInv'
      BY <1>2, <2>1, <2>2 DEF vars, FifoInv
    <2>4. EndKept => EndKept'
      BY <1>2, <2>2 DEF vars, EndKept
    <2>5. LruInv => LruInv'
      BY <1>2, <2>4 DEF vars, LruInv
    <2>6. LfuInv => LfuInv'
      BY <1>2, <2>1, <2>4 DEF vars, LfuInv
    <2> QED
      BY <1>2, <2>3, <2>5, <2>6 DEF CacheInv
  <1> QED
    BY <1>1, <1>2

\* For any keys, values and capacity, and through any sequence of calls, each of the caches
\* FIFO, LRU and LFU implements the cache of its policy: every call returns what that cache
\* would, and a full one gives up the element that the policy names.
THEOREM CachesImplement == Spec => CachesFollowTheirPolicy
<1> QED
  BY CachesBegin, CachesContinue, PTL DEF Spec, CachesFollowTheirPolicy

================================================================================
