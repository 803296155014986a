---------------------------- MODULE UtHash_proofs ----------------------------
(***************************************************************************)
(* Proofs about the hash table, for any set of keys, any number of buckets *)
(* and every hash function.                                                *)
(*                                                                         *)
(* A chain is named by the sequence of its items (IsList), so that what    *)
(* the macros do to links becomes an item in front (ListPush), one at the  *)
(* end (ListAppend) or one less (ListDelete).  From these:                 *)
(*   - Push, HashDelInBkt and the moving of all items to twice as many     *)
(*     buckets keep the chains (PushChained, DelChained, ExpandKeeps);     *)
(*   - HashAdd and HashDelete keep Sound, the inductive invariant of the   *)
(*     table, and change its contents by one item (AddSound, DeleteSound); *)
(*   - a sound table passes uthash's check of itself (SoundChecks).        *)
(*                                                                         *)
(* Only first-order facts can be cited here, so induction over the numbers *)
(* is the lemma Induct, about a set.                                       *)
(***************************************************************************)
EXTENDS UtHash, FiniteSetTheorems, SequenceTheorems, WellFoundedInduction, TLAPS

LEMMA Induct ==
  ASSUME NEW T, 0 \in T, \A n \in Nat : n \in T => n + 1 \in T
  PROVE  \A n \in Nat : n \in T
<1> DEFINE S == {n \in Nat : n \notin T}
<1>1. SUFFICES ASSUME S # {} PROVE FALSE
  OBVIOUS
<1>2. S \subseteq Nat
  OBVIOUS
<1>3. IsWellFoundedOn(OpToRel(<, Nat), Nat)
  BY NatLessThanWellFounded
<1> HIDE DEF S
<1>4. PICK n \in S : \A m \in S : ~(<<m, n>> \in OpToRel(<, Nat))
  BY <1>1, <1>2, <1>3, WFMin
<1>5. \A m \in S : ~(m < n)
  BY <1>2, <1>4 DEF OpToRel
<1>6. n # 0 /\ n - 1 \in Nat /\ n - 1 \notin S
  BY <1>2, <1>5 DEF S
<1>7. QED
  BY <1>6 DEF S

-----------------------------------------------------------------------------
(* Lists. *)

NULLable == Keys \cup {NULL}
Links == [Keys -> NULLable]

(* From first on, the links lead through s, which repeats nothing, and end. *)
IsList(s, first, link) ==
  /\ s \in Seq(Keys)
  /\ \A i, j \in 1 .. Len(s) : s[i] = s[j] => i = j
  /\ first = IF Len(s) = 0 THEN NULL ELSE s[1]
  /\ \A i \in 1 .. Len(s) : link[s[i]] = IF i = Len(s) THEN NULL ELSE s[i + 1]

LEMMA KeysType == NULL \notin Keys /\ IsFiniteSet(Keys) /\ Cardinality(Keys) \in Nat /\ Keys \subseteq Int
  BY UtHashAssumption, FS_CardinalityType

LEMMA ListShort ==
  ASSUME NEW s, NEW first, NEW link, IsList(s, first, link)
  PROVE  Len(s) \in Nat /\ Len(s) <= Cardinality(Keys)
<1>1. s \in [1 .. Len(s) -> Keys] /\ Len(s) \in Nat
  BY LenProperties DEF IsList
<1>2. s \in Injection(1 .. Len(s), Keys)
  BY <1>1 DEF IsList, Injection, IsInjective
<1>3. Cardinality(1 .. Len(s)) <= Cardinality(Keys)
  BY <1>2, KeysType, FS_Injection
<1>4. QED
  BY <1>1, <1>3, FS_Interval

(* What HASH_FIND_IN_BKT and the checks walk through is the list. *)
LEMMA ChainIsList ==
  ASSUME NEW s, NEW first, NEW link, IsList(s, first, link)
  PROVE  Chain(first, link) = s
<1> DEFINE N == Cardinality(Keys)
           at == CHOOSE at : at = [i \in 1 .. N + 1 |->
                                     IF i = 1 THEN first ELSE Follow(link, at[i - 1])]
           walk == [i \in 1 .. N + 1 |-> IF i <= Len(s) THEN s[i] ELSE NULL]
<1>1. Len(s) \in 0 .. N /\ N \in Nat
  BY ListShort, KeysType
<1>2. \A i \in 1 .. Len(s) : s[i] \in Keys /\ s[i] # NULL
  BY ElementOfSeq, KeysType DEF IsList
<1>3. walk = [i \in 1 .. N + 1 |-> IF i = 1 THEN first ELSE Follow(link, walk[i - 1])]
  <2>1. ASSUME NEW i \in 1 .. N + 1
        PROVE  walk[i] = IF i = 1 THEN first ELSE Follow(link, walk[i - 1])
    BY <1>1, <1>2 DEF IsList, Follow
  <2>2. QED
    BY <2>1
<1>4. at = [i \in 1 .. N + 1 |-> IF i = 1 THEN first ELSE Follow(link, at[i - 1])]
  BY <1>3, Zenon
<1>5. Chain(first, link) = [i \in 1 .. Cardinality({i \in DOMAIN at : at[i] # NULL}) |-> at[i]]
  BY DEF Chain
<1> HIDE DEF at, walk
<1>6. ASSUME NEW i \in 1 .. N + 1 PROVE at[i] = walk[i]
  <2> DEFINE T == {n \in Nat : n + 1 \in 1 .. N + 1 => at[n + 1] = walk[n + 1]}
  <2>1. 0 \in T
    BY <1>1, <1>3, <1>4
  <2>2. ASSUME NEW n \in Nat, n \in T PROVE n + 1 \in T
    BY <1>1, <1>3, <1>4, <2>2
  <2> HIDE DEF T
  <2>3. i - 1 \in T
    BY <1>1, <2>1, <2>2, Induct
  <2>4. QED
    BY <2>3 DEF T
<1>7. {i \in DOMAIN at : at[i] # NULL} = 1 .. Len(s)
  <2>1. DOMAIN at = 1 .. N + 1
    BY <1>4
  <2>2. QED
    BY <1>1, <1>2, <1>6, <2>1 DEF walk
<1>8. Cardinality(1 .. Len(s)) = Len(s)
  <2>1. Len(s) \in Nat
    BY <1>1
  <2>2. Cardinality(1 .. Len(s)) = IF 1 > Len(s) THEN 0 ELSE Len(s) - 1 + 1
    BY <2>1, FS_Interval
  <2>3. QED
    BY <2>1, <2>2
<1>9. \A i \in 1 .. Len(s) : at[i] = s[i]
  BY <1>1, <1>6 DEF walk
<1>10. s = [i \in 1 .. Len(s) |-> s[i]]
  BY LenProperties DEF IsList
<1>11. QED
  BY <1>5, <1>7, <1>8, <1>9, <1>10

LEMMA ListItems ==
  ASSUME NEW s, NEW first, NEW link, IsList(s, first, link)
  PROVE  /\ Items(s) = {s[i] : i \in 1 .. Len(s)} /\ Items(s) \subseteq Keys
         /\ IsFiniteSet(Items(s)) /\ Cardinality(Items(s)) = Len(s)
         /\ first = NULL <=> Items(s) = {}
<1>1. DOMAIN s = 1 .. Len(s) /\ Len(s) \in Nat /\ s \in [1 .. Len(s) -> Keys]
  BY LenProperties DEF IsList
<1>2. Items(s) = {s[i] : i \in 1 .. Len(s)} /\ Items(s) \subseteq Keys
  BY <1>1 DEF Items
<1>3. s \in Bijection(1 .. Len(s), Items(s))
  <2>1. s \in [1 .. Len(s) -> Items(s)]
    BY <1>1, <1>2
  <2>2. \A i, j \in 1 .. Len(s) : s[i] = s[j] => i = j
    BY DEF IsList
  <2>3. \A k \in Items(s) : \E i \in 1 .. Len(s) : s[i] = k
    BY <1>2
  <2>4. QED
    BY <2>1, <2>2, <2>3 DEF Bijection, Injection, IsInjective, Surjection
<1>4. IsFiniteSet(Items(s)) /\ Cardinality(Items(s)) = Len(s)
  BY <1>1, <1>3, FS_Interval, FS_Bijection DEF ExistsBijection
<1>5. first = NULL <=> Items(s) = {}
  <2>1. CASE Len(s) = 0
    BY <1>2, <2>1 DEF IsList
  <2>2. CASE Len(s) # 0
    <3>1. 1 \in 1 .. Len(s)
      BY <1>1, <2>2
    <3>2. first = s[1]
      BY <2>2 DEF IsList
    <3>3. s[1] \in Keys /\ s[1] \in Items(s)
      BY <1>1, <1>2, <3>1
    <3>4. QED
      BY <3>2, <3>3, KeysType
  <2>3. QED
    BY <2>1, <2>2
<1>6. QED
  BY <1>2, <1>4, <1>5

LEMMA ListFrame ==
  ASSUME NEW s, NEW first, NEW link, IsList(s, first, link), NEW link2,
         \A k \in Items(s) : link2[k] = link[k]
  PROVE  IsList(s, first, link2)
<1>1. \A i \in 1 .. Len(s) : s[i] \in Items(s)
  BY ListItems
<1>2. QED
  BY <1>1 DEF IsList

LEMMA BackFrame ==
  ASSUME NEW s \in Seq(Keys), NEW back, Backwards(s, back), NEW back2,
         \A k \in Items(s) : back2[k] = back[k]
  PROVE  Backwards(s, back2)
<1>1. \A i \in DOMAIN s : s[i] \in Items(s)
  BY DEF Items
<1>2. QED
  BY <1>1 DEF Backwards

(* An item in front. *)
LEMMA ListPush ==
  ASSUME NEW s, NEW first, NEW link, IsList(s, first, link),
         NEW k \in Keys, k \notin Items(s), NEW link2,
         link2[k] = first, \A j \in Items(s) : link2[j] = link[j]
  PROVE  IsList(<<k>> \o s, k, link2) /\ Items(<<k>> \o s) = Items(s) \cup {k}
<1> DEFINE t == <<k>> \o s
<1>1. s \in Seq(Keys) /\ Len(s) \in Nat
  BY LenProperties DEF IsList
<1>2. /\ t \in Seq(Keys) /\ Len(t) = Len(s) + 1
      /\ \A i \in 1 .. Len(s) + 1 : t[i] = IF i = 1 THEN k ELSE s[i - 1]
  <2>1. <<k>> \in Seq(Keys) /\ Len(<<k>>) = 1 /\ <<k>>[1] = k
    OBVIOUS
  <2>2. QED
    BY <1>1, <2>1, ConcatProperties
<1> HIDE DEF t
<1>3. Items(s) = {s[i] : i \in 1 .. Len(s)}
  BY ListItems
<1>4. \A i, j \in 1 .. Len(t) : t[i] = t[j] => i = j
  <2>1. SUFFICES ASSUME NEW i \in 1 .. Len(t), NEW j \in 1 .. Len(t), t[i] = t[j], i < j PROVE FALSE
    BY <1>1, <1>2
  <2>2. t[j] = s[j - 1] /\ j - 1 \in 1 .. Len(s)
    BY <1>1, <1>2, <2>1
  <2>3. i # 1
    BY <1>2, <1>3, <2>1, <2>2
  <2>4. t[i] = s[i - 1] /\ i - 1 \in 1 .. Len(s)
    BY <1>1, <1>2, <2>3
  <2>5. i - 1 = j - 1
    BY <2>1, <2>2, <2>4 DEF IsList
  <2>6. QED
    BY <1>1, <1>2, <2>1, <2>5
<1>5. ASSUME NEW i \in 1 .. Len(t)
      PROVE  link2[t[i]] = IF i = Len(t) THEN NULL ELSE t[i + 1]
  <2>1. CASE i = 1
    BY <1>1, <1>2, <2>1 DEF IsList
  <2>2. CASE i # 1
    <3>0. i - 1 \in 1 .. Len(s) /\ t[i] = s[i - 1]
      BY <1>1, <1>2, <2>2
    <3>1. s[i - 1] \in Items(s)
      BY <1>3, <3>0
    <3>2. link2[t[i]] = IF i - 1 = Len(s) THEN NULL ELSE s[i - 1 + 1]
      BY <3>0, <3>1 DEF IsList
    <3>3. QED
      BY <1>1, <1>2, <3>2
  <2>3. QED
    BY <2>1, <2>2
<1>6. Items(t) = Items(s) \cup {k}
  <2>1. Items(t) = {t[i] : i \in 1 .. Len(s) + 1}
    BY <1>1, <1>2, LenProperties DEF Items
  <2>2. ASSUME NEW i \in 1 .. Len(s) PROVE s[i] \in Items(t)
    <3>1. i + 1 \in 1 .. Len(s) + 1 /\ t[i + 1] = s[i]
      BY <1>1, <1>2
    <3>2. QED
      BY <2>1, <3>1
  <2>3. k \in Items(t)
    <3>1. 1 \in 1 .. Len(s) + 1 /\ t[1] = k
      BY <1>1, <1>2
    <3>2. QED
      BY <2>1, <3>1
  <2>4. ASSUME NEW i \in 1 .. Len(s) + 1 PROVE t[i] = k \/ t[i] \in Items(s)
    BY <1>1, <1>2, <1>3
  <2>5. QED
    BY <1>3, <2>1, <2>2, <2>3, <2>4
<1>7. k = t[1] /\ Len(t) # 0
  BY <1>1, <1>2
<1>8. IsList(t, k, link2)
  BY <1>2, <1>4, <1>5, <1>7 DEF IsList
<1>9. QED
  BY <1>6, <1>8 DEF t

LEMMA BackPush ==
  ASSUME NEW s \in Seq(Keys), NEW back, Backwards(s, back), NEW k \in Keys, NEW back2,
         back2[k] = NULL, Len(s) # 0 => back2[s[1]] = k,
         \A i \in 2 .. Len(s) : back2[s[i]] = back[s[i]]
  PROVE  Backwards(<<k>> \o s, back2)
<1> DEFINE t == <<k>> \o s
<1>1. Len(s) \in Nat /\ DOMAIN s = 1 .. Len(s)
  BY LenProperties
<1>2. /\ t \in Seq(Keys) /\ Len(t) = Len(s) + 1
      /\ \A i \in 1 .. Len(s) + 1 : t[i] = IF i = 1 THEN k ELSE s[i - 1]
  <2>1. <<k>> \in Seq(Keys) /\ Len(<<k>>) = 1 /\ <<k>>[1] = k
    OBVIOUS
  <2>2. QED
    BY <1>1, <2>1, ConcatProperties
<1> HIDE DEF t
<1>3. DOMAIN t = 1 .. Len(s) + 1
  BY <1>2, LenProperties
<1>4. ASSUME NEW i \in 1 .. Len(s) + 1
      PROVE  back2[t[i]] = IF i = 1 THEN NULL ELSE t[i - 1]
  <2>1. CASE i = 1
    BY <1>1, <1>2, <2>1
  <2>2. CASE i = 2
    BY <1>1, <1>2, <2>2
  <2>3. CASE i > 2
    <3>1. i - 1 \in 2 .. Len(s) /\ i - 1 \in DOMAIN s /\ i - 1 # 1 /\ t[i] = s[i - 1]
      BY <1>1, <1>2, <2>3
    <3>2. back2[t[i]] = s[i - 1 - 1]
      BY <3>1 DEF Backwards
    <3>3. t[i - 1] = s[i - 1 - 1]
      BY <1>1, <1>2, <2>3
    <3>4. QED
      BY <2>3, <3>2, <3>3
  <2>4. QED
    BY <1>1, <2>1, <2>2, <2>3
<1>5. QED
  BY <1>3, <1>4 DEF Backwards, t

(* An item at the end of a list that is not empty. *)
LEMMA ListAppend ==
  ASSUME NEW s, NEW first, NEW link, IsList(s, first, link), Len(s) # 0,
         NEW k \in Keys, k \notin Items(s), NEW link2,
         link2[k] = NULL, link2[s[Len(s)]] = k,
         \A i \in 1 .. Len(s) - 1 : link2[s[i]] = link[s[i]]
  PROVE  IsList(Append(s, k), first, link2) /\ Items(Append(s, k)) = Items(s) \cup {k}
<1> DEFINE t == Append(s, k)
<1>1. s \in Seq(Keys) /\ Len(s) \in Nat
  BY LenProperties DEF IsList
<1>2. /\ t \in Seq(Keys) /\ Len(t) = Len(s) + 1
      /\ \A i \in 1 .. Len(s) + 1 : t[i] = IF i = Len(s) + 1 THEN k ELSE s[i]
  BY <1>1, AppendProperties
<1> HIDE DEF t
<1>3. Items(s) = {s[i] : i \in 1 .. Len(s)}
  BY ListItems
<1>4. \A i, j \in 1 .. Len(t) : t[i] = t[j] => i = j
  <2>1. SUFFICES ASSUME NEW i \in 1 .. Len(t), NEW j \in 1 .. Len(t), t[i] = t[j], i < j PROVE FALSE
    BY <1>1, <1>2
  <2>2. t[i] = s[i] /\ i \in 1 .. Len(s)
    BY <1>1, <1>2, <2>1
  <2>3. j # Len(s) + 1
    BY <1>2, <1>3, <2>1, <2>2
  <2>4. t[j] = s[j] /\ j \in 1 .. Len(s)
    BY <1>1, <1>2, <2>3
  <2>5. i = j
    BY <2>1, <2>2, <2>4 DEF IsList
  <2>6. QED
    BY <2>1, <2>5
<1>5. ASSUME NEW i \in 1 .. Len(t)
      PROVE  link2[t[i]] = IF i = Len(t) THEN NULL ELSE t[i + 1]
  <2>1. CASE i = Len(s) + 1
    BY <1>1, <1>2, <2>1
  <2>2. CASE i = Len(s)
    BY <1>1, <1>2, <2>2
  <2>3. CASE i < Len(s)
    <3>1. i \in 1 .. Len(s) - 1 /\ i \in 1 .. Len(s) /\ t[i] = s[i] /\ t[i + 1] = s[i + 1] /\ i # Len(s) /\ i # Len(t)
      BY <1>1, <1>2, <2>3
    <3>2. link[s[i]] = s[i + 1]
      BY <3>1 DEF IsList
    <3>3. QED
      BY <3>1, <3>2
  <2>4. QED
    BY <1>1, <1>2, <2>1, <2>2, <2>3
<1>6. Items(t) = Items(s) \cup {k}
  <2>1. Items(t) = {t[i] : i \in 1 .. Len(s) + 1}
    BY <1>1, <1>2, LenProperties DEF Items
  <2>2. ASSUME NEW i \in 1 .. Len(s) PROVE s[i] \in Items(t)
    <3>1. i \in 1 .. Len(s) + 1 /\ t[i] = s[i]
      BY <1>1, <1>2
    <3>2. QED
      BY <2>1, <3>1
  <2>3. k \in Items(t)
    <3>1. Len(s) + 1 \in 1 .. Len(s) + 1 /\ t[Len(s) + 1] = k
      BY <1>1, <1>2
    <3>2. QED
      BY <2>1, <3>1
  <2>4. \A i \in 1 .. Len(s) + 1 : t[i] = k \/ t[i] \in Items(s)
    BY <1>1, <1>2, <1>3
  <2>5. Items(t) \subseteq Items(s) \cup {k}
    BY <2>1, <2>4
  <2>6. Items(s) \subseteq Items(t)
    BY <1>3, <2>2
  <2>7. QED
    BY <2>3, <2>5, <2>6
<1>7. first = t[1] /\ Len(t) # 0
  <2>1. first = s[1]
    BY DEF IsList
  <2>2. QED
    BY <1>1, <1>2, <2>1
<1>8. IsList(t, first, link2)
  BY <1>2, <1>4, <1>5, <1>7 DEF IsList
<1>9. QED
  BY <1>6, <1>8 DEF t

LEMMA BackAppend ==
  ASSUME NEW s \in Seq(Keys), NEW back, Backwards(s, back), Len(s) # 0, NEW k \in Keys, NEW back2,
         back2[k] = s[Len(s)], \A i \in 1 .. Len(s) : back2[s[i]] = back[s[i]]
  PROVE  Backwards(Append(s, k), back2)
<1> DEFINE t == Append(s, k)
<1>1. Len(s) \in Nat /\ DOMAIN s = 1 .. Len(s)
  BY LenProperties
<1>2. /\ t \in Seq(Keys) /\ Len(t) = Len(s) + 1
      /\ \A i \in 1 .. Len(s) + 1 : t[i] = IF i = Len(s) + 1 THEN k ELSE s[i]
  BY <1>1, AppendProperties
<1> HIDE DEF t
<1>3. DOMAIN t = 1 .. Len(s) + 1
  BY <1>2, LenProperties
<1>4. ASSUME NEW i \in 1 .. Len(s) + 1
      PROVE  back2[t[i]] = IF i = 1 THEN NULL ELSE t[i - 1]
  <2>1. CASE i = Len(s) + 1
    BY <1>1, <1>2, <2>1
  <2>2. CASE i # Len(s) + 1
    <3>1. i \in DOMAIN s /\ i \in 1 .. Len(s) /\ t[i] = s[i]
      BY <1>1, <1>2, <2>2
    <3>2. back2[t[i]] = IF i = 1 THEN NULL ELSE s[i - 1]
      BY <3>1 DEF Backwards
    <3>3. i # 1 => t[i - 1] = s[i - 1]
      BY <1>1, <1>2, <2>2
    <3>4. QED
      BY <3>2, <3>3
  <2>3. QED
    BY <2>1, <2>2
<1>5. QED
  BY <1>3, <1>4 DEF Backwards, t

(* A list without its m-th item. *)
Without(s, m) == [i \in 1 .. Len(s) - 1 |-> IF i < m THEN s[i] ELSE s[i + 1]]

LEMMA WithoutSeq ==
  ASSUME NEW s \in Seq(Keys), NEW m \in 1 .. Len(s)
  PROVE  /\ Without(s, m) \in Seq(Keys) /\ Len(Without(s, m)) = Len(s) - 1
         /\ DOMAIN Without(s, m) = 1 .. Len(s) - 1 /\ Len(s) \in Nat /\ Len(s) - 1 \in Nat
         /\ \A i \in 1 .. Len(s) - 1 : Without(s, m)[i] = IF i < m THEN s[i] ELSE s[i + 1]
         /\ \A i \in 1 .. Len(Without(s, m)) : Without(s, m)[i] = IF i < m THEN s[i] ELSE s[i + 1]
<1>1. Len(s) \in Nat /\ Len(s) - 1 \in Nat
  BY LenProperties
<1>2. \A i \in 1 .. Len(s) : s[i] \in Keys
  BY ElementOfSeq
<1>3. \A i \in 1 .. Len(s) - 1 : (IF i < m THEN s[i] ELSE s[i + 1]) \in Keys
  BY <1>1, <1>2
<1>4. /\ Without(s, m) \in Seq(Keys) /\ Len(Without(s, m)) = Len(s) - 1
      /\ DOMAIN Without(s, m) = 1 .. Len(s) - 1
  BY <1>1, <1>3 DEF Without
<1>5. \A i \in 1 .. Len(s) - 1 : Without(s, m)[i] = IF i < m THEN s[i] ELSE s[i + 1]
  BY DEF Without
<1>6. QED
  BY <1>1, <1>4, <1>5

(* HASH_DELETE_HH and HASH_DEL_IN_BKT: the neighbours of the m-th item are linked to each other. *)
LEMMA ListDelete ==
  ASSUME NEW s, NEW first, NEW link, IsList(s, first, link), NEW back, Backwards(s, back),
         NEW m \in 1 .. Len(s), NEW link2, NEW first2,
         \A j \in Keys : link2[j] = IF j = back[s[m]] THEN link[s[m]] ELSE link[j],
         first2 = IF first = s[m] THEN link[s[m]] ELSE first
  PROVE  IsList(Without(s, m), first2, link2) /\ Items(Without(s, m)) = Items(s) \ {s[m]}
<1> DEFINE t == Without(s, m)
<1>1. s \in Seq(Keys) /\ Len(s) \in Nat /\ DOMAIN s = 1 .. Len(s) /\ \A i \in 1 .. Len(s) : s[i] \in Keys
  BY LenProperties, ElementOfSeq DEF IsList
<1>2. /\ t \in Seq(Keys) /\ Len(t) = Len(s) - 1 /\ Len(t) \in Nat /\ DOMAIN t = 1 .. Len(t)
      /\ \A i \in 1 .. Len(t) : t[i] = IF i < m THEN s[i] ELSE s[i + 1]
  <2>1. s \in Seq(Keys)
    BY <1>1
  <2>2. QED
    BY <2>1, WithoutSeq
<1> HIDE DEF t
<1>3. \A i, j \in 1 .. Len(s) : s[i] = s[j] => i = j
  BY DEF IsList
<1>4. \A i \in 1 .. Len(s) : link[s[i]] = IF i = Len(s) THEN NULL ELSE s[i + 1]
  BY DEF IsList
<1>5. back[s[m]] = IF m = 1 THEN NULL ELSE s[m - 1]
  BY <1>1 DEF Backwards
<1>6. \A i, j \in 1 .. Len(t) : t[i] = t[j] => i = j
  <2>1. SUFFICES ASSUME NEW i \in 1 .. Len(t), NEW j \in 1 .. Len(t), t[i] = t[j] PROVE i = j
    OBVIOUS
  <2>2. \E a, b \in 1 .. Len(s) : /\ t[i] = s[a] /\ a = (IF i < m THEN i ELSE i + 1)
                                  /\ t[j] = s[b] /\ b = (IF j < m THEN j ELSE j + 1)
    <3>1. \A x \in 1 .. Len(t) : (IF x < m THEN x ELSE x + 1) \in 1 .. Len(s)
      BY <1>1, <1>2
    <3>2. QED
      BY <1>2, <3>1
  <2>3. (IF i < m THEN i ELSE i + 1) = (IF j < m THEN j ELSE j + 1)
    BY <1>3, <2>1, <2>2
  <2>4. QED
    BY <1>2, <2>3
<1>7. ASSUME NEW i \in 1 .. Len(s), i # m - 1 PROVE link2[s[i]] = link[s[i]]
  <2>1. s[i] # back[s[m]]
    <3>1. CASE m = 1
      BY <1>1, <1>5, <3>1, KeysType
    <3>2. CASE m # 1
      <4>1. m - 1 \in 1 .. Len(s)
        BY <1>1, <3>2
      <4>2. QED
        BY <1>3, <1>5, <1>7, <3>2, <4>1
    <3>3. QED
      BY <3>1, <3>2
  <2>2. QED
    BY <1>1, <2>1
<1>8. m # 1 => link2[s[m - 1]] = link[s[m]]
  <2>1. m # 1 => m - 1 \in 1 .. Len(s)
    BY <1>1
  <2>2. QED
    BY <1>1, <1>5, <2>1
<1>9. ASSUME NEW i \in 1 .. Len(t)
      PROVE  link2[t[i]] = IF i = Len(t) THEN NULL ELSE t[i + 1]
  <2>1. CASE i < m - 1
    <3>1. i + 1 \in 1 .. Len(t) /\ i + 1 < m /\ i < m
      BY <1>1, <1>2, <2>1
    <3>2. i \in 1 .. Len(s) /\ i # m - 1 /\ i # Len(s) /\ i # Len(t)
      <4>1. /\ i \in Int /\ m \in Int /\ Len(s) \in Int
            /\ 1 <= i /\ m <= Len(s) /\ Len(t) = Len(s) - 1
        BY <1>1, <1>2
      <4>2. QED
        BY <2>1, <4>1
    <3>3. t[i] = s[i] /\ t[i + 1] = s[i + 1]
      BY <1>2, <3>1
    <3>4. link2[s[i]] = s[i + 1]
      BY <1>4, <1>7, <3>2
    <3>5. QED
      BY <3>2, <3>3, <3>4
  <2>2. CASE i = m - 1
    <3>1. m # 1 /\ i < m /\ (i = Len(t) <=> m = Len(s)) /\ i + 1 = m
      BY <1>1, <1>2, <2>2
    <3>2. t[i] = s[m - 1]
      BY <1>2, <2>2, <3>1
    <3>3. i # Len(t) => t[i + 1] = s[m + 1]
      <4>1. i # Len(t) => i + 1 \in 1 .. Len(t) /\ ~(i + 1 < m)
        BY <1>1, <1>2, <2>2
      <4>2. QED
        BY <1>2, <3>1, <4>1
    <3>4. link2[s[m - 1]] = IF m = Len(s) THEN NULL ELSE s[m + 1]
      BY <1>4, <1>8, <3>1
    <3>5. QED
      BY <3>1, <3>2, <3>3, <3>4
  <2>3. CASE i > m - 1
    <3>1. i + 1 \in 1 .. Len(s) /\ i + 1 # m - 1 /\ t[i] = s[i + 1] /\ (i = Len(t) <=> i + 1 = Len(s))
      BY <1>1, <1>2, <2>3
    <3>2. i # Len(t) => t[i + 1] = s[i + 1 + 1]
      BY <1>1, <1>2, <2>3
    <3>3. link2[s[i + 1]] = IF i + 1 = Len(s) THEN NULL ELSE s[i + 1 + 1]
      BY <1>4, <1>7, <3>1
    <3>4. QED
      BY <3>1, <3>2, <3>3
  <2>4. i < m - 1 \/ i = m - 1 \/ i > m - 1
    BY <1>1, <1>2
  <2>5. QED
    BY <2>1, <2>2, <2>3, <2>4
<1>10. first2 = IF Len(t) = 0 THEN NULL ELSE t[1]
  <2>1. first = s[1] /\ 1 \in 1 .. Len(s)
    <3>1. Len(s) # 0 /\ 1 \in 1 .. Len(s)
      BY <1>1
    <3>2. QED
      BY <3>1 DEF IsList
  <2>2. first = s[m] <=> m = 1
    BY <1>3, <2>1
  <2>3. CASE m = 1
    <3>1. first2 = IF 1 = Len(s) THEN NULL ELSE s[1 + 1]
      BY <1>4, <2>1, <2>2, <2>3
    <3>2. QED
      BY <1>1, <1>2, <2>3, <3>1
  <2>4. CASE m # 1
    BY <1>1, <1>2, <2>1, <2>2, <2>4
  <2>5. QED
    BY <2>3, <2>4
<1>11. Items(t) = Items(s) \ {s[m]}
  <2>1. Items(t) = {t[i] : i \in 1 .. Len(t)} /\ Items(s) = {s[i] : i \in 1 .. Len(s)}
    BY <1>1, <1>2 DEF Items
  <2>2. ASSUME NEW i \in 1 .. Len(t) PROVE t[i] \in Items(s) \ {s[m]}
    <3>1. PICK a \in 1 .. Len(s) : t[i] = s[a] /\ a # m
      <4>1. (IF i < m THEN i ELSE i + 1) \in 1 .. Len(s) /\ (IF i < m THEN i ELSE i + 1) # m
        BY <1>1, <1>2
      <4>2. QED
        BY <1>2, <4>1
    <3>2. QED
      BY <1>3, <2>1, <3>1
  <2>3. ASSUME NEW i \in 1 .. Len(s), i # m PROVE s[i] \in Items(t)
    <3>1. PICK a \in 1 .. Len(t) : t[a] = s[i]
      <4>1. CASE i < m
        <5>1. i \in 1 .. Len(t) /\ t[i] = s[i]
          BY <1>1, <1>2, <4>1
        <5>2. QED
          BY <5>1
      <4>2. CASE i > m
        <5>1. i - 1 \in 1 .. Len(t) /\ t[i - 1] = s[i]
          BY <1>1, <1>2, <4>2
        <5>2. QED
          BY <5>1
      <4>3. QED
        BY <1>1, <2>3, <4>1, <4>2
    <3>2. QED
      BY <2>1, <3>1
  <2>4. QED
    BY <2>1, <2>2, <2>3
<1>12. IsList(t, first2, link2)
  BY <1>2, <1>6, <1>9, <1>10 DEF IsList
<1>13. QED
  BY <1>11, <1>12 DEF t

LEMMA BackDelete ==
  ASSUME NEW s, NEW first, NEW link, IsList(s, first, link), NEW back, Backwards(s, back),
         NEW m \in 1 .. Len(s), NEW back2,
         \A j \in Keys : back2[j] = IF j = link[s[m]] THEN back[s[m]] ELSE back[j]
  PROVE  Backwards(Without(s, m), back2)
<1> DEFINE t == Without(s, m)
<1>1. s \in Seq(Keys) /\ Len(s) \in Nat /\ DOMAIN s = 1 .. Len(s) /\ \A i \in 1 .. Len(s) : s[i] \in Keys
  BY LenProperties, ElementOfSeq DEF IsList
<1>2. /\ t \in Seq(Keys) /\ Len(t) = Len(s) - 1 /\ Len(t) \in Nat /\ DOMAIN t = 1 .. Len(t)
      /\ \A i \in 1 .. Len(t) : t[i] = IF i < m THEN s[i] ELSE s[i + 1]
  <2>1. s \in Seq(Keys)
    BY <1>1
  <2>2. QED
    BY <2>1, WithoutSeq
<1> HIDE DEF t
<1>3. \A i, j \in 1 .. Len(s) : s[i] = s[j] => i = j
  BY DEF IsList
<1>4. link[s[m]] = IF m = Len(s) THEN NULL ELSE s[m + 1]
  BY DEF IsList
<1>5. \A i \in 1 .. Len(s) : back[s[i]] = IF i = 1 THEN NULL ELSE s[i - 1]
  BY <1>1 DEF Backwards
<1>6. ASSUME NEW i \in 1 .. Len(s), i # m + 1 PROVE back2[s[i]] = back[s[i]]
  <2>1. s[i] # link[s[m]]
    <3>1. CASE m = Len(s)
      BY <1>1, <1>4, <3>1, KeysType
    <3>2. CASE m # Len(s)
      <4>1. m + 1 \in 1 .. Len(s)
        BY <1>1, <3>2
      <4>2. QED
        BY <1>3, <1>4, <1>6, <3>2, <4>1
    <3>3. QED
      BY <3>1, <3>2
  <2>2. QED
    BY <1>1, <2>1
<1>7. m # Len(s) => back2[s[m + 1]] = back[s[m]]
  <2>1. m # Len(s) => m + 1 \in 1 .. Len(s)
    BY <1>1
  <2>2. QED
    BY <1>1, <1>4, <2>1
<1>8. ASSUME NEW i \in 1 .. Len(t)
      PROVE  back2[t[i]] = IF i = 1 THEN NULL ELSE t[i - 1]
  <2>1. CASE i < m
    <3>1. i \in 1 .. Len(s) /\ i # m + 1 /\ t[i] = s[i] /\ (i # 1 => t[i - 1] = s[i - 1])
      BY <1>1, <1>2, <2>1
    <3>2. QED
      BY <1>5, <1>6, <3>1
  <2>2. CASE i = m
    <3>1. t[i] = s[m + 1] /\ m # Len(s)
      BY <1>1, <1>2, <2>2
    <3>2. i # 1 => t[i - 1] = s[m - 1]
      <4>1. i # 1 => i - 1 \in 1 .. Len(t) /\ i - 1 < m
        BY <1>1, <1>2, <2>2
      <4>2. QED
        BY <1>2, <2>2, <4>1
    <3>3. QED
      BY <1>5, <1>7, <2>2, <3>1, <3>2
  <2>3. CASE i > m
    <3>1. i + 1 \in 1 .. Len(s) /\ i + 1 # m + 1 /\ i + 1 # 1 /\ i # 1 /\ t[i] = s[i + 1] /\ t[i - 1] = s[i]
      BY <1>1, <1>2, <2>3
    <3>2. back2[s[i + 1]] = s[i + 1 - 1]
      BY <1>5, <1>6, <3>1
    <3>3. i + 1 - 1 = i
      BY <1>2
    <3>4. QED
      BY <3>1, <3>2, <3>3
  <2>4. QED
    BY <1>1, <1>2, <2>1, <2>2, <2>3
<1>9. QED
  BY <1>2, <1>8 DEF Backwards, t

-----------------------------------------------------------------------------
(* Tables. *)

(* A record with the fields of UT_hash_table, and the links of the items. *)
Fields == {"hashv", "head", "tail", "num_items", "num_buckets", "buckets", "ideal_chain_maxlen",
           "nonideal_items", "ineff_expands", "noexpand", "prev", "next", "hh_prev", "hh_next"}

Bucket == [hh_head : NULLable, count : Nat, expand_mult : Nat]

BucketsType(h) ==
  /\ DOMAIN h = Fields
  /\ h.hashv \in [Keys -> Nat]
  /\ h.num_buckets \in Nat \ {0}
  /\ h.buckets \in [0 .. h.num_buckets - 1 -> Bucket]
  /\ h.hh_prev \in Links /\ h.hh_next \in Links

BucketInv(h, b) ==
  /\ IsList(BucketChain(h, b), h.buckets[b].hh_head, h.hh_next)
  /\ Backwards(BucketChain(h, b), h.hh_prev)
  /\ h.buckets[b].count = Len(BucketChain(h, b))
  /\ \A k \in Items(BucketChain(h, b)) : BucketOf(h, k) = b

(* The chains of the buckets are sound, and every item is in the right one. *)
Chained(h) == BucketsType(h) /\ \A b \in 0 .. h.num_buckets - 1 : BucketInv(h, b)

(* What the chains hold. *)
Stored(h) == {k \in Keys : k \in Items(BucketChain(h, BucketOf(h, k)))}

LEMMA BucketOfType ==
  ASSUME NEW h, BucketsType(h), NEW k \in Keys
  PROVE  BucketOf(h, k) \in 0 .. h.num_buckets - 1
<1>1. h.hashv[k] \in Nat /\ h.num_buckets \in Nat \ {0}
  BY DEF BucketsType
<1>2. \A a \in Nat, n \in Nat \ {0} : a % n \in 0 .. n - 1
  OBVIOUS
<1>3. QED
  BY <1>1, <1>2 DEF BucketOf

LEMMA LinkType ==
  ASSUME NEW link \in Links, NEW item \in NULLable, NEW value \in NULLable
  PROVE  /\ Link(link, item, value) \in Links
         /\ \A k \in Keys : Link(link, item, value)[k] = IF k = item THEN value ELSE link[k]
  BY KeysType DEF Links, Link, NULLable

LEMMA StoredIn ==
  ASSUME NEW h, Chained(h), NEW b \in 0 .. h.num_buckets - 1, NEW k
  PROVE  k \in Items(BucketChain(h, b)) <=> k \in Stored(h) /\ BucketOf(h, k) = b
<1>1. Items(BucketChain(h, b)) \subseteq Keys /\ \A j \in Items(BucketChain(h, b)) : BucketOf(h, j) = b
  BY ListItems DEF Chained, BucketInv
<1>2. QED
  BY <1>1 DEF Stored

(* Whatever does not touch the chains and the links of their items. *)
LEMMA ChainedFrame ==
  ASSUME NEW h, Chained(h), NEW h2, BucketsType(h2),
         h2.hashv = h.hashv, h2.num_buckets = h.num_buckets,
         \A b \in 0 .. h.num_buckets - 1 : /\ h2.buckets[b].hh_head = h.buckets[b].hh_head
                                           /\ h2.buckets[b].count = h.buckets[b].count,
         \A k \in Stored(h) : h2.hh_prev[k] = h.hh_prev[k] /\ h2.hh_next[k] = h.hh_next[k]
  PROVE  Chained(h2) /\ Stored(h2) = Stored(h)
<1>1. \A k : BucketOf(h2, k) = BucketOf(h, k)
  BY DEF BucketOf
<1>2. ASSUME NEW b \in 0 .. h.num_buckets - 1
      PROVE  BucketChain(h2, b) = BucketChain(h, b) /\ BucketInv(h2, b)
  <2> DEFINE s == BucketChain(h, b)
  <2>1. /\ IsList(s, h.buckets[b].hh_head, h.hh_next) /\ Backwards(s, h.hh_prev)
        /\ h.buckets[b].count = Len(s) /\ \A k \in Items(s) : BucketOf(h, k) = b
    BY DEF Chained, BucketInv
  <2>2. Items(s) \subseteq Stored(h)
    BY StoredIn
  <2> HIDE DEF s
  <2>3. IsList(s, h2.buckets[b].hh_head, h2.hh_next)
    BY <2>1, <2>2, ListFrame
  <2>4. s \in Seq(Keys) /\ Backwards(s, h2.hh_prev)
    <3>1. s \in Seq(Keys)
      BY <2>1 DEF IsList
    <3>2. QED
      BY <2>1, <2>2, <3>1, BackFrame
  <2>5. BucketChain(h2, b) = s
    BY <2>3, ChainIsList DEF BucketChain
  <2>6. BucketInv(h2, b)
    BY <1>1, <2>1, <2>3, <2>4, <2>5 DEF BucketInv
  <2>7. QED
    BY <2>5, <2>6 DEF s
<1>3. Chained(h2)
  BY <1>2 DEF Chained
<1>4. \A k \in Keys : BucketOf(h, k) \in 0 .. h.num_buckets - 1
  BY BucketOfType DEF Chained
<1>5. QED
  BY <1>1, <1>2, <1>3, <1>4 DEF Stored

(* Push. *)

(* The fields that neither Push nor HashDelInBkt changes. *)
SameList(p, h) ==
  /\ p.hashv = h.hashv /\ p.head = h.head /\ p.tail = h.tail /\ p.num_items = h.num_items
  /\ p.prev = h.prev /\ p.next = h.next /\ p.num_buckets = h.num_buckets
  /\ p.noexpand = h.noexpand /\ p.ineff_expands = h.ineff_expands
  /\ p.ideal_chain_maxlen = h.ideal_chain_maxlen

LEMMA PushFields ==
  ASSUME NEW h, BucketsType(h), NEW k \in Keys, NEW p, p = Push(h, k),
         NEW c, c = BucketOf(h, k), NEW first, first = h.buckets[c].hh_head
  PROVE  /\ BucketsType(p) /\ SameList(p, h) /\ p.nonideal_items = h.nonideal_items
         /\ \A b \in 0 .. h.num_buckets - 1 : b # c => p.buckets[b] = h.buckets[b]
         /\ p.buckets[c].hh_head = k /\ p.buckets[c].count = h.buckets[c].count + 1
         /\ p.buckets[c].expand_mult = h.buckets[c].expand_mult
         /\ p.hh_next[k] = first /\ \A j \in Keys \ {k} : p.hh_next[j] = h.hh_next[j]
         /\ first # k => p.hh_prev[k] = NULL
         /\ \A j \in Keys \ {k} : p.hh_prev[j] = IF j = first THEN k ELSE h.hh_prev[j]
<1> DEFINE bkt == [hh_head |-> k, count |-> h.buckets[c].count + 1, expand_mult |-> h.buckets[c].expand_mult]
           back == [h.hh_prev EXCEPT ![k] = NULL]
<1>1. c \in 0 .. h.num_buckets - 1 /\ h.buckets[c] \in Bucket /\ h.buckets \in [0 .. h.num_buckets - 1 -> Bucket]
  BY BucketOfType DEF BucketsType
<1>2. first \in NULLable /\ k \in NULLable /\ NULL \in NULLable
  BY <1>1 DEF Bucket, NULLable
<1>3. p = [h EXCEPT !.buckets[c] = bkt,
                   !.hh_next[k] = first, !.hh_prev = Link([@ EXCEPT ![k] = NULL], first, k)]
  BY DEF Push
<1>4. DOMAIN h = Fields
  BY DEF BucketsType
<1>5. DOMAIN p = Fields /\ SameList(p, h) /\ p.nonideal_items = h.nonideal_items
  BY <1>3, <1>4 DEF Fields, SameList
<1>6. p.buckets = [h.buckets EXCEPT ![c] = bkt]
  BY <1>3, <1>4 DEF Fields
<1>7. p.hh_next = [h.hh_next EXCEPT ![k] = first]
  BY <1>3, <1>4 DEF Fields
<1>8. p.hh_prev = Link(back, first, k)
  BY <1>3, <1>4 DEF Fields
<1> HIDE DEF back
<1>9. bkt.hh_head = k /\ bkt.count = h.buckets[c].count + 1
      /\ bkt.expand_mult = h.buckets[c].expand_mult
  BY <1>1 DEF Bucket
<1>10. bkt \in Bucket
  BY <1>1, <1>2 DEF Bucket
<1> HIDE DEF bkt
<1>11. back \in Links /\ back[k] = NULL /\ \A j \in Keys \ {k} : back[j] = h.hh_prev[j]
  BY <1>2 DEF BucketsType, Links, back
<1>12. p.hh_prev \in Links /\ \A j \in Keys : p.hh_prev[j] = IF j = first THEN k ELSE back[j]
  <2>1. back \in Links /\ first \in NULLable /\ k \in NULLable
    BY <1>2, <1>11
  <2>2. /\ Link(back, first, k) \in Links
        /\ \A j \in Keys : Link(back, first, k)[j] = IF j = first THEN k ELSE back[j]
    BY <2>1, LinkType
  <2>3. QED
    BY <1>8, <2>2
<1>13. /\ p.hh_next \in Links /\ p.hh_next[k] = first
      /\ \A j \in Keys \ {k} : p.hh_next[j] = h.hh_next[j]
  BY <1>2, <1>7 DEF BucketsType, Links
<1>14. /\ p.buckets \in [0 .. h.num_buckets - 1 -> Bucket] /\ p.buckets[c] = bkt
      /\ \A b \in 0 .. h.num_buckets - 1 : b # c => p.buckets[b] = h.buckets[b]
  BY <1>1, <1>6, <1>10
<1>15. BucketsType(p)
  BY <1>5, <1>12, <1>13, <1>14 DEF BucketsType, SameList
<1>16. QED
  BY <1>5, <1>9, <1>11, <1>12, <1>13, <1>14, <1>15

LEMMA PushChained ==
  ASSUME NEW h, Chained(h), NEW k \in Keys, k \notin Stored(h), NEW p, p = Push(h, k)
  PROVE  Chained(p) /\ Stored(p) = Stored(h) \cup {k}
<1> DEFINE c == BucketOf(h, k)
           first == h.buckets[c].hh_head
           n == h.num_buckets
           chain(b) == IF b = c THEN <<k>> \o BucketChain(h, c) ELSE BucketChain(h, b)
<1>0. BucketsType(h)
  BY DEF Chained
<1>1. c \in 0 .. n - 1
  BY <1>0, BucketOfType
<1>2. /\ BucketsType(p) /\ SameList(p, h)
      /\ \A b \in 0 .. n - 1 : b # c => p.buckets[b] = h.buckets[b]
      /\ p.buckets[c].hh_head = k /\ p.buckets[c].count = h.buckets[c].count + 1
      /\ p.hh_next[k] = first /\ \A j \in Keys \ {k} : p.hh_next[j] = h.hh_next[j]
      /\ first # k => p.hh_prev[k] = NULL
      /\ \A j \in Keys \ {k} : p.hh_prev[j] = IF j = first THEN k ELSE h.hh_prev[j]
  BY <1>0, PushFields
<1>3. \A j : BucketOf(p, j) = BucketOf(h, j)
  BY <1>2 DEF BucketOf, SameList
<1>4. \A b \in 0 .. n - 1 : /\ IsList(BucketChain(h, b), h.buckets[b].hh_head, h.hh_next)
                             /\ Backwards(BucketChain(h, b), h.hh_prev)
                             /\ h.buckets[b].count = Len(BucketChain(h, b))
                             /\ BucketChain(h, b) \in Seq(Keys)
  BY DEF Chained, BucketInv, IsList
<1>5. \A b \in 0 .. n - 1 : \A j \in Items(BucketChain(h, b)) : j \in Keys \ {k} /\ BucketOf(h, j) = b
  BY StoredIn DEF Stored
<1>6. first # NULL => first \in Items(BucketChain(h, c)) /\ first = BucketChain(h, c)[1]
  <2>1. BucketChain(h, c) \in Seq(Keys) /\ first = IF Len(BucketChain(h, c)) = 0 THEN NULL ELSE BucketChain(h, c)[1]
    BY <1>1, <1>4 DEF IsList
  <2>2. DOMAIN BucketChain(h, c) = 1 .. Len(BucketChain(h, c)) /\ Len(BucketChain(h, c)) \in Nat
    BY <2>1, LenProperties
  <2>3. QED
    BY <2>1, <2>2 DEF Items
<1>7. first # k
  BY <1>1, <1>5, <1>6, KeysType
<1>8. ASSUME NEW b \in 0 .. n - 1
      PROVE  /\ IsList(chain(b), p.buckets[b].hh_head, p.hh_next)
             /\ Items(chain(b)) = IF b = c THEN Items(BucketChain(h, b)) \cup {k} ELSE Items(BucketChain(h, b))
             /\ Backwards(chain(b), p.hh_prev)
             /\ p.buckets[b].count = Len(chain(b))
  <2> DEFINE s == BucketChain(h, b)
  <2>1. /\ IsList(s, h.buckets[b].hh_head, h.hh_next) /\ Backwards(s, h.hh_prev)
        /\ h.buckets[b].count = Len(s) /\ s \in Seq(Keys)
        /\ \A j \in Items(s) : j \in Keys \ {k} /\ BucketOf(h, j) = b
    BY <1>4, <1>5
  <2>2. CASE b = c
    <3>1. chain(b) = <<k>> \o s
      BY <2>2
    <3>2. k \notin Items(s) /\ \A j \in Items(s) : p.hh_next[j] = h.hh_next[j]
      BY <1>2, <2>1
    <3> HIDE DEF chain, s
    <3>3. IsList(<<k>> \o s, k, p.hh_next) /\ Items(<<k>> \o s) = Items(s) \cup {k}
      BY <1>2, <2>1, <2>2, <3>2, ListPush
    <3>4. Backwards(<<k>> \o s, p.hh_prev)
      <4>1. Len(s) \in Nat /\ Items(s) = {s[i] : i \in 1 .. Len(s)} /\ Items(s) \subseteq Keys
        BY <2>1, ListItems, LenProperties
      <4>2. first = (IF Len(s) = 0 THEN NULL ELSE s[1]) /\ \A i, j \in 1 .. Len(s) : s[i] = s[j] => i = j
        BY <2>1, <2>2 DEF IsList
      <4>3. Len(s) # 0 => p.hh_prev[s[1]] = k
        <5>1. SUFFICES ASSUME Len(s) # 0 PROVE p.hh_prev[s[1]] = k
          OBVIOUS
        <5>2. 1 \in 1 .. Len(s)
          BY <4>1, <5>1
        <5>3. s[1] \in Keys \ {k} /\ first = s[1]
          BY <2>1, <4>1, <4>2, <5>1, <5>2
        <5>4. QED
          BY <1>2, <5>3
      <4>4. ASSUME NEW i \in 2 .. Len(s) PROVE p.hh_prev[s[i]] = h.hh_prev[s[i]]
        <5>1. i \in 1 .. Len(s) /\ 1 \in 1 .. Len(s) /\ Len(s) # 0 /\ i # 1
          BY <4>1
        <5>2. s[i] # first /\ s[i] \in Keys \ {k}
          BY <2>1, <4>1, <4>2, <5>1
        <5>3. QED
          BY <1>2, <5>2
      <4>5. QED
        BY <1>2, <1>7, <2>1, <4>3, <4>4, BackPush
    <3>5. Len(<<k>> \o s) = Len(s) + 1
      <4>1. <<k>> \in Seq(Keys) /\ Len(<<k>>) = 1
        OBVIOUS
      <4>2. Len(<<k>> \o s) = Len(<<k>>) + Len(s) /\ Len(s) \in Nat
        BY <2>1, <4>1, ConcatProperties, LenProperties
      <4>3. QED
        BY <4>1, <4>2
    <3>6. QED
      BY <1>2, <2>1, <2>2, <3>1, <3>3, <3>4, <3>5 DEF s
  <2>3. CASE b # c
    <3>1. chain(b) = s
      BY <2>3
    <3>2. \A j \in Items(s) : /\ p.hh_next[j] = h.hh_next[j] /\ j # first
                              /\ p.hh_prev[j] = h.hh_prev[j]
      BY <1>1, <1>2, <1>5, <1>6, <2>1, <2>3, KeysType
    <3> HIDE DEF chain, s
    <3>3. IsList(s, h.buckets[b].hh_head, p.hh_next)
      BY <2>1, <3>2, ListFrame
    <3>4. Backwards(s, p.hh_prev)
      BY <2>1, <3>2, BackFrame
    <3>5. QED
      BY <1>2, <2>1, <2>3, <3>1, <3>3, <3>4 DEF s
  <2>4. QED
    BY <2>2, <2>3
<1> HIDE DEF chain
<1>9. ASSUME NEW b \in 0 .. n - 1 PROVE BucketChain(p, b) = chain(b)
  BY <1>8, ChainIsList DEF BucketChain
<1>10. ASSUME NEW b \in 0 .. n - 1, NEW j \in Items(chain(b)) PROVE BucketOf(p, j) = b
  BY <1>3, <1>5, <1>8, <1>10
<1>11. Chained(p)
  BY <1>2, <1>8, <1>9, <1>10 DEF Chained, BucketInv, SameList
<1>12. \A j \in Keys : BucketOf(h, j) \in 0 .. n - 1
  BY <1>0, BucketOfType
<1>13. Stored(p) = Stored(h) \cup {k}
  BY <1>3, <1>8, <1>9, <1>12 DEF Stored
<1>14. QED
  BY <1>11, <1>13

(* HashDelInBkt. *)

LEMMA Neighbours ==
  ASSUME NEW s, NEW first, NEW link, IsList(s, first, link), NEW back, Backwards(s, back), NEW k \in Items(s)
  PROVE  /\ link[k] \in Items(s) \cup {NULL} /\ back[k] \in Items(s) \cup {NULL}
         /\ \E m \in 1 .. Len(s) : s[m] = k
<1>1. Items(s) = {s[i] : i \in 1 .. Len(s)} /\ Len(s) \in Nat /\ DOMAIN s = 1 .. Len(s)
  BY ListItems, LenProperties DEF IsList
<1>2. PICK m \in 1 .. Len(s) : s[m] = k
  BY <1>1
<1>3. link[k] = IF m = Len(s) THEN NULL ELSE s[m + 1]
  BY <1>2 DEF IsList
<1>4. back[k] = IF m = 1 THEN NULL ELSE s[m - 1]
  BY <1>1, <1>2 DEF Backwards
<1>5. m # Len(s) => m + 1 \in 1 .. Len(s)
  <2>1. Len(s) \in Nat
    BY <1>1
  <2>2. QED
    BY <2>1
<1>6. m # 1 => m - 1 \in 1 .. Len(s)
  BY <1>1
<1>7. QED
  BY <1>1, <1>2, <1>3, <1>4, <1>5, <1>6

LEMMA DelFields ==
  ASSUME NEW h, BucketsType(h), NEW k \in Keys, NEW c, c = BucketOf(h, k), h.buckets[c].count # 0,
         NEW d, d = HashDelInBkt(h, k)
  PROVE  /\ BucketsType(d) /\ SameList(d, h) /\ d.nonideal_items = h.nonideal_items
         /\ \A b \in 0 .. h.num_buckets - 1 : b # c => d.buckets[b] = h.buckets[b]
         /\ d.buckets[c].hh_head = IF h.buckets[c].hh_head = k THEN h.hh_next[k] ELSE h.buckets[c].hh_head
         /\ d.buckets[c].count = h.buckets[c].count - 1
         /\ d.buckets[c].expand_mult = h.buckets[c].expand_mult
         /\ \A j \in Keys : d.hh_next[j] = IF j = h.hh_prev[k] THEN h.hh_next[k] ELSE h.hh_next[j]
         /\ \A j \in Keys : d.hh_prev[j] = IF j = h.hh_next[k] THEN h.hh_prev[k] ELSE h.hh_prev[j]
<1> DEFINE first == IF h.buckets[c].hh_head = k THEN h.hh_next[k] ELSE h.buckets[c].hh_head
           bkt == [hh_head |-> first, count |-> h.buckets[c].count - 1, expand_mult |-> h.buckets[c].expand_mult]
<1>1. c \in 0 .. h.num_buckets - 1 /\ h.buckets[c] \in Bucket /\ h.buckets \in [0 .. h.num_buckets - 1 -> Bucket]
  BY BucketOfType DEF BucketsType
<1>2. h.hh_next[k] \in NULLable /\ h.hh_prev[k] \in NULLable /\ h.hh_next \in Links /\ h.hh_prev \in Links
  BY DEF BucketsType, Links
<1>3. d = [h EXCEPT !.buckets[c] = bkt,
                    !.hh_next = Link(@, h.hh_prev[k], h.hh_next[k]),
                    !.hh_prev = Link(@, h.hh_next[k], h.hh_prev[k])]
  BY DEF HashDelInBkt
<1>4. DOMAIN h = Fields
  BY DEF BucketsType
<1>5. DOMAIN d = Fields /\ SameList(d, h) /\ d.nonideal_items = h.nonideal_items
  BY <1>3, <1>4 DEF Fields, SameList
<1>6. d.buckets = [h.buckets EXCEPT ![c] = bkt]
  BY <1>3, <1>4 DEF Fields
<1>7. d.hh_next = Link(h.hh_next, h.hh_prev[k], h.hh_next[k])
  BY <1>3, <1>4 DEF Fields
<1>8. d.hh_prev = Link(h.hh_prev, h.hh_next[k], h.hh_prev[k])
  BY <1>3, <1>4 DEF Fields
<1>9. first \in NULLable
  BY <1>1, <1>2 DEF Bucket
<1>10. bkt.hh_head = first /\ bkt.count = h.buckets[c].count - 1 /\ bkt.expand_mult = h.buckets[c].expand_mult
  OBVIOUS
<1> HIDE DEF first
<1>11. bkt \in Bucket
  BY <1>1, <1>9 DEF Bucket
<1> HIDE DEF bkt
<1>12. /\ d.hh_next \in Links
       /\ \A j \in Keys : d.hh_next[j] = IF j = h.hh_prev[k] THEN h.hh_next[k] ELSE h.hh_next[j]
  BY <1>2, <1>7, LinkType
<1>13. /\ d.hh_prev \in Links
       /\ \A j \in Keys : d.hh_prev[j] = IF j = h.hh_next[k] THEN h.hh_prev[k] ELSE h.hh_prev[j]
  BY <1>2, <1>8, LinkType
<1>14. /\ d.buckets \in [0 .. h.num_buckets - 1 -> Bucket] /\ d.buckets[c] = bkt
       /\ \A b \in 0 .. h.num_buckets - 1 : b # c => d.buckets[b] = h.buckets[b]
  BY <1>1, <1>6, <1>11
<1>15. BucketsType(d)
  BY <1>5, <1>12, <1>13, <1>14 DEF BucketsType, SameList
<1>16. QED
  BY <1>5, <1>10, <1>12, <1>13, <1>14, <1>15 DEF first

LEMMA DelChained ==
  ASSUME NEW h, Chained(h), NEW k \in Stored(h), NEW d, d = HashDelInBkt(h, k)
  PROVE  /\ Chained(d) /\ Stored(d) = Stored(h) \ {k}
         /\ SameList(d, h) /\ d.nonideal_items = h.nonideal_items
         /\ \A b \in 0 .. h.num_buckets - 1 : /\ d.buckets[b].count <= h.buckets[b].count
                                              /\ d.buckets[b].expand_mult = h.buckets[b].expand_mult
<1> DEFINE c == BucketOf(h, k)
           n == h.num_buckets
           old == BucketChain(h, c)
<1>0. BucketsType(h) /\ k \in Keys
  BY DEF Chained, Stored
<1>1. c \in 0 .. n - 1 /\ k \in Items(old)
  BY <1>0, BucketOfType DEF Stored
<1>2. /\ IsList(old, h.buckets[c].hh_head, h.hh_next) /\ Backwards(old, h.hh_prev)
      /\ h.buckets[c].count = Len(old) /\ old \in Seq(Keys) /\ Len(old) \in Nat
  BY <1>1, LenProperties DEF Chained, BucketInv, IsList
<1>3. PICK m \in 1 .. Len(old) : old[m] = k
  BY <1>1, <1>2, Neighbours
<1>4. h.hh_next[k] \in Items(old) \cup {NULL} /\ h.hh_prev[k] \in Items(old) \cup {NULL}
  BY <1>1, <1>2, Neighbours
<1>5. h.buckets[c].count # 0
  BY <1>2, <1>3
<1>6. /\ BucketsType(d) /\ SameList(d, h) /\ d.nonideal_items = h.nonideal_items
      /\ \A b \in 0 .. n - 1 : b # c => d.buckets[b] = h.buckets[b]
      /\ d.buckets[c].hh_head = IF h.buckets[c].hh_head = k THEN h.hh_next[k] ELSE h.buckets[c].hh_head
      /\ d.buckets[c].count = h.buckets[c].count - 1
      /\ d.buckets[c].expand_mult = h.buckets[c].expand_mult
      /\ \A j \in Keys : d.hh_next[j] = IF j = h.hh_prev[k] THEN h.hh_next[k] ELSE h.hh_next[j]
      /\ \A j \in Keys : d.hh_prev[j] = IF j = h.hh_next[k] THEN h.hh_prev[k] ELSE h.hh_prev[j]
  BY <1>0, <1>5, DelFields
<1>7. \A j : BucketOf(d, j) = BucketOf(h, j)
  BY <1>6 DEF BucketOf, SameList
<1> DEFINE chain(b) == IF b = c THEN Without(old, m) ELSE BucketChain(h, b)
<1> HIDE DEF old
<1>8. /\ IsList(Without(old, m), d.buckets[c].hh_head, d.hh_next)
      /\ Items(Without(old, m)) = Items(old) \ {k}
      /\ Backwards(Without(old, m), d.hh_prev)
      /\ d.buckets[c].count = Len(Without(old, m))
  <2>1. IsList(Without(old, m), d.buckets[c].hh_head, d.hh_next) /\ Items(Without(old, m)) = Items(old) \ {k}
    BY <1>2, <1>3, <1>6, ListDelete
  <2>2. Backwards(Without(old, m), d.hh_prev)
    BY <1>2, <1>3, <1>6, BackDelete
  <2>3. d.buckets[c].count = Len(Without(old, m))
    BY <1>2, <1>3, <1>6, WithoutSeq
  <2>4. QED
    BY <2>1, <2>2, <2>3
<1>9. ASSUME NEW b \in 0 .. n - 1, b # c
      PROVE  /\ IsList(BucketChain(h, b), d.buckets[b].hh_head, d.hh_next)
             /\ Backwards(BucketChain(h, b), d.hh_prev)
             /\ d.buckets[b].count = Len(BucketChain(h, b))
             /\ k \notin Items(BucketChain(h, b))
  <2> DEFINE s == BucketChain(h, b)
  <2>1. /\ IsList(s, h.buckets[b].hh_head, h.hh_next) /\ Backwards(s, h.hh_prev)
        /\ h.buckets[b].count = Len(s) /\ s \in Seq(Keys)
    BY DEF Chained, BucketInv, IsList
  <2>2. \A j \in Items(s) : j \in Keys /\ BucketOf(h, j) = b
    BY StoredIn DEF Stored
  <2>3. \A j \in Items(old) : BucketOf(h, j) = c
    BY <1>1, StoredIn DEF old
  <2> HIDE DEF s
  <2>4. \A j \in Items(s) : j # h.hh_next[k] /\ j # h.hh_prev[k] /\ j # k
    BY <1>1, <1>4, <1>9, <2>2, <2>3, KeysType
  <2>5. IsList(s, h.buckets[b].hh_head, d.hh_next)
    BY <1>6, <2>1, <2>2, <2>4, ListFrame
  <2>6. Backwards(s, d.hh_prev)
    BY <1>6, <2>1, <2>2, <2>4, BackFrame
  <2>7. QED
    BY <1>6, <1>9, <2>1, <2>4, <2>5, <2>6 DEF s
<1>10. ASSUME NEW b \in 0 .. n - 1
       PROVE  /\ IsList(chain(b), d.buckets[b].hh_head, d.hh_next)
              /\ Backwards(chain(b), d.hh_prev)
              /\ d.buckets[b].count = Len(chain(b))
              /\ Items(chain(b)) = Items(BucketChain(h, b)) \ {k}
  BY <1>8, <1>9 DEF old
<1> HIDE DEF chain
<1>11. ASSUME NEW b \in 0 .. n - 1 PROVE BucketChain(d, b) = chain(b)
  BY <1>10, ChainIsList DEF BucketChain
<1>12. ASSUME NEW b \in 0 .. n - 1, NEW j \in Items(chain(b)) PROVE BucketOf(d, j) = b
  BY <1>7, <1>10, <1>12, StoredIn
<1>13. Chained(d)
  BY <1>6, <1>10, <1>11, <1>12 DEF Chained, BucketInv, SameList
<1>14. \A j \in Keys : BucketOf(h, j) \in 0 .. n - 1
  BY <1>0, BucketOfType
<1>15. Stored(d) = Stored(h) \ {k}
  BY <1>7, <1>10, <1>11, <1>14 DEF Stored
<1>16. ASSUME NEW b \in 0 .. n - 1
       PROVE  d.buckets[b].count <= h.buckets[b].count /\ d.buckets[b].expand_mult = h.buckets[b].expand_mult
  <2>1. h.buckets[b].count \in Nat
    BY <1>0 DEF BucketsType, Bucket
  <2>2. QED
    BY <1>6, <2>1
<1>17. QED
  BY <1>6, <1>13, <1>15, <1>16

(* Rehash and HashExpandBuckets. *)

(* No bucket holds more than its multiple of the ideal length. *)
Within(h) ==
  \A b \in 0 .. h.num_buckets - 1 : h.buckets[b].count <= (h.buckets[b].expand_mult + 1) * h.ideal_chain_maxlen

(* The table e, made from empty, holds the items of S. *)
Filled(e, empty, S) ==
  /\ Chained(e) /\ Stored(e) = S
  /\ SameList(e, empty)
  /\ e.ideal_chain_maxlen \in Nat \ {0}
  /\ Within(e)

LEMMA RehashFields ==
  ASSUME NEW h, BucketsType(h), NEW k \in Keys, NEW p, p = Push(h, k), NEW c, c = BucketOf(h, k),
         NEW r, r = Rehash(h, k)
  PROVE  /\ BucketsType(r) /\ SameList(r, p) /\ r.hh_prev = p.hh_prev /\ r.hh_next = p.hh_next
         /\ \A b \in 0 .. h.num_buckets - 1 : b # c => r.buckets[b] = p.buckets[b]
         /\ r.buckets[c].hh_head = p.buckets[c].hh_head /\ r.buckets[c].count = p.buckets[c].count
         /\ r.buckets[c].expand_mult =
              IF /\ p.buckets[c].count > h.ideal_chain_maxlen
                 /\ p.buckets[c].count > p.buckets[c].expand_mult * h.ideal_chain_maxlen
              THEN p.buckets[c].expand_mult + 1 ELSE p.buckets[c].expand_mult
<1> DEFINE nonideal == p.buckets[c].count > h.ideal_chain_maxlen
           over == nonideal /\ p.buckets[c].count > p.buckets[c].expand_mult * h.ideal_chain_maxlen
           bkt == [p.buckets[c] EXCEPT !.expand_mult = IF over THEN p.buckets[c].expand_mult + 1 ELSE p.buckets[c].expand_mult]
<1>1. BucketsType(p) /\ SameList(p, h)
  BY PushFields
<1>2. c \in 0 .. p.num_buckets - 1 /\ p.buckets \in [0 .. p.num_buckets - 1 -> Bucket] /\ DOMAIN p = Fields
      /\ p.num_buckets = h.num_buckets
  BY <1>1, BucketOfType DEF BucketsType, SameList
<1>3. r = [p EXCEPT !.nonideal_items = IF nonideal THEN @ + 1 ELSE @,
                    !.buckets[c].expand_mult = IF over THEN @ + 1 ELSE @]
  BY DEF Rehash
<1> HIDE DEF nonideal, over
<1>4. DOMAIN r = Fields /\ SameList(r, p) /\ r.hh_prev = p.hh_prev /\ r.hh_next = p.hh_next
  BY <1>2, <1>3 DEF Fields, SameList
<1>5. r.buckets = [p.buckets EXCEPT ![c] = bkt]
  BY <1>2, <1>3 DEF Fields
<1>6. bkt \in Bucket /\ bkt.hh_head = p.buckets[c].hh_head /\ bkt.count = p.buckets[c].count
      /\ bkt.expand_mult = IF over THEN p.buckets[c].expand_mult + 1 ELSE p.buckets[c].expand_mult
  <2>1. p.buckets[c] \in Bucket
    BY <1>2
  <2>2. QED
    BY <2>1 DEF Bucket
<1> HIDE DEF bkt
<1>7. /\ r.buckets \in [0 .. p.num_buckets - 1 -> Bucket] /\ r.buckets[c] = bkt
      /\ \A b \in 0 .. h.num_buckets - 1 : b # c => r.buckets[b] = p.buckets[b]
  BY <1>2, <1>5, <1>6
<1>8. BucketsType(r)
  BY <1>1, <1>4, <1>7 DEF BucketsType, SameList
<1>9. QED
  BY <1>4, <1>6, <1>7, <1>8 DEF over, nonideal

(* The multiple grows when the chain outgrows it. *)
LEMMA WithinStep ==
  ASSUME NEW count \in Nat, NEW mult \in Nat, NEW ideal \in Nat \ {0}, count <= (mult + 1) * ideal
  PROVE  IF count + 1 > ideal /\ count + 1 > mult * ideal
         THEN count + 1 <= (mult + 1 + 1) * ideal
         ELSE count + 1 <= (mult + 1) * ideal
<1>1. /\ mult * ideal \in Nat /\ (mult + 1) * ideal = mult * ideal + ideal
      /\ (mult + 1 + 1) * ideal = mult * ideal + ideal + ideal
  OBVIOUS
<1> DEFINE product == mult * ideal
<1>2. product \in Nat /\ count <= product + ideal
  BY <1>1
<1> HIDE DEF product
<1>3. IF count + 1 > ideal /\ count + 1 > product
      THEN count + 1 <= product + ideal + ideal ELSE count + 1 <= product + ideal
  BY <1>2
<1>4. QED
  BY <1>1, <1>3 DEF product

LEMMA RehashFilled ==
  ASSUME NEW h, NEW empty, NEW S, Filled(h, empty, S), NEW k \in Keys, k \notin S
  PROVE  Filled(Rehash(h, k), empty, S \cup {k})
<1> DEFINE p == Push(h, k)
           r == Rehash(h, k)
           c == BucketOf(h, k)
           n == h.num_buckets
           ideal == h.ideal_chain_maxlen
           over == p.buckets[c].count > ideal /\ p.buckets[c].count > p.buckets[c].expand_mult * ideal
<1>1. Chained(h) /\ Stored(h) = S /\ SameList(h, empty) /\ ideal \in Nat \ {0} /\ Within(h) /\ BucketsType(h)
  BY DEF Filled, Chained
<1>2. Chained(p) /\ Stored(p) = S \cup {k}
  BY <1>1, PushChained
<1>3. /\ SameList(p, h)
      /\ \A b \in 0 .. n - 1 : b # c => p.buckets[b] = h.buckets[b]
      /\ p.buckets[c].count = h.buckets[c].count + 1
      /\ p.buckets[c].expand_mult = h.buckets[c].expand_mult
  BY <1>1, PushFields
<1>4. c \in 0 .. n - 1
  BY <1>1, BucketOfType
<1>5. /\ BucketsType(r) /\ SameList(r, p) /\ r.hh_prev = p.hh_prev /\ r.hh_next = p.hh_next
      /\ \A b \in 0 .. n - 1 : b # c => r.buckets[b] = p.buckets[b]
      /\ r.buckets[c].hh_head = p.buckets[c].hh_head /\ r.buckets[c].count = p.buckets[c].count
      /\ r.buckets[c].expand_mult = IF over THEN p.buckets[c].expand_mult + 1 ELSE p.buckets[c].expand_mult
  <2>1. k \in Keys /\ BucketsType(h)
    BY <1>1
  <2> HIDE DEF p, c, r
  <2>3. p = Push(h, k) /\ c = BucketOf(h, k) /\ r = Rehash(h, k)
    BY DEF p, c, r
  <2>4. QED
    BY <2>1, <2>3, RehashFields
<1> HIDE DEF p, c, r
<1>6. Chained(r) /\ Stored(r) = S \cup {k}
  <2>1. p.num_buckets = n /\ r.hashv = p.hashv /\ r.num_buckets = p.num_buckets
    BY <1>3, <1>5 DEF SameList
  <2>2. \A b \in 0 .. p.num_buckets - 1 : r.buckets[b].hh_head = p.buckets[b].hh_head /\ r.buckets[b].count = p.buckets[b].count
    BY <1>5, <2>1
  <2>3. QED
    BY <1>2, <1>5, <2>1, <2>2, ChainedFrame
<1>7. SameList(r, empty) /\ r.ideal_chain_maxlen = ideal /\ r.num_buckets = n
  BY <1>1, <1>3, <1>5 DEF SameList
<1>8. ASSUME NEW b \in 0 .. n - 1
      PROVE  r.buckets[b].count <= (r.buckets[b].expand_mult + 1) * ideal
  <2>1. h.buckets[b].count \in Nat /\ h.buckets[b].expand_mult \in Nat
        /\ h.buckets[b].count <= (h.buckets[b].expand_mult + 1) * ideal
    BY <1>1 DEF BucketsType, Bucket, Within
  <2>2. CASE b # c
    BY <1>3, <1>5, <2>1, <2>2
  <2>3. CASE b = c
    <3>1. IF over THEN h.buckets[c].count + 1 <= (h.buckets[c].expand_mult + 1 + 1) * ideal
                  ELSE h.buckets[c].count + 1 <= (h.buckets[c].expand_mult + 1) * ideal
      BY <1>1, <1>3, <2>1, <2>3, WithinStep
    <3>2. QED
      BY <1>3, <1>5, <2>3, <3>1
  <2>4. QED
    BY <2>2, <2>3
<1>9. QED
  BY <1>1, <1>6, <1>7, <1>8 DEF Filled, Within, r

LEMMA RehashChainDef ==
  ASSUME NEW h, NEW chain, Len(chain) \in Nat
  PROVE  \E f : /\ f = [i \in 0 .. Len(chain) |-> IF i = 0 THEN h ELSE Rehash(f[i - 1], chain[i])]
                /\ RehashChain(h, chain) = f[Len(chain)]
<1> DEFINE is(f, n) == f = [i \in 0 .. n |-> IF i = 0 THEN h ELSE Rehash(f[i - 1], chain[i])]
           T == {n \in Nat : \E f : is(f, n)}
<1>1. 0 \in T
  <2>1. is([i \in 0 .. 0 |-> h], 0)
    OBVIOUS
  <2>2. QED
    BY <2>1
<1>2. ASSUME NEW n \in Nat, n \in T PROVE n + 1 \in T
  <2>1. PICK f : is(f, n)
    BY <1>2
  <2> DEFINE g == [i \in 0 .. n + 1 |-> IF i <= n THEN f[i] ELSE Rehash(f[n], chain[n + 1])]
  <2>2. ASSUME NEW i \in 0 .. n + 1
        PROVE  g[i] = IF i = 0 THEN h ELSE Rehash(g[i - 1], chain[i])
    <3>1. CASE i <= n
      <4>1. f[i] = IF i = 0 THEN h ELSE Rehash(f[i - 1], chain[i])
        BY <2>1, <3>1
      <4>2. i # 0 => g[i - 1] = f[i - 1]
        BY <3>1
      <4>3. QED
        BY <3>1, <4>1, <4>2
    <3>2. CASE i = n + 1
      <4>1. i - 1 = n /\ i # 0 /\ ~(i <= n) /\ n \in 0 .. n + 1 /\ n <= n
        BY <3>2
      <4>2. g[i - 1] = f[n] /\ g[i] = Rehash(f[n], chain[i])
        BY <3>2, <4>1
      <4>3. QED
        BY <4>1, <4>2
    <3>3. QED
      BY <3>1, <3>2
  <2>3. g = [i \in 0 .. n + 1 |-> g[i]]
    OBVIOUS
  <2> HIDE DEF g
  <2>4. is(g, n + 1)
    BY <2>2, <2>3
  <2>5. QED
    BY <2>4
<1> HIDE DEF T
<1>3. Len(chain) \in T
  BY <1>1, <1>2, Induct
<1>4. PICK f : is(f, Len(chain))
  BY <1>3 DEF T
<1> DEFINE after == CHOOSE after : is(after, Len(chain))
<1>5. is(after, Len(chain))
  BY <1>4, Zenon
<1>6. RehashChain(h, chain) = after[Len(chain)]
  BY DEF RehashChain
<1>7. QED
  BY <1>5, <1>6, Zenon

LEMMA RehashChainFilled ==
  ASSUME NEW h, NEW empty, NEW S, Filled(h, empty, S),
         NEW chain \in Seq(Keys), \A i, j \in 1 .. Len(chain) : chain[i] = chain[j] => i = j,
         Items(chain) \cap S = {}
  PROVE  Filled(RehashChain(h, chain), empty, S \cup Items(chain))
<1>1. Len(chain) \in Nat /\ DOMAIN chain = 1 .. Len(chain) /\ \A i \in 1 .. Len(chain) : chain[i] \in Keys
  BY LenProperties, ElementOfSeq
<1>2. PICK f : /\ f = [i \in 0 .. Len(chain) |-> IF i = 0 THEN h ELSE Rehash(f[i - 1], chain[i])]
               /\ RehashChain(h, chain) = f[Len(chain)]
  BY <1>1, RehashChainDef
<1> DEFINE moved(n) == {chain[i] : i \in 1 .. n}
           T == {n \in Nat : n <= Len(chain) => Filled(f[n], empty, S \cup moved(n))}
<1>3. 0 \in T
  <2>1. moved(0) = {} /\ f[0] = h
    BY <1>1, <1>2
  <2>2. QED
    BY <2>1
<1>4. ASSUME NEW n \in Nat, n \in T PROVE n + 1 \in T
  <2>1. SUFFICES ASSUME n + 1 <= Len(chain) PROVE Filled(f[n + 1], empty, S \cup moved(n + 1))
    OBVIOUS
  <2>2. n + 1 \in 1 .. Len(chain) /\ n <= Len(chain) /\ n + 1 - 1 = n /\ n + 1 # 0 /\ n + 1 \in 0 .. Len(chain)
    BY <1>1, <2>1
  <2>3. Filled(f[n], empty, S \cup moved(n))
    BY <1>4, <2>2
  <2>4. f[n + 1] = Rehash(f[n], chain[n + 1])
    BY <1>2, <2>2
  <2>5. chain[n + 1] \in Keys /\ chain[n + 1] \notin S
    BY <1>1, <2>2 DEF Items
  <2>6. chain[n + 1] \notin moved(n)
    <3>1. \A i \in 1 .. n : i \in 1 .. Len(chain) /\ i # n + 1
      BY <1>1, <2>2
    <3>2. QED
      BY <2>2, <3>1
  <2>7. moved(n + 1) = moved(n) \cup {chain[n + 1]}
    <3>1. 1 .. n + 1 = (1 .. n) \cup {n + 1}
      OBVIOUS
    <3>2. QED
      BY <3>1
  <2> HIDE DEF moved
  <2>8. Filled(Rehash(f[n], chain[n + 1]), empty, (S \cup moved(n)) \cup {chain[n + 1]})
    BY <2>3, <2>5, <2>6, RehashFilled
  <2>9. (S \cup moved(n)) \cup {chain[n + 1]} = S \cup moved(n + 1)
    BY <2>7
  <2>10. QED
    BY <2>4, <2>8, <2>9
<1> HIDE DEF T
<1>5. Len(chain) \in T
  BY <1>1, <1>3, <1>4, Induct
<1>6. Items(chain) = moved(Len(chain))
  BY <1>1 DEF Items
<1>7. QED
  BY <1>1, <1>2, <1>5, <1>6 DEF T

LEMMA EmptyChained ==
  ASSUME NEW h, BucketsType(h), \A b \in 0 .. h.num_buckets - 1 : h.buckets[b] = NoBucket
  PROVE  Chained(h) /\ Stored(h) = {}
<1>1. /\ <<>> \in Seq(Keys) /\ Len(<<>>) = 0 /\ DOMAIN <<>> = {} /\ Items(<<>>) = {}
  BY DEF Items
<1>2. ASSUME NEW b \in 0 .. h.num_buckets - 1
      PROVE  BucketChain(h, b) = <<>> /\ BucketInv(h, b)
  <2>1. h.buckets[b].hh_head = NULL /\ h.buckets[b].count = 0
    BY DEF NoBucket
  <2>2. IsList(<<>>, NULL, h.hh_next)
    BY <1>1 DEF IsList
  <2>3. BucketChain(h, b) = <<>>
    BY <2>1, <2>2, ChainIsList DEF BucketChain
  <2>4. Backwards(<<>>, h.hh_prev)
    BY <1>1 DEF Backwards
  <2>5. QED
    BY <1>1, <2>1, <2>2, <2>3, <2>4 DEF BucketInv
<1>3. \A k \in Keys : BucketOf(h, k) \in 0 .. h.num_buckets - 1
  BY BucketOfType
<1>4. QED
  BY <1>1, <1>2, <1>3 DEF Chained, Stored

(* The table that HashExpandBuckets starts from. *)
Doubled(h) ==
  [h EXCEPT !.num_buckets = 2 * h.num_buckets,
            !.buckets = [b \in 0 .. 2 * h.num_buckets - 1 |-> NoBucket],
            !.ideal_chain_maxlen = h.num_items \div (2 * h.num_buckets)
                                   + (IF h.num_items % (2 * h.num_buckets) # 0 THEN 1 ELSE 0),
            !.nonideal_items = 0]

(* The fields of the list, and hashv. *)
SameOrder(p, h) ==
  /\ p.hashv = h.hashv /\ p.head = h.head /\ p.tail = h.tail /\ p.num_items = h.num_items
  /\ p.prev = h.prev /\ p.next = h.next

LEMMA DoubledFilled ==
  ASSUME NEW h, BucketsType(h), h.num_items \in Nat \ {0}
  PROVE  Filled(Doubled(h), Doubled(h), {}) /\ SameOrder(Doubled(h), h)
<1> DEFINE n == 2 * h.num_buckets
           e == Doubled(h)
           ideal == h.num_items \div n + (IF h.num_items % n # 0 THEN 1 ELSE 0)
<1>1. DOMAIN h = Fields /\ n \in Nat \ {0}
  BY DEF BucketsType
<1>2. /\ DOMAIN e = Fields /\ SameOrder(e, h) /\ e.hh_prev = h.hh_prev /\ e.hh_next = h.hh_next
      /\ e.num_buckets = n /\ e.buckets = [b \in 0 .. n - 1 |-> NoBucket] /\ e.ideal_chain_maxlen = ideal
  BY <1>1 DEF Doubled, SameOrder, Fields
<1>3. ideal \in Nat \ {0}
  <2>1. \A a \in Nat, m \in Nat \ {0} : a % m \in Nat /\ a \div m \in Nat
    OBVIOUS
  <2>2. \A a \in Int, m \in Int : m > 0 /\ a > 0 /\ a % m = 0 => a \div m > 0
    OBVIOUS
  <2> DEFINE q == h.num_items \div n
             r == h.num_items % n
  <2>3. q \in Nat /\ r \in Nat
    BY <1>1, <2>1
  <2>4. r = 0 => q > 0
    BY <1>1, <2>2
  <2> HIDE DEF q, r, n
  <2>5. q + (IF r # 0 THEN 1 ELSE 0) \in Nat \ {0}
    BY <2>3, <2>4
  <2>6. QED
    BY <2>5 DEF q, r
<1> HIDE DEF e, n, ideal
<1>4. NoBucket \in Bucket /\ NoBucket.count = 0 /\ NoBucket.expand_mult = 0
  BY DEF NoBucket, Bucket, NULLable
<1>5. e.buckets \in [0 .. n - 1 -> Bucket]
  BY <1>2, <1>4
<1>6. BucketsType(e)
  BY <1>1, <1>2, <1>5 DEF BucketsType, SameOrder
<1>7. Chained(e) /\ Stored(e) = {}
  BY <1>2, <1>6, EmptyChained
<1>8. Within(e)
  BY <1>2, <1>3, <1>4 DEF Within
<1>9. QED
  BY <1>2, <1>3, <1>7, <1>8 DEF Filled, SameList, e

LEMMA ExpandDef ==
  ASSUME NEW h, h.num_buckets \in Nat
  PROVE  \E f : /\ f = [b \in 0 .. h.num_buckets |-> IF b = 0 THEN Doubled(h)
                                                     ELSE RehashChain(f[b - 1], BucketChain(h, b - 1))]
                /\ LET full == f[h.num_buckets]
                       ineff == IF full.nonideal_items > full.num_items \div 2 THEN full.ineff_expands + 1 ELSE 0
                   IN  HashExpandBuckets(h) = [full EXCEPT !.ineff_expands = ineff, !.noexpand = @ \/ ineff > 1]
<1> DEFINE is(f, n) == f = [b \in 0 .. n |-> IF b = 0 THEN Doubled(h) ELSE RehashChain(f[b - 1], BucketChain(h, b - 1))]
           T == {n \in Nat : \E f : is(f, n)}
<1>1. 0 \in T
  <2>1. is([i \in 0 .. 0 |-> Doubled(h)], 0)
    OBVIOUS
  <2>2. QED
    BY <2>1
<1>2. ASSUME NEW n \in Nat, n \in T PROVE n + 1 \in T
  <2>1. PICK f : is(f, n)
    BY <1>2
  <2> DEFINE g == [i \in 0 .. n + 1 |-> IF i <= n THEN f[i] ELSE RehashChain(f[n], BucketChain(h, n))]
  <2>2. ASSUME NEW i \in 0 .. n + 1
        PROVE  g[i] = IF i = 0 THEN Doubled(h) ELSE RehashChain(g[i - 1], BucketChain(h, i - 1))
    <3>1. CASE i <= n
      <4>1. f[i] = IF i = 0 THEN Doubled(h) ELSE RehashChain(f[i - 1], BucketChain(h, i - 1))
        BY <2>1, <3>1
      <4>2. i # 0 => g[i - 1] = f[i - 1]
        BY <3>1
      <4>3. QED
        BY <3>1, <4>1, <4>2
    <3>2. CASE i = n + 1
      <4>1. i - 1 = n /\ i # 0 /\ ~(i <= n) /\ n \in 0 .. n + 1 /\ n <= n
        BY <3>2
      <4>2. g[i - 1] = f[n] /\ g[i] = RehashChain(f[n], BucketChain(h, n))
        BY <3>2, <4>1
      <4>3. QED
        BY <4>1, <4>2
    <3>3. QED
      BY <3>1, <3>2
  <2>3. g = [i \in 0 .. n + 1 |-> g[i]]
    OBVIOUS
  <2> HIDE DEF g
  <2>4. is(g, n + 1)
    BY <2>2, <2>3
  <2>5. QED
    BY <2>4
<1> HIDE DEF T
<1>3. h.num_buckets \in T
  BY <1>1, <1>2, Induct
<1>4. PICK f : is(f, h.num_buckets)
  BY <1>3 DEF T
<1> DEFINE after == CHOOSE after : is(after, h.num_buckets)
<1>5. is(after, h.num_buckets)
  BY <1>4, Zenon
<1>6. LET full == after[h.num_buckets]
          ineff == IF full.nonideal_items > full.num_items \div 2 THEN full.ineff_expands + 1 ELSE 0
      IN  HashExpandBuckets(h) = [full EXCEPT !.ineff_expands = ineff, !.noexpand = @ \/ ineff > 1]
  BY DEF HashExpandBuckets, Doubled
<1>7. QED
  BY <1>5, <1>6, Zenon

(* HashExpandBuckets moves every item, and leaves the list as it is. *)
LEMMA ExpandKeeps ==
  ASSUME NEW h, Chained(h), h.num_items \in Nat \ {0}, NEW e, e = HashExpandBuckets(h)
  PROVE  Chained(e) /\ Stored(e) = Stored(h) /\ SameOrder(e, h) /\ Within(e) /\ e.ideal_chain_maxlen \in Nat
<1> DEFINE n == h.num_buckets
           empty == Doubled(h)
           upTo(b) == {k \in Stored(h) : BucketOf(h, k) < b}
<1>1. BucketsType(h) /\ n \in Nat
  BY DEF Chained, BucketsType
<1>2. PICK f : /\ f = [b \in 0 .. n |-> IF b = 0 THEN empty ELSE RehashChain(f[b - 1], BucketChain(h, b - 1))]
               /\ LET full == f[n]
                      ineff == IF full.nonideal_items > full.num_items \div 2 THEN full.ineff_expands + 1 ELSE 0
                  IN  e = [full EXCEPT !.ineff_expands = ineff, !.noexpand = @ \/ ineff > 1]
  BY <1>1, ExpandDef
<1>0. f = [b \in 0 .. n |-> IF b = 0 THEN empty ELSE RehashChain(f[b - 1], BucketChain(h, b - 1))]
  BY <1>2
<1>3. \A k \in Stored(h) : BucketOf(h, k) \in 0 .. n - 1
  BY <1>1, BucketOfType DEF Stored
<1>4. Filled(empty, empty, {}) /\ SameOrder(empty, h)
  BY <1>1, DoubledFilled
<1> DEFINE T == {b \in Nat : b <= n => Filled(f[b], empty, upTo(b))}
<1>5. 0 \in T
  <2>1. upTo(0) = {}
    BY <1>1, <1>3
  <2>2. f[0] = empty
    BY <1>1, <1>0
  <2>3. QED
    BY <1>4, <2>1, <2>2
<1>6. ASSUME NEW b \in Nat, b \in T PROVE b + 1 \in T
  <2>1. SUFFICES ASSUME b + 1 <= n PROVE Filled(f[b + 1], empty, upTo(b + 1))
    OBVIOUS
  <2>2. b \in 0 .. n - 1 /\ b <= n /\ b + 1 \in 0 .. n /\ b + 1 # 0 /\ b + 1 - 1 = b
    BY <1>1, <2>1
  <2>3. Filled(f[b], empty, upTo(b))
    BY <1>6, <2>2
  <2>4. f[b + 1] = RehashChain(f[b], BucketChain(h, b))
    BY <1>0, <2>2
  <2>5. /\ BucketChain(h, b) \in Seq(Keys)
        /\ \A i, j \in 1 .. Len(BucketChain(h, b)) : BucketChain(h, b)[i] = BucketChain(h, b)[j] => i = j
    BY <2>2 DEF Chained, BucketInv, IsList
  <2>6. \A k : k \in Items(BucketChain(h, b)) <=> k \in Stored(h) /\ BucketOf(h, k) = b
    BY <2>2, StoredIn
  <2>7. Items(BucketChain(h, b)) \cap upTo(b) = {}
    BY <2>6
  <2>8. upTo(b) \cup Items(BucketChain(h, b)) = upTo(b + 1)
    <3>1. \A k \in Stored(h) : BucketOf(h, k) < b + 1 <=> BucketOf(h, k) < b \/ BucketOf(h, k) = b
      BY <1>3, <2>2
    <3>2. QED
      BY <2>6, <3>1
  <2> HIDE DEF upTo, empty
  <2>9. Filled(RehashChain(f[b], BucketChain(h, b)), empty, upTo(b) \cup Items(BucketChain(h, b)))
    BY <2>3, <2>5, <2>7, RehashChainFilled
  <2>10. QED
    BY <2>4, <2>8, <2>9
<1> HIDE DEF T
<1>7. n \in T
  BY <1>1, <1>5, <1>6, Induct
<1>8. upTo(n) = Stored(h)
  BY <1>1, <1>3
<1> DEFINE full == f[n]
           ineff == IF full.nonideal_items > full.num_items \div 2 THEN full.ineff_expands + 1 ELSE 0
<1> HIDE DEF upTo, empty
<1>9. Filled(full, empty, Stored(h))
  BY <1>1, <1>7, <1>8 DEF T
<1>10. e = [full EXCEPT !.ineff_expands = ineff, !.noexpand = @ \/ ineff > 1]
  BY <1>2
<1> HIDE DEF full, ineff
<1>11. Chained(full) /\ Stored(full) = Stored(h) /\ SameList(full, empty) /\ Within(full)
       /\ full.ideal_chain_maxlen \in Nat /\ BucketsType(full)
  BY <1>9 DEF Filled, Chained
<1>12. DOMAIN full = Fields
  BY <1>11 DEF BucketsType
<1>13. /\ DOMAIN e = Fields /\ SameOrder(e, full) /\ e.num_buckets = full.num_buckets /\ e.buckets = full.buckets
       /\ e.hh_prev = full.hh_prev /\ e.hh_next = full.hh_next /\ e.ideal_chain_maxlen = full.ideal_chain_maxlen
  BY <1>10, <1>12 DEF Fields, SameOrder
<1>14. BucketsType(e)
  BY <1>11, <1>13 DEF BucketsType, SameOrder
<1>15. Chained(e) /\ Stored(e) = Stored(h)
  BY <1>11, <1>13, <1>14, ChainedFrame DEF SameOrder
<1>16. SameOrder(e, h)
  BY <1>4, <1>11, <1>13 DEF SameOrder, SameList
<1>17. Within(e)
  BY <1>11, <1>13 DEF Within
<1>18. QED
  BY <1>11, <1>13, <1>15, <1>16, <1>17

-----------------------------------------------------------------------------
(* HashAdd and HashDelete. *)

(* The list of all items: it holds S. *)
Listed(h, S) ==
  LET s == Chain(h.head, h.next) IN
  /\ IsList(s, h.head, h.next) /\ Backwards(s, h.prev)
  /\ Len(s) # 0 /\ h.tail = s[Len(s)]
  /\ h.num_items = Len(s) /\ Items(s) = S
  /\ h.prev \in Links /\ h.next \in Links

Table(h) ==
  /\ Chained(h)
  /\ Listed(h, Stored(h))
  /\ h.ideal_chain_maxlen \in Nat
  /\ ChainsBounded(h)

(* The inductive invariant of the table. *)
Sound(h) == h.hashv \in [Keys -> Nat] /\ (h.head # NULL => Table(h))

Contents(h) == IF h.head = NULL THEN {} ELSE Stored(h)

(* To show Listed it is enough to name the list. *)
LEMMA ListedBy ==
  ASSUME NEW h, NEW S, NEW s, IsList(s, h.head, h.next), Backwards(s, h.prev), Len(s) # 0,
         h.tail = s[Len(s)], h.num_items = Len(s), Items(s) = S, h.prev \in Links, h.next \in Links
  PROVE  Listed(h, S) /\ h.head # NULL
<1>1. Chain(h.head, h.next) = s
  BY ChainIsList
<1>2. Len(s) \in Nat /\ s \in Seq(Keys) /\ h.head = s[1]
  BY LenProperties DEF IsList
<1>3. s[1] \in Keys
  BY <1>2, ElementOfSeq
<1>4. QED
  BY <1>1, <1>2, <1>3, KeysType DEF Listed

LEMMA ListedFrame ==
  ASSUME NEW h, NEW S, Listed(h, S), NEW h2, SameOrder(h2, h)
  PROVE  Listed(h2, S)
  BY DEF Listed, SameOrder

LEMMA ListedItems ==
  ASSUME NEW h, NEW S, Listed(h, S)
  PROVE  h.num_items \in Nat \ {0} /\ h.head # NULL
<1> DEFINE s == Chain(h.head, h.next)
<1>1. IsList(s, h.head, h.next) /\ Len(s) # 0 /\ h.num_items = Len(s)
  BY DEF Listed
<1> HIDE DEF s
<1>2. Len(s) \in Nat /\ s \in Seq(Keys) /\ h.head = s[1]
  BY <1>1, LenProperties DEF IsList
<1>3. s[1] \in Keys
  BY <1>1, <1>2, ElementOfSeq
<1>4. QED
  BY <1>1, <1>2, <1>3, KeysType

LEMMA AddToBktTable ==
  ASSUME NEW g, Chained(g), NEW k \in Keys, k \notin Stored(g), Listed(g, Stored(g) \cup {k}),
         g.ideal_chain_maxlen \in Nat, ChainsBounded(g), NEW a, a = HashAddToBkt(g, k)
  PROVE  Table(a) /\ Stored(a) = Stored(g) \cup {k} /\ SameOrder(a, g)
<1> DEFINE p == Push(g, k)
           c == BucketOf(g, k)
           S == Stored(g) \cup {k}
           full == p.buckets[c].count >= (p.buckets[c].expand_mult + 1) * HASH_BKT_CAPACITY_THRESH
<1>1. Chained(p) /\ Stored(p) = S
  BY PushChained
<1>2. BucketsType(g) /\ BucketsType(p)
  BY <1>1 DEF Chained
<1>3. SameList(p, g) /\ c \in 0 .. g.num_buckets - 1
      /\ \A b \in 0 .. g.num_buckets - 1 : b # c => p.buckets[b] = g.buckets[b]
  BY <1>2, PushFields, BucketOfType
<1>4. SameOrder(p, g) /\ Listed(p, S)
  BY <1>3, ListedFrame DEF SameOrder, SameList
<1>5. a = IF full /\ ~p.noexpand THEN HashExpandBuckets(p) ELSE p
  BY DEF HashAddToBkt
<1> HIDE DEF p
<1>6. CASE full /\ ~p.noexpand
  <2>1. a = HashExpandBuckets(p)
    BY <1>5, <1>6
  <2>2. p.num_items \in Nat \ {0}
    BY <1>4, ListedItems
  <2>3. Chained(a) /\ Stored(a) = Stored(p) /\ SameOrder(a, p) /\ Within(a) /\ a.ideal_chain_maxlen \in Nat
    BY <1>1, <2>1, <2>2, ExpandKeeps
  <2>4. Listed(a, S)
    BY <1>4, <2>3, ListedFrame
  <2>5. ChainsBounded(a)
    BY <2>3 DEF ChainsBounded, Within
  <2>6. QED
    BY <1>1, <1>4, <2>3, <2>4, <2>5 DEF Table, SameOrder
<1>7. CASE ~(full /\ ~p.noexpand)
  <2>1. a = p
    BY <1>5, <1>7
  <2>2. ASSUME ~p.noexpand, NEW b \in 0 .. p.num_buckets - 1
        PROVE  \/ p.buckets[b].count < (p.buckets[b].expand_mult + 1) * HASH_BKT_CAPACITY_THRESH
               \/ p.buckets[b].count <= (p.buckets[b].expand_mult + 1) * p.ideal_chain_maxlen
    <3>1. CASE b = c
      <4>1. p.buckets[c].count \in Nat /\ p.buckets[c].expand_mult \in Nat /\ HASH_BKT_CAPACITY_THRESH \in Nat
        BY <1>2, <2>2, <3>1, UtHashAssumption DEF BucketsType, Bucket
      <4>2. ~full
        BY <1>7, <2>2
      <4>3. QED
        BY <3>1, <4>1, <4>2
    <3>2. CASE b # c
      <4>1. b \in 0 .. g.num_buckets - 1 /\ ~g.noexpand /\ g.head # NULL /\ p.buckets[b] = g.buckets[b]
        BY <1>3, <2>2, <3>2, ListedItems DEF SameList
      <4>2. g.ideal_chain_maxlen = p.ideal_chain_maxlen
        BY <1>3 DEF SameList
      <4>3. QED
        BY <4>1, <4>2 DEF ChainsBounded
    <3>3. QED
      BY <3>1, <3>2
  <2>3. ChainsBounded(p)
    BY <2>2 DEF ChainsBounded
  <2>4. p.ideal_chain_maxlen \in Nat
    BY <1>3 DEF SameList
  <2>5. QED
    BY <1>1, <1>4, <2>1, <2>3, <2>4 DEF Table
<1>8. QED
  BY <1>6, <1>7

LEMMA MakeTableSound ==
  ASSUME NEW h, h.hashv \in [Keys -> Nat], NEW k \in Keys,
         NEW g, g = [HashMakeTable(h, k) EXCEPT !.num_items = @ + 1]
  PROVE  /\ Chained(g) /\ Stored(g) = {} /\ Listed(g, {k}) /\ g.ideal_chain_maxlen \in Nat
         /\ ChainsBounded(g) /\ g.hashv = h.hashv
<1> DEFINE n == HASH_INITIAL_NUM_BUCKETS
<1>1. /\ DOMAIN g = Fields /\ g.hashv = h.hashv /\ g.head = k /\ g.tail = k /\ g.num_items = 0 + 1
      /\ g.num_buckets = n /\ g.buckets = [b \in 0 .. n - 1 |-> NoBucket] /\ g.ideal_chain_maxlen = 0
      /\ g.prev = NoLinks /\ g.next = NoLinks /\ g.hh_prev = NoLinks /\ g.hh_next = NoLinks
  BY DEF HashMakeTable, NoTable, Fields
<1>2. n \in Nat \ {0} /\ HASH_BKT_CAPACITY_THRESH \in Nat \ {0}
  BY UtHashAssumption
<1>3. NoBucket \in Bucket /\ NoBucket.count = 0 /\ NoBucket.expand_mult = 0
  BY DEF NoBucket, Bucket, NULLable
<1>4. NoLinks \in Links /\ NoLinks[k] = NULL
  BY DEF NoLinks, Links, NULLable
<1>5. g.buckets \in [0 .. n - 1 -> Bucket]
  BY <1>1, <1>3
<1>6. BucketsType(g)
  BY <1>1, <1>2, <1>4, <1>5 DEF BucketsType
<1>7. Chained(g) /\ Stored(g) = {}
  BY <1>1, <1>6, EmptyChained
<1>8. ChainsBounded(g)
  BY <1>1, <1>2, <1>3 DEF ChainsBounded
<1>9. Listed(g, {k})
  <2> DEFINE s == <<k>>
  <2>1. s \in Seq(Keys) /\ Len(s) = 1 /\ s[1] = k /\ DOMAIN s = 1 .. 1
    OBVIOUS
  <2> HIDE DEF s
  <2>2. IsList(s, g.head, g.next)
    BY <1>1, <1>4, <2>1 DEF IsList
  <2>3. Backwards(s, g.prev)
    BY <1>1, <1>4, <2>1 DEF Backwards
  <2>4. Items(s) = {k}
    BY <2>1 DEF Items
  <2>5. /\ Len(s) # 0 /\ g.tail = s[Len(s)] /\ g.num_items = Len(s)
        /\ g.prev \in Links /\ g.next \in Links
    BY <1>1, <1>4, <2>1
  <2>6. QED
    BY <2>2, <2>3, <2>4, <2>5, ListedBy
<1>10. QED
  BY <1>1, <1>7, <1>8, <1>9

LEMMA AppendSound ==
  ASSUME NEW h, Table(h), NEW k \in Keys, k \notin Stored(h),
         NEW g, g = [HashAppendList(h, k) EXCEPT !.num_items = @ + 1]
  PROVE  /\ Chained(g) /\ Stored(g) = Stored(h) /\ Listed(g, Stored(h) \cup {k})
         /\ g.ideal_chain_maxlen \in Nat /\ ChainsBounded(g) /\ g.hashv = h.hashv
<1> DEFINE s == Chain(h.head, h.next)
           mid == [h.next EXCEPT ![k] = NULL]
<1>1. /\ IsList(s, h.head, h.next) /\ Backwards(s, h.prev)
      /\ Len(s) # 0 /\ h.tail = s[Len(s)]
      /\ h.num_items = Len(s) /\ Items(s) = Stored(h)
      /\ h.prev \in Links /\ h.next \in Links
  BY DEF Table, Listed
<1> HIDE DEF s
<1>2. BucketsType(h) /\ DOMAIN h = Fields
  BY DEF Table, Chained, BucketsType
<1>3. /\ DOMAIN g = Fields /\ g.hashv = h.hashv /\ g.head = h.head /\ g.tail = k /\ g.num_items = h.num_items + 1
      /\ g.num_buckets = h.num_buckets /\ g.buckets = h.buckets /\ g.ideal_chain_maxlen = h.ideal_chain_maxlen
      /\ g.hh_prev = h.hh_prev /\ g.hh_next = h.hh_next /\ g.noexpand = h.noexpand
  BY <1>2 DEF HashAppendList, Fields
<1>4. g.next = Link(mid, h.tail, k)
  BY <1>2 DEF HashAppendList, Fields
<1>5. g.prev = [h.prev EXCEPT ![k] = h.tail]
  BY <1>2 DEF HashAppendList, Fields
<1>6. mid \in Links /\ mid[k] = NULL /\ \A j \in Keys \ {k} : mid[j] = h.next[j]
  BY <1>1 DEF Links, NULLable
<1> HIDE DEF mid
<1>7. s \in Seq(Keys) /\ Len(s) \in Nat /\ \A i \in 1 .. Len(s) : s[i] \in Keys /\ s[i] \in Items(s)
  BY <1>1, ListItems, LenProperties, ElementOfSeq DEF IsList
<1>8. Len(s) \in 1 .. Len(s)
  BY <1>1, <1>7
<1>9. h.tail \in Keys /\ h.tail # k /\ k \notin Items(s)
  BY <1>1, <1>7, <1>8
<1>10. h.tail \in NULLable /\ k \in NULLable
  BY <1>9 DEF NULLable
<1>11. g.next \in Links /\ \A j \in Keys : g.next[j] = IF j = h.tail THEN k ELSE mid[j]
  BY <1>4, <1>6, <1>10, LinkType
<1>12. g.prev \in Links /\ g.prev[k] = h.tail /\ \A j \in Keys \ {k} : g.prev[j] = h.prev[j]
  BY <1>1, <1>5, <1>10 DEF Links
<1>13. g.next[k] = NULL /\ g.next[s[Len(s)]] = k
  BY <1>1, <1>6, <1>9, <1>11
<1>14. ASSUME NEW i \in 1 .. Len(s) - 1 PROVE g.next[s[i]] = h.next[s[i]]
  <2>1. i \in 1 .. Len(s) /\ i # Len(s)
    BY <1>7
  <2>2. s[i] # h.tail
    BY <1>1, <1>8, <2>1 DEF IsList
  <2>3. s[i] # k
    BY <1>7, <1>9, <2>1
  <2>4. QED
    BY <1>6, <1>7, <1>11, <2>1, <2>2, <2>3
<1>15. IsList(Append(s, k), g.head, g.next) /\ Items(Append(s, k)) = Items(s) \cup {k}
  BY <1>1, <1>3, <1>9, <1>13, <1>14, ListAppend
<1>16. Backwards(Append(s, k), g.prev)
  <2>1. \A i \in 1 .. Len(s) : g.prev[s[i]] = h.prev[s[i]]
    BY <1>7, <1>9, <1>12
  <2>2. QED
    BY <1>1, <1>7, <1>12, <2>1, BackAppend
<1>17. Len(Append(s, k)) = Len(s) + 1 /\ Append(s, k)[Len(s) + 1] = k
  BY <1>7, AppendProperties
<1>18. Listed(g, Stored(h) \cup {k})
  <2>1. Len(Append(s, k)) # 0
    BY <1>7, <1>17
  <2>2. g.tail = Append(s, k)[Len(Append(s, k))] /\ g.num_items = Len(Append(s, k))
        /\ Items(Append(s, k)) = Stored(h) \cup {k}
    BY <1>1, <1>3, <1>15, <1>17
  <2>3. QED
    BY <1>11, <1>12, <1>15, <1>16, <2>1, <2>2, ListedBy
<1>19. BucketsType(g)
  BY <1>2, <1>3 DEF BucketsType
<1>20. Chained(g) /\ Stored(g) = Stored(h)
  BY <1>3, <1>19, ChainedFrame DEF Table
<1>21. h.head # NULL
  BY ListedItems DEF Table
<1>22. ChainsBounded(g)
  BY <1>3, <1>21 DEF ChainsBounded, Table
<1>23. QED
  BY <1>3, <1>18, <1>20, <1>22 DEF Table

(* HASH_ADD keeps the table sound, and the item is in it. *)
LEMMA AddSound ==
  ASSUME NEW h, Sound(h), NEW k \in Keys, k \notin Contents(h)
  PROVE  /\ Sound(HashAdd(h, k)) /\ Contents(HashAdd(h, k)) = Contents(h) \cup {k}
         /\ HashAdd(h, k).hashv = h.hashv
<1> DEFINE listed == IF h.head = NULL THEN HashMakeTable(h, k) ELSE HashAppendList(h, k)
           g == [listed EXCEPT !.num_items = @ + 1]
           a == HashAddToBkt(g, k)
<1>1. HashAdd(h, k) = a
  BY DEF HashAdd
<1>2. /\ Chained(g) /\ Stored(g) = Contents(h) /\ Listed(g, Contents(h) \cup {k})
      /\ g.ideal_chain_maxlen \in Nat /\ ChainsBounded(g) /\ g.hashv = h.hashv
  <2>1. CASE h.head = NULL
    <3>1. g = [HashMakeTable(h, k) EXCEPT !.num_items = @ + 1]
      BY <2>1
    <3>2. h.hashv \in [Keys -> Nat] /\ Contents(h) = {}
      BY <2>1 DEF Sound, Contents
    <3> HIDE DEF g
    <3>3. /\ Chained(g) /\ Stored(g) = {} /\ Listed(g, {k}) /\ g.ideal_chain_maxlen \in Nat
          /\ ChainsBounded(g) /\ g.hashv = h.hashv
      BY <3>1, <3>2, MakeTableSound
    <3>4. Contents(h) \cup {k} = {k}
      BY <3>2
    <3>5. QED
      BY <3>2, <3>3, <3>4
  <2>2. CASE h.head # NULL
    <3>1. g = [HashAppendList(h, k) EXCEPT !.num_items = @ + 1]
      BY <2>2
    <3>2. Table(h) /\ Contents(h) = Stored(h)
      BY <2>2 DEF Sound, Contents
    <3> HIDE DEF g
    <3>3. QED
      BY <3>1, <3>2, AppendSound
  <2>3. QED
    BY <2>1, <2>2
<1> HIDE DEF g
<1>3. Table(a) /\ Stored(a) = Contents(h) \cup {k} /\ SameOrder(a, g)
  BY <1>2, AddToBktTable
<1> HIDE DEF a
<1>4. a.hashv = h.hashv /\ a.head # NULL
  BY <1>2, <1>3, ListedItems DEF SameOrder, Table
<1>5. QED
  BY <1>1, <1>3, <1>4 DEF Sound, Contents

(* HASH_DELETE_HH for the list of all items. *)
Unlisted(h, k) ==
  [h EXCEPT !.tail = IF @ = k THEN h.prev[k] ELSE @,
            !.head = IF h.prev[k] = NULL THEN h.next[k] ELSE @,
            !.next = Link(@, h.prev[k], h.next[k]),
            !.prev = Link(@, h.next[k], h.prev[k]),
            !.num_items = @ - 1]

LEMMA UnlistedSound ==
  ASSUME NEW h, Table(h), NEW k \in Stored(h), ~(h.prev[k] = NULL /\ h.next[k] = NULL),
         NEW g, g = Unlisted(h, k)
  PROVE  /\ Chained(g) /\ Stored(g) = Stored(h) /\ Listed(g, Stored(h) \ {k})
         /\ g.ideal_chain_maxlen = h.ideal_chain_maxlen /\ g.num_buckets = h.num_buckets
         /\ g.buckets = h.buckets /\ g.noexpand = h.noexpand /\ g.hashv = h.hashv
<1> DEFINE s == Chain(h.head, h.next)
<1>1. /\ IsList(s, h.head, h.next) /\ Backwards(s, h.prev)
      /\ Len(s) # 0 /\ h.tail = s[Len(s)]
      /\ h.num_items = Len(s) /\ Items(s) = Stored(h)
      /\ h.prev \in Links /\ h.next \in Links
  BY DEF Table, Listed
<1> HIDE DEF s
<1>2. BucketsType(h) /\ DOMAIN h = Fields /\ k \in Keys
  BY DEF Table, Chained, BucketsType, Stored
<1>3. /\ DOMAIN g = Fields /\ g.hashv = h.hashv /\ g.num_items = h.num_items - 1
      /\ g.num_buckets = h.num_buckets /\ g.buckets = h.buckets /\ g.ideal_chain_maxlen = h.ideal_chain_maxlen
      /\ g.hh_prev = h.hh_prev /\ g.hh_next = h.hh_next /\ g.noexpand = h.noexpand
  BY <1>2 DEF Unlisted, Fields
<1>4. /\ g.tail = IF h.tail = k THEN h.prev[k] ELSE h.tail
      /\ g.head = IF h.prev[k] = NULL THEN h.next[k] ELSE h.head
  BY <1>2 DEF Unlisted, Fields
<1>5. /\ g.next = Link(h.next, h.prev[k], h.next[k])
      /\ g.prev = Link(h.prev, h.next[k], h.prev[k])
  BY <1>2 DEF Unlisted, Fields
<1>6. h.prev[k] \in NULLable /\ h.next[k] \in NULLable
  BY <1>1, <1>2 DEF Links
<1>7. g.next \in Links /\ \A j \in Keys : g.next[j] = IF j = h.prev[k] THEN h.next[k] ELSE h.next[j]
  BY <1>1, <1>5, <1>6, LinkType
<1>8. g.prev \in Links /\ \A j \in Keys : g.prev[j] = IF j = h.next[k] THEN h.prev[k] ELSE h.prev[j]
  BY <1>1, <1>5, <1>6, LinkType
<1>9. PICK m \in 1 .. Len(s) : s[m] = k
  BY <1>1, Neighbours
<1>10. s \in Seq(Keys) /\ Len(s) \in Nat /\ DOMAIN s = 1 .. Len(s) /\ \A i \in 1 .. Len(s) : s[i] \in Keys
  BY <1>1, LenProperties, ElementOfSeq DEF IsList
<1>11. \A i, j \in 1 .. Len(s) : s[i] = s[j] => i = j
  BY <1>1 DEF IsList
<1>12. h.prev[k] = (IF m = 1 THEN NULL ELSE s[m - 1]) /\ h.next[k] = (IF m = Len(s) THEN NULL ELSE s[m + 1])
  BY <1>1, <1>9, <1>10 DEF IsList, Backwards
<1>13. h.head = s[1] /\ 1 \in 1 .. Len(s) /\ Len(s) \in 1 .. Len(s)
  <2>1. Len(s) \in Nat /\ Len(s) # 0
    BY <1>1, <1>10
  <2>2. h.head = IF Len(s) = 0 THEN NULL ELSE s[1]
    BY <1>1 DEF IsList
  <2>3. QED
    BY <2>1, <2>2
<1>14. h.head = k <=> m = 1
  BY <1>9, <1>11, <1>13
<1>15. h.prev[k] = NULL <=> m = 1
  <2>1. m # 1 => m - 1 \in 1 .. Len(s)
    BY <1>10
  <2>2. QED
    BY <1>10, <1>12, <2>1, KeysType
<1>16. g.head = IF h.head = s[m] THEN h.next[s[m]] ELSE h.head
  BY <1>4, <1>9, <1>14, <1>15
<1> DEFINE t == Without(s, m)
<1>17. IsList(t, g.head, g.next) /\ Items(t) = Items(s) \ {k}
  BY <1>1, <1>7, <1>9, <1>16, ListDelete
<1>18. Backwards(t, g.prev)
  BY <1>1, <1>8, <1>9, BackDelete
<1>19. /\ Len(t) = Len(s) - 1
       /\ \A i \in 1 .. Len(s) - 1 : t[i] = IF i < m THEN s[i] ELSE s[i + 1]
  BY <1>10, WithoutSeq
<1>20. Len(s) # 1
  <2>1. Len(s) = 1 => m = 1 /\ m = Len(s)
    BY <1>10
  <2>2. QED
    BY <1>12, <2>1
<1> HIDE DEF t
<1>21. Len(t) # 0 /\ g.tail = t[Len(t)]
  <2>1. Len(s) - 1 \in 1 .. Len(s) - 1 /\ Len(t) = Len(s) - 1 /\ Len(t) # 0
    BY <1>10, <1>13, <1>19, <1>20
  <2>2. h.tail = k <=> m = Len(s)
    BY <1>1, <1>9, <1>11, <1>13
  <2>3. CASE m = Len(s)
    <3>1. m # 1 /\ Len(s) - 1 < m /\ m - 1 = Len(s) - 1
      BY <1>10, <1>20, <2>3
    <3>2. g.tail = s[Len(s) - 1]
      BY <1>4, <1>12, <2>2, <2>3, <3>1
    <3>3. t[Len(s) - 1] = s[Len(s) - 1]
      BY <1>19, <2>1, <3>1
    <3>4. QED
      BY <2>1, <3>2, <3>3
  <2>4. CASE m # Len(s)
    <3>1. ~(Len(s) - 1 < m) /\ Len(s) - 1 + 1 = Len(s)
      BY <1>10, <2>4
    <3>2. t[Len(s) - 1] = s[Len(s)]
      BY <1>19, <2>1, <3>1
    <3>3. QED
      BY <1>1, <1>4, <2>1, <2>2, <2>4, <3>2
  <2>5. QED
    BY <2>3, <2>4
<1>22. Listed(g, Stored(h) \ {k})
  <2>1. Items(t) = Stored(h) \ {k} /\ g.num_items = Len(t) /\ g.prev \in Links /\ g.next \in Links
    BY <1>1, <1>3, <1>7, <1>8, <1>17, <1>19
  <2>2. QED
    BY <1>17, <1>18, <1>21, <2>1, ListedBy
<1>23. BucketsType(g)
  BY <1>2, <1>3 DEF BucketsType
<1>24. Chained(g) /\ Stored(g) = Stored(h)
  BY <1>3, <1>23, ChainedFrame DEF Table
<1>25. QED
  BY <1>3, <1>22, <1>24

(* What calloc gives next: no list leads through an item that is gone. *)
LEMMA FreeItemSound ==
  ASSUME NEW h, Table(h), NEW k \in Keys, k \notin Stored(h)
  PROVE  Sound(FreeItem(h, k)) /\ Contents(FreeItem(h, k)) = Stored(h) /\ FreeItem(h, k).hashv = h.hashv
<1> DEFINE g == FreeItem(h, k)
           s == Chain(h.head, h.next)
<1>1. BucketsType(h) /\ DOMAIN h = Fields /\ h.hashv \in [Keys -> Nat]
  BY DEF Table, Chained, BucketsType
<1>2. /\ IsList(s, h.head, h.next) /\ Backwards(s, h.prev)
      /\ Len(s) # 0 /\ h.tail = s[Len(s)]
      /\ h.num_items = Len(s) /\ Items(s) = Stored(h)
      /\ h.prev \in Links /\ h.next \in Links /\ s \in Seq(Keys)
  BY DEF Table, Listed, IsList
<1> HIDE DEF s
<1>3. /\ DOMAIN g = Fields /\ g.buckets = h.buckets
      /\ g.hashv = h.hashv /\ g.head = h.head /\ g.tail = h.tail /\ g.num_items = h.num_items
      /\ g.num_buckets = h.num_buckets /\ g.ideal_chain_maxlen = h.ideal_chain_maxlen /\ g.noexpand = h.noexpand
  BY <1>1 DEF FreeItem, Fields
<1>4. /\ g.prev = [h.prev EXCEPT ![k] = NULL] /\ g.next = [h.next EXCEPT ![k] = NULL]
      /\ g.hh_prev = [h.hh_prev EXCEPT ![k] = NULL] /\ g.hh_next = [h.hh_next EXCEPT ![k] = NULL]
  BY <1>1 DEF FreeItem, Fields
<1>5. h.hh_prev \in Links /\ h.hh_next \in Links /\ NULL \in NULLable
  BY <1>1 DEF BucketsType, NULLable
<1> HIDE DEF g
<1>6. /\ g.prev \in Links /\ g.next \in Links /\ g.hh_prev \in Links /\ g.hh_next \in Links
      /\ \A j \in Stored(h) : /\ g.prev[j] = h.prev[j] /\ g.next[j] = h.next[j]
                              /\ g.hh_prev[j] = h.hh_prev[j] /\ g.hh_next[j] = h.hh_next[j]
  <2>1. Stored(h) \subseteq Keys
    BY DEF Stored
  <2>2. ASSUME NEW f \in Links
        PROVE  [f EXCEPT ![k] = NULL] \in Links /\ \A j \in Stored(h) : [f EXCEPT ![k] = NULL][j] = f[j]
    BY <1>5, <2>1 DEF Links
  <2>3. QED
    BY <1>2, <1>4, <1>5, <2>2
<1>7. IsList(s, g.head, g.next)
  BY <1>2, <1>3, <1>6, ListFrame
<1>8. Backwards(s, g.prev)
  BY <1>2, <1>6, BackFrame
<1>9. Listed(g, Stored(h)) /\ g.head # NULL
  BY <1>2, <1>3, <1>6, <1>7, <1>8, ListedBy
<1>10. BucketsType(g)
  BY <1>1, <1>3, <1>6 DEF BucketsType
<1>11. Chained(g) /\ Stored(g) = Stored(h)
  BY <1>3, <1>6, <1>10, ChainedFrame DEF Table
<1>12. h.head # NULL
  BY ListedItems DEF Table
<1>13. ChainsBounded(g)
  BY <1>3, <1>12 DEF ChainsBounded, Table
<1>14. g.ideal_chain_maxlen \in Nat
  BY <1>3 DEF Table
<1>15. QED
  BY <1>1, <1>3, <1>9, <1>11, <1>13, <1>14 DEF Sound, Contents, Table, g

(* HASH_DELETE, and the free that follows, keep the table sound: one item less is in it. *)
LEMMA DeleteSound ==
  ASSUME NEW h, Sound(h), NEW k \in Contents(h)
  PROVE  /\ Sound(FreeItem(HashDelete(h, k), k)) /\ Contents(FreeItem(HashDelete(h, k), k)) = Contents(h) \ {k}
         /\ FreeItem(HashDelete(h, k), k).hashv = h.hashv
<1>1. Table(h) /\ Contents(h) = Stored(h) /\ k \in Stored(h) /\ k \in Keys /\ h.hashv \in [Keys -> Nat]
  BY DEF Sound, Contents, Stored
<1>2. CASE h.prev[k] = NULL /\ h.next[k] = NULL
  <2> DEFINE s == Chain(h.head, h.next)
             none == NoTable(h.hashv)
             g == FreeItem(none, k)
  <2>1. /\ IsList(s, h.head, h.next) /\ Backwards(s, h.prev) /\ Items(s) = Stored(h)
    BY <1>1 DEF Table, Listed
  <2> HIDE DEF s
  <2>2. PICK m \in 1 .. Len(s) : s[m] = k
    BY <1>1, <2>1, Neighbours
  <2>3. s \in Seq(Keys) /\ Len(s) \in Nat /\ DOMAIN s = 1 .. Len(s) /\ \A i \in 1 .. Len(s) : s[i] \in Keys
    BY <2>1, LenProperties, ElementOfSeq DEF IsList
  <2>4. (IF m = 1 THEN NULL ELSE s[m - 1]) = NULL /\ (IF m = Len(s) THEN NULL ELSE s[m + 1]) = NULL
    BY <1>2, <2>1, <2>2, <2>3 DEF IsList, Backwards
  <2>5. m = 1 /\ m = Len(s)
    <3>0. Len(s) \in Nat
      BY <2>3
    <3>1. m # 1 => m - 1 \in 1 .. Len(s)
      BY <3>0
    <3>2. m # Len(s) => m + 1 \in 1 .. Len(s)
      BY <3>0
    <3>3. QED
      BY <2>3, <2>4, <3>1, <3>2, KeysType
  <2>6. Stored(h) = {k}
    <3>1. Len(s) = 1 /\ s[1] = k
      BY <2>2, <2>5
    <3>2. DOMAIN s = 1 .. 1
      BY <2>3, <3>1
    <3>3. Items(s) = {s[1]}
      BY <3>2 DEF Items
    <3>4. QED
      BY <2>1, <3>1, <3>3
  <2>7. HashDelete(h, k) = none
    BY <1>2 DEF HashDelete
  <2>8. g.head = NULL /\ g.hashv = h.hashv
    BY DEF FreeItem, NoTable
  <2> HIDE DEF none, g
  <2>9. Sound(g) /\ Contents(g) = Contents(h) \ {k}
    BY <1>1, <2>6, <2>8 DEF Sound, Contents
  <2>10. QED
    BY <2>7, <2>8, <2>9 DEF g
<1>3. CASE ~(h.prev[k] = NULL /\ h.next[k] = NULL)
  <2> DEFINE g == Unlisted(h, k)
             d == HashDelInBkt(g, k)
  <2>1. /\ Chained(g) /\ Stored(g) = Stored(h) /\ Listed(g, Stored(h) \ {k})
        /\ g.ideal_chain_maxlen = h.ideal_chain_maxlen /\ g.num_buckets = h.num_buckets
        /\ g.buckets = h.buckets /\ g.noexpand = h.noexpand /\ g.hashv = h.hashv
    BY <1>1, <1>3, UnlistedSound
  <2>2. HashDelete(h, k) = d
    BY <1>3 DEF HashDelete, Unlisted
  <2> HIDE DEF g
  <2>3. /\ Chained(d) /\ Stored(d) = Stored(g) \ {k}
        /\ SameList(d, g) /\ d.nonideal_items = g.nonideal_items
        /\ \A b \in 0 .. g.num_buckets - 1 : /\ d.buckets[b].count <= g.buckets[b].count
                                             /\ d.buckets[b].expand_mult = g.buckets[b].expand_mult
    BY <1>1, <2>1, DelChained
  <2> HIDE DEF d
  <2>4. Listed(d, Stored(d))
    BY <2>1, <2>3, ListedFrame DEF SameOrder, SameList
  <2>5. BucketsType(h) /\ BucketsType(d) /\ d.num_buckets = h.num_buckets /\ d.ideal_chain_maxlen = h.ideal_chain_maxlen
        /\ d.noexpand = h.noexpand /\ h.head # NULL /\ h.ideal_chain_maxlen \in Nat /\ d.hashv = h.hashv
    BY <1>1, <2>1, <2>3, ListedItems DEF Table, Chained, SameList
  <2>6. ASSUME NEW b \in 0 .. h.num_buckets - 1, ~h.noexpand
        PROVE  \/ d.buckets[b].count < (d.buckets[b].expand_mult + 1) * HASH_BKT_CAPACITY_THRESH
               \/ d.buckets[b].count <= (d.buckets[b].expand_mult + 1) * d.ideal_chain_maxlen
    <3>1. d.buckets[b].count <= h.buckets[b].count /\ d.buckets[b].expand_mult = h.buckets[b].expand_mult
      BY <2>1, <2>3
    <3>2. h.buckets[b] \in Bucket /\ d.buckets[b] \in Bucket
      BY <2>5 DEF BucketsType
    <3>3. \/ h.buckets[b].count < (h.buckets[b].expand_mult + 1) * HASH_BKT_CAPACITY_THRESH
          \/ h.buckets[b].count <= (h.buckets[b].expand_mult + 1) * h.ideal_chain_maxlen
      BY <1>1, <2>5, <2>6 DEF Table, ChainsBounded
    <3> DEFINE x == (h.buckets[b].expand_mult + 1) * HASH_BKT_CAPACITY_THRESH
               y == (h.buckets[b].expand_mult + 1) * h.ideal_chain_maxlen
    <3>4. x \in Int /\ y \in Int /\ h.buckets[b].count \in Int /\ d.buckets[b].count \in Int
      BY <2>5, <3>2, UtHashAssumption DEF Bucket
    <3> HIDE DEF x, y
    <3>5. d.buckets[b].count < x \/ d.buckets[b].count <= y
      <4>1. h.buckets[b].count < x \/ h.buckets[b].count <= y
        BY <3>3 DEF x, y
      <4>2. QED
        BY <3>1, <3>4, <4>1
    <3>6. QED
      BY <2>5, <3>1, <3>5 DEF x, y
  <2>7. ChainsBounded(d)
    BY <2>5, <2>6 DEF ChainsBounded
  <2>8. Table(d)
    BY <2>3, <2>4, <2>5, <2>7 DEF Table
  <2>9. k \notin Stored(d)
    BY <2>3
  <2>10. Sound(FreeItem(d, k)) /\ Contents(FreeItem(d, k)) = Stored(d) /\ FreeItem(d, k).hashv = d.hashv
    BY <1>1, <2>8, <2>9, FreeItemSound
  <2>11. QED
    BY <1>1, <2>1, <2>2, <2>3, <2>5, <2>10
<1>4. QED
  BY <1>2, <1>3

-----------------------------------------------------------------------------
(* What the invariant says. *)

LEMMA FoundAreContents ==
  ASSUME NEW h
  PROVE  FoundKeys(h) = Contents(h)
  BY KeysType DEF FoundKeys, HashFind, Contents, Stored

LEMMA TotalSteps ==
  ASSUME NEW f, NEW n \in Nat
  PROVE  \E sum : /\ Total(f, n) = sum[n] /\ sum[0] = 0
                  /\ \A i \in 1 .. n : sum[i] = sum[i - 1] + f[i - 1]
<1> DEFINE is(sum, m) == sum = [i \in 0 .. m |-> IF i = 0 THEN 0 ELSE sum[i - 1] + f[i - 1]]
           T == {m \in Nat : \E sum : is(sum, m)}
<1>1. 0 \in T
  <2>1. is([i \in 0 .. 0 |-> 0], 0)
    OBVIOUS
  <2>2. QED
    BY <2>1
<1>2. ASSUME NEW m \in Nat, m \in T PROVE m + 1 \in T
  <2>1. PICK s : is(s, m)
    BY <1>2
  <2> DEFINE g == [i \in 0 .. m + 1 |-> IF i <= m THEN s[i] ELSE s[m] + f[m]]
  <2>2. ASSUME NEW i \in 0 .. m + 1
        PROVE  g[i] = IF i = 0 THEN 0 ELSE g[i - 1] + f[i - 1]
    <3>1. CASE i <= m
      <4>1. s[i] = IF i = 0 THEN 0 ELSE s[i - 1] + f[i - 1]
        BY <2>1, <3>1
      <4>2. i # 0 => g[i - 1] = s[i - 1]
        BY <3>1
      <4>3. QED
        BY <3>1, <4>1, <4>2
    <3>2. CASE i = m + 1
      <4>1. i - 1 = m /\ i # 0 /\ ~(i <= m) /\ m \in 0 .. m + 1 /\ m <= m
        BY <3>2
      <4>2. g[i - 1] = s[m] /\ g[i] = s[m] + f[m]
        BY <3>2, <4>1
      <4>3. QED
        BY <4>1, <4>2
    <3>3. QED
      BY <3>1, <3>2
  <2>3. g = [i \in 0 .. m + 1 |-> g[i]]
    OBVIOUS
  <2> HIDE DEF g
  <2>4. is(g, m + 1)
    BY <2>2, <2>3
  <2>5. QED
    BY <2>4
<1> HIDE DEF T
<1>3. n \in T
  BY <1>1, <1>2, Induct
<1>4. PICK s : is(s, n)
  BY <1>3 DEF T
<1> DEFINE sum == CHOOSE sum : is(sum, n)
<1>5. is(sum, n)
  BY <1>4, Zenon
<1>6. Total(f, n) = sum[n]
  BY DEF Total
<1> HIDE DEF sum
<1>7. sum[0] = 0 /\ \A i \in 1 .. n : sum[i] = sum[i - 1] + f[i - 1]
  BY <1>5
<1>8. QED
  BY <1>6, <1>7

(* The chains hold as many items as there are. *)
LEMMA ChainsTotal ==
  ASSUME NEW h, Chained(h)
  PROVE  Total([b \in 0 .. h.num_buckets - 1 |-> Len(BucketChain(h, b))], h.num_buckets) = Cardinality(Stored(h))
<1> DEFINE n == h.num_buckets
           f == [b \in 0 .. n - 1 |-> Len(BucketChain(h, b))]
           upTo(b) == {k \in Stored(h) : BucketOf(h, k) < b}
<1>1. BucketsType(h) /\ n \in Nat
  BY DEF Chained, BucketsType
<1>2. PICK sum : /\ Total(f, n) = sum[n] /\ sum[0] = 0
                 /\ \A i \in 1 .. n : sum[i] = sum[i - 1] + f[i - 1]
  BY <1>1, TotalSteps
<1>3. \A k \in Stored(h) : BucketOf(h, k) \in 0 .. n - 1
  BY <1>1, BucketOfType DEF Stored
<1>4. IsFiniteSet(Stored(h)) /\ Stored(h) \subseteq Keys
  <2>1. Stored(h) \subseteq Keys
    BY DEF Stored
  <2>2. QED
    BY <2>1, KeysType, FS_Subset
<1> DEFINE T == {b \in Nat : b <= n => sum[b] = Cardinality(upTo(b))}
<1>5. 0 \in T
  <2>1. upTo(0) = {}
    BY <1>1, <1>3
  <2>2. QED
    BY <1>2, <2>1, FS_EmptySet
<1>6. ASSUME NEW b \in Nat, b \in T PROVE b + 1 \in T
  <2>1. SUFFICES ASSUME b + 1 <= n PROVE sum[b + 1] = Cardinality(upTo(b + 1))
    OBVIOUS
  <2> DEFINE s == BucketChain(h, b)
  <2>2. b \in 0 .. n - 1 /\ b <= n /\ b + 1 \in 1 .. n /\ b + 1 - 1 = b
    BY <1>1, <2>1
  <2>3. sum[b + 1] = sum[b] + f[b]
    BY <1>2, <2>2
  <2>4. sum[b] = Cardinality(upTo(b)) /\ f[b] = Len(s)
    BY <1>6, <2>2
  <2>5. IsFiniteSet(Items(s)) /\ Cardinality(Items(s)) = Len(s)
    BY <2>2, ListItems DEF Chained, BucketInv
  <2>6. \A k : k \in Items(s) <=> k \in Stored(h) /\ BucketOf(h, k) = b
    BY <2>2, StoredIn
  <2>7. Items(s) \cap upTo(b) = {}
    BY <2>6
  <2>8. upTo(b) \cup Items(s) = upTo(b + 1)
    <3>1. \A k \in Stored(h) : BucketOf(h, k) < b + 1 <=> BucketOf(h, k) < b \/ BucketOf(h, k) = b
      BY <1>3, <2>2
    <3>2. QED
      BY <2>6, <3>1
  <2>9. IsFiniteSet(upTo(b))
    BY <1>4, FS_Subset
  <2> HIDE DEF upTo, s, f
  <2>10. Cardinality(upTo(b) \cup Items(s)) = Cardinality(upTo(b)) + Cardinality(Items(s))
    <3>1. Cardinality(upTo(b) \cup Items(s)) = Cardinality(upTo(b)) + Cardinality(Items(s)) - Cardinality(upTo(b) \cap Items(s))
      BY <2>5, <2>9, FS_Union
    <3>2. Cardinality(upTo(b) \cap Items(s)) = 0
      BY <2>7, FS_EmptySet
    <3>3. Cardinality(upTo(b)) \in Nat /\ Cardinality(Items(s)) \in Nat
      BY <2>5, <2>9, FS_CardinalityType
    <3>4. QED
      BY <3>1, <3>2, <3>3
  <2>11. QED
    BY <2>3, <2>4, <2>5, <2>8, <2>10
<1> HIDE DEF T
<1>7. n \in T
  BY <1>1, <1>5, <1>6, Induct
<1>8. upTo(n) = Stored(h)
  BY <1>1, <1>3
<1> HIDE DEF upTo, f
<1>9. Total(f, n) = Cardinality(Stored(h))
  BY <1>1, <1>2, <1>7, <1>8 DEF T
<1>10. QED
  BY <1>9 DEF f

(* What uthash checks of itself under HASH_DEBUG holds of a sound table. *)
LEMMA SoundChecks ==
  ASSUME NEW h, Sound(h)
  PROVE  HashFsck(h) /\ ChainsBounded(h)
<1>1. CASE h.head = NULL
  BY <1>1 DEF HashFsck, ChainsBounded
<1>2. CASE h.head # NULL
  <2> DEFINE chains == [b \in 0 .. h.num_buckets - 1 |-> BucketChain(h, b)]
             listed == Chain(h.head, h.next)
             lengths == [b \in DOMAIN chains |-> Len(chains[b])]
  <2>1. Table(h) /\ Chained(h)
    BY <1>2 DEF Sound, Table
  <2>2. \A b \in DOMAIN chains : Backwards(chains[b], h.hh_prev) /\ h.buckets[b].count = Len(chains[b])
    BY <2>1 DEF Chained, BucketInv
  <2>3. /\ IsList(listed, h.head, h.next) /\ Backwards(listed, h.prev)
        /\ h.num_items = Len(listed) /\ Items(listed) = Stored(h)
    BY <2>1 DEF Table, Listed
  <2>4. h.num_items = Cardinality(Stored(h))
    BY <2>3, ListItems
  <2>5. lengths = [b \in 0 .. h.num_buckets - 1 |-> Len(BucketChain(h, b))]
    OBVIOUS
  <2>6. h.num_items = Total(lengths, h.num_buckets)
    BY <2>1, <2>4, <2>5, ChainsTotal
  <2>7. HashFsck(h)
    BY <2>2, <2>3, <2>6 DEF HashFsck
  <2>8. QED
    BY <2>1, <2>7 DEF Table
<1>3. QED
  BY <1>1, <1>2

LEMMA NoTableSound ==
  ASSUME NEW hashv \in [Keys -> Nat]
  PROVE  Sound(NoTable(hashv)) /\ Contents(NoTable(hashv)) = {}
  BY DEF NoTable, Sound, Contents
=============================================================================
