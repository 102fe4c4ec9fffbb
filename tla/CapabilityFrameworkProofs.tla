---------------------- MODULE CapabilityFrameworkProofs ----------------------
(***************************************************************************)
(* Proofs that the two registries keep their types and their flags,        *)
(* lifecycles and indexes in agreement, for all providers, capabilities,   *)
(* names, policies and grants.                                             *)
(*                                                                         *)
(* RegistriesAgree is not inductive: it says nothing of the index entries  *)
(* of a disabled capability, which EnableCapability relies on (IndexInv).  *)
(*                                                                         *)
(* CalledIsBest rests on what sorting does: every candidate has a place,   *)
(* one place each, and one that goes before another has a lower one.       *)
(***************************************************************************)
EXTENDS CapabilityFramework, FiniteSetTheorems, SequenceTheorems, TLAPS

USE FrameworkAssumption

IndexInv == \A c \in ToSet(capabilities) : NameOf[c] \in ToSet(category[CategoryOf[c]])

\* What RegistriesAgree says apart from the index.
FlagInv ==
  /\ \A p \in ToSet(providers) : state[p] # "UNREGISTERED"
  /\ \A c \in ToSet(capabilities) :
       /\ NameOf[c] \in enabled <=> lifecycle[c] # "DISABLED"
       /\ c \in version

IInv == TypeOK /\ IndexInv /\ FlagInv

-----------------------------------------------------------------------------
(* Dicts. *)

\* Put keeps a dict a dict, and changes what is under the name of x only.
LEMMA PutKeepsDict ==
  ASSUME NEW S \in {Providers, Capabilities},
         NEW dict \in Seq(S), OneOfEachName(dict), NEW x \in S
  PROVE  /\ Put(dict, x) \in Seq(S)
         /\ OneOfEachName(Put(dict, x))
         /\ Keys(Put(dict, x)) = Keys(dict) \cup {NameOf[x]}
         /\ ToSet(Put(dict, x)) = {y \in ToSet(dict) : NameOf[y] # NameOf[x]} \cup {x}
<1>1. Len(dict) \in Nat /\ DOMAIN dict = 1 .. Len(dict) /\ \A k \in DOMAIN dict : dict[k] \in S
  OBVIOUS
<1>2. CASE NameOf[x] \in Keys(dict)
  <2>1. Put(dict, x) = [k \in DOMAIN dict |-> IF NameOf[dict[k]] = NameOf[x] THEN x ELSE dict[k]]
    BY <1>2 DEF Put
  <2>2. PICK j \in DOMAIN dict : NameOf[dict[j]] = NameOf[x]
    BY <1>2 DEF Keys
  <2>3. /\ DOMAIN Put(dict, x) = DOMAIN dict
        /\ \A k \in DOMAIN dict : Put(dict, x)[k] = IF k = j THEN x ELSE dict[k]
    BY <2>1, <2>2 DEF OneOfEachName
  <2>4. Put(dict, x) \in Seq(S)
    BY <1>1, <2>1, IsASeq
  <2>5. OneOfEachName(Put(dict, x))
    <3>1. \A k \in DOMAIN dict : NameOf[Put(dict, x)[k]] = NameOf[dict[k]]
      BY <2>2, <2>3
    <3> QED BY <2>3, <3>1 DEF OneOfEachName
  <2>6. Keys(Put(dict, x)) = Keys(dict) \cup {NameOf[x]}
    BY <1>2, <2>2, <2>3 DEF Keys
  <2>7. ToSet(Put(dict, x)) = {y \in ToSet(dict) : NameOf[y] # NameOf[x]} \cup {x}
    BY <2>2, <2>3 DEF ToSet, OneOfEachName
  <2> QED BY <2>4, <2>5, <2>6, <2>7
<1>3. CASE NameOf[x] \notin Keys(dict)
  <2>1. Put(dict, x) = Append(dict, x)
    BY <1>3 DEF Put
  <2>2. /\ DOMAIN Put(dict, x) = DOMAIN dict \cup {Len(dict) + 1}
        /\ Put(dict, x)[Len(dict) + 1] = x
        /\ \A k \in DOMAIN dict : Put(dict, x)[k] = dict[k]
        /\ Put(dict, x) \in Seq(S)
    BY <1>1, <2>1, AppendProperties
  <2>3. \A k \in DOMAIN dict : NameOf[dict[k]] # NameOf[x]
    BY <1>3 DEF Keys
  <2>4. OneOfEachName(Put(dict, x))
    BY <2>2, <2>3 DEF OneOfEachName
  <2>5. Keys(Put(dict, x)) = Keys(dict) \cup {NameOf[x]}
    BY <2>2 DEF Keys
  <2>6. ToSet(Put(dict, x)) = {y \in ToSet(dict) : NameOf[y] # NameOf[x]} \cup {x}
    BY <2>2, <2>3 DEF ToSet
  <2> QED BY <2>2, <2>4, <2>5, <2>6
<1> QED BY <1>2, <1>3

\* Pop keeps a dict a dict, and takes out what is under the name only.
LEMMA PopKeepsDict ==
  ASSUME NEW S, NEW dict \in Seq(S), OneOfEachName(dict), NEW n \in Keys(dict)
  PROVE  /\ Pop(dict, n) \in Seq(S)
         /\ OneOfEachName(Pop(dict, n))
         /\ ToSet(Pop(dict, n)) = {y \in ToSet(dict) : NameOf[y] # n}
         /\ Keys(Pop(dict, n)) = Keys(dict) \ {n}
<1> DEFINE i == CHOOSE k \in DOMAIN dict : NameOf[dict[k]] = n
<1>1. /\ Len(dict) \in Nat /\ DOMAIN dict = 1 .. Len(dict)
      /\ i \in 1 .. Len(dict) /\ NameOf[dict[i]] = n
  BY DEF Keys
<1>2. \A k \in 1 .. Len(dict) : NameOf[dict[k]] = n => k = i
  BY <1>1 DEF OneOfEachName
<1> DEFINE popped == Pop(dict, n)
           from(k) == IF k < i THEN k ELSE k + 1
<1>3. popped = SubSeq(dict, 1, i - 1) \o SubSeq(dict, i + 1, Len(dict))
  BY DEF Pop, RemoveAt
<1> HIDE DEF i
<1>4. /\ popped \in Seq(S)
      /\ Len(popped) = Len(dict) - 1
      /\ \A k \in 1 .. Len(dict) - 1 : popped[k] = dict[from(k)]
  <2> DEFINE left == SubSeq(dict, 1, i - 1)
             right == SubSeq(dict, i + 1, Len(dict))
  <2>0. \A k \in 1 .. Len(dict) : dict[k] \in S
    BY <1>1
  <2>1. /\ left \in Seq(S) /\ Len(left) = i - 1
        /\ \A k \in 1 .. i - 1 : left[k] = dict[k]
    BY <1>1, <2>0
  <2>2. /\ right \in Seq(S) /\ Len(right) = Len(dict) - i
        /\ \A k \in 1 .. Len(dict) - i : right[k] = dict[k + i]
    <3>1. /\ i + 1 \in Int /\ Len(dict) \in Int
          /\ \A k \in i + 1 .. Len(dict) : dict[k] \in S
      BY <1>1, <2>0
    <3>2. /\ right \in Seq(S)
          /\ Len(right) = IF i + 1 <= Len(dict) THEN Len(dict) - (i + 1) + 1 ELSE 0
          /\ \A k \in 1 .. Len(dict) - (i + 1) + 1 : right[k] = dict[(i + 1) + k - 1]
      BY <3>1, SubSeqProperties
    <3> HIDE DEF right
    <3>3. Len(right) = Len(dict) - i
      <4>1. i \in Nat /\ Len(dict) \in Nat /\ i <= Len(dict)
        BY <1>1
      <4>2. Len(right) = IF i + 1 <= Len(dict) THEN Len(dict) - (i + 1) + 1 ELSE 0
        BY <3>2
      <4> QED BY ONLY <4>1, <4>2
    <3>4. ASSUME NEW k \in 1 .. Len(dict) - i PROVE right[k] = dict[k + i]
      <4>1. k \in 1 .. Len(dict) - (i + 1) + 1 /\ (i + 1) + k - 1 = k + i
        BY <1>1
      <4>2. right[k] = dict[(i + 1) + k - 1]
        BY <4>1, <3>2
      <4> QED BY <4>1, <4>2
    <3> QED BY <3>2, <3>3, <3>4
  <2> HIDE DEF left, right
  <2>3. /\ popped \in Seq(S) /\ Len(popped) = Len(left) + Len(right)
        /\ \A k \in 1 .. Len(left) + Len(right) :
             popped[k] = IF k <= Len(left) THEN left[k] ELSE right[k - Len(left)]
    <3>1. popped = left \o right
      BY <1>3 DEF left, right
    <3> HIDE DEF popped
    <3> QED BY <3>1, <2>1, <2>2, ConcatProperties
  <2>4. ASSUME NEW k \in 1 .. Len(dict) - 1 PROVE popped[k] = dict[from(k)]
    <3> HIDE DEF popped
    <3>1. CASE k < i
      <4>1. k \in 1 .. i - 1 /\ from(k) = k
        BY <3>1, <1>1
      <4>2. k \in 1 .. Len(left) + Len(right) /\ k <= Len(left)
        BY <3>1, <1>1, <2>1, <2>2
      <4>3. popped[k] = left[k]
        BY <4>2, <2>3
      <4> QED BY <4>1, <4>3, <2>1
    <3>2. CASE ~(k < i)
      <4>1. k - (i - 1) \in 1 .. Len(dict) - i /\ (k - (i - 1)) + i = k + 1
        BY <3>2, <1>1
      <4>2. popped[k] = right[k - (i - 1)]
        <5>1. /\ k \in 1 .. Len(left) + Len(right) /\ ~(k <= Len(left))
              /\ k - Len(left) = k - (i - 1)
          BY <3>2, <1>1, <2>1, <2>2
        <5> QED BY <5>1, <2>3
      <4> QED BY <4>1, <4>2, <2>2, <3>2
    <3> QED BY <3>1, <3>2
  <2> QED BY <2>1, <2>2, <2>3, <2>4, <1>1
<1> HIDE DEF popped
<1>5. DOMAIN popped = 1 .. Len(dict) - 1 /\ \A k \in DOMAIN popped : from(k) \in 1 .. Len(dict) \ {i}
  BY <1>1, <1>4
<1>6. \A m \in 1 .. Len(dict) \ {i} : \E k \in DOMAIN popped : from(k) = m
  <2> TAKE m \in 1 .. Len(dict) \ {i}
  <2> DEFINE k == IF m < i THEN m ELSE m - 1
  <2>1. k \in 1 .. Len(dict) - 1 /\ from(k) = m
    BY <1>1
  <2> QED BY <2>1, <1>5
<1>7. OneOfEachName(popped)
  <2> SUFFICES ASSUME NEW j \in DOMAIN popped, NEW k \in DOMAIN popped,
                      NameOf[popped[j]] = NameOf[popped[k]]
               PROVE  j = k
    BY DEF OneOfEachName
  <2>1. popped[j] = dict[from(j)] /\ popped[k] = dict[from(k)]
    BY <1>4, <1>5
  <2>2. from(j) = from(k)
    BY <2>1, <1>1, <1>5 DEF OneOfEachName
  <2>3. j \in Nat /\ k \in Nat
    BY <1>5, <1>1
  <2> QED BY <2>2, <2>3, <1>1
<1>8. ToSet(popped) = {dict[m] : m \in 1 .. Len(dict) \ {i}}
  <2>1. \A k \in DOMAIN popped : popped[k] = dict[from(k)]
    BY <1>4, <1>5
  <2> HIDE DEF from
  <2> QED BY <2>1, <1>5, <1>6 DEF ToSet
<1>9. ToSet(popped) = {y \in ToSet(dict) : NameOf[y] # n}
  BY <1>1, <1>2, <1>8 DEF ToSet
<1>10. Keys(popped) = {NameOf[y] : y \in ToSet(popped)} /\ Keys(dict) = {NameOf[y] : y \in ToSet(dict)}
  BY DEF Keys, ToSet
<1> QED BY <1>4, <1>7, <1>9, <1>10 DEF popped

\* What is found under a name is in the dict, under that name, and nothing else is.
LEMMA AtName ==
  ASSUME NEW S, NEW dict \in Seq(S), OneOfEachName(dict), NEW n \in Keys(dict)
  PROVE  /\ At(dict, n) \in ToSet(dict) \cap S
         /\ NameOf[At(dict, n)] = n
         /\ \A y \in ToSet(dict) : NameOf[y] = n => y = At(dict, n)
<1>1. \E x \in ToSet(dict) : NameOf[x] = n
  BY DEF Keys, ToSet
<1>2. ToSet(dict) \subseteq S
  BY DEF ToSet
<1>3. At(dict, n) \in ToSet(dict) /\ NameOf[At(dict, n)] = n
  BY <1>1 DEF At
<1>4. \A x, y \in ToSet(dict) : NameOf[x] = NameOf[y] => x = y
  BY DEF ToSet, OneOfEachName
<1> QED BY <1>2, <1>3, <1>4

-----------------------------------------------------------------------------
(* The choice of a provider. *)

\* A set of naturals that has an element has a least one.
LEMMA LeastNat ==
  ASSUME NEW S \in SUBSET Nat, S # {}
  PROVE  Min(S) \in S /\ \A y \in S : Min(S) <= y
<1> DEFINE R == {ss \in Nat \X Nat : ss[1] < ss[2]}
<1>1. IsWellFoundedOn(R, Nat)
  BY NatLessThanWellFounded DEF OpToRel
<1>2. \E x \in S : \A y \in S : ~(<<y, x>> \in R)
  <2> HIDE DEF R
  <2> QED BY <1>1, WFMin
<1>3. \E x \in S : \A y \in S : x <= y
  <2>1. PICK x \in S : \A y \in S : ~(<<y, x>> \in R)
    BY <1>2
  <2>2. \A y \in S : y \in Nat /\ x \in Nat /\ ~(y < x)
    BY <2>1
  <2>3. \A y \in S : x <= y
    BY <2>2
  <2> QED BY <2>3
<1> QED BY <1>3 DEF Min

\* How many of found go before k.
Rank(found, k) == Cardinality({j \in found : GoesBefore(j, k)})

\* Of any two positions one goes before the other, and has the lower rank.
LEMMA RankGrows ==
  ASSUME providers \in Seq(Providers), NEW found \in SUBSET DOMAIN providers,
         NEW j \in found, NEW k \in found, GoesBefore(j, k)
  PROVE  Rank(found, j) < Rank(found, k)
<1> DEFINE below(i) == {h \in found : GoesBefore(h, i)}
<1>1. /\ DOMAIN providers = 1 .. Len(providers) /\ Len(providers) \in Nat
      /\ found \subseteq Nat
      /\ \A i \in found : providers[i] \in Providers /\ Priority[providers[i]] \in Nat
  OBVIOUS
<1>2. IsFiniteSet(below(k))
  <2>1. IsFiniteSet(1 .. Len(providers)) /\ below(k) \subseteq 1 .. Len(providers)
    BY <1>1, FS_Interval
  <2> QED BY <2>1, FS_Subset
<1>3. j \in below(k) /\ j \notin below(j)
  BY <1>1 DEF GoesBefore
<1>4. below(j) \subseteq below(k)
  BY <1>1 DEF GoesBefore
<1> HIDE DEF below
<1>5. /\ IsFiniteSet(below(j)) /\ Cardinality(below(j)) <= Cardinality(below(k))
      /\ Cardinality(below(j)) # Cardinality(below(k))
  BY <1>2, <1>3, <1>4, FS_Subset
<1>6. Cardinality(below(j)) \in Nat /\ Cardinality(below(k)) \in Nat
  BY <1>2, <1>5, FS_CardinalityType
<1>7. Cardinality(below(j)) < Cardinality(below(k))
  BY <1>5, <1>6
<1> QED BY <1>7 DEF Rank, below

\* Sorting keeps every position and orders them: the one that goes before is found first.
LEMMA SortedByPriority ==
  ASSUME providers \in Seq(Providers), NEW found \in SUBSET DOMAIN providers
  PROVE  \E place \in [found -> 1 .. Cardinality(found)] :
           /\ DOMAIN Sorted(found) = 1 .. Cardinality(found) /\ Cardinality(found) \in Nat
           /\ \A n \in DOMAIN Sorted(found) : \E k \in found : place[k] = n
           /\ \A k \in found : Sorted(found)[place[k]] = providers[k]
           /\ \A j, k \in found : GoesBefore(j, k) => place[j] < place[k]
<1> DEFINE size == Cardinality(found)
           place == [k \in found |-> Rank(found, k) + 1]
<1>1. /\ DOMAIN providers = 1 .. Len(providers) /\ Len(providers) \in Nat
      /\ found \subseteq Nat
      /\ \A i \in found : providers[i] \in Providers /\ Priority[providers[i]] \in Nat
  OBVIOUS
<1>2. IsFiniteSet(found) /\ size \in Nat
  <2>1. IsFiniteSet(1 .. Len(providers)) /\ found \subseteq 1 .. Len(providers)
    BY <1>1, FS_Interval
  <2>2. IsFiniteSet(found)
    BY <2>1, FS_Subset
  <2> QED BY <2>2, FS_CardinalityType
<1>3. ASSUME NEW k \in found PROVE Rank(found, k) \in 0 .. size - 1
  <2> DEFINE below == {h \in found : GoesBefore(h, k)}
  <2>1. below \in SUBSET found /\ k \notin below
    BY <1>1 DEF GoesBefore
  <2> HIDE DEF below
  <2>2. /\ IsFiniteSet(below) /\ Cardinality(below) <= size /\ Cardinality(below) # size
    BY <1>2, <2>1, FS_Subset
  <2>3. Cardinality(below) \in Nat
    BY <2>2, FS_CardinalityType
  <2>4. Cardinality(below) \in 0 .. size - 1
    BY <1>2, <2>2, <2>3
  <2> QED BY <2>4 DEF Rank, below
<1>4. \A j, k \in found : GoesBefore(j, k) => Rank(found, j) < Rank(found, k)
  BY RankGrows
<1>5. \A j, k \in found : j # k => GoesBefore(j, k) \/ GoesBefore(k, j)
  BY <1>1 DEF GoesBefore
<1>6. \A j, k \in found : Rank(found, j) = Rank(found, k) => j = k
  <2> TAKE j, k \in found
  <2>1. Rank(found, j) \in Nat /\ Rank(found, k) \in Nat
    BY <1>2, <1>3
  <2>2. j # k => Rank(found, j) < Rank(found, k) \/ Rank(found, k) < Rank(found, j)
    BY <1>4, <1>5
  <2> QED BY <2>1, <2>2
<1>7. place \in [found -> 1 .. size] /\ \A k \in found : place[k] = Rank(found, k) + 1
  BY <1>2, <1>3
<1> HIDE DEF place
<1>8. \A n \in 1 .. size : \E k \in found : place[k] = n
  <2>1. place \in Injection(found, 1 .. size)
    <3>1. \A j, k \in found : place[j] = place[k] => j = k
      BY <1>3, <1>6, <1>7
    <3> QED BY <1>7, <3>1 DEF Injection, IsInjective
  <2>2. IsFiniteSet(1 .. size) /\ Cardinality(1 .. size) = size
    <3>1. /\ IsFiniteSet(1 .. size)
          /\ Cardinality(1 .. size) = IF 1 > size THEN 0 ELSE size - 1 + 1
      <4>1. 1 \in Int /\ size \in Int
        BY <1>2
      <4> HIDE DEF size
      <4> QED BY <4>1, FS_Interval
    <3> HIDE DEF size
    <3> QED BY <1>2, <3>1
  <2>3. place \in Surjection(found, 1 .. size)
    BY <2>1, <2>2, FS_Injection
  <2> QED BY <2>3 DEF Surjection
<1>9. Sorted(found) = [n \in 1 .. size |-> providers[CHOOSE k \in found : Rank(found, k) = n - 1]]
  BY DEF Sorted, Rank
<1>10. ASSUME NEW k \in found PROVE Sorted(found)[place[k]] = providers[k]
  <2>1. place[k] \in 1 .. size /\ place[k] - 1 = Rank(found, k)
    BY <1>3, <1>7
  <2>2. (CHOOSE h \in found : Rank(found, h) = place[k] - 1) = k
    BY <1>6, <2>1
  <2> QED BY <1>9, <2>1, <2>2
<1>11. \A j, k \in found : GoesBefore(j, k) => place[j] < place[k]
  BY <1>3, <1>4, <1>7
<1> QED BY <1>2, <1>7, <1>8, <1>9, <1>10, <1>11

\* The best of some providers: none of them goes before it.
BestOf(p, S) == p \in S /\ \A q \in S : ~(Priority[q] < Priority[p])

\* The first of the sorted positions that a test picks holds the best provider it picks.
LEMMA FirstIsBest ==
  ASSUME providers \in Seq(Providers), NEW found \in SUBSET DOMAIN providers,
         NEW S,
         NEW hits, hits = {n \in DOMAIN Sorted(found) : Sorted(found)[n] \in S},
         NEW best, best = {providers[k] : k \in found} \cap S
  PROVE  /\ hits = {} <=> best = {}
         /\ hits # {} => BestOf(Sorted(found)[Min(hits)], best)
<1>1. PICK place \in [found -> 1 .. Cardinality(found)] :
        /\ DOMAIN Sorted(found) = 1 .. Cardinality(found) /\ Cardinality(found) \in Nat
        /\ \A n \in DOMAIN Sorted(found) : \E k \in found : place[k] = n
        /\ \A k \in found : Sorted(found)[place[k]] = providers[k]
        /\ \A j, k \in found : GoesBefore(j, k) => place[j] < place[k]
  BY SortedByPriority
<1>2. \A k \in found : place[k] \in DOMAIN Sorted(found)
  BY <1>1
<1>3. \A n \in hits : \E k \in found : place[k] = n /\ Sorted(found)[n] = providers[k] /\ providers[k] \in S
  BY <1>1
<1>4. \A k \in found : providers[k] \in S => place[k] \in hits
  BY <1>1, <1>2
<1>5. hits = {} <=> best = {}
  BY <1>3, <1>4
<1>6. ASSUME hits # {} PROVE BestOf(Sorted(found)[Min(hits)], best)
  <2>1. hits \in SUBSET Nat
    BY <1>1
  <2>2. Min(hits) \in hits /\ \A n \in hits : Min(hits) <= n
    BY <1>6, <2>1, LeastNat
  <2>3. PICK k \in found : /\ place[k] = Min(hits) /\ providers[k] \in S
                           /\ Sorted(found)[Min(hits)] = providers[k]
    BY <1>3, <2>2
  <2>4. ASSUME NEW j \in found, providers[j] \in S, Priority[providers[j]] < Priority[providers[k]]
        PROVE  FALSE
    <3>1. place[j] < place[k]
      BY <1>1, <2>4 DEF GoesBefore
    <3>2. place[k] <= place[j]
      BY <1>4, <2>2, <2>3, <2>4
    <3>3. place[j] \in Nat /\ place[k] \in Nat
      BY <1>1
    <3> QED BY <3>1, <3>2, <3>3
  <2> QED BY <2>3, <2>4 DEF BestOf
<1> QED BY <1>5, <1>6

\* ProviderResolver.resolve finds the best eligible provider, and one if there is any.
LEMMA ResolveFindsBest ==
  ASSUME TypeOK, NEW service
  PROVE  /\ Resolve(service) = {} => Eligible(service) = {}
         /\ \A p \in Resolve(service) :
              p \in Eligible(service) /\ \A q \in Eligible(service) : ~Better(q, p)
<1> DEFINE found == {k \in DOMAIN providers : NameOf[providers[k]] \in usable
                                              /\ Serves[providers[k]] = service}
           list == Sorted(found)
           able == {providers[k] : k \in found}
           isReady == {p \in Providers : state[p] = "READY"}
           isLive == {p \in Providers : IsLive(p)}
           ready == {n \in DOMAIN list : state[list[n]] = "READY"}
           live == {n \in DOMAIN list : IsLive(list[n])}
<1>1. providers \in Seq(Providers) /\ found \in SUBSET DOMAIN providers /\ able \subseteq Providers
  BY DEF TypeOK
<1>2. \A n \in DOMAIN list : list[n] \in Providers
  <2>1. PICK place \in [found -> 1 .. Cardinality(found)] :
          /\ \A n \in DOMAIN list : \E k \in found : place[k] = n
          /\ \A k \in found : list[place[k]] = providers[k]
    <3> HIDE DEF found
    <3> QED BY <1>1, SortedByPriority
  <2> HIDE DEF list, found
  <2> QED BY <1>1, <2>1
<1>3. /\ ready = {n \in DOMAIN list : list[n] \in isReady}
      /\ live = {n \in DOMAIN list : list[n] \in isLive}
  BY <1>2
<1>4. Eligible(service) = able \cap isLive
  BY <1>1 DEF Eligible, ToSet, TypeOK
<1>5. Resolve(service) = IF ready # {} THEN {list[Min(ready)]}
                         ELSE IF live # {} THEN {list[Min(live)]} ELSE {}
  BY DEF Resolve, Candidates
<1>6. /\ ready = {} <=> able \cap isReady = {}
      /\ ready # {} => BestOf(list[Min(ready)], able \cap isReady)
      /\ live = {} <=> able \cap isLive = {}
      /\ live # {} => BestOf(list[Min(live)], able \cap isLive)
  <2> HIDE DEF found, isReady, isLive, ready, live
  <2>1. /\ ready = {} <=> able \cap isReady = {}
        /\ ready # {} => BestOf(list[Min(ready)], able \cap isReady)
    BY <1>1, <1>3, FirstIsBest
  <2>2. /\ live = {} <=> able \cap isLive = {}
        /\ live # {} => BestOf(list[Min(live)], able \cap isLive)
    BY <1>1, <1>3, FirstIsBest
  <2> QED BY <2>1, <2>2
<1>7. isReady \subseteq isLive
  BY DEF IsLive
<1> HIDE DEF list, able, ready, live
<1>8. ASSUME ready # {}
      PROVE  \A p \in Resolve(service) :
               p \in Eligible(service) /\ \A q \in Eligible(service) : ~Better(q, p)
  BY <1>1, <1>4, <1>5, <1>6, <1>7, <1>8 DEF BestOf, Better
<1>9. ASSUME ready = {}
      PROVE  \A p \in Resolve(service) :
               p \in Eligible(service) /\ \A q \in Eligible(service) : ~Better(q, p)
  BY <1>1, <1>4, <1>5, <1>6, <1>7, <1>9 DEF BestOf, Better
<1>10. Resolve(service) = {} => Eligible(service) = {}
  BY <1>4, <1>5, <1>6
<1> QED BY <1>8, <1>9, <1>10

-----------------------------------------------------------------------------
(* The invariant. *)

\* Nothing is registered at first.
LEMMA InitIInv == Init => IInv
<1> SUFFICES ASSUME Init PROVE IInv
  OBVIOUS
<1>1. ToSet(providers) = {} /\ ToSet(capabilities) = {}
  BY DEF Init, ToSet
<1>2. TypeOK
  BY DEF Init, TypeOK, OneOfEachName, Keys
<1> QED BY <1>1, <1>2 DEF IInv, IndexInv, FlagInv

\* Sequences of objects hold objects, and the keys of a dict are the names of what it holds.
LEMMA Held ==
  ASSUME TypeOK
  PROVE  /\ ToSet(providers) \subseteq Providers /\ ToSet(capabilities) \subseteq Capabilities
         /\ \A c \in ToSet(capabilities) : NameOf[c] \in Keys(capabilities)
BY DEF TypeOK, ToSet, Keys

\* Discovery by category finds what the index and the flags say.
LEMMA FoundByCategory ==
  ASSUME TypeOK, IndexInv, NEW c \in ToSet(capabilities), NameOf[c] \in enabled
  PROVE  c \in ResolveByCategory(CategoryOf[c])
<1>1. NameOf[c] \in ToSet(category[CategoryOf[c]]) \cap enabled \cap Keys(capabilities)
  BY Held DEF IndexInv
<1>2. c = At(capabilities, NameOf[c])
  BY <1>1, AtName DEF TypeOK
<1> QED BY <1>1, <1>2 DEF ResolveByCategory

\* The invariant says that the registries agree.
LEMMA IInvAgree == IInv => RegistriesAgree
BY FoundByCategory DEF IInv, FlagInv, RegistriesAgree

\* What a frame on top of the stack holds, and what pushing and returning keep.
LEMMA TopFrame ==
  ASSUME stack \in Seq(Frames), stack # <<>>
  PROVE  /\ Head(stack) \in Frames
         /\ Head(stack).at # "resolved" => Head(stack).provider \in Providers
<1>1. Head(stack) \in Frames
  <2> HIDE DEF Frames
  <2> QED OBVIOUS
<1> QED BY <1>1 DEF Frames

LEMMA Pushed ==
  ASSUME NEW S, NEW s \in Seq(S), NEW x \in S
  PROVE  <<x>> \o s \in Seq(S) /\ Len(<<x>> \o s) = Len(s) + 1 /\ Head(<<x>> \o s) = x
OBVIOUS

LEMMA Returned ==
  ASSUME NEW S, NEW s \in Seq(S), s # <<>>
  PROVE  Tail(s) \in Seq(S) /\ Len(Tail(s)) = Len(s) - 1
OBVIOUS

\* The providers change and the capabilities do not.
LEMMA ProvidersChange ==
  ASSUME IInv, UNCHANGED offering, stack' \in Seq(Frames),
         providers' \in Seq(Providers), OneOfEachName(providers'),
         usable' \subseteq Keys(providers'),
         state' \in [Providers -> {"UNREGISTERED", "LIVE", "READY", "UNAVAILABLE"}],
         \A p \in ToSet(providers') : state'[p] # "UNREGISTERED"
  PROVE  IInv'
<1> USE DEF IInv, offering, indexes, policies
<1>1. TypeOK'
  BY DEF TypeOK
<1>2. IndexInv'
  BY DEF IndexInv
<1>3. FlagInv'
  BY DEF FlagInv
<1> QED BY <1>1, <1>2, <1>3

\* Each operation of the provider registry preserves the invariant.
LEMMA ProviderSteps ==
  ASSUME IInv
  PROVE  ReconfigureProviders => IInv'
<1> USE DEF IInv
<1>0. /\ TypeOK /\ FlagInv
      /\ providers \in Seq(Providers) /\ OneOfEachName(providers) /\ usable \subseteq Keys(providers)
      /\ state \in [Providers -> {"UNREGISTERED", "LIVE", "READY", "UNAVAILABLE"}]
      /\ \A p \in ToSet(providers) : p \in Providers /\ state[p] # "UNREGISTERED"
      /\ stack \in Seq(Frames)
  BY Held DEF TypeOK, FlagInv
<1>1. ASSUME NEW p \in Providers, EnterProvider(p), stack' \in Seq(Frames)
      PROVE  IInv'
  <2> USE DEF EnterProvider
  <2>1. /\ providers' \in Seq(Providers) /\ OneOfEachName(providers')
        /\ Keys(providers') = Keys(providers) \cup {NameOf[p]}
        /\ ToSet(providers') = {q \in ToSet(providers) : NameOf[q] # NameOf[p]} \cup {p}
    BY <1>0, <1>1, PutKeepsDict
  <2>2. usable' \subseteq Keys(providers')
    BY <1>0, <1>1, <2>1
  <2>3. /\ state' \in [Providers -> {"UNREGISTERED", "LIVE", "READY", "UNAVAILABLE"}]
        /\ \A q \in ToSet(providers') : state'[q] # "UNREGISTERED"
    BY <1>0, <1>1, <2>1
  <2> QED BY <1>1, <2>1, <2>2, <2>3, ProvidersChange
<1>2. ASSUME NEW p \in Providers, RegisterProvider(p) PROVE IInv'
  BY <1>0, <1>1, <1>2 DEF RegisterProvider
<1>3. ASSUME NEW p \in Providers, ProviderChanges(p) PROVE IInv'
  <2>1. /\ state' \in [Providers -> {"UNREGISTERED", "LIVE", "READY", "UNAVAILABLE"}]
        /\ \A q \in ToSet(providers) : state'[q] # "UNREGISTERED"
    BY <1>0, <1>3 DEF ProviderChanges
  <2> QED BY <1>0, <1>3, <2>1, ProvidersChange DEF ProviderChanges
<1>4. ASSUME NEW n \in Names, EnableProvider(n) \/ DisableProvider(n) PROVE IInv'
  <2>1. usable' \subseteq Keys(providers) /\ UNCHANGED <<providers, state, offering, stack>>
    BY <1>0, <1>4 DEF EnableProvider, DisableProvider
  <2> QED BY <1>0, <2>1, ProvidersChange
<1>5. ASSUME NEW n \in Names, UnregisterProvider(n) PROVE IInv'
  <2>1. /\ providers' \in Seq(Providers) /\ OneOfEachName(providers')
        /\ ToSet(providers') = {q \in ToSet(providers) : NameOf[q] # n}
        /\ Keys(providers') = Keys(providers) \ {n}
    BY <1>0, <1>5, PopKeepsDict DEF UnregisterProvider
  <2>2. usable' \subseteq Keys(providers')
    BY <1>0, <1>5, <2>1 DEF UnregisterProvider
  <2>3. At(providers, n) \in Providers /\ NameOf[At(providers, n)] = n
    BY <1>0, <1>5, AtName DEF UnregisterProvider
  <2>4. /\ state' \in [Providers -> {"UNREGISTERED", "LIVE", "READY", "UNAVAILABLE"}]
        /\ \A q \in ToSet(providers') : state'[q] # "UNREGISTERED"
    BY <1>0, <1>5, <2>1, <2>3 DEF UnregisterProvider
  <2> QED BY <1>0, <1>5, <2>1, <2>2, <2>4, ProvidersChange DEF UnregisterProvider
<1>6. ASSUME NEW n \in Names, NEW p \in Providers, ReplaceProvider(n, p) PROVE IInv'
  <2>1. usable' \subseteq Keys(providers) /\ UNCHANGED <<providers, state, offering>>
    BY <1>0, <1>6 DEF ReplaceProvider
  <2>2. stack' \in Seq(Frames)
    <3>1. [at |-> "replacing", provider |-> p] \in Frames
      BY DEF Frames
    <3> QED BY <1>0, <1>6, <3>1, Pushed DEF ReplaceProvider, Push
  <2> QED BY <1>0, <2>1, <2>2, ProvidersChange
<1>7. ASSUME NEW n \in Names, NEW p \in Providers, ReplaceNothing(n, p) PROVE IInv'
  BY <1>2, <1>7 DEF ReplaceNothing
<1>8. ASSUME RegisterReplacement PROVE IInv'
  <2>1. Head(stack).provider \in Providers /\ stack' \in Seq(Frames)
    BY <1>0, <1>8, TopFrame, Returned DEF RegisterReplacement, Doing, Return
  <2> QED BY <1>1, <1>8, <2>1 DEF RegisterReplacement
<1>9. ASSUME ClearProviders PROVE IInv'
  <2>1. ToSet(providers') = {} /\ OneOfEachName(providers') /\ providers' \in Seq(Providers)
    BY <1>9 DEF ClearProviders, ToSet, OneOfEachName
  <2> QED BY <1>0, <1>9, <2>1, ProvidersChange DEF ClearProviders
<1> QED BY <1>2, <1>3, <1>4, <1>5, <1>6, <1>7, <1>8, <1>9 DEF LoadProvider, ReconfigureProviders

\* So does each operation of the capability registry and of the policy manager.
LEMMA CapabilitySteps ==
  ASSUME IInv
  PROVE  ReconfigureCapabilities => IInv'
<1> USE DEF IInv
<1>0. /\ TypeOK /\ FlagInv /\ IndexInv
      /\ capabilities \in Seq(Capabilities) /\ OneOfEachName(capabilities)
      /\ enabled \subseteq Keys(capabilities)
      /\ lifecycle \in [Capabilities -> {"REGISTERED", "ENABLED", "DISABLED"}]
      /\ category \in [Categories -> Seq(Names)] /\ version \subseteq Capabilities
      /\ ToSet(capabilities) \subseteq Capabilities
  BY Held DEF TypeOK
<1>1. ASSUME NEW c \in Capabilities, RegisterCapability(c) PROVE IInv'
  <2> USE <1>1 DEF RegisterCapability, providing, policies
  <2>1. /\ capabilities' \in Seq(Capabilities) /\ OneOfEachName(capabilities')
        /\ Keys(capabilities') = Keys(capabilities) \cup {NameOf[c]}
        /\ ToSet(capabilities') = {d \in ToSet(capabilities) : NameOf[d] # NameOf[c]} \cup {c}
    BY <1>0, PutKeepsDict
  <2>2. /\ category' \in [Categories -> Seq(Names)]
        /\ NameOf[c] \in ToSet(category'[CategoryOf[c]])
        /\ \A k \in Categories : ToSet(category[k]) \subseteq ToSet(category'[k])
    <3> DEFINE old == category[CategoryOf[c]]
               new == IF Contains(old, NameOf[c]) THEN old ELSE Append(old, NameOf[c])
    <3>1. old \in Seq(Names) /\ NameOf[c] \in Names /\ CategoryOf[c] \in Categories
      BY <1>0
    <3>2. /\ Append(old, NameOf[c]) \in Seq(Names)
          /\ ToSet(Append(old, NameOf[c])) = ToSet(old) \cup {NameOf[c]}
      <4>1. /\ Append(old, NameOf[c]) \in Seq(Names)
            /\ DOMAIN old = 1 .. Len(old) /\ Len(old) \in Nat
            /\ DOMAIN Append(old, NameOf[c]) = DOMAIN old \cup {Len(old) + 1}
            /\ Append(old, NameOf[c])[Len(old) + 1] = NameOf[c]
            /\ \A k \in DOMAIN old : Append(old, NameOf[c])[k] = old[k]
        BY <3>1, AppendProperties
      <4> QED BY ONLY <4>1 DEF ToSet
    <3>3. Contains(old, NameOf[c]) => NameOf[c] \in ToSet(old)
      BY <3>1 DEF Contains, ToSet
    <3>4. /\ new \in Seq(Names) /\ NameOf[c] \in ToSet(new) /\ ToSet(old) \subseteq ToSet(new)
      BY <3>1, <3>2, <3>3
    <3>5. category' = [category EXCEPT ![CategoryOf[c]] = new]
      OBVIOUS
    <3> HIDE DEF new
    <3>6. \A k \in Categories : category'[k] = IF k = CategoryOf[c] THEN new ELSE category[k]
      BY <1>0, <3>1, <3>5
    <3> QED BY <1>0, <3>1, <3>4, <3>5, <3>6
  <2>3. TypeOK'
    BY <1>0, <2>1, <2>2 DEF TypeOK
  <2>4. IndexInv'
    BY <1>0, <2>1, <2>2 DEF IndexInv
  <2>5. FlagInv'
    BY <1>0, <2>1 DEF FlagInv
  <2> QED BY <2>3, <2>4, <2>5
<1>2. ASSUME NEW n \in Keys(capabilities), NEW l \in {"ENABLED", "DISABLED"},
             enabled' = IF l = "ENABLED" THEN enabled \cup {n} ELSE enabled \ {n},
             lifecycle' = [lifecycle EXCEPT ![At(capabilities, n)] = l],
             UNCHANGED <<providing, capabilities, category, version, policies, stack>>
      PROVE  IInv'
  <2> USE <1>2 DEF providing, policies
  <2>1. /\ At(capabilities, n) \in ToSet(capabilities) /\ At(capabilities, n) \in Capabilities
        /\ \A d \in ToSet(capabilities) : NameOf[d] = n <=> d = At(capabilities, n)
    BY <1>0, AtName
  <2>2. TypeOK'
    BY <1>0, <2>1 DEF TypeOK
  <2>3. IndexInv'
    BY <1>0 DEF IndexInv
  <2>4. FlagInv'
    <3>1. ASSUME NEW d \in ToSet(capabilities)
          PROVE  NameOf[d] \in enabled' <=> lifecycle'[d] # "DISABLED"
      <4>1. d \in Capabilities /\ (NameOf[d] \in enabled <=> lifecycle[d] # "DISABLED")
        BY <1>0 DEF FlagInv
      <4>2. CASE d = At(capabilities, n)
        BY <4>1, <4>2, <2>1, <1>0
      <4>3. CASE d # At(capabilities, n)
        BY <4>1, <4>3, <2>1, <1>0
      <4> QED BY <4>2, <4>3
    <3> QED BY <1>0, <3>1 DEF FlagInv
  <2> QED BY <2>2, <2>3, <2>4
<1>3. ASSUME NEW n \in Names, EnableCapability(n) \/ DisableCapability(n) PROVE IInv'
  <2>1. CASE EnableCapability(n)
    BY <2>1, <1>2 DEF EnableCapability
  <2>2. CASE DisableCapability(n)
    BY <2>2, <1>2 DEF DisableCapability
  <2> QED BY <1>3, <2>1, <2>2
<1>4. ASSUME UNCHANGED <<providing, indexes, stack>>,
             required' \in [CapabilityNames -> SUBSET Grants],
             tenants' \in [CapabilityNames -> SUBSET Tenants]
      PROVE  IInv'
  <2> USE <1>4 DEF providing, indexes
  <2>1. TypeOK'
    BY <1>0 DEF TypeOK
  <2>2. IndexInv' /\ FlagInv'
    BY <1>0 DEF IndexInv, FlagInv
  <2> QED BY <2>1, <2>2
<1>5. ASSUME NEW n \in CapabilityNames, NEW grants \in SUBSET Grants, Require(n, grants) PROVE IInv'
  BY <1>0, <1>4, <1>5 DEF Require, TypeOK
<1>6. ASSUME NEW n \in CapabilityNames, NEW allowed \in SUBSET Tenants, RestrictTo(n, allowed) PROVE IInv'
  BY <1>0, <1>4, <1>6 DEF RestrictTo, TypeOK
<1>7. ASSUME ClearPolicies PROVE IInv'
  BY <1>4, <1>7 DEF ClearPolicies
<1>8. ASSUME ClearCapabilities PROVE IInv'
  <2> USE <1>8 DEF ClearCapabilities, providing, policies
  <2>1. ToSet(capabilities') = {} /\ OneOfEachName(capabilities') /\ capabilities' \in Seq(Capabilities)
    BY DEF ToSet, OneOfEachName
  <2>2. TypeOK'
    BY <1>0, <2>1 DEF TypeOK
  <2>3. IndexInv' /\ FlagInv'
    BY <1>0, <2>1 DEF IndexInv, FlagInv
  <2> QED BY <2>2, <2>3
<1> QED BY <1>1, <1>3, <1>5, <1>6, <1>7, <1>8 DEF ReconfigureCapabilities

\* An execution leaves both registries alone.
LEMMA ResolverSteps == IInv /\ Resolver => IInv'
<1> SUFFICES ASSUME IInv, Resolver PROVE IInv'
  OBVIOUS
<1>0. stack \in Seq(Frames) /\ TypeOK
  BY DEF IInv, TypeOK
<1>1. UNCHANGED <<providing, offering>> /\ stack' \in Seq(Frames)
  <2>1. ASSUME NEW a \in Actions, NEW grants \in SUBSET Grants, NEW tenant \in Tenants \cup {NoTenant},
               NEW n, Execute(n, a, grants, tenant)
        PROVE  UNCHANGED <<providing, offering>> /\ stack' \in Seq(Frames)
    <3>1. At(capabilities, n) \in Capabilities
      BY <1>0, <2>1, AtName DEF Execute, TypeOK
    <3>2. [at |-> "resolved", service |-> Asks[At(capabilities, n)]] \in Frames
      BY <3>1 DEF Frames
    <3> QED BY <1>0, <2>1, <3>2, Pushed DEF Execute, Push
  <2>2. CASE CallProvider
    <3>1. PICK p \in Resolve(Head(stack).service) :
            stack' = <<[at |-> "executing", provider |-> p]>> \o Tail(stack)
      BY <2>2 DEF CallProvider
    <3>2. p \in Providers
      BY <1>0, <3>1, ResolveFindsBest, Held DEF Eligible
    <3>3. [at |-> "executing", provider |-> p] \in Frames
      BY <3>2 DEF Frames
    <3>4. Tail(stack) \in Seq(Frames)
      BY <1>0, <2>2, Returned DEF CallProvider, Doing
    <3> QED BY <2>2, <3>1, <3>3, <3>4, Pushed DEF CallProvider
  <2>3. CASE NoProvider \/ ProviderReturns
    BY <1>0, <2>3, Returned DEF NoProvider, ProviderReturns, Doing, Return
  <2> QED BY <2>1, <2>2, <2>3 DEF Resolver, ExecuteForAction
<1>2. TypeOK'
  BY <1>0, <1>1 DEF TypeOK, providing, offering, indexes, policies
<1>3. IndexInv' /\ FlagInv'
  BY <1>1 DEF IInv, IndexInv, FlagInv, providing, offering, indexes
<1> QED BY <1>2, <1>3 DEF IInv

LEMMA NextIInv == IInv /\ [Next]_vars => IInv'
<1> SUFFICES ASSUME IInv, [Next]_vars PROVE IInv'
  OBVIOUS
<1>1. CASE ReconfigureProviders \/ ReconfigureCapabilities
  BY <1>1, ProviderSteps, CapabilitySteps
<1>2. CASE Resolver
  BY <1>2, ResolverSteps
<1>3. CASE UNCHANGED vars
  <2>1. TypeOK'
    BY <1>3 DEF vars, providing, offering, indexes, policies, IInv, TypeOK
  <2>2. IndexInv' /\ FlagInv'
    BY <1>3 DEF vars, providing, offering, indexes, IInv, IndexInv, FlagInv
  <2> QED BY <2>1, <2>2 DEF IInv
<1> QED BY <1>1, <1>2, <1>3 DEF Next

LEMMA Invariant == Spec => []IInv
BY InitIInv, NextIInv, PTL DEF Spec

\* The registries hold one object under each name, whatever is registered, replaced and
\* unregistered in whatever order.
THEOREM TypeCorrect == Spec => []TypeOK
<1>1. IInv => TypeOK
  BY DEF IInv
<1> QED BY <1>1, Invariant, PTL

\* The flags, the lifecycles and the indexes of both registries agree at all times.
THEOREM AgreementKept == Spec => []RegistriesAgree
BY IInvAgree, Invariant, PTL

-----------------------------------------------------------------------------
(* The provider called. *)

\* What CalledIsBest says of a step.
BestCalled ==
  Doing("resolved") /\ Len(stack') <= Len(stack) /\ stack' /= stack =>
    LET eligible == Eligible(Head(stack).service) IN
    IF Len(stack') < Len(stack) THEN eligible = {}
    ELSE /\ Head(stack').provider \in eligible
         /\ \A q \in eligible : ~Better(q, Head(stack').provider)

\* An admitted execution on top of the stack is left by CallProvider and NoProvider only;
\* everything else stays below the height of the stack or pushes a frame on it.
LEMMA NextBestCalled == IInv /\ [Next]_vars => BestCalled
<1> SUFFICES ASSUME IInv, [Next]_vars,
                    Doing("resolved"), Len(stack') <= Len(stack), stack' # stack
             PROVE  BestCalled
  BY DEF BestCalled
<1>0. TypeOK /\ stack \in Seq(Frames) /\ stack # <<>> /\ Len(stack) \in Nat
  <2>1. TypeOK /\ stack \in Seq(Frames) /\ stack # <<>>
    BY DEF IInv, TypeOK, Doing
  <2> HIDE DEF Frames
  <2> QED BY <2>1
<1>1. CASE CallProvider
  <2> DEFINE frame(p) == [at |-> "executing", provider |-> p]
  <2>1. PICK p \in Resolve(Head(stack).service) : stack' = <<frame(p)>> \o Tail(stack)
    BY <1>1 DEF CallProvider
  <2>2. p \in Eligible(Head(stack).service) /\ \A q \in Eligible(Head(stack).service) : ~Better(q, p)
    BY <1>0, <2>1, ResolveFindsBest
  <2>3. p \in Providers
    BY <1>0, <2>2, Held DEF Eligible
  <2>4. frame(p) \in Frames
    BY <2>3 DEF Frames
  <2>5. frame(p).provider = p
    OBVIOUS
  <2> HIDE DEF frame
  <2>6. Tail(stack) \in Seq(Frames) /\ Len(Tail(stack)) = Len(stack) - 1
    BY <1>0, Returned
  <2>7. Len(stack') = Len(Tail(stack)) + 1 /\ Head(stack') = frame(p)
    BY <2>1, <2>4, <2>6, Pushed
  <2>8. ~(Len(stack') < Len(stack))
    BY <1>0, <2>6, <2>7
  <2> QED BY <2>2, <2>5, <2>7, <2>8 DEF BestCalled
<1>2. CASE NoProvider
  <2>1. Len(stack') < Len(stack)
    BY <1>0, <1>2, Returned DEF NoProvider, Return
  <2>2. Eligible(Head(stack).service) = {}
    BY <1>0, <1>2, ResolveFindsBest DEF NoProvider
  <2> QED BY <2>1, <2>2 DEF BestCalled
<1>3. ASSUME ~CallProvider, ~NoProvider PROVE FALSE
  <2>1. ~UNCHANGED vars
    BY DEF vars
  <2>2. ASSUME NEW frame \in Frames, Push(frame) PROVE FALSE
    <3>1. Len(stack') = Len(stack) + 1
      BY <1>0, <2>2, Pushed DEF Push
    <3> QED BY <1>0, <3>1
  <2>3. ~ReconfigureProviders
    <3>1. ASSUME NEW n \in Names, NEW p \in Providers, ReplaceProvider(n, p) PROVE FALSE
      BY <2>2, <3>1 DEF ReplaceProvider, Frames
    <3> QED BY <3>1 DEF ReconfigureProviders, RegisterProvider, LoadProvider, ProviderChanges,
           EnableProvider, DisableProvider, UnregisterProvider, ReplaceNothing,
           RegisterReplacement, ClearProviders, Doing
  <2>4. ~ReconfigureCapabilities
    BY DEF ReconfigureCapabilities, RegisterCapability, EnableCapability, DisableCapability,
           Require, RestrictTo, ClearCapabilities, ClearPolicies
  <2>5. ~Resolver
    <3>1. ASSUME NEW n, NEW a, NEW grants, NEW tenant, Execute(n, a, grants, tenant) PROVE FALSE
      <4>1. At(capabilities, n) \in Capabilities
        BY <1>0, <3>1, AtName DEF Execute, TypeOK
      <4>2. [at |-> "resolved", service |-> Asks[At(capabilities, n)]] \in Frames
        BY <4>1 DEF Frames
      <4> QED BY <2>2, <3>1, <4>2 DEF Execute
    <3>2. ~ProviderReturns
      BY DEF ProviderReturns, Doing
    <3> QED BY <1>3, <3>1, <3>2 DEF Resolver, ExecuteForAction
  <2> QED BY <2>1, <2>3, <2>4, <2>5 DEF Next
<1> QED BY <1>1, <1>2, <1>3

\* An execution is given the best provider of the moment it asks for one, however the
\* registry and the providers change before and after, and whatever else is executed inside it.
THEOREM CalledIsBestHolds == Spec => CalledIsBest
<1>1. IInv /\ [Next]_vars => [BestCalled]_vars
  BY NextBestCalled
<1>2. Spec => [][BestCalled]_vars
  BY <1>1, Invariant, PTL DEF Spec
<1> QED BY <1>2 DEF CalledIsBest, BestCalled

=============================================================================
