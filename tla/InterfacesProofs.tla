-------------------------- MODULE InterfacesProofs --------------------------
(***************************************************************************)
(* Facts about the interface table's operators (module Interfaces): what   *)
(* appending and removing an identity do to a list, and that a search that *)
(* has a match returns one.  Before them stands what this and other proof  *)
(* modules need of the natural numbers: the least element of a set, and    *)
(* with it induction over an interval and functions defined by recursion.  *)
(***************************************************************************)
EXTENDS Interfaces, SequenceTheorems, WellFoundedInduction, TLAPS

-----------------------------------------------------------------------------
(* The naturals are well-ordered.                                          *)
LEMMA LeastNatural ==
    ASSUME NEW S, S \subseteq Nat, S # {}
    PROVE  \E m \in S : \A n \in S : m <= n
<1> DEFINE R == OpToRel(<, Nat)
<1>1. PICK m \in S : \A n \in S : ~ (<<n, m>> \in R)
  <2>1. IsWellFoundedOn(R, Nat)
    BY NatLessThanWellFounded
  <2> HIDE DEF R
  <2> QED BY <2>1, WFMin
<1>2. ASSUME NEW n \in S PROVE m <= n
  <2>1. m \in Nat /\ n \in Nat
    OBVIOUS
  <2>2. <<n, m>> \notin {p \in Nat \X Nat : p[1] < p[2]}
    BY <1>1 DEF OpToRel
  <2> QED BY <2>1, <2>2
<1> QED BY <1>2

(* Induction up to n: the statement is a set T of the numbers it holds of. *)
LEMMA NatSteps ==
    ASSUME NEW n \in Nat, NEW T, 0 \in T, \A k \in 0 .. n - 1 : k \in T => k + 1 \in T
    PROVE  \A k \in 0 .. n : k \in T
<1> DEFINE S == {k \in 0 .. n : k \notin T}
<1>1. CASE S # {}
  <2>1. S \subseteq Nat
    OBVIOUS
  <2>2. PICK m \in S : \A k \in S : m <= k
    <3> HIDE DEF S
    <3> QED BY <1>1, <2>1, LeastNatural
  <2>3. m # 0 /\ m - 1 \in 0 .. n - 1 /\ m - 1 \notin S
    BY <2>2
  <2> QED BY <2>2, <2>3
<1>2. CASE S = {}
  BY <1>2
<1> QED BY <1>1, <1>2

(* g starts with base, and F takes it from each number to the next.        *)
Recursion(g, N, V, base, F) ==
    /\ g \in [0 .. N -> V] /\ g[0] = base
    /\ \A n \in 1 .. N : g[n] = F[n][g[n - 1]]

(* A recursion over 0 .. N that stays in a set V has a solution.           *)
LEMMA RecursionExists ==
    ASSUME NEW N \in Nat, NEW V, NEW base \in V, NEW F \in [1 .. N -> [V -> V]]
    PROVE  \E g : Recursion(g, N, V, base, F)
<1> DEFINE Upto(g, m) == /\ g \in [0 .. m -> V] /\ g[0] = base
                         /\ \A n \in 1 .. m : g[n] = F[n][g[n - 1]]
           T == {m \in 0 .. N : \E g : Upto(g, m)}
<1>1. 0 \in T
  <2> DEFINE g == [n \in 0 .. 0 |-> base]
  <2>1. Upto(g, 0)
    OBVIOUS
  <2> HIDE DEF g, Upto
  <2> QED BY <2>1
<1>2. ASSUME NEW m \in 0 .. N - 1, m \in T PROVE m + 1 \in T
  <2>1. PICK g : Upto(g, m)
    BY <1>2
  <2> DEFINE h == [n \in 0 .. m + 1 |-> IF n <= m THEN g[n] ELSE F[m + 1][g[m]]]
  <2>2. g[m] \in V /\ F[m + 1][g[m]] \in V
    BY <2>1
  <2>3. h \in [0 .. m + 1 -> V] /\ h[0] = base
    BY <2>1, <2>2
  <2>4. ASSUME NEW n \in 1 .. m + 1 PROVE h[n] = F[n][h[n - 1]]
    <3>1. CASE n \in 1 .. m
      <4>1. n \in 0 .. m + 1 /\ n <= m /\ n - 1 \in 0 .. m + 1 /\ n - 1 <= m
        BY <3>1
      <4> QED BY <2>1, <3>1, <4>1
    <3>2. CASE n = m + 1
      <4>1. n \in 0 .. m + 1 /\ ~ (n <= m) /\ n - 1 = m /\ m \in 0 .. m + 1 /\ m <= m
        BY <3>2
      <4> QED BY <3>2, <4>1
    <3> QED BY <3>1, <3>2
  <2>5. \E x : Upto(x, m + 1)
    <3>1. Upto(h, m + 1)
      BY <2>3, <2>4
    <3> HIDE DEF h, Upto
    <3> QED BY <3>1
  <2> QED BY <2>5
<1>3. \A m \in 0 .. N : m \in T
  <2> HIDE DEF T
  <2> QED BY <1>1, <1>2, NatSteps
<1> QED BY <1>3 DEF Recursion

-----------------------------------------------------------------------------
(* No identity is in the list twice.                                       *)
NoRepeat(list) == \A j, k \in 1 .. Len(list) : list[j] = list[k] => j = k

(* iface_append_local / iface_append_global: the identity is added and     *)
(* never becomes a duplicate.                                              *)
LEMMA ListAddFacts ==
    ASSUME NEW S, NEW list \in Seq(S), NEW id \in S
    PROVE  /\ ListAdd(list, id) \in Seq(S)
           /\ ListAdd(list, id) # << >>
           /\ Items(ListAdd(list, id)) = Items(list) \cup {id}
           /\ NoRepeat(list) => NoRepeat(ListAdd(list, id))
<1>1. CASE id \in Items(list)
  BY <1>1 DEF ListAdd, Items
<1>2. CASE id \notin Items(list)
  <2>1. ListAdd(list, id) = Append(list, id)
    BY <1>2 DEF ListAdd
  <2> DEFINE new == Append(list, id)
  <2>2. /\ new \in Seq(S) /\ new # << >> /\ Len(new) = Len(list) + 1 /\ Len(list) \in Nat
        /\ \A k \in 1 .. Len(list) : new[k] = list[k]
        /\ new[Len(list) + 1] = id
    BY AppendProperties, LenProperties
  <2> HIDE DEF new
  <2>3. Items(new) = Items(list) \cup {id}
    BY <2>2 DEF Items
  <2>4. NoRepeat(list) => NoRepeat(new)
    BY <2>2, <1>2 DEF NoRepeat, Items
  <2> QED BY <2>1, <2>2, <2>3, <2>4 DEF new
<1> QED BY <1>1, <1>2

(* zlist_remove: exactly the identity leaves the list.                     *)
LEMMA ListRemoveFacts ==
    ASSUME NEW S, NEW list \in Seq(S), NEW id
    PROVE  /\ ListRemove(list, id) \in Seq(S)
           /\ NoRepeat(list) => /\ Items(ListRemove(list, id)) = Items(list) \ {id}
                                /\ NoRepeat(ListRemove(list, id))
<1>1. CASE id \notin Items(list)
  BY <1>1 DEF ListRemove
<1>2. CASE id \in Items(list)
  <2> DEFINE k == CHOOSE j \in 1 .. Len(list) : list[j] = id
             new == [j \in 1 .. Len(list) - 1 |-> IF j < k THEN list[j] ELSE list[j + 1]]
  <2>1. ListRemove(list, id) = new
    BY <1>2 DEF ListRemove
  <2>2. k \in 1 .. Len(list) /\ list[k] = id
    BY <1>2 DEF Items
  <2>3. Len(list) \in Nat /\ list \in [1 .. Len(list) -> S]
    BY LenProperties
  <2> HIDE DEF k
  <2>4. Len(list) - 1 \in Nat /\ \A j \in 1 .. Len(list) - 1 : new[j] \in S
    BY <2>2, <2>3
  <2>5. new \in Seq(S) /\ Len(new) = Len(list) - 1
    BY <2>4, <2>2, <2>3
  <2>6. \A j \in 1 .. Len(list) - 1 : new[j] = IF j < k THEN list[j] ELSE list[j + 1]
    OBVIOUS
  <2> HIDE DEF new
  <2>7. ASSUME NoRepeat(list) PROVE Items(new) = Items(list) \ {id}
    <3>1. ASSUME NEW x \in Items(new) PROVE x \in Items(list) \ {id}
      <4>1. PICK j \in 1 .. Len(list) - 1 : new[j] = x
        BY <3>1, <2>5 DEF Items
      <4>2. PICK i \in 1 .. Len(list) : list[i] = x /\ i # k
        BY <4>1, <2>2, <2>3, <2>6
      <4> QED BY <4>2, <2>2, <2>7 DEF Items, NoRepeat
    <3>2. ASSUME NEW x \in Items(list) \ {id} PROVE x \in Items(new)
      <4>1. PICK j \in 1 .. Len(list) : list[j] = x
        BY DEF Items
      <4>2. j # k
        BY <4>1, <2>2
      <4>3. CASE j < k
        BY <4>1, <4>3, <2>2, <2>3, <2>5, <2>6 DEF Items
      <4>4. CASE j > k
        <5>1. j - 1 \in 1 .. Len(list) - 1 /\ new[j - 1] = x
          BY <4>1, <4>4, <2>2, <2>3, <2>6
        <5> QED BY <5>1, <2>5 DEF Items
      <4> QED BY <4>2, <4>3, <4>4, <2>2, <2>3
    <3> QED BY <3>1, <3>2
  <2>8. NoRepeat(list) => NoRepeat(new)
    BY <2>2, <2>3, <2>5, <2>6 DEF NoRepeat
  <2> QED BY <2>1, <2>5, <2>7, <2>8
<1> QED BY <1>1, <1>2

(* check_interface returns one of the matches when there is one.           *)
LEMMA LeastFacts ==
    ASSUME NEW N, NEW S \in SUBSET (N \X Nat), S # {}
    PROVE  Least(S) \in S /\ \A j \in S : Least(S)[2] <= j[2]
<1> DEFINE versions == {i[2] : i \in S}
<1>1. PICK i \in S : TRUE
  OBVIOUS
<1>2. versions \in SUBSET Nat /\ i[2] \in versions
  OBVIOUS
<1> HIDE DEF versions
<1>3. \E v \in versions : \A w \in versions : v <= w
  BY <1>2, LeastNatural
<1>4. PICK v \in versions : \A w \in versions : v <= w
  BY <1>3
<1>5. \E j \in S : \A k \in S : j[2] <= k[2]
  BY <1>4 DEF versions
<1> QED BY <1>5 DEF Least

(* A search never leaves the table, and a new interface is the one that    *)
(* was asked for.                                                          *)
LEMMA HomesFacts ==
    ASSUME NEW N, NEW V \in SUBSET Nat, NEW table \in SUBSET (N \X V), NEW list \in SUBSET (N \X V)
    PROVE  Homes(table, list) \in SUBSET (N \X V)
<1>1. ASSUME NEW i \in list PROVE Home(table, i) \in N \X V
  <2>1. Matches(table, i) \in SUBSET (N \X Nat) /\ Matches(table, i) \subseteq table
    BY DEF Matches
  <2> QED BY <2>1, LeastFacts DEF Home
<1> QED BY <1>1 DEF Homes

=============================================================================
