----------------------------- MODULE SumTheorems -----------------------------
(***************************************************************************)
(* Sums over finite sets: what SumFunctionOnSet of the community modules,  *)
(* in which the specifications count holds, journal lines and balances,    *)
(* does when a term is added, removed or changed.  The inductions are over *)
(* sets of numbers and of subsets, so that no induction rule with an       *)
(* operator parameter is needed.                                           *)
(***************************************************************************)
EXTENDS Functions, FiniteSets, FiniteSetTheorems, WellFoundedInduction, TLAPS

-----------------------------------------------------------------------------
(* Induction.                                                                *)

(* A set of numbers that is not empty has a smallest one. *)
LEMMA Smallest ==
  ASSUME NEW T, T \subseteq Nat, T # {}
  PROVE  \E n \in T : \A m \in T : n <= m
  <1>1. IsWellFoundedOn(OpToRel(<, Nat), Nat)
    BY NatLessThanWellFounded
  <1>2. PICK n \in T : \A m \in T : ~(<<m, n>> \in OpToRel(<, Nat))
    BY <1>1, WFMin
  <1>3. \A m \in T : ~(m < n)
    BY <1>2 DEF OpToRel
  <1> QED
    BY <1>3

(* A set that has 0, and with every number the next one, has every number. *)
LEMMA EveryNumber ==
  ASSUME NEW T, 0 \in T, \A n \in Nat : n \in T => n + 1 \in T
  PROVE  Nat \subseteq T
  <1> SUFFICES ASSUME Nat \ T # {}
               PROVE  FALSE
    OBVIOUS
  <1>1. PICK n \in Nat \ T : \A m \in Nat \ T : n <= m
    BY Smallest
  <1>2. n - 1 \in Nat /\ n - 1 \in T
    BY <1>1
  <1> QED
    BY <1>1, <1>2

(* A set that has the empty set, and with every part of S each part that has one element more,
   has S. *)
LEMMA EveryPart ==
  ASSUME NEW S, IsFiniteSet(S), NEW P, {} \in P,
         \A T \in SUBSET S : \A x \in S \ T : T \in P => T \cup {x} \in P
  PROVE  S \in P
  <1> DEFINE Q == {n \in Nat : \A T \in SUBSET S : Cardinality(T) = n => T \in P}
  <1>1. 0 \in Q
    <2>1. \A T \in SUBSET S : Cardinality(T) = 0 => T = {}
      BY FS_EmptySet, FS_Subset
    <2> QED
      BY <2>1
  <1>2. ASSUME NEW n \in Nat, n \in Q
        PROVE  n + 1 \in Q
    <2>1. ASSUME NEW T \in SUBSET S, Cardinality(T) = n + 1
          PROVE  T \in P
      <3>1. IsFiniteSet(T) /\ T # {}
        BY <2>1, FS_EmptySet, FS_Subset
      <3>2. PICK x \in T : TRUE
        BY <3>1
      <3>3. Cardinality(T \ {x}) = n
        <4>1. Cardinality(T \ {x}) = Cardinality(T) - 1
          BY <3>1, <3>2, FS_RemoveElement
        <4> QED
          BY <2>1, <4>1
      <3>4. T \ {x} \in P /\ T \ {x} \in SUBSET S /\ x \in S \ (T \ {x})
        BY <1>2, <3>2, <3>3
      <3>5. (T \ {x}) \cup {x} \in P
        BY <3>4
      <3> QED
        BY <3>2, <3>5
    <2> QED
      BY <2>1
  <1>3. Nat \subseteq Q
    <2> HIDE DEF Q
    <2> QED
      BY <1>1, <1>2, EveryNumber
  <1>4. Cardinality(S) \in Nat
    BY FS_CardinalityType
  <1> QED
    BY <1>3, <1>4

-----------------------------------------------------------------------------
(* The recursion of a sum.                                                   *)

(* The element a sum takes first. *)
Pick(s) == CHOOSE x \in s : TRUE

(* The sums of f over those of the parts D that its recursion reaches. *)
Sums(f, D, g) ==
  g = [s \in D |-> IF s = {} THEN 0 ELSE f[Pick(s)] + g[s \ {Pick(s)}]]

(* A sum is the value of its recursion at the whole set. *)
LEMMA SumIs ==
  ASSUME NEW f, NEW S
  PROVE  SumFunctionOnSet(f, S) = (CHOOSE g : Sums(f, SUBSET S, g))[S]
  BY DEF SumFunctionOnSet, FoldFunctionOnSet, MapThenFoldSet, Sums, Pick

(* The first element is one of the set. *)
LEMMA PickIs ==
  ASSUME NEW s, s # {}
  PROVE  Pick(s) \in s
  BY DEF Pick

(* The parts with at most n elements. *)
Small(S, n) == {s \in SUBSET S : Cardinality(s) <= n}

(* What is left without the first element has one element less. *)
LEMMA WithoutFirst ==
  ASSUME NEW S, IsFiniteSet(S), NEW n \in Nat, NEW s \in Small(S, n + 1), s # {}
  PROVE  s \ {Pick(s)} \in Small(S, n)
  <1>1. IsFiniteSet(s) /\ Pick(s) \in s /\ Cardinality(s) \in Nat
    BY PickIs, FS_Subset, FS_CardinalityType DEF Small
  <1>2. Cardinality(s \ {Pick(s)}) = Cardinality(s) - 1
    BY <1>1, FS_RemoveElement
  <1> QED
    BY <1>1, <1>2 DEF Small

(* The recursion has a solution. *)
LEMMA SumsExist ==
  ASSUME NEW f, NEW S, IsFiniteSet(S)
  PROVE  \E g : Sums(f, SUBSET S, g)
  <1> DEFINE Q == {n \in Nat : \E g : Sums(f, Small(S, n), g)}
  <1>1. 0 \in Q
    <2>1. \A s \in Small(S, 0) : s = {}
      <3> TAKE s \in Small(S, 0)
      <3>1. IsFiniteSet(s) /\ Cardinality(s) \in Nat /\ Cardinality(s) <= 0
        BY FS_Subset, FS_CardinalityType DEF Small
      <3> QED
        BY <3>1, FS_EmptySet
    <2>2. Sums(f, Small(S, 0), [s \in Small(S, 0) |-> 0])
      BY <2>1 DEF Sums
    <2> QED
      BY <2>2
  <1>2. ASSUME NEW n \in Nat, n \in Q
        PROVE  n + 1 \in Q
    <2>1. PICK g : Sums(f, Small(S, n), g)
      BY <1>2
    <2> DEFINE h == [s \in Small(S, n + 1) |-> IF s = {} THEN 0 ELSE f[Pick(s)] + g[s \ {Pick(s)}]]
    <2>2. \A s \in Small(S, n) : s \in Small(S, n + 1) /\ h[s] = g[s]
      <3>1. \A s \in Small(S, n) : s \in Small(S, n + 1)
        <4> TAKE s \in Small(S, n)
        <4>1. Cardinality(s) \in Nat /\ Cardinality(s) <= n
          BY FS_Subset, FS_CardinalityType DEF Small
        <4> QED
          BY <4>1 DEF Small
      <3> QED
        BY <2>1, <3>1 DEF Sums
    <2>3. \A s \in Small(S, n + 1) : s # {} => h[s \ {Pick(s)}] = g[s \ {Pick(s)}]
      BY <2>2, WithoutFirst
    <2>4. Sums(f, Small(S, n + 1), h)
      BY <2>3 DEF Sums
    <2> QED
      BY <2>4
  <1>3. Nat \subseteq Q
    <2> HIDE DEF Q
    <2> QED
      BY <1>1, <1>2, EveryNumber
  <1>4. Small(S, Cardinality(S)) = SUBSET S
    BY FS_Subset DEF Small
  <1>5. Cardinality(S) \in Nat
    BY FS_CardinalityType
  <1>6. Cardinality(S) \in Q
    BY <1>3, <1>5
  <1> QED
    BY <1>4, <1>6

(* It has one: two solutions agree on the sets both have. *)
LEMMA SumsAgree ==
  ASSUME NEW f, NEW S, IsFiniteSet(S), NEW T \in SUBSET S, NEW g, NEW h,
         Sums(f, SUBSET S, g), Sums(f, SUBSET T, h)
  PROVE  g[T] = h[T]
  <1> DEFINE Q == {n \in Nat : \A s \in SUBSET T : Cardinality(s) = n => g[s] = h[s]}
  <1>1. 0 \in Q
    <2>1. \A s \in SUBSET T : Cardinality(s) = 0 => s = {}
      BY FS_EmptySet, FS_Subset
    <2>2. g[{}] = 0 /\ h[{}] = 0
      BY DEF Sums
    <2> QED
      BY <2>1, <2>2
  <1>2. ASSUME NEW n \in Nat, n \in Q
        PROVE  n + 1 \in Q
    <2>1. ASSUME NEW s \in SUBSET T, Cardinality(s) = n + 1
          PROVE  g[s] = h[s]
      <3>1. IsFiniteSet(s) /\ s # {}
        BY <2>1, FS_EmptySet, FS_Subset
      <3>2. Pick(s) \in s
        BY <3>1, PickIs
      <3>3. Cardinality(s \ {Pick(s)}) = n
        <4>1. Cardinality(s \ {Pick(s)}) = Cardinality(s) - 1
          BY <3>1, <3>2, FS_RemoveElement
        <4> QED
          BY <2>1, <4>1
      <3>4. g[s \ {Pick(s)}] = h[s \ {Pick(s)}]
        BY <1>2, <3>3
      <3>5. g[s] = f[Pick(s)] + g[s \ {Pick(s)}] /\ h[s] = f[Pick(s)] + h[s \ {Pick(s)}]
        BY <3>1 DEF Sums
      <3> QED
        BY <3>4, <3>5
    <2> QED
      BY <2>1
  <1>3. Nat \subseteq Q
    <2> HIDE DEF Q
    <2> QED
      BY <1>1, <1>2, EveryNumber
  <1>4. Cardinality(T) \in Nat
    BY FS_Subset, FS_CardinalityType
  <1> QED
    BY <1>3, <1>4

(* A sum is its first term and the sum of the rest. *)
LEMMA SumRest ==
  ASSUME NEW f, NEW S, IsFiniteSet(S)
  PROVE  SumFunctionOnSet(f, S) =
           IF S = {} THEN 0 ELSE f[Pick(S)] + SumFunctionOnSet(f, S \ {Pick(S)})
  <1> DEFINE G(T) == CHOOSE g : Sums(f, SUBSET T, g)  R == S \ {Pick(S)}
  <1>1. Sums(f, SUBSET S, G(S))
    BY SumsExist
  <1>2. SumFunctionOnSet(f, S) = G(S)[S]
    BY SumIs
  <1>3. G(S)[S] = IF S = {} THEN 0 ELSE f[Pick(S)] + G(S)[R]
    <2> HIDE DEF G
    <2> QED
      BY <1>1 DEF Sums
  <1>4. IsFiniteSet(R) /\ R \in SUBSET S
    BY FS_RemoveElement
  <1>5. Sums(f, SUBSET R, G(R)) /\ SumFunctionOnSet(f, R) = G(R)[R]
    BY <1>4, SumsExist, SumIs
  <1>6. G(S)[R] = G(R)[R]
    <2> HIDE DEF G, R
    <2> QED
      BY <1>1, <1>4, <1>5, SumsAgree
  <1> QED
    BY <1>2, <1>3, <1>5, <1>6

-----------------------------------------------------------------------------
(* What sums do.                                                             *)

(* The sum of nothing. *)
LEMMA SumEmpty ==
  ASSUME NEW f
  PROVE  SumFunctionOnSet(f, {}) = 0
  BY SumRest, FS_EmptySet

(* A sum of whole numbers is a whole number. *)
LEMMA SumType ==
  ASSUME NEW f, NEW S, IsFiniteSet(S), \A x \in S : f[x] \in Int
  PROVE  SumFunctionOnSet(f, S) \in Int
  <1> DEFINE Q == {n \in Nat : \A T \in SUBSET S : Cardinality(T) = n => SumFunctionOnSet(f, T) \in Int}
  <1>1. 0 \in Q
    <2>1. \A T \in SUBSET S : Cardinality(T) = 0 => T = {}
      BY FS_EmptySet, FS_Subset
    <2> QED
      BY <2>1, SumEmpty
  <1>2. ASSUME NEW n \in Nat, n \in Q
        PROVE  n + 1 \in Q
    <2>1. ASSUME NEW T \in SUBSET S, Cardinality(T) = n + 1
          PROVE  SumFunctionOnSet(f, T) \in Int
      <3>1. IsFiniteSet(T) /\ T # {}
        BY <2>1, FS_EmptySet, FS_Subset
      <3>2. Pick(T) \in T /\ f[Pick(T)] \in Int
        BY <3>1, PickIs
      <3>3. Cardinality(T \ {Pick(T)}) = Cardinality(T) - 1
        BY <3>1, <3>2, FS_RemoveElement
      <3>4. Cardinality(T \ {Pick(T)}) = n
        BY <2>1, <3>3
      <3>5. SumFunctionOnSet(f, T \ {Pick(T)}) \in Int
        BY <1>2, <3>4
      <3>6. SumFunctionOnSet(f, T) = f[Pick(T)] + SumFunctionOnSet(f, T \ {Pick(T)})
        BY <3>1, SumRest
      <3> QED
        BY <3>2, <3>5, <3>6
    <2> QED
      BY <2>1
  <1>3. Nat \subseteq Q
    <2> HIDE DEF Q
    <2> QED
      BY <1>1, <1>2, EveryNumber
  <1>4. Cardinality(S) \in Nat
    BY FS_CardinalityType
  <1> QED
    BY <1>3, <1>4

(* Whatever its recursion takes first, a sum is any of its terms and the sum of the others. *)
LEMMA SumRemove ==
  ASSUME NEW f, NEW S, IsFiniteSet(S), \A x \in S : f[x] \in Int, NEW y \in S
  PROVE  SumFunctionOnSet(f, S) = f[y] + SumFunctionOnSet(f, S \ {y})
  <1> DEFINE Q == {n \in Nat : \A T \in SUBSET S : Cardinality(T) = n =>
                     \A x \in T : SumFunctionOnSet(f, T) = f[x] + SumFunctionOnSet(f, T \ {x})}
  <1>1. 0 \in Q
    <2>1. \A T \in SUBSET S : Cardinality(T) = 0 => T = {}
      BY FS_EmptySet, FS_Subset
    <2> QED
      BY <2>1
  <1>2. ASSUME NEW n \in Nat, n \in Q
        PROVE  n + 1 \in Q
    <2>1. ASSUME NEW T \in SUBSET S, Cardinality(T) = n + 1, NEW x \in T
          PROVE  SumFunctionOnSet(f, T) = f[x] + SumFunctionOnSet(f, T \ {x})
      <3> DEFINE p == Pick(T)
      <3>1. IsFiniteSet(T) /\ p \in T
        BY <2>1, FS_Subset, PickIs
      <3>2. SumFunctionOnSet(f, T) = f[p] + SumFunctionOnSet(f, T \ {p})
        BY <3>1, SumRest
      <3>3. \A z \in T : Cardinality(T \ {z}) = n
        <4>1. \A z \in T : Cardinality(T \ {z}) = Cardinality(T) - 1
          BY <3>1, FS_RemoveElement
        <4> QED
          BY <2>1, <4>1
      <3>4. CASE x = p
        BY <3>2, <3>4
      <3>5. CASE x # p
        <4> DEFINE R == (T \ {p}) \ {x}
        <4>1. SumFunctionOnSet(f, T \ {p}) = f[x] + SumFunctionOnSet(f, R)
          BY <1>2, <2>1, <3>1, <3>3, <3>5
        <4>2. SumFunctionOnSet(f, T \ {x}) = f[p] + SumFunctionOnSet(f, (T \ {x}) \ {p})
          BY <1>2, <2>1, <3>1, <3>3, <3>5
        <4>3. SumFunctionOnSet(f, T \ {x}) = f[p] + SumFunctionOnSet(f, R)
          <5>1. (T \ {x}) \ {p} = R
            OBVIOUS
          <5> HIDE DEF R
          <5> QED
            BY <4>2, <5>1, Zenon
        <4>4. IsFiniteSet(R) /\ R \subseteq S /\ f[x] \in Int /\ f[p] \in Int
          BY <2>1, <3>1, FS_RemoveElement
        <4>5. SumFunctionOnSet(f, R) \in Int
          BY <4>4, SumType
        <4> HIDE DEF R, p
        <4> QED
          BY <3>2, <4>1, <4>3, <4>4, <4>5
      <3> QED
        BY <3>4, <3>5
    <2> QED
      BY <2>1
  <1>3. Nat \subseteq Q
    <2> HIDE DEF Q
    <2> QED
      BY <1>1, <1>2, EveryNumber
  <1>4. Cardinality(S) \in Nat
    BY FS_CardinalityType
  <1> QED
    BY <1>3, <1>4

(* A new term is added to a sum. *)
LEMMA SumAdd ==
  ASSUME NEW f, NEW S, IsFiniteSet(S), NEW y, y \notin S, \A x \in S \cup {y} : f[x] \in Int
  PROVE  SumFunctionOnSet(f, S \cup {y}) = f[y] + SumFunctionOnSet(f, S)
  <1>1. IsFiniteSet(S \cup {y}) /\ (S \cup {y}) \ {y} = S
    BY FS_AddElement
  <1> QED
    BY <1>1, SumRemove

(* The sum of one term. *)
LEMMA SumOne ==
  ASSUME NEW f, NEW y, f[y] \in Int
  PROVE  SumFunctionOnSet(f, {y}) = f[y]
  <1>1. {} \cup {y} = {y} /\ IsFiniteSet({})
    BY FS_EmptySet
  <1>2. SumFunctionOnSet(f, {} \cup {y}) = f[y] + SumFunctionOnSet(f, {})
    BY <1>1, SumAdd
  <1> QED
    BY <1>1, <1>2, SumEmpty

(* Only the terms count. *)
LEMMA SumSame ==
  ASSUME NEW f, NEW g, NEW S, IsFiniteSet(S), \A x \in S : f[x] = g[x] /\ f[x] \in Int
  PROVE  SumFunctionOnSet(f, S) = SumFunctionOnSet(g, S)
  <1> DEFINE P == {T \in SUBSET S : SumFunctionOnSet(f, T) = SumFunctionOnSet(g, T)}
  <1>1. {} \in P
    BY SumEmpty
  <1>2. ASSUME NEW T \in SUBSET S, NEW y \in S \ T, T \in P
        PROVE  T \cup {y} \in P
    <2>1. IsFiniteSet(T)
      BY FS_Subset
    <2>2. /\ SumFunctionOnSet(f, T \cup {y}) = f[y] + SumFunctionOnSet(f, T)
          /\ SumFunctionOnSet(g, T \cup {y}) = g[y] + SumFunctionOnSet(g, T)
      BY <2>1, SumAdd
    <2> QED
      BY <1>2, <2>2
  <1>3. S \in P
    <2> HIDE DEF P
    <2> QED
      BY <1>1, <1>2, EveryPart
  <1> QED
    BY <1>3

(* A sum of sums, term by term. *)
LEMMA SumPlus ==
  ASSUME NEW f, NEW g, NEW h, NEW S, IsFiniteSet(S),
         \A x \in S : f[x] \in Int /\ g[x] \in Int /\ h[x] = f[x] + g[x]
  PROVE  SumFunctionOnSet(h, S) = SumFunctionOnSet(f, S) + SumFunctionOnSet(g, S)
  <1> DEFINE P == {T \in SUBSET S :
                     SumFunctionOnSet(h, T) = SumFunctionOnSet(f, T) + SumFunctionOnSet(g, T)}
  <1>1. {} \in P
    BY SumEmpty
  <1>2. ASSUME NEW T \in SUBSET S, NEW y \in S \ T, T \in P
        PROVE  T \cup {y} \in P
    <2>1. IsFiniteSet(T) /\ \A x \in S : h[x] \in Int
      BY FS_Subset
    <2>2. /\ SumFunctionOnSet(f, T \cup {y}) = f[y] + SumFunctionOnSet(f, T)
          /\ SumFunctionOnSet(g, T \cup {y}) = g[y] + SumFunctionOnSet(g, T)
          /\ SumFunctionOnSet(h, T \cup {y}) = h[y] + SumFunctionOnSet(h, T)
      BY <2>1, SumAdd
    <2>3. SumFunctionOnSet(f, T) \in Int /\ SumFunctionOnSet(g, T) \in Int
      BY <2>1, SumType
    <2>4. SumFunctionOnSet(h, T) = SumFunctionOnSet(f, T) + SumFunctionOnSet(g, T)
      BY <1>2
    <2>5. f[y] \in Int /\ g[y] \in Int /\ h[y] = f[y] + g[y]
      OBVIOUS
    <2> QED
      BY <2>2, <2>3, <2>4, <2>5
  <1>3. S \in P
    <2> HIDE DEF P
    <2> QED
      BY <1>1, <1>2, EveryPart
  <1> QED
    BY <1>3

(* Two sets that have nothing in common. *)
LEMMA SumUnion ==
  ASSUME NEW f, NEW S, NEW T, IsFiniteSet(S), IsFiniteSet(T), S \cap T = {},
         \A x \in S \cup T : f[x] \in Int
  PROVE  SumFunctionOnSet(f, S \cup T) = SumFunctionOnSet(f, S) + SumFunctionOnSet(f, T)
  <1> DEFINE P == {U \in SUBSET T :
                     SumFunctionOnSet(f, S \cup U) = SumFunctionOnSet(f, S) + SumFunctionOnSet(f, U)}
  <1>1. {} \in P
    <2>1. S \cup {} = S /\ SumFunctionOnSet(f, S) \in Int
      BY SumType
    <2> QED
      BY <2>1, SumEmpty
  <1>2. ASSUME NEW U \in SUBSET T, NEW y \in T \ U, U \in P
        PROVE  U \cup {y} \in P
    <2>1. IsFiniteSet(U) /\ IsFiniteSet(S \cup U) /\ y \notin S \cup U
      BY FS_Subset, FS_Union
    <2>2. SumFunctionOnSet(f, U \cup {y}) = f[y] + SumFunctionOnSet(f, U)
      BY <2>1, SumAdd
    <2>3. SumFunctionOnSet(f, (S \cup U) \cup {y}) = f[y] + SumFunctionOnSet(f, S \cup U)
      BY <2>1, SumAdd
    <2>4. SumFunctionOnSet(f, S \cup (U \cup {y})) = f[y] + SumFunctionOnSet(f, S \cup U)
      <3>1. S \cup (U \cup {y}) = (S \cup U) \cup {y}
        OBVIOUS
      <3> QED
        BY <2>3, <3>1, Zenon
    <2>5. SumFunctionOnSet(f, S) \in Int /\ SumFunctionOnSet(f, U) \in Int /\ f[y] \in Int
      BY <2>1, SumType
    <2>6. SumFunctionOnSet(f, S \cup U) = SumFunctionOnSet(f, S) + SumFunctionOnSet(f, U)
      BY <1>2
    <2> QED
      BY <2>2, <2>4, <2>5, <2>6
  <1>3. T \in P
    <2> HIDE DEF P
    <2> QED
      BY <1>1, <1>2, EveryPart
  <1> QED
    BY <1>3

(* The terms under new names. *)
LEMMA SumRenamed ==
  ASSUME NEW f, NEW g, NEW h, NEW S, IsFiniteSet(S),
         \A x, y \in S : h[x] = h[y] => x = y,
         \A x \in S : g[x] = f[h[x]] /\ g[x] \in Int
  PROVE  /\ IsFiniteSet({h[x] : x \in S})
         /\ SumFunctionOnSet(f, {h[x] : x \in S}) = SumFunctionOnSet(g, S)
  <1> DEFINE Img(T) == {h[x] : x \in T}
             P == {T \in SUBSET S : IsFiniteSet(Img(T))
                                    /\ SumFunctionOnSet(f, Img(T)) = SumFunctionOnSet(g, T)}
  <1>1. {} \in P
    <2>1. Img({}) = {}
      OBVIOUS
    <2> QED
      BY <2>1, SumEmpty, FS_EmptySet
  <1>2. ASSUME NEW T \in SUBSET S, NEW y \in S \ T, T \in P
        PROVE  T \cup {y} \in P
    <2>1. IsFiniteSet(T) /\ IsFiniteSet(Img(T))
      BY <1>2, FS_Subset
    <2>2. Img(T \cup {y}) = Img(T) \cup {h[y]} /\ h[y] \notin Img(T)
      OBVIOUS
    <2>3. \A z \in Img(T) \cup {h[y]} : f[z] \in Int
      OBVIOUS
    <2>4. SumFunctionOnSet(g, T \cup {y}) = g[y] + SumFunctionOnSet(g, T)
      BY <2>1, SumAdd
    <2>5. SumFunctionOnSet(f, Img(T)) = SumFunctionOnSet(g, T)
      BY <1>2
    <2> HIDE DEF Img
    <2>6. /\ SumFunctionOnSet(f, Img(T) \cup {h[y]}) = f[h[y]] + SumFunctionOnSet(f, Img(T))
          /\ IsFiniteSet(Img(T) \cup {h[y]})
      BY <2>1, <2>2, <2>3, SumAdd, FS_AddElement
    <2> QED
      BY <2>2, <2>4, <2>5, <2>6
  <1>3. S \in P
    <2> HIDE DEF P
    <2> QED
      BY <1>1, <1>2, EveryPart
  <1> QED
    BY <1>3

(* Terms that are 0 can be left out. *)
LEMMA SumOfPart ==
  ASSUME NEW f, NEW S, IsFiniteSet(S), NEW T \in SUBSET S,
         \A x \in S : f[x] \in Int, \A x \in S \ T : f[x] = 0
  PROVE  SumFunctionOnSet(f, S) = SumFunctionOnSet(f, T)
  <1> DEFINE P == {U \in SUBSET (S \ T) : SumFunctionOnSet(f, U) = 0}
  <1>1. IsFiniteSet(S \ T) /\ IsFiniteSet(T)
    BY FS_Subset
  <1>2. {} \in P
    BY SumEmpty
  <1>3. ASSUME NEW U \in SUBSET (S \ T), NEW y \in (S \ T) \ U, U \in P
        PROVE  U \cup {y} \in P
    <2>1. IsFiniteSet(U)
      BY FS_Subset
    <2>2. SumFunctionOnSet(f, U \cup {y}) = f[y] + SumFunctionOnSet(f, U)
      BY <2>1, SumAdd
    <2> QED
      BY <1>3, <2>2
  <1>4. S \ T \in P
    <2> HIDE DEF P
    <2> QED
      BY <1>1, <1>2, <1>3, EveryPart
  <1>5. SumFunctionOnSet(f, T \cup (S \ T)) = SumFunctionOnSet(f, T) + SumFunctionOnSet(f, S \ T)
    BY <1>1, SumUnion
  <1>6. SumFunctionOnSet(f, T \cup (S \ T)) = SumFunctionOnSet(f, S)
    <2>1. T \cup (S \ T) = S
      OBVIOUS
    <2> QED
      BY <2>1, Zenon
  <1>7. SumFunctionOnSet(f, T) \in Int /\ SumFunctionOnSet(f, S \ T) = 0
    BY <1>1, <1>4, SumType
  <1> QED
    BY <1>5, <1>6, <1>7

(* A term that changes changes the sum by as much. *)
LEMMA SumChange ==
  ASSUME NEW f, NEW g, NEW S, IsFiniteSet(S), NEW y \in S, f[y] \in Int, g[y] \in Int,
         \A x \in S \ {y} : f[x] \in Int /\ g[x] = f[x]
  PROVE  SumFunctionOnSet(g, S) = SumFunctionOnSet(f, S) + (g[y] - f[y])
  <1>1. IsFiniteSet(S \ {y})
    BY FS_RemoveElement
  <1>2. SumFunctionOnSet(f, S \ {y}) = SumFunctionOnSet(g, S \ {y})
    BY <1>1, SumSame
  <1>3. SumFunctionOnSet(f, S) = f[y] + SumFunctionOnSet(f, S \ {y})
    BY SumRemove
  <1>4. SumFunctionOnSet(g, S) = g[y] + SumFunctionOnSet(g, S \ {y})
    BY SumRemove
  <1>5. SumFunctionOnSet(f, S \ {y}) \in Int
    BY <1>1, SumType
  <1> QED
    BY <1>2, <1>3, <1>4, <1>5

(* A sum of natural numbers is a natural number. *)
LEMMA SumNat ==
  ASSUME NEW f, NEW S, IsFiniteSet(S), \A x \in S : f[x] \in Nat
  PROVE  SumFunctionOnSet(f, S) \in Nat
  <1> DEFINE P == {T \in SUBSET S : SumFunctionOnSet(f, T) \in Nat}
  <1>1. {} \in P
    BY SumEmpty
  <1>2. ASSUME NEW T \in SUBSET S, NEW y \in S \ T, T \in P
        PROVE  T \cup {y} \in P
    <2>1. IsFiniteSet(T)
      BY FS_Subset
    <2>2. \A x \in T \cup {y} : f[x] \in Int
      OBVIOUS
    <2>3. SumFunctionOnSet(f, T \cup {y}) = f[y] + SumFunctionOnSet(f, T)
      BY <2>1, <2>2, SumAdd
    <2>4. f[y] \in Nat /\ SumFunctionOnSet(f, T) \in Nat
      BY <1>2
    <2>5. SumFunctionOnSet(f, T \cup {y}) \in Nat
      BY <2>3, <2>4
    <2> QED
      BY <2>5
  <1> HIDE DEF P
  <1>3. S \in P
    BY <1>1, <1>2, EveryPart
  <1> QED
    BY <1>3 DEF P

(* A sum of terms that are not greater is not greater. *)
LEMMA SumAtMost ==
  ASSUME NEW f, NEW g, NEW S, IsFiniteSet(S), \A x \in S : f[x] \in Int /\ g[x] \in Int /\ f[x] <= g[x]
  PROVE  SumFunctionOnSet(f, S) <= SumFunctionOnSet(g, S)
  <1>1. PICK d : d = [x \in S |-> g[x] - f[x]]
    OBVIOUS
  <1>2. \A x \in S : d[x] \in Nat /\ d[x] \in Int /\ g[x] = f[x] + d[x]
    BY <1>1
  <1>3. SumFunctionOnSet(g, S) = SumFunctionOnSet(f, S) + SumFunctionOnSet(d, S)
    BY <1>2, SumPlus
  <1>4. SumFunctionOnSet(d, S) \in Nat /\ SumFunctionOnSet(f, S) \in Int
    BY <1>2, SumNat, SumType
  <1> QED
    BY <1>3, <1>4

(* The numbers up to n are finitely many: the positions of a sequence. *)
LEMMA UpToFinite ==
  ASSUME NEW n \in Nat
  PROVE  IsFiniteSet(1..n)
  <1>1. 1 \in Int /\ n \in Int
    OBVIOUS
  <1> QED BY <1>1, FS_Interval

=============================================================================
