-------------------------- MODULE AlgorithmsProofs --------------------------
(***************************************************************************)
(* Proofs about Algorithms, for any payloads, tables, limits, texts and    *)
(* trees: what an import leaves in the table and in the file, where a text *)
(* is split, and what a listing of the persistence root says.              *)
(***************************************************************************)
EXTENDS Algorithms, SequenceTheorems, FiniteSetTheorems, WellFoundedInduction, TLAPS

-----------------------------------------------------------------------------
(* Numbers in rising order                                                 *)

(* A set of naturals has a least element.                                  *)
LEMMA Least ==
    ASSUME NEW S, S \subseteq Nat, S # {}
    PROVE  \E x \in S : \A y \in S : x <= y
  <1>1. IsWellFoundedOn(OpToRel(<, Nat), Nat)
    BY NatLessThanWellFounded
  <1>2. PICK x \in S : \A y \in S : << y, x >> \notin OpToRel(<, Nat)
    BY <1>1, WFMin
  <1>3. \A y \in S : ~(y < x)
    BY <1>2 DEF OpToRel
  <1>. QED  BY <1>3

LEMMA MinTwo ==
    ASSUME NEW a \in Int, NEW b \in Int
    PROVE  Min({a, b}) = IF a <= b THEN a ELSE b
  <1> DEFINE m == IF a <= b THEN a ELSE b
  <1>1. m \in {a, b} /\ \A x \in {a, b} : (\A y \in {a, b} : x <= y) <=> x = m
    OBVIOUS
  <1> HIDE DEF m
  <1>2. Min({a, b}) = m
    BY <1>1 DEF Min
  <1>. QED  BY <1>2 DEF m

LEMMA MaxTwo ==
    ASSUME NEW a \in Int, NEW b \in Int
    PROVE  Max({a, b}) = IF a >= b THEN a ELSE b
  <1> DEFINE m == IF a >= b THEN a ELSE b
  <1>1. m \in {a, b} /\ \A x \in {a, b} : (\A y \in {a, b} : x >= y) <=> x = m
    OBVIOUS
  <1> HIDE DEF m
  <1>2. Max({a, b}) = m
    BY <1>1 DEF Max
  <1>. QED  BY <1>2 DEF m

(* A finite set of numbers that is not empty has a greatest one: a least   *)
(* set without is empty when one more is taken away.                       *)
LEMMA Greatest ==
    ASSUME NEW S, IsFiniteSet(S), S \subseteq Int, S # {}
    PROVE  \E x \in S : \A y \in S : y <= x
  <1> DEFINE Has(T) == \E x \in T : \A y \in T : y <= x
             Bad == {n \in Nat : \E T \in SUBSET S : T # {} /\ Cardinality(T) = n /\ ~Has(T)}
  <1>1. SUFFICES ASSUME Bad # {} PROVE FALSE
    <2>1. Cardinality(S) \in Nat
      BY FS_CardinalityType
    <2>. QED  BY <1>1, <2>1
  <1>2. PICK n \in Bad : \A k \in Bad : n <= k
    <2>1. Bad \subseteq Nat
      OBVIOUS
    <2> HIDE DEF Bad
    <2>. QED  BY <1>1, <2>1, Least
  <1>3. PICK T \in SUBSET S : T # {} /\ Cardinality(T) = n /\ ~Has(T)
    BY <1>2
  <1>4. PICK x \in T : TRUE
    BY <1>3
  <1>5. IsFiniteSet(T) /\ Cardinality(T \ {x}) = n - 1 /\ n - 1 \in Nat
    <2>1. IsFiniteSet(T)
      BY <1>3, FS_Subset
    <2>2. IsFiniteSet(T \ {x}) /\ Cardinality(T \ {x}) = Cardinality(T) - 1
      BY <1>4, <2>1, FS_RemoveElement
    <2>3. Cardinality(T \ {x}) \in Nat
      BY <2>2, FS_CardinalityType
    <2>. QED  BY <1>3, <2>1, <2>2, <2>3
  <1>6. CASE T \ {x} = {}
    <2>1. \A y \in T : y = x
      BY <1>6
    <2>. QED  BY <1>3, <1>4, <2>1
  <1>7. CASE T \ {x} # {}
    <2>1. n - 1 \notin Bad /\ n \in Nat
      BY <1>2, <1>5
    <2>2. Has(T \ {x})
      BY <1>3, <1>5, <1>7, <2>1
    <2>3. PICK m \in T \ {x} : \A y \in T \ {x} : y <= m
      BY <2>2
    <2>4. m \in Int /\ x \in Int
      BY <1>3, <1>4, <2>3
    <2>5. \A y \in T : y <= (IF m >= x THEN m ELSE x)
      BY <1>3, <2>3, <2>4
    <2>. QED  BY <1>3, <1>4, <2>3, <2>4, <2>5
  <1>. QED  BY <1>6, <1>7

(* order numbers the elements of S from the least one on.                  *)
Rises(order, S) ==
    /\ order \in [1 .. Cardinality(S) -> S]
    /\ \A i, j \in 1 .. Cardinality(S) : i < j => order[i] < order[j]

(* The same, all of them, n in number.                                     *)
Counts(order, n, S) ==
    /\ order \in [1 .. n -> S]
    /\ \A i, j \in 1 .. n : i < j => order[i] < order[j]
    /\ \A x \in S : \E i \in 1 .. n : order[i] = x

LEMMA RisesExists ==
    ASSUME NEW S, IsFiniteSet(S), S \subseteq Int
    PROVE  \E order : Rises(order, S)
  <1> DEFINE Bad == {n \in Nat : \E T \in SUBSET S : /\ Cardinality(T) = n
                                                     /\ ~\E order : Rises(order, T)}
  <1>1. SUFFICES ASSUME Bad # {} PROVE FALSE
    <2>1. Cardinality(S) \in Nat
      BY FS_CardinalityType
    <2>. QED  BY <1>1, <2>1
  <1>2. PICK n \in Bad : \A k \in Bad : n <= k
    <2>1. Bad \subseteq Nat
      OBVIOUS
    <2> HIDE DEF Bad
    <2>. QED  BY <1>1, <2>1, Least
  <1>3. PICK T \in SUBSET S : Cardinality(T) = n /\ ~\E order : Rises(order, T)
    BY <1>2
  <1>4. IsFiniteSet(T) /\ n \in Nat
    BY <1>2, <1>3, FS_Subset
  <1>5. CASE T = {}
    <2>1. Cardinality(T) = 0
      BY <1>5, FS_EmptySet
    <2>2. Rises([i \in 1 .. 0 |-> 0], T)
      BY <2>1 DEF Rises
    <2>. QED  BY <1>3, <2>2
  <1>6. CASE T # {}
    <2>1. PICK m \in T : \A y \in T : y <= m
      BY <1>3, <1>4, <1>6, Greatest
    <2>2. /\ IsFiniteSet(T \ {m}) /\ Cardinality(T \ {m}) = n - 1
          /\ Cardinality(T \ {m}) \in Nat
      <3>1. IsFiniteSet(T \ {m}) /\ Cardinality(T \ {m}) = Cardinality(T) - 1
        BY <1>4, <2>1, FS_RemoveElement
      <3>. QED  BY <1>3, <3>1, FS_CardinalityType
    <2>3. n - 1 \notin Bad
      BY <1>2, <2>2, <1>4
    <2>4. PICK o : Rises(o, T \ {m})
      BY <1>3, <2>2, <2>3
    <2> DEFINE p == [i \in 1 .. n |-> IF i < n THEN o[i] ELSE m]
    <2>5. /\ \A i \in 1 .. n : i < n => o[i] \in T \ {m}
          /\ \A i, j \in 1 .. n - 1 : i < j => o[i] < o[j]
      <3>1. /\ o \in [1 .. n - 1 -> T \ {m}]
            /\ \A i, j \in 1 .. n - 1 : i < j => o[i] < o[j]
        BY <2>2, <2>4 DEF Rises
      <3>. QED  BY <3>1, <1>4
    <2>6. p \in [1 .. n -> T]
      BY <2>1, <2>5
    <2>7. \A i, j \in 1 .. n : i < j => p[i] < p[j]
      <3>1. SUFFICES ASSUME NEW i \in 1 .. n, NEW j \in 1 .. n, i < j PROVE p[i] < p[j]
        OBVIOUS
      <3>2. i < n /\ p[i] = o[i] /\ o[i] \in T \ {m}
        BY <3>1, <2>5, <1>4
      <3>3. CASE j < n
        <4>1. i \in 1 .. n - 1 /\ j \in 1 .. n - 1 /\ p[j] = o[j]
          BY <3>1, <3>3, <1>4
        <4>. QED  BY <3>1, <3>2, <4>1, <2>5
      <3>4. CASE j = n
        <4>1. o[i] <= m /\ o[i] # m /\ o[i] \in Int /\ m \in Int
          BY <3>2, <2>1, <1>3
        <4>2. p[j] = m
          BY <3>1, <3>4, <1>4
        <4>. QED  BY <3>2, <4>1, <4>2
      <3>. QED  BY <3>3, <3>4, <1>4
    <2>8. Rises(p, T)
      BY <1>3, <2>6, <2>7 DEF Rises
    <2>. QED  BY <1>3, <2>8
  <1>. QED  BY <1>5, <1>6

LEMMA RisingRises ==
    ASSUME NEW S, IsFiniteSet(S), S \subseteq Int
    PROVE  Cardinality(S) \in Nat /\ Counts(Rising(S), Cardinality(S), S)
  <1> DEFINE n == Cardinality(S)
             o == Rising(S)
  <1>1. n \in Nat
    BY FS_CardinalityType
  <1>2. Rises(o, S)
    <2>1. \E order \in [1 .. n -> S] : \A i, j \in DOMAIN order : i < j => order[i] < order[j]
      BY RisesExists DEF Rises
    <2>2. o \in [1 .. n -> S] /\ \A i, j \in DOMAIN o : i < j => o[i] < o[j]
      BY <2>1 DEF Rising
    <2>. QED  BY <2>2 DEF Rises
  <1>3. \A i, j \in 1 .. n : o[i] = o[j] => i = j
    <2>1. \A i, j \in 1 .. n : o[i] \in Int /\ o[j] \in Int /\ (i < j => o[i] < o[j])
      BY <1>2 DEF Rises
    <2> HIDE DEF o, n
    <2>. QED  BY <1>1, <2>1
  <1>4. o \in Injection(1 .. n, S)
    BY <1>2, <1>3 DEF Rises, Injection, IsInjective
  <1>5. Cardinality(1 .. n) = n
    BY <1>1, FS_Interval
  <1>6. o \in Surjection(1 .. n, S)
    BY <1>4, <1>5, FS_Injection
  <1>. QED  BY <1>1, <1>2, <1>6 DEF Surjection, Counts, Rises

(* There is only one rising order: where two differ first, each is below   *)
(* the other.                                                              *)
LEMMA RisingIs ==
    ASSUME NEW S, S \subseteq Int, NEW n \in Nat, NEW o, Counts(o, n, S)
    PROVE  IsFiniteSet(S) /\ Cardinality(S) = n /\ Rising(S) = o
  <1>0. /\ o \in [1 .. n -> S]
        /\ \A i, j \in 1 .. n : i < j => o[i] < o[j]
        /\ \A x \in S : \E i \in 1 .. n : o[i] = x
    BY DEF Counts
  <1>1. \A i \in 1 .. n : o[i] \in Int
    BY <1>0
  <1>2. \A i, j \in 1 .. n : o[i] = o[j] => i = j
    BY <1>0, <1>1
  <1>3. IsFiniteSet(1 .. n) /\ Cardinality(1 .. n) = n
    BY FS_Interval
  <1>4. o \in Bijection(1 .. n, S)
    BY <1>0, <1>2 DEF Bijection, Injection, Surjection, IsInjective
  <1>5. IsFiniteSet(S) /\ Cardinality(S) = n
    BY <1>3, <1>4, FS_Bijection DEF ExistsBijection
  <1> DEFINE p == Rising(S)
  <1>6. /\ p \in [1 .. n -> S]
        /\ \A i, j \in 1 .. n : i < j => p[i] < p[j]
        /\ \A x \in S : \E i \in 1 .. n : p[i] = x
    BY <1>5, RisingRises DEF Counts
  <1> HIDE DEF p
  <1>7. ASSUME p # o PROVE FALSE
    <2> DEFINE D == {i \in 1 .. n : p[i] # o[i]}
    <2>1. D # {}
      BY <1>0, <1>6, <1>7
    <2>2. PICK d \in D : \A e \in D : d <= e
      <3>1. D \subseteq Nat
        OBVIOUS
      <3> HIDE DEF D
      <3>. QED  BY <2>1, <3>1, Least
    <2>3. d \in 1 .. n /\ p[d] # o[d] /\ p[d] \in S /\ o[d] \in S
      BY <2>2, <1>0, <1>6
    <2>4. \A e \in 1 .. n : e < d => p[e] = o[e]
      BY <2>2
    <2>5. PICK e \in 1 .. n : p[e] = o[d]
      BY <1>6, <2>3
    <2>6. PICK f \in 1 .. n : o[f] = p[d]
      BY <1>0, <2>3
    <2>7. ~(e < d)
      <3>1. SUFFICES ASSUME e < d PROVE FALSE
        OBVIOUS
      <3>2. o[e] = o[d]
        BY <2>4, <2>5, <3>1
      <3>. QED  BY <3>1, <3>2, <2>3, <2>5, <1>2
    <2>8. ~(f < d)
      <3>1. SUFFICES ASSUME f < d PROVE FALSE
        OBVIOUS
      <3>2. p[f] = p[d] /\ p[f] < p[d] /\ p[d] \in Int
        BY <2>4, <2>6, <3>1, <1>6, <2>3
      <3>. QED  BY <3>2
    <2>9. d < e /\ d < f
      BY <2>3, <2>5, <2>6, <2>7, <2>8
    <2>10. p[d] < p[e] /\ o[d] < o[f]
      BY <2>3, <2>5, <2>6, <2>9, <1>0, <1>6
    <2>11. o[d] \in Int /\ p[d] \in Int
      BY <2>3
    <2>. QED  BY <2>5, <2>6, <2>10, <2>11
  <1>. QED  BY <1>5, <1>7 DEF p

-----------------------------------------------------------------------------
(* What is picked from a sequence                                          *)

(* Its places S hold what is in R.                                         *)
Holds(seq, S, R) == \A i \in S : seq[i] \in R

(* picked has the places of seq that order names, one after the other.     *)
Takes(picked, order, n, seq, R) ==
    /\ picked \in Seq(R) /\ Len(picked) = n
    /\ \A i \in 1 .. n : picked[i] = seq[order[i]]

LEMMA PickedSeq ==
    ASSUME NEW R, NEW seq, NEW S, IsFiniteSet(S), S \subseteq Int, Holds(seq, S, R)
    PROVE  Takes(Picked(seq, S), Rising(S), Cardinality(S), seq, R)
  <1>0. \A i \in S : seq[i] \in R
    BY DEF Holds
  <1> DEFINE n == Cardinality(S)
             r == Rising(S)
             picked == [i \in 1 .. n |-> seq[r[i]]]
  <1>1. n \in Nat /\ r \in [1 .. n -> S]
    BY RisingRises DEF Counts
  <1>2. Picked(seq, S) = [i \in DOMAIN r |-> seq[r[i]]]
    BY DEF Picked
  <1> HIDE DEF n, r
  <1>3. picked \in [1 .. n -> R] /\ \A i \in 1 .. n : picked[i] = seq[r[i]]
    BY <1>0, <1>1
  <1>4. Picked(seq, S) = picked
    BY <1>1, <1>2
  <1>5. picked \in Seq(R) /\ Len(picked) = n
    <2> HIDE DEF picked
    <2>. QED  BY <1>1, <1>3, SeqDef, LenProperties
  <1>. QED  BY <1>3, <1>4, <1>5 DEF n, r, Takes

(* Everything is picked.                                                   *)
LEMMA PickedAll ==
    ASSUME NEW R, NEW old \in Seq(R), NEW seq, \A i \in 1 .. Len(old) : seq[i] = old[i]
    PROVE  Picked(seq, 1 .. Len(old)) = old
  <1> DEFINE n == Len(old)
             S == 1 .. n
             o == [i \in 1 .. n |-> i]
  <1>1. n \in Nat
    BY LenProperties
  <1>2. S \subseteq Int /\ Counts(o, n, S) /\ \A i \in 1 .. n : o[i] = i
    BY <1>1 DEF Counts
  <1> HIDE DEF n, o
  <1>3. IsFiniteSet(S) /\ Cardinality(S) = n /\ Rising(S) = o
    <2> HIDE DEF S
    <2>. QED  BY <1>1, <1>2, RisingIs
  <1>4. Holds(seq, S, R)
    BY DEF n, Holds
  <1> HIDE DEF S
  <1>5. /\ Picked(seq, S) \in Seq(R) /\ Len(Picked(seq, S)) = n
        /\ \A i \in 1 .. n : Picked(seq, S)[i] = seq[o[i]]
    <2>1. Takes(Picked(seq, S), o, n, seq, R)
      BY <1>2, <1>3, <1>4, PickedSeq
    <2>. QED  BY <2>1 DEF Takes
  <1>6. \A i \in 1 .. n : Picked(seq, S)[i] = old[i]
    BY <1>2, <1>5 DEF n
  <1>7. Picked(seq, S) = old
    BY <1>5, <1>6, SeqEqual DEF n
  <1>. QED  BY <1>7 DEF S, n

(* The places in the order of W at which there is something of V.          *)
PlacesOf(V, W) == {j \in 1 .. Cardinality(W) : Rising(W)[j] \in V}

Numbers(S) == IsFiniteSet(S) /\ S \subseteq Int

(* What is picked from what is picked.                                     *)
LEMMA PickedTwice ==
    ASSUME NEW R, NEW seq, NEW W, Numbers(W), Holds(seq, W, R), NEW V \in SUBSET W
    PROVE  Picked(Picked(seq, W), PlacesOf(V, W)) = Picked(seq, V)
  <1> DEFINE n == Cardinality(W)
             places == PlacesOf(V, W)
             r == Rising(W)
             k == Cardinality(places)
             q == Rising(places)
             o == [i \in 1 .. k |-> r[q[i]]]
             inner == Picked(seq, W)
  <1>0. IsFiniteSet(W) /\ W \subseteq Int
    BY DEF Numbers
  <1>1. /\ n \in Nat /\ r \in [1 .. n -> W]
        /\ \A i, j \in 1 .. n : i < j => r[i] < r[j]
        /\ \A x \in W : \E i \in 1 .. n : r[i] = x
    BY <1>0, RisingRises DEF Counts
  <1>2. IsFiniteSet(places) /\ places \subseteq 1 .. n /\ places \subseteq Int
    <2>1. IsFiniteSet(1 .. n) /\ places \in SUBSET (1 .. n)
      BY <1>1, FS_Interval DEF PlacesOf
    <2>2. IsFiniteSet(places)
      BY <2>1, FS_Subset
    <2>. QED  BY <2>1, <2>2
  <1>3. /\ k \in Nat /\ q \in [1 .. k -> places]
        /\ \A i, j \in 1 .. k : i < j => q[i] < q[j]
        /\ \A x \in places : \E i \in 1 .. k : q[i] = x
    BY <1>2, RisingRises DEF Counts
  <1>4. /\ inner \in Seq(R) /\ Len(inner) = n
        /\ \A i \in 1 .. n : inner[i] = seq[r[i]] /\ inner[i] \in R
    <2>1. Takes(inner, r, n, seq, R)
      BY <1>0, PickedSeq
    <2> HIDE DEF inner, n, r
    <2>. QED  BY <1>1, <2>1 DEF Takes
  <1>5. \A j \in places : j \in 1 .. n /\ r[j] \in V
    BY DEF PlacesOf
  <1>6. \A x \in V : \E j \in places : r[j] = x
    BY <1>1 DEF PlacesOf
  <1>7. /\ Picked(inner, places) \in Seq(R) /\ Len(Picked(inner, places)) = k
        /\ \A i \in 1 .. k : Picked(inner, places)[i] = inner[q[i]]
    <2>1. Holds(inner, places, R)
      BY <1>2, <1>4 DEF Holds
    <2>2. Takes(Picked(inner, places), q, k, inner, R)
      BY <1>2, <2>1, PickedSeq
    <2>. QED  BY <2>2 DEF Takes
  <1> HIDE DEF n, r, k, q, inner
  <1>8. o \in [1 .. k -> V] /\ \A i \in 1 .. k : q[i] \in places /\ o[i] = r[q[i]]
    BY <1>3, <1>5
  <1>9. Counts(o, k, V)
    <2> HIDE DEF o
    <2>1. \A i, j \in 1 .. k : i < j => o[i] < o[j]
      <3>1. SUFFICES ASSUME NEW i \in 1 .. k, NEW j \in 1 .. k, i < j PROVE o[i] < o[j]
        OBVIOUS
      <3>2. q[i] \in 1 .. n /\ q[j] \in 1 .. n /\ q[i] < q[j]
        BY <3>1, <1>2, <1>3
      <3>. QED  BY <3>2, <1>1, <1>8
    <2>2. \A x \in V : \E i \in 1 .. k : o[i] = x
      BY <1>3, <1>6, <1>8
    <2>. QED  BY <1>8, <2>1, <2>2 DEF Counts
  <1> HIDE DEF o
  <1>10. V \subseteq Int /\ Holds(seq, V, R)
    BY <1>0 DEF Holds
  <1>11. IsFiniteSet(V) /\ Cardinality(V) = k /\ Rising(V) = o
    BY <1>3, <1>9, <1>10, RisingIs
  <1>12. /\ Picked(seq, V) \in Seq(R) /\ Len(Picked(seq, V)) = k
         /\ \A i \in 1 .. k : Picked(seq, V)[i] = seq[o[i]]
    <2>1. Takes(Picked(seq, V), o, k, seq, R)
      BY <1>10, <1>11, PickedSeq
    <2>. QED  BY <2>1 DEF Takes
  <1>13. \A i \in 1 .. k : Picked(inner, places)[i] = Picked(seq, V)[i]
    <2>1. SUFFICES ASSUME NEW i \in 1 .. k
                   PROVE  Picked(inner, places)[i] = Picked(seq, V)[i]
      OBVIOUS
    <2>2. q[i] \in 1 .. n /\ o[i] = r[q[i]]
      BY <1>5, <1>8
    <2>. QED  BY <2>2, <1>4, <1>7, <1>12
  <1>14. Picked(inner, places) = Picked(seq, V)
    BY <1>7, <1>12, <1>13, SeqEqual
  <1>. QED  BY <1>14 DEF inner

(* One more place, above all others.                                       *)
LEMMA PickedNext ==
    ASSUME NEW R, NEW n \in Nat, NEW W \in SUBSET (1 .. n),
           NEW seq, Holds(seq, W \union {n + 1}, R)
    PROVE  /\ Picked(seq, W \union {n + 1}) = Append(Picked(seq, W), seq[n + 1])
           /\ Cardinality(W \union {n + 1}) = Cardinality(W) + 1
  <1> DEFINE k == Cardinality(W)
             m == k + 1
             r == Rising(W)
             V == W \union {n + 1}
             o == [i \in 1 .. m |-> IF i <= k THEN r[i] ELSE n + 1]
             inner == Picked(seq, W)
             app == Append(inner, seq[n + 1])
  <1>1. IsFiniteSet(W) /\ W \subseteq Int
    <2>1. IsFiniteSet(1 .. n)
      BY FS_Interval
    <2>2. IsFiniteSet(W)
      BY <2>1, FS_Subset
    <2>. QED  BY <2>2
  <1>2. /\ k \in Nat /\ r \in [1 .. k -> W]
        /\ \A i, j \in 1 .. k : i < j => r[i] < r[j]
        /\ \A x \in W : \E i \in 1 .. k : r[i] = x
    BY <1>1, RisingRises DEF Counts
  <1>3. inner \in Seq(R) /\ Len(inner) = k /\ \A i \in 1 .. k : inner[i] = seq[r[i]]
    <2>1. Holds(seq, W, R)
      BY DEF Holds
    <2>2. Takes(inner, r, k, seq, R)
      BY <1>1, <2>1, PickedSeq
    <2>. QED  BY <2>2 DEF Takes
  <1> HIDE DEF k, r, inner
  <1>4. V \subseteq Int /\ m \in Nat /\ o \in [1 .. m -> V] /\ Holds(seq, V, R)
    BY <1>1, <1>2
  <1>5. \A i \in 1 .. m : i \in 1 .. k \/ i = m
    BY <1>2
  <1>6. \A i \in 1 .. k : i \in 1 .. m /\ i < m /\ o[i] = r[i] /\ r[i] \in 1 .. n
    <2>1. \A i \in 1 .. k : i \in 1 .. m /\ i < m /\ i <= k
      BY <1>2
    <2>2. \A i \in 1 .. k : r[i] \in 1 .. n
      BY <1>2
    <2> HIDE DEF m
    <2>. QED  BY <2>1, <2>2
  <1>7. m \in 1 .. m /\ o[m] = n + 1
    BY <1>2
  <1> HIDE DEF o
  <1>8. \A i, j \in 1 .. m : i < j => o[i] < o[j]
    <2>1. SUFFICES ASSUME NEW i \in 1 .. m, NEW j \in 1 .. m, i < j PROVE o[i] < o[j]
      OBVIOUS
    <2>2. i \in 1 .. k
      BY <2>1, <1>2
    <2>3. CASE j \in 1 .. k
      BY <2>1, <2>2, <2>3, <1>2, <1>6
    <2>4. CASE j = m
      BY <2>2, <2>4, <1>6, <1>7
    <2>. QED  BY <2>3, <2>4, <1>5
  <1>9. \A x \in V : \E i \in 1 .. m : o[i] = x
    <2>1. \A x \in W : \E i \in 1 .. k : o[i] = x
      BY <1>2, <1>6
    <2> HIDE DEF m
    <2>. QED  BY <2>1, <1>6, <1>7
  <1> HIDE DEF V, m
  <1>10. IsFiniteSet(V) /\ Cardinality(V) = m /\ Rising(V) = o
    <2>1. Counts(o, m, V)
      BY <1>4, <1>8, <1>9 DEF Counts
    <2>. QED  BY <1>4, <2>1, RisingIs
  <1>11. /\ Picked(seq, V) \in Seq(R) /\ Len(Picked(seq, V)) = m
         /\ \A i \in 1 .. m : Picked(seq, V)[i] = seq[o[i]]
    <2>1. Takes(Picked(seq, V), o, m, seq, R)
      BY <1>4, <1>10, PickedSeq
    <2>. QED  BY <2>1 DEF Takes
  <1>12. /\ app \in Seq(R) /\ Len(app) = m /\ app[m] = seq[n + 1]
         /\ \A i \in 1 .. k : app[i] = inner[i]
    <2>1. seq[n + 1] \in R
      BY DEF Holds
    <2>. QED  BY <1>3, <2>1, AppendProperties DEF m
  <1> HIDE DEF app
  <1>13. \A i \in 1 .. m : Picked(seq, V)[i] = app[i]
    <2>1. SUFFICES ASSUME NEW i \in 1 .. m PROVE Picked(seq, V)[i] = app[i]
      OBVIOUS
    <2>2. CASE i = m
      BY <2>2, <1>7, <1>11, <1>12
    <2>3. CASE i \in 1 .. k
      BY <2>3, <1>3, <1>6, <1>11, <1>12
    <2>. QED  BY <2>2, <2>3, <1>5
  <1>14. Picked(seq, V) = app
    BY <1>11, <1>12, <1>13, SeqEqual
  <1>. QED  BY <1>10, <1>14 DEF V, app, inner, m, k

-----------------------------------------------------------------------------
(* Sequences without repetition                                            *)

Once(s) == \A i, j \in 1 .. Len(s) : s[i] = s[j] => i = j

LEMMA SetIs ==
    ASSUME NEW S, NEW s \in Seq(S)
    PROVE  /\ Len(s) \in Nat /\ ToSet(s) \subseteq S
           /\ \A x : x \in ToSet(s) <=> \E i \in 1 .. Len(s) : s[i] = x
  BY LenProperties, ElementOfSeq DEF ToSet

LEMMA SetNone == ToSet(<< >>) = {} /\ Once(<< >>) /\ Len(<< >>) = 0
  BY DEF ToSet, Once

LEMMA SetAppend ==
    ASSUME NEW S, NEW s \in Seq(S), NEW x \in S, Once(s), x \notin ToSet(s)
    PROVE  /\ Append(s, x) \in Seq(S) /\ Once(Append(s, x))
           /\ Len(Append(s, x)) = Len(s) + 1
           /\ ToSet(Append(s, x)) = ToSet(s) \union {x}
  <1> DEFINE a == Append(s, x)
             n == Len(s)
  <1>1. /\ a \in Seq(S) /\ Len(a) = n + 1 /\ a[n + 1] = x
        /\ \A i \in 1 .. n : a[i] = s[i]
    BY AppendProperties
  <1>2. n \in Nat /\ (\A y : y \in ToSet(s) <=> \E i \in 1 .. n : s[i] = y)
    BY SetIs
  <1>3. \A y : y \in ToSet(a) <=> \E i \in 1 .. n + 1 : a[i] = y
    <2> HIDE DEF a
    <2>. QED  BY <1>1, SetIs
  <1> HIDE DEF a
  <1>4. \A i \in 1 .. n + 1 : i \in 1 .. n \/ i = n + 1
    BY <1>2
  <1>5. \A i \in 1 .. n : i \in 1 .. n + 1 /\ a[i] # x
    BY <1>1, <1>2
  <1>6. n + 1 \in 1 .. n + 1
    BY <1>2
  <1>7. \A i, j \in 1 .. n : s[i] = s[j] => i = j
    BY DEF Once
  <1>8. Once(a)
    <2>1. SUFFICES ASSUME NEW i \in 1 .. n + 1, NEW j \in 1 .. n + 1, a[i] = a[j] PROVE i = j
      BY <1>1 DEF Once
    <2>. QED  BY <2>1, <1>1, <1>4, <1>5, <1>7
  <1>9. ToSet(a) = ToSet(s) \union {x}
    <2> HIDE DEF n
    <2>1. \A y : y \in ToSet(a) => y \in ToSet(s) \union {x}
      BY <1>1, <1>2, <1>3, <1>4
    <2>2. \A y : y \in ToSet(s) \union {x} => y \in ToSet(a)
      BY <1>1, <1>2, <1>3, <1>5, <1>6
    <2>. QED  BY <2>1, <2>2
  <1>. QED  BY <1>1, <1>8, <1>9 DEF a, n

LEMMA SetFront ==
    ASSUME NEW S, NEW s \in Seq(S), Once(s), s # << >>
    PROVE  /\ Last(s) \in S /\ Front(s) \in Seq(S) /\ Once(Front(s))
           /\ Last(s) \notin ToSet(Front(s))
           /\ ToSet(s) = ToSet(Front(s)) \union {Last(s)}
  <1> DEFINE n == Len(s)
             f == Front(s)
             x == Last(s)
  <1>1. n \in Nat \ {0} /\ (\A y : y \in ToSet(s) <=> \E i \in 1 .. n : s[i] = y)
    BY SetIs, EmptySeq
  <1>2. \A i \in 1 .. n : s[i] \in S
    BY ElementOfSeq
  <1>3. n \in 1 .. n /\ x = s[n] /\ x \in S
    BY <1>1, <1>2 DEF Last
  <1>4. f \in Seq(S) /\ Len(f) = n - 1 /\ \A i \in 1 .. n - 1 : f[i] = s[i]
    <2> DEFINE m == n - 1
    <2>1. m \in Nat /\ \A i \in 1 .. m : s[i] \in S
      BY <1>1, <1>2
    <2>2. f = SubSeq(s, 1, m)
      BY DEF Front
    <2> HIDE DEF m, f
    <2>3. /\ SubSeq(s, 1, m) \in Seq(S)
          /\ Len(SubSeq(s, 1, m)) = IF 1 <= m THEN m - 1 + 1 ELSE 0
          /\ \A i \in 1 .. m - 1 + 1 : SubSeq(s, 1, m)[i] = s[1 + i - 1]
      BY <2>1, SubSeqProperties
    <2>4. f \in Seq(S) /\ Len(f) = m /\ \A i \in 1 .. m : f[i] = s[i]
      BY <2>1, <2>2, <2>3
    <2>. QED  BY <2>4 DEF m
  <1>5. \A y : y \in ToSet(f) <=> \E i \in 1 .. n - 1 : f[i] = y
    BY <1>4, SetIs
  <1> HIDE DEF f, x
  <1>6. \A i \in 1 .. n : i \in 1 .. n - 1 \/ i = n
    BY <1>1
  <1>7. \A i \in 1 .. n - 1 : i \in 1 .. n /\ i # n
    BY <1>1
  <1>8. \A i, j \in 1 .. n : s[i] = s[j] => i = j
    BY DEF Once
  <1> HIDE DEF n
  <1>9. Once(f)
    BY <1>4, <1>7, <1>8 DEF Once
  <1>10. x \notin ToSet(f)
    BY <1>3, <1>4, <1>5, <1>7, <1>8
  <1>11. \A y : y \in ToSet(s) <=> y \in ToSet(f) \/ y = x
    BY <1>1, <1>3, <1>4, <1>5, <1>6, <1>7
  <1>. QED  BY <1>3, <1>4, <1>9, <1>10, <1>11 DEF f, x

LEMMA SetSize ==
    ASSUME NEW S, NEW s \in Seq(S), Once(s)
    PROVE  IsFiniteSet(ToSet(s)) /\ Cardinality(ToSet(s)) = Len(s)
  <1> DEFINE n == Len(s)
             f == [i \in 1 .. n |-> s[i]]
  <1>1. n \in Nat /\ (\A x : x \in ToSet(s) <=> \E i \in 1 .. n : s[i] = x)
    BY SetIs
  <1>2. f \in Bijection(1 .. n, ToSet(s))
    BY <1>1 DEF Once, Bijection, Injection, Surjection, IsInjective
  <1>3. IsFiniteSet(1 .. n) /\ Cardinality(1 .. n) = n
    BY <1>1, FS_Interval
  <1>. QED  BY <1>2, <1>3, FS_Bijection DEF ExistsBijection

(* The numbers of a finite set in rising order.                            *)
LEMMA SetRising ==
    ASSUME NEW S, IsFiniteSet(S), S \subseteq Int
    PROVE  /\ Rising(S) \in Seq(Int) /\ Len(Rising(S)) = Cardinality(S)
           /\ ToSet(Rising(S)) = S /\ Once(Rising(S))
           /\ \A i, j \in DOMAIN Rising(S) : i < j => Rising(S)[i] < Rising(S)[j]
  <1> DEFINE n == Cardinality(S)
             r == Rising(S)
  <1>1. n \in Nat /\ Counts(r, n, S)
    BY RisingRises
  <1> HIDE DEF n, r
  <1>2. /\ r \in [1 .. n -> S] /\ r \in [1 .. n -> Int]
        /\ \A i, j \in 1 .. n : i < j => r[i] < r[j]
        /\ \A x \in S : \E i \in 1 .. n : r[i] = x
    BY <1>1 DEF Counts
  <1>3. r \in Seq(Int) /\ Len(r) = n
    BY <1>1, <1>2, SeqDef, LenProperties
  <1>4. ToSet(r) = S
    <2>1. \A x : x \in ToSet(r) <=> \E i \in 1 .. n : r[i] = x
      BY <1>3, SetIs
    <2>2. \A x : x \in ToSet(r) => x \in S
      BY <1>2, <2>1
    <2>3. \A x : x \in S => x \in ToSet(r)
      BY <1>2, <2>1
    <2>. QED  BY <2>2, <2>3
  <1>5. Once(r)
    <2>1. SUFFICES ASSUME NEW i \in 1 .. n, NEW j \in 1 .. n, r[i] = r[j] PROVE i = j
      BY <1>3 DEF Once
    <2>2. r[i] \in Int /\ r[j] \in Int
      BY <1>2
    <2>. QED  BY <2>1, <2>2, <1>2
  <1>. QED  BY <1>2, <1>3, <1>4, <1>5 DEF n, r

-----------------------------------------------------------------------------
(* The listing                                                             *)

Items == UNION { tree[d] : d \in Dirs }

(* What has been taken from the directories in read.                       *)
Taken(read) == (UNION { tree[d] : d \in read }) \ directory

(* The walk so far: the directories in read were taken off the stack; each *)
(* directory found is among those or on the stack, once, and each file     *)
(* found is an entry.                                                      *)
Walk(read) ==
    /\ directory \subseteq UNION { tree[d] : d \in read }
    /\ ToSet(stack) \cap read = {}
    /\ Root \in read \union ToSet(stack)
    /\ \A f \in Taken(read) : f.kind = "dir" => f.path \in read \union ToSet(stack)
    /\ \A d \in read \union ToSet(stack) :
         d = Root \/ \E f \in Taken(read) : f.kind = "dir" /\ f.path = d
    /\ \A p : p \in ToSet(entries) <=> \E f \in Taken(read) : f.kind = "file" /\ f.path = p

(* What makes a truncated listing honest.                                  *)
Cut == Len(entries) = limit /\ \E f \in Files : f.path \notin ToSet(entries)

ListingInv ==
    /\ tree \in Trees /\ limit \in Limits /\ truncated \in BOOLEAN
    /\ listing \in {"asked", "reading", "answered", "failed"}
    /\ stack \in Seq(Dirs) /\ Once(stack)
    /\ entries \in Seq(Int) /\ Once(entries) /\ Len(entries) <= limit
    /\ directory \subseteq Items /\ ToSet(entries) \subseteq PathsOf(Files)
    /\ listing = "asked" =>
         stack = << >> /\ directory = {} /\ entries = << >> /\ truncated = FALSE
    /\ listing = "reading" =>
         /\ Root \in Dirs /\ limit > 0
         /\ truncated = TRUE => Cut /\ directory = {}
         /\ truncated = FALSE => \E read \in SUBSET Dirs : Walk(read)
    /\ ListingIsHonest

LEMMA TreeFacts ==
    ASSUME tree \in Trees
    PROVE  /\ IsFiniteSet(Items)
           /\ \A f \in Items : /\ f.path \in Int /\ f.path # Root
                               /\ f.kind = "dir" => f.path \in Dirs
           /\ \A f, g \in Items : f.path = g.path => f = g
           /\ \A d, e \in Dirs, f \in Items : f \in tree[d] /\ f \in tree[e] => d = e
           /\ \A f : f \in Items <=> \E d \in Dirs : f \in tree[d]
           /\ Files = {f \in Items : f.kind = "file"}
  <1>1. IsTree(tree)
    BY ListingAssumption
  <1>2. \A f : f \in Items <=> \E d \in Dirs : f \in tree[d]
    BY DEF Items
  <1>. QED  BY <1>1, <1>2 DEF IsTree, Items, Dirs, Files

(* A set of directories that holds the root and every directory found in   *)
(* it is all there is.                                                     *)
LEMMA TreeIsReached ==
    ASSUME tree \in Trees, NEW D \in SUBSET Dirs, Root \in D,
           \A d \in D : \A f \in tree[d] : f.kind = "dir" => f.path \in D
    PROVE  D = Dirs
  <1>1. IsTree(tree)
    BY ListingAssumption
  <1>2. \A f \in {f \in UNION { tree[d] : d \in D } : f.kind = "dir"} : f.path \in D
    OBVIOUS
  <1>. QED  BY <1>1, <1>2 DEF IsTree, Dirs

LEMMA TakenIs ==
    ASSUME NEW read \in SUBSET Dirs
    PROVE  \A f : f \in Taken(read) <=> f \notin directory /\ \E d \in read : f \in tree[d]
  BY DEF Taken

(* Files have distinct paths.                                              *)
LEMMA FilesCount ==
    ASSUME tree \in Trees
    PROVE  /\ IsFiniteSet(PathsOf(Files)) /\ PathsOf(Files) \subseteq Int
           /\ Cardinality(Files) = Cardinality(PathsOf(Files)) /\ Cardinality(Files) \in Nat
           /\ \A p : p \in PathsOf(Files) <=> \E f \in Files : f.path = p
  <1>1. /\ IsFiniteSet(Items) /\ Files \in SUBSET Items
        /\ \A f \in Items : f.path \in Int
        /\ \A f, g \in Items : f.path = g.path => f = g
    BY TreeFacts
  <1>2. IsFiniteSet(Files)
    BY <1>1, FS_Subset
  <1>3. \A p : p \in PathsOf(Files) <=> \E f \in Files : f.path = p
    BY DEF PathsOf
  <1> DEFINE F == Files
             P == PathsOf(Files)
             g == [f \in F |-> f.path]
  <1>4. g \in Bijection(F, P)
    <2>1. g \in [F -> P] /\ \A f \in F : g[f] = f.path
      BY <1>3
    <2>2. \A f, h \in F : f.path = h.path => f = h
      BY <1>1
    <2>3. \A p \in P : \E f \in F : f.path = p
      BY <1>3
    <2> HIDE DEF F, P, g
    <2>. QED  BY <2>1, <2>2, <2>3 DEF Bijection, Injection, Surjection, IsInjective
  <1>5. IsFiniteSet(P) /\ Cardinality(P) = Cardinality(F)
    BY <1>2, <1>4, FS_Bijection DEF ExistsBijection
  <1>6. P \subseteq Int
    BY <1>1, <1>3
  <1>. QED  BY <1>2, <1>3, <1>5, <1>6, FS_CardinalityType

LEMMA ReadDirInv ==
    ASSUME ListingInv, ReadDir
    PROVE  ListingInv'
  <1> DEFINE d == Last(stack)
             D == ToSet(stack)
  <1>1. /\ listing = "reading" /\ truncated = FALSE /\ directory = {} /\ stack # << >>
        /\ directory' = tree[d] /\ stack' = Front(stack)
        /\ UNCHANGED << tree, limit, entries, truncated, listing >>
    BY DEF ReadDir, ListingInv
  <1>2. /\ tree \in Trees /\ stack \in Seq(Dirs) /\ Once(stack) /\ Root \in Dirs /\ limit > 0
    BY <1>1 DEF ListingInv
  <1>3. PICK read \in SUBSET Dirs : Walk(read)
    BY <1>1 DEF ListingInv
  <1>4. /\ d \in Dirs /\ stack' \in Seq(Dirs) /\ Once(stack')
        /\ d \notin ToSet(stack') /\ D = ToSet(stack') \union {d}
    BY <1>1, <1>2, SetFront
  <1>. PICK more : more = read \union {d}
    OBVIOUS
  <1>5. more \in SUBSET Dirs /\ d \notin read
    BY <1>3, <1>4 DEF Walk
  <1>6. Taken(more)' = Taken(read)
    <2>1. \A f : f \in Taken(read) <=> \E e \in read : f \in tree[e]
      BY <1>1, TakenIs
    <2>2. \A f : f \in Taken(more)' <=> f \notin tree[d] /\ \E e \in more : f \in tree[e]
      BY <1>1 DEF Taken
    <2>3. \A e \in read : \A f : f \in tree[e] => f \notin tree[d]
      BY <1>2, <1>3, <1>4, <1>5, TreeFacts
    <2>. QED  BY <2>1, <2>2, <2>3
  <1>7. Walk(more)'
    <2>1. read \union D = more \union ToSet(stack')
      BY <1>4
    <2>2. ToSet(stack') \cap more = {}
      BY <1>3, <1>4 DEF Walk
    <2>3. directory' \subseteq UNION { tree'[e] : e \in more }
      BY <1>1
    <2>4. \A x : x \in read \union D <=> x \in more \union ToSet(stack')
      BY <2>1
    <2>5. Root \in more \union ToSet(stack)'
      BY <1>3, <2>4 DEF Walk
    <2>6. \A f \in Taken(more)' : f.kind = "dir" => f.path \in more \union ToSet(stack)'
      BY <1>3, <1>6, <2>4 DEF Walk
    <2>7. \A e \in more \union ToSet(stack)' :
            e = Root \/ \E f \in Taken(more)' : f.kind = "dir" /\ f.path = e
      BY <1>3, <1>6, <2>4 DEF Walk
    <2>8. \A p : p \in ToSet(entries)' <=> \E f \in Taken(more)' : f.kind = "file" /\ f.path = p
      BY <1>1, <1>3, <1>6 DEF Walk
    <2>. QED  BY <2>2, <2>3, <2>5, <2>6, <2>7, <2>8 DEF Walk
  <1>8. directory' \subseteq Items
    BY <1>1, <1>4 DEF Items
  <1>9. UNCHANGED << Items, Dirs, Files, PathsOf(Files), ToSet(entries) >>
    BY <1>1 DEF Items, Dirs, Files, PathsOf
  <1>10. (\E r \in SUBSET Dirs : Walk(r))'
    BY <1>5, <1>7, <1>9
  <1>11. ListingIsHonest'
    BY <1>1 DEF ListingIsHonest
  <1>. QED  BY <1>1, <1>4, <1>8, <1>9, <1>10, <1>11 DEF ListingInv, Once

(* An entry of the directory that is being read has not been taken, and    *)
(* nothing else has its path.                                              *)
LEMMA NewItem ==
    ASSUME ListingInv, NEW read \in SUBSET Dirs, Walk(read), NEW item \in directory
    PROVE  /\ item \in Items /\ item \notin Taken(read)
           /\ \A f \in Taken(read) : f.path # item.path
           /\ item.kind = "file" => item \in Files /\ item.path \notin ToSet(entries)
           /\ item.kind = "dir" => item.path \in Dirs /\ item.path \notin read \union ToSet(stack)
  <1>1. tree \in Trees /\ directory \subseteq Items
    BY DEF ListingInv
  <1>2. /\ \A f \in Items : f.path # Root /\ (f.kind = "dir" => f.path \in Dirs)
        /\ \A f, g \in Items : f.path = g.path => f = g
        /\ Files = {f \in Items : f.kind = "file"}
        /\ \A f : f \in Items <=> \E d \in Dirs : f \in tree[d]
    BY <1>1, TreeFacts
  <1>3. item \in Items /\ item \notin Taken(read)
    BY <1>1, TakenIs
  <1>4. Taken(read) \subseteq Items
    BY <1>2, TakenIs
  <1>5. \A f \in Taken(read) : f.path # item.path
    BY <1>2, <1>3, <1>4
  <1>6. item.path \notin ToSet(entries)
    BY <1>5 DEF Walk
  <1>7. item.path \notin read \union ToSet(stack)
    BY <1>2, <1>3, <1>5 DEF Walk
  <1>. QED  BY <1>2, <1>3, <1>5, <1>6, <1>7

LEMMA ReadEntryInv ==
    ASSUME ListingInv, ReadEntry
    PROVE  ListingInv'
  <1>1. listing = "reading" /\ UNCHANGED << tree, limit, listing >>
    BY DEF ReadEntry
  <1>2. PICK item \in directory :
          LET found == IF item.kind = "file" THEN Append(entries, item.path) ELSE entries
          IN \/ /\ item.kind = "file" /\ Exceeds(found)
                /\ entries' = Kept(found)
                /\ truncated' = TRUE /\ directory' = {} /\ stack' = stack
             \/ /\ ~(item.kind = "file" /\ Exceeds(found))
                /\ entries' = found
                /\ stack' = (IF item.kind = "dir" THEN Append(stack, item.path) ELSE stack)
                /\ directory' = directory \ {item} /\ truncated' = truncated
    BY DEF ReadEntry
  <1>3. /\ truncated = FALSE /\ Root \in Dirs /\ limit > 0 /\ limit \in Nat
        /\ tree \in Trees /\ limit \in Limits
        /\ stack \in Seq(Dirs) /\ Once(stack)
        /\ entries \in Seq(Int) /\ Once(entries) /\ Len(entries) <= limit
        /\ directory \subseteq Items /\ ToSet(entries) \subseteq PathsOf(Files)
    BY <1>1, ListingAssumption DEF ListingInv
  <1>4. PICK read \in SUBSET Dirs : Walk(read)
    BY <1>1, <1>3 DEF ListingInv
  <1>5. /\ item \in Items /\ item \notin Taken(read)
        /\ item.kind = "file" => item \in Files /\ item.path \notin ToSet(entries)
        /\ item.kind = "dir" => item.path \in Dirs /\ item.path \notin read \union ToSet(stack)
    BY <1>4, NewItem
  <1>6. item.path \in Int
    BY <1>3, <1>5, TreeFacts
  <1>7. UNCHANGED << Items, Dirs, Files, PathsOf(Files) >> /\ ListingIsHonest'
    BY <1>1 DEF Items, Dirs, Files, PathsOf, ListingIsHonest
  <1> DEFINE more == Append(entries, item.path)
  <1>8. item.kind = "file" =>
          /\ more \in Seq(Int) /\ Once(more) /\ Len(more) = Len(entries) + 1
          /\ ToSet(more) = ToSet(entries) \union {item.path}
    BY <1>3, <1>5, <1>6, SetAppend
  <1>9. Len(entries) \in Nat /\ \A p : p \in PathsOf(Files) <=> \E f \in Files : f.path = p
    BY <1>3, SetIs, FilesCount
  <1>10. CASE item.kind = "file" /\ Exceeds(more)
    <2>1. entries' = Kept(more) /\ truncated' = TRUE /\ directory' = {} /\ stack' = stack
      BY <1>2, <1>10
    <2>2. Len(entries) = limit /\ Len(more) = limit + 1
      BY <1>3, <1>8, <1>9, <1>10 DEF Exceeds
    <2>3. Kept(more) = entries
      <3>1. Min({limit, Len(more)}) = limit
        BY <1>3, <2>2, MinTwo
      <3>2. \A i \in 1 .. limit : more[i] = entries[i] /\ more[i] \in Int
        BY <1>3, <1>6, <2>2, AppendProperties, ElementOfSeq
      <3>3. Kept(more) = SubSeq(more, 1, limit)
        BY <3>1 DEF Kept
      <3> HIDE DEF more
      <3>4. /\ SubSeq(more, 1, limit) \in Seq(Int)
            /\ Len(SubSeq(more, 1, limit)) = IF 1 <= limit THEN limit - 1 + 1 ELSE 0
            /\ \A i \in 1 .. limit - 1 + 1 : SubSeq(more, 1, limit)[i] = more[1 + i - 1]
        BY <1>3, <3>2, SubSeqProperties
      <3>5. /\ Len(SubSeq(more, 1, limit)) = limit
            /\ \A i \in 1 .. limit : SubSeq(more, 1, limit)[i] = entries[i]
        BY <1>3, <3>2, <3>4
      <3>. QED  BY <1>3, <2>2, <3>3, <3>4, <3>5, SeqEqual
    <2>4. entries' = entries
      BY <2>1, <2>3
    <2>5. Cut'
      BY <1>1, <1>5, <1>7, <1>10, <2>2, <2>4 DEF Cut
    <2>. QED  BY <1>1, <1>3, <1>7, <2>1, <2>4, <2>5 DEF ListingInv, Once
  <1>11. CASE ~(item.kind = "file" /\ Exceeds(more))
    <2>1. /\ entries' = IF item.kind = "file" THEN more ELSE entries
          /\ stack' = (IF item.kind = "dir" THEN Append(stack, item.path) ELSE stack)
          /\ directory' = directory \ {item} /\ truncated' = FALSE
      BY <1>2, <1>3, <1>11
    <2>2. /\ entries' \in Seq(Int) /\ Once(entries)' /\ Len(entries') <= limit
          /\ \A p : p \in ToSet(entries') <=>
                 p \in ToSet(entries) \/ (item.kind = "file" /\ p = item.path)
      <3>1. CASE item.kind = "file"
        <4>1. entries' = more /\ Len(more) <= limit
          BY <1>3, <1>8, <1>9, <1>11, <2>1, <3>1 DEF Exceeds
        <4>. QED  BY <1>8, <3>1, <4>1 DEF Once
      <3>2. CASE item.kind # "file"
        BY <1>3, <2>1, <3>2 DEF Once
      <3>. QED  BY <3>1, <3>2
    <2>3. /\ stack' \in Seq(Dirs) /\ Once(stack)'
          /\ \A p : p \in ToSet(stack') <=>
                 p \in ToSet(stack) \/ (item.kind = "dir" /\ p = item.path)
      <3>1. CASE item.kind = "dir"
        <4> DEFINE s == Append(stack, item.path)
        <4>1. s \in Seq(Dirs) /\ Once(s) /\ ToSet(s) = ToSet(stack) \union {item.path}
          BY <1>3, <1>5, <3>1, SetAppend
        <4>2. stack' = s
          BY <2>1, <3>1
        <4>. QED  BY <3>1, <4>1, <4>2 DEF Once
      <3>2. CASE item.kind # "dir"
        BY <1>3, <2>1, <3>2 DEF Once
      <3>. QED  BY <3>1, <3>2
    <2>4. \A f : f \in Taken(read)' <=> f \in Taken(read) \/ f = item
      <3>1. \A f : f \in Taken(read)' <=> f \notin directory \ {item} /\ \E d \in read : f \in tree[d]
        BY <1>1, <2>1 DEF Taken
      <3>2. \E d \in read : item \in tree[d]
        BY <1>4 DEF Walk
      <3>. QED  BY <3>1, <3>2, TakenIs
    <2>5. Walk(read)'
      <3>1. directory' \subseteq UNION { tree'[d] : d \in read }
        BY <1>1, <1>4, <2>1 DEF Walk
      <3>2. ToSet(stack)' \cap read = {}
        BY <1>4, <1>5, <2>3 DEF Walk
      <3>3. Root \in read \union ToSet(stack)'
        BY <1>4, <2>3 DEF Walk
      <3>4. \A f \in Taken(read)' : f.kind = "dir" => f.path \in read \union ToSet(stack)'
        BY <1>4, <2>3, <2>4 DEF Walk
      <3>5. \A d \in read \union ToSet(stack)' :
              d = Root \/ \E f \in Taken(read)' : f.kind = "dir" /\ f.path = d
        BY <1>4, <2>3, <2>4 DEF Walk
      <3>6. \A p : p \in ToSet(entries)' <=> \E f \in Taken(read)' : f.kind = "file" /\ f.path = p
        <4>1. \A p : p \in ToSet(entries) <=> \E f \in Taken(read) : f.kind = "file" /\ f.path = p
          BY <1>4 DEF Walk
        <4>. QED  BY <2>2, <2>4, <4>1
      <3>. QED  BY <3>1, <3>2, <3>3, <3>4, <3>5, <3>6 DEF Walk
    <2>6. (\E r \in SUBSET Dirs : Walk(r))'
      BY <1>7, <2>5
    <2>7. directory' \subseteq Items /\ ToSet(entries') \subseteq PathsOf(Files)
      BY <1>3, <1>5, <1>9, <2>1, <2>2
    <2>. QED  BY <1>1, <1>3, <1>7, <2>1, <2>2, <2>3, <2>6, <2>7 DEF ListingInv
  <1>. QED  BY <1>10, <1>11

(* The end: all entries are distinct paths of files, in a listing that was *)
(* not truncated of all files.                                             *)
LEMMA SortInv ==
    ASSUME ListingInv, Sort
    PROVE  ListingInv'
  <1> DEFINE E == ToSet(entries)
             P == PathsOf(Files)
  <1>1. /\ listing = "reading" /\ listing' = "answered" /\ entries' = Rising(E)
        /\ truncated = TRUE \/ (directory = {} /\ stack = << >>)
        /\ UNCHANGED << tree, limit, stack, directory, truncated >>
    BY DEF Sort
  <1>2. /\ tree \in Trees /\ limit \in Limits /\ limit \in Nat /\ limit > 0 /\ Root \in Dirs
        /\ entries \in Seq(Int) /\ Once(entries) /\ Len(entries) <= limit
        /\ truncated \in BOOLEAN /\ E \subseteq P
    BY <1>1, ListingAssumption DEF ListingInv
  <1>3. IsFiniteSet(E) /\ Cardinality(E) = Len(entries) /\ E \subseteq Int /\ Len(entries) \in Nat
    BY <1>2, SetSize, SetIs
  <1>4. /\ Rising(E) \in Seq(Int) /\ Len(Rising(E)) = Len(entries)
        /\ ToSet(Rising(E)) = E /\ Once(Rising(E))
        /\ \A i, j \in DOMAIN Rising(E) : i < j => Rising(E)[i] < Rising(E)[j]
    BY <1>3, SetRising
  <1>5. /\ IsFiniteSet(P) /\ Cardinality(Files) = Cardinality(P) /\ Cardinality(Files) \in Nat
        /\ \A p : p \in P <=> \E f \in Files : f.path = p
    BY <1>2, FilesCount
  <1>6. UNCHANGED << Dirs, Files, Items, P >>
    BY <1>1 DEF Dirs, Files, Items, PathsOf
  <1>7. /\ Len(entries) = Min({limit, Cardinality(Files)})
        /\ truncated = TRUE => P # E
        /\ truncated = FALSE => P = E
    <2>1. Min({limit, Cardinality(Files)})
            = IF limit <= Cardinality(Files) THEN limit ELSE Cardinality(Files)
      BY <1>2, <1>5, MinTwo
    <2>2. CASE truncated = TRUE
      <3>1. Len(entries) = limit /\ P # E
        BY <1>1, <1>5, <2>2 DEF ListingInv, Cut
      <3>2. Cardinality(E) <= Cardinality(P)
        BY <1>2, <1>5, FS_Subset
      <3>. QED  BY <1>3, <1>5, <2>1, <2>2, <3>1, <3>2
    <2>3. CASE truncated = FALSE
      <3>1. PICK read \in SUBSET Dirs : Walk(read)
        BY <1>1, <2>3 DEF ListingInv
      <3>2. directory = {} /\ stack = << >> /\ ToSet(stack) = {}
        BY <1>1, <2>3, SetNone
      <3>3. \A f : f \in Taken(read) <=> \E d \in read : f \in tree[d]
        BY <3>2, TakenIs
      <3>4. read = Dirs
        <4>1. Root \in read /\ \A d \in read : \A f \in tree[d] : f.kind = "dir" => f.path \in read
          BY <3>1, <3>2, <3>3 DEF Walk
        <4>. QED  BY <1>2, <4>1, TreeIsReached
      <3>5. \A f : f \in Files <=> f \in Taken(read) /\ f.kind = "file"
        BY <1>2, <3>3, <3>4, TreeFacts
      <3>6. P = E
        BY <1>5, <3>1, <3>5 DEF Walk
      <3>. QED  BY <1>2, <1>3, <1>5, <2>1, <2>3, <3>6
    <2>. QED  BY <1>2, <2>2, <2>3
  <1> HIDE DEF E, P
  <1>8. ListingIsHonest'
    <2>1. ToSet(entries)' = E /\ PathsOf(Files)' = P /\ Cardinality(Files)' = Cardinality(Files)
      BY <1>1, <1>4, <1>6 DEF P
    <2>2. Len(entries') = Min({limit, Cardinality(Files)})
      BY <1>1, <1>4, <1>7
    <2>3. truncated' = TRUE <=> P # E
      BY <1>1, <1>2, <1>7
    <2>. QED  BY <1>1, <1>2, <1>4, <2>1, <2>2, <2>3 DEF ListingIsHonest
  <1>9. ToSet(entries)' \subseteq PathsOf(Files)'
    BY <1>1, <1>2, <1>4, <1>6 DEF P
  <1>10. entries' \in Seq(Int) /\ Once(entries)' /\ Len(entries') <= limit'
    BY <1>1, <1>2, <1>4 DEF Once
  <1>. QED  BY <1>1, <1>2, <1>6, <1>8, <1>9, <1>10 DEF ListingInv, Once

LEMMA BeginInv ==
    ASSUME ListingInv, Begin
    PROVE  ListingInv'
  <1>1. /\ listing = "asked" /\ stack = << >> /\ directory = {} /\ entries = << >>
        /\ truncated = FALSE /\ limit \in Nat
        /\ UNCHANGED << tree, limit, directory, entries, truncated >>
    BY ListingAssumption DEF Begin, ListingInv
  <1>2. UNCHANGED << Items, Dirs, Files, PathsOf(Files) >>
    BY <1>1 DEF Items, Dirs, Files, PathsOf
  <1>3. CASE limit = 0 \/ Root \notin Dirs
    <2>1. listing' = "answered" /\ stack' = stack
      BY <1>3 DEF Begin
    <2>2. ListingIsHonest'
      BY <1>1, <1>2, <1>3 DEF ListingIsHonest
    <2>. QED  BY <1>1, <1>2, <2>1, <2>2 DEF ListingInv, Once
  <1>4. CASE limit # 0 /\ Root \in Dirs
    <2>1. listing' = "reading" /\ stack' = << Root >>
      BY <1>4 DEF Begin
    <2>2. stack' \in Seq(Dirs) /\ Once(stack)' /\ ToSet(stack') = {Root}
      BY <1>4, <2>1 DEF Once, ToSet
    <2>3. (\E read \in SUBSET Dirs : Walk(read))'
      <3>1. \A f : f \notin Taken({})'
        BY DEF Taken
      <3>2. directory' = {} /\ ToSet(entries') = {}
        BY <1>1, SetNone
      <3>3. Walk({})'
        BY <2>2, <3>1, <3>2 DEF Walk
      <3>. QED  BY <3>3
    <2>4. ListingIsHonest'
      BY <2>1 DEF ListingIsHonest
    <2>. QED  BY <1>1, <1>2, <1>4, <2>1, <2>2, <2>3, <2>4 DEF ListingInv, Once
  <1>. QED  BY <1>3, <1>4

LEMMA ListingRestsInv ==
    ASSUME ListingInv, UNCHANGED << tree, limit, stack, directory, entries, truncated >>,
           listing' = listing \/ listing' = "failed"
    PROVE  ListingInv'
  <1>1. UNCHANGED << Items, Dirs, Files, PathsOf(Files) >>
    BY DEF Items, Dirs, Files, PathsOf
  <1>2. CASE listing' = listing
    <2>1. (listing = "reading" => (truncated = FALSE => \E read \in SUBSET Dirs : Walk(read)))'
      BY <1>2 DEF ListingInv, Walk, Taken, Dirs
    <2>2. (listing = "reading" => (truncated = TRUE => Cut /\ directory = {}))'
      BY <1>1, <1>2 DEF ListingInv, Cut
    <2>3. ListingIsHonest'
      BY <1>1, <1>2 DEF ListingInv, ListingIsHonest
    <2>. QED  BY <1>1, <1>2, <2>1, <2>2, <2>3 DEF ListingInv, Once
  <1>3. CASE listing' = "failed"
    <2>1. ListingIsHonest'
      BY <1>3 DEF ListingIsHonest
    <2>. QED  BY <1>1, <1>3, <2>1 DEF ListingInv, Once
  <1>. QED  BY <1>2, <1>3

LEMMA ListingNextInv ==
    ASSUME ListingInv, ListingNext \/ UNCHANGED listingVars
    PROVE  ListingInv'
  <1>1. CASE Begin
    BY <1>1, BeginInv
  <1>2. CASE ReadDir
    BY <1>2, ReadDirInv
  <1>3. CASE ReadFails
    BY <1>3, ListingRestsInv DEF ReadFails
  <1>4. CASE ReadEntry
    BY <1>4, ReadEntryInv
  <1>5. CASE Sort
    BY <1>5, SortInv
  <1>6. CASE UNCHANGED listingVars
    BY <1>6, ListingRestsInv DEF listingVars
  <1>. QED  BY <1>1, <1>2, <1>3, <1>4, <1>5, <1>6 DEF ListingNext

LEMMA ListingInitInv == ListingInit \/ ListingRests => ListingInv
  <1>1. SUFFICES ASSUME ListingInit \/ ListingRests PROVE ListingInv
    OBVIOUS
  <1>2. /\ tree \in Trees /\ limit \in Limits /\ limit \in Nat
        /\ stack = << >> /\ directory = {} /\ entries = << >>
        /\ truncated = FALSE /\ listing \in {"asked", "failed"}
    BY <1>1, ListingAssumption DEF ListingInit, ListingRests
  <1>3. stack \in Seq(Dirs) /\ entries \in Seq(Int) /\ Once(stack) /\ Once(entries)
    BY <1>2 DEF Once
  <1>4. ToSet(entries) = {} /\ Len(entries) = 0
    BY <1>2, SetNone
  <1>5. ListingIsHonest
    BY <1>2 DEF ListingIsHonest
  <1>6. directory \subseteq Items /\ ToSet(entries) \subseteq PathsOf(Files) /\ Len(entries) <= limit
    BY <1>2, <1>4
  <1>7. listing # "reading"
    BY <1>2
  <1>. QED  BY <1>2, <1>3, <1>5, <1>6, <1>7 DEF ListingInv

-----------------------------------------------------------------------------
(* The import                                                              *)

(* The table BEGIN, CREATE TABLE and DELETE leave, but for its rows.       *)
Begun == IF Exists(before) THEN before ELSE CreatedTable(request)

Old == IF request.truncate THEN << >> ELSE before.rows

(* A row of the payload as the table is to have it.                        *)
Read(i) ==
    [c \in DOMAIN Begun.types |-> Stored(Begun.types[c], Converted(GivenValue(i, c)))]

All == Old \o [i \in DOMAIN request.data |-> Read(i)]

(* Of two rows i and j of one key, i may stay.                             *)
Stays(i, j) ==
    CASE request.mode = "none" -> j = i
      [] request.mode = "ignore" -> j >= i
      [] request.mode = "replace" -> j <= i

(* Those of the first n rows that stay beside each other.                  *)
Winners(n) ==
    {i \in 1 .. n : \A j \in 1 .. n : SameKey(Begun, All[i], All[j]) => Stays(i, j)}

TableRows ==
    [DOMAIN Begun.types -> Values \union
       {Stored(Begun.types[c], Converted(GivenValue(i, c))) :
          c \in DOMAIN Begun.types, i \in DOMAIN request.data}]

LEMMA SameKeyProperties ==
    ASSUME NEW t, NEW a, NEW b, SameKey(t, a, b)
    PROVE  SameKey(t, b, a) /\ \A c : SameKey(t, b, c) => SameKey(t, a, c)
  BY DEF SameKey

LEMMA BegunIs ==
    ASSUME before \in OldTables
    PROVE  /\ Begun = [types |-> Begun.types, unique |-> Begun.unique, rows |-> before.rows]
           /\ Begun.unique \in BOOLEAN
           /\ before.rows \in Seq([DOMAIN Begun.types -> Values])
           /\ \A i, j \in 1 .. Len(before.rows) :
                SameKey(Begun, before.rows[i], before.rows[j]) => i = j
  <1>1. /\ before \in [types : {before.types}, unique : BOOLEAN,
                        rows : Seq([DOMAIN before.types -> Values])]
        /\ \A i, j \in DOMAIN before.rows :
             SameKey(before, before.rows[i], before.rows[j]) => i = j
    BY ImportAssumption
  <1>2. CASE Exists(before)
    <2>1. Begun = before
      BY <1>2 DEF Begun
    <2>2. DOMAIN before.rows = 1 .. Len(before.rows)
      BY <1>1
    <2>. QED  BY <1>1, <2>1, <2>2
  <1>3. CASE ~Exists(before)
    <2>1. before.rows = << >>
      BY <1>3 DEF Exists, NoTable
    <2>2. Begun = [types |-> CreatedTable(request).types, unique |-> FALSE, rows |-> << >>]
      BY <1>3 DEF Begun, CreatedTable
    <2>. QED  BY <2>1, <2>2
  <1>. QED  BY <1>2, <1>3

LEMMA AllIs ==
    ASSUME request \in Imports, before \in OldTables
    PROVE  /\ Old \in Seq(TableRows) /\ Len(Old) \in Nat
           /\ Len(request.data) \in Nat /\ DOMAIN request.data = 1 .. Len(request.data)
           /\ All \in Seq(TableRows) /\ Len(All) = Len(Old) + Len(request.data)
           /\ \A i \in 1 .. Len(Old) : All[i] = Old[i]
           /\ \A i \in 1 .. Len(request.data) : All[Len(Old) + i] = Read(i)
           /\ \A i \in 1 .. Len(All) : All[i] \in TableRows
           /\ \A i, j \in 1 .. Len(Old) : SameKey(Begun, All[i], All[j]) => i = j
  <1>1. /\ before.rows \in Seq([DOMAIN Begun.types -> Values])
        /\ \A i, j \in 1 .. Len(before.rows) :
             SameKey(Begun, before.rows[i], before.rows[j]) => i = j
    BY BegunIs
  <1>2. request.data \in Seq(ToSet(request.data))
    BY ImportAssumption
  <1> DEFINE m == Len(request.data)
             new == [i \in DOMAIN request.data |-> Read(i)]
  <1>3. m \in Nat /\ DOMAIN request.data = 1 .. m
    BY <1>2, LenProperties
  <1>4. [DOMAIN Begun.types -> Values] \subseteq TableRows
    BY DEF TableRows
  <1>5. /\ Old \in Seq(TableRows) /\ Len(Old) \in Nat
        /\ \A i, j \in 1 .. Len(Old) : SameKey(Begun, Old[i], Old[j]) => i = j
    <2>1. CASE request.truncate
      <3>1. Old = << >>
        BY <2>1 DEF Old
      <3>. QED  BY <3>1
    <2>2. CASE ~request.truncate
      <3>1. Old = before.rows
        BY <2>2 DEF Old
      <3>2. before.rows \in Seq(TableRows)
        BY <1>1, <1>4, SeqMonotonic
      <3>. QED  BY <1>1, <3>1, <3>2, LenProperties
    <2>. QED  BY <2>1, <2>2
  <1>6. ASSUME NEW i \in 1 .. m PROVE Read(i) \in TableRows
    BY <1>3 DEF Read, TableRows
  <1>7. new \in Seq(TableRows) /\ Len(new) = m /\ \A i \in 1 .. m : new[i] = Read(i)
    <2>1. new \in [1 .. m -> TableRows] /\ \A i \in 1 .. m : new[i] = Read(i)
      BY <1>3, <1>6
    <2> HIDE DEF new, m
    <2>. QED  BY <1>3, <2>1, SeqDef, LenProperties
  <1>8. All = Old \o new
    BY DEF All
  <1> HIDE DEF new, m
  <1>9. /\ Old \o new \in Seq(TableRows) /\ Len(Old \o new) = Len(Old) + m
        /\ \A i \in 1 .. Len(Old) + m :
             (Old \o new)[i] = IF i <= Len(Old) THEN Old[i] ELSE new[i - Len(Old)]
    BY <1>5, <1>7, ConcatProperties
  <1>10. \A i \in 1 .. Len(Old) : All[i] = Old[i]
    BY <1>3, <1>5, <1>8, <1>9
  <1>11. \A i \in 1 .. m : All[Len(Old) + i] = Read(i)
    <2>1. SUFFICES ASSUME NEW i \in 1 .. m PROVE All[Len(Old) + i] = Read(i)
      OBVIOUS
    <2>2. Len(Old) + i \in 1 .. Len(Old) + m /\ ~(Len(Old) + i <= Len(Old)) /\ Len(Old) + i - Len(Old) = i
      BY <1>3, <1>5
    <2>. QED  BY <1>7, <1>8, <1>9, <2>2
  <1>12. \A i \in 1 .. Len(All) : All[i] \in TableRows
    BY <1>8, <1>9, ElementOfSeq
  <1>. QED  BY <1>3, <1>5, <1>8, <1>9, <1>10, <1>11, <1>12 DEF m

LEMMA WinnersAre ==
    ASSUME NEW n \in Nat
    PROVE  /\ Winners(n) \in SUBSET (1 .. n) /\ Winners(n) \subseteq Int
           /\ IsFiniteSet(Winners(n)) /\ Cardinality(Winners(n)) \in Nat
  <1>1. Winners(n) \in SUBSET (1 .. n) /\ IsFiniteSet(1 .. n)
    BY FS_Interval DEF Winners
  <1>2. IsFiniteSet(Winners(n))
    BY <1>1, FS_Subset
  <1>. QED  BY <1>1, <1>2, FS_CardinalityType

(* Who stays when one more row comes: if it clashes and is ignored, those  *)
(* who were there; otherwise those without its key, and the row.           *)
LEMMA WinnersNext ==
    ASSUME request \in Imports, NEW n \in Nat, request.mode = "none" => Winners(n) = 1 .. n,
           NEW clash, clash = (\E i \in Winners(n) : SameKey(Begun, All[n + 1], All[i]))
    PROVE  /\ (clash /\ request.mode = "ignore") => Winners(n + 1) = Winners(n)
           /\ (~clash \/ request.mode = "replace") =>
                Winners(n + 1) =
                  {i \in Winners(n) : ~SameKey(Begun, All[n + 1], All[i])} \union {n + 1}
           /\ (~clash /\ request.mode = "none") => Winners(n + 1) = 1 .. n + 1
  <1> DEFINE row == All[n + 1]
             S(i, j) == SameKey(Begun, All[i], All[j])
             R(i) == SameKey(Begun, row, All[i])
  <1>1. \A i \in 1 .. n + 1 : i \in 1 .. n \/ i = n + 1
    OBVIOUS
  <1>2. \A i \in 1 .. n : i \in 1 .. n + 1 /\ i # n + 1 /\ i <= n + 1
    OBVIOUS
  <1>3. n + 1 \in 1 .. n + 1
    OBVIOUS
  <1>4. \A i, j \in 1 .. n + 1 : S(i, j) => S(j, i)
    BY SameKeyProperties
  <1>5. \A i, j, k \in 1 .. n + 1 : S(i, j) /\ S(j, k) => S(i, k)
    BY SameKeyProperties
  <1>6. CASE request.mode = "none"
    <2>1. /\ Winners(n) = {i \in 1 .. n : \A j \in 1 .. n : S(i, j) => j = i}
          /\ Winners(n + 1) = {i \in 1 .. n + 1 : \A j \in 1 .. n + 1 : S(i, j) => j = i}
      BY <1>6 DEF Winners, Stays
    <2>2. ASSUME ~clash PROVE Winners(n + 1) = 1 .. n + 1
      <3>1. \A i \in 1 .. n : ~S(n + 1, i) /\ ~S(i, n + 1)
        BY <1>2, <1>3, <1>4, <1>6, <2>2
      <3>2. \A i, j \in 1 .. n : S(i, j) => j = i
        BY <1>6, <2>1
      <3> HIDE DEF S
      <3>3. \A i, j \in 1 .. n + 1 : S(i, j) => j = i
        BY <1>1, <3>1, <3>2
      <3>. QED  BY <2>1, <3>3
    <2>3. ASSUME ~clash PROVE {i \in Winners(n) : ~R(i)} \union {n + 1} = 1 .. n + 1
      BY <1>1, <1>2, <1>3, <1>6, <2>3
    <2>. QED  BY <1>6, <2>2, <2>3
  <1>7. CASE request.mode = "ignore"
    <2>1. /\ Winners(n) = {i \in 1 .. n : \A j \in 1 .. n : S(i, j) => j >= i}
          /\ Winners(n + 1) = {i \in 1 .. n + 1 : \A j \in 1 .. n + 1 : S(i, j) => j >= i}
      BY <1>7 DEF Winners, Stays
    <2>2. \A i \in 1 .. n : i \in Winners(n + 1) <=> i \in Winners(n)
      <3> HIDE DEF S
      <3>. QED  BY <1>1, <1>2, <1>3, <2>1
    <2>3. clash <=> \E i \in 1 .. n : S(n + 1, i)
      <3>1. ASSUME NEW i \in 1 .. n, S(n + 1, i) PROVE clash
        <4> DEFINE D == {j \in 1 .. n : S(n + 1, j)}
        <4>1. PICK d \in D : \A j \in D : d <= j
          <5>1. D \subseteq Nat /\ D # {}
            BY <3>1
          <5> HIDE DEF D
          <5>. QED  BY <5>1, Least
        <4>2. d \in 1 .. n /\ S(n + 1, d)
          BY <4>1
        <4>3. ASSUME NEW j \in 1 .. n, S(d, j) PROVE j >= d
          <5>1. S(n + 1, j)
            BY <1>2, <1>3, <1>5, <4>2, <4>3
          <5>2. d <= j
            BY <4>1, <5>1
          <5>. QED  BY <4>2, <5>2
        <4>4. d \in Winners(n)
          BY <2>1, <4>2, <4>3
        <4>. QED  BY <4>2, <4>4
      <3>2. ASSUME clash PROVE \E i \in 1 .. n : S(n + 1, i)
        BY <2>1, <3>2
      <3>. QED  BY <3>1, <3>2
    <2>4. n + 1 \in Winners(n + 1) <=> ~clash
      <3> HIDE DEF S
      <3>1. \A j \in 1 .. n : ~(j >= n + 1)
        OBVIOUS
      <3>2. n + 1 >= n + 1
        OBVIOUS
      <3>. QED  BY <1>1, <1>2, <1>3, <2>1, <2>3, <3>1, <3>2
    <2>5. Winners(n) \subseteq 1 .. n /\ Winners(n + 1) \subseteq 1 .. n + 1
      BY <2>1
    <2>6. ASSUME clash PROVE Winners(n + 1) = Winners(n)
      BY <1>1, <2>2, <2>4, <2>5, <2>6
    <2>7. ASSUME ~clash PROVE Winners(n + 1) = {i \in Winners(n) : ~R(i)} \union {n + 1}
      <3>1. \A i \in Winners(n) : ~R(i)
        BY <2>7
      <3> HIDE DEF R
      <3>. QED  BY <1>1, <1>2, <2>2, <2>4, <2>5, <2>7, <3>1
    <2>. QED  BY <1>7, <2>6, <2>7
  <1>8. CASE request.mode = "replace"
    <2>1. /\ Winners(n) = {i \in 1 .. n : \A j \in 1 .. n : S(i, j) => j <= i}
          /\ Winners(n + 1) = {i \in 1 .. n + 1 : \A j \in 1 .. n + 1 : S(i, j) => j <= i}
      BY <1>8 DEF Winners, Stays
    <2>2. n + 1 \in Winners(n + 1)
      <3> HIDE DEF S
      <3>1. \A j \in 1 .. n + 1 : j <= n + 1
        OBVIOUS
      <3>. QED  BY <1>3, <2>1, <3>1
    <2>3. \A i \in 1 .. n : i \in Winners(n + 1) <=> i \in Winners(n) /\ ~S(n + 1, i)
      <3>1. SUFFICES ASSUME NEW i \in 1 .. n
                     PROVE  i \in Winners(n + 1) <=> i \in Winners(n) /\ ~S(n + 1, i)
        OBVIOUS
      <3>2. S(i, n + 1) <=> S(n + 1, i)
        BY <1>2, <1>3, <1>4
      <3>3. ~(n + 1 <= i)
        OBVIOUS
      <3> HIDE DEF S
      <3>4. i \in Winners(n) <=> \A j \in 1 .. n : S(i, j) => j <= i
        BY <2>1
      <3>5. i \in Winners(n + 1) <=> \A j \in 1 .. n + 1 : S(i, j) => j <= i
        BY <1>2, <2>1
      <3>. QED  BY <1>1, <1>2, <1>3, <3>2, <3>3, <3>4, <3>5
    <2>4. Winners(n) \subseteq 1 .. n /\ Winners(n + 1) \subseteq 1 .. n + 1
      BY <2>1
    <2>5. Winners(n + 1) = {i \in Winners(n) : ~R(i)} \union {n + 1}
      BY <1>1, <1>2, <2>2, <2>3, <2>4
    <2>. QED  BY <1>8, <2>5
  <1>9. request.mode \in {"none", "ignore", "replace"}
    BY ImportAssumption
  <1>. QED  BY <1>6, <1>7, <1>8, <1>9

(* What column c of row i gets: the field of its name, or NULL.            *)
LEMMA FieldIsGiven ==
    ASSUME request \in Imports, NEW i \in DOMAIN request.data, NEW c \in ToSet(Columns(request))
    PROVE  LET place == CHOOSE j \in DOMAIN Columns(request) : Columns(request)[j] = c
           IN place \in DOMAIN Columns(request) /\ Rows(request)[i][place] = GivenValue(i, c)
  <1> DEFINE columns == Columns(request)
             place == CHOOSE j \in DOMAIN columns : columns[j] = c
  <1>1. place \in DOMAIN columns /\ columns[place] = c
    BY DEF ToSet
  <1>2. CASE request.format = "csv"
    <2> DEFINE places == {p \in DOMAIN request.header : request.header[p] = c}
    <2>1. Rows(request)[i][place] = CsvField(request, i, place)
      BY <1>1, <1>2 DEF Rows
    <2>2. CsvField(request, i, place) =
            IF places = {} THEN Null ELSE [kind |-> "text", of |-> request.data[i][Min(places)]]
      BY <1>1 DEF CsvField, Min
    <2>3. Given(request)[i] =
            [k \in ToSet(request.header) |->
               [kind |-> "text", of |->
                  request.data[i][Min({p \in DOMAIN request.header : request.header[p] = k})]]]
      BY <1>2 DEF Given
    <2>4. c \in ToSet(request.header) <=> places # {}
      BY DEF ToSet
    <2>5. GivenValue(i, c) =
            IF places = {} THEN Null ELSE [kind |-> "text", of |-> request.data[i][Min(places)]]
      BY <2>3, <2>4 DEF GivenValue
    <2>. QED  BY <1>1, <2>1, <2>2, <2>5
  <1>3. CASE request.format # "csv"
    <2>1. Rows(request)[i][place] = JsonField(request, i, place)
      BY <1>1, <1>3 DEF Rows
    <2>2. Given(request) = request.data
      BY <1>3, ImportAssumption DEF Given
    <2>. QED  BY <1>1, <1>3, <2>1, <2>2 DEF JsonField, GivenValue
  <1>. QED  BY <1>2, <1>3

LEMMA NullStays == Converted(Null) = Null /\ \A type : Stored(type, Null) = Null
  BY DEF Converted, Stored, Null

LEMMA RowIsRead ==
    ASSUME request \in Imports, NEW i \in DOMAIN request.data, NEW t, t.types = Begun.types
    PROVE  RowOf(t, Columns(request), Rows(request)[i]) = Read(i)
  <1> DEFINE columns == Columns(request)
             place(c) == CHOOSE j \in DOMAIN columns : columns[j] = c
             field(c) == IF c \notin ToSet(columns) THEN Null
                         ELSE Stored(Begun.types[c], Converted(Rows(request)[i][place(c)]))
  <1>1. RowOf(t, columns, Rows(request)[i]) = [c \in DOMAIN Begun.types |-> field(c)]
    BY DEF RowOf
  <1>2. ASSUME NEW c PROVE field(c) = Stored(Begun.types[c], Converted(GivenValue(i, c)))
    <2>1. CASE c \in ToSet(columns)
      <3>1. Rows(request)[i][place(c)] = GivenValue(i, c)
        BY <2>1, FieldIsGiven
      <3>. QED  BY <2>1, <3>1
    <2>2. CASE c \notin ToSet(columns)
      <3>1. GivenValue(i, c) = Null
        BY <2>2 DEF GivenValue
      <3>. QED  BY <2>2, <3>1, NullStays
    <2>. QED  BY <2>1, <2>2
  <1> HIDE DEF field
  <1>. QED  BY <1>1, <1>2 DEF Read

(* What has been counted: rows that were to stay, and rows of the payload. *)
Counted == Len(Old) + index

(* The table holds those of them that stay, in order.                      *)
Imported ==
    /\ table = [types |-> Begun.types, unique |-> Begun.unique, rows |-> Picked(All, Winners(Counted))]
    /\ inserted + skipped = index
    /\ request.mode = "ignore" => skipped = Counted - Cardinality(Winners(Counted))
    /\ request.mode # "ignore" => skipped = 0
    /\ request.mode = "none" => Winners(Counted) = 1 .. Counted

ImportTypes ==
    /\ request \in Imports /\ before \in OldTables
    /\ phase \in {"called", "importing", "answered"} /\ answer \in {"none", "ok", "error"}
    /\ index \in 0 .. Len(request.data) /\ inserted \in 0 .. index /\ skipped \in 0 .. index
    /\ pages \in Nat /\ disk \in Nat /\ 1 <= disk /\ disk <= pages

ImportInv ==
    /\ ImportTypes
    /\ phase = "called" =>
         answer = "none" /\ table = before /\ index = 0 /\ inserted = 0 /\ skipped = 0 /\ pages = disk
    /\ phase = "importing" => answer = "none" /\ Imported /\ (pages > disk => pages <= MaxPages)
    /\ phase = "answered" /\ answer = "none" => table = before
    /\ answer = "error" => phase = "answered" /\ table = before /\ pages = disk
    /\ answer = "ok" =>
         phase = "answered" /\ Imported /\ index = Len(request.data) /\ disk <= MaxPages

(* The call and the table before it are all that these depend on.          *)
LEMMA Unmoved ==
    ASSUME UNCHANGED << request, before >>
    PROVE  /\ Begun' = Begun /\ Old' = Old /\ All' = All /\ Counted' = Len(Old) + index'
           /\ Winners(Counted)' = Winners(Counted')
  <1>1. Begun' = Begun /\ Old' = Old
    BY DEF Begun, Old
  <1>2. All' = All
    BY <1>1 DEF All, Read, GivenValue
  <1>3. Counted' = Len(Old) + index'
    BY <1>1 DEF Counted
  <1>4. Winners(Counted)' = Winners(Counted')
    BY <1>1, <1>2 DEF Winners, Stays
  <1>. QED  BY <1>1, <1>2, <1>3, <1>4

LEMMA ImportedStays ==
    ASSUME Imported, UNCHANGED << request, before, table, index, inserted, skipped >>
    PROVE  Imported'
  <1>1. /\ Begun' = Begun /\ All' = All /\ Counted' = Counted
        /\ Winners(Counted)' = Winners(Counted)
    BY Unmoved DEF Counted
  <1>2. Picked(All, Winners(Counted))' = Picked(All, Winners(Counted))
    BY <1>1
  <1>3. Cardinality(Winners(Counted))' = Cardinality(Winners(Counted))
    BY <1>1
  <1>. QED  BY <1>1, <1>2, <1>3 DEF Imported

LEMMA AbortInv ==
    ASSUME ImportInv, Abort
    PROVE  ImportInv'
  <1>1. ImportTypes'
    BY DEF ImportInv, ImportTypes, Abort
  <1>. QED  BY <1>1 DEF ImportInv, Abort

(* Nothing read yet: all rows that were to stay are there.                 *)
LEMMA BeginImportInv ==
    ASSUME ImportInv, BeginImport
    PROVE  ImportInv'
  <1>1. CASE Abort
    BY <1>1, AbortInv
  <1>2. CASE ~Abort
    <2>1. /\ phase = "called" /\ phase' = "importing"
          /\ LET t == IF Exists(table) THEN table ELSE CreatedTable(request)
             IN table' = IF request.truncate THEN [t EXCEPT !.rows = << >>] ELSE t
          /\ UNCHANGED << request, before, index, inserted, skipped, pages, disk, answer >>
      BY <1>2 DEF BeginImport
    <2>2. /\ request \in Imports /\ before \in OldTables /\ answer = "none" /\ table = before
          /\ index = 0 /\ inserted = 0 /\ skipped = 0 /\ pages = disk
      BY <2>1 DEF ImportInv, ImportTypes
    <2>3. table' = IF request.truncate THEN [Begun EXCEPT !.rows = << >>] ELSE Begun
      BY <2>1, <2>2 DEF Begun
    <2>4. table' = [types |-> Begun.types, unique |-> Begun.unique, rows |-> Old]
      <3>1. Begun = [types |-> Begun.types, unique |-> Begun.unique, rows |-> before.rows]
        BY <2>2, BegunIs
      <3>. QED  BY <2>3, <3>1 DEF Old
    <2> DEFINE n == Len(Old)
    <2>5. /\ Old \in Seq(TableRows) /\ n \in Nat
          /\ \A i \in 1 .. n : All[i] = Old[i]
          /\ \A i, j \in 1 .. n : SameKey(Begun, All[i], All[j]) => i = j
      BY <2>2, AllIs
    <2>6. Winners(n) = 1 .. n
      <3>1. \A i \in 1 .. n : Stays(i, i)
        <4>1. request.mode \in {"none", "ignore", "replace"}
          BY <2>2, ImportAssumption
        <4> HIDE DEF n
        <4>2. \A i \in 1 .. n : i = i /\ i >= i /\ i <= i
          BY <2>5
        <4>. QED  BY <4>1, <4>2 DEF Stays
      <3> HIDE DEF n
      <3>. QED  BY <2>5, <3>1 DEF Winners
    <2>7. Picked(All, Winners(n)) = Old
      BY <2>5, <2>6, PickedAll
    <2>8. Cardinality(Winners(n)) = n
      BY <2>5, <2>6, FS_Interval
    <2>9. /\ Begun' = Begun /\ All' = All /\ Counted' = n
          /\ Winners(Counted)' = Winners(Counted')
      BY <2>1, <2>2, <2>5, Unmoved
    <2> HIDE DEF n
    <2>10. Winners(Counted)' = 1 .. n
      BY <2>6, <2>9
    <2>11. Picked(All, Winners(Counted))' = Old
      BY <2>6, <2>7, <2>9, <2>10
    <2>12. Imported'
      BY <2>1, <2>2, <2>4, <2>5, <2>6, <2>8, <2>9, <2>10, <2>11 DEF Imported
    <2>13. ImportTypes'
      BY <2>1 DEF ImportInv, ImportTypes
    <2>14. phase' = "importing" /\ answer' = "none" /\ ~(pages' > disk')
      BY <2>1, <2>2 DEF ImportInv, ImportTypes
    <2>. QED  BY <2>12, <2>13, <2>14 DEF ImportInv
  <1>. QED  BY <1>1, <1>2

(* What is in the table are the winners so far, and it has the keys of the *)
(* table that was begun.                                                   *)
LEMMA ImportedIs ==
    ASSUME ImportTypes, Imported
    PROVE  /\ Counted \in Nat /\ Counted <= Len(All)
           /\ Holds(All, Winners(Counted), TableRows)
           /\ Takes(table.rows, Rising(Winners(Counted)), Cardinality(Winners(Counted)), All, TableRows)
           /\ DOMAIN table.rows = 1 .. Cardinality(Winners(Counted))
           /\ table.types = Begun.types /\ table.unique = Begun.unique
           /\ \A a, b : SameKey(table, a, b) <=> SameKey(Begun, a, b)
  <1> DEFINE n == Counted
             W == Winners(n)
  <1>1. /\ request \in Imports /\ before \in OldTables /\ index \in 0 .. Len(request.data)
        /\ table = [types |-> Begun.types, unique |-> Begun.unique, rows |-> Picked(All, W)]
    BY DEF ImportTypes, Imported
  <1>2. /\ Len(Old) \in Nat /\ Len(request.data) \in Nat /\ Len(All) = Len(Old) + Len(request.data)
        /\ \A i \in 1 .. Len(All) : All[i] \in TableRows
    BY <1>1, AllIs
  <1>3. n \in Nat /\ n <= Len(All)
    BY <1>1, <1>2 DEF Counted
  <1> HIDE DEF n
  <1>4. W \in SUBSET (1 .. n) /\ W \subseteq Int /\ IsFiniteSet(W) /\ Cardinality(W) \in Nat
    BY <1>3, WinnersAre
  <1>5. Holds(All, W, TableRows)
    <2>1. W \subseteq 1 .. Len(All)
      BY <1>2, <1>3, <1>4
    <2>. QED  BY <1>2, <2>1 DEF Holds
  <1> HIDE DEF W
  <1>6. Takes(Picked(All, W), Rising(W), Cardinality(W), All, TableRows)
    BY <1>4, <1>5, PickedSeq
  <1>7. DOMAIN Picked(All, W) = 1 .. Cardinality(W)
    BY <1>6, LenProperties DEF Takes
  <1>8. \A a, b : SameKey(table, a, b) <=> SameKey(Begun, a, b)
    BY <1>1 DEF SameKey
  <1>. QED  BY <1>1, <1>3, <1>5, <1>6, <1>7, <1>8 DEF W, n

(* One more row: where it is inserted, those of its key are gone and it is *)
(* the last; where it is skipped, the table is right as it is.             *)
LEMMA NextRow ==
    ASSUME ImportTypes, Imported, index < Len(request.data),
           NEW row, row = RowOf(table, Columns(request), Rows(request)[index + 1]),
           NEW outcome, outcome = InsertRow(table.rows, row)
    PROVE  /\ outcome = "skipped" =>
                request.mode = "ignore" /\ Winners(Counted + 1) = Winners(Counted)
           /\ outcome = "inserted" =>
                /\ Append(Without(table.rows, row), row) = Picked(All, Winners(Counted + 1))
                /\ request.mode = "ignore" =>
                     Cardinality(Winners(Counted + 1)) = Cardinality(Winners(Counted)) + 1
                /\ request.mode = "none" => Winners(Counted + 1) = 1 .. Counted + 1
           /\ outcome \in {"error", "skipped", "inserted"}
  <1> DEFINE n == Counted
             W == Winners(n)
             r == Rising(W)
             size == Cardinality(W)
             V == {i \in W : ~SameKey(Begun, row, All[i])}
             clash == \E i \in W : SameKey(Begun, row, All[i])
  <1>1. /\ request \in Imports /\ before \in OldTables /\ index \in Nat
        /\ index + 1 \in 1 .. Len(request.data) /\ DOMAIN request.data = 1 .. Len(request.data)
    BY AllIs DEF ImportTypes
  <1>2. /\ n \in Nat /\ n <= Len(All) /\ Holds(All, W, TableRows)
        /\ Takes(table.rows, r, size, All, TableRows)
        /\ DOMAIN table.rows = 1 .. size
        /\ table.types = Begun.types
        /\ \A a, b : SameKey(table, a, b) <=> SameKey(Begun, a, b)
    BY ImportedIs
  <1>3. W \in SUBSET (1 .. n) /\ W \subseteq Int /\ IsFiniteSet(W) /\ size \in Nat
    BY <1>2, WinnersAre
  <1>4. row = All[n + 1] /\ n + 1 \in 1 .. Len(All) /\ row \in TableRows
    <2>1. row = Read(index + 1)
      BY <1>1, <1>2, RowIsRead
    <2>2. /\ All[Len(Old) + (index + 1)] = Read(index + 1) /\ Len(Old) \in Nat
          /\ Len(All) = Len(Old) + Len(request.data) /\ Len(request.data) \in Nat
          /\ \A i \in 1 .. Len(All) : All[i] \in TableRows
      BY <1>1, AllIs
    <2>3. n + 1 = Len(Old) + (index + 1) /\ n + 1 \in 1 .. Len(All)
      BY <1>1, <2>2 DEF Counted
    <2> HIDE DEF n
    <2>. QED  BY <2>1, <2>2, <2>3
  <1>5. /\ table.rows = Picked(All, W)
        /\ request.mode = "none" => W = 1 .. n
    BY DEF Imported
  <1> HIDE DEF n, W
  <1>6. r \in [1 .. size -> W] /\ \A x \in W : \E i \in 1 .. size : r[i] = x
    BY <1>3, RisingRises DEF Counts
  <1>7. \A i \in 1 .. size : table.rows[i] = All[r[i]]
    BY <1>2 DEF Takes
  <1>8. clash <=> \E i \in DOMAIN table.rows : SameKey(table, row, table.rows[i])
    <2> HIDE DEF r, size
    <2>. QED  BY <1>2, <1>6, <1>7
  <1>9. Without(table.rows, row) = Picked(All, V)
    <2> DEFINE places == {i \in DOMAIN table.rows : ~SameKey(table, row, table.rows[i])}
    <2>1. V \in SUBSET W
      OBVIOUS
    <2>2. places = {j \in 1 .. size : r[j] \in V}
      <3> HIDE DEF r, size
      <3>. QED  BY <1>2, <1>6, <1>7
    <2>3. Without(table.rows, row) = Picked(Picked(All, W), places)
      BY <1>5 DEF Without
    <2>4. places = PlacesOf(V, W)
      BY <2>2 DEF PlacesOf
    <2> HIDE DEF places, V
    <2>5. Numbers(W) /\ Holds(All, W, TableRows)
      BY <1>2, <1>3 DEF Numbers
    <2>6. Picked(Picked(All, W), PlacesOf(V, W)) = Picked(All, V)
      BY ONLY <2>1, <2>5, PickedTwice
    <2>. QED  BY <2>3, <2>4, <2>6
  <1>10. /\ (clash /\ request.mode = "ignore") => Winners(n + 1) = W
         /\ (~clash \/ request.mode = "replace") => Winners(n + 1) = V \union {n + 1}
         /\ (~clash /\ request.mode = "none") => Winners(n + 1) = 1 .. n + 1
    <2>1. \A i : SameKey(Begun, row, All[i]) <=> SameKey(Begun, All[n + 1], All[i])
      BY <1>4
    <2> DEFINE hit == \E i \in Winners(n) : SameKey(Begun, All[n + 1], All[i])
    <2>2. clash <=> hit
      BY <2>1 DEF W
    <2>3. request.mode = "none" => Winners(n) = 1 .. n
      BY <1>5 DEF W
    <2>4. /\ (hit /\ request.mode = "ignore") => Winners(n + 1) = Winners(n)
          /\ (~hit \/ request.mode = "replace") =>
               Winners(n + 1) =
                 {i \in Winners(n) : ~SameKey(Begun, All[n + 1], All[i])} \union {n + 1}
          /\ (~hit /\ request.mode = "none") => Winners(n + 1) = 1 .. n + 1
      BY <1>1, <1>2, <2>3, WinnersNext
    <2>5. V = {i \in Winners(n) : ~SameKey(Begun, All[n + 1], All[i])}
      BY <2>1 DEF W
    <2> HIDE DEF V, clash, hit
    <2>. QED  BY <2>2, <2>4, <2>5 DEF W
  <1>11. /\ Picked(All, V \union {n + 1}) = Append(Picked(All, V), row)
         /\ Cardinality(V \union {n + 1}) = Cardinality(V) + 1
    <2>1. V \in SUBSET (1 .. n) /\ Holds(All, V \union {n + 1}, TableRows)
      BY <1>2, <1>3, <1>4 DEF Holds
    <2> HIDE DEF V
    <2>2. /\ Picked(All, V \union {n + 1}) = Append(Picked(All, V), All[n + 1])
          /\ Cardinality(V \union {n + 1}) = Cardinality(V) + 1
      BY <1>2, <2>1, PickedNext, Zenon
    <2>. QED  BY <1>4, <2>2
  <1>12. outcome = IF clash /\ request.mode = "none" THEN "error"
                   ELSE IF clash /\ request.mode = "ignore" THEN "skipped" ELSE "inserted"
    BY <1>8 DEF InsertRow
  <1>13. ~clash => V = W
    OBVIOUS
  <1>14. request.mode \in {"none", "ignore", "replace"}
    BY <1>1, ImportAssumption
  <1> HIDE DEF clash, V
  <1>15. outcome = "skipped" => request.mode = "ignore" /\ Winners(n + 1) = W
    BY <1>10, <1>12
  <1>16. ASSUME outcome = "inserted"
         PROVE  /\ Append(Without(table.rows, row), row) = Picked(All, Winners(n + 1))
                /\ request.mode = "ignore" => Cardinality(Winners(n + 1)) = Cardinality(W) + 1
                /\ request.mode = "none" => Winners(n + 1) = 1 .. n + 1
    <2>1. ~clash \/ request.mode = "replace"
      BY <1>12, <1>14, <1>16
    <2>2. Winners(n + 1) = V \union {n + 1}
      BY <1>10, <2>1
    <2>3. request.mode = "ignore" => V = W
      BY <1>13, <2>1
    <2>4. request.mode = "none" => Winners(n + 1) = 1 .. n + 1
      BY <1>10, <2>1
    <2>. QED  BY <1>9, <1>11, <2>2, <2>3, <2>4
  <1>. QED  BY <1>12, <1>15, <1>16 DEF W, n

LEMMA ImportRowInv ==
    ASSUME ImportInv, ImportRow
    PROVE  ImportInv'
  <1>1. CASE Abort
    BY <1>1, AbortInv
  <1>2. CASE ~Abort
    <2> DEFINE row == RowOf(table, Columns(request), Rows(request)[index + 1])
               outcome == InsertRow(table.rows, row)
               later == IF outcome = "inserted"
                        THEN [table EXCEPT !.rows = Append(Without(table.rows, row), row)]
                        ELSE table
               size == Max({pages, PagesOf(later)})
               n == Counted
    <2>1. /\ phase = "importing" /\ index < Len(request.data)
          /\ outcome # "error" /\ Fits(size)
          /\ table' = later /\ pages' = size /\ index' = index + 1
          /\ inserted' = IF outcome = "inserted" THEN inserted + 1 ELSE inserted
          /\ skipped' = IF outcome = "skipped" THEN skipped + 1 ELSE skipped
          /\ UNCHANGED << request, before, phase, disk, answer >>
      BY <1>2 DEF ImportRow
    <2>2. /\ ImportTypes /\ Imported /\ answer = "none" /\ (pages > disk => pages <= MaxPages)
          /\ request \in Imports /\ before \in OldTables
      BY <2>1 DEF ImportInv, ImportTypes
    <2>3. PICK new : new = row
      OBVIOUS
    <2>4. PICK out : out = outcome
      OBVIOUS
    <2>5. /\ out = "skipped" => request.mode = "ignore" /\ Winners(n + 1) = Winners(n)
          /\ out = "inserted" =>
               /\ Append(Without(table.rows, new), new) = Picked(All, Winners(n + 1))
               /\ request.mode = "ignore" =>
                    Cardinality(Winners(n + 1)) = Cardinality(Winners(n)) + 1
               /\ request.mode = "none" => Winners(n + 1) = 1 .. n + 1
          /\ out \in {"error", "skipped", "inserted"}
      BY <2>1, <2>2, <2>3, <2>4, NextRow
    <2>6. /\ table = [types |-> Begun.types, unique |-> Begun.unique, rows |-> Picked(All, Winners(n))]
          /\ inserted + skipped = index
          /\ request.mode = "ignore" => skipped = n - Cardinality(Winners(n))
          /\ request.mode # "ignore" => skipped = 0
          /\ request.mode = "none" => Winners(n) = 1 .. n
      BY <2>2 DEF Imported
    <2>7. later = [types |-> Begun.types, unique |-> Begun.unique, rows |-> Picked(All, Winners(n + 1))]
      <3>1. CASE out = "inserted"
        <4>1. later = [table EXCEPT !.rows = Append(Without(table.rows, new), new)]
          BY <2>3, <2>4, <3>1
        <4> HIDE DEF later
        <4>. QED  BY <2>5, <2>6, <3>1, <4>1
      <3>2. CASE out = "skipped"
        BY <2>4, <2>5, <2>6, <3>2
      <3>. QED  BY <2>1, <2>4, <2>5, <3>1, <3>2
    <2>8. /\ n \in Nat /\ Cardinality(Winners(n)) \in Nat /\ Cardinality(Winners(n + 1)) \in Nat
          /\ Len(Old) \in Nat /\ Len(request.data) \in Nat /\ index \in Nat
          /\ inserted \in Nat /\ skipped \in Nat /\ pages \in Nat /\ disk \in Nat
          /\ n + 1 = Len(Old) + (index + 1)
      <3>1. n \in Nat
        BY <2>2, ImportedIs
      <3>2. Cardinality(Winners(n)) \in Nat /\ Cardinality(Winners(n + 1)) \in Nat
        <4>1. n + 1 \in Nat
          BY <3>1
        <4>. QED  BY <3>1, <4>1, WinnersAre
      <3>3. Len(Old) \in Nat /\ Len(request.data) \in Nat
        BY <2>2, AllIs
      <3>4. index \in Nat /\ inserted \in Nat /\ skipped \in Nat /\ pages \in Nat /\ disk \in Nat
        BY <2>2, <3>3 DEF ImportTypes
      <3>. QED  BY <3>1, <3>2, <3>3, <3>4 DEF Counted
    <2>9. PagesOf(later) \in Nat
      <3>1. Holds(All, Winners(n + 1), TableRows)
        <4>1. Winners(n + 1) \in SUBSET (1 .. n + 1)
          BY <2>8, WinnersAre
        <4>2. Len(All) = Len(Old) + Len(request.data) /\ \A i \in 1 .. Len(All) : All[i] \in TableRows
          BY <2>2, AllIs
        <4>3. n + 1 <= Len(All)
          BY <2>1, <2>8, <4>2
        <4> HIDE DEF n
        <4>4. \A i \in 1 .. n + 1 : i \in 1 .. Len(All)
          BY <2>8, <4>2, <4>3
        <4>. QED  BY <4>1, <4>2, <4>4 DEF Holds
      <3>2. /\ IsFiniteSet(Winners(n + 1)) /\ Winners(n + 1) \subseteq Int
        BY <2>8, WinnersAre
      <3>3. Len(Picked(All, Winners(n + 1))) = Cardinality(Winners(n + 1))
        BY <3>1, <3>2, PickedSeq DEF Takes
      <3> HIDE DEF later, n
      <3>4. Len(later.rows) \in Nat
        BY <2>7, <2>8, <3>3
      <3>. QED  BY <3>4 DEF PagesOf
    <2>10. size \in Nat /\ size >= pages
      <3> HIDE DEF later
      <3>1. size = IF pages >= PagesOf(later) THEN pages ELSE PagesOf(later)
        BY <2>8, <2>9, MaxTwo
      <3>. QED  BY <2>8, <2>9, <3>1
    <2> HIDE DEF outcome, size, later, n
    <2>11. ImportTypes' /\ phase' = "importing" /\ answer' = "none"
      <3>1. index' \in 0 .. Len(request.data) /\ inserted' \in 0 .. index' /\ skipped' \in 0 .. index'
        BY <2>1, <2>2, <2>8 DEF ImportTypes
      <3>. QED  BY <2>1, <2>2, <2>8, <2>10, <3>1 DEF ImportTypes
    <2>12. pages' > disk' => pages' <= MaxPages
      <3>1. size > pages => size <= MaxPages
        BY <2>1 DEF Fits
      <3>. QED  BY <2>1, <2>2, <2>8, <2>10, <3>1
    <2>13. Imported'
      <3>1. /\ Begun' = Begun /\ All' = All /\ Counted' = n + 1
            /\ Winners(Counted)' = Winners(n + 1)
        BY <2>1, <2>8, Unmoved
      <3>2. Cardinality(Winners(Counted))' = Cardinality(Winners(n + 1))
        BY <3>1
      <3>3. Picked(All, Winners(Counted))' = Picked(All, Winners(n + 1))
        BY <3>1
      <3>4. inserted' + skipped' = index'
        BY <2>1, <2>4, <2>5, <2>6, <2>8
      <3>5. request'.mode = "ignore" => skipped' = Counted' - Cardinality(Winners(Counted))'
        <4>1. CASE out = "skipped"
          BY <2>1, <2>4, <2>5, <2>6, <2>8, <3>1, <3>2, <4>1
        <4>2. CASE out = "inserted"
          BY <2>1, <2>4, <2>5, <2>6, <2>8, <3>1, <3>2, <4>2
        <4>. QED  BY <2>1, <2>4, <2>5, <4>1, <4>2
      <3>6. request'.mode # "ignore" => skipped' = 0
        BY <2>1, <2>4, <2>5, <2>6
      <3>7. request'.mode = "none" => Winners(Counted)' = 1 .. Counted'
        BY <2>1, <2>4, <2>5, <3>1
      <3>. QED  BY <2>1, <2>7, <3>1, <3>3, <3>4, <3>5, <3>6, <3>7 DEF Imported
    <2>. QED  BY <2>11, <2>12, <2>13 DEF ImportInv
  <1>. QED  BY <1>1, <1>2

LEMMA CommitImportInv ==
    ASSUME ImportInv, CommitImport
    PROVE  ImportInv'
  <1>1. CASE Abort
    BY <1>1, AbortInv
  <1>2. CASE ~Abort
    <2>1. /\ phase = "importing" /\ index = Len(request.data)
          /\ \E read \in disk .. pages : ~TooLarge(read)
          /\ phase' = "answered" /\ answer' = "ok" /\ disk' = pages
          /\ UNCHANGED << request, before, table, index, inserted, skipped, pages >>
      BY <1>2 DEF CommitImport
    <2>2. /\ ImportTypes /\ Imported /\ (pages > disk => pages <= MaxPages)
          /\ disk \in Nat /\ pages \in Nat /\ disk <= pages
      BY <2>1 DEF ImportInv, ImportTypes
    <2>3. disk <= MaxPages
      <3>1. PICK read \in disk .. pages : ~TooLarge(read)
        BY <2>1
      <3>2. MaxPages \in Nat
        BY ImportAssumption
      <3>. QED  BY <2>2, <3>1, <3>2 DEF TooLarge
    <2>4. disk' <= MaxPages
      BY <2>1, <2>2, <2>3
    <2>5. Imported'
      BY <2>1, <2>2, ImportedStays
    <2>6. ImportTypes'
      BY <2>1, <2>2 DEF ImportTypes
    <2>. QED  BY <2>1, <2>4, <2>5, <2>6 DEF ImportInv
  <1>. QED  BY <1>1, <1>2

LEMMA ImportNextInv ==
    ASSUME ImportInv, ImportNext \/ UNCHANGED importVars
    PROVE  ImportInv'
  <1>1. CASE Refuse
    BY <1>1, AbortInv DEF Refuse
  <1>2. CASE UNCHANGED importVars
    <2>1. UNCHANGED << request, before, table, phase, index, inserted, skipped, pages, disk, answer >>
      BY <1>2 DEF importVars
    <2>2. ImportTypes' = ImportTypes
      BY <2>1 DEF ImportTypes
    <2>3. Imported => Imported'
      BY <2>1, ImportedStays
    <2>. QED  BY <2>1, <2>2, <2>3 DEF ImportInv
  <1>. QED  BY <1>1, <1>2, BeginImportInv, ImportRowInv, CommitImportInv DEF ImportNext

LEMMA ImportInitInv == ImportInit \/ ImportRests => ImportInv
  <1>1. ASSUME ImportInit PROVE ImportInv
    <2>1. PagesOf(table) \in Nat /\ PagesOf(table) >= 1
      <3>1. table.rows \in Seq([DOMAIN table.types -> Values])
        BY <1>1, ImportAssumption DEF ImportInit
      <3>. QED  BY <3>1, LenProperties DEF PagesOf
    <2>2. disk \in Nat /\ disk >= 1
      BY <1>1, <2>1, ImportAssumption DEF ImportInit
    <2>3. request \in Imports /\ Len(request.data) \in Nat
      <3>1. request \in Imports
        BY <1>1 DEF ImportInit
      <3>2. request.data \in Seq(ToSet(request.data))
        BY <3>1, ImportAssumption
      <3>. QED  BY <3>1, <3>2, LenProperties
    <2>. QED  BY <1>1, <2>2, <2>3 DEF ImportInit, ImportInv, ImportTypes
  <1>2. ASSUME ImportRests PROVE ImportInv
    <2>1. request \in Imports /\ Len(request.data) \in Nat
      <3>1. request \in Imports
        BY <1>2, ImportAssumption DEF ImportRests
      <3>2. request.data \in Seq(ToSet(request.data))
        BY <3>1, ImportAssumption
      <3>. QED  BY <3>1, <3>2, LenProperties
    <2>2. before \in OldTables
      BY <1>2, ImportAssumption DEF ImportRests
    <2>. QED  BY <1>2, <2>1, <2>2 DEF ImportRests, ImportInv, ImportTypes
  <1>. QED  BY <1>1, <1>2

(* After a successful import: the rows given are all there is to read.     *)
LEMMA InvImportIsExact == ImportInv => ImportIsExact
  <1> DEFINE old == IF request.truncate THEN << >> ELSE before.rows
             new == [i \in DOMAIN request.data |-> [c \in DOMAIN table.types |->
                       Stored(table.types[c], Converted(GivenValue(i, c)))]]
             all == old \o new
             Wins(i) == \A j \in DOMAIN all :
                          SameKey(table, all[i], all[j]) =>
                              CASE request.mode = "none" -> j = i
                                [] request.mode = "ignore" -> j >= i
                                [] request.mode = "replace" -> j <= i
             winners == {i \in DOMAIN all : Wins(i)}
  <1>1. ASSUME ImportInv, answer = "ok"
        PROVE  /\ table.rows = Picked(all, winners)
               /\ inserted + skipped = Len(request.data)
               /\ skipped = IF request.mode = "ignore" THEN Len(all) - Cardinality(winners) ELSE 0
    <2>1. ImportTypes /\ Imported /\ index = Len(request.data) /\ request \in Imports /\ before \in OldTables
      BY <1>1 DEF ImportInv, ImportTypes
    <2>2. /\ table.types = Begun.types
          /\ \A a, b : SameKey(table, a, b) <=> SameKey(Begun, a, b)
      BY <2>1, ImportedIs
    <2>3. all = All
      <3>1. new = [i \in DOMAIN request.data |-> Read(i)]
        BY <2>2 DEF Read
      <3> HIDE DEF new
      <3>. QED  BY <3>1 DEF All, Old
    <2>4. Len(All) \in Nat /\ DOMAIN All = 1 .. Len(All) /\ Counted = Len(All)
      <3>1. All \in Seq(TableRows) /\ Len(All) = Len(Old) + Len(request.data)
        BY <2>1, AllIs
      <3>. QED  BY <2>1, <3>1, LenProperties DEF Counted
    <2>5. winners = Winners(Counted)
      <3> HIDE DEF all
      <3>1. \A i : Wins(i) <=> \A j \in 1 .. Len(All) : SameKey(Begun, All[i], All[j]) => Stays(i, j)
        BY <2>2, <2>3, <2>4 DEF Stays
      <3> HIDE DEF Wins
      <3>. QED  BY <2>3, <2>4, <3>1 DEF Winners
    <2> HIDE DEF all, winners
    <2>. QED  BY <2>1, <2>3, <2>4, <2>5 DEF Imported
  <1>2. ASSUME ImportInv, answer = "error" PROVE table = before /\ pages = disk
    BY <1>2 DEF ImportInv
  <1>. QED  BY <1>1, <1>2 DEF ImportIsExact

(* Column c is given a value of one of these kinds.                        *)
Sees(c, kinds) == \E i \in DOMAIN request.data : GivenValue(i, c).kind \in kinds

LEMMA InferredIs ==
    ASSUME request \in Imports, request.infer, NEW c \in ToSet(Columns(request))
    PROVE  /\ c \in DOMAIN CreatedTable(request).types
           /\ CreatedTable(request).types[c] =
                IF Sees(c, {"text", "nested"}) THEN "TEXT"
                ELSE IF Sees(c, {"real", "uint"}) THEN "REAL"
                ELSE IF Sees(c, {"int", "bool"}) THEN "INTEGER"
                ELSE "TEXT"
  <1> DEFINE place(k) == CHOOSE j \in DOMAIN Columns(request) : Columns(request)[j] = k
             rows == Rows(request)
             saw(kinds) == \E i \in DOMAIN rows : rows[i][place(c)].kind \in kinds
  <1>1. /\ c \in DOMAIN CreatedTable(request).types
        /\ CreatedTable(request).types[c] = InferColumnType(rows, place(c))
    BY DEF CreatedTable
  <1>2. DOMAIN rows = DOMAIN request.data
    BY DEF Rows
  <1>3. \A i \in DOMAIN request.data : rows[i][place(c)] = GivenValue(i, c)
    BY FieldIsGiven
  <1> HIDE DEF place, rows
  <1>4. \A kinds : saw(kinds) <=> Sees(c, kinds)
    BY <1>2, <1>3 DEF Sees
  <1>5. InferColumnType(rows, place(c)) =
          IF saw({"text", "nested"}) THEN "TEXT"
          ELSE IF saw({"real", "uint"}) THEN "REAL"
          ELSE IF saw({"int", "bool"}) THEN "INTEGER"
          ELSE "TEXT"
    BY DEF InferColumnType
  <1> HIDE DEF saw
  <1>. QED  BY <1>1, <1>4, <1>5

(* The kinds a column is given, but for NULL.                              *)
KindsGiven(c) == {GivenValue(i, c).kind : i \in DOMAIN request.data} \ {"null"}

LEMMA KindsGivenFinite ==
    ASSUME request \in Imports, NEW c
    PROVE  IsFiniteSet(KindsGiven(c))
  <1> DEFINE m == Len(request.data)
             kind == [i \in 1 .. m |-> GivenValue(i, c).kind]
             all == {kind[i] : i \in 1 .. m}
  <1>1. m \in Nat /\ DOMAIN request.data = 1 .. m
    <2>1. request.data \in Seq(ToSet(request.data))
      BY ImportAssumption
    <2>. QED  BY <2>1, LenProperties
  <1>2. kind \in Surjection(1 .. m, all)
    BY DEF Surjection
  <1>3. IsFiniteSet(1 .. m)
    BY <1>1, FS_Interval
  <1>4. IsFiniteSet(all)
    BY <1>2, <1>3, FS_Surjection
  <1>5. KindsGiven(c) \in SUBSET all
    BY <1>1 DEF KindsGiven
  <1> HIDE DEF all
  <1>. QED  BY <1>4, <1>5, FS_Subset

LEMMA InvValuesKeepTheirKinds == ImportInv => ValuesKeepTheirKinds
  <1>1. SUFFICES ASSUME ImportInv, answer = "ok", ~Exists(before), request.infer,
                        NEW c \in DOMAIN table.types, NEW i \in DOMAIN request.data
                 PROVE  LET kinds == KindsGiven(c)
                            given == Converted(GivenValue(i, c))
                            stored == table.rows[i][c]
                        IN /\ Cardinality(kinds) = 1 => stored = given
                           /\ given.kind \in {"int", "real"} /\ kinds \cap {"text", "nested"} = {} =>
                                stored.kind \in {"int", "real"}
    BY DEF ValuesKeepTheirKinds, KindsGiven
  <1> DEFINE value == GivenValue(i, c)
             type == CreatedTable(request).types[c]
  <1>2. ImportTypes /\ Imported /\ index = Len(request.data) /\ request \in Imports /\ before \in OldTables
    BY <1>1 DEF ImportInv, ImportTypes
  <1>3. Begun = CreatedTable(request) /\ before.rows = << >> /\ Old = << >>
    BY <1>1 DEF Begun, Exists, NoTable, Old
  <1>4. c \in ToSet(Columns(request)) /\ table.types = CreatedTable(request).types
    BY <1>1, <1>2, <1>3 DEF Imported, CreatedTable
  <1>5. table.rows[i] = Read(i)
    <2>1. /\ Len(Old) = 0 /\ Len(request.data) \in Nat /\ DOMAIN request.data = 1 .. Len(request.data)
          /\ All \in Seq(TableRows) /\ Len(All) = Len(Old) + Len(request.data)
          /\ \A k \in 1 .. Len(request.data) : All[Len(Old) + k] = Read(k)
      BY <1>2, <1>3, AllIs
    <2>2. Counted = Len(All) /\ Len(All) \in Nat
      BY <1>2, <2>1 DEF Counted
    <2>3. \A a, b : ~SameKey(Begun, a, b)
      BY <1>3 DEF SameKey, CreatedTable
    <2>4. Winners(Counted) = 1 .. Len(All)
      BY <2>2, <2>3 DEF Winners
    <2>5. Picked(All, 1 .. Len(All)) = All
      BY <2>1, PickedAll
    <2>6. table.rows = All
      BY <1>2, <2>4, <2>5 DEF Imported
    <2>7. All[0 + i] = Read(i) /\ 0 + i = i
      BY <2>1
    <2>. QED  BY <2>6, <2>7
  <1>6. table.rows[i][c] = Stored(type, Converted(value))
    BY <1>3, <1>4, <1>5 DEF Read, CreatedTable
  <1>7. type = IF Sees(c, {"text", "nested"}) THEN "TEXT"
               ELSE IF Sees(c, {"real", "uint"}) THEN "REAL"
               ELSE IF Sees(c, {"int", "bool"}) THEN "INTEGER"
               ELSE "TEXT"
    BY <1>1, <1>2, <1>4, InferredIs
  <1>8. \A kinds : Sees(c, kinds) => KindsGiven(c) \cap kinds # {} \/ "null" \in kinds
    BY DEF Sees, KindsGiven
  <1>9. \A kinds : value.kind \in kinds => Sees(c, kinds)
    BY <1>1 DEF Sees
  <1>10. value.kind # "null" => value.kind \in KindsGiven(c)
    BY <1>1 DEF KindsGiven
  <1> HIDE DEF value, type
  <1>11. ASSUME Cardinality(KindsGiven(c)) = 1
         PROVE  table.rows[i][c] = Converted(value)
    <2>1. PICK k : KindsGiven(c) = {k}
      BY <1>2, <1>11, KindsGivenFinite, FS_Singleton
    <2>2. value.kind = "null" \/ value.kind = k
      BY <1>10, <2>1
    <2>3. CASE value.kind = "null"
      <3>1. Converted(value) = [kind |-> "null", of |-> value.of]
        BY <2>3 DEF Converted
      <3>. QED  BY <1>6, <3>1 DEF Stored
    <2>4. CASE value.kind = k
      <3>1. \A kinds : Sees(c, kinds) => k \in kinds \/ "null" \in kinds
        BY <1>8, <2>1
      <3>2. type = CASE k \in {"text", "nested"} -> "TEXT"
                     [] k \in {"real", "uint"} -> "REAL"
                     [] k \in {"int", "bool"} -> "INTEGER"
                     [] OTHER -> "TEXT"
        BY <1>7, <1>9, <2>4, <3>1
      <3>3. Converted(value) =
              [kind |-> CASE k = "bool" -> "int" [] k = "uint" -> "real"
                          [] k = "nested" -> "text" [] OTHER -> k,
               of |-> value.of]
        BY <2>4 DEF Converted
      <3>. QED  BY <1>6, <3>2, <3>3 DEF Stored
    <2>. QED  BY <2>2, <2>3, <2>4
  <1>12. ASSUME Converted(value).kind \in {"int", "real"}, KindsGiven(c) \cap {"text", "nested"} = {}
         PROVE  table.rows[i][c].kind \in {"int", "real"}
    <2>1. ~Sees(c, {"text", "nested"})
      BY <1>8, <1>12
    <2>2. value.kind \in {"bool", "int", "uint", "real"}
      BY <1>12 DEF Converted
    <2>3. type \in {"REAL", "INTEGER"}
      BY <1>7, <1>9, <2>1, <2>2
    <2> DEFINE given == Converted(value)
    <2>4. given = [kind |-> given.kind, of |-> given.of]
      BY DEF Converted
    <2> HIDE DEF given
    <2>5. Stored(type, given).kind \in {"int", "real"}
      BY <1>12, <2>3, <2>4 DEF Stored, given
    <2>. QED  BY <1>6, <2>5 DEF given
  <1>. QED  BY <1>11, <1>12 DEF value

LEMMA InvImportTypeOK == ImportInv => ImportTypeOK
  <1>1. SUFFICES ASSUME ImportInv PROVE ImportTypeOK
    OBVIOUS
  <1>2. ImportTypes /\ request \in Imports /\ before \in OldTables
    BY <1>1 DEF ImportInv, ImportTypes
  <1>3. table.unique \in BOOLEAN /\ \A i \in DOMAIN table.rows : DOMAIN table.rows[i] = DOMAIN table.types
    <2>1. CASE table = before
      <3>1. before.unique \in BOOLEAN /\ before.rows \in Seq([DOMAIN before.types -> Values])
        BY <1>2, ImportAssumption
      <3>. QED  BY <2>1, <3>1, ElementOfSeq, LenProperties
    <2>2. CASE Imported
      <3>1. /\ Takes(table.rows, Rising(Winners(Counted)), Cardinality(Winners(Counted)), All, TableRows)
            /\ table.types = Begun.types /\ table.unique = Begun.unique
        BY <1>2, <2>2, ImportedIs
      <3>2. table.rows \in Seq(TableRows)
        BY <3>1 DEF Takes
      <3>3. \A i \in DOMAIN table.rows : table.rows[i] \in TableRows
        BY <3>2, ElementOfSeq, LenProperties
      <3>. QED  BY <1>2, <3>1, <3>3, BegunIs DEF TableRows
    <2>. QED  BY <1>1, <1>2, <2>1, <2>2 DEF ImportInv, ImportTypes
  <1>. QED  BY <1>2, <1>3 DEF ImportTypeOK, ImportTypes

-----------------------------------------------------------------------------
(* Texts: where the scanner is when a lexeme begins                        *)

(* One turn of the scanner.                                                *)
Turn(here, s, i) == IF here.skip THEN Goes(here.mode) ELSE Advance(here.mode, s, i)

(* The states before each byte, one turn after the other.                  *)
Scans(scan, n, s) ==
    /\ scan[1] = Goes("Normal")
    /\ \A i \in 1 .. n : scan[i + 1] = Turn(scan[i], s, i)

LEMMA ScanIs ==
    ASSUME NEW s, Len(s) \in Nat
    PROVE  Scans(Scan(s), Len(s), s)
  <1> DEFINE Fills(f, n) ==
               f = [i \in 1 .. n + 1 |-> IF i = 1 THEN Goes("Normal") ELSE Turn(f[i - 1], s, i - 1)]
             Bad == {n \in Nat : ~ \E f : Fills(f, n)}
  <1>1. \A n \in Nat : \E f : Fills(f, n)
    <2>1. SUFFICES ASSUME Bad # {} PROVE FALSE
      OBVIOUS
    <2>2. PICK n \in Bad : \A m \in Bad : n <= m
      <3>1. Bad \subseteq Nat
        OBVIOUS
      <3> HIDE DEF Bad
      <3>. QED  BY <2>1, <3>1, Least
    <2>3. n \in Nat /\ ~ \E f : Fills(f, n)
      BY <2>2
    <2>4. CASE n = 0
      <3> DEFINE f == [i \in 1 .. n + 1 |-> Goes("Normal")]
      <3>1. \A i \in 1 .. n + 1 : i = 1
        BY <2>4
      <3>2. Fills(f, n)
        BY <3>1
      <3>. QED  BY <2>3, <3>2
    <2>5. CASE n # 0
      <3>1. n - 1 \in Nat /\ ~(n <= n - 1)
        BY <2>3, <2>5
      <3>2. PICK f : Fills(f, n - 1)
        BY <2>2, <3>1
      <3> DEFINE g == [i \in 1 .. n + 1 |-> IF i = n + 1 THEN Turn(f[n], s, n) ELSE f[i]]
      <3>3. \A i \in 1 .. n : f[i] = IF i = 1 THEN Goes("Normal") ELSE Turn(f[i - 1], s, i - 1)
        BY <2>3, <2>5, <3>2
      <3>4. ASSUME NEW i \in 1 .. n + 1
            PROVE  g[i] = IF i = 1 THEN Goes("Normal") ELSE Turn(g[i - 1], s, i - 1)
        <4>1. CASE i = n + 1
          <5>1. i # 1 /\ i - 1 = n /\ n \in 1 .. n + 1 /\ n # n + 1
            BY <2>3, <2>5, <4>1
          <5>2. g[i] = Turn(f[n], s, n) /\ g[i - 1] = f[n]
            BY <4>1, <5>1
          <5>. QED  BY <5>1, <5>2
        <4>2. CASE i # n + 1
          <5>1. i \in 1 .. n /\ g[i] = f[i]
            BY <2>3, <4>2
          <5>2. i # 1 => i - 1 \in 1 .. n + 1 /\ i - 1 # n + 1
            BY <2>3, <5>1
          <5>3. i # 1 => g[i - 1] = f[i - 1]
            BY <5>2
          <5> HIDE DEF g
          <5>. QED  BY <3>3, <5>1, <5>3
        <4>. QED  BY <4>1, <4>2
      <3>5. g = [i \in 1 .. n + 1 |-> g[i]]
        OBVIOUS
      <3> HIDE DEF g
      <3>6. Fills(g, n)
        BY <3>4, <3>5
      <3>. QED  BY <2>3, <3>6
    <2>. QED  BY <2>4, <2>5
  <1>2. Scan(s) = CHOOSE f : Fills(f, Len(s))
    BY DEF Scan, Turn
  <1>3. Fills(Scan(s), Len(s))
    BY <1>1, <1>2
  <1> DEFINE f == Scan(s)
  <1> HIDE DEF f
  <1>4. f = [i \in 1 .. Len(s) + 1 |-> IF i = 1 THEN Goes("Normal") ELSE Turn(f[i - 1], s, i - 1)]
    BY <1>3 DEF f
  <1>5. f[1] = Goes("Normal")
    BY <1>4
  <1>6. ASSUME NEW i \in 1 .. Len(s) PROVE f[i + 1] = Turn(f[i], s, i)
    <2>1. i + 1 \in 1 .. Len(s) + 1 /\ i + 1 # 1 /\ i + 1 - 1 = i
      OBVIOUS
    <2>. QED  BY <1>4, <2>1
  <1>. QED  BY <1>5, <1>6 DEF Scans, f

(* A stretch of bytes that change nothing.                                 *)
Quiet(mode, s, a, b) == \A j \in a .. b - 1 : Advance(mode, s, j) = Goes(mode)
Remains(scan, mode, a, b) == \A j \in a .. b : scan[j] = Goes(mode)

LEMMA Stretch ==
    ASSUME NEW s, NEW n \in Nat, NEW scan, Scans(scan, n, s), NEW mode,
           NEW a \in Nat, NEW b \in Nat, 1 <= a, a <= b, b <= n + 1,
           scan[a] = Goes(mode), Quiet(mode, s, a, b)
    PROVE  Remains(scan, mode, a, b)
  <1> DEFINE Bad == {j \in a .. b : scan[j] # Goes(mode)}
  <1>1. SUFFICES ASSUME Bad # {} PROVE FALSE
    BY DEF Remains
  <1>2. PICK j \in Bad : \A k \in Bad : j <= k
    <2>1. Bad \subseteq Nat
      OBVIOUS
    <2> HIDE DEF Bad
    <2>. QED  BY <1>1, <2>1, Least
  <1>3. j \in a .. b /\ scan[j] # Goes(mode) /\ j # a
    BY <1>2
  <1>4. j - 1 \in a .. b - 1 /\ j - 1 \in a .. b /\ j - 1 \in 1 .. n /\ j - 1 + 1 = j /\ ~(j <= j - 1)
    BY <1>3
  <1>5. scan[j - 1] = Goes(mode)
    BY <1>2, <1>4
  <1>6. scan[j] = Turn(scan[j - 1], s, j - 1)
    BY <1>4 DEF Scans
  <1>7. Advance(mode, s, j - 1) = Goes(mode)
    BY <1>4 DEF Quiet
  <1>8. Turn(Goes(mode), s, j - 1) = Advance(mode, s, j - 1)
    BY DEF Turn, Goes
  <1>. QED  BY <1>3, <1>5, <1>6, <1>7, <1>8

LEMMA FirstIs ==
    ASSUME NEW places, places \subseteq Nat, NEW otherwise
    PROVE  LET first == FirstOf(places, otherwise)
           IN \/ places = {} /\ first = otherwise
              \/ first \in places /\ \A p \in places : first <= p
  <1>1. CASE places = {}
    BY <1>1 DEF FirstOf
  <1>2. CASE places # {}
    <2>1. \E x \in places : \A p \in places : x <= p
      BY <1>2, Least
    <2>2. Min(places) \in places /\ \A p \in places : Min(places) <= p
      BY <2>1 DEF Min
    <2>. QED  BY <1>2, <2>2 DEF FirstOf
  <1>. QED  BY <1>1, <1>2

(* What the scanner does with byte i of a text of n bytes.                 *)
LEMMA AdvanceIs ==
    ASSUME NEW s, NEW n \in Nat, DOMAIN s = 1 .. n, NEW i \in 1 .. n
    PROVE  /\ ~AtComment(s, i) => Advance("Normal", s, i) = Goes(Opened(s[i]))
           /\ AtComment(s, i) => i + 1 \in 1 .. n /\ s[i] \in {"-", "/"}
           /\ AtComment(s, i) /\ s[i] = "-" => Advance("Normal", s, i) = Jumps("LineComment")
           /\ AtComment(s, i) /\ s[i] = "/" => Advance("Normal", s, i) = Jumps("BlockComment")
           /\ Advance("LineComment", s, i) = IF s[i] = "\n" THEN Goes("Normal") ELSE Goes("LineComment")
           /\ Advance("BracketQuote", s, i) = IF s[i] = "]" THEN Goes("Normal") ELSE Goes("BracketQuote")
           /\ Advance("BlockComment", s, i) =
                IF s[i] = "*" /\ i + 1 \in 1 .. n /\ s[i + 1] = "/" THEN Jumps("Normal") ELSE Goes("BlockComment")
  <1>1. At(s, i) = s[i] /\ At(s, i + 1) = IF i + 1 \in 1 .. n THEN s[i + 1] ELSE "end"
    BY DEF At
  <1>2. /\ AtComment(s, i) => i + 1 \in 1 .. n /\ s[i] \in {"-", "/"}
        /\ AtComment(s, i) /\ s[i] = "-" => s[i + 1] = "-"
        /\ AtComment(s, i) /\ s[i] = "/" => s[i + 1] = "*"
    BY <1>1 DEF AtComment
  <1>3. ~AtComment(s, i) => Advance("Normal", s, i) = Goes(Opened(s[i]))
    BY <1>1 DEF Advance, AtComment
  <1>4. AtComment(s, i) /\ s[i] = "-" => Advance("Normal", s, i) = Jumps("LineComment")
    BY <1>1, <1>2 DEF Advance
  <1>5. AtComment(s, i) /\ s[i] = "/" => Advance("Normal", s, i) = Jumps("BlockComment")
    BY <1>1, <1>2 DEF Advance, CommentOpens
  <1>6. Advance("LineComment", s, i) = IF s[i] = "\n" THEN Goes("Normal") ELSE Goes("LineComment")
    BY <1>1 DEF Advance
  <1>7. Advance("BracketQuote", s, i) = IF s[i] = "]" THEN Goes("Normal") ELSE Goes("BracketQuote")
    BY <1>1 DEF Advance
  <1>8. Advance("BlockComment", s, i) =
          IF s[i] = "*" /\ i + 1 \in 1 .. n /\ s[i + 1] = "/" THEN Jumps("Normal") ELSE Goes("BlockComment")
    BY <1>1 DEF Advance
  <1>. QED  BY <1>2, <1>3, <1>4, <1>5, <1>6, <1>7, <1>8

LEMMA QuoteIs ==
    ASSUME NEW s, NEW n \in Nat, DOMAIN s = 1 .. n, NEW i \in 1 .. n,
           NEW mode \in {"SingleQuote", "DoubleQuote"}
    PROVE  Advance(mode, s, i) =
             IF Opened(s[i]) # mode THEN Goes(mode)
             ELSE IF i + 1 \in 1 .. n /\ s[i + 1] = s[i] THEN Jumps(mode) ELSE Goes("Normal")
  <1>1. At(s, i) = s[i] /\ At(s, i + 1) = IF i + 1 \in 1 .. n THEN s[i + 1] ELSE "end"
    BY DEF At
  <1>2. Opened(s[i]) = mode => s[i] # "end"
    BY DEF Opened
  <1>3. CASE Opened(s[i]) # mode
    BY <1>1, <1>3 DEF Advance
  <1>4. CASE Opened(s[i]) = mode
    BY <1>1, <1>2, <1>4 DEF Advance
  <1>. QED  BY <1>3, <1>4

LEMMA OpenedIs ==
    ASSUME NEW byte
    PROVE  /\ Opened(byte) \in {"SingleQuote", "DoubleQuote", "BracketQuote", "Normal"}
           /\ Opened(byte) = "SingleQuote" <=> byte = "'"
           /\ Opened(byte) = "DoubleQuote" <=> byte = "\""
           /\ Opened(byte) = "BracketQuote" <=> byte = "["
           /\ byte \in IdentifierChars \union Blanks \union {";", "-", "/", "*", "]"} => Opened(byte) = "Normal"
           /\ byte \in IdentifierChars => byte \notin {"\n", " ", ";", "-", "/"}
  BY DEF Opened, IdentifierChars, Letters, Blanks

-----------------------------------------------------------------------------
(* Texts: what a lexeme is                                                 *)

LEMMA QuotesAre ==
    ASSUME NEW s, NEW i \in Nat, NEW j \in Nat, i <= j
    PROVE  /\ Cardinality(Quotes(s, i, i)) = 1
           /\ Cardinality(Quotes(s, i, j)) \in Nat
           /\ Cardinality(Quotes(s, i, j + 1)) =
                Cardinality(Quotes(s, i, j)) + IF s[j + 1] = s[i] THEN 1 ELSE 0
  <1>1. Quotes(s, i, i) = {i}
    BY DEF Quotes
  <1>2. IsFiniteSet(Quotes(s, i, j))
    <2>1. Quotes(s, i, j) \subseteq i .. j
      BY DEF Quotes
    <2>. QED  BY <2>1, FS_Interval, FS_Subset
  <1>3. j + 1 \notin Quotes(s, i, j)
    BY DEF Quotes
  <1>4. Quotes(s, i, j + 1) = Quotes(s, i, j) \union IF s[j + 1] = s[i] THEN {j + 1} ELSE {}
    <2>1. \A k : k \in i .. j + 1 <=> k \in i .. j \/ k = j + 1
      OBVIOUS
    <2>. QED  BY <2>1 DEF Quotes
  <1>5. Cardinality(Quotes(s, i, j)) \in Nat
    BY <1>2, FS_CardinalityType
  <1>6. Cardinality(Quotes(s, i, j + 1)) =
          Cardinality(Quotes(s, i, j)) + IF s[j + 1] = s[i] THEN 1 ELSE 0
    <2>1. CASE s[j + 1] = s[i]
      <3>1. Quotes(s, i, j + 1) = Quotes(s, i, j) \union {j + 1}
        BY <1>4, <2>1
      <3>. QED  BY <1>2, <1>3, <2>1, <3>1, FS_AddElement
    <2>2. CASE s[j + 1] # s[i]
      <3>1. Quotes(s, i, j + 1) = Quotes(s, i, j)
        BY <1>4, <2>2
      <3>. QED  BY <1>5, <2>2, <3>1
    <2>. QED  BY <2>1, <2>2
  <1>7. Cardinality({i}) = 1
    BY FS_Singleton
  <1>. QED  BY <1>1, <1>5, <1>6, <1>7

(* The places of a text from a on where it ends with e, or with its end.   *)
LiteralEnds(s, n, i, e) ==
    /\ e \in i .. n /\ \A j \in i + 1 .. e - 1 : ~Closes(s, i, j)
    /\ \/ (e = n) /\ (e = i \/ ~Closes(s, i, e))
       \/ e \in i + 1 .. n /\ Closes(s, i, e)

LEMMA LiteralShape ==
    ASSUME NEW s, NEW n \in Nat, DOMAIN s = 1 .. n, Len(s) = n, NEW i \in 1 .. n, Opened(s[i]) # "Normal"
    PROVE  Kind(s, i) = "literal" /\ LiteralEnds(s, n, i, LexEnd(s, i))
  <1> DEFINE places == {j \in i + 1 .. Len(s) : Closes(s, i, j)}
             last == FirstOf(places, Len(s))
  <1>1. s[i] \notin IdentifierChars /\ s[i] \notin Blanks /\ s[i] \notin {"-", "/"}
    BY OpenedIs
  <1>2. ~AtComment(s, i)
    BY <1>1, AdvanceIs
  <1>3. Kind(s, i) = "literal" /\ LexEnd(s, i) = last
    <2>1. Kind(s, i) = "literal"
      BY <1>1, <1>2 DEF Kind
    <2>2. LexEnd(s, i) = last
      BY <1>1, <1>2 DEF LexEnd
    <2>. QED  BY <2>1, <2>2
  <1>4. \/ places = {} /\ last = n
        \/ last \in places /\ \A p \in places : last <= p
    <2>1. places \subseteq Nat
      OBVIOUS
    <2> HIDE DEF places
    <2>. QED  BY <2>1, FirstIs
  <1> HIDE DEF last
  <1>5. CASE places = {} /\ last = n
    <2>1. \A j \in i + 1 .. n : ~Closes(s, i, j)
      BY <1>5
    <2>2. n = i \/ n \in i + 1 .. n
      OBVIOUS
    <2>3. \A j \in i + 1 .. n - 1 : j \in i + 1 .. n
      OBVIOUS
    <2>. QED  BY <1>3, <1>5, <2>1, <2>2, <2>3 DEF LiteralEnds
  <1>6. CASE last \in places /\ \A p \in places : last <= p
    <2>1. last \in i + 1 .. n /\ last \in i .. n /\ Closes(s, i, last)
      BY <1>6
    <2>2. \A j \in i + 1 .. last - 1 : j \in i + 1 .. n /\ ~(last <= j)
      BY <2>1
    <2>3. \A j \in i + 1 .. last - 1 : ~Closes(s, i, j)
      BY <1>6, <2>2
    <2>. QED  BY <1>3, <2>1, <2>3 DEF LiteralEnds
  <1>. QED  BY <1>4, <1>5, <1>6

(* `e` is the last byte of the line that a comment ends.                   *)
LineEnds(s, n, i, e) ==
    /\ e \in i + 1 .. n
    /\ \A j \in i + 2 .. e : s[j] # "\n"
    /\ \/ e = n
       \/ e + 1 \in 1 .. n /\ s[e + 1] = "\n"

LEMMA LineShape ==
    ASSUME NEW s, NEW n \in Nat, DOMAIN s = 1 .. n, Len(s) = n, NEW i \in 1 .. n,
           AtComment(s, i), s[i] = "-"
    PROVE  /\ Kind(s, i) = "comment" /\ LineEnds(s, n, i, LexEnd(s, i))
           /\ LexEnd(s, i) + 1 = CommentEnd(s, i)
  <1> DEFINE places == {j \in i + 2 .. Len(s) : s[j] = "\n"}
             line == FirstOf(places, Len(s) + 1)
  <1>1. Opened(s[i]) = "Normal" /\ s[i] \notin IdentifierChars /\ s[i] \notin Blanks
    BY OpenedIs DEF Blanks
  <1>2. Kind(s, i) = "comment" /\ LexEnd(s, i) = line - 1
    BY <1>1 DEF Kind, LexEnd
  <1>3. \/ places = {} /\ line = n + 1
        \/ line \in places /\ \A p \in places : line <= p
    <2>1. places \subseteq Nat
      OBVIOUS
    <2> HIDE DEF places
    <2>. QED  BY <2>1, FirstIs
  <1>4. CommentEnd(s, i) = line
    <2>1. At(s, i) = "-"
      BY DEF At
    <2>. QED  BY <2>1 DEF CommentEnd
  <1> HIDE DEF line
  <1>5. i + 1 \in 1 .. n
    BY AdvanceIs
  <1>6. line \in i + 2 .. n + 1 /\ \A j \in i + 2 .. line - 1 : s[j] # "\n"
    <2>1. CASE places = {} /\ line = n + 1
      BY <1>5, <2>1
    <2>2. CASE line \in places /\ \A p \in places : line <= p
      <3>1. \A j \in i + 2 .. line - 1 : j \in i + 2 .. n /\ ~(line <= j)
        BY <2>2
      <3>. QED  BY <2>2, <3>1
    <2>. QED  BY <1>3, <2>1, <2>2
  <1>7. line = n + 1 \/ (line \in 1 .. n /\ s[line] = "\n")
    BY <1>3
  <1>8. line - 1 \in i + 1 .. n /\ line - 1 + 1 = line /\ (line = n + 1 => line - 1 = n)
    BY <1>6
  <1>. QED  BY <1>2, <1>4, <1>6, <1>7, <1>8 DEF LineEnds

BlockEnds(s, n, i, e) ==
    /\ e \in i + 1 .. n
    /\ \A j \in i + 2 .. e - 2 : ~(s[j] = "*" /\ s[j + 1] = "/")
    /\ \/ e \in i + 3 .. n /\ s[e - 1] = "*" /\ s[e] = "/"
       \/ e = n /\ \A j \in i + 2 .. n - 1 : ~(s[j] = "*" /\ s[j + 1] = "/")

LEMMA BlockShape ==
    ASSUME NEW s, NEW n \in Nat, DOMAIN s = 1 .. n, Len(s) = n, NEW i \in 1 .. n,
           AtComment(s, i), s[i] = "/"
    PROVE  Kind(s, i) = "comment" /\ BlockEnds(s, n, i, LexEnd(s, i))
  <1> DEFINE places == {j \in i + 3 .. Len(s) : << s[j - 1], s[j] >> = << "*", "/" >>}
             last == FirstOf(places, Len(s))
  <1>1. Opened(s[i]) = "Normal" /\ s[i] \notin IdentifierChars /\ s[i] \notin Blanks
    BY OpenedIs DEF Blanks
  <1>2. Kind(s, i) = "comment" /\ LexEnd(s, i) = last
    BY <1>1 DEF Kind, LexEnd
  <1>3. \/ places = {} /\ last = n
        \/ last \in places /\ \A p \in places : last <= p
    <2>1. places \subseteq Nat
      OBVIOUS
    <2> HIDE DEF places
    <2>. QED  BY <2>1, FirstIs
  <1> HIDE DEF last
  <1>4. i + 1 \in 1 .. n
    BY AdvanceIs
  <1>5. \A j \in i + 2 .. n - 1 : j + 1 \notin places => ~(s[j] = "*" /\ s[j + 1] = "/")
    <2>1. \A j \in i + 2 .. n - 1 : j + 1 \in i + 3 .. n /\ j + 1 - 1 = j
      OBVIOUS
    <2>. QED  BY <2>1
  <1>6. CASE places = {} /\ last = n
    <2>1. \A j \in i + 2 .. n - 1 : ~(s[j] = "*" /\ s[j + 1] = "/")
      BY <1>5, <1>6
    <2>2. n \in i + 1 .. n /\ \A j \in i + 2 .. n - 2 : j \in i + 2 .. n - 1
      BY <1>4
    <2>. QED  BY <1>2, <1>6, <2>1, <2>2 DEF BlockEnds
  <1>7. CASE last \in places /\ \A p \in places : last <= p
    <2>1. last \in i + 3 .. n /\ last \in i + 1 .. n /\ s[last - 1] = "*" /\ s[last] = "/"
      BY <1>7
    <2>2. \A j \in i + 2 .. last - 2 : j \in i + 2 .. n - 1 /\ ~(last <= j + 1)
      BY <2>1
    <2> HIDE DEF places
    <2>3. \A j \in i + 2 .. last - 2 : ~(s[j] = "*" /\ s[j + 1] = "/")
      BY <1>5, <1>7, <2>2
    <2>. QED  BY <1>2, <2>1, <2>3 DEF BlockEnds
  <1>. QED  BY <1>3, <1>6, <1>7

WordEnds(s, n, i, e, chars) ==
    /\ e \in i .. n /\ \A j \in i .. e : s[j] \in chars
    /\ \/ e = n
       \/ e + 1 \in 1 .. n /\ s[e + 1] \notin chars

LEMMA WordEndIs ==
    ASSUME NEW s, NEW n \in Nat, DOMAIN s = 1 .. n, Len(s) = n, NEW i \in 1 .. n, NEW chars
    PROVE  IF s[i] \in chars THEN WordEnds(s, n, i, WordEnd(s, i, chars) - 1, chars)
           ELSE WordEnd(s, i, chars) = i
  <1> DEFINE places == {j \in i .. Len(s) : s[j] \notin chars}
             end == FirstOf(places, Len(s) + 1)
  <1>1. WordEnd(s, i, chars) = end
    BY DEF WordEnd
  <1>2. \/ places = {} /\ end = n + 1
        \/ end \in places /\ \A p \in places : end <= p
    <2>1. places \subseteq Nat
      OBVIOUS
    <2> HIDE DEF places
    <2>. QED  BY <2>1, FirstIs
  <1> HIDE DEF end
  <1>3. CASE s[i] \notin chars
    <2>1. i \in places
      BY <1>3
    <2>2. end \in i .. n /\ end <= i
      BY <1>2, <2>1
    <2>. QED  BY <1>1, <1>3, <2>2
  <1>4. CASE s[i] \in chars
    <2>1. CASE places = {} /\ end = n + 1
      <3>1. end - 1 = n /\ end - 1 \in i .. n /\ \A j \in i .. end - 1 : j \in i .. n
        BY <2>1
      <3>. QED  BY <1>1, <1>4, <2>1, <3>1 DEF WordEnds
    <2>2. CASE end \in places /\ \A p \in places : end <= p
      <3>1. end \in i .. n /\ s[end] \notin chars /\ end # i
        BY <1>4, <2>2
      <3>2. \A j \in i .. end - 1 : j \in i .. n /\ ~(end <= j)
        BY <3>1
      <3>3. \A j \in i .. end - 1 : s[j] \in chars
        BY <2>2, <3>2
      <3>4. end - 1 \in i .. n /\ end - 1 + 1 = end /\ end \in 1 .. n
        BY <3>1
      <3>. QED  BY <1>1, <1>4, <3>1, <3>3, <3>4 DEF WordEnds
    <2>. QED  BY <1>2, <2>1, <2>2
  <1>. QED  BY <1>3, <1>4

LEMMA WordShape ==
    ASSUME NEW s, NEW n \in Nat, DOMAIN s = 1 .. n, Len(s) = n, NEW i \in 1 .. n, s[i] \in IdentifierChars
    PROVE  /\ Kind(s, i) = "word" /\ WordEnds(s, n, i, LexEnd(s, i), IdentifierChars)
           /\ LexEnd(s, i) = WordEnd(s, i, IdentifierChars) - 1
  <1>1. Opened(s[i]) = "Normal" /\ s[i] \notin {"\n", " ", "-", "/"}
    BY OpenedIs
  <1>2. ~AtComment(s, i)
    BY <1>1, AdvanceIs
  <1>3. Kind(s, i) = "word" /\ LexEnd(s, i) = WordEnd(s, i, IdentifierChars) - 1
    BY <1>1, <1>2 DEF Kind, LexEnd, Blanks
  <1>. QED  BY <1>3, WordEndIs

(* A sign or a blank: one byte.                                            *)
LEMMA ByteShape ==
    ASSUME NEW s, NEW i, Opened(s[i]) = "Normal", ~AtComment(s, i), s[i] \notin IdentifierChars
    PROVE  /\ Kind(s, i) = IF s[i] \in Blanks THEN "blank" ELSE "sign"
           /\ LexEnd(s, i) = i
  BY DEF Kind, LexEnd

LEMMA LexEndIn ==
    ASSUME NEW s, NEW n \in Nat, DOMAIN s = 1 .. n, Len(s) = n, NEW i \in 1 .. n
    PROVE  LexEnd(s, i) \in i .. n
  <1>1. CASE Opened(s[i]) # "Normal"
    BY <1>1, LiteralShape DEF LiteralEnds
  <1>2. CASE AtComment(s, i) /\ s[i] = "-"
    BY <1>2, LineShape DEF LineEnds
  <1>3. CASE AtComment(s, i) /\ s[i] = "/"
    BY <1>3, BlockShape DEF BlockEnds
  <1>4. CASE s[i] \in IdentifierChars
    BY <1>4, WordShape DEF WordEnds
  <1>5. CASE Opened(s[i]) = "Normal" /\ ~AtComment(s, i) /\ s[i] \notin IdentifierChars
    BY <1>5, ByteShape
  <1>6. AtComment(s, i) => s[i] \in {"-", "/"}
    BY AdvanceIs
  <1>. QED  BY <1>1, <1>2, <1>3, <1>4, <1>5, <1>6

-----------------------------------------------------------------------------
(* Texts: where the scanner is when a lexeme begins                        *)

(* The scanner may be in these states where a lexeme begins: between       *)
(* lexemes, at the end of a line comment, and at the end of a text         *)
(* whatever is open.                                                       *)
BeginsAt(scan, n, s, i) ==
    \/ i = n + 1
    \/ i \in 1 .. n /\ scan[i] = Goes("Normal")
    \/ i \in 1 .. n /\ s[i] = "\n" /\ scan[i] = Goes("LineComment")

(* A byte that is part of a word, or a sign.                               *)
Shown(scan, s, j) == scan[j] = Goes("Normal") /\ scan[j + 1] = Goes("Normal") /\ s[j] \notin Blanks

(* What has to be known of the lexeme that begins at i.                    *)
Lexed(scan, n, s, i) ==
    /\ BeginsAt(scan, n, s, LexEnd(s, i) + 1)
    /\ \A j \in i .. LexEnd(s, i) : Shown(scan, s, j) <=> Kind(s, i) \in {"word", "sign"}

LEMMA AfterGoes ==
    ASSUME NEW s, NEW n \in Nat, NEW scan, Scans(scan, n, s), NEW i \in 1 .. n, NEW mode,
           scan[i] = Goes(mode)
    PROVE  scan[i + 1] = Advance(mode, s, i)
  BY DEF Scans, Turn, Goes

LEMMA AfterJumps ==
    ASSUME NEW s, NEW n \in Nat, NEW scan, Scans(scan, n, s), NEW i \in 1 .. n, NEW mode,
           scan[i] = Jumps(mode)
    PROVE  scan[i + 1] = Goes(mode)
  BY DEF Scans, Turn, Goes, Jumps

LEMMA StatesDiffer ==
    /\ \A mode : Jumps(mode) # Goes("Normal")
    /\ \A mode : mode # "Normal" => Goes(mode) # Goes("Normal")
  BY DEF Goes, Jumps

(* Elsewhere a lexeme begins in the normal state, but for the newline.     *)
LEMMA BeginsNormally ==
    ASSUME NEW s, NEW n \in Nat, NEW scan, NEW i \in 1 .. n, BeginsAt(scan, n, s, i), s[i] # "\n"
    PROVE  scan[i] = Goes("Normal")
  <1>1. i # n + 1
    OBVIOUS
  <1>. QED  BY <1>1 DEF BeginsAt

(* The scanner within a quoted literal, before byte j.                     *)
Within(scan, s, i, mode, j) ==
    \/ scan[j] = Goes(mode) /\ Cardinality(Quotes(s, i, j - 1)) % 2 = 1
    \/ scan[j] = Jumps(mode) /\ Cardinality(Quotes(s, i, j - 1)) % 2 = 0 /\ s[j] = s[i]

LEMMA WithinNext ==
    ASSUME NEW s, NEW n \in Nat, DOMAIN s = 1 .. n, NEW scan, Scans(scan, n, s), NEW i \in 1 .. n,
           NEW mode \in {"SingleQuote", "DoubleQuote"}, Opened(s[i]) = mode,
           NEW j \in 1 .. n, i < j, Within(scan, s, i, mode, j)
    PROVE  IF Closes(s, i, j) THEN scan[j + 1] = Goes("Normal") ELSE Within(scan, s, i, mode, j + 1)
  <1> DEFINE past == Cardinality(Quotes(s, i, j - 1))
             now == Cardinality(Quotes(s, i, j))
  <1>1. past \in Nat /\ now = past + IF s[j] = s[i] THEN 1 ELSE 0
    <2>1. j - 1 \in Nat /\ i \in Nat /\ i <= j - 1 /\ j - 1 + 1 = j
      OBVIOUS
    <2>2. /\ Cardinality(Quotes(s, i, j - 1)) \in Nat
          /\ Cardinality(Quotes(s, i, j - 1 + 1)) =
               Cardinality(Quotes(s, i, j - 1)) + IF s[j - 1 + 1] = s[i] THEN 1 ELSE 0
      BY ONLY <2>1, QuotesAre
    <2>. QED  BY <2>1, <2>2
  <1>2. s[i] # "[" /\ s[i] # "end" /\ (Opened(s[j]) = mode <=> s[j] = s[i])
    BY OpenedIs DEF Opened
  <1>3. j + 1 - 1 = j
    OBVIOUS
  <1>4. Within(scan, s, i, mode, j + 1) <=>
          \/ scan[j + 1] = Goes(mode) /\ now % 2 = 1
          \/ scan[j + 1] = Jumps(mode) /\ now % 2 = 0 /\ s[j + 1] = s[i]
    BY <1>3 DEF Within
  <1>5. Closes(s, i, j) <=> s[j] = s[i] /\ At(s, j + 1) # s[i] /\ now % 2 = 0
    BY <1>2 DEF Closes
  <1>6. At(s, j + 1) = IF j + 1 \in 1 .. n THEN s[j + 1] ELSE "end"
    BY DEF At
  <1> HIDE DEF past, now
  <1>7. CASE scan[j] = Goes(mode) /\ past % 2 = 1
    <2>1. scan[j + 1] = Advance(mode, s, j)
      BY <1>7, AfterGoes
    <2>2. CASE s[j] # s[i]
      <3>1. scan[j + 1] = Goes(mode)
        BY <1>2, <2>1, <2>2, QuoteIs
      <3>. QED  BY <1>1, <1>4, <1>5, <1>7, <2>2, <3>1
    <2>3. CASE s[j] = s[i]
      <3>1. now % 2 = 0
        BY <1>1, <1>7, <2>3
      <3>2. scan[j + 1] = IF At(s, j + 1) = s[i] THEN Jumps(mode) ELSE Goes("Normal")
        BY <1>2, <1>6, <2>1, <2>3, QuoteIs
      <3>3. At(s, j + 1) = s[i] => s[j + 1] = s[i]
        BY <1>2, <1>6
      <3>. QED  BY <1>4, <1>5, <2>3, <3>1, <3>2, <3>3
    <2>. QED  BY <2>2, <2>3
  <1>8. CASE scan[j] = Jumps(mode) /\ past % 2 = 0 /\ s[j] = s[i]
    <2>1. now % 2 = 1
      BY <1>1, <1>8
    <2>2. scan[j + 1] = Goes(mode)
      BY <1>8, AfterJumps
    <2>. QED  BY <1>4, <1>5, <2>1, <2>2
  <1>. QED  BY <1>7, <1>8 DEF Within, past

LEMMA QuotedIsLexed ==
    ASSUME NEW s, NEW n \in Nat, DOMAIN s = 1 .. n, NEW scan, Scans(scan, n, s), NEW i \in 1 .. n,
           NEW mode \in {"SingleQuote", "DoubleQuote"}, Opened(s[i]) = mode,
           scan[i + 1] = Goes(mode), NEW e, LiteralEnds(s, n, i, e)
    PROVE  /\ BeginsAt(scan, n, s, e + 1)
           /\ \A j \in i + 1 .. e : scan[j] # Goes("Normal")
  <1> DEFINE Bad == {j \in i + 1 .. e : ~Within(scan, s, i, mode, j)}
  <1>0. e \in i .. n
    BY DEF LiteralEnds
  <1>1. \A j \in i + 1 .. e : Within(scan, s, i, mode, j)
    <2>1. SUFFICES ASSUME Bad # {} PROVE FALSE
      OBVIOUS
    <2>2. PICK j \in Bad : \A k \in Bad : j <= k
      <3>1. Bad \subseteq Nat
        BY <1>0
      <3> HIDE DEF Bad
      <3>. QED  BY <2>1, <3>1, Least
    <2>3. j \in i + 1 .. e /\ ~Within(scan, s, i, mode, j)
      BY <2>2
    <2>4. CASE j = i + 1
      <3>1. Cardinality(Quotes(s, i, i)) = 1
        BY QuotesAre
      <3>2. i + 1 - 1 = i
        OBVIOUS
      <3>. QED  BY <2>3, <2>4, <3>1, <3>2 DEF Within
    <2>5. CASE j # i + 1
      <3>1. /\ j - 1 \in i + 1 .. e /\ ~(j <= j - 1) /\ j - 1 \in 1 .. n /\ i < j - 1
            /\ j - 1 \in i + 1 .. e - 1 /\ j - 1 + 1 = j
        BY <1>0, <2>3, <2>5
      <3>2. Within(scan, s, i, mode, j - 1)
        BY <2>2, <3>1
      <3>3. ~Closes(s, i, j - 1)
        BY <3>1 DEF LiteralEnds
      <3>4. Within(scan, s, i, mode, j - 1 + 1)
        BY <3>1, <3>2, <3>3, WithinNext
      <3>. QED  BY <2>3, <3>1, <3>4
    <2>. QED  BY <2>4, <2>5
  <1>2. \A j \in i + 1 .. e : scan[j] # Goes("Normal")
    BY <1>1, StatesDiffer DEF Within
  <1>3. BeginsAt(scan, n, s, e + 1)
    <2>1. CASE e = n
      BY <2>1 DEF BeginsAt
    <2>2. CASE e \in i + 1 .. n /\ Closes(s, i, e) /\ e # n
      <3>1. e \in 1 .. n /\ i < e /\ e + 1 \in 1 .. n /\ e \in i + 1 .. e
        BY <2>2
      <3>2. scan[e + 1] = Goes("Normal")
        BY <1>1, <2>2, <3>1, WithinNext
      <3>. QED  BY <3>1, <3>2 DEF BeginsAt
    <2>. QED  BY <2>1, <2>2 DEF LiteralEnds
  <1>. QED  BY <1>2, <1>3

LEMMA BracketIsLexed ==
    ASSUME NEW s, NEW n \in Nat, DOMAIN s = 1 .. n, NEW scan, Scans(scan, n, s), NEW i \in 1 .. n,
           s[i] = "[", scan[i + 1] = Goes("BracketQuote"), NEW e, LiteralEnds(s, n, i, e)
    PROVE  /\ BeginsAt(scan, n, s, e + 1)
           /\ \A j \in i + 1 .. e : scan[j] # Goes("Normal")
  <1>1. e \in i .. n
    BY DEF LiteralEnds
  <1>2. \A j : Closes(s, i, j) <=> s[j] = "]"
    BY DEF Closes
  <1>3. CASE e = i
    <2>1. i + 1 = n + 1
      BY <1>1, <1>3 DEF LiteralEnds
    <2>. QED  BY <1>3, <2>1 DEF BeginsAt
  <1>4. CASE e # i
    <2>1. i + 1 \in Nat /\ e \in Nat /\ 1 <= i + 1 /\ i + 1 <= e /\ e <= n + 1 /\ e \in 1 .. n
      BY <1>1, <1>4
    <2>2. Quiet("BracketQuote", s, i + 1, e)
      <3>1. \A j \in i + 1 .. e - 1 : j \in 1 .. n /\ s[j] # "]"
        BY <1>2, <2>1 DEF LiteralEnds
      <3>. QED  BY <3>1, AdvanceIs DEF Quiet
    <2>3. Remains(scan, "BracketQuote", i + 1, e)
      BY <2>1, <2>2, Stretch
    <2>4. \A j \in i + 1 .. e : scan[j] = Goes("BracketQuote")
      BY <2>3 DEF Remains
    <2>5. BeginsAt(scan, n, s, e + 1)
      <3>1. CASE e = n
        BY <3>1 DEF BeginsAt
      <3>2. CASE s[e] = "]" /\ e # n
        <4>1. scan[e] = Goes("BracketQuote") /\ Advance("BracketQuote", s, e) = Goes("Normal")
          BY <2>1, <2>4, <3>2, AdvanceIs
        <4>2. scan[e + 1] = Goes("Normal") /\ e + 1 \in 1 .. n
          BY <2>1, <3>2, <4>1, AfterGoes
        <4>. QED  BY <4>2 DEF BeginsAt
      <3>. QED  BY <1>2, <3>1, <3>2 DEF LiteralEnds
    <2>. QED  BY <2>4, <2>5, StatesDiffer
  <1>. QED  BY <1>3, <1>4

LEMMA LiteralIsLexed ==
    ASSUME NEW s, NEW n \in Nat, DOMAIN s = 1 .. n, Len(s) = n, NEW scan, Scans(scan, n, s),
           NEW i \in 1 .. n, BeginsAt(scan, n, s, i), Opened(s[i]) # "Normal"
    PROVE  Lexed(scan, n, s, i)
  <1> DEFINE mode == Opened(s[i])
             e == LexEnd(s, i)
  <1>1. Kind(s, i) = "literal" /\ LiteralEnds(s, n, i, e)
    BY LiteralShape
  <1>2. /\ mode \in {"SingleQuote", "DoubleQuote", "BracketQuote"} /\ mode # "Normal"
        /\ s[i] # "\n" /\ s[i] \notin {"-", "/"} /\ (mode = "BracketQuote" => s[i] = "[")
    BY OpenedIs DEF Blanks
  <1>3. scan[i + 1] = Goes(mode)
    <2>1. scan[i] = Goes("Normal")
      BY <1>2, BeginsNormally
    <2>2. Advance("Normal", s, i) = Goes(mode)
      BY <1>2, AdvanceIs
    <2>. QED  BY <2>1, <2>2, AfterGoes
  <1>4. BeginsAt(scan, n, s, e + 1) /\ \A j \in i + 1 .. e : scan[j] # Goes("Normal")
    <2>1. CASE mode = "BracketQuote"
      <3> HIDE DEF e
      <3>. QED  BY <1>1, <1>2, <1>3, <2>1, BracketIsLexed
    <2>2. CASE mode \in {"SingleQuote", "DoubleQuote"}
      <3> HIDE DEF e
      <3>. QED  BY <1>1, <1>3, <2>2, QuotedIsLexed
    <2>. QED  BY <1>2, <2>1, <2>2
  <1>5. \A j \in i .. e : j = i \/ j \in i + 1 .. e
    BY <1>1 DEF LiteralEnds
  <1>6. scan[i + 1] # Goes("Normal")
    BY <1>2, <1>3, StatesDiffer
  <1>7. \A j \in i .. e : ~Shown(scan, s, j)
    BY <1>4, <1>5, <1>6 DEF Shown
  <1>. QED  BY <1>1, <1>4, <1>7 DEF Lexed

LEMMA LineCommentIsLexed ==
    ASSUME NEW s, NEW n \in Nat, DOMAIN s = 1 .. n, Len(s) = n, NEW scan, Scans(scan, n, s),
           NEW i \in 1 .. n, BeginsAt(scan, n, s, i), AtComment(s, i), s[i] = "-"
    PROVE  Lexed(scan, n, s, i)
  <1> DEFINE e == LexEnd(s, i)
  <1>1. Kind(s, i) = "comment" /\ LineEnds(s, n, i, e)
    BY LineShape
  <1> HIDE DEF e
  <1>2. e \in i + 1 .. n /\ i + 1 \in 1 .. n
    BY <1>1 DEF LineEnds
  <1>3. scan[i + 1] = Jumps("LineComment")
    <2>1. scan[i] = Goes("Normal")
      BY BeginsNormally
    <2>2. Advance("Normal", s, i) = Jumps("LineComment")
      BY AdvanceIs
    <2>. QED  BY <2>1, <2>2, AfterGoes
  <1>4. scan[i + 2] = Goes("LineComment")
    <2>1. scan[i + 1 + 1] = Goes("LineComment") /\ i + 1 + 1 = i + 2
      BY <1>2, <1>3, AfterJumps
    <2>. QED  BY <2>1
  <1>5. \A j \in i + 2 .. e + 1 : scan[j] = Goes("LineComment")
    <2>1. Quiet("LineComment", s, i + 2, e + 1)
      <3>1. SUFFICES ASSUME NEW j \in i + 2 .. e + 1 - 1
                     PROVE  Advance("LineComment", s, j) = Goes("LineComment")
        BY <1>2 DEF Quiet
      <3>2. j \in 1 .. n /\ j \in i + 2 .. e
        BY <1>2
      <3>3. s[j] # "\n"
        BY <1>1, <3>2 DEF LineEnds
      <3>. QED  BY <3>2, <3>3, AdvanceIs
    <2>2. i + 2 \in Nat /\ e + 1 \in Nat /\ 1 <= i + 2 /\ i + 2 <= e + 1 /\ e + 1 <= n + 1
      BY <1>2
    <2>3. Remains(scan, "LineComment", i + 2, e + 1)
      BY <1>4, <2>1, <2>2, Stretch
    <2>. QED  BY <2>3 DEF Remains
  <1>6. \A j \in i .. e : ~Shown(scan, s, j)
    <2>1. \A j \in i .. e : j = i \/ j = i + 1 \/ j \in i + 2 .. e + 1
      BY <1>2
    <2>. QED  BY <1>3, <1>5, <2>1, StatesDiffer DEF Shown
  <1>7. BeginsAt(scan, n, s, e + 1)
    <2>1. e + 1 \in i + 2 .. e + 1
      BY <1>2
    <2>. QED  BY <1>1, <1>5, <2>1 DEF BeginsAt, LineEnds
  <1>. QED  BY <1>1, <1>6, <1>7 DEF Lexed, e

LEMMA BlockCommentIsLexed ==
    ASSUME NEW s, NEW n \in Nat, DOMAIN s = 1 .. n, Len(s) = n, NEW scan, Scans(scan, n, s),
           NEW i \in 1 .. n, BeginsAt(scan, n, s, i), AtComment(s, i), s[i] = "/"
    PROVE  Lexed(scan, n, s, i)
  <1> DEFINE e == LexEnd(s, i)
             open == "BlockComment"
  <1>1. Kind(s, i) = "comment" /\ BlockEnds(s, n, i, e)
    BY BlockShape
  <1> HIDE DEF e
  <1>2. e \in i + 1 .. n /\ i + 1 \in 1 .. n
    BY <1>1 DEF BlockEnds
  <1>3. scan[i + 1] = Jumps(open)
    <2>1. scan[i] = Goes("Normal")
      BY BeginsNormally
    <2>2. Advance("Normal", s, i) = Jumps(open)
      BY AdvanceIs
    <2>. QED  BY <2>1, <2>2, AfterGoes
  <1>4. scan[i + 2] = Goes(open)
    <2>1. scan[i + 1 + 1] = Goes(open) /\ i + 1 + 1 = i + 2
      BY <1>2, <1>3, AfterJumps
    <2>. QED  BY <2>1
  <1>5. ASSUME NEW m \in Nat, i + 2 <= m, m <= n + 1,
               \A j \in i + 2 .. m - 1 : j + 1 \in 1 .. n => ~(s[j] = "*" /\ s[j + 1] = "/")
        PROVE  Remains(scan, open, i + 2, m)
    <2>1. \A j \in i + 2 .. m - 1 : j \in 1 .. n
      BY <1>5
    <2>2. Quiet(open, s, i + 2, m)
      BY <1>5, <2>1, AdvanceIs DEF Quiet
    <2>3. i + 2 \in Nat /\ 1 <= i + 2
      OBVIOUS
    <2>. QED  BY <1>4, <1>5, <2>2, <2>3, Stretch
  <1>6. CASE e = n /\ \A j \in i + 2 .. n - 1 : ~(s[j] = "*" /\ s[j + 1] = "/")
    <2>1. \A j \in i + 2 .. n + 1 - 1 : j + 1 \in 1 .. n => ~(s[j] = "*" /\ s[j + 1] = "/")
      BY <1>6
    <2>2. n + 1 \in Nat /\ i + 2 <= n + 1 /\ n + 1 <= n + 1
      BY <1>2
    <2>3. Remains(scan, open, i + 2, n + 1)
      BY <1>5, <2>1, <2>2
    <2>4. \A j \in i .. e : j = i \/ j = i + 1 \/ j \in i + 2 .. n + 1
      BY <1>6
    <2>5. \A j \in i .. e : ~Shown(scan, s, j)
      BY <1>3, <2>3, <2>4, StatesDiffer DEF Shown, Remains
    <2>6. BeginsAt(scan, n, s, e + 1)
      BY <1>6 DEF BeginsAt
    <2>. QED  BY <1>1, <2>5, <2>6 DEF Lexed, e
  <1>7. CASE e \in i + 3 .. n /\ s[e - 1] = "*" /\ s[e] = "/"
    <2>1. \A j \in i + 2 .. e - 1 - 1 : ~(s[j] = "*" /\ s[j + 1] = "/")
      BY <1>1, <1>7 DEF BlockEnds
    <2>2. /\ e - 1 \in Nat /\ i + 2 <= e - 1 /\ e - 1 <= n + 1 /\ e - 1 + 1 = e
          /\ e - 1 \in 1 .. n /\ e \in 1 .. n
      BY <1>7
    <2>3. Remains(scan, open, i + 2, e - 1)
      BY <1>5, <2>1, <2>2
    <2>4. scan[e - 1] = Goes(open)
      BY <2>2, <2>3 DEF Remains
    <2>5. Advance(open, s, e - 1) = Jumps("Normal")
      BY <1>7, <2>2, AdvanceIs
    <2>6. scan[e] = Jumps("Normal")
      BY <2>2, <2>4, <2>5, AfterGoes
    <2>7. scan[e + 1] = Goes("Normal")
      BY <2>2, <2>6, AfterJumps
    <2>8. \A j \in i .. e : j = i \/ j = i + 1 \/ j = e \/ j \in i + 2 .. e - 1
      BY <1>7
    <2>9. \A j \in i .. e : ~Shown(scan, s, j)
      BY <1>3, <2>3, <2>6, <2>8, StatesDiffer DEF Shown, Remains
    <2>10. BeginsAt(scan, n, s, e + 1)
      BY <1>7, <2>7 DEF BeginsAt
    <2>. QED  BY <1>1, <2>9, <2>10 DEF Lexed, e
  <1>. QED  BY <1>1, <1>6, <1>7 DEF BlockEnds

LEMMA WordIsLexed ==
    ASSUME NEW s, NEW n \in Nat, DOMAIN s = 1 .. n, Len(s) = n, NEW scan, Scans(scan, n, s),
           NEW i \in 1 .. n, BeginsAt(scan, n, s, i), s[i] \in IdentifierChars
    PROVE  Lexed(scan, n, s, i)
  <1> DEFINE e == LexEnd(s, i)
  <1>1. Kind(s, i) = "word" /\ WordEnds(s, n, i, e, IdentifierChars)
    BY WordShape
  <1> HIDE DEF e
  <1>2. e \in i .. n /\ \A j \in i .. e : j \in 1 .. n /\ s[j] \in IdentifierChars
    BY <1>1 DEF WordEnds
  <1>3. scan[i] = Goes("Normal")
    <2>1. s[i] # "\n"
      BY OpenedIs
    <2>. QED  BY <2>1, BeginsNormally
  <1>4. \A j \in i .. e : s[j] \notin Blanks /\ Advance("Normal", s, j) = Goes("Normal")
    <2>1. SUFFICES ASSUME NEW j \in i .. e
                   PROVE  s[j] \notin Blanks /\ Advance("Normal", s, j) = Goes("Normal")
      OBVIOUS
    <2>2. j \in 1 .. n /\ s[j] \in IdentifierChars
      BY <1>2
    <2>3. Opened(s[j]) = "Normal" /\ s[j] \notin {"\n", " ", "-", "/"}
      BY <2>2, OpenedIs
    <2>4. ~AtComment(s, j)
      BY <2>2, <2>3, AdvanceIs
    <2>. QED  BY <2>2, <2>3, <2>4, AdvanceIs DEF Blanks
  <1>5. Remains(scan, "Normal", i, e + 1)
    <2>1. Quiet("Normal", s, i, e + 1)
      <3>1. SUFFICES ASSUME NEW j \in i .. e + 1 - 1
                     PROVE  Advance("Normal", s, j) = Goes("Normal")
        BY <1>2 DEF Quiet
      <3>2. j \in i .. e
        BY <1>2
      <3>. QED  BY <1>4, <3>2
    <2>2. e + 1 \in Nat /\ 1 <= i /\ i <= e + 1 /\ e + 1 <= n + 1 /\ i \in Nat
      BY <1>2
    <2>. QED  BY <1>3, <2>1, <2>2, Stretch
  <1>6. \A j \in i .. e : Shown(scan, s, j)
    <2>1. \A j \in i .. e : j \in i .. e + 1 /\ j + 1 \in i .. e + 1
      BY <1>2
    <2>. QED  BY <1>4, <1>5, <2>1 DEF Shown, Remains
  <1>7. BeginsAt(scan, n, s, e + 1)
    <2>1. e + 1 \in i .. e + 1 /\ (e + 1 = n + 1 \/ e + 1 \in 1 .. n)
      BY <1>2
    <2>. QED  BY <1>5, <2>1 DEF BeginsAt, Remains
  <1>. QED  BY <1>1, <1>6, <1>7 DEF Lexed, e

LEMMA ByteIsLexed ==
    ASSUME NEW s, NEW n \in Nat, DOMAIN s = 1 .. n, Len(s) = n, NEW scan, Scans(scan, n, s),
           NEW i \in 1 .. n, BeginsAt(scan, n, s, i),
           Opened(s[i]) = "Normal", ~AtComment(s, i), s[i] \notin IdentifierChars
    PROVE  Lexed(scan, n, s, i)
  <1>1. /\ LexEnd(s, i) = i
        /\ Kind(s, i) = IF s[i] \in Blanks THEN "blank" ELSE "sign"
    BY ByteShape
  <1>2. s[i] \notin Blanks => scan[i] = Goes("Normal")
    BY BeginsNormally DEF Blanks
  <1>3. scan[i + 1] = Goes("Normal")
    <2>1. CASE scan[i] = Goes("Normal")
      <3>1. Advance("Normal", s, i) = Goes("Normal")
        BY AdvanceIs
      <3>. QED  BY <2>1, <3>1, AfterGoes
    <2>2. CASE scan[i] # Goes("Normal")
      <3>1. s[i] = "\n" /\ scan[i] = Goes("LineComment")
        <4>1. i # n + 1
          OBVIOUS
        <4>. QED  BY <2>2, <4>1 DEF BeginsAt
      <3>2. Advance("LineComment", s, i) = Goes("Normal")
        BY <3>1, AdvanceIs
      <3>. QED  BY <3>1, <3>2, AfterGoes
    <2>. QED  BY <2>1, <2>2
  <1>4. BeginsAt(scan, n, s, i + 1)
    BY <1>3 DEF BeginsAt
  <1>5. Shown(scan, s, i) <=> Kind(s, i) \in {"word", "sign"}
    BY <1>1, <1>2, <1>3 DEF Shown
  <1>6. \A j \in i .. i : j = i
    OBVIOUS
  <1>. QED  BY <1>1, <1>4, <1>5, <1>6 DEF Lexed

LEMMA LexemeIsLexed ==
    ASSUME NEW s, NEW n \in Nat, DOMAIN s = 1 .. n, Len(s) = n, NEW scan, Scans(scan, n, s),
           NEW i \in 1 .. n, BeginsAt(scan, n, s, i)
    PROVE  Lexed(scan, n, s, i)
  <1>1. AtComment(s, i) => s[i] \in {"-", "/"}
    BY AdvanceIs
  <1>. QED  BY <1>1, LiteralIsLexed, LineCommentIsLexed, BlockCommentIsLexed, WordIsLexed, ByteIsLexed

-----------------------------------------------------------------------------
(* Texts: lexemes in turn                                                  *)

(* The lexeme that begins at i, if it is of these kinds, and what follows. *)
Joined(s, kinds, i, rest) == IF Kind(s, i) \in kinds THEN << Lexeme(s, i) >> \o rest ELSE rest

(* from has the lexemes of each end of a text.                             *)
Reads(from, n, s, kinds) ==
    /\ from[n + 1] = << >>
    /\ \A i \in 1 .. n : from[i] = Joined(s, kinds, i, from[LexEnd(s, i) + 1])

LEMMA LexemesAre ==
    ASSUME NEW s, NEW n \in Nat, DOMAIN s = 1 .. n, Len(s) = n, NEW kinds
    PROVE  \E from : Reads(from, n, s, kinds) /\ Lexemes(s, kinds) = from[1]
  <1> DEFINE Fills(f, m) ==
               f = [i \in m .. n + 1 |->
                      IF i > n THEN << >> ELSE Joined(s, kinds, i, f[LexEnd(s, i) + 1])]
             Bad == {k \in 0 .. n : ~ \E f : Fills(f, n + 1 - k)}
  <1>1. \A k \in 0 .. n : \E f : Fills(f, n + 1 - k)
    <2>1. SUFFICES ASSUME Bad # {} PROVE FALSE
      OBVIOUS
    <2>2. PICK k \in Bad : \A j \in Bad : k <= j
      <3>1. Bad \subseteq Nat
        OBVIOUS
      <3> HIDE DEF Bad
      <3>. QED  BY <2>1, <3>1, Least
    <2>3. k \in 0 .. n /\ ~ \E f : Fills(f, n + 1 - k)
      BY <2>2
    <2>4. CASE k = 0
      <3> DEFINE f == [i \in n + 1 .. n + 1 |-> << >>]
      <3>1. \A i \in n + 1 .. n + 1 : i > n
        OBVIOUS
      <3>2. n + 1 - k = n + 1
        BY <2>4
      <3>3. Fills(f, n + 1)
        BY <3>1
      <3>. QED  BY <2>3, <3>2, <3>3
    <2>5. CASE k # 0
      <3> DEFINE m == n + 1 - k
      <3>1. k - 1 \in 0 .. n /\ ~(k <= k - 1) /\ m \in 1 .. n /\ n + 1 - (k - 1) = m + 1
        BY <2>3, <2>5
      <3>2. PICK f : Fills(f, m + 1)
        <4>1. k - 1 \notin Bad
          BY <2>2, <3>1
        <4>2. \E f : Fills(f, n + 1 - (k - 1))
          BY <3>1, <4>1
        <4>. QED  BY <3>1, <4>2
      <3> HIDE DEF m
      <3> DEFINE g == [i \in m .. n + 1 |->
                         IF i = m THEN Joined(s, kinds, m, f[LexEnd(s, m) + 1]) ELSE f[i]]
      <3>3. \A i \in m + 1 .. n + 1 :
              f[i] = IF i > n THEN << >> ELSE Joined(s, kinds, i, f[LexEnd(s, i) + 1])
        BY <3>2
      <3>4. \A i \in m .. n : LexEnd(s, i) + 1 \in m .. n + 1 /\ LexEnd(s, i) + 1 # m
        <4>1. SUFFICES ASSUME NEW i \in m .. n
                       PROVE  LexEnd(s, i) + 1 \in m .. n + 1 /\ LexEnd(s, i) + 1 # m
          OBVIOUS
        <4>2. i \in 1 .. n
          BY <3>1
        <4>3. LexEnd(s, i) \in i .. n
          BY <4>2, LexEndIn
        <4>. QED  BY <3>1, <4>3
      <3>5. ASSUME NEW i \in m .. n + 1
            PROVE  g[i] = IF i > n THEN << >> ELSE Joined(s, kinds, i, g[LexEnd(s, i) + 1])
        <4>1. ~(i > n) => g[LexEnd(s, i) + 1] = f[LexEnd(s, i) + 1]
          <5>1. ~(i > n) => i \in m .. n
            BY <3>1
          <5>. QED  BY <3>4, <5>1
        <4>2. CASE i = m
          <5>1. ~(i > n) /\ g[i] = Joined(s, kinds, i, f[LexEnd(s, i) + 1])
            BY <3>1, <4>2
          <5> HIDE DEF g
          <5>. QED  BY <4>1, <5>1
        <4>3. CASE i # m
          <5>1. i \in m + 1 .. n + 1 /\ g[i] = f[i]
            BY <3>1, <4>3
          <5> HIDE DEF g
          <5>. QED  BY <3>3, <4>1, <5>1
        <4>. QED  BY <4>2, <4>3
      <3>6. g = [i \in m .. n + 1 |-> g[i]]
        OBVIOUS
      <3> HIDE DEF g
      <3>7. Fills(g, m)
        BY <3>5, <3>6
      <3>. QED  BY <2>3, <3>7 DEF m
    <2>. QED  BY <2>4, <2>5
  <1>2. \E f : Fills(f, 1)
    <2>1. n \in 0 .. n /\ n + 1 - n = 1
      OBVIOUS
    <2>. QED  BY <1>1, <2>1
  <1> DEFINE from == CHOOSE f : Fills(f, 1)
  <1>3. Lexemes(s, kinds) = from[1]
    BY DEF Lexemes, Joined
  <1>4. Fills(from, 1)
    BY <1>2
  <1> HIDE DEF from
  <1>5. \A i \in 1 .. n + 1 :
          from[i] = IF i > n THEN << >> ELSE Joined(s, kinds, i, from[LexEnd(s, i) + 1])
    BY <1>4
  <1>6. from[n + 1] = << >>
    <2>1. n + 1 \in 1 .. n + 1 /\ n + 1 > n
      OBVIOUS
    <2>. QED  BY <1>5, <2>1
  <1>7. \A i \in 1 .. n : from[i] = Joined(s, kinds, i, from[LexEnd(s, i) + 1])
    <2>1. \A i \in 1 .. n : i \in 1 .. n + 1 /\ ~(i > n)
      OBVIOUS
    <2>. QED  BY <1>5, <2>1
  <1>. QED  BY <1>3, <1>6, <1>7 DEF Reads

(* The text of a lexeme.                                                   *)
LEMMA OfIs ==
    ASSUME NEW T, NEW s \in Seq(T), NEW i \in 1 .. Len(s)
    PROVE  LET of == Lexeme(s, i).of
           IN /\ of \in Seq(T) /\ Len(of) = LexEnd(s, i) - i + 1
              /\ \A k \in 1 .. Len(of) : of[k] = s[i + k - 1]
              /\ of[1] = s[i]
  <1>1. LexEnd(s, i) \in i .. Len(s)
    BY LexEndIn, LenProperties
  <1> DEFINE e == LexEnd(s, i)
  <1> HIDE DEF e
  <1>2. /\ SubSeq(s, i, e) \in Seq(T) /\ Len(SubSeq(s, i, e)) = e - i + 1
        /\ \A k \in 1 .. Len(SubSeq(s, i, e)) : SubSeq(s, i, e)[k] = s[i + k - 1]
    BY <1>1 DEF e
  <1>3. 1 \in 1 .. Len(SubSeq(s, i, e)) /\ i + 1 - 1 = i
    BY <1>1, <1>2 DEF e
  <1>. QED  BY <1>2, <1>3 DEF Lexeme, e

LEMMA SetCons ==
    ASSUME NEW R, NEW x \in R, NEW q \in Seq(R)
    PROVE  /\ << x >> \o q \in Seq(R) /\ ToSet(<< x >> \o q) = {x} \union ToSet(q)
           /\ Len(<< x >> \o q) = 1 + Len(q) /\ (<< x >> \o q)[1] = x
           /\ \A k \in 1 .. Len(q) : (<< x >> \o q)[k + 1] = q[k]
  <1> DEFINE n == Len(q)
             all == << x >> \o q
  <1>1. n \in Nat /\ DOMAIN q = 1 .. n
    BY LenProperties
  <1>2. /\ all \in Seq(R) /\ DOMAIN all = 1 .. 1 + n /\ Len(all) = 1 + n /\ all[1] = x
        /\ \A i \in 1 .. n : all[i + 1] = q[i]
    BY <1>1
  <1> HIDE DEF all, n
  <1>3. \A i \in 1 .. 1 + n : i = 1 \/ (i - 1 \in 1 .. n /\ i - 1 + 1 = i)
    BY <1>1
  <1>4. 1 \in 1 .. 1 + n /\ \A i \in 1 .. n : i + 1 \in 1 .. 1 + n
    BY <1>1
  <1>5. ToSet(all) = {x} \union ToSet(q)
    <2>1. ASSUME NEW i \in 1 .. 1 + n PROVE all[i] \in {x} \union ToSet(q)
      <3>1. CASE i = 1
        BY <1>2, <3>1
      <3>2. CASE i # 1
        <4>1. i - 1 \in 1 .. n /\ i - 1 + 1 = i
          BY <1>3, <3>2
        <4>2. all[i] = q[i - 1]
          BY <1>2, <4>1
        <4>. QED  BY <1>1, <4>1, <4>2 DEF ToSet
      <3>. QED  BY <3>1, <3>2
    <2>2. x \in ToSet(all)
      BY <1>2, <1>4 DEF ToSet
    <2>3. ASSUME NEW i \in 1 .. n PROVE q[i] \in ToSet(all)
      BY <1>2, <1>4 DEF ToSet
    <2>. QED  BY <1>1, <1>2, <2>1, <2>2, <2>3 DEF ToSet
  <1>. QED  BY <1>2, <1>5 DEF all, n

(* What a claim about all ends of a text takes: the end of the text, and   *)
(* the step from behind a lexeme to where it begins.                       *)
Reaches(s, n, holds) ==
    /\ n + 1 \in holds
    /\ \A i \in 1 .. n : LexEnd(s, i) + 1 \in holds => i \in holds

LEMMA EndsOfText ==
    ASSUME NEW s, NEW n \in Nat, DOMAIN s = 1 .. n, Len(s) = n, NEW holds, Reaches(s, n, holds)
    PROVE  \A i \in 1 .. n + 1 : i \in holds
  <1> DEFINE Bad == {k \in 0 .. n : n + 1 - k \notin holds}
  <1>1. Bad = {}
    <2>1. SUFFICES ASSUME Bad # {} PROVE FALSE
      OBVIOUS
    <2>2. PICK k \in Bad : \A j \in Bad : k <= j
      <3>1. Bad \subseteq Nat
        OBVIOUS
      <3> HIDE DEF Bad
      <3>. QED  BY <2>1, <3>1, Least
    <2>3. k \in 0 .. n /\ n + 1 - k \notin holds
      BY <2>2
    <2>4. k # 0
      BY <2>3 DEF Reaches
    <2> DEFINE i == n + 1 - k
               e == LexEnd(s, i)
    <2>5. i \in 1 .. n
      BY <2>3, <2>4
    <2> HIDE DEF i
    <2>6. e \in i .. n
      BY <2>5, LexEndIn
    <2> HIDE DEF e
    <2>7. n - e \in 0 .. n /\ n + 1 - (n - e) = e + 1 /\ ~(k <= n - e)
      BY <2>3, <2>5, <2>6 DEF i
    <2>8. e + 1 \in holds
      BY <2>2, <2>7
    <2>. QED  BY <2>3, <2>5, <2>8 DEF Reaches, e, i
  <1>2. ASSUME NEW i \in 1 .. n + 1 PROVE i \in holds
    <2>1. n + 1 - i \in 0 .. n /\ n + 1 - (n + 1 - i) = i
      OBVIOUS
    <2>. QED  BY <1>1, <2>1
  <1>. QED  BY <1>2

(* The lexemes of any end of a text are lexemes.                           *)
LEMMA LexemesType ==
    ASSUME NEW s, NEW n \in Nat, DOMAIN s = 1 .. n, Len(s) = n, NEW kinds,
           NEW from, Reads(from, n, s, kinds)
    PROVE  \A i \in 1 .. n + 1 : from[i] \in Seq({Lexeme(s, j) : j \in 1 .. n})
  <1> DEFINE R == {Lexeme(s, j) : j \in 1 .. n}
             holds == {i \in 1 .. n + 1 : from[i] \in Seq(R)}
  <1>1. n + 1 \in holds
    <2> HIDE DEF R
    <2>1. n + 1 \in 1 .. n + 1 /\ << >> \in Seq(R)
      OBVIOUS
    <2>. QED  BY <2>1 DEF Reads
  <1>2. ASSUME NEW i \in 1 .. n, LexEnd(s, i) + 1 \in holds PROVE i \in holds
    <2>1. Lexeme(s, i) \in R
      OBVIOUS
    <2> HIDE DEF R
    <2>2. << Lexeme(s, i) >> \o from[LexEnd(s, i) + 1] \in Seq(R)
      BY <1>2, <2>1, SetCons
    <2>3. from[i] \in Seq(R)
      BY <1>2, <2>2 DEF Reads, Joined
    <2>. QED  BY <2>3
  <1>3. Reaches(s, n, holds)
    BY <1>1, <1>2 DEF Reaches
  <1> HIDE DEF holds
  <1>4. \A i \in 1 .. n + 1 : i \in holds
    BY <1>3, EndsOfText
  <1>. QED  BY <1>4 DEF holds

-----------------------------------------------------------------------------
(* Texts: where they are split                                             *)

LEMMA KindIs ==
    ASSUME NEW s, NEW n \in Nat, DOMAIN s = 1 .. n, Len(s) = n, NEW i \in 1 .. n
    PROVE  /\ Kind(s, i) = "sign" =>
                /\ LexEnd(s, i) = i /\ s[i] \notin IdentifierChars /\ s[i] \notin Blanks
                /\ Opened(s[i]) = "Normal" /\ ~AtComment(s, i)
           /\ Kind(s, i) = "word" <=> s[i] \in IdentifierChars
           /\ Kind(s, i) = "word" => WordEnds(s, n, i, LexEnd(s, i), IdentifierChars)
           /\ Kind(s, i) = "literal" <=> Opened(s[i]) # "Normal"
           /\ Kind(s, i) = "comment" <=> AtComment(s, i)
           /\ Kind(s, i) \in {"literal", "comment", "blank", "word", "sign"}
  <1>1. AtComment(s, i) => s[i] \in {"-", "/"}
    BY AdvanceIs
  <1>2. s[i] \in {"-", "/"} => Opened(s[i]) = "Normal" /\ s[i] \notin IdentifierChars
    BY OpenedIs
  <1>3. CASE Opened(s[i]) # "Normal"
    <2>1. Kind(s, i) = "literal" /\ ~AtComment(s, i) /\ s[i] \notin IdentifierChars
      BY <1>1, <1>2, <1>3, LiteralShape, OpenedIs
    <2>. QED  BY <1>3, <2>1
  <1>4. CASE AtComment(s, i)
    <2>1. Kind(s, i) = "comment"
      BY <1>1, <1>4, LineShape, BlockShape
    <2>. QED  BY <1>1, <1>2, <1>4, <2>1
  <1>5. CASE s[i] \in IdentifierChars
    <2>1. Kind(s, i) = "word" /\ WordEnds(s, n, i, LexEnd(s, i), IdentifierChars)
      BY <1>5, WordShape
    <2>2. Opened(s[i]) = "Normal" /\ ~AtComment(s, i)
      BY <1>1, <1>2, <1>5, OpenedIs
    <2>. QED  BY <1>5, <2>1, <2>2
  <1>6. CASE Opened(s[i]) = "Normal" /\ ~AtComment(s, i) /\ s[i] \notin IdentifierChars
    <2>1. /\ LexEnd(s, i) = i
          /\ Kind(s, i) = IF s[i] \in Blanks THEN "blank" ELSE "sign"
      BY <1>6, ByteShape
    <2>. QED  BY <1>6, <2>1
  <1>. QED  BY <1>3, <1>4, <1>5, <1>6

(* A sign is of one byte.                                                  *)
LEMMA SignIs ==
    ASSUME NEW T, NEW s \in Seq(T), NEW i \in 1 .. Len(s), NEW signs
    PROVE  IsSign(Lexeme(s, i), signs) <=> Kind(s, i) = "sign" /\ s[i] \in signs
  BY OfIs DEF IsSign, Lexeme

(* A semicolon that ends a statement.                                      *)
Ends(scan, s, j) == s[j] = ";" /\ scan[j] = Goes("Normal")

Semicolons(lexemes) == {x.first : x \in {y \in ToSet(lexemes) : IsSign(y, {";"})}}

(* The semicolons of the reference and those the scanner stops at.         *)
LEMMA SemicolonsAre ==
    ASSUME NEW T, NEW s \in Seq(T)
    PROVE  Semicolons(Lexemes(s, {"sign"})) = {j \in DOMAIN s : Ends(Scan(s), s, j)}
  <1> DEFINE n == Len(s)
             scan == Scan(s)
             R == {Lexeme(s, i) : i \in 1 .. n}
             Rest(i) == {j \in i .. n : Ends(scan, s, j)}
  <1>1. n \in Nat /\ DOMAIN s = 1 .. n
    BY LenProperties
  <1>2. Scans(scan, n, s)
    BY <1>1, ScanIs
  <1>3. PICK from : Reads(from, n, s, {"sign"}) /\ Lexemes(s, {"sign"}) = from[1]
    BY <1>1, LexemesAre
  <1>4. \A i \in 1 .. n + 1 : from[i] \in Seq(R)
    BY <1>1, <1>3, LexemesType
  <1> DEFINE holds == {i \in 1 .. n + 1 : BeginsAt(scan, n, s, i) => Semicolons(from[i]) = Rest(i)}
  <1> HIDE DEF scan
  <1>5. n + 1 \in holds
    <2>1. ToSet(<< >>) = {}
      BY DEF ToSet
    <2>2. Semicolons(from[n + 1]) = {}
      BY <1>3, <2>1 DEF Semicolons, Reads
    <2>3. Rest(n + 1) = {} /\ n + 1 \in 1 .. n + 1
      BY <1>1
    <2>. QED  BY <2>2, <2>3
  <1>6. ASSUME NEW i \in 1 .. n, LexEnd(s, i) + 1 \in holds PROVE i \in holds
    <2> DEFINE e == LexEnd(s, i)
               stops == Kind(s, i) = "sign" /\ s[i] = ";"
    <2>1. e \in i .. n
      BY <1>1, LexEndIn
    <2>2. SUFFICES ASSUME BeginsAt(scan, n, s, i) PROVE Semicolons(from[i]) = Rest(i)
      OBVIOUS
    <2>3. Lexed(scan, n, s, i)
      BY <1>1, <1>2, <2>2, LexemeIsLexed
    <2>4. Semicolons(from[e + 1]) = Rest(e + 1)
      BY <1>6, <2>3 DEF Lexed
    <2>5. from[i] = Joined(s, {"sign"}, i, from[e + 1]) /\ from[e + 1] \in Seq(R)
      <3>1. e + 1 \in 1 .. n + 1
        BY <1>1, <2>1
      <3>. QED  BY <1>3, <1>4, <3>1 DEF Reads
    <2>6. IsSign(Lexeme(s, i), {";"}) <=> stops
      <3>1. IsSign(Lexeme(s, i), {";"}) <=> Kind(s, i) = "sign" /\ s[i] \in {";"}
        BY SignIs
      <3>. QED  BY <3>1
    <2>7. Semicolons(from[i]) = (IF stops THEN {i} ELSE {}) \union Semicolons(from[e + 1])
      <3>1. CASE Kind(s, i) = "sign"
        <4>1. Lexeme(s, i) \in R /\ from[i] = << Lexeme(s, i) >> \o from[e + 1]
          BY <2>5, <3>1 DEF Joined
        <4> HIDE DEF R, e
        <4>2. ToSet(from[i]) = {Lexeme(s, i)} \union ToSet(from[e + 1])
          <5>1. ToSet(<< Lexeme(s, i) >> \o from[e + 1]) = {Lexeme(s, i)} \union ToSet(from[e + 1])
            BY <2>5, <4>1, SetCons
          <5>. QED  BY <4>1, <5>1
        <4>3. Lexeme(s, i).first = i
          BY DEF Lexeme
        <4> HIDE DEF stops
        <4>. QED  BY <2>6, <4>2, <4>3 DEF Semicolons
      <3>2. CASE Kind(s, i) # "sign"
        <4> HIDE DEF R, e
        <4>. QED  BY <2>5, <3>2 DEF Joined
      <3>. QED  BY <3>1, <3>2
    <2>8. Rest(i) = (IF stops THEN {i} ELSE {}) \union Rest(e + 1)
      <3>1. ASSUME NEW j \in i .. e PROVE Ends(scan, s, j) <=> stops /\ j = i
        <4>1. j \in 1 .. n
          BY <1>1, <2>1
        <4>2. s[j] = ";" => (Ends(scan, s, j) <=> Shown(scan, s, j))
          <5>1. SUFFICES ASSUME s[j] = ";", scan[j] = Goes("Normal")
                         PROVE  scan[j + 1] = Goes("Normal") /\ s[j] \notin Blanks
            BY DEF Ends, Shown
          <5>2. Opened(s[j]) = "Normal" /\ s[j] \notin {"-", "/"}
            BY <5>1, OpenedIs
          <5>3. Advance("Normal", s, j) = Goes("Normal")
            BY <1>1, <4>1, <5>2, AdvanceIs
          <5>4. scan[j + 1] = Goes("Normal")
            <6>1. scan[j + 1] = Turn(scan[j], s, j)
              BY <1>2, <4>1 DEF Scans
            <6>2. Turn(Goes("Normal"), s, j) = Advance("Normal", s, j)
              BY DEF Turn, Goes
            <6>. QED  BY <5>1, <5>3, <6>1, <6>2
          <5>. QED  BY <5>1, <5>4 DEF Blanks
        <4>3. Shown(scan, s, j) <=> Kind(s, i) \in {"word", "sign"}
          BY <2>3 DEF Lexed
        <4>4. Kind(s, i) = "word" => s[j] # ";"
          <5>1. Kind(s, i) = "word" => s[j] \in IdentifierChars
            BY <1>1, KindIs DEF WordEnds
          <5>. QED  BY <5>1, OpenedIs
        <4>5. Kind(s, i) = "sign" => j = i
          <5>1. Kind(s, i) = "sign" => e = i
            BY <1>1, KindIs
          <5>. QED  BY <5>1
        <4>6. Ends(scan, s, j) => s[j] = ";"
          BY DEF Ends
        <4>. QED  BY <4>2, <4>3, <4>4, <4>5, <4>6
      <3>2. \A j \in i .. n : j \in i .. e \/ j \in e + 1 .. n
        BY <1>1, <2>1
      <3>3. i \in i .. n /\ i \in i .. e /\ \A j \in e + 1 .. n : j \in i .. n
        BY <1>1, <2>1
      <3> HIDE DEF stops, e
      <3>4. \A j \in i .. e : Ends(scan, s, j) <=> stops /\ j = i
        BY <3>1
      <3>. QED  BY <3>2, <3>3, <3>4
    <2>. QED  BY <2>4, <2>7, <2>8
  <1>7. Reaches(s, n, holds)
    BY <1>5, <1>6 DEF Reaches
  <1>8. 1 \in holds
    <2> HIDE DEF holds
    <2>1. 1 \in 1 .. n + 1
      BY <1>1
    <2>. QED  BY <1>1, <1>7, <2>1, EndsOfText
  <1>9. BeginsAt(scan, n, s, 1)
    BY <1>1, <1>2 DEF BeginsAt, Scans
  <1>. QED  BY <1>1, <1>3, <1>8, <1>9 DEF scan

LEMMA TextIsSplit ==
    ASSUME text \in Seq(STRING)
    PROVE  StatementsAreSplit
  <1>1. SplitStatements(text) = Segments(text, {j \in DOMAIN text : Ends(Scan(text), text, j)})
    BY DEF SplitStatements, Ends
  <1>2. Semicolons(Lexemes(text, {"sign"})) = {j \in DOMAIN text : Ends(Scan(text), text, j)}
    BY SemicolonsAre
  <1>. QED  BY <1>1, <1>2 DEF StatementsAreSplit, Semicolons

-----------------------------------------------------------------------------
(* Texts: names                                                            *)

(* A byte that is part of a word.                                          *)
WordByte(scan, n, s, j) == j \in 1 .. n /\ Shown(scan, s, j) /\ s[j] \in IdentifierChars

(* A word of these two bytes begins at j.                                  *)
TokenAt(scan, n, s, a, b, j) ==
    /\ WordByte(scan, n, s, j) /\ WordByte(scan, n, s, j + 1)
    /\ ~WordByte(scan, n, s, j - 1) /\ ~WordByte(scan, n, s, j + 2)
    /\ s[j] = a /\ s[j + 1] = b

(* No word goes on at i.                                                   *)
Fresh(scan, n, s, i) == ~(WordByte(scan, n, s, i - 1) /\ WordByte(scan, n, s, i))

LEMMA PairIs ==
    ASSUME NEW T, NEW q \in Seq(T), NEW a, NEW b
    PROVE  q = << a, b >> <=> Len(q) = 2 /\ q[1] = a /\ q[2] = b
  <1>1. ASSUME Len(q) = 2, q[1] = a, q[2] = b PROVE q = << a, b >>
    <2>1. << a, b >> \in Seq(T)
      <3>1. 1 \in 1 .. Len(q) /\ 2 \in 1 .. Len(q)
        BY <1>1
      <3>2. a \in T /\ b \in T
        BY <1>1, <3>1, ElementOfSeq
      <3>. QED  BY <3>2
    <2>2. Len(<< a, b >>) = 2 /\ << a, b >>[1] = a /\ << a, b >>[2] = b
      OBVIOUS
    <2>3. \A k \in 1 .. Len(q) : q[k] = << a, b >>[k]
      <3>1. \A k \in 1 .. Len(q) : k = 1 \/ k = 2
        BY <1>1
      <3>. QED  BY <1>1, <2>2, <3>1
    <2>. QED  BY <1>1, <2>1, <2>2, <2>3, SeqEqual
  <1>. QED  BY <1>1

LEMMA WordOfLexeme ==
    ASSUME NEW T, NEW s \in Seq(T), NEW n, n = Len(s), NEW scan, Scans(scan, n, s),
           NEW i \in 1 .. n, BeginsAt(scan, n, s, i), Fresh(scan, n, s, i), NEW a, NEW b
    PROVE  LET e == LexEnd(s, i)
           IN /\ BeginsAt(scan, n, s, e + 1) /\ Fresh(scan, n, s, e + 1)
              /\ \A j \in i .. e :
                   TokenAt(scan, n, s, a, b, j) <=> j = i /\ IsWord(Lexeme(s, i), << a, b >>)
  <1> DEFINE e == LexEnd(s, i)
             W(j) == WordByte(scan, n, s, j)
  <1>1. n \in Nat /\ DOMAIN s = 1 .. n
    BY LenProperties
  <1>2. e \in i .. n /\ Lexed(scan, n, s, i)
    BY <1>1, LexEndIn, LexemeIsLexed
  <1>3. BeginsAt(scan, n, s, e + 1)
    BY <1>2 DEF Lexed
  <1>4. e + 1 - 1 = e
    BY <1>2
  <1>5. CASE Kind(s, i) # "word"
    <2>1. ASSUME NEW j \in i .. e PROVE ~W(j)
      <3>1. CASE Kind(s, i) = "sign"
        <4>1. e = i /\ s[i] \notin IdentifierChars
          BY <1>1, <3>1, KindIs
        <4>. QED  BY <4>1 DEF WordByte
      <3>2. CASE Kind(s, i) # "sign"
        <4>1. ~Shown(scan, s, j)
          BY <1>2, <1>5, <3>2 DEF Lexed
        <4>. QED  BY <4>1 DEF WordByte
      <3>. QED  BY <3>1, <3>2
    <2>2. ~W(e)
      BY <1>2, <2>1
    <2>3. ~IsWord(Lexeme(s, i), << a, b >>)
      BY <1>5 DEF IsWord, Lexeme
    <2>4. \A j \in i .. e : ~TokenAt(scan, n, s, a, b, j)
      BY <2>1 DEF TokenAt
    <2>5. Fresh(scan, n, s, e + 1)
      <3> HIDE DEF e
      <3>. QED  BY <1>2, <1>4, <2>2 DEF Fresh
    <2>. QED  BY <1>3, <2>3, <2>4, <2>5
  <1>6. CASE Kind(s, i) = "word"
    <2>1. WordEnds(s, n, i, e, IdentifierChars)
      BY <1>1, <1>6, KindIs
    <2>2. \A j \in i .. e : W(j)
      <3>1. \A j \in i .. e : j \in 1 .. n
        BY <1>1, <1>2
      <3> HIDE DEF e
      <3>. QED  BY <1>2, <1>6, <2>1, <3>1 DEF WordByte, WordEnds, Lexed, e
    <2>3. ~W(e + 1)
      <3> HIDE DEF e
      <3>. QED  BY <1>1, <1>2, <2>1 DEF WordByte, WordEnds
    <2>4. Fresh(scan, n, s, e + 1)
      BY <2>3 DEF Fresh
    <2>5. ~W(i - 1)
      <3>1. W(i)
        BY <1>2, <2>2
      <3>. QED  BY <3>1 DEF Fresh
    <2>6. IsWord(Lexeme(s, i), << a, b >>) <=> e = i + 1 /\ s[i] = a /\ s[i + 1] = b
      <3> DEFINE of == Lexeme(s, i).of
      <3>1. of \in Seq(T) /\ Len(of) = e - i + 1 /\ \A k \in 1 .. Len(of) : of[k] = s[i + k - 1]
        BY OfIs
      <3> HIDE DEF of, e
      <3>2. of = << a, b >> <=> Len(of) = 2 /\ of[1] = a /\ of[2] = b
        BY <3>1, PairIs
      <3>3. Len(of) = 2 => of[1] = s[i] /\ of[2] = s[i + 1]
        <4>1. Len(of) = 2 => 1 \in 1 .. Len(of) /\ 2 \in 1 .. Len(of)
          OBVIOUS
        <4>2. i + 1 - 1 = i /\ i + 2 - 1 = i + 1
          OBVIOUS
        <4>. QED  BY <3>1, <4>1, <4>2
      <3>4. Len(of) = 2 <=> e = i + 1
        BY <1>2, <3>1 DEF e
      <3>5. Lexeme(s, i).kind = "word"
        BY <1>6 DEF Lexeme
      <3>. QED  BY <3>2, <3>3, <3>4, <3>5 DEF IsWord, of
    <2>7. ASSUME NEW j \in i .. e, j # i PROVE ~TokenAt(scan, n, s, a, b, j)
      <3>1. j - 1 \in i .. e
        BY <1>2, <2>7
      <3>. QED  BY <2>2, <3>1 DEF TokenAt
    <2>8. W(i + 1) /\ ~W(i + 2) <=> e = i + 1
      <3>1. CASE e = i
        BY <2>3, <3>1
      <3>2. CASE e = i + 1
        <4>1. i + 1 \in i .. e /\ e + 1 = i + 2
          BY <1>2, <3>2
        <4> HIDE DEF e
        <4>. QED  BY <2>2, <2>3, <3>2, <4>1
      <3>3. CASE e > i + 1
        <4>1. i + 2 \in i .. e
          BY <1>2, <3>3
        <4>. QED  BY <2>2, <3>3, <4>1
      <3>. QED  BY <1>2, <3>1, <3>2, <3>3
    <2>9. TokenAt(scan, n, s, a, b, i) <=> IsWord(Lexeme(s, i), << a, b >>)
      <3>1. W(i)
        BY <1>2, <2>2
      <3> HIDE DEF e
      <3>. QED  BY <2>5, <2>6, <2>8, <3>1 DEF TokenAt
    <2> HIDE DEF e
    <2>10. \A j \in i .. e :
             TokenAt(scan, n, s, a, b, j) <=> j = i /\ IsWord(Lexeme(s, i), << a, b >>)
      BY <2>7, <2>9
    <2>. QED  BY <1>3, <2>4, <2>10 DEF e
  <1>. QED  BY <1>5, <1>6

(* The words of two bytes in the reference are those the scanner leaves.   *)
LEMMA TokensAre ==
    ASSUME NEW T, NEW s \in Seq(T), NEW a, NEW b, NEW K, "word" \in K
    PROVE  (\E x \in ToSet(Lexemes(s, K)) : IsWord(x, << a, b >>)) <=>
              \E j \in 1 .. Len(s) : TokenAt(Scan(s), Len(s), s, a, b, j)
  <1> DEFINE n == Len(s)
             scan == Scan(s)
             R == {Lexeme(s, i) : i \in 1 .. n}
             Named(q) == \E x \in ToSet(q) : IsWord(x, << a, b >>)
             Follows(i) == \E j \in i .. n : TokenAt(scan, n, s, a, b, j)
  <1>1. n \in Nat /\ DOMAIN s = 1 .. n
    BY LenProperties
  <1>2. Scans(scan, n, s)
    BY <1>1, ScanIs
  <1>3. PICK from : Reads(from, n, s, K) /\ Lexemes(s, K) = from[1]
    BY <1>1, LexemesAre
  <1>4. \A i \in 1 .. n + 1 : from[i] \in Seq(R)
    BY <1>1, <1>3, LexemesType
  <1> DEFINE holds == {i \in 1 .. n + 1 :
                         BeginsAt(scan, n, s, i) /\ Fresh(scan, n, s, i) => (Named(from[i]) <=> Follows(i))}
  <1> HIDE DEF scan
  <1>5. n + 1 \in holds
    <2>1. ToSet(<< >>) = {}
      BY DEF ToSet
    <2>2. ~Named(from[n + 1])
      BY <1>3, <2>1 DEF Reads
    <2>3. ~Follows(n + 1) /\ n + 1 \in 1 .. n + 1
      BY <1>1
    <2>. QED  BY <2>2, <2>3
  <1>6. ASSUME NEW i \in 1 .. n, LexEnd(s, i) + 1 \in holds PROVE i \in holds
    <2> DEFINE e == LexEnd(s, i)
               x == Lexeme(s, i)
    <2>1. e \in i .. n
      BY <1>1, LexEndIn
    <2>2. SUFFICES ASSUME BeginsAt(scan, n, s, i), Fresh(scan, n, s, i)
                   PROVE  Named(from[i]) <=> Follows(i)
      OBVIOUS
    <2>3. /\ BeginsAt(scan, n, s, e + 1) /\ Fresh(scan, n, s, e + 1)
          /\ \A j \in i .. e : TokenAt(scan, n, s, a, b, j) <=> j = i /\ IsWord(x, << a, b >>)
      BY <1>2, <2>2, WordOfLexeme
    <2>4. Named(from[e + 1]) <=> Follows(e + 1)
      BY <1>6, <2>3
    <2>5. from[i] = Joined(s, K, i, from[e + 1]) /\ from[e + 1] \in Seq(R)
      <3>1. e + 1 \in 1 .. n + 1
        BY <1>1, <2>1
      <3>. QED  BY <1>3, <1>4, <3>1 DEF Reads
    <2>6. Named(from[i]) <=> IsWord(x, << a, b >>) \/ Named(from[e + 1])
      <3>1. CASE Kind(s, i) \in K
        <4>1. x \in R /\ from[i] = << x >> \o from[e + 1]
          BY <2>5, <3>1 DEF Joined
        <4> HIDE DEF R, e, x
        <4>2. ToSet(from[i]) = {x} \union ToSet(from[e + 1])
          <5>1. ToSet(<< x >> \o from[e + 1]) = {x} \union ToSet(from[e + 1])
            BY <2>5, <4>1, SetCons
          <5>. QED  BY <4>1, <5>1
        <4>. QED  BY <4>2
      <3>2. CASE Kind(s, i) \notin K
        <4>1. from[i] = from[e + 1]
          <5> HIDE DEF R, e
          <5>. QED  BY <2>5, <3>2 DEF Joined
        <4>2. ~IsWord(x, << a, b >>)
          BY <3>2 DEF IsWord, Lexeme
        <4> HIDE DEF R, e, x
        <4>. QED  BY <4>1, <4>2
      <3>. QED  BY <3>1, <3>2
    <2>7. Follows(i) <=> IsWord(x, << a, b >>) \/ Follows(e + 1)
      <3>1. \A j \in i .. n : j \in i .. e \/ j \in e + 1 .. n
        BY <1>1, <2>1
      <3>2. i \in i .. n /\ i \in i .. e /\ \A j \in e + 1 .. n : j \in i .. n
        BY <1>1, <2>1
      <3> HIDE DEF e, x
      <3>. QED  BY <2>3, <3>1, <3>2
    <2> HIDE DEF Named, Follows, e, x
    <2>. QED  BY <2>4, <2>6, <2>7
  <1>7. Reaches(s, n, holds)
    BY <1>5, <1>6 DEF Reaches
  <1>8. 1 \in holds
    <2> HIDE DEF holds
    <2>1. 1 \in 1 .. n + 1
      BY <1>1
    <2>. QED  BY <1>1, <1>7, <2>1, EndsOfText
  <1>9. BeginsAt(scan, n, s, 1) /\ Fresh(scan, n, s, 1)
    BY <1>1, <1>2 DEF BeginsAt, Scans, Fresh, WordByte
  <1>. QED  BY <1>1, <1>3, <1>8, <1>9 DEF scan

-----------------------------------------------------------------------------
(* Texts: what is left of them                                             *)

(* Where the pieces of a sequence of sequences come to lie: piece i ends   *)
(* at place off[i].                                                        *)
Laid(off, pieces, n, flat) ==
    /\ off[0] = 0 /\ \A i \in 1 .. n : off[i] = off[i - 1] + Len(pieces[i])
    /\ \A i \in 0 .. n : off[i] \in Nat
    /\ Len(flat) = off[n]
    /\ \A i \in 1 .. n : \A d \in 1 .. Len(pieces[i]) : flat[off[i - 1] + d] = pieces[i][d]

(* `flat` joins the first pieces, one more each time.                      *)
Flattens(flat, pieces, n) ==
    /\ flat[1] = pieces[1]
    /\ \A i \in 2 .. n : flat[i] = flat[i - 1] \o pieces[i]

LEMMA FlattenSeqIs ==
    ASSUME NEW pieces, NEW n \in Nat \ {0}, Len(pieces) = n
    PROVE  \E flat : Flattens(flat, pieces, n) /\ FlattenSeq(pieces) = flat[n]
  <1> DEFINE Fills(f, m) ==
               f = [i \in 1 .. m |-> IF i = 1 THEN pieces[i] ELSE f[i - 1] \o pieces[i]]
             Bad == {m \in Nat : ~ \E f : Fills(f, m)}
  <1>1. Bad = {}
    <2>1. SUFFICES ASSUME Bad # {} PROVE FALSE
      OBVIOUS
    <2>2. PICK m \in Bad : \A k \in Bad : m <= k
      <3>1. Bad \subseteq Nat
        OBVIOUS
      <3> HIDE DEF Bad
      <3>. QED  BY <2>1, <3>1, Least
    <2>3. m \in Nat /\ ~ \E f : Fills(f, m)
      BY <2>2
    <2>4. CASE m = 0
      <3>1. Fills([i \in 1 .. 0 |-> << >>], 0)
        OBVIOUS
      <3>. QED  BY <2>3, <2>4, <3>1
    <2>5. CASE m # 0
      <3>1. m - 1 \in Nat /\ ~(m <= m - 1)
        BY <2>3, <2>5
      <3>2. PICK f : Fills(f, m - 1)
        BY <2>2, <3>1
      <3>3. \A i \in 1 .. m - 1 : f[i] = IF i = 1 THEN pieces[i] ELSE f[i - 1] \o pieces[i]
        BY <3>2
      <3> DEFINE g == [i \in 1 .. m |->
                         IF i = m THEN (IF i = 1 THEN pieces[i] ELSE f[i - 1] \o pieces[i]) ELSE f[i]]
      <3>4. ASSUME NEW i \in 1 .. m
            PROVE  g[i] = IF i = 1 THEN pieces[i] ELSE g[i - 1] \o pieces[i]
        <4>1. i # 1 => g[i - 1] = f[i - 1]
          <5>1. i # 1 => i - 1 \in 1 .. m /\ i - 1 # m
            BY <3>1
          <5>. QED  BY <5>1
        <4>2. CASE i = m
          <5>1. g[i] = IF i = 1 THEN pieces[i] ELSE f[i - 1] \o pieces[i]
            BY <4>2
          <5> HIDE DEF g
          <5>. QED  BY <4>1, <5>1
        <4>3. CASE i # m
          <5>1. g[i] = f[i] /\ i \in 1 .. m - 1
            BY <3>1, <4>3
          <5> HIDE DEF g
          <5>. QED  BY <3>3, <4>1, <5>1
        <4>. QED  BY <4>2, <4>3
      <3>5. g = [i \in 1 .. m |-> g[i]]
        OBVIOUS
      <3> HIDE DEF g
      <3>6. Fills(g, m)
        BY <3>4, <3>5
      <3>. QED  BY <2>3, <3>6
    <2>. QED  BY <2>4, <2>5
  <1> DEFINE flat == CHOOSE f : Fills(f, n)
  <1>2. FlattenSeq(pieces) = flat[n]
    BY DEF FlattenSeq
  <1>3. Fills(flat, n)
    <2>1. \E f : Fills(f, n)
      <3>1. n \in Nat /\ n \notin Bad
        <4> HIDE DEF Bad
        <4>. QED  BY <1>1
      <3>. QED  BY <3>1
    <2>. QED  BY <2>1
  <1> HIDE DEF flat
  <1>4. \A i \in 1 .. n : flat[i] = IF i = 1 THEN pieces[i] ELSE flat[i - 1] \o pieces[i]
    BY <1>3
  <1>5. flat[1] = pieces[1]
    BY <1>4
  <1>6. \A i \in 2 .. n : flat[i] = flat[i - 1] \o pieces[i]
    <2>1. \A i \in 2 .. n : i \in 1 .. n /\ i # 1
      OBVIOUS
    <2>. QED  BY <1>4, <2>1
  <1>. QED  BY <1>2, <1>5, <1>6 DEF Flattens

LEMMA FlattenIs ==
    ASSUME NEW T, NEW pieces \in Seq(Seq(T)), NEW n, n = Len(pieces)
    PROVE  FlattenSeq(pieces) \in Seq(T) /\ \E off : Laid(off, pieces, n, FlattenSeq(pieces))
  <1>1. n \in Nat /\ \A i \in 1 .. n : pieces[i] \in Seq(T) /\ Len(pieces[i]) \in Nat
    BY LenProperties, ElementOfSeq
  <1>2. CASE n = 0
    <2>1. pieces = << >> /\ FlattenSeq(pieces) = << >>
      BY <1>2, EmptySeq DEF FlattenSeq
    <2> DEFINE off == [i \in 0 .. 0 |-> 0]
    <2>2. Laid(off, pieces, n, << >>)
      BY <1>2 DEF Laid
    <2> HIDE DEF off
    <2>3. << >> \in Seq(T)
      OBVIOUS
    <2>4. \E o : Laid(o, pieces, n, << >>)
      BY <2>2
    <2>. QED  BY <2>1, <2>3, <2>4
  <1>3. CASE n # 0
    <2>1. PICK flat : Flattens(flat, pieces, n) /\ FlattenSeq(pieces) = flat[n]
      BY <1>1, <1>3, FlattenSeqIs
    <2> DEFINE off == [i \in 0 .. n |-> IF i = 0 THEN 0 ELSE Len(flat[i])]
               Good(m) == flat[m] \in Seq(T) /\ Laid(off, pieces, m, flat[m])
               Bad == {m \in 1 .. n : ~Good(m)}
    <2>2. off[0] = 0 /\ \A i \in 1 .. n : off[i] = Len(flat[i])
      BY <1>1
    <2> HIDE DEF off
    <2>3. Bad = {}
      <3>1. SUFFICES ASSUME Bad # {} PROVE FALSE
        OBVIOUS
      <3>2. PICK m \in Bad : \A k \in Bad : m <= k
        <4>1. Bad \subseteq Nat
          BY <1>1
        <4> HIDE DEF Bad
        <4>. QED  BY <3>1, <4>1, Least
      <3>3. m \in 1 .. n /\ ~Good(m)
        BY <3>2
      <3>4. CASE m = 1
        <4>1. flat[1] = pieces[1] /\ pieces[1] \in Seq(T) /\ Len(pieces[1]) \in Nat
          BY <1>1, <2>1, <3>3, <3>4 DEF Flattens
        <4>2. off[1] = Len(pieces[1]) /\ off[0] = 0
          BY <2>2, <3>3, <3>4, <4>1
        <4>3. 1 - 1 = 0 /\ \A i \in 1 .. 1 : i = 1
          OBVIOUS
        <4>4. \A i \in 0 .. 1 : i = 0 \/ i = 1
          OBVIOUS
        <4>5. \A i \in 1 .. 1 : off[i] = off[i - 1] + Len(pieces[i])
          BY <4>1, <4>2, <4>3
        <4>6. \A i \in 0 .. 1 : off[i] \in Nat
          BY <4>1, <4>2, <4>4
        <4>7. \A i \in 1 .. 1 : \A d \in 1 .. Len(pieces[i]) : flat[1][off[i - 1] + d] = pieces[i][d]
          BY <4>1, <4>2, <4>3
        <4>8. Laid(off, pieces, 1, flat[1])
          BY <4>1, <4>2, <4>5, <4>6, <4>7 DEF Laid
        <4>. QED  BY <3>3, <3>4, <4>1, <4>8
      <3>5. CASE m # 1
        <4> DEFINE k == m - 1
        <4>1. k \in 1 .. n /\ ~(m <= k) /\ m = k + 1 /\ m \in 2 .. n
          BY <1>1, <3>3, <3>5
        <4>2. Good(k)
          BY <3>2, <4>1
        <4>3. flat[m] = flat[k] \o pieces[m]
          BY <2>1, <4>1 DEF Flattens
        <4> HIDE DEF k
        <4> DEFINE old == flat[k]
                   add == pieces[m]
        <4>4. old \in Seq(T) /\ add \in Seq(T) /\ Len(old) = off[k] /\ off[k] \in Nat /\ Len(add) \in Nat
          BY <1>1, <2>2, <3>3, <4>1, <4>2 DEF Laid
        <4> HIDE DEF old, add
        <4>5. /\ old \o add \in Seq(T) /\ Len(old \o add) = Len(old) + Len(add)
              /\ \A d \in 1 .. Len(old) : (old \o add)[d] = old[d]
              /\ \A d \in 1 .. Len(add) : (old \o add)[Len(old) + d] = add[d]
          <5>1. /\ old \o add \in Seq(T) /\ Len(old \o add) = Len(old) + Len(add)
                /\ \A d \in 1 .. Len(old) + Len(add) :
                     (old \o add)[d] = IF d <= Len(old) THEN old[d] ELSE add[d - Len(old)]
            BY <4>4, ConcatProperties
          <5>2. Len(old) \in Nat
            BY <4>4
          <5>3. \A d \in 1 .. Len(old) : d \in 1 .. Len(old) + Len(add) /\ d <= Len(old)
            BY <4>4, <5>2
          <5>4. \A d \in 1 .. Len(add) : /\ Len(old) + d \in 1 .. Len(old) + Len(add)
                                        /\ ~(Len(old) + d <= Len(old)) /\ Len(old) + d - Len(old) = d
            BY <4>4, <5>2
          <5>. QED  BY <5>1, <5>3, <5>4
        <4>6. flat[m] = old \o add
          BY <4>3 DEF old, add
        <4>7. off[m] = off[k] + Len(add) /\ Len(flat[m]) = off[m] /\ m - 1 = k
          <5>1. off[m] = Len(flat[m])
            BY <2>2, <3>3
          <5>2. Len(flat[m]) = off[k] + Len(add)
            BY <4>4, <4>5, <4>6
          <5>. QED  BY <4>1, <5>1, <5>2
        <4>8. \A i \in 1 .. m : i = m \/ i \in 1 .. k
          BY <4>1
        <4>9. \A i \in 0 .. m : i = m \/ i \in 0 .. k
          BY <4>1
        <4>10. \A i \in 1 .. m : off[i] = off[i - 1] + Len(pieces[i])
          BY <4>2, <4>7, <4>8 DEF Laid, add
        <4>11. \A i \in 0 .. m : off[i] \in Nat
          <5>1. \A i \in 0 .. k : off[i] \in Nat
            BY <4>2 DEF Laid
          <5>2. off[m] \in Nat
            BY <4>1, <4>4, <4>7, <5>1
          <5>. QED  BY <4>9, <5>1, <5>2
        <4>12. ASSUME NEW i \in 1 .. k, NEW d \in 1 .. Len(pieces[i])
               PROVE  off[i - 1] + d \in 1 .. Len(old)
          <5> DEFINE Low == {j \in i .. k : off[j] < off[i - 1] + d}
          <5>1. /\ off[i - 1] \in Nat /\ off[i] = off[i - 1] + Len(pieces[i]) /\ off[i] \in Nat
                /\ Len(pieces[i]) \in Nat
            <6>1. i - 1 \in 0 .. k /\ i \in 0 .. k /\ i \in 1 .. n
              BY <1>1, <4>1
            <6>. QED  BY <1>1, <4>2, <6>1 DEF Laid
          <5>2. Low = {}
            <6>1. SUFFICES ASSUME Low # {} PROVE FALSE
              OBVIOUS
            <6>2. PICK j \in Low : \A l \in Low : j <= l
              <7>1. Low \subseteq Nat
                OBVIOUS
              <7> HIDE DEF Low
              <7>. QED  BY <6>1, <7>1, Least
            <6>3. j # i
              BY <5>1, <6>2
            <6>4. j - 1 \in i .. k /\ ~(j <= j - 1) /\ j \in 1 .. k /\ j - 1 \in 0 .. k /\ j \in 1 .. n
              BY <1>1, <4>1, <6>2, <6>3
            <6>5. ~(off[j - 1] < off[i - 1] + d)
              BY <6>2, <6>4
            <6>6. off[j] = off[j - 1] + Len(pieces[j]) /\ Len(pieces[j]) \in Nat /\ off[j - 1] \in Nat
              BY <1>1, <4>2, <6>4 DEF Laid
            <6>7. off[j] < off[i - 1] + d
              BY <6>2
            <6>8. off[i - 1] + d \in Int
              BY <5>1
            <6> HIDE DEF Low
            <6>. QED  BY <6>5, <6>6, <6>7, <6>8
          <5>3. k \in i .. k
            BY <4>1
          <5>4. ~(off[k] < off[i - 1] + d)
            BY <5>2, <5>3
          <5>. QED  BY <4>4, <5>1, <5>4
        <4>13. ASSUME NEW i \in 1 .. m, NEW d \in 1 .. Len(pieces[i])
               PROVE  flat[m][off[i - 1] + d] = pieces[i][d]
          <5>1. CASE i = m
            BY <4>4, <4>5, <4>6, <4>7, <5>1 DEF add
          <5>2. CASE i \in 1 .. k
            <6>1. off[i - 1] + d \in 1 .. Len(old)
              BY <4>12, <5>2
            <6>2. old[off[i - 1] + d] = pieces[i][d]
              BY <4>2, <5>2 DEF Laid, old
            <6>. QED  BY <4>5, <4>6, <6>1, <6>2
          <5>. QED  BY <4>8, <5>1, <5>2
        <4>14. Laid(off, pieces, m, flat[m])
          BY <2>2, <4>7, <4>10, <4>11, <4>13 DEF Laid
        <4>. QED  BY <3>3, <4>5, <4>6, <4>14
      <3>. QED  BY <3>4, <3>5
    <2>4. Good(n)
      BY <1>1, <1>3, <2>3
    <2>. QED  BY <2>1, <2>4
  <1>. QED  BY <1>2, <1>3

(* What is left of byte i.                                                 *)
Piece(scan, s, i) ==
    IF \/ scan[i] = Goes("Normal") /\ scan[i + 1] = Goes("Normal")
       \/ scan[i] = Goes("LineComment") /\ s[i] = "\n"
    THEN AsChar(s[i]) ELSE << " " >>

(* The bytes that Normalised writes.                                       *)
Spells(T) == " " \in T /\ "h" \in T /\ "t" \in T

(* What a byte becomes, whatever it is and whether it is shown.            *)
LEMMA PieceIs ==
    ASSUME NEW T, Spells(T), NEW s, NEW scan, NEW i, s[i] \in T
    PROVE  /\ Piece(scan, s, i) \in Seq(T) /\ Len(Piece(scan, s, i)) \in {1, 2}
           /\ ~Shown(scan, s, i) => Len(Piece(scan, s, i)) = 1 /\ Piece(scan, s, i)[1] \in Blanks
           /\ Shown(scan, s, i) /\ s[i] \notin {"h", "t"} =>
                Len(Piece(scan, s, i)) = 1 /\ Piece(scan, s, i)[1] = s[i]
           /\ Shown(scan, s, i) /\ s[i] \in {"h", "t"} =>
                Len(Piece(scan, s, i)) = 2 /\ Piece(scan, s, i)[1] = "h" /\ Piece(scan, s, i)[2] = "t"
  <1> DEFINE p == Piece(scan, s, i)
  <1>1. Goes("LineComment") # Goes("Normal")
    BY StatesDiffer
  <1>2. Shown(scan, s, i) => p = AsChar(s[i])
    BY DEF Shown, Piece
  <1>3. ~Shown(scan, s, i) => p = << " " >> \/ (s[i] \in Blanks /\ p = AsChar(s[i]))
    BY <1>1 DEF Shown, Piece, Blanks
  <1> HIDE DEF p
  <1>4. s[i] \in {"h", "t"} => AsChar(s[i]) = << "h", "t" >>
    BY DEF AsChar
  <1>5. s[i] \notin {"h", "t"} => AsChar(s[i]) = << s[i] >>
    BY DEF AsChar
  <1>6. s[i] \in Blanks => s[i] \notin {"h", "t"}
    BY DEF Blanks
  <1>7. /\ " " \in Blanks /\ << " " >> \in Seq(T) /\ Len(<< " " >>) = 1 /\ << " " >>[1] = " "
        /\ << "h", "t" >> \in Seq(T) /\ Len(<< "h", "t" >>) = 2
        /\ << "h", "t" >>[1] = "h" /\ << "h", "t" >>[2] = "t"
        /\ << s[i] >> \in Seq(T) /\ Len(<< s[i] >>) = 1 /\ << s[i] >>[1] = s[i]
    <2>1. ASSUME NEW x \in T, NEW y \in T
          PROVE  /\ << x >> \in Seq(T) /\ Len(<< x >>) = 1 /\ << x >>[1] = x
                 /\ << x, y >> \in Seq(T) /\ Len(<< x, y >>) = 2 /\ << x, y >>[1] = x /\ << x, y >>[2] = y
      OBVIOUS
    <2>2. " " \in T /\ "h" \in T /\ "t" \in T
      BY DEF Spells
    <2>. QED  BY <2>1, <2>2 DEF Blanks
  <1>8. CASE Shown(scan, s, i) /\ s[i] \in {"h", "t"}
    <2>1. p = << "h", "t" >>
      BY <1>2, <1>4, <1>8
    <2>2. p \in Seq(T) /\ Len(p) = 2 /\ p[1] = "h" /\ p[2] = "t"
      BY <1>7, <2>1
    <2>. QED  BY <1>8, <2>2 DEF p
  <1>9. CASE Shown(scan, s, i) /\ s[i] \notin {"h", "t"}
    <2>1. p = << s[i] >>
      BY <1>2, <1>5, <1>9
    <2>2. p \in Seq(T) /\ Len(p) = 1 /\ p[1] = s[i]
      BY <1>7, <2>1
    <2>. QED  BY <1>9, <2>2 DEF p
  <1>10. CASE ~Shown(scan, s, i)
    <2>1. p = << " " >> \/ (s[i] \in Blanks /\ p = << s[i] >>)
      BY <1>3, <1>5, <1>6, <1>10
    <2>2. p \in Seq(T) /\ Len(p) = 1 /\ p[1] \in Blanks
      <3>1. CASE p = << " " >>
        BY <1>7, <3>1
      <3>2. CASE s[i] \in Blanks /\ p = << s[i] >>
        BY <1>7, <3>2
      <3>. QED  BY <2>1, <3>1, <3>2
    <2>. QED  BY <1>10, <2>2 DEF p
  <1>. QED  BY <1>8, <1>9, <1>10

Pieces(scan, s, n) == [i \in 1 .. n |-> Piece(scan, s, i)]

LEMMA NormalisedIs ==
    ASSUME NEW T, Spells(T), NEW s \in Seq(T)
    PROVE  /\ Normalised(s) \in Seq(T)
           /\ \E off : Laid(off, Pieces(Scan(s), s, Len(s)), Len(s), Normalised(s))
  <1> DEFINE n == Len(s)
             pieces == [i \in 1 .. n |-> Piece(Scan(s), s, i)]
  <1>1. n \in Nat /\ DOMAIN s = 1 .. n /\ \A i \in 1 .. n : s[i] \in T
    BY LenProperties, ElementOfSeq
  <1>2. Normalised(s) = FlattenSeq(pieces)
    BY <1>1 DEF Normalised, Piece
  <1>3. \A i \in 1 .. n : Piece(Scan(s), s, i) \in Seq(T)
    BY <1>1, PieceIs
  <1>4. pieces \in Seq(Seq(T)) /\ Len(pieces) = n
    <2>1. pieces \in [1 .. n -> Seq(T)]
      BY <1>3
    <2> HIDE DEF pieces
    <2>. QED  BY <2>1, SeqDef
  <1> HIDE DEF pieces
  <1>5. FlattenSeq(pieces) \in Seq(T) /\ \E off : Laid(off, pieces, n, FlattenSeq(pieces))
    BY <1>4, FlattenIs
  <1>. QED  BY <1>2, <1>5 DEF pieces, Pieces

LEMMA AtIs ==
    ASSUME NEW T, NEW q \in Seq(T), NEW k \in Int
    PROVE  /\ At(q, k) = IF k \in 1 .. Len(q) THEN q[k] ELSE "end"
           /\ At(q, k) \in IdentifierChars => k \in 1 .. Len(q)
  <1>1. DOMAIN q = 1 .. Len(q)
    BY LenProperties
  <1>. QED  BY <1>1 DEF At, IdentifierChars, Letters

LEMMA TokenIs ==
    ASSUME NEW T, NEW q \in Seq(T), NEW a \in IdentifierChars, NEW b \in IdentifierChars, NEW k \in Int
    PROVE  k \in 1 .. Len(q) - 2 + 1 /\ IsToken(q, << a, b >>, k) <=>
             /\ At(q, k) = a /\ At(q, k + 1) = b
             /\ At(q, k - 1) \notin IdentifierChars /\ At(q, k + 2) \notin IdentifierChars
  <1>1. Len(<< a, b >>) = 2
    OBVIOUS
  <1>2. Len(q) \in Nat
    BY LenProperties
  <1>3. At(q, k) = a /\ At(q, k + 1) = b => k \in 1 .. Len(q) - 2 + 1
    <2>1. /\ At(q, k) \in IdentifierChars => k \in 1 .. Len(q)
          /\ At(q, k + 1) \in IdentifierChars => k + 1 \in 1 .. Len(q)
      BY AtIs
    <2>. QED  BY <1>2, <2>1
  <1>4. ASSUME k \in 1 .. Len(q) - 2 + 1
        PROVE  Occurs(q, << a, b >>, k) <=> At(q, k) = a /\ At(q, k + 1) = b
    <2>1. k \in 1 .. Len(q) /\ k + 1 \in 1 .. Len(q)
      BY <1>2, <1>4
    <2>2. At(q, k) = q[k] /\ At(q, k + 1) = q[k + 1]
      BY <2>1, AtIs
    <2> DEFINE pair == SubSeq(q, k, k + 2 - 1)
    <2>3. pair \in Seq(T) /\ Len(pair) = 2 /\ pair[1] = q[k] /\ pair[2] = q[k + 1]
      <3>1. k + 2 - 1 = k + 1
        OBVIOUS
      <3>. QED  BY <1>2, <2>1, <3>1
    <2> HIDE DEF pair
    <2>4. pair = << a, b >> <=> pair[1] = a /\ pair[2] = b
      BY <2>3, PairIs
    <2>5. Occurs(q, << a, b >>, k) <=> pair = << a, b >>
      BY <1>1 DEF Occurs, pair
    <2>. QED  BY <2>2, <2>3, <2>4, <2>5
  <1>5. IsToken(q, << a, b >>, k) <=>
          /\ Occurs(q, << a, b >>, k)
          /\ At(q, k - 1) \notin IdentifierChars /\ At(q, k + 2) \notin IdentifierChars
    BY <1>1 DEF IsToken
  <1>. QED  BY <1>3, <1>4, <1>5

(* Where the bytes of words come to lie in the normalised text.            *)
LEMMA WordBytesLie ==
    ASSUME NEW T, Spells(T), NEW s \in Seq(T), NEW n, n = Len(s), NEW scan, NEW q \in Seq(T), NEW off,
           Laid(off, Pieces(scan, s, n), n, q)
    PROVE  /\ \A j \in 1 .. n : WordByte(scan, n, s, j) => off[j] = off[j - 1] + 1 /\ At(q, off[j]) = s[j]
           /\ \A j \in 0 .. n : At(q, off[j] + 1) \in IdentifierChars <=> WordByte(scan, n, s, j + 1)
           /\ \A j \in 0 .. n : At(q, off[j]) \in IdentifierChars <=> WordByte(scan, n, s, j)
           /\ \A k \in Int : At(q, k) \in IdentifierChars =>
                \E j \in 1 .. n : k = off[j] /\ WordByte(scan, n, s, j)
  <1> DEFINE p(j) == Piece(scan, s, j)
             W(j) == WordByte(scan, n, s, j)
  <1>1. n \in Nat /\ \A j \in 1 .. n : s[j] \in T
    BY LenProperties, ElementOfSeq
  <1>2. /\ off[0] = 0 /\ Len(q) = off[n]
        /\ \A j \in 1 .. n : off[j] = off[j - 1] + Len(p(j))
        /\ \A j \in 0 .. n : off[j] \in Nat
        /\ \A j \in 1 .. n : \A d \in 1 .. Len(p(j)) : q[off[j - 1] + d] = p(j)[d]
    BY DEF Laid, Pieces
  <1>3. ASSUME NEW j \in 1 .. n
        PROVE  /\ Len(p(j)) \in {1, 2}
               /\ W(j) => Len(p(j)) = 1 /\ p(j)[1] = s[j]
               /\ ~W(j) => \A d \in 1 .. Len(p(j)) : p(j)[d] \notin IdentifierChars
    <2>1. /\ Len(p(j)) \in {1, 2}
          /\ ~Shown(scan, s, j) => Len(p(j)) = 1 /\ p(j)[1] \in Blanks
          /\ Shown(scan, s, j) /\ s[j] \notin {"h", "t"} => Len(p(j)) = 1 /\ p(j)[1] = s[j]
          /\ Shown(scan, s, j) /\ s[j] \in {"h", "t"} => Len(p(j)) = 2 /\ p(j)[1] = "h" /\ p(j)[2] = "t"
      BY <1>1, PieceIs
    <2>2. W(j) <=> Shown(scan, s, j) /\ s[j] \in IdentifierChars
      BY DEF WordByte
    <2>3. \A c \in IdentifierChars : c \notin Blanks /\ c \notin {"h", "t"}
      BY DEF IdentifierChars, Letters, Blanks
    <2>4. "h" \notin IdentifierChars /\ "t" \notin IdentifierChars
      BY DEF IdentifierChars, Letters
    <2> HIDE DEF p, W
    <2>5. \A d \in 1 .. Len(p(j)) : d = 1 \/ (d = 2 /\ Len(p(j)) = 2)
      <3>1. CASE Len(p(j)) = 1
        BY <3>1
      <3>2. CASE Len(p(j)) = 2
        BY <3>2
      <3>. QED  BY <2>1, <3>1, <3>2
    <2>6. W(j) => Len(p(j)) = 1 /\ p(j)[1] = s[j]
      BY <2>1, <2>2, <2>3
    <2>7. ~W(j) => \A d \in 1 .. Len(p(j)) : p(j)[d] \notin IdentifierChars
      <3>1. SUFFICES ASSUME ~W(j), NEW d \in 1 .. Len(p(j)) PROVE p(j)[d] \notin IdentifierChars
        OBVIOUS
      <3>2. CASE ~Shown(scan, s, j)
        BY <2>1, <2>3, <2>5, <3>2
      <3>3. CASE Shown(scan, s, j) /\ s[j] \notin {"h", "t"}
        BY <2>1, <2>2, <2>5, <3>1, <3>3
      <3>4. CASE Shown(scan, s, j) /\ s[j] \in {"h", "t"}
        BY <2>1, <2>4, <2>5, <3>4
      <3>. QED  BY <3>2, <3>3, <3>4
    <2>. QED  BY <2>1, <2>6, <2>7
  <1> HIDE DEF p
  (* Pieces follow each other: none ends behind the text.                  *)
  <1>4. \A j \in 0 .. n : off[j] <= Len(q)
    <2> DEFINE Bad == {k \in 0 .. n : ~(off[n - k] <= Len(q))}
    <2>1. Bad = {}
      <3>1. SUFFICES ASSUME Bad # {} PROVE FALSE
        OBVIOUS
      <3>2. PICK k \in Bad : \A l \in Bad : k <= l
        <4>1. Bad \subseteq Nat
          OBVIOUS
        <4> HIDE DEF Bad
        <4>. QED  BY <3>1, <4>1, Least
      <3>3. k # 0
        BY <1>1, <1>2, <3>2
      <3>4. k - 1 \in 0 .. n /\ ~(k <= k - 1) /\ n - (k - 1) = n - k + 1 /\ n - k + 1 \in 1 .. n
        BY <1>1, <3>2, <3>3
      <3>5. off[n - k + 1] <= Len(q)
        BY <3>2, <3>4
      <3>6. off[n - k + 1] = off[n - k] + Len(p(n - k + 1)) /\ off[n - k] \in Nat
        <4>1. n - k + 1 - 1 = n - k /\ n - k \in 0 .. n
          BY <1>1, <3>2
        <4>2. off[n - k + 1] = off[n - k + 1 - 1] + Len(p(n - k + 1))
          BY <1>2, <3>4
        <4>. QED  BY <1>2, <4>1, <4>2
      <3>7. Len(p(n - k + 1)) \in {1, 2}
        BY <1>3, <3>4
      <3>8. Len(q) \in Nat
        BY LenProperties
      <3>. QED  BY <3>2, <3>5, <3>6, <3>7, <3>8
    <2>2. ASSUME NEW j \in 0 .. n PROVE off[j] <= Len(q)
      <3>1. n - j \in 0 .. n /\ n - (n - j) = j
        BY <1>1
      <3>. QED  BY <2>1, <3>1
    <2>. QED  BY <2>2
  <1>5. ASSUME NEW j \in 1 .. n, NEW d \in 1 .. Len(p(j))
        PROVE  off[j - 1] + d \in 1 .. Len(q) /\ At(q, off[j - 1] + d) = p(j)[d]
    <2>1. off[j - 1] \in Nat /\ off[j] = off[j - 1] + Len(p(j)) /\ off[j] <= Len(q) /\ Len(p(j)) \in {1, 2}
      <3>1. j - 1 \in 0 .. n /\ j \in 0 .. n
        BY <1>1
      <3>. QED  BY <1>2, <1>3, <1>4, <3>1
    <2>2. off[j - 1] + d \in 1 .. Len(q)
      <3>1. Len(q) \in Nat
        BY LenProperties
      <3>. QED  BY <2>1, <3>1
    <2>3. q[off[j - 1] + d] = p(j)[d]
      BY <1>2
    <2>4. off[j - 1] + d \in Int
      BY <2>1
    <2>5. At(q, off[j - 1] + d) = q[off[j - 1] + d]
      BY <2>2, <2>4, AtIs
    <2>. QED  BY <2>2, <2>3, <2>5
  <1>6. ASSUME NEW j \in 1 .. n, W(j) PROVE off[j] = off[j - 1] + 1 /\ At(q, off[j]) = s[j]
    <2>1. Len(p(j)) = 1 /\ p(j)[1] = s[j]
      BY <1>3, <1>6
    <2>2. off[j] = off[j - 1] + 1
      BY <1>2, <2>1
    <2>3. 1 \in 1 .. Len(p(j))
      BY <2>1
    <2>4. At(q, off[j - 1] + 1) = p(j)[1]
      BY <1>5, <2>3
    <2>. QED  BY <2>1, <2>2, <2>4
  <1>7. W(0) <=> FALSE
    BY DEF WordByte
  <1>8. W(n + 1) <=> FALSE
    BY <1>1 DEF WordByte
  <1>9. ASSUME NEW j \in 1 .. n, ~W(j)
        PROVE  At(q, off[j]) \notin IdentifierChars /\ At(q, off[j - 1] + 1) \notin IdentifierChars
    <2>1. Len(p(j)) \in {1, 2} /\ \A d \in 1 .. Len(p(j)) : p(j)[d] \notin IdentifierChars
      BY <1>3, <1>9
    <2>2. 1 \in 1 .. Len(p(j)) /\ Len(p(j)) \in 1 .. Len(p(j))
      <3>1. \A l \in {1, 2} : 1 \in 1 .. l /\ l \in 1 .. l
        OBVIOUS
      <3>. QED  BY <2>1, <3>1
    <2>5. off[j] = off[j - 1] + Len(p(j))
      BY <1>2
    <2>3. At(q, off[j - 1] + 1) = p(j)[1] /\ At(q, off[j]) = p(j)[Len(p(j))]
      BY <1>5, <2>2, <2>5
    <2>. QED  BY <2>1, <2>2, <2>3
  <1>10. ASSUME NEW j \in 1 .. n, W(j)
         PROVE  At(q, off[j]) \in IdentifierChars /\ At(q, off[j - 1] + 1) \in IdentifierChars
    <2>1. s[j] \in IdentifierChars
      BY <1>10 DEF WordByte
    <2>2. off[j] = off[j - 1] + 1 /\ At(q, off[j]) = s[j]
      BY <1>6, <1>10
    <2>. QED  BY <2>1, <2>2
  <1>11. \A j \in 0 .. n : At(q, off[j] + 1) \in IdentifierChars <=> W(j + 1)
    <2>1. SUFFICES ASSUME NEW j \in 0 .. n PROVE At(q, off[j] + 1) \in IdentifierChars <=> W(j + 1)
      OBVIOUS
    <2>2. CASE j = n
      <3>1. off[n] + 1 \in Int /\ off[n] + 1 \notin 1 .. Len(q)
        BY <1>1, <1>2
      <3>2. At(q, off[n] + 1) \notin IdentifierChars
        BY <3>1, AtIs
      <3>. QED  BY <1>8, <2>2, <3>2
    <2>3. CASE j # n
      <3>1. j + 1 \in 1 .. n /\ j + 1 - 1 = j
        BY <1>1, <2>3
      <3> HIDE DEF W
      <3>. QED  BY <1>9, <1>10, <3>1
    <2>. QED  BY <2>2, <2>3
  <1>12. \A j \in 0 .. n : At(q, off[j]) \in IdentifierChars <=> W(j)
    <2>1. SUFFICES ASSUME NEW j \in 0 .. n PROVE At(q, off[j]) \in IdentifierChars <=> W(j)
      OBVIOUS
    <2>2. CASE j = 0
      <3>1. At(q, 0) \notin IdentifierChars
        BY AtIs
      <3>. QED  BY <1>2, <1>7, <2>2, <3>1
    <2>3. CASE j # 0
      <3>1. j \in 1 .. n
        BY <2>3
      <3> HIDE DEF W
      <3>. QED  BY <1>9, <1>10, <3>1
    <2>. QED  BY <2>2, <2>3
  <1>13. ASSUME NEW k \in Int, At(q, k) \in IdentifierChars
         PROVE  \E j \in 1 .. n : k = off[j] /\ W(j)
    <2>1. k \in 1 .. Len(q)
      BY <1>13, AtIs
    <2> DEFINE Ahead == {j \in 0 .. n : k <= off[j]}
    <2>2. PICK j \in Ahead : \A l \in Ahead : j <= l
      <3>1. n \in Ahead
        BY <1>1, <1>2, <2>1
      <3>2. Ahead \subseteq Nat /\ Ahead # {}
        BY <3>1
      <3> HIDE DEF Ahead
      <3>. QED  BY <3>2, Least
    <2>3. j # 0 /\ j \in 1 .. n
      BY <1>2, <2>1, <2>2
    <2>4. off[j - 1] < k /\ off[j - 1] \in Nat
      <3>1. j - 1 \in 0 .. n /\ ~(j <= j - 1)
        BY <2>3
      <3>. QED  BY <1>2, <2>2, <3>1
    <2>5. off[j] = off[j - 1] + Len(p(j)) /\ Len(p(j)) \in {1, 2} /\ k <= off[j]
      BY <1>2, <1>3, <2>2, <2>3
    <2>6. k - off[j - 1] \in 1 .. Len(p(j)) /\ off[j - 1] + (k - off[j - 1]) = k
      BY <2>4, <2>5
    <2>7. p(j)[k - off[j - 1]] \in IdentifierChars
      BY <1>5, <1>13, <2>3, <2>6
    <2>8. W(j)
      BY <1>3, <2>3, <2>6, <2>7
    <2>9. k = off[j]
      BY <1>6, <2>3, <2>4, <2>5, <2>8
    <2>. QED  BY <2>3, <2>8, <2>9
  <1>. QED  BY <1>6, <1>11, <1>12, <1>13

(* A word of two bytes is found in the normalised text exactly if the      *)
(* scanner leaves one.                                                     *)
LEMMA TokenIsFound ==
    ASSUME NEW T, Spells(T), NEW s \in Seq(T), NEW a \in IdentifierChars, NEW b \in IdentifierChars
    PROVE  ContainsIdentifierToken(Normalised(s), << a, b >>) <=>
              \E j \in 1 .. Len(s) : TokenAt(Scan(s), Len(s), s, a, b, j)
  <1> DEFINE n == Len(s)
             scan == Scan(s)
             q == Normalised(s)
             W(j) == WordByte(scan, n, s, j)
  <1>1. n \in Nat
    BY LenProperties
  <1>2. q \in Seq(T)
    BY NormalisedIs
  <1>3. PICK off : Laid(off, Pieces(scan, s, n), n, q)
    BY NormalisedIs
  <1> HIDE DEF q, scan
  <1>n. n = Len(s)
    OBVIOUS
  <1> HIDE DEF n, W
  <1>4. /\ \A j \in 1 .. n : W(j) => off[j] = off[j - 1] + 1 /\ At(q, off[j]) = s[j]
        /\ \A j \in 0 .. n : At(q, off[j] + 1) \in IdentifierChars <=> W(j + 1)
        /\ \A j \in 0 .. n : At(q, off[j]) \in IdentifierChars <=> W(j)
        /\ \A k \in Int : At(q, k) \in IdentifierChars => \E j \in 1 .. n : k = off[j] /\ W(j)
    <2>1. /\ \A j \in 1 .. n : WordByte(scan, n, s, j) => off[j] = off[j - 1] + 1 /\ At(q, off[j]) = s[j]
          /\ \A j \in 0 .. n : At(q, off[j] + 1) \in IdentifierChars <=> WordByte(scan, n, s, j + 1)
          /\ \A j \in 0 .. n : At(q, off[j]) \in IdentifierChars <=> WordByte(scan, n, s, j)
          /\ \A k \in Int : At(q, k) \in IdentifierChars =>
               \E j \in 1 .. n : k = off[j] /\ WordByte(scan, n, s, j)
      BY <1>2, <1>3, <1>n, WordBytesLie
    <2>. QED  BY <2>1 DEF W
  <1>5. \A j \in 0 .. n : off[j] \in Nat
    BY <1>3 DEF Laid
  <1>6. \A j \in Int : W(j) => j \in 1 .. n
    BY DEF W, WordByte
  <1> DEFINE Found(k) == /\ At(q, k) = a /\ At(q, k + 1) = b
                         /\ At(q, k - 1) \notin IdentifierChars /\ At(q, k + 2) \notin IdentifierChars
  <1>7. ContainsIdentifierToken(q, << a, b >>) <=> \E k \in Int : Found(k)
    <2>1. Len(<< a, b >>) = 2 /\ Len(q) \in Nat
      BY <1>2, LenProperties
    <2>2. ContainsIdentifierToken(q, << a, b >>) <=>
            \E k \in Int : k \in 1 .. Len(q) - 2 + 1 /\ IsToken(q, << a, b >>, k)
      <3>1. \A k \in 1 .. Len(q) - 2 + 1 : k \in Int
        BY <2>1
      <3>. QED  BY <2>1, <3>1 DEF ContainsIdentifierToken
    <2>3. ASSUME NEW k \in Int
          PROVE  k \in 1 .. Len(q) - 2 + 1 /\ IsToken(q, << a, b >>, k) <=> Found(k)
      BY <1>2, TokenIs
    <2> HIDE DEF Found
    <2>. QED  BY <2>2, <2>3
  <1>8. ASSUME NEW k \in Int, Found(k) PROVE \E j \in 1 .. n : TokenAt(scan, n, s, a, b, j)
    <2>1. At(q, k) \in IdentifierChars /\ At(q, k + 1) \in IdentifierChars
      BY <1>8
    <2>2. PICK j \in 1 .. n : k = off[j] /\ W(j)
      BY <1>4, <2>1
    <2>3. off[j] = off[j - 1] + 1 /\ s[j] = a /\ j \in 0 .. n /\ off[j - 1] \in Nat /\ j - 1 \in 0 .. n
      <3>1. j \in 0 .. n /\ j - 1 \in 0 .. n
        BY <1>1
      <3>. QED  BY <1>4, <1>5, <1>8, <2>2, <3>1
    <2>4. W(j + 1)
      BY <1>4, <2>1, <2>2, <2>3
    <2>5. j + 1 \in 1 .. n /\ j + 1 \in 0 .. n /\ j + 1 - 1 = j /\ j + 1 + 1 = j + 2
      BY <1>1, <1>6, <2>4
    <2>6. off[j + 1] = off[j] + 1 /\ At(q, off[j + 1]) = s[j + 1]
      <3>1. off[j + 1] = off[j + 1 - 1] + 1 /\ At(q, off[j + 1]) = s[j + 1]
        BY <1>4, <2>4, <2>5
      <3>. QED  BY <2>5, <3>1
    <2>7. s[j + 1] = b
      BY <1>8, <2>2, <2>6
    <2>8. ~W(j - 1)
      <3>1. off[j - 1] = k - 1
        BY <2>2, <2>3
      <3>. QED  BY <1>4, <1>8, <2>3, <3>1
    <2>9. ~W(j + 2)
      <3>1. off[j + 1] + 1 = k + 2
        BY <2>2, <2>6
      <3>2. At(q, off[j + 1] + 1) \in IdentifierChars <=> W(j + 1 + 1)
        BY <1>4, <2>5
      <3>. QED  BY <1>8, <2>5, <3>1, <3>2
    <2>10. TokenAt(scan, n, s, a, b, j)
      BY <2>2, <2>3, <2>4, <2>7, <2>8, <2>9 DEF TokenAt, W
    <2>. QED  BY <2>10
  <1>9. ASSUME NEW j \in 1 .. n, TokenAt(scan, n, s, a, b, j) PROVE Found(off[j])
    <2>1. W(j) /\ W(j + 1) /\ ~W(j - 1) /\ ~W(j + 2) /\ s[j] = a /\ s[j + 1] = b
      BY <1>9 DEF TokenAt, W
    <2>2. /\ j \in 0 .. n /\ j - 1 \in 0 .. n /\ j + 1 \in 1 .. n /\ j + 1 \in 0 .. n
          /\ j + 1 - 1 = j /\ j + 1 + 1 = j + 2
      BY <1>1, <1>6, <2>1
    <2>3. off[j] = off[j - 1] + 1 /\ At(q, off[j]) = a /\ off[j - 1] \in Nat
      BY <1>4, <1>5, <2>1, <2>2
    <2>4. off[j + 1] = off[j] + 1 /\ At(q, off[j + 1]) = b
      <3>1. off[j + 1] = off[j + 1 - 1] + 1 /\ At(q, off[j + 1]) = s[j + 1]
        BY <1>4, <2>1, <2>2
      <3>. QED  BY <2>1, <2>2, <3>1
    <2>5. At(q, off[j] - 1) \notin IdentifierChars
      <3>1. off[j] - 1 = off[j - 1]
        BY <2>3
      <3>. QED  BY <1>4, <2>1, <2>2, <3>1
    <2>6. At(q, off[j] + 2) \notin IdentifierChars
      <3>1. off[j + 1] + 1 = off[j] + 2
        BY <2>3, <2>4
      <3>2. At(q, off[j + 1] + 1) \in IdentifierChars <=> W(j + 1 + 1)
        BY <1>4, <2>2
      <3>. QED  BY <2>1, <2>2, <3>1, <3>2
    <2>. QED  BY <2>3, <2>4, <2>5, <2>6
  <1>10. \A j \in 1 .. n : off[j] \in Int
    <2>1. \A j \in 1 .. n : j \in 0 .. n
      OBVIOUS
    <2>. QED  BY <1>5, <2>1
  <1> HIDE DEF Found
  <1>. QED  BY <1>7, <1>8, <1>9, <1>10 DEF q, scan, n

LEMMA NamesInText ==
    ASSUME text \in Seq(STRING)
    PROVE  UnquotedNamesAreFound
  <1>1. "v" \in IdentifierChars /\ "c" \in IdentifierChars
    BY DEF IdentifierChars, Letters
  <1>2. ContainsIdentifierToken(Normalised(text), << "v", "c" >>) <=>
          \E j \in 1 .. Len(text) : TokenAt(Scan(text), Len(text), text, "v", "c", j)
    <2> DEFINE T == STRING \cup {" ", "h", "t"}
    <2>1. Spells(T) /\ STRING \subseteq T
      BY DEF Spells
    <2> HIDE DEF T
    <2>2. text \in Seq(T)
      BY <2>1, SeqMonotonic
    <2>. QED  BY <1>1, <2>1, <2>2, TokenIsFound
  <1> DEFINE kinds == {"word", "literal"}
  <1>3. (\E x \in ToSet(Lexemes(text, kinds)) : IsWord(x, << "v", "c" >>)) <=>
          \E j \in 1 .. Len(text) : TokenAt(Scan(text), Len(text), text, "v", "c", j)
    <2>1. "word" \in kinds
      OBVIOUS
    <2> HIDE DEF kinds
    <2>. QED  BY <2>1, TokensAre
  <1>4. (\E x \in References(text) : x.kind = "word") <=>
          \E x \in ToSet(Lexemes(text, kinds)) : IsWord(x, Protected)
    <2>1. \A x : x.kind = "word" => (IsName(x, Protected) <=> IsWord(x, Protected))
      BY DEF IsName
    <2>2. \A x : IsWord(x, Protected) => x.kind = "word"
      BY DEF IsWord
    <2>. QED  BY <2>1, <2>2 DEF References
  <1>. QED  BY <1>2, <1>3, <1>4 DEF UnquotedNamesAreFound, Protected

-----------------------------------------------------------------------------
(* Texts: calls                                                            *)

(* The first byte from i on that is not blanked is c.                      *)
NextIs(scan, n, s, i, c) ==
    \E j \in i .. n : Shown(scan, s, j) /\ s[j] = c /\ \A k \in i .. j - 1 : ~Shown(scan, s, k)

CallAt(scan, n, s, a, b, j) == TokenAt(scan, n, s, a, b, j) /\ NextIs(scan, n, s, j + 2, "(")

LEMMA NextSteps ==
    ASSUME NEW scan, NEW n \in Nat, NEW s, NEW i \in 1 .. n, NEW e \in i .. n, NEW c
    PROVE  /\ Shown(scan, s, i) => (NextIs(scan, n, s, i, c) <=> s[i] = c)
           /\ (\A j \in i .. e : ~Shown(scan, s, j)) =>
                (NextIs(scan, n, s, i, c) <=> NextIs(scan, n, s, e + 1, c))
  <1>1. ASSUME Shown(scan, s, i) PROVE NextIs(scan, n, s, i, c) <=> s[i] = c
    <2>1. ASSUME s[i] = c PROVE NextIs(scan, n, s, i, c)
      <3>1. i \in i .. n /\ \A k \in i .. i - 1 : FALSE
        OBVIOUS
      <3>. QED  BY <1>1, <2>1, <3>1 DEF NextIs
    <2>2. ASSUME NEW j \in i .. n, \A k \in i .. j - 1 : ~Shown(scan, s, k) PROVE j = i
      <3>1. j # i => i \in i .. j - 1
        OBVIOUS
      <3>. QED  BY <1>1, <2>2, <3>1
    <2>. QED  BY <2>1, <2>2 DEF NextIs
  <1>2. ASSUME \A j \in i .. e : ~Shown(scan, s, j)
        PROVE  NextIs(scan, n, s, i, c) <=> NextIs(scan, n, s, e + 1, c)
    <2>1. ASSUME NEW j \in i .. n, Shown(scan, s, j), s[j] = c, \A k \in i .. j - 1 : ~Shown(scan, s, k)
          PROVE  NextIs(scan, n, s, e + 1, c)
      <3>1. j \in e + 1 .. n
        BY <1>2, <2>1
      <3>2. \A k \in e + 1 .. j - 1 : k \in i .. j - 1
        OBVIOUS
      <3>. QED  BY <2>1, <3>1, <3>2 DEF NextIs
    <2>2. ASSUME NEW j \in e + 1 .. n, Shown(scan, s, j), s[j] = c,
                 \A k \in e + 1 .. j - 1 : ~Shown(scan, s, k)
          PROVE  NextIs(scan, n, s, i, c)
      <3>1. j \in i .. n /\ \A k \in i .. j - 1 : k \in i .. e \/ k \in e + 1 .. j - 1
        OBVIOUS
      <3>2. \A k \in i .. j - 1 : ~Shown(scan, s, k)
        BY <1>2, <2>2, <3>1
      <3>. QED  BY <2>2, <3>1, <3>2 DEF NextIs
    <2>. QED  BY <2>1, <2>2 DEF NextIs
  <1>. QED  BY <1>1, <1>2

(* No byte of a character that is not ASCII is left.                       *)
Ascii(scan, n, s, i) == \A j \in i .. n : Shown(scan, s, j) => s[j] \notin {"h", "t"}

LEMMA AsciiIs ==
    ASSUME NEW T, NEW s \in Seq(T),
           \A x \in ToSet(Lexemes(s, {"word", "sign"})) : ~IsSign(x, {"h", "t"})
    PROVE  Ascii(Scan(s), Len(s), s, 1)
  <1> DEFINE n == Len(s)
             scan == Scan(s)
             kinds == {"word", "sign"}
             R == {Lexeme(s, i) : i \in 1 .. n}
             Plain(q) == \A x \in ToSet(q) : ~IsSign(x, {"h", "t"})
  <1>1. n \in Nat /\ DOMAIN s = 1 .. n
    BY LenProperties
  <1>2. Scans(scan, n, s)
    BY <1>1, ScanIs
  <1>3. PICK from : Reads(from, n, s, kinds) /\ Lexemes(s, kinds) = from[1]
    BY <1>1, LexemesAre
  <1>4. \A i \in 1 .. n + 1 : from[i] \in Seq(R)
    BY <1>1, <1>3, LexemesType
  <1> DEFINE holds == {i \in 1 .. n + 1 :
                         BeginsAt(scan, n, s, i) /\ Plain(from[i]) => Ascii(scan, n, s, i)}
  <1> HIDE DEF scan
  <1>5. n + 1 \in holds
    <2>1. n + 1 \in 1 .. n + 1 /\ \A j \in n + 1 .. n : FALSE
      BY <1>1
    <2>. QED  BY <2>1 DEF Ascii
  <1>6. ASSUME NEW i \in 1 .. n, LexEnd(s, i) + 1 \in holds PROVE i \in holds
    <2> DEFINE e == LexEnd(s, i)
               x == Lexeme(s, i)
    <2>1. e \in i .. n
      BY <1>1, LexEndIn
    <2>2. SUFFICES ASSUME BeginsAt(scan, n, s, i), Plain(from[i]) PROVE Ascii(scan, n, s, i)
      OBVIOUS
    <2>3. Lexed(scan, n, s, i)
      BY <1>1, <1>2, <2>2, LexemeIsLexed
    <2>4. from[i] = Joined(s, kinds, i, from[e + 1]) /\ from[e + 1] \in Seq(R)
      <3>1. e + 1 \in 1 .. n + 1
        BY <1>1, <2>1
      <3>. QED  BY <1>3, <1>4, <3>1 DEF Reads
    <2>5. Plain(from[e + 1]) /\ (Kind(s, i) \in kinds => ~IsSign(x, {"h", "t"}))
      <3>1. CASE Kind(s, i) \in kinds
        <4>1. x \in R /\ from[i] = << x >> \o from[e + 1]
          BY <2>4, <3>1 DEF Joined
        <4> HIDE DEF R, e, x, kinds
        <4>2. ToSet(from[i]) = {x} \union ToSet(from[e + 1])
          <5>1. ToSet(<< x >> \o from[e + 1]) = {x} \union ToSet(from[e + 1])
            BY <2>4, <4>1, SetCons
          <5>. QED  BY <4>1, <5>1
        <4>. QED  BY <2>2, <4>2
      <3>2. CASE Kind(s, i) \notin kinds
        <4> HIDE DEF R, e, x, kinds
        <4>. QED  BY <2>2, <2>4, <3>2 DEF Joined
      <3>. QED  BY <3>1, <3>2
    <2>6. Ascii(scan, n, s, e + 1)
      BY <1>6, <2>3, <2>5 DEF Lexed
    <2>7. ASSUME NEW j \in i .. e, Shown(scan, s, j) PROVE s[j] \notin {"h", "t"}
      <3>1. Kind(s, i) \in kinds
        BY <2>3, <2>7 DEF Lexed
      <3>2. CASE Kind(s, i) = "word"
        <4>1. s[j] \in IdentifierChars
          BY <1>1, <3>2, KindIs DEF WordEnds
        <4>. QED  BY <4>1 DEF IdentifierChars, Letters
      <3>3. CASE Kind(s, i) = "sign"
        <4>1. e = i
          BY <1>1, <3>3, KindIs
        <4>2. IsSign(x, {"h", "t"}) <=> Kind(s, i) = "sign" /\ s[i] \in {"h", "t"}
          BY SignIs
        <4>3. j = i
          BY <4>1
        <4> HIDE DEF x
        <4>. QED  BY <2>5, <3>1, <3>3, <4>2, <4>3
      <3>. QED  BY <3>1, <3>2, <3>3
    <2>8. \A j \in i .. n : j \in i .. e \/ j \in e + 1 .. n
      BY <1>1, <2>1
    <2> HIDE DEF e
    <2>. QED  BY <2>6, <2>7, <2>8 DEF Ascii
  <1>7. Reaches(s, n, holds)
    BY <1>5, <1>6 DEF Reaches
  <1>8. 1 \in holds
    <2> HIDE DEF holds
    <2>1. 1 \in 1 .. n + 1
      BY <1>1
    <2>. QED  BY <1>1, <1>7, <2>1, EndsOfText
  <1>9. BeginsAt(scan, n, s, 1)
    BY <1>1, <1>2 DEF BeginsAt, Scans
  <1>10. Plain(from[1])
    BY <1>3
  <1>. QED  BY <1>8, <1>9, <1>10 DEF scan

(* The normalised text has a byte for each: the same one, or a blank.      *)
Keeps(q, scan, n, s) ==
    /\ Len(q) = n
    /\ \A j \in 1 .. n : IF Shown(scan, s, j) THEN q[j] = s[j] ELSE q[j] \in Blanks

LEMMA AsciiKeeps ==
    ASSUME NEW T, Spells(T), NEW s \in Seq(T), Ascii(Scan(s), Len(s), s, 1)
    PROVE  Keeps(Normalised(s), Scan(s), Len(s), s)
  <1> DEFINE n == Len(s)
             scan == Scan(s)
             q == Normalised(s)
             p(j) == Piece(scan, s, j)
  <1>1. n \in Nat /\ \A j \in 1 .. n : s[j] \in T
    BY LenProperties, ElementOfSeq
  <1>2. PICK off : Laid(off, Pieces(scan, s, n), n, q)
    BY NormalisedIs
  <1>3. ASSUME NEW j \in 1 .. n
        PROVE  Len(p(j)) = 1 /\ IF Shown(scan, s, j) THEN p(j)[1] = s[j] ELSE p(j)[1] \in Blanks
    <2>1. /\ ~Shown(scan, s, j) => Len(p(j)) = 1 /\ p(j)[1] \in Blanks
          /\ Shown(scan, s, j) /\ s[j] \notin {"h", "t"} => Len(p(j)) = 1 /\ p(j)[1] = s[j]
      BY <1>1, PieceIs
    <2>2. Shown(scan, s, j) => s[j] \notin {"h", "t"}
      BY DEF Ascii
    <2> HIDE DEF p, scan
    <2>. QED  BY <2>1, <2>2
  <1>4. /\ off[0] = 0 /\ Len(q) = off[n]
        /\ \A j \in 1 .. n : off[j] = off[j - 1] + Len(p(j))
        /\ \A j \in 1 .. n : \A d \in 1 .. Len(p(j)) : q[off[j - 1] + d] = p(j)[d]
    BY <1>2 DEF Laid, Pieces
  <1> HIDE DEF p, q, scan
  <1>5. \A j \in 0 .. n : off[j] = j
    <2> DEFINE Bad == {j \in 0 .. n : off[j] # j}
    <2>1. SUFFICES ASSUME Bad # {} PROVE FALSE
      OBVIOUS
    <2>2. PICK j \in Bad : \A k \in Bad : j <= k
      <3>1. Bad \subseteq Nat
        OBVIOUS
      <3> HIDE DEF Bad
      <3>. QED  BY <2>1, <3>1, Least
    <2>3. j \in 1 .. n /\ off[j] # j
      BY <1>4, <2>2
    <2>4. off[j - 1] = j - 1
      <3>1. j - 1 \in 0 .. n /\ ~(j <= j - 1)
        BY <2>3
      <3>. QED  BY <2>2, <3>1
    <2>5. off[j] = off[j - 1] + 1
      BY <1>3, <1>4, <2>3
    <2>. QED  BY <2>3, <2>4, <2>5
  <1>6. Len(q) = n
    BY <1>1, <1>4, <1>5
  <1>7. ASSUME NEW j \in 1 .. n PROVE q[j] = p(j)[1]
    <2>1. j - 1 \in 0 .. n /\ j - 1 + 1 = j
      BY <1>1
    <2>2. off[j - 1] + 1 = j
      BY <1>5, <2>1
    <2>3. 1 \in 1 .. Len(p(j))
      BY <1>3
    <2>4. q[off[j - 1] + 1] = p(j)[1]
      BY <1>4, <2>3
    <2>. QED  BY <2>2, <2>4
  <1>. QED  BY <1>3, <1>6, <1>7 DEF Keeps, q, scan

(* What is found where the text has kept its places.                       *)
LEMMA CallIsFound ==
    ASSUME NEW T, NEW q \in Seq(T), NEW scan, NEW n \in Nat, NEW s, Keeps(q, scan, n, s),
           Ascii(scan, n, s, 1)
    PROVE  ContainsLoadExtensionCall(q) =
             IF \E j \in 1 .. n : CallAt(scan, n, s, "l", "o", j) THEN "found" ELSE "absent"
  <1> DEFINE size == Len(LoadExtension)
             tried == 1 .. Len(q) - size + 1
             Sign(i) == FirstOf({ j \in i + size .. Len(q) : q[j] \notin Blanks }, 0)
             Called(i) == At(q, Sign(i)) = "("
             calls == { i \in tried : IsToken(q, LoadExtension, i) /\ Called(i) }
             panics == { i \in tried : At(q, i) = "t" \/ At(q, i + size) = "t" }
             W(j) == WordByte(scan, n, s, j)
  <1>1. Len(q) = n /\ \A j \in 1 .. n : IF Shown(scan, s, j) THEN q[j] = s[j] ELSE q[j] \in Blanks
    BY DEF Keeps
  <1>2. size = 2
    BY DEF LoadExtension
  <1>3. \A j \in 1 .. n : q[j] \in Blanks <=> ~Shown(scan, s, j)
    BY <1>1 DEF Shown
  <1>4. \A c \in Blanks : c \notin IdentifierChars /\ c # "t"
    BY DEF Blanks, IdentifierChars, Letters
  <1>5. ASSUME NEW k \in Int PROVE At(q, k) = IF k \in 1 .. n THEN q[k] ELSE "end"
    BY <1>1, AtIs
  <1>6. ASSUME NEW k \in Int PROVE At(q, k) \in IdentifierChars <=> W(k)
    <2>1. "end" \notin IdentifierChars
      BY DEF IdentifierChars, Letters
    <2>. QED  BY <1>1, <1>4, <1>5, <2>1 DEF WordByte
  <1>7. ASSUME NEW k \in Int, W(k) PROVE At(q, k) = s[k]
    BY <1>1, <1>5, <1>7 DEF WordByte
  <1>8. ASSUME NEW k \in Int PROVE At(q, k) # "t"
    <2>1. CASE k \in 1 .. n /\ Shown(scan, s, k)
      BY <1>1, <1>5, <2>1 DEF Ascii
    <2>2. CASE k \in 1 .. n /\ ~Shown(scan, s, k)
      BY <1>1, <1>4, <1>5, <2>2
    <2>3. CASE k \notin 1 .. n
      BY <1>5, <2>3
    <2>. QED  BY <2>1, <2>2, <2>3
  <1>9. panics = {}
    <2>1. \A i \in tried : i \in Int /\ i + size \in Int
      BY <1>1, <1>2
    <2>. QED  BY <1>8, <2>1
  <1> HIDE DEF W
  <1>10. ASSUME NEW i \in Int
         PROVE  i \in tried /\ IsToken(q, LoadExtension, i) <=> TokenAt(scan, n, s, "l", "o", i)
    <2>1. "l" \in IdentifierChars /\ "o" \in IdentifierChars
      BY DEF IdentifierChars, Letters
    <2>2. i \in 1 .. Len(q) - 2 + 1 /\ IsToken(q, << "l", "o" >>, i) <=>
             /\ At(q, i) = "l" /\ At(q, i + 1) = "o"
             /\ At(q, i - 1) \notin IdentifierChars /\ At(q, i + 2) \notin IdentifierChars
      BY <2>1, TokenIs
    <2>3. i + 1 \in Int /\ i - 1 \in Int /\ i + 2 \in Int
      OBVIOUS
    <2>4. At(q, i) = "l" <=> W(i) /\ s[i] = "l"
      BY <1>6, <1>7, <2>1
    <2>5. At(q, i + 1) = "o" <=> W(i + 1) /\ s[i + 1] = "o"
      BY <1>6, <1>7, <2>1, <2>3
    <2>6. At(q, i - 1) \notin IdentifierChars <=> ~W(i - 1)
      BY <1>6, <2>3
    <2>7. At(q, i + 2) \notin IdentifierChars <=> ~W(i + 2)
      BY <1>6, <2>3
    <2>8. TokenAt(scan, n, s, "l", "o", i) <=>
             W(i) /\ W(i + 1) /\ ~W(i - 1) /\ ~W(i + 2) /\ s[i] = "l" /\ s[i + 1] = "o"
      BY DEF TokenAt, W
    <2>9. tried = 1 .. Len(q) - 2 + 1
      BY <1>2
    <2>. QED  BY <2>2, <2>4, <2>5, <2>6, <2>7, <2>8, <2>9 DEF LoadExtension
  <1>11. ASSUME NEW i \in 1 .. n PROVE Called(i) <=> NextIs(scan, n, s, i + 2, "(")
    <2> DEFINE places == { j \in i + size .. Len(q) : q[j] \notin Blanks }
               first == FirstOf(places, 0)
    <2>1. places = { j \in i + 2 .. n : Shown(scan, s, j) }
      <3>1. \A j \in i + 2 .. n : j \in 1 .. n
        OBVIOUS
      <3>. QED  BY <1>1, <1>2, <1>3, <3>1
    <2>2. places \subseteq Nat
      BY <2>1
    <2> HIDE DEF places
    <2>3. \/ places = {} /\ first = 0
          \/ first \in places /\ \A p \in places : first <= p
      BY <2>2, FirstIs
    <2>4. Called(i) <=> At(q, first) = "("
      BY DEF places
    <2> HIDE DEF Sign, first
    <2>5. CASE places = {}
      <3>1. At(q, first) # "("
        <4>1. first = 0
          BY <2>3, <2>5
        <4>. QED  BY <1>5, <4>1
      <3>2. ~NextIs(scan, n, s, i + 2, "(")
        BY <2>1, <2>5 DEF NextIs
      <3>. QED  BY <2>4, <3>1, <3>2
    <2>6. CASE places # {}
      <3>1. first \in i + 2 .. n /\ Shown(scan, s, first) /\ \A p \in places : first <= p
        BY <2>1, <2>3, <2>6
      <3>2. first \in 1 .. n /\ first \in Int
        BY <3>1
      <3>3. At(q, first) = s[first]
        BY <1>1, <1>5, <3>1, <3>2
      <3>4. ASSUME NEW k \in i + 2 .. first - 1 PROVE ~Shown(scan, s, k)
        <4>1. k \in i + 2 .. n /\ ~(first <= k)
          BY <3>1
        <4>. QED  BY <2>1, <3>1, <4>1
      <3>5. ASSUME s[first] = "(" PROVE NextIs(scan, n, s, i + 2, "(")
        BY <3>1, <3>4, <3>5 DEF NextIs
      <3>6. ASSUME NEW j \in i + 2 .. n, Shown(scan, s, j), \A k \in i + 2 .. j - 1 : ~Shown(scan, s, k)
            PROVE  j = first
        <4>1. first <= j
          BY <2>1, <3>1, <3>6
        <4>2. first # j => first \in i + 2 .. j - 1
          BY <3>1, <4>1
        <4>. QED  BY <3>1, <3>6, <4>2
      <3>. QED  BY <2>4, <3>3, <3>5, <3>6 DEF NextIs
    <2>. QED  BY <2>5, <2>6
  <1>12. \A i \in tried : i \in 1 .. n /\ i \in Int
    BY <1>1, <1>2
  <1>13. \A i \in 1 .. n : i \in Int
    OBVIOUS
  <1> HIDE DEF tried, size
  <1>14. calls # {} <=> \E j \in 1 .. n : CallAt(scan, n, s, "l", "o", j)
    <2> HIDE DEF Called
    <2>. QED  BY <1>10, <1>11, <1>12, <1>13 DEF CallAt
  <1>15. ContainsLoadExtensionCall(q) =
           IF \E p \in panics : \A c \in calls : p <= c THEN "panic"
           ELSE IF calls # {} THEN "found" ELSE "absent"
    BY DEF ContainsLoadExtensionCall, tried, size
  <1> HIDE DEF calls, panics
  <1>. QED  BY <1>9, <1>14, <1>15

(* The reference: a name and the sign behind it.                           *)
Called(q, a, b) == \E k \in 1 .. Len(q) - 1 : IsWord(q[k], << a, b >>) /\ IsSign(q[k + 1], {"("})
Heads(q) == Len(q) > 0 /\ IsSign(q[1], {"("})

LEMMA CalledSteps ==
    ASSUME NEW R, NEW x \in R, NEW q \in Seq(R), NEW a, NEW b
    PROVE  /\ Called(<< x >> \o q, a, b) <=> (IsWord(x, << a, b >>) /\ Heads(q)) \/ Called(q, a, b)
           /\ Heads(<< x >> \o q) <=> IsSign(x, {"("})
  <1> DEFINE all == << x >> \o q
             n == Len(q)
             w(y) == IsWord(y, << a, b >>)
             g(y) == IsSign(y, {"("})
  <1>1. n \in Nat
    BY LenProperties
  <1>2. Len(all) = 1 + n /\ all[1] = x /\ \A k \in 1 .. n : all[k + 1] = q[k]
    BY SetCons
  <1> HIDE DEF all, w, g
  <1>3. (\E k \in 1 .. Len(all) - 1 : w(all[k]) /\ g(all[k + 1])) <=>
          (w(x) /\ n > 0 /\ g(q[1])) \/ \E k \in 1 .. n - 1 : w(q[k]) /\ g(q[k + 1])
    <2>1. Len(all) - 1 = n
      BY <1>1, <1>2
    <2>2. ASSUME NEW k \in 1 .. n, w(all[k]), g(all[k + 1])
          PROVE  (w(x) /\ n > 0 /\ g(q[1])) \/ \E l \in 1 .. n - 1 : w(q[l]) /\ g(q[l + 1])
      <3>1. all[k + 1] = q[k]
        BY <1>2
      <3>2. CASE k = 1
        BY <1>2, <2>2, <3>1, <3>2
      <3>3. CASE k # 1
        <4>1. k - 1 \in 1 .. n /\ k - 1 \in 1 .. n - 1 /\ k - 1 + 1 = k
          BY <1>1, <3>3
        <4>2. all[k] = q[k - 1]
          BY <1>2, <4>1
        <4>. QED  BY <2>2, <3>1, <4>1, <4>2
      <3>. QED  BY <3>2, <3>3
    <2>3. ASSUME w(x), n > 0, g(q[1]) PROVE \E k \in 1 .. n : w(all[k]) /\ g(all[k + 1])
      <3>1. 1 \in 1 .. n
        BY <1>1, <2>3
      <3>. QED  BY <1>2, <2>3, <3>1
    <2>4. ASSUME NEW l \in 1 .. n - 1, w(q[l]), g(q[l + 1])
          PROVE  \E k \in 1 .. n : w(all[k]) /\ g(all[k + 1])
      <3>1. l + 1 \in 1 .. n /\ l \in 1 .. n
        BY <1>1
      <3>2. all[l + 1] = q[l] /\ all[l + 1 + 1] = q[l + 1]
        BY <1>2, <3>1
      <3>. QED  BY <2>4, <3>1, <3>2
    <2>. QED  BY <2>1, <2>2, <2>3, <2>4
  <1>4. Called(all, a, b) <=> \E k \in 1 .. Len(all) - 1 : w(all[k]) /\ g(all[k + 1])
    BY DEF Called, w, g
  <1>5. Called(q, a, b) <=> \E k \in 1 .. n - 1 : w(q[k]) /\ g(q[k + 1])
    BY DEF Called, w, g
  <1>6. Heads(q) <=> n > 0 /\ g(q[1])
    BY DEF Heads, g
  <1>7. Heads(all) <=> g(x)
    BY <1>1, <1>2 DEF Heads, g
  <1>. QED  BY <1>3, <1>4, <1>5, <1>6, <1>7 DEF all, w, g

LEMMA CallsAre ==
    ASSUME NEW T, NEW s \in Seq(T), NEW a, NEW b
    PROVE  Called(Lexemes(s, {"word", "sign"}), a, b) <=>
              \E j \in 1 .. Len(s) : CallAt(Scan(s), Len(s), s, a, b, j)
  <1> DEFINE n == Len(s)
             scan == Scan(s)
             kinds == {"word", "sign"}
             R == {Lexeme(s, i) : i \in 1 .. n}
             Follows(i) == \E j \in i .. n : CallAt(scan, n, s, a, b, j)
             Agrees(i, q) == /\ Called(q, a, b) <=> Follows(i)
                             /\ Heads(q) <=> NextIs(scan, n, s, i, "(")
  <1>1. n \in Nat /\ DOMAIN s = 1 .. n
    BY LenProperties
  <1>2. Scans(scan, n, s)
    BY <1>1, ScanIs
  <1>3. PICK from : Reads(from, n, s, kinds) /\ Lexemes(s, kinds) = from[1]
    BY <1>1, LexemesAre
  <1>4. \A i \in 1 .. n + 1 : from[i] \in Seq(R)
    BY <1>1, <1>3, LexemesType
  <1> DEFINE holds == {i \in 1 .. n + 1 :
                         BeginsAt(scan, n, s, i) /\ Fresh(scan, n, s, i) => Agrees(i, from[i])}
  <1> HIDE DEF scan
  <1>5. n + 1 \in holds
    <2>1. from[n + 1] = << >>
      BY <1>3 DEF Reads
    <2>2. ~Called(<< >>, a, b) /\ ~Heads(<< >>)
      BY DEF Called, Heads
    <2>3. ~Follows(n + 1) /\ ~NextIs(scan, n, s, n + 1, "(") /\ n + 1 \in 1 .. n + 1
      BY <1>1 DEF NextIs
    <2> HIDE DEF Follows
    <2>. QED  BY <2>1, <2>2, <2>3
  <1>6. ASSUME NEW i \in 1 .. n, LexEnd(s, i) + 1 \in holds PROVE i \in holds
    <2> DEFINE e == LexEnd(s, i)
               x == Lexeme(s, i)
    <2>1. e \in i .. n
      BY <1>1, LexEndIn
    <2>2. SUFFICES ASSUME BeginsAt(scan, n, s, i), Fresh(scan, n, s, i) PROVE Agrees(i, from[i])
      OBVIOUS
    <2>3. /\ BeginsAt(scan, n, s, e + 1) /\ Fresh(scan, n, s, e + 1)
          /\ \A j \in i .. e : TokenAt(scan, n, s, a, b, j) <=> j = i /\ IsWord(x, << a, b >>)
      BY <1>2, <2>2, WordOfLexeme
    <2>4. Lexed(scan, n, s, i)
      BY <1>1, <1>2, <2>2, LexemeIsLexed
    <2>5. Agrees(e + 1, from[e + 1])
      BY <1>6, <2>3
    <2>6. from[i] = Joined(s, kinds, i, from[e + 1]) /\ from[e + 1] \in Seq(R)
      <3>1. e + 1 \in 1 .. n + 1
        BY <1>1, <2>1
      <3>. QED  BY <1>3, <1>4, <3>1 DEF Reads
    <2>7. \A j \in i .. e : Shown(scan, s, j) <=> Kind(s, i) \in kinds
      BY <2>4 DEF Lexed
    <2>8. IsWord(x, << a, b >>) => e + 1 = i + 2
      <3>1. SUFFICES ASSUME x.of = << a, b >> PROVE e + 1 = i + 2
        BY DEF IsWord
      <3>2. Len(x.of) = e - i + 1
        BY OfIs
      <3>3. Len(<< a, b >>) = 2
        OBVIOUS
      <3>4. e - i + 1 = 2
        BY <3>1, <3>2, <3>3
      <3> HIDE DEF e, x
      <3>. QED  BY <2>1, <3>4
    <2>9. Follows(i) <=> (IsWord(x, << a, b >>) /\ NextIs(scan, n, s, e + 1, "(")) \/ Follows(e + 1)
      <3>1. \A j \in i .. n : j \in i .. e \/ j \in e + 1 .. n
        BY <1>1, <2>1
      <3>2. i \in i .. n /\ i \in i .. e /\ \A j \in e + 1 .. n : j \in i .. n
        BY <1>1, <2>1
      <3> HIDE DEF e, x
      <3>3. ASSUME NEW j \in i .. e
            PROVE  CallAt(scan, n, s, a, b, j) <=>
                     j = i /\ IsWord(x, << a, b >>) /\ NextIs(scan, n, s, e + 1, "(")
        BY <2>3, <2>8 DEF CallAt
      <3>. QED  BY <3>1, <3>2, <3>3
    <2>10. CASE Kind(s, i) \in kinds
      <3>1. x \in R /\ from[i] = << x >> \o from[e + 1]
        BY <2>6, <2>10 DEF Joined
      <3>2. Shown(scan, s, i)
        BY <2>1, <2>7, <2>10
      <3>3. NextIs(scan, n, s, i, "(") <=> s[i] = "("
        BY <1>1, <2>1, <3>2, NextSteps
      <3>4. IsSign(x, {"("}) <=> s[i] = "("
        <4>1. IsSign(x, {"("}) <=> Kind(s, i) = "sign" /\ s[i] \in {"("}
          BY SignIs
        <4>2. Kind(s, i) = "word" => s[i] # "("
          <5>1. Kind(s, i) = "word" <=> s[i] \in IdentifierChars
            BY <1>1, KindIs
          <5>. QED  BY <5>1 DEF IdentifierChars, Letters
        <4> HIDE DEF x
        <4>. QED  BY <2>10, <4>1, <4>2
      <3> HIDE DEF R, x, e, Follows
      <3>5. /\ Called(<< x >> \o from[e + 1], a, b) <=>
                 (IsWord(x, << a, b >>) /\ Heads(from[e + 1])) \/ Called(from[e + 1], a, b)
            /\ Heads(<< x >> \o from[e + 1]) <=> IsSign(x, {"("})
        BY <2>6, <3>1, CalledSteps
      <3>. QED  BY <2>5, <2>9, <3>1, <3>3, <3>4, <3>5
    <2>11. CASE Kind(s, i) \notin kinds
      <3>1. from[i] = from[e + 1]
        BY <2>6, <2>11 DEF Joined
      <3>2. \A j \in i .. e : ~Shown(scan, s, j)
        BY <2>7, <2>11
      <3>3. NextIs(scan, n, s, i, "(") <=> NextIs(scan, n, s, e + 1, "(")
        BY <1>1, <2>1, <3>2, NextSteps
      <3>4. ~IsWord(x, << a, b >>)
        BY <2>11 DEF IsWord, Lexeme
      <3> HIDE DEF x, e, Follows
      <3>. QED  BY <2>5, <2>9, <3>1, <3>3, <3>4
    <2>. QED  BY <2>10, <2>11
  <1>7. Reaches(s, n, holds)
    BY <1>5, <1>6 DEF Reaches
  <1>8. 1 \in holds
    <2> HIDE DEF holds
    <2>1. 1 \in 1 .. n + 1
      BY <1>1
    <2>. QED  BY <1>1, <1>7, <2>1, EndsOfText
  <1>9. BeginsAt(scan, n, s, 1) /\ Fresh(scan, n, s, 1)
    BY <1>1, <1>2 DEF BeginsAt, Scans, Fresh, WordByte
  <1>. QED  BY <1>1, <1>3, <1>8, <1>9 DEF scan

LEMMA CallsInText ==
    ASSUME text \in Seq(STRING)
    PROVE  ScansAnswer
  <1> DEFINE words == Lexemes(text, {"word", "sign"})
             T == STRING \cup {" ", "h", "t"}
             n == Len(text)
             scan == Scan(text)
             q == Normalised(text)
             called == \E k \in 1 .. Len(words) - 1 : IsWord(words[k], LoadExtension) /\ IsSign(words[k + 1], {"("})
  <1>1. SUFFICES ASSUME \A x \in ToSet(words) : ~IsSign(x, {"h", "t"})
                 PROVE  ContainsLoadExtensionCall(q) = IF called THEN "found" ELSE "absent"
    BY DEF ScansAnswer
  <1>2. called <=> Called(words, "l", "o")
    BY DEF Called, LoadExtension
  <1>3. Spells(T) /\ STRING \subseteq T
    BY DEF Spells
  <1> HIDE DEF T, called
  <1>4. text \in Seq(T) /\ n \in Nat
    BY <1>3, SeqMonotonic, LenProperties
  <1>5. Ascii(scan, n, text, 1)
    BY <1>1, AsciiIs
  <1>6. Keeps(q, scan, n, text) /\ q \in Seq(T)
    BY <1>3, <1>4, <1>5, AsciiKeeps, NormalisedIs
  <1>7. Called(words, "l", "o") <=> \E j \in 1 .. n : CallAt(scan, n, text, "l", "o", j)
    BY CallsAre
  <1> HIDE DEF words, scan, q, n
  <1>8. ContainsLoadExtensionCall(q) =
          IF \E j \in 1 .. n : CallAt(scan, n, text, "l", "o", j) THEN "found" ELSE "absent"
    BY <1>4, <1>5, <1>6, CallIsFound
  <1>. QED  BY <1>2, <1>7, <1>8
-----------------------------------------------------------------------------
(* Texts: what is skipped                                                  *)

(* The comment that begins at i is not closed.                             *)
NeverCloses(s, n, i) == \A j \in i + 2 .. n - 1 : ~(s[j] = "*" /\ s[j + 1] = "/")

(* What skip_sql_trivia takes for the end of a block comment.              *)
LEMMA BlockIsSkipped ==
    ASSUME NEW s, NEW n \in Nat, DOMAIN s = 1 .. n, Len(s) = n, NEW i \in 1 .. n,
           AtComment(s, i), s[i] = "/"
    PROVE  IF NeverCloses(s, n, i)
           THEN LexEnd(s, i) = n /\ CommentEnd(s, i) = IF i + 2 <= n THEN n ELSE n + 1
           ELSE CommentEnd(s, i) = LexEnd(s, i) + 1
  <1> DEFINE stars == {k \in i + 2 .. n : << s[k], At(s, k + 1) >> = << "*", "/" >>}
             places == {j + 2 : j \in stars}
             e == LexEnd(s, i)
             end == FirstOf(places, Max({i + 2, n}))
  <1>1. BlockEnds(s, n, i, e) /\ i + 1 \in 1 .. n
    BY BlockShape, AdvanceIs
  <1> HIDE DEF e
  <1>2. CommentEnd(s, i) = end
    <2>1. At(s, i) # "-"
      BY DEF At
    <2>. QED  BY <2>1 DEF CommentEnd
  <1>3. \A k \in i + 2 .. n : k \in stars <=> k \in i + 2 .. n - 1 /\ s[k] = "*" /\ s[k + 1] = "/"
    <2>1. SUFFICES ASSUME NEW k \in i + 2 .. n
                   PROVE  k \in stars <=> k \in i + 2 .. n - 1 /\ s[k] = "*" /\ s[k + 1] = "/"
      OBVIOUS
    <2>2. k \in stars <=> s[k] = "*" /\ At(s, k + 1) = "/"
      OBVIOUS
    <2>3. CASE k = n
      <3>1. k + 1 \notin DOMAIN s
        BY <2>3
      <3>. QED  BY <2>2, <2>3, <3>1 DEF At
    <2>4. CASE k # n
      <3>1. k + 1 \in DOMAIN s /\ k \in i + 2 .. n - 1
        BY <2>4
      <3>. QED  BY <2>2, <3>1 DEF At
    <2>. QED  BY <2>3, <2>4
  <1>4. \A k \in stars : k \in i + 2 .. n
    OBVIOUS
  <1>5. Max({i + 2, n}) = IF i + 2 <= n THEN n ELSE n + 1
    <2>1. Max({i + 2, n}) = IF i + 2 >= n THEN i + 2 ELSE n
      BY MaxTwo
    <2>. QED  BY <1>1, <2>1
  <1>6. \/ places = {} /\ end = Max({i + 2, n})
        \/ end \in places /\ \A p \in places : end <= p
    <2>1. places \subseteq Nat
      OBVIOUS
    <2> HIDE DEF places
    <2>. QED  BY <2>1, FirstIs
  <1> HIDE DEF stars, end
  <1>7. CASE NeverCloses(s, n, i)
    <2>1. stars = {}
      BY <1>3, <1>4, <1>7 DEF NeverCloses
    <2>2. end = Max({i + 2, n})
      BY <1>6, <2>1
    <2>3. e = n
      <3>1. ~(e \in i + 3 .. n /\ s[e - 1] = "*" /\ s[e] = "/")
        <4>1. e \in i + 3 .. n => e - 1 \in i + 2 .. n - 1 /\ e - 1 + 1 = e
          OBVIOUS
        <4>. QED  BY <1>7, <4>1 DEF NeverCloses
      <3>. QED  BY <1>1, <3>1 DEF BlockEnds
    <2>. QED  BY <1>2, <1>5, <1>7, <2>2, <2>3 DEF e
  <1>8. CASE ~NeverCloses(s, n, i)
    <2>1. PICK c \in i + 2 .. n - 1 : s[c] = "*" /\ s[c + 1] = "/"
      BY <1>8 DEF NeverCloses
    <2>2. c \in i + 2 .. n
      OBVIOUS
    <2>3. places # {}
      BY <1>3, <2>1, <2>2
    <2>4. end \in places /\ \A p \in places : end <= p
      BY <1>6, <2>3
    <2>5. e \in i + 3 .. n /\ s[e - 1] = "*" /\ s[e] = "/" /\ \A j \in i + 2 .. e - 2 : ~(s[j] = "*" /\ s[j + 1] = "/")
      BY <1>1, <2>1 DEF BlockEnds
    <2>6. e + 1 \in places
      <3>1. e - 1 \in i + 2 .. n /\ e - 1 \in i + 2 .. n - 1 /\ e - 1 + 1 = e /\ e - 1 + 2 = e + 1
        BY <2>5
      <3>2. e - 1 \in stars
        BY <1>3, <2>5, <3>1
      <3>. QED  BY <3>1, <3>2
    <2>7. PICK k \in stars : end = k + 2
      BY <2>4
    <2>8. k \in i + 2 .. n - 1 /\ s[k] = "*" /\ s[k + 1] = "/"
      BY <1>3, <1>4, <2>7
    <2>9. ~(k <= e - 2)
      <3>1. k <= e - 2 => k \in i + 2 .. e - 2
        BY <2>8
      <3>. QED  BY <2>5, <2>8, <3>1
    <2>10. end <= e + 1
      BY <2>4, <2>6
    <2>11. end = e + 1
      BY <2>5, <2>7, <2>8, <2>9, <2>10
    <2>. QED  BY <1>2, <1>8, <2>11 DEF e
  <1>. QED  BY <1>7, <1>8

(* Where a comment ends as the code sees it, somewhere behind.             *)
LEMMA CommentEndIn ==
    ASSUME NEW s, NEW n \in Nat, DOMAIN s = 1 .. n, Len(s) = n, NEW i \in 1 .. n, AtComment(s, i)
    PROVE  CommentEnd(s, i) \in i + 1 .. n + 1
  <1>1. s[i] \in {"-", "/"} /\ i + 1 \in 1 .. n
    BY AdvanceIs
  <1>2. LexEnd(s, i) \in i .. n
    BY LexEndIn
  <1>3. CASE s[i] = "-"
    <2>1. LexEnd(s, i) + 1 = CommentEnd(s, i)
      BY <1>3, LineShape
    <2>. QED  BY <1>2, <2>1
  <1>4. CASE s[i] = "/"
    <2>1. IF NeverCloses(s, n, i)
          THEN LexEnd(s, i) = n /\ CommentEnd(s, i) = IF i + 2 <= n THEN n ELSE n + 1
          ELSE CommentEnd(s, i) = LexEnd(s, i) + 1
      BY <1>4, BlockIsSkipped
    <2>. QED  BY <1>1, <1>2, <2>1
  <1>. QED  BY <1>1, <1>3, <1>4

(* The value of the recursion at i, from those behind.                     *)
Skip(f, s, i) ==
    IF At(s, i) \in Blanks THEN f[i + 1]
    ELSE IF AtComment(s, i) THEN f[CommentEnd(s, i)]
    ELSE i

LEMMA SkipIs ==
    ASSUME NEW s, NEW n \in Nat, DOMAIN s = 1 .. n, Len(s) = n
    PROVE  /\ SkipTrivia(s, n + 1) = n + 1
           /\ \A i \in 1 .. n :
                SkipTrivia(s, i) = IF s[i] \in Blanks THEN SkipTrivia(s, i + 1)
                                   ELSE IF AtComment(s, i) THEN SkipTrivia(s, CommentEnd(s, i))
                                   ELSE i
  <1> DEFINE Fills(f, m) == f = [i \in m .. n + 1 |-> Skip(f, s, i)]
             Bad == {k \in 0 .. n : ~ \E f : Fills(f, n + 1 - k)}
  <1>1. Skip(<< >>, s, n + 1) = n + 1 /\ \A f : Skip(f, s, n + 1) = n + 1
    <2>1. n + 1 \notin DOMAIN s
      OBVIOUS
    <2>2. At(s, n + 1) = "end"
      BY <2>1 DEF At
    <2>. QED  BY <2>2 DEF Skip, Blanks, AtComment
  <1>2. ASSUME NEW i \in 1 .. n
        PROVE  /\ s[i] \in Blanks => i + 1 \in i + 1 .. n + 1
               /\ AtComment(s, i) => CommentEnd(s, i) \in i + 1 .. n + 1
               /\ At(s, i) = s[i]
    BY CommentEndIn DEF At
  <1>3. \A k \in 0 .. n : \E f : Fills(f, n + 1 - k)
    <2>1. SUFFICES ASSUME Bad # {} PROVE FALSE
      OBVIOUS
    <2>2. PICK k \in Bad : \A j \in Bad : k <= j
      <3>1. Bad \subseteq Nat
        OBVIOUS
      <3> HIDE DEF Bad
      <3>. QED  BY <2>1, <3>1, Least
    <2>3. k \in 0 .. n /\ ~ \E f : Fills(f, n + 1 - k)
      BY <2>2
    <2>4. CASE k = 0
      <3> DEFINE f == [i \in n + 1 .. n + 1 |-> n + 1]
      <3>1. n + 1 - k = n + 1 /\ \A i \in n + 1 .. n + 1 : i = n + 1
        BY <2>4
      <3>2. \A i \in n + 1 .. n + 1 : Skip(f, s, i) = n + 1
        BY <1>1, <3>1
      <3>3. Fills(f, n + 1)
        <4> DEFINE g == f
        <4>1. \A i \in n + 1 .. n + 1 : Skip(g, s, i) = n + 1
          BY <3>2
        <4>2. g = [i \in n + 1 .. n + 1 |-> n + 1]
          OBVIOUS
        <4> HIDE DEF g
        <4>3. g = [i \in n + 1 .. n + 1 |-> Skip(g, s, i)]
          BY <4>1, <4>2
        <4>. QED  BY <4>3 DEF g
      <3>. QED  BY <2>3, <3>1, <3>3
    <2>5. CASE k # 0
      <3> DEFINE m == n + 1 - k
      <3>1. k - 1 \in 0 .. n /\ ~(k <= k - 1) /\ m \in 1 .. n /\ n + 1 - (k - 1) = m + 1
        BY <2>3, <2>5
      <3>2. PICK f : Fills(f, m + 1)
        <4>1. k - 1 \notin Bad
          BY <2>2, <3>1
        <4>2. \E f : Fills(f, n + 1 - (k - 1))
          BY <3>1, <4>1
        <4>. QED  BY <3>1, <4>2
      <3> HIDE DEF m
      <3> DEFINE g == [i \in m .. n + 1 |-> IF i = m THEN Skip(f, s, m) ELSE f[i]]
      <3>3. \A i \in m + 1 .. n + 1 : f[i] = Skip(f, s, i)
        BY <3>2
      <3>4. \A i \in m + 1 .. n + 1 : g[i] = f[i]
        BY <3>1
      <3>5. \A i \in m .. n + 1 : Skip(g, s, i) = Skip(f, s, i)
        <4>1. SUFFICES ASSUME NEW i \in m .. n + 1 PROVE Skip(g, s, i) = Skip(f, s, i)
          OBVIOUS
        <4> HIDE DEF g
        <4>2. CASE i = n + 1
          BY <1>1, <4>2
        <4>3. CASE i # n + 1
          <5>1. i \in 1 .. n /\ \A j \in i + 1 .. n + 1 : j \in m + 1 .. n + 1
            BY <3>1, <4>3
          <5>2. s[i] \in Blanks => g[i + 1] = f[i + 1]
            BY <1>2, <3>4, <5>1
          <5>3. AtComment(s, i) => g[CommentEnd(s, i)] = f[CommentEnd(s, i)]
            BY <1>2, <3>4, <5>1
          <5>4. At(s, i) = s[i]
            BY <1>2, <5>1
          <5>. QED  BY <5>2, <5>3, <5>4 DEF Skip
        <4>. QED  BY <4>2, <4>3
      <3>6. \A i \in m .. n + 1 : g[i] = Skip(f, s, i)
        <4>1. \A i \in m .. n + 1 : i = m \/ i \in m + 1 .. n + 1
          BY <3>1
        <4>2. g[m] = Skip(f, s, m)
          BY <3>1
        <4> HIDE DEF g
        <4>. QED  BY <3>3, <3>4, <4>1, <4>2
      <3>7. g = [i \in m .. n + 1 |-> g[i]]
        OBVIOUS
      <3> HIDE DEF g
      <3>8. Fills(g, m)
        BY <3>5, <3>6, <3>7
      <3>. QED  BY <2>3, <3>8 DEF m
    <2>. QED  BY <2>4, <2>5
  <1>4. \E f : Fills(f, 1)
    <2>1. n \in 0 .. n /\ n + 1 - n = 1
      OBVIOUS
    <2>. QED  BY <1>3, <2>1
  <1> DEFINE skip == CHOOSE f : Fills(f, 1)
  <1>5. \A i : SkipTrivia(s, i) = IF i > n THEN i ELSE skip[i]
    BY DEF SkipTrivia, Skip
  <1>6. Fills(skip, 1)
    BY <1>4
  <1> HIDE DEF skip
  <1>7. \A i \in 1 .. n + 1 : skip[i] = Skip(skip, s, i)
    BY <1>6
  <1>8. \A i \in 1 .. n + 1 : SkipTrivia(s, i) = skip[i]
    <2>1. skip[n + 1] = n + 1
      <3>1. n + 1 \in 1 .. n + 1
        OBVIOUS
      <3>. QED  BY <1>1, <1>7, <3>1
    <2>2. \A i \in 1 .. n + 1 : i > n <=> i = n + 1
      OBVIOUS
    <2>. QED  BY <1>5, <2>1, <2>2
  <1>9. SkipTrivia(s, n + 1) = n + 1
    <2>1. n + 1 > n
      OBVIOUS
    <2>. QED  BY <1>5, <2>1
  <1>10. ASSUME NEW i \in 1 .. n
         PROVE  SkipTrivia(s, i) = IF s[i] \in Blanks THEN SkipTrivia(s, i + 1)
                                   ELSE IF AtComment(s, i) THEN SkipTrivia(s, CommentEnd(s, i))
                                   ELSE i
    <2>1. i \in 1 .. n + 1 /\ \A j \in i + 1 .. n + 1 : j \in 1 .. n + 1
      OBVIOUS
    <2>2. SkipTrivia(s, i) = Skip(skip, s, i)
      BY <1>7, <1>8, <2>1
    <2>3. s[i] \in Blanks => SkipTrivia(s, i + 1) = skip[i + 1]
      BY <1>2, <1>8, <2>1
    <2>4. AtComment(s, i) => SkipTrivia(s, CommentEnd(s, i)) = skip[CommentEnd(s, i)]
      BY <1>2, <1>8, <2>1
    <2>. QED  BY <1>2, <2>2, <2>3, <2>4 DEF Skip
  <1>. QED  BY <1>9, <1>10

-----------------------------------------------------------------------------
(* Texts: what a statement is                                              *)

Words == {"word", "literal", "sign"}

HasOpen(comments) == \E x \in ToSet(comments) : IsOpen(x)

(* A comment that does not close is open to the reference too.             *)
LEMMA StaysOpenIs ==
    ASSUME NEW T, NEW s \in Seq(T), NEW n, n = Len(s), NEW i \in 1 .. n, AtComment(s, i), s[i] = "/",
           NeverCloses(s, n, i), LexEnd(s, i) = n
    PROVE  IsOpen(Lexeme(s, i))
  <1> DEFINE of == Lexeme(s, i).of
             m == Len(of)
  <1>1. of \in Seq(T) /\ m = n - i + 1 /\ (\A k \in 1 .. m : of[k] = s[i + k - 1]) /\ of[1] = s[i]
    <2>1. /\ of \in Seq(T) /\ Len(of) = LexEnd(s, i) - i + 1
          /\ \A k \in 1 .. Len(of) : of[k] = s[i + k - 1]
          /\ of[1] = s[i]
      BY OfIs
    <2> HIDE DEF of
    <2>. QED  BY <2>1
  <1>2. n \in Nat
    BY LenProperties
  <1> HIDE DEF of
  <1>3. ASSUME m >= 4 PROVE SubSeq(of, m - 1, m) # << "*", "/" >>
    <2> DEFINE q == SubSeq(of, m - 1, m)
    <2>1. q \in Seq(T) /\ Len(q) = 2 /\ q[1] = of[m - 1] /\ q[2] = of[m]
      <3>1. m - 1 \in 1 .. m /\ m \in 1 .. m + 1 /\ m - (m - 1) + 1 = 2 /\ m - 1 + 1 - 1 = m - 1 /\ m - 1 + 2 - 1 = m
        BY <1>1, <1>2, <1>3
      <3>2. Len(q) = 2
        BY <1>1, <3>1
      <3>. QED  BY <1>1, <3>1, <3>2
    <2>2. of[m - 1] = s[n - 1] /\ of[m] = s[n]
      <3>1. m - 1 \in 1 .. m /\ m \in 1 .. m /\ i + (m - 1) - 1 = n - 1 /\ i + m - 1 = n
        BY <1>1, <1>2, <1>3
      <3>. QED  BY <1>1, <3>1
    <2>3. ~(s[n - 1] = "*" /\ s[n] = "/")
      <3>1. n - 1 \in i + 2 .. n - 1 /\ n - 1 + 1 = n
        BY <1>1, <1>2, <1>3
      <3>. QED  BY <3>1 DEF NeverCloses
    <2> HIDE DEF q
    <2>4. q = << "*", "/" >> <=> Len(q) = 2 /\ q[1] = "*" /\ q[2] = "/"
      BY <2>1, PairIs
    <2>. QED  BY <2>1, <2>2, <2>3, <2>4 DEF q
  <1>4. m < 4 \/ m >= 4
    BY <1>1, <1>2
  <1>. QED  BY <1>1, <1>3, <1>4 DEF IsOpen, of

(* What is skipped from i on: up to the next lexeme that is no comment,    *)
(* or to the end, or into the last byte of a comment that stays open.      *)
Skipped(from, comments, n, s, i) ==
    LET k == SkipTrivia(s, i)
    IN \/ k = n + 1 /\ from[i] = << >>
       \/ /\ k \in 1 .. n /\ Kind(s, k) \in Words
          /\ from[i] = << Lexeme(s, k) >> \o from[LexEnd(s, k) + 1]
          /\ HasOpen(comments[LexEnd(s, k) + 1]) => HasOpen(comments[i])
       \/ k \in {n, n + 1} \ {0} /\ from[i] = << >> /\ HasOpen(comments[i])

LEMMA SkippedIs ==
    ASSUME NEW T, NEW s \in Seq(T), NEW n, n = Len(s), NEW from, Reads(from, n, s, Words),
           NEW comments, Reads(comments, n, s, {"comment"})
    PROVE  \A i \in 1 .. n + 1 : Skipped(from, comments, n, s, i)
  <1> DEFINE R == {Lexeme(s, j) : j \in 1 .. n}
             holds == {i \in 1 .. n + 1 : Skipped(from, comments, n, s, i)}
  <1>1. n \in Nat /\ DOMAIN s = 1 .. n
    BY LenProperties
  <1>2. \A i \in 1 .. n + 1 : comments[i] \in Seq(R)
    BY <1>1, LexemesType
  <1>3. n + 1 \in holds
    <2>1. SkipTrivia(s, n + 1) = n + 1 /\ from[n + 1] = << >> /\ n + 1 \in 1 .. n + 1
      BY <1>1, SkipIs DEF Reads
    <2>. QED  BY <2>1 DEF Skipped
  <1>4. ASSUME NEW i \in 1 .. n, LexEnd(s, i) + 1 \in holds PROVE i \in holds
    <2> DEFINE e == LexEnd(s, i)
               x == Lexeme(s, i)
    <2>1. e \in i .. n /\ e + 1 \in 1 .. n + 1 /\ i \in 1 .. n + 1
      <3>1. e \in i .. n
        BY <1>1, LexEndIn
      <3> HIDE DEF e
      <3>. QED  BY <1>1, <3>1
    <2>2. Skipped(from, comments, n, s, e + 1)
      BY <1>4
    <2>3. SkipTrivia(s, i) = IF s[i] \in Blanks THEN SkipTrivia(s, i + 1)
                             ELSE IF AtComment(s, i) THEN SkipTrivia(s, CommentEnd(s, i)) ELSE i
      BY <1>1, SkipIs
    <2>4. /\ from[i] = Joined(s, Words, i, from[e + 1])
          /\ comments[i] = Joined(s, {"comment"}, i, comments[e + 1])
      BY DEF Reads
    <2>5. /\ Kind(s, i) = "comment" <=> AtComment(s, i)
          /\ Kind(s, i) \in {"literal", "comment", "blank", "word", "sign"}
          /\ Kind(s, i) \in Words => s[i] \notin Blanks
          /\ Kind(s, i) = "blank" => s[i] \in Blanks /\ e = i
      <3>1. /\ Kind(s, i) = "comment" <=> AtComment(s, i)
            /\ Kind(s, i) \in {"literal", "comment", "blank", "word", "sign"}
            /\ Kind(s, i) = "sign" => s[i] \notin Blanks
            /\ Kind(s, i) = "word" <=> s[i] \in IdentifierChars
            /\ Kind(s, i) = "literal" <=> Opened(s[i]) # "Normal"
        BY <1>1, KindIs
      <3>2. s[i] \in Blanks => Opened(s[i]) = "Normal"
        BY OpenedIs
      <3>3. s[i] \in IdentifierChars => s[i] \notin Blanks
        BY OpenedIs DEF Blanks
      <3>4. Kind(s, i) = "blank" => s[i] \in Blanks /\ e = i
        <4>1. SUFFICES ASSUME Kind(s, i) = "blank" PROVE s[i] \in Blanks /\ e = i
          OBVIOUS
        <4>2. Opened(s[i]) = "Normal" /\ ~AtComment(s, i) /\ s[i] \notin IdentifierChars
          BY <3>1, <4>1
        <4>3. Kind(s, i) = (IF s[i] \in Blanks THEN "blank" ELSE "sign") /\ e = i
          BY <4>2, ByteShape
        <4>. QED  BY <4>1, <4>3
      <3> HIDE DEF e, x
      <3>. QED  BY <3>1, <3>2, <3>3, <3>4 DEF Words
    <2> HIDE DEF e, x
    <2>6. CASE Kind(s, i) \in Words
      <3>1. SkipTrivia(s, i) = i
        BY <2>3, <2>5, <2>6 DEF Words
      <3>2. from[i] = << Lexeme(s, i) >> \o from[e + 1] /\ comments[i] = comments[e + 1]
        BY <2>4, <2>6 DEF Joined, Words
      <3>3. Skipped(from, comments, n, s, i)
        BY <2>6, <3>1, <3>2 DEF Skipped, e
      <3>. QED  BY <2>1, <3>3
    <2>7. CASE Kind(s, i) = "blank"
      <3>1. SkipTrivia(s, i) = SkipTrivia(s, e + 1)
        BY <2>3, <2>5, <2>7
      <3>2. from[i] = from[e + 1] /\ comments[i] = comments[e + 1]
        BY <2>4, <2>7 DEF Joined, Words
      <3>3. Skipped(from, comments, n, s, i)
        BY <2>2, <3>1, <3>2 DEF Skipped
      <3>. QED  BY <2>1, <3>3
    <2>8. CASE Kind(s, i) = "comment"
      <3>1. AtComment(s, i) /\ s[i] \in {"-", "/"} /\ i + 1 \in 1 .. n
        BY <1>1, <2>5, <2>8, AdvanceIs
      <3>2. SkipTrivia(s, i) = SkipTrivia(s, CommentEnd(s, i))
        BY <2>3, <3>1 DEF Blanks
      <3>3. from[i] = from[e + 1] /\ comments[i] = << x >> \o comments[e + 1]
        BY <2>4, <2>8 DEF Joined, Words, x
      <3>4. ToSet(comments[i]) = {x} \union ToSet(comments[e + 1])
        <4>1. x \in R /\ comments[e + 1] \in Seq(R)
          BY <1>2, <2>1 DEF x
        <4> HIDE DEF R
        <4>. QED  BY <3>3, <4>1, SetCons
      <3>5. CASE CommentEnd(s, i) = e + 1
        <4>1. HasOpen(comments[e + 1]) => HasOpen(comments[i])
          BY <3>4 DEF HasOpen
        <4>2. Skipped(from, comments, n, s, i)
          BY <2>2, <3>2, <3>3, <3>5, <4>1 DEF Skipped
        <4>. QED  BY <2>1, <4>2
      <3>6. CASE s[i] = "/" /\ NeverCloses(s, n, i) /\ e = n /\ CommentEnd(s, i) \in {n, n + 1}
        <4>1. IsOpen(x)
          BY <1>1, <3>1, <3>6, StaysOpenIs DEF e, x
        <4>2. HasOpen(comments[i])
          BY <3>4, <4>1 DEF HasOpen
        <4>3. from[i] = << >>
          BY <3>3, <3>6 DEF Reads
        <4>4. SkipTrivia(s, n + 1) = n + 1 /\ SkipTrivia(s, n) \in {n, n + 1}
          <5>1. /\ SkipTrivia(s, n + 1) = n + 1
                /\ SkipTrivia(s, n) = IF s[n] \in Blanks THEN SkipTrivia(s, n + 1)
                                      ELSE IF AtComment(s, n) THEN SkipTrivia(s, CommentEnd(s, n)) ELSE n
            <6>1. n \in 1 .. n
              BY <1>1
            <6>. QED  BY <1>1, <6>1, SkipIs
          <5>2. ~AtComment(s, n)
            <6>1. n \in 1 .. n /\ n + 1 \notin 1 .. n
              BY <1>1
            <6>. QED  BY <1>1, <6>1, AdvanceIs
          <5>. QED  BY <5>1, <5>2
        <4>5. SkipTrivia(s, i) \in {n, n + 1} \ {0}
          BY <1>1, <3>2, <3>6, <4>4
        <4>6. Skipped(from, comments, n, s, i)
          BY <1>1, <4>2, <4>3, <4>5 DEF Skipped
        <4>. QED  BY <2>1, <4>6
      <3>7. s[i] = "-" => CommentEnd(s, i) = e + 1
        BY <1>1, <3>1, LineShape DEF e
      <3>8. s[i] = "/" => \/ NeverCloses(s, n, i) /\ e = n /\ CommentEnd(s, i) \in {n, n + 1}
                          \/ CommentEnd(s, i) = e + 1
        BY <1>1, <3>1, BlockIsSkipped DEF e
      <3>. QED  BY <3>1, <3>5, <3>6, <3>7, <3>8
    <2>. QED  BY <2>5, <2>6, <2>7, <2>8 DEF Words
  <1>5. Reaches(s, n, holds)
    BY <1>3, <1>4 DEF Reaches
  <1> HIDE DEF holds
  <1>6. \A i \in 1 .. n + 1 : i \in holds
    BY <1>1, <1>5, EndsOfText
  <1>. QED  BY <1>6 DEF holds

(* The value of the search for the closing quote at j, from those behind.  *)
CloseTurn(f, s, closing, j) ==
    IF j > Len(s) THEN j
    ELSE IF s[j] # closing THEN f[j + 1]
    ELSE IF closing # "]" /\ At(s, j + 1) = closing THEN f[j + 2]
    ELSE j

Closing(close, s, closing, k, n) == close = [j \in k + 1 .. n + 1 |-> CloseTurn(close, s, closing, j)]

LEMMA TurnLooksBehind ==
    ASSUME NEW s, NEW n \in Nat, DOMAIN s = 1 .. n, Len(s) = n, NEW closing, closing # "end",
           NEW j \in Nat, NEW f, NEW g, \A i \in j + 1 .. n + 1 : f[i] = g[i]
    PROVE  CloseTurn(f, s, closing, j) = CloseTurn(g, s, closing, j)
  <1>1. CASE j > n
    BY <1>1 DEF CloseTurn
  <1>2. CASE j <= n
    <2>1. f[j + 1] = g[j + 1]
      BY <1>2
    <2>2. At(s, j + 1) = closing => f[j + 2] = g[j + 2]
      <3>1. SUFFICES ASSUME At(s, j + 1) = closing PROVE j + 2 \in j + 1 .. n + 1
        OBVIOUS
      <3>2. j + 1 \in DOMAIN s
        BY <3>1 DEF At
      <3>. QED  BY <3>2
    <2>. QED  BY <2>1, <2>2 DEF CloseTurn
  <1>. QED  BY <1>1, <1>2

LEMMA ClosingIs ==
    ASSUME NEW s, NEW n \in Nat, DOMAIN s = 1 .. n, Len(s) = n, NEW k \in 1 .. n, NEW closing, closing # "end"
    PROVE  \E close : Closing(close, s, closing, k, n)
  <1> DEFINE Fills(f, m) == f = [j \in m .. n + 1 |-> CloseTurn(f, s, closing, j)]
             Bad == {d \in 0 .. n - k : ~ \E f : Fills(f, n + 1 - d)}
  <1>1. \A d \in 0 .. n - k : \E f : Fills(f, n + 1 - d)
    <2>1. SUFFICES ASSUME Bad # {} PROVE FALSE
      OBVIOUS
    <2>2. PICK d \in Bad : \A c \in Bad : d <= c
      <3>1. Bad \subseteq Nat
        OBVIOUS
      <3> HIDE DEF Bad
      <3>. QED  BY <2>1, <3>1, Least
    <2>3. d \in 0 .. n - k /\ ~ \E f : Fills(f, n + 1 - d)
      BY <2>2
    <2> DEFINE m == n + 1 - d
    <2>4. m \in 1 .. n + 1
      BY <2>3
    <2>5. \E f : f = [j \in m + 1 .. n + 1 |-> CloseTurn(f, s, closing, j)]
      <3>1. CASE d = 0
        <4> DEFINE f == [j \in m + 1 .. n + 1 |-> 0]
        <4>1. \A j \in m + 1 .. n + 1 : FALSE
          BY <3>1
        <4>2. f = [j \in m + 1 .. n + 1 |-> CloseTurn(f, s, closing, j)]
          BY <4>1
        <4>. QED  BY <4>2
      <3>2. CASE d # 0
        <4>1. d - 1 \in 0 .. n - k /\ ~(d <= d - 1) /\ n + 1 - (d - 1) = m + 1
          BY <2>3, <3>2
        <4>2. d - 1 \notin Bad
          BY <2>2, <4>1
        <4>3. \E f : Fills(f, n + 1 - (d - 1))
          BY <4>1, <4>2
        <4>. QED  BY <4>1, <4>3
      <3>. QED  BY <3>1, <3>2
    <2>6. PICK f : f = [j \in m + 1 .. n + 1 |-> CloseTurn(f, s, closing, j)]
      BY <2>5
    <2> HIDE DEF m
    <2> DEFINE g == [j \in m .. n + 1 |-> IF j = m THEN CloseTurn(f, s, closing, m) ELSE f[j]]
    <2>7. \A j \in m + 1 .. n + 1 : f[j] = CloseTurn(f, s, closing, j)
      BY <2>6
    <2>8. \A j \in m + 1 .. n + 1 : f[j] = g[j]
      BY <2>4
    <2>9. g[m] = CloseTurn(f, s, closing, m)
      BY <2>4
    <2>10. g = [j \in m .. n + 1 |-> g[j]]
      OBVIOUS
    <2> HIDE DEF g
    <2>11. ASSUME NEW j \in m .. n + 1 PROVE g[j] = CloseTurn(g, s, closing, j)
      <3>1. \A i \in j + 1 .. n + 1 : f[i] = g[i]
        <4>1. \A i \in j + 1 .. n + 1 : i \in m + 1 .. n + 1
          BY <2>4
        <4>. QED  BY <2>8, <4>1
      <3>2. j \in Nat
        BY <2>4
      <3>3. CloseTurn(f, s, closing, j) = CloseTurn(g, s, closing, j)
        BY <3>1, <3>2, TurnLooksBehind
      <3>4. g[j] = CloseTurn(f, s, closing, j)
        <4>1. j = m \/ j \in m + 1 .. n + 1
          BY <2>4
        <4>. QED  BY <2>7, <2>8, <2>9, <4>1
      <3>. QED  BY <3>3, <3>4
    <2>12. Fills(g, m)
      BY <2>10, <2>11
    <2>. QED  BY <2>3, <2>12 DEF m
  <1>2. \E f : Fills(f, k + 1)
    <2>1. n - k \in 0 .. n - k /\ n + 1 - (n - k) = k + 1
      OBVIOUS
    <2>2. \E f : Fills(f, n + 1 - (n - k))
      BY <1>1, <2>1
    <2>. QED  BY <2>1, <2>2
  <1>. QED  BY <1>2 DEF Closing

(* The literal that begins at k and ends at e has its closing quote.       *)
Closed(s, k, e) == e # k /\ Closes(s, k, e)

ClosingByte(s, k) == IF s[k] = "[" THEN "]" ELSE s[k]

(* The search gets to the quote that closes the literal: the one that is   *)
(* not doubled, with which the quotes are even in number.                  *)
LEMMA ClosingFinds ==
    ASSUME NEW s, NEW n \in Nat, DOMAIN s = 1 .. n, Len(s) = n, NEW k \in 1 .. n, Opened(s[k]) # "Normal",
           NEW e, LiteralEnds(s, n, k, e), NEW close, Closing(close, s, ClosingByte(s, k), k, n)
    PROVE  close[k + 1] = IF Closed(s, k, e) THEN e ELSE n + 1
  <1> DEFINE closing == ClosingByte(s, k)
             target == IF Closed(s, k, e) THEN e ELSE n + 1
             Odd(j) == Cardinality(Quotes(s, k, j)) % 2 = 1
             Inside(j) == IF s[k] = "[" THEN j = e + 1 => ~Closed(s, k, e) ELSE Odd(j - 1)
             Bad == {d \in 0 .. e - k : Inside(e + 1 - d) /\ close[e + 1 - d] # target}
  <1>0. e \in k .. n /\ (e # n => Closed(s, k, e)) /\ closing # "end"
    <2>1. e \in k .. n /\ (e # n => Closed(s, k, e))
      BY DEF LiteralEnds, Closed
    <2>2. closing # "end"
      BY DEF Opened, ClosingByte
    <2>. QED  BY <2>1, <2>2
  <1>1. \A j \in k + 1 .. n + 1 : close[j] = CloseTurn(close, s, closing, j)
    BY DEF Closing
  <1>2. ASSUME NEW j \in k + 1 .. e
        PROVE  /\ Cardinality(Quotes(s, k, j - 1)) \in Nat
               /\ Cardinality(Quotes(s, k, j)) = Cardinality(Quotes(s, k, j - 1)) + IF s[j] = s[k] THEN 1 ELSE 0
    <2>1. j - 1 \in Nat /\ k \in Nat /\ k <= j - 1 /\ j - 1 + 1 = j
      BY <1>0
    <2>2. /\ Cardinality(Quotes(s, k, j - 1)) \in Nat
          /\ Cardinality(Quotes(s, k, j - 1 + 1)) =
               Cardinality(Quotes(s, k, j - 1)) + IF s[j - 1 + 1] = s[k] THEN 1 ELSE 0
      BY ONLY <2>1, QuotesAre
    <2>. QED  BY <2>1, <2>2
  <1>3. ASSUME NEW j \in k + 1 .. e
        PROVE  /\ s[j] # s[k] => (Odd(j) <=> Odd(j - 1))
               /\ s[j] = s[k] => (Odd(j) <=> ~Odd(j - 1))
               /\ s[k] # "[" => (Closes(s, k, j) <=> s[j] = s[k] /\ At(s, j + 1) # s[k] /\ ~Odd(j))
               /\ s[k] = "[" => (Closes(s, k, j) <=> s[j] = "]")
    <2> DEFINE past == Cardinality(Quotes(s, k, j - 1))
               now == Cardinality(Quotes(s, k, j))
    <2>1. past \in Nat /\ now = past + IF s[j] = s[k] THEN 1 ELSE 0
      BY <1>2
    <2>2. now % 2 = 0 <=> ~(now % 2 = 1)
      <3>1. now \in Nat
        BY <2>1
      <3> HIDE DEF now
      <3>. QED  BY <3>1
    <2>3. s[j] # s[k] => (Odd(j) <=> Odd(j - 1))
      BY <2>1
    <2>4. s[j] = s[k] => (Odd(j) <=> ~Odd(j - 1))
      <3>1. SUFFICES ASSUME s[j] = s[k] PROVE now % 2 = 1 <=> ~(past % 2 = 1)
        OBVIOUS
      <3>2. now = past + 1 /\ past \in Nat
        BY <2>1, <3>1
      <3> HIDE DEF now, past
      <3>. QED  BY <3>2
    <2>5. s[k] # "[" => (Closes(s, k, j) <=> s[j] = s[k] /\ At(s, j + 1) # s[k] /\ ~Odd(j))
      BY <2>2 DEF Closes
    <2>6. s[k] = "[" => (Closes(s, k, j) <=> s[j] = "]")
      BY DEF Closes
    <2>. QED  BY <2>3, <2>4, <2>5, <2>6
  <1>4. closing = (IF s[k] = "[" THEN "]" ELSE s[k]) /\ (s[k] # "[" => s[k] # "]")
    BY DEF Opened, ClosingByte
  <1>5. \A d \in 0 .. e - k : Inside(e + 1 - d) => close[e + 1 - d] = target
    <2>1. SUFFICES ASSUME Bad # {} PROVE FALSE
      OBVIOUS
    <2>2. PICK d \in Bad : \A c \in Bad : d <= c
      <3>1. Bad \subseteq Nat
        BY <1>0
      <3> HIDE DEF Bad
      <3>. QED  BY <2>1, <3>1, Least
    <2> DEFINE j == e + 1 - d
    <2>3. d \in 0 .. e - k /\ Inside(j) /\ close[j] # target
      BY <2>2
    <2>4. j \in k + 1 .. e + 1 /\ j \in k + 1 .. n + 1
      BY <1>0, <2>3
    <2>5. \A i \in j + 1 .. e + 1 : Inside(i) => close[i] = target
      <3>1. SUFFICES ASSUME NEW i \in j + 1 .. e + 1, Inside(i) PROVE close[i] = target
        OBVIOUS
      <3>2. e + 1 - i \in 0 .. e - k /\ ~(d <= e + 1 - i) /\ e + 1 - (e + 1 - i) = i
        BY <1>0, <2>3, <2>4
      <3>3. e + 1 - i \notin Bad
        BY <2>2, <3>2
      <3> HIDE DEF Inside, target
      <3>. QED  BY <3>1, <3>2, <3>3
    <2> HIDE DEF j, Bad, target, closing
    <2>6. close[j] = CloseTurn(close, s, closing, j)
      BY <1>1, <2>4
    <2>7. ~Closed(s, k, e) => e = n /\ target = n + 1
      BY <1>0 DEF target
    <2>8. Closed(s, k, e) => target = e
      BY DEF target
    <2>9. close[n + 1] = n + 1
      <3>1. n + 1 \in k + 1 .. n + 1 /\ n + 1 > n
        BY <2>4
      <3>2. close[n + 1] = CloseTurn(close, s, closing, n + 1)
        BY <1>1, <3>1
      <3>. QED  BY <3>1, <3>2 DEF CloseTurn
    <2>10. CASE j = e + 1
      <3>1. ~Closed(s, k, e)
        <4>1. SUFFICES ASSUME Closed(s, k, e), s[k] # "[" PROVE FALSE
          BY <2>3, <2>10
        <4>2. e \in k + 1 .. e /\ Closes(s, k, e) /\ e + 1 - 1 = e
          BY <1>0, <4>1 DEF Closed
        <4>3. ~Odd(e)
          BY <1>3, <4>1, <4>2
        <4>. QED  BY <2>3, <2>10, <4>1, <4>2, <4>3
      <3>. QED  BY <2>3, <2>7, <2>9, <2>10, <3>1
    <2>11. CASE j \in k + 1 .. e
      <3>0. /\ j \in 1 .. n /\ ~(j > Len(s)) /\ j + 1 \in j + 1 .. e + 1 /\ j + 1 - 1 = j
            /\ (j # e => j \in k + 1 .. e - 1) /\ j # e + 1 /\ (j + 1 = e + 1 => j = e)
        BY <1>0, <2>11
      <3>1. close[j] = IF s[j] # closing THEN close[j + 1]
                       ELSE IF closing # "]" /\ At(s, j + 1) = closing THEN close[j + 2] ELSE j
        BY <2>6, <3>0 DEF CloseTurn
      <3>2. Closes(s, k, j) => j = e /\ Closed(s, k, e)
        <4>1. Closes(s, k, j) => j = e
          BY <3>0 DEF LiteralEnds
        <4>. QED  BY <1>0, <2>11, <4>1 DEF Closed
      <3>3. s[k] # "[" => Odd(j - 1)
        BY <2>3
      <3>4. CASE s[j] # closing
        <4>1. Inside(j + 1)
          <5>1. CASE s[k] = "["
            <6>1. ~Closes(s, k, j)
              BY <1>3, <1>4, <2>11, <3>4, <5>1
            <6>2. j = e => ~Closed(s, k, e)
              BY <6>1 DEF Closed
            <6>. QED  BY <3>0, <5>1, <6>2
          <5>2. CASE s[k] # "["
            <6>1. Odd(j)
              BY <1>3, <1>4, <2>11, <3>3, <3>4, <5>2
            <6> HIDE DEF Odd
            <6>. QED  BY <3>0, <5>2, <6>1
          <5>. QED  BY <5>1, <5>2
        <4> HIDE DEF Inside
        <4>. QED  BY <2>3, <2>5, <3>0, <3>1, <3>4, <4>1
      <3>5. CASE s[j] = closing /\ s[k] = "["
        <4>1. Closes(s, k, j)
          BY <1>3, <1>4, <2>11, <3>5
        <4>2. close[j] = j
          BY <1>4, <3>1, <3>5
        <4>. QED  BY <2>3, <2>8, <3>2, <4>1, <4>2
      <3>6. CASE s[j] = closing /\ s[k] # "["
        <4>1. closing = s[k] /\ closing # "]" /\ s[j] = s[k]
          BY <1>4, <3>6
        <4>2. ~Odd(j)
          BY <1>3, <2>11, <3>3, <3>6, <4>1
        <4>3. CASE At(s, j + 1) = closing
          <5>1. j + 1 \in 1 .. n /\ s[j + 1] = s[k]
            <6>1. j + 1 \in DOMAIN s
              BY <1>0, <4>3 DEF At
            <6>. QED  BY <4>1, <4>3, <6>1 DEF At
          <5>2. ~Closes(s, k, j)
            BY <1>3, <2>11, <3>6, <4>1, <4>3
          <5>3. j # e
            <6>1. SUFFICES ASSUME j = e PROVE FALSE
              OBVIOUS
            <6>2. ~Closed(s, k, e)
              BY <5>2, <6>1 DEF Closed
            <6>. QED  BY <2>7, <5>1, <6>1, <6>2
          <5> DEFINE i == j + 1
          <5>4. i \in k + 1 .. e /\ i - 1 = j /\ i + 1 = j + 2 /\ i + 1 - 1 = i /\ i + 1 \in j + 1 .. e + 1
            BY <1>0, <2>11, <5>1, <5>3
          <5>5. s[i] = s[k]
            BY <5>1
          <5> HIDE DEF i
          <5>6. Odd(i)
            <6>1. s[i] = s[k] => (Odd(i) <=> ~Odd(i - 1))
              BY <1>3, <5>4
            <6>. QED  BY <4>2, <5>4, <5>5, <6>1
          <5>7. Inside(i + 1)
            <6>1. s[k] # "["
              BY <3>6
            <6> HIDE DEF Odd
            <6>. QED  BY <5>4, <5>6, <6>1
          <5> HIDE DEF Inside
          <5>8. close[i + 1] = target
            BY <2>5, <5>4, <5>7
          <5>. QED  BY <2>3, <3>1, <4>1, <4>3, <5>4, <5>8
        <4>4. CASE At(s, j + 1) # closing
          <5>1. Closes(s, k, j)
            BY <1>3, <2>11, <3>6, <4>1, <4>2, <4>4
          <5>2. close[j] = j
            BY <3>1, <4>1, <4>4
          <5>. QED  BY <2>3, <2>8, <3>2, <5>1, <5>2
        <4>. QED  BY <4>3, <4>4
      <3>. QED  BY <3>4, <3>5, <3>6
    <2>. QED  BY <1>0, <2>4, <2>10, <2>11
  <1>6. Inside(k + 1)
    <2>1. Cardinality(Quotes(s, k, k)) = 1
      BY QuotesAre
    <2>2. k + 1 - 1 = k /\ (k + 1 = e + 1 => ~Closed(s, k, e))
      BY <1>0 DEF Closed
    <2>. QED  BY <2>1, <2>2
  <1>7. e - k \in 0 .. e - k /\ e + 1 - (e - k) = k + 1
    BY <1>0
  <1> HIDE DEF Inside
  <1>. QED  BY <1>5, <1>6, <1>7

(* The name that read_pragma_identifier finds at k is that of the lexeme;  *)
(* it finds none in a sign and none in a literal that does not close.      *)
Named(s, k, n) ==
    LET r == ReadPragmaIdentifier(s, k)
        x == Lexeme(s, k)
    IN \/ /\ x.kind \in {"word", "literal"} /\ r # NoName /\ r.next = LexEnd(s, k) + 1
          /\ \A name : r.name = name <=> IsName(x, name)
       \/ r = NoName /\ (x.kind \notin {"word", "literal"} \/ LexEnd(s, k) = n)

LEMMA InnerIs ==
    ASSUME NEW T, NEW s \in Seq(T), NEW k \in 1 .. Len(s), LexEnd(s, k) # k
    PROVE  LET of == Lexeme(s, k).of
           IN SubSeq(of, 2, Len(of) - 1) = SubSeq(s, k + 1, LexEnd(s, k) - 1) /\ Len(of) > 1
  <1> DEFINE of == Lexeme(s, k).of
             e == LexEnd(s, k)
             m == Len(of)
             inner == SubSeq(of, 2, m - 1)
             name == SubSeq(s, k + 1, e - 1)
  <1>1. /\ of \in Seq(T) /\ Len(of) = LexEnd(s, k) - k + 1
        /\ \A i \in 1 .. Len(of) : of[i] = s[k + i - 1]
    BY OfIs
  <1>2. e \in k + 1 .. Len(s) /\ Len(s) \in Nat /\ m = e - k + 1
    <2>1. LexEnd(s, k) \in k .. Len(s)
      BY LexEndIn, LenProperties
    <2>2. Len(s) \in Nat
      BY LenProperties
    <2> HIDE DEF of
    <2>. QED  BY <1>1, <2>1, <2>2
  <1> HIDE DEF of, e
  <1>3. m \in Nat /\ m >= 2 /\ m <= Len(s) - k + 1
    BY <1>2
  <1> HIDE DEF m
  <1>4. inner \in Seq(T) /\ Len(inner) = m - 2 /\ \A i \in 1 .. m - 2 : inner[i] = of[i + 1]
    <2>1. CASE m = 2
      <3>1. inner = SubSeq(of, 2, 1)
        <4>1. m - 1 = 1
          BY <2>1
        <4>. QED  BY <4>1
      <3>2. SubSeq(of, 2, 1) = << >>
        BY <1>1
      <3> HIDE DEF inner
      <3>. QED  BY <2>1, <3>1, <3>2
    <2>2. CASE m > 2
      <3>1. 2 \in 1 .. m /\ m - 1 \in 1 .. m /\ 2 <= m - 1 /\ m - 1 - 2 + 1 = m - 2
        BY <1>3, <2>2
      <3>2. inner \in Seq(T) /\ Len(inner) = m - 2
        BY <1>1, <3>1 DEF m
      <3>3. ASSUME NEW i \in 1 .. m - 2 PROVE inner[i] = of[i + 1]
        <4>1. i + 2 - 1 = i + 1
          OBVIOUS
        <4>. QED  BY <1>1, <1>3, <3>1, <4>1 DEF m
      <3>. QED  BY <3>2, <3>3
    <2>. QED  BY <1>3, <2>1, <2>2
  <1>5. name \in Seq(T) /\ Len(name) = m - 2 /\ \A i \in 1 .. m - 2 : name[i] = s[k + i]
    <2>1. CASE e = k + 1
      <3>1. name = << >> /\ m = 2
        BY <1>2, <2>1
      <3> HIDE DEF name
      <3>. QED  BY <3>1
    <2>2. CASE e > k + 1
      <3>1. k + 1 \in 1 .. Len(s) /\ e - 1 \in 1 .. Len(s) /\ k + 1 <= e - 1 /\ e - 1 - (k + 1) + 1 = m - 2
        BY <1>2, <2>2
      <3>2. /\ SubSeq(s, k + 1, e - 1) \in Seq(T)
            /\ Len(SubSeq(s, k + 1, e - 1)) = IF k + 1 <= e - 1 THEN e - 1 - (k + 1) + 1 ELSE 0
            /\ \A i \in 1 .. e - 1 - (k + 1) + 1 : SubSeq(s, k + 1, e - 1)[i] = s[k + 1 + i - 1]
        BY <3>1, SubSeqProperties
      <3> HIDE DEF name
      <3>3. name \in Seq(T) /\ Len(name) = m - 2
        BY <3>1, <3>2 DEF name
      <3>4. \A i \in 1 .. m - 2 : name[i] = s[k + 1 + i - 1]
        BY ONLY <3>1, <3>2 DEF name
      <3>5. ASSUME NEW i \in 1 .. m - 2 PROVE name[i] = s[k + i]
        <4>1. k + 1 + i - 1 = k + i
          BY <1>3
        <4>. QED  BY <3>4, <4>1
      <3>. QED  BY <3>3, <3>5
    <2>. QED  BY <1>2, <2>1, <2>2
  <1> HIDE DEF inner, name
  <1>6. \A i \in 1 .. m - 2 : inner[i] = name[i]
    <2>1. SUFFICES ASSUME NEW i \in 1 .. m - 2 PROVE of[i + 1] = s[k + i]
      BY <1>4, <1>5
    <2>2. i + 1 \in 1 .. m /\ k + (i + 1) - 1 = k + i
      BY <1>3
    <2>. QED  BY <1>1, <2>2 DEF m
  <1>7. inner = name
    BY <1>4, <1>5, <1>6, SeqEqual
  <1>8. SubSeq(of, 2, m - 1) = SubSeq(s, k + 1, e - 1) /\ m > 1
    <2>1. m > 1
      BY <1>3
    <2>2. SubSeq(of, 2, m - 1) = SubSeq(s, k + 1, e - 1)
      BY ONLY <1>7 DEF inner, name
    <2>. QED  BY <2>1, <2>2
  <1>. QED  BY <1>8 DEF of, e, m

LEMMA NamedIs ==
    ASSUME NEW T, NEW s \in Seq(T), NEW n, n = Len(s), NEW k \in 1 .. n
    PROVE  Named(s, k, n)
  <1> DEFINE closing == IF At(s, k) = "[" THEN "]" ELSE At(s, k)
             close == CHOOSE f : Closing(f, s, closing, k, Len(s))
             after == WordEnd(s, k, IdentifierChars)
             r == ReadPragmaIdentifier(s, k)
             x == Lexeme(s, k)
             e == LexEnd(s, k)
  <1>1. n \in Nat /\ DOMAIN s = 1 .. n /\ At(s, k) = s[k]
    BY LenProperties DEF At
  <1>2. r = IF At(s, k) \in IdentifierChars THEN [name |-> SubSeq(s, k, after - 1), next |-> after]
            ELSE IF Opened(At(s, k)) # "Normal" /\ close[k + 1] <= Len(s)
            THEN [name |-> SubSeq(s, k + 1, close[k + 1] - 1), next |-> close[k + 1] + 1]
            ELSE NoName
    BY DEF ReadPragmaIdentifier, Closing, CloseTurn
  <1>3. \A p \in Nat : \A q : [name |-> q, next |-> p + 1] # NoName
    <2>1. SUFFICES ASSUME NEW p \in Nat, NEW q, [name |-> q, next |-> p + 1] = NoName PROVE FALSE
      OBVIOUS
    <2>2. [name |-> q, next |-> p + 1].next = NoName.next
      BY <2>1
    <2>3. p + 1 = 0
      BY <2>2 DEF NoName
    <2>. QED  BY <2>3
  <1>4. e \in k .. n /\ e \in Nat
    <2>1. e \in k .. n
      BY <1>1, LexEndIn
    <2> HIDE DEF e
    <2>. QED  BY <2>1
  <1>5. /\ Kind(s, k) = "word" <=> s[k] \in IdentifierChars
        /\ Kind(s, k) = "literal" <=> Opened(s[k]) # "Normal"
    BY <1>1, KindIs
  <1>6. x.kind = Kind(s, k) /\ x.of = SubSeq(s, k, e)
    BY DEF Lexeme
  <1> HIDE DEF close, after, r, x, e
  <1>7. CASE s[k] \in IdentifierChars
    <2>1. after = e + 1
      <3>1. e = after - 1
        BY <1>1, <1>7, WordShape DEF e, after
      <3>2. after \in Int
        <4> DEFINE places == {j \in k .. Len(s) : s[j] \notin IdentifierChars}
        <4>1. after = FirstOf(places, Len(s) + 1)
          BY DEF after, WordEnd
        <4>2. places \subseteq Nat /\ places \subseteq Int
          BY <1>1
        <4> HIDE DEF places
        <4>3. after = Len(s) + 1 \/ after \in places
          BY <4>1, <4>2, FirstIs
        <4>4. after \in places => after \in Int
          BY <4>2
        <4>5. Len(s) + 1 \in Int
          BY <1>1
        <4>. QED  BY <4>3, <4>4, <4>5
      <3>. QED  BY <1>4, <3>1, <3>2
    <2>2. after - 1 = e
      BY <1>4, <2>1
    <2>3. r = [name |-> x.of, next |-> e + 1]
      BY <1>1, <1>2, <1>6, <1>7, <2>1, <2>2
    <2>4. r # NoName /\ r.next = e + 1 /\ r.name = x.of
      BY <1>3, <1>4, <2>3
    <2>5. x.kind = "word"
      BY <1>5, <1>6, <1>7
    <2>6. \A name : IsName(x, name) <=> x.of = name
      BY <2>5 DEF IsName, IsWord
    <2>. QED  BY <2>4, <2>5, <2>6 DEF Named, r, x, e
  <1>8. CASE Opened(s[k]) # "Normal"
    <2>1. s[k] \notin IdentifierChars /\ x.kind = "literal"
      BY <1>5, <1>6, <1>8
    <2>2. LiteralEnds(s, n, k, e)
      BY <1>1, <1>8, LiteralShape DEF e
    <2>3. closing = ClosingByte(s, k) /\ closing # "end"
      BY <1>1, <1>8 DEF ClosingByte, Opened
    <2>4. Closing(close, s, ClosingByte(s, k), k, n)
      <3>1. \E f : Closing(f, s, ClosingByte(s, k), k, n)
        BY <1>1, <2>3, ClosingIs
      <3>2. close = CHOOSE f : Closing(f, s, ClosingByte(s, k), k, n)
        BY <2>3 DEF close
      <3>. QED  BY <3>1, <3>2
    <2>5. close[k + 1] = IF Closed(s, k, e) THEN e ELSE n + 1
      BY <1>1, <1>8, <2>2, <2>4, ClosingFinds
    <2>6. CASE Closed(s, k, e)
      <3>1. r = [name |-> SubSeq(s, k + 1, e - 1), next |-> e + 1]
        <4>1. close[k + 1] = e /\ e <= Len(s)
          BY <1>1, <1>4, <2>5, <2>6
        <4>. QED  BY <1>1, <1>2, <1>8, <2>1, <4>1
      <3>2. r # NoName /\ r.next = e + 1 /\ r.name = SubSeq(s, k + 1, e - 1)
        BY <1>3, <1>4, <3>1
      <3>3. SubSeq(x.of, 2, Len(x.of) - 1) = SubSeq(s, k + 1, e - 1) /\ Len(x.of) > 1
        <4>1. LexEnd(s, k) # k /\ k \in 1 .. Len(s)
          BY <2>6 DEF Closed, e
        <4>. QED  BY <4>1, InnerIs DEF x, e
      <3>4. \A name : IsName(x, name) <=> SubSeq(x.of, 2, Len(x.of) - 1) = name
        BY <2>1, <3>3 DEF IsName, IsWord
      <3>5. \A name : r.name = name <=> IsName(x, name)
        BY <3>2, <3>3, <3>4
      <3>. QED  BY <2>1, <3>2, <3>5 DEF Named, r, x, e
    <2>7. CASE ~Closed(s, k, e)
      <3>1. e = n
        BY <2>2, <2>7 DEF LiteralEnds, Closed
      <3>2. r = NoName
        <4>1. close[k + 1] = n + 1 /\ ~(n + 1 <= Len(s))
          BY <1>1, <2>5, <2>7
        <4>. QED  BY <1>1, <1>2, <2>1, <4>1
      <3>. QED  BY <3>1, <3>2 DEF Named, r, x, e
    <2>. QED  BY <2>6, <2>7
  <1>9. CASE s[k] \notin IdentifierChars /\ Opened(s[k]) = "Normal"
    <2>1. r = NoName
      BY <1>1, <1>2, <1>9
    <2>2. x.kind \notin {"word", "literal"}
      BY <1>5, <1>6, <1>9
    <2>. QED  BY <2>1, <2>2 DEF Named, r, x, e
  <1>. QED  BY <1>7, <1>8, <1>9

(* Past the end there is no name and no sign.                              *)
LEMMA NothingAtEnd ==
    ASSUME NEW s, NEW n \in Nat, DOMAIN s = 1 .. n
    PROVE  At(s, n + 1) = "end" /\ ReadPragmaIdentifier(s, n + 1) = NoName
  <1>1. At(s, n + 1) = "end"
    <2>1. n + 1 \notin DOMAIN s
      OBVIOUS
    <2>. QED  BY <2>1 DEF At
  <1>2. "end" \notin IdentifierChars /\ Opened("end") = "Normal"
    BY DEF IdentifierChars, Letters, Opened
  <1>. QED  BY <1>1, <1>2 DEF ReadPragmaIdentifier

(* A step of the reader from i: the next lexeme, and the end of the text   *)
(* that begins at j, behind it.                                            *)
Follows(from, comments, n, i, x, j) ==
    /\ j \in 1 .. n + 1 /\ from[i] = << x >> \o from[j]
    /\ HasOpen(comments[j]) => HasOpen(comments[i])

(* The lexemes of the ends of a text, and what they are sequences of.      *)
Tells(from, comments, s, n) ==
    /\ n = Len(s) /\ n \in Nat /\ DOMAIN s = 1 .. n
    /\ Reads(from, n, s, Words) /\ Reads(comments, n, s, {"comment"})

LEMMA FollowsIs ==
    ASSUME NEW T, NEW s \in Seq(T), NEW n, NEW from, NEW comments, Tells(from, comments, s, n),
           NEW i \in 1 .. n + 1
    PROVE  LET k == SkipTrivia(s, i)
           IN \/ k = n + 1 /\ from[i] = << >>
              \/ /\ k \in 1 .. n /\ Kind(s, k) \in Words
                 /\ Follows(from, comments, n, i, Lexeme(s, k), LexEnd(s, k) + 1)
              \/ k \in {n, n + 1} \ {0} /\ from[i] = << >> /\ HasOpen(comments[i])
  <1> DEFINE k == SkipTrivia(s, i)
  <1>1. n = Len(s) /\ n \in Nat /\ DOMAIN s = 1 .. n /\ Reads(from, n, s, Words) /\ Reads(comments, n, s, {"comment"})
    BY DEF Tells
  <1>2. Skipped(from, comments, n, s, i)
    BY <1>1, SkippedIs
  <1>3. k \in 1 .. n => LexEnd(s, k) + 1 \in 1 .. n + 1
    <2>1. SUFFICES ASSUME k \in 1 .. n PROVE LexEnd(s, k) + 1 \in 1 .. n + 1
      OBVIOUS
    <2>2. LexEnd(s, k) \in k .. n
      BY <1>1, <2>1, LexEndIn
    <2> HIDE DEF k
    <2>. QED  BY <1>1, <2>1, <2>2
  <1> HIDE DEF k
  <1>4. \/ k = n + 1 /\ from[i] = << >>
        \/ /\ k \in 1 .. n /\ Kind(s, k) \in Words
           /\ from[i] = << Lexeme(s, k) >> \o from[LexEnd(s, k) + 1]
           /\ HasOpen(comments[LexEnd(s, k) + 1]) => HasOpen(comments[i])
        \/ k \in {n, n + 1} \ {0} /\ from[i] = << >> /\ HasOpen(comments[i])
    BY <1>2 DEF Skipped, k
  <1>. QED  BY <1>3, <1>4 DEF Follows, k

(* The name that is read behind i, and the one that stands there.          *)
NameStep(from, comments, s, n, i, r) ==
    \/ from[i] = << >> /\ (HasOpen(comments[i]) \/ r = NoName)
    \/ /\ r = NoName
       /\ \E x, j : /\ Follows(from, comments, n, i, x, j)
                    /\ x.kind \notin {"word", "literal"} \/ from[j] = << >>
    \/ \E x : /\ Follows(from, comments, n, i, x, r.next)
              /\ r # NoName /\ x.kind \in {"word", "literal"}
              /\ \A name : r.name = name <=> IsName(x, name)

LEMMA NameStepIs ==
    ASSUME NEW T, NEW s \in Seq(T), NEW n, NEW from, NEW comments, Tells(from, comments, s, n),
           NEW i \in 1 .. n + 1
    PROVE  NameStep(from, comments, s, n, i, ReadPragmaIdentifier(s, SkipTrivia(s, i)))
  <1> DEFINE k == SkipTrivia(s, i)
             r == ReadPragmaIdentifier(s, k)
  <1>1. n = Len(s) /\ n \in Nat /\ DOMAIN s = 1 .. n /\ from[n + 1] = << >>
    BY DEF Tells, Reads
  <1>2. \/ k = n + 1 /\ from[i] = << >>
        \/ /\ k \in 1 .. n /\ Kind(s, k) \in Words
           /\ Follows(from, comments, n, i, Lexeme(s, k), LexEnd(s, k) + 1)
        \/ k \in {n, n + 1} \ {0} /\ from[i] = << >> /\ HasOpen(comments[i])
    BY FollowsIs
  <1> HIDE DEF k
  <1>3. k = n + 1 => r = NoName
    BY <1>1, NothingAtEnd
  <1>4. CASE k \in 1 .. n /\ Follows(from, comments, n, i, Lexeme(s, k), LexEnd(s, k) + 1)
    <2>1. Named(s, k, n)
      BY <1>1, <1>4, NamedIs
    <2> DEFINE x == Lexeme(s, k)
    <2>2. \/ /\ x.kind \in {"word", "literal"} /\ r # NoName /\ r.next = LexEnd(s, k) + 1
             /\ \A name : r.name = name <=> IsName(x, name)
          \/ r = NoName /\ (x.kind \notin {"word", "literal"} \/ LexEnd(s, k) = n)
      BY <2>1 DEF Named
    <2> HIDE DEF r, x
    <2>3. CASE /\ x.kind \in {"word", "literal"} /\ r # NoName /\ r.next = LexEnd(s, k) + 1
               /\ \A name : r.name = name <=> IsName(x, name)
      <3>1. Follows(from, comments, n, i, x, r.next)
        BY <1>4, <2>3 DEF x
      <3>. QED  BY <2>3, <3>1 DEF NameStep, r, k
    <2>4. CASE r = NoName /\ (x.kind \notin {"word", "literal"} \/ LexEnd(s, k) = n)
      <3>1. x.kind \notin {"word", "literal"} \/ from[LexEnd(s, k) + 1] = << >>
        BY <1>1, <2>4
      <3>2. Follows(from, comments, n, i, x, LexEnd(s, k) + 1)
        BY <1>4 DEF x
      <3>. QED  BY <2>4, <3>1, <3>2 DEF NameStep, r, k
    <2>. QED  BY <2>2, <2>3, <2>4
  <1>5. CASE from[i] = << >> /\ (HasOpen(comments[i]) \/ r = NoName)
    BY <1>5 DEF NameStep, k
  <1>. QED  BY <1>2, <1>3, <1>4, <1>5

(* The byte that is looked at behind i, and the sign that stands there.    *)
SignStep(from, comments, s, n, i, k, signs) ==
    \/ from[i] = << >> /\ (HasOpen(comments[i]) \/ At(s, k) \notin signs)
    \/ /\ At(s, k) \notin signs
       /\ \E x, j : Follows(from, comments, n, i, x, j) /\ ~IsSign(x, signs)
    \/ \E x : /\ At(s, k) \in signs /\ k \in 1 .. n
              /\ Follows(from, comments, n, i, x, k + 1) /\ IsSign(x, signs)

LEMMA SignStepIs ==
    ASSUME NEW T, NEW s \in Seq(T), NEW n, NEW from, NEW comments, Tells(from, comments, s, n),
           NEW i \in 1 .. n + 1, NEW signs \in {{"."}, {"=", "("}}
    PROVE  SignStep(from, comments, s, n, i, SkipTrivia(s, i), signs)
  <1> DEFINE k == SkipTrivia(s, i)
             x == Lexeme(s, k)
  <1>1. n = Len(s) /\ n \in Nat /\ DOMAIN s = 1 .. n
    BY DEF Tells
  <1>2. \/ k = n + 1 /\ from[i] = << >>
        \/ /\ k \in 1 .. n /\ Kind(s, k) \in Words
           /\ Follows(from, comments, n, i, x, LexEnd(s, k) + 1)
        \/ k \in {n, n + 1} \ {0} /\ from[i] = << >> /\ HasOpen(comments[i])
    BY FollowsIs
  <1> HIDE DEF k
  <1>3. k = n + 1 => At(s, k) \notin signs
    <2>1. k = n + 1 => At(s, k) = "end"
      BY <1>1, NothingAtEnd
    <2>. QED  BY <2>1
  <1>4. CASE k \in 1 .. n /\ Kind(s, k) \in Words /\ Follows(from, comments, n, i, x, LexEnd(s, k) + 1)
    <2>1. IsSign(x, signs) <=> Kind(s, k) = "sign" /\ s[k] \in signs
      BY <1>1, <1>4, SignIs
    <2>2. At(s, k) = s[k]
      BY <1>1, <1>4 DEF At
    <2>3. s[k] \in signs => Kind(s, k) = "sign" /\ LexEnd(s, k) = k
      <3>1. /\ Kind(s, k) = "sign" => LexEnd(s, k) = k
            /\ Kind(s, k) = "word" <=> s[k] \in IdentifierChars
            /\ Kind(s, k) = "literal" <=> Opened(s[k]) # "Normal"
        BY <1>1, <1>4, KindIs
      <3>2. s[k] \in signs => s[k] \notin IdentifierChars /\ Opened(s[k]) = "Normal"
        <4>1. s[k] \in signs => s[k] \in {".", "=", "("}
          OBVIOUS
        <4>. QED  BY <4>1 DEF IdentifierChars, Letters, Opened
      <3>. QED  BY <1>4, <3>1, <3>2 DEF Words
    <2> HIDE DEF x
    <2>4. CASE s[k] \in signs
      <3>1. IsSign(x, signs) /\ Follows(from, comments, n, i, x, k + 1)
        BY <1>4, <2>1, <2>3, <2>4
      <3>. QED  BY <1>4, <2>2, <2>4, <3>1 DEF SignStep, k
    <2>5. CASE s[k] \notin signs
      <3>1. ~IsSign(x, signs)
        BY <2>1, <2>5
      <3>. QED  BY <1>4, <2>2, <2>5, <3>1 DEF SignStep, k
    <2>. QED  BY <2>4, <2>5
  <1>5. CASE from[i] = << >> /\ (HasOpen(comments[i]) \/ At(s, k) \notin signs)
    BY <1>5 DEF SignStep, k
  <1>. QED  BY <1>2, <1>3, <1>4, <1>5

LEMMA HeadIs ==
    ASSUME NEW T, NEW s \in Seq(T), NEW n, NEW from, NEW comments, Tells(from, comments, s, n),
           NEW i \in 1 .. n + 1, NEW x, NEW j, Follows(from, comments, n, i, x, j)
    PROVE  /\ Len(from[j]) \in Nat /\ Len(from[i]) = 1 + Len(from[j]) /\ from[i][1] = x
           /\ \A k \in 1 .. Len(from[j]) : from[i][k + 1] = from[j][k]
  <1> DEFINE R == {Lexeme(s, k) : k \in 1 .. n}
             R2 == R \union {x}
  <1>1. n = Len(s) /\ n \in Nat /\ DOMAIN s = 1 .. n /\ Reads(from, n, s, Words)
    BY DEF Tells
  <1>2. j \in 1 .. n + 1 /\ from[i] = << x >> \o from[j]
    BY DEF Follows
  <1>3. from[j] \in Seq(R)
    BY <1>1, <1>2, LexemesType
  <1>4. R \subseteq R2 /\ x \in R2
    OBVIOUS
  <1> HIDE DEF R, R2
  <1>5. from[j] \in Seq(R2)
    BY <1>3, <1>4, SeqMonotonic
  <1>6. /\ Len(<< x >> \o from[j]) = 1 + Len(from[j]) /\ (<< x >> \o from[j])[1] = x
        /\ \A k \in 1 .. Len(from[j]) : (<< x >> \o from[j])[k + 1] = from[j][k]
    BY <1>4, <1>5, SetCons
  <1>7. Len(from[j]) \in Nat
    BY <1>3, LenProperties
  <1>. QED  BY <1>2, <1>6, <1>7

LEMMA NoneIs ==
    ASSUME NEW T, NEW s \in Seq(T), NEW n, NEW from, NEW comments, Tells(from, comments, s, n),
           NEW i \in 1 .. n + 1
    PROVE  Len(from[i]) \in Nat /\ (Len(from[i]) = 0 <=> from[i] = << >>)
  <1>1. Len(s) = n /\ n \in Nat /\ DOMAIN s = 1 .. n /\ Reads(from, n, s, Words)
    BY DEF Tells
  <1> DEFINE R == {Lexeme(s, k) : k \in 1 .. n}
  <1>2. from[i] \in Seq(R)
    BY <1>1, LexemesType
  <1> HIDE DEF R
  <1>. QED  BY <1>2

(* The sign at the head of what follows i is the byte that is looked at.   *)
LEMMA HeadSign ==
    ASSUME NEW T, NEW s \in Seq(T), NEW n, NEW from, NEW comments, Tells(from, comments, s, n),
           NEW i \in 1 .. n + 1, NEW signs \in {{"."}, {"=", "("}}
    PROVE  LET k == SkipTrivia(s, i)
           IN /\ Len(from[i]) > 0 => (IsSign(from[i][1], signs) <=> At(s, k) \in signs)
              /\ Len(from[i]) = 0 /\ At(s, k) \in signs => HasOpen(comments[i])
              /\ Len(from[i]) > 0 /\ At(s, k) \in signs => Follows(from, comments, n, i, from[i][1], k + 1)
  <1> DEFINE k == SkipTrivia(s, i)
  <1>1. SignStep(from, comments, s, n, i, k, signs)
    BY SignStepIs
  <1>2. Len(from[i]) \in Nat /\ (Len(from[i]) = 0 <=> from[i] = << >>)
    BY NoneIs
  <1> HIDE DEF k
  <1>3. CASE from[i] = << >> /\ (HasOpen(comments[i]) \/ At(s, k) \notin signs)
    BY <1>2, <1>3 DEF k
  <1>4. CASE /\ At(s, k) \notin signs
             /\ \E x, j : Follows(from, comments, n, i, x, j) /\ ~IsSign(x, signs)
    <2>1. PICK x, j : Follows(from, comments, n, i, x, j) /\ ~IsSign(x, signs)
      BY <1>4
    <2>2. from[i][1] = x
      BY <2>1, HeadIs
    <2>. QED  BY <1>4, <2>1, <2>2 DEF k
  <1>5. CASE \E x : /\ At(s, k) \in signs /\ k \in 1 .. n
                    /\ Follows(from, comments, n, i, x, k + 1) /\ IsSign(x, signs)
    <2>1. PICK x : At(s, k) \in signs /\ Follows(from, comments, n, i, x, k + 1) /\ IsSign(x, signs)
      BY <1>5
    <2>2. from[i][1] = x /\ Len(from[i]) = 1 + Len(from[k + 1]) /\ Len(from[k + 1]) \in Nat
      BY <2>1, HeadIs
    <2>3. Len(from[i]) # 0
      BY <2>2
    <2>. QED  BY <2>1, <2>2, <2>3 DEF k
  <1>. QED  BY <1>1, <1>3, <1>4, <1>5 DEF SignStep

(* The name at the head of what follows i is the one that is read.         *)
HeadNamed(from, comments, n, i, r) ==
    /\ Len(from[i]) > 0 /\ from[i][1].kind \in {"word", "literal"} /\ r # NoName
    /\ Follows(from, comments, n, i, from[i][1], r.next)
    /\ \A name : r.name = name <=> IsName(from[i][1], name)

LEMMA HeadName ==
    ASSUME NEW T, NEW s \in Seq(T), NEW n, NEW from, NEW comments, Tells(from, comments, s, n),
           NEW i \in 1 .. n + 1
    PROVE  LET r == ReadPragmaIdentifier(s, SkipTrivia(s, i))
           IN /\ Len(from[i]) > 1 /\ from[i][1].kind \in {"word", "literal"} => HeadNamed(from, comments, n, i, r)
              /\ r # NoName => HeadNamed(from, comments, n, i, r) \/ HasOpen(comments[i])
  <1> DEFINE r == ReadPragmaIdentifier(s, SkipTrivia(s, i))
  <1>1. NameStep(from, comments, s, n, i, r)
    BY NameStepIs
  <1>2. Len(from[i]) \in Nat /\ (Len(from[i]) = 0 <=> from[i] = << >>)
    BY NoneIs
  <1> HIDE DEF r
  <1>3. CASE from[i] = << >> /\ (HasOpen(comments[i]) \/ r = NoName)
    <2>1. ~(Len(from[i]) > 1)
      BY <1>2, <1>3
    <2>. QED  BY <1>3, <2>1 DEF r
  <1>4. CASE /\ r = NoName
             /\ \E x, j : /\ Follows(from, comments, n, i, x, j)
                          /\ x.kind \notin {"word", "literal"} \/ from[j] = << >>
    <2>1. PICK x, j : /\ Follows(from, comments, n, i, x, j)
                      /\ x.kind \notin {"word", "literal"} \/ from[j] = << >>
      BY <1>4
    <2>2. from[i][1] = x /\ Len(from[i]) = 1 + Len(from[j])
      BY <2>1, HeadIs
    <2>3. from[j] = << >> => Len(from[i]) = 1
      BY <2>2
    <2>4. ~(Len(from[i]) > 1 /\ from[i][1].kind \in {"word", "literal"})
      BY <2>1, <2>2, <2>3
    <2>. QED  BY <1>4, <2>4 DEF r
  <1>5. CASE \E x : /\ Follows(from, comments, n, i, x, r.next)
                    /\ r # NoName /\ x.kind \in {"word", "literal"}
                    /\ \A name : r.name = name <=> IsName(x, name)
    <2>1. PICK x : /\ Follows(from, comments, n, i, x, r.next)
                   /\ r # NoName /\ x.kind \in {"word", "literal"}
                   /\ \A name : r.name = name <=> IsName(x, name)
      BY <1>5
    <2>2. from[i][1] = x /\ Len(from[i]) = 1 + Len(from[r.next]) /\ Len(from[r.next]) \in Nat
      BY <2>1, HeadIs
    <2>3. Len(from[i]) > 0
      BY <2>2
    <2>4. HeadNamed(from, comments, n, i, r)
      BY <2>1, <2>2, <2>3 DEF HeadNamed
    <2>. QED  BY <2>4 DEF r
  <1>. QED  BY <1>1, <1>3, <1>4, <1>5 DEF NameStep

(* What stands behind the first name of a pragma, and what is read there.  *)
RestOfPragma(x, rest) ==
    IF Len(rest) > 0 /\ IsSign(rest[1], {"."})
    THEN Len(rest) > 2 /\ IsName(rest[2], SizePragma) /\ IsSign(rest[3], {"=", "("})
    ELSE Len(rest) > 0 /\ IsName(x, SizePragma) /\ IsSign(rest[1], {"=", "("})

ReadsRest(s, schema) ==
    LET dot == SkipTrivia(s, schema.next)
        name == IF At(s, dot) = "." THEN ReadPragmaIdentifier(s, SkipTrivia(s, dot + 1)) ELSE schema
    IN name.name = SizePragma /\ At(s, SkipTrivia(s, name.next)) \in {"=", "("}

LEMMA RestIs ==
    ASSUME NEW T, NEW s \in Seq(T), NEW n, NEW from, NEW comments, Tells(from, comments, s, n),
           NEW schema, NEW x, schema.next \in 1 .. n + 1, \A name : schema.name = name <=> IsName(x, name)
    PROVE  /\ RestOfPragma(x, from[schema.next]) => ReadsRest(s, schema)
           /\ ReadsRest(s, schema) =>
                RestOfPragma(x, from[schema.next]) \/ HasOpen(comments[schema.next])
  <1> DEFINE i == schema.next
             dot == SkipTrivia(s, i)
             y == from[i]
             signs == {"=", "("}
  <1>1. Len(y) \in Nat
    BY NoneIs
  <1>2. /\ Len(y) > 0 => (IsSign(y[1], {"."}) <=> At(s, dot) \in {"."})
        /\ Len(y) = 0 /\ At(s, dot) \in {"."} => HasOpen(comments[i])
        /\ Len(y) > 0 /\ At(s, dot) \in {"."} => Follows(from, comments, n, i, y[1], dot + 1)
    BY HeadSign
  <1>3. /\ Len(y) > 0 => (IsSign(y[1], signs) <=> At(s, dot) \in signs)
        /\ Len(y) = 0 /\ At(s, dot) \in signs => HasOpen(comments[i])
    BY HeadSign
  <1>4. schema.name = SizePragma <=> IsName(x, SizePragma)
    OBVIOUS
  <1> HIDE DEF dot, y, i
  <1>5. CASE Len(y) = 0
    <2>1. ~RestOfPragma(x, y)
      BY <1>5 DEF RestOfPragma
    <2>2. ReadsRest(s, schema) => HasOpen(comments[i])
      BY <1>2, <1>3, <1>5 DEF ReadsRest, dot, i
    <2>. QED  BY <2>1, <2>2 DEF y, i
  <1>6. CASE Len(y) > 0 /\ At(s, dot) # "."
    <2>1. RestOfPragma(x, y) <=> IsName(x, SizePragma) /\ IsSign(y[1], signs)
      BY <1>2, <1>6 DEF RestOfPragma
    <2>2. ReadsRest(s, schema) <=> schema.name = SizePragma /\ At(s, dot) \in signs
      BY <1>6 DEF ReadsRest, dot, i
    <2>. QED  BY <1>3, <1>4, <1>6, <2>1, <2>2 DEF y, i
  <1>7. CASE Len(y) > 0 /\ At(s, dot) = "."
    <2> DEFINE i4 == dot + 1
               z == from[i4]
               r == ReadPragmaIdentifier(s, SkipTrivia(s, i4))
               w == from[r.next]
               c == SkipTrivia(s, r.next)
    <2>1. Follows(from, comments, n, i, y[1], i4) /\ i \in 1 .. n + 1
      BY <1>2, <1>7 DEF i
    <2>2. /\ Len(z) \in Nat /\ Len(y) = 1 + Len(z)
          /\ \A k \in 1 .. Len(z) : y[k + 1] = z[k]
      BY <2>1, HeadIs DEF y
    <2>3. i4 \in 1 .. n + 1 /\ (HasOpen(comments[i4]) => HasOpen(comments[i]))
      BY <2>1 DEF Follows
    <2> HIDE DEF i4
    <2>4. /\ Len(z) > 1 /\ z[1].kind \in {"word", "literal"} => HeadNamed(from, comments, n, i4, r)
          /\ r # NoName => HeadNamed(from, comments, n, i4, r) \/ HasOpen(comments[i4])
      BY <2>3, HeadName
    <2>5. ReadsRest(s, schema) <=> r.name = SizePragma /\ At(s, c) \in signs
      BY <1>7 DEF ReadsRest, dot, i, i4
    <2> HIDE DEF z, r
    <2>6. RestOfPragma(x, y) <=> Len(z) > 1 /\ IsName(z[1], SizePragma) /\ IsSign(z[2], signs)
      <3>1. Len(y) > 2 <=> Len(z) > 1
        BY <2>2
      <3>2. Len(z) > 1 => y[2] = z[1] /\ y[3] = z[2]
        <4>1. Len(z) > 1 => 1 \in 1 .. Len(z) /\ 2 \in 1 .. Len(z) /\ 1 + 1 = 2 /\ 2 + 1 = 3
          BY <2>2
        <4>. QED  BY <2>2, <4>1
      <3>. QED  BY <1>2, <1>7, <3>1, <3>2 DEF RestOfPragma
    <2>7. ASSUME HeadNamed(from, comments, n, i4, r)
          PROVE  /\ RestOfPragma(x, y) <=> r.name = SizePragma /\ Len(w) > 0 /\ IsSign(w[1], signs)
                 /\ HasOpen(comments[r.next]) => HasOpen(comments[i])
                 /\ r.next \in 1 .. n + 1
      <3>1. /\ Follows(from, comments, n, i4, z[1], r.next)
            /\ r.name = SizePragma <=> IsName(z[1], SizePragma)
        BY <2>7 DEF HeadNamed, z
      <3>2. Len(w) \in Nat /\ Len(z) = 1 + Len(w) /\ \A k \in 1 .. Len(w) : z[k + 1] = w[k]
        BY <2>3, <3>1, HeadIs DEF z
      <3>3. r.next \in 1 .. n + 1 /\ (HasOpen(comments[r.next]) => HasOpen(comments[i]))
        BY <2>3, <3>1 DEF Follows
      <3> HIDE DEF w
      <3>4. Len(z) > 1 <=> Len(w) > 0
        BY <3>2
      <3>5. Len(w) > 0 => z[2] = w[1]
        <4>1. Len(w) > 0 => 1 \in 1 .. Len(w) /\ 1 + 1 = 2
          BY <3>2
        <4>. QED  BY <3>2, <4>1
      <3>. QED  BY <2>6, <3>1, <3>3, <3>4, <3>5
    <2>8. ASSUME HeadNamed(from, comments, n, i4, r)
          PROVE  /\ Len(w) > 0 => (IsSign(w[1], signs) <=> At(s, c) \in signs)
                 /\ Len(w) = 0 /\ At(s, c) \in signs => HasOpen(comments[r.next])
                 /\ Len(w) \in Nat
      <3>1. r.next \in 1 .. n + 1
        BY <2>7, <2>8
      <3>2. /\ Len(w) > 0 => (IsSign(w[1], signs) <=> At(s, c) \in signs)
            /\ Len(w) = 0 /\ At(s, c) \in signs => HasOpen(comments[r.next])
        BY <3>1, HeadSign
      <3>3. Len(w) \in Nat
        BY <3>1, NoneIs
      <3>. QED  BY <3>2, <3>3
    <2> HIDE DEF w, c
    <2>9. RestOfPragma(x, y) => ReadsRest(s, schema)
      <3>1. SUFFICES ASSUME RestOfPragma(x, y) PROVE ReadsRest(s, schema)
        OBVIOUS
      <3>2. Len(z) > 1 /\ z[1].kind \in {"word", "literal"}
        BY <2>6, <3>1 DEF IsName, IsWord
      <3>3. HeadNamed(from, comments, n, i4, r)
        BY <2>4, <3>2
      <3>. QED  BY <2>5, <2>7, <2>8, <3>1, <3>3
    <2>10. ReadsRest(s, schema) => RestOfPragma(x, y) \/ HasOpen(comments[i])
      <3>1. SUFFICES ASSUME ReadsRest(s, schema), ~HasOpen(comments[i]) PROVE RestOfPragma(x, y)
        OBVIOUS
      <3>2. r # NoName
        <4>1. SizePragma # NoName.name
          BY DEF SizePragma, NoName
        <4>. QED  BY <2>5, <3>1, <4>1
      <3>3. HeadNamed(from, comments, n, i4, r)
        BY <2>3, <2>4, <3>1, <3>2
      <3>4. Len(w) # 0 /\ Len(w) \in Nat
        BY <2>5, <2>7, <2>8, <3>1, <3>3
      <3>5. Len(w) > 0
        BY <3>4
      <3>. QED  BY <2>5, <2>7, <2>8, <3>1, <3>3, <3>5
    <2>. QED  BY <2>9, <2>10 DEF y, i
  <1>. QED  BY <1>1, <1>5, <1>6, <1>7

(* The pragmas of the size of a database are recognised.                   *)
LEMMA SizePragmaIs ==
    ASSUME NEW T, NEW s \in Seq(T), NEW n, NEW from, NEW comments, Tells(from, comments, s, n)
    PROVE  /\ IsSizePragma(from[1]) => ContainsPageLimitMutation(s)
           /\ ContainsPageLimitMutation(s) => IsSizePragma(from[1]) \/ HasOpen(comments[1])
  <1> DEFINE q == from[1]
             pragma == ReadPragmaIdentifier(s, SkipTrivia(s, 1))
             i == pragma.next
             y == from[i]
             schema == ReadPragmaIdentifier(s, SkipTrivia(s, i))
             z == from[schema.next]
             Good == HeadNamed(from, comments, n, 1, pragma) /\ HeadNamed(from, comments, n, i, schema)
  <1>1. 1 \in 1 .. n + 1
    BY DEF Tells
  <1>2. ContainsPageLimitMutation(s) <=> pragma.name = Pragma /\ schema # NoName /\ ReadsRest(s, schema)
    BY DEF ContainsPageLimitMutation, ReadsRest
  <1>3. /\ Len(q) > 1 /\ q[1].kind \in {"word", "literal"} => HeadNamed(from, comments, n, 1, pragma)
        /\ pragma # NoName => HeadNamed(from, comments, n, 1, pragma) \/ HasOpen(comments[1])
    BY <1>1, HeadName
  <1> HIDE DEF q, pragma
  <1>4. ASSUME HeadNamed(from, comments, n, 1, pragma)
        PROVE  /\ i \in 1 .. n + 1 /\ (HasOpen(comments[i]) => HasOpen(comments[1]))
               /\ Len(y) \in Nat /\ Len(q) = 1 + Len(y) /\ \A k \in 1 .. Len(y) : q[k + 1] = y[k]
               /\ pragma.name = Pragma <=> IsName(q[1], Pragma)
    <2>1. Follows(from, comments, n, 1, q[1], i) /\ (pragma.name = Pragma <=> IsName(q[1], Pragma))
      BY <1>4 DEF HeadNamed, q
    <2>2. Len(y) \in Nat /\ Len(q) = 1 + Len(y) /\ \A k \in 1 .. Len(y) : q[k + 1] = y[k]
      BY <1>1, <2>1, HeadIs DEF q
    <2>. QED  BY <2>1, <2>2 DEF Follows
  <1>5. ASSUME HeadNamed(from, comments, n, 1, pragma)
        PROVE  /\ Len(y) > 1 /\ y[1].kind \in {"word", "literal"} => HeadNamed(from, comments, n, i, schema)
               /\ schema # NoName => HeadNamed(from, comments, n, i, schema) \/ HasOpen(comments[i])
    BY <1>4, <1>5, HeadName
  <1> HIDE DEF i, y, schema
  <1>6. ASSUME Good
        PROVE  /\ IsSizePragma(q) <=> IsName(q[1], Pragma) /\ RestOfPragma(q[2], z)
               /\ RestOfPragma(q[2], z) => ReadsRest(s, schema)
               /\ ReadsRest(s, schema) => RestOfPragma(q[2], z) \/ HasOpen(comments[1])
    <2>1. /\ Follows(from, comments, n, i, y[1], schema.next) /\ y[1].kind \in {"word", "literal"}
          /\ \A name : schema.name = name <=> IsName(y[1], name)
      BY <1>6 DEF HeadNamed, y
    <2>2. Len(z) \in Nat /\ Len(y) = 1 + Len(z) /\ \A k \in 1 .. Len(z) : y[k + 1] = z[k]
      BY <1>4, <1>6, <2>1, HeadIs DEF y
    <2>3. schema.next \in 1 .. n + 1 /\ (HasOpen(comments[schema.next]) => HasOpen(comments[1]))
      BY <1>4, <1>6, <2>1 DEF Follows
    <2>4. /\ RestOfPragma(y[1], z) => ReadsRest(s, schema)
          /\ ReadsRest(s, schema) => RestOfPragma(y[1], z) \/ HasOpen(comments[schema.next])
      BY <2>1, <2>3, RestIs
    <2> HIDE DEF z
    <2>5. /\ Len(q) = 2 + Len(z) /\ q[2] = y[1]
          /\ \A k \in 1 .. Len(z) : q[k + 2] = z[k]
      <3>1. Len(y) \in Nat /\ Len(q) = 1 + Len(y) /\ \A k \in 1 .. Len(y) : q[k + 1] = y[k]
        BY <1>4, <1>6
      <3>2. 1 \in 1 .. Len(y) /\ 1 + 1 = 2
        BY <2>2
      <3>3. q[2] = y[1]
        BY <3>1, <3>2
      <3>4. ASSUME NEW k \in 1 .. Len(z) PROVE q[k + 2] = z[k]
        <4>1. k + 1 \in 1 .. Len(y) /\ k + 1 + 1 = k + 2
          BY <2>2
        <4>. QED  BY <2>2, <3>1, <4>1
      <3>5. Len(q) = 2 + Len(z)
        BY <2>2, <3>1
      <3>. QED  BY <3>3, <3>4, <3>5
    <2>6. IsSizePragma(q) <=> IsName(q[1], Pragma) /\ RestOfPragma(q[2], z)
      <3>1. Len(q) > 2 <=> Len(z) > 0
        BY <2>2, <2>5
      <3>2. Len(q) > 4 <=> Len(z) > 2
        BY <2>2, <2>5
      <3>3. Len(z) > 0 => q[3] = z[1]
        <4>1. Len(z) > 0 => 1 \in 1 .. Len(z) /\ 1 + 2 = 3
          BY <2>2
        <4>. QED  BY <2>5, <4>1
      <3>4. Len(z) > 2 => q[4] = z[2] /\ q[5] = z[3]
        <4>1. Len(z) > 2 => 2 \in 1 .. Len(z) /\ 3 \in 1 .. Len(z) /\ 2 + 2 = 4 /\ 3 + 2 = 5
          BY <2>2
        <4>. QED  BY <2>5, <4>1
      <3>5. q[2].kind \in {"word", "literal"}
        BY <2>1, <2>5
      <3>6. Len(z) > 2 => Len(z) > 0
        BY <2>2
      <3>7. CASE Len(z) > 0 /\ IsSign(z[1], {"."})
        <4>1. IsSizePragma(q) <=> /\ Len(q) > 4 /\ q[2].kind \in {"word", "literal"}
                                  /\ IsName(q[1], Pragma) /\ IsName(q[4], SizePragma)
                                  /\ IsSign(q[4 + 1], {"=", "("})
          BY <3>1, <3>3, <3>7 DEF IsSizePragma
        <4>2. 4 + 1 = 5
          OBVIOUS
        <4>3. RestOfPragma(q[2], z) <=> Len(z) > 2 /\ IsName(z[2], SizePragma) /\ IsSign(z[3], {"=", "("})
          BY <3>7 DEF RestOfPragma
        <4>. QED  BY <3>2, <3>4, <3>5, <4>1, <4>2, <4>3
      <3>8. CASE ~(Len(z) > 0 /\ IsSign(z[1], {"."}))
        <4>1. IsSizePragma(q) <=> /\ Len(q) > 2 /\ q[2].kind \in {"word", "literal"}
                                  /\ IsName(q[1], Pragma) /\ IsName(q[2], SizePragma)
                                  /\ IsSign(q[2 + 1], {"=", "("})
          BY <3>1, <3>3, <3>8 DEF IsSizePragma
        <4>2. 2 + 1 = 3
          OBVIOUS
        <4>3. RestOfPragma(q[2], z) <=> Len(z) > 0 /\ IsName(q[2], SizePragma) /\ IsSign(z[1], {"=", "("})
          BY <3>8 DEF RestOfPragma
        <4>. QED  BY <3>1, <3>3, <3>5, <4>1, <4>2, <4>3
      <3>. QED  BY <3>7, <3>8
    <2>. QED  BY <2>3, <2>4, <2>5, <2>6
  <1>7. IsSizePragma(q) => ContainsPageLimitMutation(s)
    <2>1. SUFFICES ASSUME IsSizePragma(q) PROVE ContainsPageLimitMutation(s)
      OBVIOUS
    <2>2. Len(q) > 2 /\ q[2].kind \in {"word", "literal"} /\ IsName(q[1], Pragma)
      <3>1. Len(q) \in Nat
        BY <1>1, NoneIs DEF q
      <3>. QED  BY <2>1, <3>1 DEF IsSizePragma
    <2>3. HeadNamed(from, comments, n, 1, pragma)
      <3>1. Len(q) > 1
        <4>1. Len(q) \in Nat
          BY <1>1, NoneIs DEF q
        <4>. QED  BY <2>2, <4>1
      <3>2. q[1].kind \in {"word", "literal"}
        BY <2>2 DEF IsName, IsWord
      <3>. QED  BY <1>3, <3>1, <3>2
    <2>4. HeadNamed(from, comments, n, i, schema)
      <3>1. Len(y) \in Nat /\ Len(q) = 1 + Len(y) /\ \A k \in 1 .. Len(y) : q[k + 1] = y[k]
        BY <1>4, <2>3
      <3>2. Len(y) > 1 /\ 1 \in 1 .. Len(y) /\ 1 + 1 = 2
        BY <2>2, <3>1
      <3>3. q[2] = y[1]
        BY <3>1, <3>2
      <3>. QED  BY <1>5, <2>2, <2>3, <3>2, <3>3
    <2>5. schema # NoName
      BY <2>4 DEF HeadNamed
    <2>. QED  BY <1>2, <1>4, <1>6, <2>1, <2>3, <2>4, <2>5
  <1>8. ContainsPageLimitMutation(s) => IsSizePragma(q) \/ HasOpen(comments[1])
    <2>1. SUFFICES ASSUME ContainsPageLimitMutation(s), ~HasOpen(comments[1]) PROVE IsSizePragma(q)
      OBVIOUS
    <2>2. pragma # NoName
      <3>1. Pragma # NoName.name
        BY DEF Pragma, NoName
      <3>. QED  BY <1>2, <2>1, <3>1
    <2>3. HeadNamed(from, comments, n, 1, pragma)
      BY <1>3, <2>1, <2>2
    <2>4. HeadNamed(from, comments, n, i, schema)
      BY <1>2, <1>4, <1>5, <2>1, <2>3
    <2>. QED  BY <1>2, <1>4, <1>6, <2>1, <2>3, <2>4
  <1>. QED  BY <1>7, <1>8 DEF q

(* An INSERT is told by the first word.                                    *)
LEMMA InsertIs ==
    ASSUME NEW T, NEW s \in Seq(T), NEW n, NEW from, NEW comments, Tells(from, comments, s, n)
    PROVE  LET words == from[1]
               BeginsWithWord == words # << >> /\ words[1].kind = "word"
           IN (BeginsWithWord => "_" \notin ToSet(words[1].of)) =>
                (StatementIsInsert(s) <=> BeginsWithWord /\ words[1].of = Insert)
  <1> DEFINE words == from[1]
             k == SkipTrivia(s, 1)
             x == Lexeme(s, k)
             e == LexEnd(s, k)
             w == WordEnd(s, k, Letters)
  <1>1. Len(s) = n /\ n \in Nat /\ DOMAIN s = 1 .. n /\ 1 \in 1 .. n + 1
    BY DEF Tells
  <1>2. \/ k = n + 1 /\ words = << >>
        \/ k \in 1 .. n /\ Kind(s, k) \in Words /\ Follows(from, comments, n, 1, x, e + 1)
        \/ k \in {n, n + 1} \ {0} /\ words = << >> /\ HasOpen(comments[1])
    BY <1>1, FollowsIs
  <1>3. StatementIsInsert(s) <=> SubSeq(s, k, w - 1) = Insert
    BY DEF StatementIsInsert
  <1>4. k \in 1 .. n => IF s[k] \in Letters THEN WordEnds(s, n, k, w - 1, Letters) ELSE w = k
    BY <1>1, WordEndIs
  <1>5. Letters \subseteq IdentifierChars /\ IdentifierChars = Letters \union {"_"} /\ "_" \notin Letters
    BY DEF IdentifierChars, Letters
  <1>6. Len(Insert) = 2
    BY DEF Insert
  <1>7. k \in 1 .. n /\ w = k => SubSeq(s, k, w - 1) = << >>
    <2>1. SUFFICES ASSUME k \in 1 .. n, w = k PROVE SubSeq(s, k, w - 1) = << >>
      OBVIOUS
    <2> HIDE DEF k, w
    <2>2. k \in Int /\ w - 1 \in Int /\ w - 1 < k
      BY <2>1
    <2>. QED  BY <2>2, SubSeqEmpty
  <1>8. << >> # Insert
    BY DEF Insert
  <1> HIDE DEF k, w, words, x, e
  <1>9. CASE words = << >> /\ k = n + 1
    <2>1. w = n + 1
      <3> DEFINE places == {j \in k .. Len(s) : s[j] \notin Letters}
      <3>1. places = {}
        BY <1>1, <1>9
      <3>2. w = FirstOf(places, Len(s) + 1)
        BY DEF w, WordEnd
      <3> HIDE DEF places
      <3>3. w = Len(s) + 1
        BY <3>1, <3>2 DEF FirstOf
      <3>. QED  BY <1>1, <3>3
    <2>2. SubSeq(s, k, w - 1) = << >>
      <3>1. k \in Int /\ w - 1 \in Int /\ w - 1 < k
        BY <1>1, <1>9, <2>1
      <3>. QED  BY <3>1, SubSeqEmpty
    <2>. QED  BY <1>3, <1>8, <1>9, <2>2 DEF words
  <1>10. CASE words = << >> /\ k = n /\ k \in 1 .. n
    <2>1. SubSeq(s, k, w - 1) # Insert
      <3>1. CASE s[k] \in Letters
        <4>1. w - 1 = k
          BY <1>4, <1>10, <3>1 DEF WordEnds
        <4>2. Len(SubSeq(s, k, k)) = 1
          BY <1>10, <1>1
        <4>3. SubSeq(s, k, w - 1) = SubSeq(s, k, k)
          BY <4>1
        <4> HIDE DEF Insert
        <4>4. 1 # 2
          OBVIOUS
        <4>. QED  BY <1>6, <4>2, <4>3, <4>4
      <3>2. CASE s[k] \notin Letters
        BY <1>4, <1>7, <1>8, <1>10, <3>2
      <3>. QED  BY <3>1, <3>2
    <2>. QED  BY <1>3, <1>10, <2>1 DEF words
  <1>11. CASE k \in 1 .. n /\ Kind(s, k) \in Words /\ Follows(from, comments, n, 1, x, e + 1)
    <2>1. words # << >> /\ words[1] = x
      <3>1. words[1] = x /\ Len(words) = 1 + Len(from[e + 1]) /\ Len(from[e + 1]) \in Nat
        BY <1>1, <1>11, HeadIs DEF words
      <3>2. Len(words) # 0
        BY <3>1
      <3>. QED  BY <3>1, <3>2
    <2>2. x.kind = Kind(s, k) /\ x.of = SubSeq(s, k, e)
      BY DEF x, e, Lexeme
    <2>3. Kind(s, k) = "word" <=> s[k] \in IdentifierChars
      BY <1>1, <1>11, KindIs
    <2>4. CASE Kind(s, k) = "word"
      <3>1. SUFFICES ASSUME "_" \notin ToSet(x.of) PROVE SubSeq(s, k, w - 1) = x.of
        BY <1>3, <2>1, <2>2, <2>4 DEF words
      <3>2. WordEnds(s, n, k, e, IdentifierChars)
        BY <1>1, <1>11, <2>4, KindIs DEF e
      <3>3. e \in k .. n /\ (\A j \in k .. e : s[j] \in IdentifierChars)
            /\ (e = n \/ (e + 1 \in 1 .. n /\ s[e + 1] \notin IdentifierChars))
        BY <3>2 DEF WordEnds
      <3>4. ASSUME NEW j \in k .. e PROVE s[j] \in Letters
        <4>1. s[j] # "_"
          <5>1. /\ x.of \in Seq(T) /\ Len(x.of) = e - k + 1
                /\ \A i \in 1 .. Len(x.of) : x.of[i] = s[k + i - 1]
            BY <1>1, <1>11, OfIs DEF x, e
          <5>2. j - k + 1 \in 1 .. Len(x.of) /\ k + (j - k + 1) - 1 = j
            BY <1>11, <3>3, <5>1
          <5>3. x.of[j - k + 1] = s[j]
            BY <5>1, <5>2
          <5>4. j - k + 1 \in DOMAIN x.of
            BY <5>1, <5>2
          <5>5. x.of[j - k + 1] \in ToSet(x.of)
            BY <5>4 DEF ToSet
          <5>. QED  BY <3>1, <5>3, <5>5
        <4>. QED  BY <1>5, <3>3, <4>1
      <3>5. k \in k .. e
        BY <1>11, <3>3
      <3>6. WordEnds(s, n, k, w - 1, Letters)
        BY <1>4, <1>11, <3>4, <3>5
      <3> DEFINE v == w - 1
      <3>7. v \in k .. n /\ (\A j \in k .. v : s[j] \in Letters)
            /\ (v = n \/ (v + 1 \in 1 .. n /\ s[v + 1] \notin Letters))
        BY <3>6 DEF WordEnds
      <3> HIDE DEF v
      <3>8. ~(v < e)
        <4>1. v < e => v + 1 \in k .. e /\ v # n
          BY <1>1, <1>11, <3>3, <3>7
        <4>. QED  BY <3>4, <3>7, <4>1
      <3>9. ~(e < v)
        <4>1. e < v => e + 1 \in k .. v /\ e # n
          BY <1>1, <1>11, <3>3, <3>7
        <4>. QED  BY <1>5, <3>3, <3>7, <4>1
      <3>10. v = e
        BY <1>11, <3>3, <3>7, <3>8, <3>9
      <3>. QED  BY <2>2, <3>10 DEF v
    <2>5. CASE Kind(s, k) # "word"
      <3>1. s[k] \notin Letters
        BY <1>5, <2>3, <2>5
      <3>2. SubSeq(s, k, w - 1) = << >>
        BY <1>4, <1>7, <1>11, <3>1
      <3>. QED  BY <1>3, <1>8, <2>1, <2>2, <2>5, <3>2 DEF words
    <2>. QED  BY <2>4, <2>5
  <1>12. \/ words = << >> /\ k = n + 1
         \/ words = << >> /\ k = n /\ k \in 1 .. n
         \/ k \in 1 .. n /\ Kind(s, k) \in Words /\ Follows(from, comments, n, 1, x, e + 1)
    <2>1. k \in {n, n + 1} \ {0} => k = n + 1 \/ (k = n /\ k \in 1 .. n)
      BY <1>1
    <2>. QED  BY <1>2, <2>1
  <1>. QED  BY <1>9, <1>10, <1>11, <1>12

LEMMA TextIsRecognised ==
    ASSUME text \in Seq(STRING)
    PROVE  StatementsAreRecognised
  <1> DEFINE n == Len(text)
             words == Meaning(text)
             BeginsWithWord == words # << >> /\ words[1].kind = "word"
  <1>1. n \in Nat /\ DOMAIN text = 1 .. n
    BY LenProperties
  <1>2. PICK from : Reads(from, n, text, Words) /\ Lexemes(text, Words) = from[1]
    BY <1>1, LexemesAre
  <1>3. PICK comments : Reads(comments, n, text, {"comment"}) /\ Lexemes(text, {"comment"}) = comments[1]
    BY <1>1, LexemesAre
  <1>4. Tells(from, comments, text, n)
    BY <1>1, <1>2, <1>3 DEF Tells
  <1>5. words = from[1]
    BY <1>2 DEF Meaning, Words
  <1>6. StaysOpen(text) <=> HasOpen(comments[1])
    BY <1>3 DEF StaysOpen, HasOpen
  <1>7. (BeginsWithWord => "_" \notin ToSet(words[1].of)) =>
          (StatementIsInsert(text) <=> BeginsWithWord /\ words[1].of = Insert)
    BY <1>4, <1>5, InsertIs
  <1>8. /\ IsSizePragma(words) => ContainsPageLimitMutation(text)
        /\ ContainsPageLimitMutation(text) => IsSizePragma(words) \/ StaysOpen(text)
    BY <1>4, <1>5, <1>6, SizePragmaIs
  <1> HIDE DEF words
  <1>. QED  BY <1>7, <1>8 DEF StatementsAreRecognised, words

-----------------------------------------------------------------------------
(* The specification                                                       *)

TextInv == TextTypeOK /\ text \in Seq(STRING)

LEMMA TextInitInv == TextInit \/ TextRests => TextInv
  <1>1. ASSUME TextInit PROVE TextInv
    BY <1>1, TextAssumption DEF TextInit, TextInv, TextTypeOK
  <1>2. ASSUME TextRests PROVE TextInv
    <2>1. family \in Families /\ text = << >>
      BY <1>2, TextAssumption DEF TextRests
    <2>2. MaxText[family] \in Nat
      BY <2>1, TextAssumption
    <2>3. text \in Seq(STRING) /\ Len(text) = 0
      BY <2>1
    <2>. QED  BY <2>1, <2>2, <2>3 DEF TextInv, TextTypeOK
  <1>. QED  BY <1>1, <1>2

LEMMA TextNextInv ==
    ASSUME TextInv, GrowText \/ UNCHANGED textVars
    PROVE  TextInv'
  <1>1. CASE UNCHANGED textVars
    BY <1>1 DEF textVars, TextInv, TextTypeOK
  <1>2. CASE GrowText
    <2>1. PICK token \in Alphabet[family] :
            /\ Len(text) + Len(token) <= MaxText[family]
            /\ text' = text \o token /\ family' = family
      BY <1>2 DEF GrowText
    <2>2. token \in Seq(STRING) /\ text \in Seq(STRING) /\ family \in Families
      BY <2>1, TextAssumption DEF TextInv, TextTypeOK
    <2>3. text \o token \in Seq(STRING) /\ Len(text \o token) = Len(text) + Len(token)
      BY <2>2, ConcatProperties
    <2>. QED  BY <2>1, <2>2, <2>3 DEF TextInv, TextTypeOK
  <1>. QED  BY <1>1, <1>2

(* Each part keeps to its own while the others rest.                       *)
AlgorithmsInv == ImportInv /\ TextInv /\ ListingInv

(* Throughout, an import holds the winners among the rows it has counted,  *)
(* a listing all files of the directories it has read (or was cut short).  *)
THEOREM AlgorithmsInvCorrect == Spec => []AlgorithmsInv
  <1>1. Init => AlgorithmsInv
    BY ImportInitInv, TextInitInv, ListingInitInv DEF Init, AlgorithmsInv
  <1>2. AlgorithmsInv /\ [Next]_vars => AlgorithmsInv'
    <2>1. SUFFICES ASSUME AlgorithmsInv, [Next]_vars PROVE AlgorithmsInv'
      OBVIOUS
    <2>2. /\ ImportNext \/ UNCHANGED importVars
          /\ GrowText \/ UNCHANGED textVars
          /\ ListingNext \/ UNCHANGED listingVars
      BY <2>1 DEF Next, vars
    <2>. QED  BY <2>1, <2>2, ImportNextInv, TextNextInv, ListingNextInv DEF AlgorithmsInv
  <1>. QED  BY <1>1, <1>2, PTL DEF Spec

(* The variables of an import, of a scanned text and of a listing keep to  *)
(* their types: no row lacks a column of its table, no more rows are       *)
(* counted than were read, no listing grows beyond its limit.              *)
THEOREM TypeCorrect == Spec => []TypeOK
  <1>1. AlgorithmsInv => TypeOK
    <2>1. ListingInv => ListingTypeOK
      <3>1. ASSUME ListingInv PROVE ToSet(stack) \subseteq Dirs
        BY <3>1, ElementOfSeq, LenProperties DEF ListingInv, ToSet
      <3>. QED  BY <3>1 DEF ListingInv, ListingTypeOK, Items
    <2>. QED  BY <2>1, InvImportTypeOK DEF AlgorithmsInv, TextInv, TypeOK
  <1>. QED  BY <1>1, AlgorithmsInvCorrect, PTL

(* A successful db_import leaves the rows that were to stay and those      *)
(* given, in order and each field in the column of its name, but for rows  *)
(* whose key another has taken (`ignore`) or takes (`replace`), and counts *)
(* them so; one that fails leaves the table and the file as they were.     *)
THEOREM ExactCorrect == Spec => []ImportIsExact
  <1>1. AlgorithmsInv => ImportIsExact
    BY InvImportIsExact DEF AlgorithmsInv
  <1>. QED  BY <1>1, AlgorithmsInvCorrect, PTL

(* A column whose type infer_column_type has chosen keeps values of one    *)
(* kind as they are and numbers numbers, wherever NULLs are among them.    *)
THEOREM KindsCorrect == Spec => []ValuesKeepTheirKinds
  <1>1. AlgorithmsInv => ValuesKeepTheirKinds
    BY InvValuesKeepTheirKinds DEF AlgorithmsInv
  <1>. QED  BY <1>1, AlgorithmsInvCorrect, PTL

(* No db_import succeeds with a file above SQLITE_MAX_DB_BYTES, although   *)
(* enforce_db_size_limit looks at the file before COMMIT has written it.   *)
THEOREM LimitCorrect == Spec => []ImportsStayWithinLimit
  <1>1. AlgorithmsInv => ImportsStayWithinLimit
    BY DEF AlgorithmsInv, ImportInv, ImportsStayWithinLimit
  <1>. QED  BY <1>1, AlgorithmsInvCorrect, PTL

(* split_sql_statements splits a text of any length at its semicolons and  *)
(* at nothing else: not in literals, whatever quotes they double, and not  *)
(* in comments.                                                            *)
THEOREM SplitCorrect == Spec => []StatementsAreSplit
  <1>1. AlgorithmsInv => StatementsAreSplit
    BY TextIsSplit DEF AlgorithmsInv, TextInv
  <1>. QED  BY <1>1, AlgorithmsInvCorrect, PTL

(* The name of the protected table is found in a text of any length        *)
(* exactly where it stands as a word of its own; where it is quoted it is  *)
(* passed over, although SQLite takes it for the table.                    *)
THEOREM NamesCorrect == Spec => []UnquotedNamesAreFound
  <1>1. AlgorithmsInv => UnquotedNamesAreFound
    BY NamesInText DEF AlgorithmsInv, TextInv
  <1>. QED  BY <1>1, AlgorithmsInvCorrect, PTL

(* The search for load_extension gets to its end in every text, however    *)
(* long, that keeps characters that are not ASCII to literals and          *)
(* comments, and finds the call exactly if the name is a word that is      *)
(* followed by a parenthesis, whatever blanks and comments lie between.    *)
THEOREM ScansCorrect == Spec => []ScansAnswer
  <1>1. AlgorithmsInv => ScansAnswer
    BY CallsInText DEF AlgorithmsInv, TextInv
  <1>. QED  BY <1>1, AlgorithmsInvCorrect, PTL

(* In a text of any length the first word tells an INSERT, and the pragmas *)
(* of the size of a database are found, whatever comments, blanks and      *)
(* quotes they are written with; none is seen that is not there, unless a  *)
(* comment is left open.                                                   *)
THEOREM RecognisedCorrect == Spec => []StatementsAreRecognised
  <1>1. AlgorithmsInv => StatementsAreRecognised
    BY TextIsRecognised DEF AlgorithmsInv, TextInv
  <1>. QED  BY <1>1, AlgorithmsInvCorrect, PTL

(* The answer of list_persisted_entries has files only, each once and in   *)
(* order, as many as there are or the limit allows, and `truncated` says   *)
(* exactly whether a file is missing.                                      *)
THEOREM HonestCorrect == Spec => []ListingIsHonest
  <1>1. AlgorithmsInv => ListingIsHonest
    BY DEF AlgorithmsInv, ListingInv
  <1>. QED  BY <1>1, AlgorithmsInvCorrect, PTL
=============================================================================
