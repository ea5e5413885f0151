-------------------------- MODULE Metering_proofs --------------------------
(***************************************************************************)
(* Proofs about the gateway's token ledger, for every number of requests,  *)
(* subscriptions and credits, every allowance, price and period: its       *)
(* counters agree with its rows, overage comes last, and it implements     *)
(* TokenAccount.  The sums over sets that the model folds come first.      *)
(***************************************************************************)
EXTENDS Metering, FiniteSetTheorems, NaturalsInduction, WellFoundedInduction, TLAPS

----------------------------------------------------------------------------
(* Sums over finite sets. *)

(* A set of numbers that is not empty has a least one: what the proofs by  *)
(* induction below rest on.                                                 *)
LEMMA LeastNat ==
    ASSUME NEW S, S \subseteq Nat, S # {}
    PROVE  \E x \in S : \A y \in S : x <= y
  <1> DEFINE R == OpToRel(<, Nat)
  <1>1. IsWellFoundedOn(R, Nat)
    BY NatLessThanWellFounded
  <1>2. \A x, y \in Nat : y < x => <<y, x>> \in R
    BY DEF OpToRel
  <1> HIDE DEF R
  <1>3. PICK x \in S : \A y \in S : ~ (<<y, x>> \in R)
    BY <1>1, WFMin
  <1>4. ASSUME NEW y \in S PROVE x <= y
    <2>1. x \in Nat /\ y \in Nat
      OBVIOUS
    <2>2. ~ (y < x)
      BY <1>2, <1>3, <2>1, Zenon
    <2> QED
      BY <2>1, <2>2
  <1> QED
    BY <1>4

(* A collection of finite sets that is not empty has a member none of whose *)
(* proper subsets belongs to it.                                            *)
LEMMA MinimalSet ==
    ASSUME NEW U, IsFiniteSet(U), NEW Bad, Bad \subseteq SUBSET U, Bad # {}
    PROVE  \E S \in Bad : \A T \in SUBSET S : T # S => T \notin Bad
  <1> DEFINE Sizes == {n \in Nat : \E S \in Bad : Cardinality(S) = n}
  <1>1. \A S \in SUBSET U : IsFiniteSet(S) /\ Cardinality(S) \in Nat
    BY FS_Subset, FS_CardinalityType
  <1>2. Sizes # {} /\ Sizes \subseteq Nat
    BY <1>1
  <1>3. PICK n \in Sizes : \A m \in Sizes : n <= m
    <2> HIDE DEF Sizes
    <2> QED
      BY <1>2, LeastNat
  <1>4. PICK S \in Bad : Cardinality(S) = n
    OBVIOUS
  <1>5. ASSUME NEW T \in SUBSET S, T # S, T \in Bad PROVE FALSE
    <2>1. Cardinality(T) < Cardinality(S)
      BY <1>1, <1>5, FS_Subset
    <2>2. Cardinality(T) \in Sizes
      BY <1>1, <1>5
    <2> QED
      BY <1>1, <1>3, <1>4, <2>1, <2>2
  <1> QED
    BY <1>5

(* The member of a set that a fold takes next. *)
Some(s) == CHOOSE x \in s : TRUE

(* g holds the sums of f over the subsets of S. *)
SumsTo(g, f, S) ==
    g = [s \in SUBSET S |-> IF s = {} THEN 0
                            ELSE f[Some(s)] + g[s \ {Some(s)}]]

(* The same, as far as the sets of at most n elements.                      *)
SumsUpTo(g, f, S, n) ==
    g = [s \in SUBSET S |-> IF s = {} \/ Cardinality(s) > n THEN 0
                            ELSE f[Some(s)] + g[s \ {Some(s)}]]

(* There is such a table for every finite set. *)
LEMMA SumsExist ==
    ASSUME NEW f, NEW S, IsFiniteSet(S) PROVE \E g : SumsTo(g, f, S)
  <1> DEFINE Bad == {n \in Nat : ~ \E g : SumsUpTo(g, f, S, n)}
  <1>1. \A s \in SUBSET S : IsFiniteSet(s) /\ Cardinality(s) \in Nat /\ Cardinality(s) <= Cardinality(S)
    BY FS_Subset, FS_CardinalityType
  <1>2. \A s \in SUBSET S : s # {} =>
            /\ Some(s) \in s
            /\ s \ {Some(s)} \in SUBSET S
            /\ Cardinality(s \ {Some(s)}) = Cardinality(s) - 1
    <2>1. \A s : s # {} => Some(s) \in s
      BY DEF Some
    <2> QED
      BY <1>1, <2>1, FS_RemoveElement
  <1>3. \A s \in SUBSET S : Cardinality(s) = 0 => s = {}
    BY <1>1, FS_EmptySet
  <1>4. Bad = {}
    <2> SUFFICES ASSUME Bad # {} PROVE FALSE
      OBVIOUS
    <2>1. PICK m \in Bad : \A y \in Bad : m <= y
      <3>1. Bad \subseteq Nat
        OBVIOUS
      <3> HIDE DEF Bad
      <3> QED
        BY <3>1, LeastNat
    <2>2. CASE m = 0
      <3> DEFINE g == [s \in SUBSET S |-> 0]
      <3>1. SumsUpTo(g, f, S, 0)
        <4>1. \A s \in SUBSET S : s = {} \/ Cardinality(s) > 0
          BY <1>1, <1>3
        <4> QED
          BY <4>1 DEF SumsUpTo
      <3> QED
        BY <2>2, <3>1
    <2>3. CASE m # 0
      <3>1. m - 1 \in Nat /\ m - 1 \notin Bad
        BY <2>1, <2>3
      <3>2. PICK h : SumsUpTo(h, f, S, m - 1)
        BY <3>1
      <3> DEFINE g == [s \in SUBSET S |->
                          IF s = {} \/ Cardinality(s) > m THEN 0
                          ELSE f[Some(s)] + h[s \ {Some(s)}]]
      <3>3. ASSUME NEW s \in SUBSET S, Cardinality(s) <= m - 1 PROVE g[s] = h[s]
        <4>1. g[s] = IF s = {} THEN 0 ELSE f[Some(s)] + h[s \ {Some(s)}]
          BY <1>1, <3>1, <3>3
        <4>2. h[s] = IF s = {} \/ Cardinality(s) > m - 1 THEN 0 ELSE f[Some(s)] + h[s \ {Some(s)}]
          BY <3>2 DEF SumsUpTo
        <4> QED
          BY <1>1, <3>1, <3>3, <4>1, <4>2
      <3>4. ASSUME NEW s \in SUBSET S
            PROVE  g[s] = IF s = {} \/ Cardinality(s) > m THEN 0 ELSE f[Some(s)] + g[s \ {Some(s)}]
        <4>1. CASE s # {} /\ ~ (Cardinality(s) > m)
          <5>1. s \ {Some(s)} \in SUBSET S /\ Cardinality(s \ {Some(s)}) <= m - 1
            BY <1>1, <1>2, <3>1, <4>1
          <5>2. g[s \ {Some(s)}] = h[s \ {Some(s)}]
            BY <3>3, <5>1
          <5> QED
            BY <4>1, <5>2
        <4>2. CASE s = {} \/ Cardinality(s) > m
          BY <4>2
        <4> QED
          BY <4>1, <4>2
      <3>5. SumsUpTo(g, f, S, m)
        <4>1. g = [s \in SUBSET S |-> g[s]]
          OBVIOUS
        <4> HIDE DEF g
        <4> QED
          BY <3>4, <4>1 DEF SumsUpTo
      <3> QED
        BY <3>5
    <2> QED
      BY <2>2, <2>3
  <1>5. Cardinality(S) \in Nat /\ Cardinality(S) \notin Bad
    BY <1>4, FS_CardinalityType
  <1>6. PICK g : SumsUpTo(g, f, S, Cardinality(S))
    BY <1>5
  <1>7. \A s \in SUBSET S : ~ (Cardinality(s) > Cardinality(S))
    BY <1>1, <1>5
  <1>8. g = [s \in SUBSET S |-> g[s]]
    BY <1>6 DEF SumsUpTo
  <1>9. \A s \in SUBSET S : g[s] = IF s = {} THEN 0
                            ELSE f[Some(s)] + g[s \ {Some(s)}]
    BY <1>6, <1>7 DEF SumsUpTo
  <1> QED
    BY <1>8, <1>9 DEF SumsTo

(* Total is one entry of it. *)
LEMMA TotalIsSum ==
    ASSUME NEW f, NEW S, IsFiniteSet(S)
    PROVE  \E g : SumsTo(g, f, S) /\ Total(f, S) = g[S]
  <1> DEFINE P(g) == g = [s \in SUBSET S |-> IF s = {} THEN 0
                                            ELSE f[Some(s)] + g[s \ {Some(s)}]]
  <1>1. \E g : P(g)
    <2>1. PICK g : SumsTo(g, f, S)
      BY SumsExist
    <2>2. P(g)
      BY <2>1 DEF SumsTo
    <2> QED
      BY <2>2
  <1>2. P(CHOOSE g : P(g))
    <2> HIDE DEF P
    <2> QED
      BY <1>1
  <1>3. Total(f, S) = (CHOOSE g : P(g))[S]
    BY DEF Total, FoldFunctionOnSet, MapThenFoldSet, Some
  <1> QED
    BY <1>2, <1>3 DEF SumsTo

(* Tables of functions that agree on a set agree there. *)
LEMMA SumsAgree ==
    ASSUME NEW S, IsFiniteSet(S), NEW T \in SUBSET S, NEW f, NEW g, NEW a, NEW b,
           SumsTo(a, f, S), SumsTo(b, g, T), \A x \in T : f[x] = g[x]
    PROVE  \A s \in SUBSET T : a[s] = b[s]
  <1> DEFINE Bad == {s \in SUBSET T : a[s] # b[s]}
  <1> SUFFICES ASSUME Bad # {} PROVE FALSE
    OBVIOUS
  <1>1. PICK s \in Bad : \A t \in SUBSET s : t # s => t \notin Bad
    <2>1. Bad \subseteq SUBSET T /\ IsFiniteSet(T)
      BY FS_Subset
    <2> HIDE DEF Bad
    <2> QED
      BY <2>1, MinimalSet
  <1> DEFINE c == Some(s)
  <1>2. /\ a[s] = IF s = {} THEN 0 ELSE f[c] + a[s \ {c}]
        /\ b[s] = IF s = {} THEN 0 ELSE g[c] + b[s \ {c}]
    BY DEF SumsTo
  <1>3. s # {}
    BY <1>2
  <1>4. c \in s
    BY <1>3 DEF Some
  <1>5. s \ {c} \in SUBSET s /\ s \ {c} # s /\ s \ {c} \in SUBSET T /\ f[c] = g[c]
    BY <1>4
  <1>6. a[s \ {c}] = b[s \ {c}]
    BY <1>1, <1>5
  <1> QED
    BY <1>2, <1>3, <1>5, <1>6

(* Sums of naturals are naturals. *)
LEMMA SumsType ==
    ASSUME NEW S, IsFiniteSet(S), NEW f, NEW g, SumsTo(g, f, S), \A x \in S : f[x] \in Nat
    PROVE  \A s \in SUBSET S : g[s] \in Nat
  <1> DEFINE Bad == {s \in SUBSET S : g[s] \notin Nat}
  <1> SUFFICES ASSUME Bad # {} PROVE FALSE
    OBVIOUS
  <1>1. PICK s \in Bad : \A t \in SUBSET s : t # s => t \notin Bad
    <2>1. Bad \subseteq SUBSET S
      OBVIOUS
    <2> HIDE DEF Bad
    <2> QED
      BY <2>1, MinimalSet
  <1> DEFINE c == Some(s)
  <1>2. g[s] = IF s = {} THEN 0 ELSE f[c] + g[s \ {c}]
    BY DEF SumsTo
  <1>3. s # {}
    BY <1>2
  <1>4. c \in s
    BY <1>3 DEF Some
  <1>5. g[s \ {c}] \in Nat /\ f[c] \in Nat
    BY <1>1, <1>4
  <1> QED
    BY <1>2, <1>3, <1>5

(* The order in which a sum is taken does not matter. *)
LEMMA SumsRemove ==
    ASSUME NEW S, IsFiniteSet(S), NEW f, NEW g, SumsTo(g, f, S), \A x \in S : f[x] \in Nat
    PROVE  \A s \in SUBSET S : \A x \in s : g[s] = f[x] + g[s \ {x}]
  <1> DEFINE Bad == {s \in SUBSET S : ~ \A x \in s : g[s] = f[x] + g[s \ {x}]}
  <1> SUFFICES ASSUME Bad # {} PROVE FALSE
    OBVIOUS
  <1>1. PICK s \in Bad : \A t \in SUBSET s : t # s => t \notin Bad
    <2>1. Bad \subseteq SUBSET S
      OBVIOUS
    <2> HIDE DEF Bad
    <2> QED
      BY <2>1, MinimalSet
  <1>2. PICK x \in s : g[s] # f[x] + g[s \ {x}]
    OBVIOUS
  <1>3. PICK c : c = Some(s)
    OBVIOUS
  <1>4. c \in s
    BY <1>2, <1>3 DEF Some
  <1>5. g[s] = f[c] + g[s \ {c}]
    BY <1>2, <1>3 DEF SumsTo
  <1>6. c # x
    BY <1>2, <1>5
  <1>7. g[s \ {c}] = f[x] + g[(s \ {c}) \ {x}]
    <2>1. s \ {c} \in SUBSET s /\ s \ {c} # s /\ s \ {c} \in SUBSET S /\ x \in s \ {c}
      BY <1>4, <1>6
    <2> QED
      BY <1>1, <2>1
  <1>8. g[s \ {x}] = f[c] + g[(s \ {x}) \ {c}]
    <2>1. s \ {x} \in SUBSET s /\ s \ {x} # s /\ s \ {x} \in SUBSET S /\ c \in s \ {x}
      BY <1>4, <1>6
    <2> QED
      BY <1>1, <2>1
  <1>9. (s \ {c}) \ {x} = (s \ {x}) \ {c}
    OBVIOUS
  <1>10. PICK r : r = g[(s \ {x}) \ {c}] /\ r \in Nat
    <2>1. (s \ {x}) \ {c} \in SUBSET S
      OBVIOUS
    <2> QED
      BY <2>1, SumsType
  <1>11. f[x] \in Nat /\ f[c] \in Nat
    BY <1>4
  <1>12. g[s] = f[c] + (f[x] + r) /\ g[s \ {x}] = f[c] + r
    BY <1>5, <1>7, <1>8, <1>9, <1>10
  <1> QED
    BY <1>2, <1>10, <1>11, <1>12

(* What the modules use of Total. *)
LEMMA TotalEmpty == ASSUME NEW f PROVE Total(f, {}) = 0
  <1>1. IsFiniteSet({})
    BY FS_EmptySet
  <1>2. PICK g : SumsTo(g, f, {}) /\ Total(f, {}) = g[{}]
    BY <1>1, TotalIsSum
  <1> QED
    BY <1>2 DEF SumsTo

(* The total of naturals is a natural. *)
LEMMA TotalType ==
    ASSUME NEW S, IsFiniteSet(S), NEW f, \A x \in S : f[x] \in Nat PROVE Total(f, S) \in Nat
  <1>1. PICK g : SumsTo(g, f, S) /\ Total(f, S) = g[S]
    BY TotalIsSum
  <1> QED
    BY <1>1, SumsType

(* Functions that agree on a set have one total there. *)
LEMMA TotalSame ==
    ASSUME NEW S, IsFiniteSet(S), NEW f, NEW g, \A x \in S : f[x] = g[x]
    PROVE  Total(f, S) = Total(g, S)
  <1>1. PICK a : SumsTo(a, f, S) /\ Total(f, S) = a[S]
    BY TotalIsSum
  <1>2. PICK b : SumsTo(b, g, S) /\ Total(g, S) = b[S]
    BY TotalIsSum
  <1>3. S \in SUBSET S
    OBVIOUS
  <1>4. \A s \in SUBSET S : a[s] = b[s]
    BY <1>1, <1>2, <1>3, SumsAgree
  <1> QED
    BY <1>1, <1>2, <1>3, <1>4

(* A total is one summand and the total of the others. *)
LEMMA TotalRemove ==
    ASSUME NEW S, IsFiniteSet(S), NEW f, \A x \in S : f[x] \in Nat, NEW x \in S
    PROVE  Total(f, S) = f[x] + Total(f, S \ {x})
  <1>1. PICK a : SumsTo(a, f, S) /\ Total(f, S) = a[S]
    BY TotalIsSum
  <1> DEFINE T == S \ {x}
  <1>2. T \in SUBSET S /\ IsFiniteSet(T)
    BY FS_Subset
  <1> HIDE DEF T
  <1>3. PICK b : SumsTo(b, f, T) /\ Total(f, T) = b[T]
    BY <1>2, TotalIsSum
  <1>4. a[T] = b[T]
    <2>1. \A s \in SUBSET T : a[s] = b[s]
      BY <1>1, <1>2, <1>3, SumsAgree
    <2> QED
      BY <2>1
  <1>5. a[S] = f[x] + a[S \ {x}]
    BY <1>1, SumsRemove
  <1> QED
    BY <1>1, <1>3, <1>4, <1>5 DEF T

(* The total over a part is no greater than the total. *)
LEMMA TotalGrows ==
    ASSUME NEW T, IsFiniteSet(T), NEW f, \A x \in T : f[x] \in Nat, NEW S \in SUBSET T
    PROVE  Total(f, S) <= Total(f, T)
  <1> DEFINE Bad == {s \in SUBSET T : S \subseteq s /\ ~ (Total(f, S) <= Total(f, s))}
  <1> SUFFICES ASSUME Bad # {} PROVE FALSE
    OBVIOUS
  <1>1. PICK s \in Bad : \A t \in SUBSET s : t # s => t \notin Bad
    <2>1. Bad \subseteq SUBSET T
      OBVIOUS
    <2> HIDE DEF Bad
    <2> QED
      BY <2>1, MinimalSet
  <1>2. \A t \in SUBSET T : IsFiniteSet(t) /\ Total(f, t) \in Nat
    BY FS_Subset, TotalType
  <1>3. s # S
    BY <1>1, <1>2
  <1>4. PICK x \in s : x \notin S
    BY <1>1, <1>3
  <1>5. s \ {x} \in SUBSET s /\ s \ {x} # s /\ s \ {x} \in SUBSET T /\ S \subseteq s \ {x}
    BY <1>1, <1>4
  <1>6. Total(f, S) <= Total(f, s \ {x})
    BY <1>1, <1>5
  <1>7. Total(f, s) = f[x] + Total(f, s \ {x})
    BY <1>1, <1>2, TotalRemove
  <1>8. f[x] \in Nat /\ Total(f, S) \in Nat /\ Total(f, s \ {x}) \in Nat /\ Total(f, s) \in Nat
    BY <1>1, <1>2, <1>5
  <1> QED
    BY <1>1, <1>6, <1>7, <1>8

(* The total of a sum is the sum of the totals. *)
LEMMA TotalAdd ==
    ASSUME NEW U, IsFiniteSet(U), NEW f, NEW g, NEW h,
           \A x \in U : f[x] \in Nat /\ g[x] \in Nat /\ h[x] = f[x] + g[x]
    PROVE  \A S \in SUBSET U : Total(h, S) = Total(f, S) + Total(g, S)
  <1> DEFINE Bad == {s \in SUBSET U : Total(h, s) # Total(f, s) + Total(g, s)}
  <1> SUFFICES ASSUME Bad # {} PROVE FALSE
    OBVIOUS
  <1>1. PICK s \in Bad : \A t \in SUBSET s : t # s => t \notin Bad
    <2>1. Bad \subseteq SUBSET U
      OBVIOUS
    <2> HIDE DEF Bad
    <2> QED
      BY <2>1, MinimalSet
  <1>2. \A t \in SUBSET U : IsFiniteSet(t) /\ Total(f, t) \in Nat /\ Total(g, t) \in Nat
    BY FS_Subset, TotalType
  <1>3. s # {}
    <2>1. Total(f, {}) = 0 /\ Total(g, {}) = 0 /\ Total(h, {}) = 0
      BY TotalEmpty
    <2>2. s \in SUBSET U /\ Total(h, s) # Total(f, s) + Total(g, s)
      BY <1>1
    <2>3. s = {} => Total(h, s) = 0 /\ Total(f, s) = 0 /\ Total(g, s) = 0
      BY <2>1, Zenon
    <2>4. 0 = 0 + 0
      OBVIOUS
    <2> QED
      BY <2>2, <2>3, <2>4
  <1>4. PICK x \in s : TRUE
    BY <1>3
  <1>5. s \ {x} \in SUBSET s /\ s \ {x} # s /\ s \ {x} \in SUBSET U
    BY <1>1, <1>4
  <1>6. Total(h, s \ {x}) = Total(f, s \ {x}) + Total(g, s \ {x})
    BY <1>1, <1>5
  <1>7. \A y \in s : f[y] \in Nat /\ g[y] \in Nat /\ h[y] \in Nat /\ h[y] = f[y] + g[y]
    BY <1>1
  <1>8. Total(h, s) = h[x] + Total(h, s \ {x})
    BY <1>1, <1>2, <1>7, TotalRemove
  <1>9. Total(f, s) = f[x] + Total(f, s \ {x}) /\ Total(g, s) = g[x] + Total(g, s \ {x})
    BY <1>1, <1>2, <1>7, TotalRemove
  <1>10. Total(f, s \ {x}) \in Nat /\ Total(g, s \ {x}) \in Nat
    BY <1>2, <1>5
  <1> QED
    BY <1>1, <1>6, <1>7, <1>8, <1>9, <1>10

(* A function below another has the smaller total. *)
LEMMA TotalLess ==
    ASSUME NEW U, IsFiniteSet(U), NEW f, NEW g,
           \A x \in U : f[x] \in Nat /\ g[x] \in Nat /\ f[x] <= g[x]
    PROVE  Total(f, U) <= Total(g, U)
  <1> DEFINE d == [x \in U |-> g[x] - f[x]]
  <1>1. \A x \in U : f[x] \in Nat /\ d[x] \in Nat /\ g[x] = f[x] + d[x]
    OBVIOUS
  <1> HIDE DEF d
  <1>2. Total(g, U) = Total(f, U) + Total(d, U)
    BY <1>1, TotalAdd
  <1>3. Total(f, U) \in Nat /\ Total(d, U) \in Nat
    BY <1>1, TotalType
  <1> QED
    BY <1>2, <1>3

(* What adds nothing may be left out. *)
LEMMA TotalOfZeros ==
    ASSUME NEW T, IsFiniteSet(T), NEW f, \A x \in T : f[x] \in Nat,
           NEW S \in SUBSET T, \A x \in T \ S : f[x] = 0
    PROVE  Total(f, T) = Total(f, S)
  <1> DEFINE Bad == {s \in SUBSET T : S \subseteq s /\ Total(f, s) # Total(f, S)}
  <1> SUFFICES ASSUME Bad # {} PROVE FALSE
    OBVIOUS
  <1>1. PICK s \in Bad : \A t \in SUBSET s : t # s => t \notin Bad
    <2>1. Bad \subseteq SUBSET T
      OBVIOUS
    <2> HIDE DEF Bad
    <2> QED
      BY <2>1, MinimalSet
  <1>2. \A t \in SUBSET T : IsFiniteSet(t) /\ Total(f, t) \in Nat
    BY FS_Subset, TotalType
  <1>3. s # S
    BY <1>1, Zenon
  <1>4. PICK x \in s : x \notin S
    BY <1>1, <1>3
  <1>5. s \ {x} \in SUBSET s /\ s \ {x} # s /\ s \ {x} \in SUBSET T /\ S \subseteq s \ {x}
    BY <1>1, <1>4
  <1>6. Total(f, s \ {x}) = Total(f, S)
    BY <1>1, <1>5
  <1>7. Total(f, s) = f[x] + Total(f, s \ {x})
    BY <1>1, <1>2, TotalRemove
  <1>8. f[x] = 0 /\ Total(f, S) \in Nat /\ Total(f, s \ {x}) \in Nat
    BY <1>1, <1>2, <1>4, <1>5
  <1> QED
    BY <1>1, <1>6, <1>7, <1>8

----------------------------------------------------------------------------
(* A charge takes the credits in the order in which they end. *)

(* The rows of the two tables. *)
SubRow == [status : {"active", "cancelled"}, used : Nat, limit : Nat, overUsed : Nat,
           cap : Nat, overage : BOOLEAN, end : Nat]
CreditRow == [amount : Nat, consumed : Nat, expires : Nat, exhausted : BOOLEAN]

(* What is left of a credit. *)
Rest == [c \in DOMAIN credits |-> credits[c].amount - credits[c].consumed]

(* No credit gives more than it has, and one is exhausted when it has given *)
(* that.                                                                    *)
CreditsOK ==
    /\ credits \in Seq(CreditRow) /\ Len(credits) <= MaxCredit
    /\ \A c \in DOMAIN credits : /\ credits[c].consumed <= credits[c].amount
                                 /\ credits[c].exhausted <=> credits[c].consumed = credits[c].amount

(* What CreditsOK says, in the form the proofs use. *)
LEMMA CreditTypes ==
    ASSUME CreditsOK
    PROVE  /\ Len(credits) \in Nat /\ DOMAIN credits = 1..Len(credits)
           /\ DOMAIN credits \subseteq CreditId /\ DOMAIN credits \subseteq Nat
           /\ IsFiniteSet(CreditId) /\ IsFiniteSet(DOMAIN credits) /\ IsFiniteSet(LiveCredits)
           /\ \A c \in DOMAIN credits : /\ credits[c] \in CreditRow /\ Rest[c] \in Nat
                                        /\ Rest[c] = 0 <=> credits[c].exhausted
  <1>1. /\ \A S : \A q \in Seq(S) : Len(q) \in Nat /\ DOMAIN q = 1..Len(q) /\ \A n \in DOMAIN q : q[n] \in S
    OBVIOUS
  <1>2. /\ Len(credits) \in Nat /\ DOMAIN credits = 1..Len(credits)
        /\ \A c \in DOMAIN credits : credits[c] \in CreditRow
    BY <1>1, Zenon DEF CreditsOK
  <1>3. DOMAIN credits \subseteq CreditId
    BY <1>2, MeteringAssumption DEF CreditsOK, CreditId
  <1>4. IsFiniteSet(CreditId)
    BY FS_Interval, MeteringAssumption DEF CreditId
  <1>5. IsFiniteSet(DOMAIN credits) /\ IsFiniteSet(LiveCredits)
    BY <1>3, <1>4, FS_Subset DEF LiveCredits
  <1>6. ASSUME NEW c \in DOMAIN credits PROVE Rest[c] \in Nat /\ (Rest[c] = 0 <=> credits[c].exhausted)
    BY <1>2 DEF CreditsOK, CreditRow, Rest
  <1> QED
    BY <1>2, <1>3, <1>4, <1>5, <1>6

(* Of two credits one comes first, and a set of credits has a last. *)
LEMMA BeforeTotal ==
    ASSUME CreditsOK
    PROVE  /\ \A c, d \in DOMAIN credits : c # d => Before(c, d) \/ Before(d, c)
           /\ \A c \in DOMAIN credits : ~Before(c, c)
           /\ \A c, d, e \in DOMAIN credits : Before(c, d) /\ Before(d, e) => Before(c, e)
  <1>1. \A c \in DOMAIN credits : c \in Nat /\ credits[c].expires \in Nat
    BY CreditTypes DEF CreditRow
  <1> QED
    BY <1>1 DEF Before

(* A set of credits that is not empty has a last one. *)
LEMMA LastCredit ==
    ASSUME CreditsOK, NEW S \in SUBSET DOMAIN credits, S # {}
    PROVE  \E m \in S : \A c \in S \ {m} : Before(c, m)
  <1> DEFINE Bad == {s \in SUBSET DOMAIN credits : s # {} /\ ~ \E m \in s : \A c \in s \ {m} : Before(c, m)}
  <1> SUFFICES ASSUME Bad # {} PROVE FALSE
    OBVIOUS
  <1>1. PICK s \in Bad : \A t \in SUBSET s : t # s => t \notin Bad
    <2>1. Bad \subseteq SUBSET DOMAIN credits
      OBVIOUS
    <2> HIDE DEF Bad
    <2> QED
      BY <2>1, MinimalSet, CreditTypes
  <1>2. PICK x \in s : TRUE
    OBVIOUS
  <1>3. s \ {x} # {}
    BY <1>2
  <1>4. s \ {x} \in SUBSET s /\ s \ {x} # s /\ s \ {x} \in SUBSET DOMAIN credits
    BY <1>2
  <1>5. PICK m \in s \ {x} : \A c \in (s \ {x}) \ {m} : Before(c, m)
    BY <1>1, <1>3, <1>4
  <1>6. x \in DOMAIN credits /\ m \in DOMAIN credits /\ x # m
    BY <1>2, <1>5
  <1>7. CASE Before(x, m)
    BY <1>5, <1>7
  <1>8. CASE Before(m, x)
    <2>1. \A c \in s \ {x} : Before(c, x)
      BY <1>5, <1>6, <1>8, BeforeTotal
    <2> QED
      BY <2>1
  <1> QED
    BY <1>6, <1>7, <1>8, BeforeTotal

Earlier(c) == {d \in LiveCredits : Before(d, c)}

(* TakeFrom takes no more than is left of the credit. *)
LEMMA TakeFromRest ==
    ASSUME CreditsOK, NEW c \in LiveCredits, NEW cost \in Nat
    PROVE  /\ Total(Rest, Earlier(c)) \in Nat
           /\ TakeFrom(c, cost) = Smaller(Rest[c], Less(cost, Total(Rest, Earlier(c))))
           /\ TakeFrom(c, cost) \in Nat /\ TakeFrom(c, cost) <= Rest[c]
  <1>1. LiveCredits \subseteq DOMAIN credits /\ IsFiniteSet(Earlier(c)) /\ Earlier(c) \subseteq LiveCredits
    BY CreditTypes, FS_Subset DEF LiveCredits, Earlier
  <1> DEFINE rest == [d \in LiveCredits |-> credits[d].amount - credits[d].consumed]
  <1>2. \A d \in LiveCredits : rest[d] = Rest[d] /\ Rest[d] \in Nat
    BY <1>1, CreditTypes DEF Rest
  <1>3. TakeFrom(c, cost) = Smaller(Rest[c], Less(cost, Total(rest, Earlier(c))))
    BY <1>1 DEF TakeFrom, Earlier, Rest
  <1> HIDE DEF rest
  <1>4. Total(rest, Earlier(c)) = Total(Rest, Earlier(c)) /\ Total(Rest, Earlier(c)) \in Nat
    <2>1. \A d \in Earlier(c) : rest[d] = Rest[d] /\ Rest[d] \in Nat
      BY <1>1, <1>2
    <2> QED
      BY <1>1, <2>1, TotalSame, TotalType
  <1>5. PICK t \in Nat : t = Total(Rest, Earlier(c))
    BY <1>4
  <1>6. TakeFrom(c, cost) = Smaller(Rest[c], Less(cost, t)) /\ Rest[c] \in Nat
    BY <1>2, <1>3, <1>4, <1>5
  <1> QED
    BY <1>3, <1>4, <1>6 DEF Smaller, Less

(* What it takes of the first credits is all they have, up to the cost. *)
LEMMA Greedy ==
    ASSUME CreditsOK, NEW cost \in Nat, NEW take, \A c \in LiveCredits : take[c] = TakeFrom(c, cost),
           NEW S \in SUBSET LiveCredits, \A c \in S : Earlier(c) \subseteq S
    PROVE  Total(take, S) = Smaller(cost, Total(Rest, S))
  <1> DEFINE Bad == {s \in SUBSET LiveCredits : /\ \A c \in s : Earlier(c) \subseteq s
                                               /\ Total(take, s) # Smaller(cost, Total(Rest, s))}
  <1> SUFFICES ASSUME Bad # {} PROVE FALSE
    OBVIOUS
  <1>1. PICK s \in Bad : \A t \in SUBSET s : t # s => t \notin Bad
    <2>1. Bad \subseteq SUBSET LiveCredits
      OBVIOUS
    <2> HIDE DEF Bad
    <2> QED
      BY <2>1, MinimalSet, CreditTypes
  <1>2. LiveCredits \subseteq DOMAIN credits /\ IsFiniteSet(LiveCredits)
    BY CreditTypes DEF LiveCredits
  <1>3. \A c \in LiveCredits : Rest[c] \in Nat /\ take[c] \in Nat
    BY <1>2, CreditTypes, TakeFromRest
  <1>4. s # {}
    <2>1. s = {} => Total(take, s) = 0 /\ Total(Rest, s) = 0
      BY TotalEmpty, Zenon
    <2>2. Smaller(cost, 0) = 0
      BY DEF Smaller
    <2> QED
      BY <1>1, <2>1, <2>2
  <1>5. PICK m \in s : \A c \in s \ {m} : Before(c, m)
    BY <1>1, <1>2, <1>4, LastCredit
  <1>6. m \in LiveCredits /\ s \ {m} = Earlier(m)
    <2>1. Earlier(m) \subseteq s /\ m \notin Earlier(m)
      BY <1>1, <1>2, <1>5, BeforeTotal DEF Earlier
    <2> QED
      BY <1>1, <1>5, <2>1 DEF Earlier
  <1>7. \A c \in Earlier(m) : Earlier(c) \subseteq Earlier(m)
    BY <1>2, <1>6, BeforeTotal DEF Earlier
  <1>8. Earlier(m) \in SUBSET s /\ Earlier(m) # s /\ Earlier(m) \in SUBSET LiveCredits
    BY <1>1, <1>6
  <1>9. Total(take, Earlier(m)) = Smaller(cost, Total(Rest, Earlier(m)))
    BY <1>1, <1>7, <1>8
  <1>10. PICK r \in Nat, t \in Nat : r = Rest[m] /\ t = Total(Rest, Earlier(m))
    BY <1>3, <1>6, TakeFromRest
  <1>11. take[m] = Smaller(r, Less(cost, t))
    BY <1>6, <1>10, TakeFromRest
  <1>12. IsFiniteSet(s) /\ \A c \in s : Rest[c] \in Nat /\ take[c] \in Nat
    BY <1>1, <1>2, <1>3, FS_Subset
  <1>13. Total(take, s) = take[m] + Total(take, s \ {m}) /\ Total(Rest, s) = Rest[m] + Total(Rest, s \ {m})
    BY <1>12, TotalRemove
  <1>14. Total(take, s) = Smaller(r, Less(cost, t)) + Smaller(cost, t) /\ Total(Rest, s) = r + t
    BY <1>6, <1>9, <1>10, <1>11, <1>13
  <1>15. Total(take, s) = Smaller(cost, Total(Rest, s))
    BY <1>14 DEF Smaller, Less
  <1> QED
    BY <1>1, <1>15

(* The charge: it adds up to the cost, takes no more of a bucket than there *)
(* is, and comes to overage when the others are used up.                    *)
PlanOK(row, cost, plan) ==
    /\ DOMAIN plan = {"monthly", "overage", "debits", "period"}
    /\ plan.monthly \in Nat /\ plan.overage \in Nat /\ plan.period = row.end
    /\ plan.debits \in [CreditId -> Nat] /\ Total(plan.debits, CreditId) \in Nat
    /\ plan.monthly + plan.overage + Total(plan.debits, CreditId) = cost
    /\ row.used + plan.monthly <= row.limit
    /\ plan.overage > 0 => row.used + plan.monthly = row.limit
    /\ \A c \in CreditId : /\ c \notin LiveCredits => plan.debits[c] = 0
                           /\ c \in LiveCredits => plan.debits[c] <= Rest[c]
    /\ plan.overage > 0 => \A c \in LiveCredits : plan.debits[c] = Rest[c]

(* allocateConsumption splits a cost as PlanOK says. *)
LEMMA PlanAddsUp ==
    ASSUME CreditsOK, NEW cost \in Nat, NEW row \in SubRow, row.used <= row.limit
    PROVE  PlanOK(row, cost, allocateConsumption(row, cost))
  <1> DEFINE plan == allocateConsumption(row, cost)
  <1> DEFINE debits == [c \in CreditId |-> IF c \in LiveCredits THEN TakeFrom(c, cost) ELSE 0]
             left == cost - Total(debits, CreditId)
             monthly == Smaller(Less(row.limit, row.used), left)
  <1>1. plan = [monthly |-> monthly, overage |-> left - monthly, debits |-> debits, period |-> row.end]
    BY DEF allocateConsumption
  <1>2. LiveCredits \subseteq DOMAIN credits /\ LiveCredits \subseteq CreditId /\ IsFiniteSet(LiveCredits)
    BY CreditTypes DEF LiveCredits
  <1>3. /\ debits \in [CreditId -> Nat]
        /\ \A c \in CreditId : /\ debits[c] \in Nat
                               /\ c \notin LiveCredits => debits[c] = 0
                               /\ c \in LiveCredits => debits[c] = TakeFrom(c, cost) /\ debits[c] <= Rest[c]
    BY <1>2, TakeFromRest
  <1>4. PICK d : d = debits
    OBVIOUS
  <1>5. PICK total : total = Total(d, CreditId)
    OBVIOUS
  <1>6. Total(d, CreditId) = Total(d, LiveCredits)
    BY <1>2, <1>3, <1>4, CreditTypes, TotalOfZeros
  <1>7. Total(d, LiveCredits) = Smaller(cost, Total(Rest, LiveCredits))
    <2>1. \A c \in LiveCredits : Earlier(c) \subseteq LiveCredits
      BY DEF Earlier
    <2>2. \A c \in LiveCredits : d[c] = TakeFrom(c, cost)
      BY <1>2, <1>3, <1>4
    <2> QED
      BY <2>1, <2>2, Greedy
  <1>8. \A c \in LiveCredits : d[c] \in Nat /\ Rest[c] \in Nat /\ d[c] <= Rest[c]
    BY <1>2, <1>3, <1>4, CreditTypes
  <1>9. PICK rest \in Nat : rest = Total(Rest, LiveCredits)
    BY <1>2, <1>8, TotalType
  <1>10. total = Smaller(cost, rest)
    BY <1>5, <1>6, <1>7, <1>9
  <1>11. total \in Nat /\ total <= cost
    BY <1>9, <1>10 DEF Smaller
  <1>12. ASSUME total < cost, NEW c \in LiveCredits PROVE d[c] = Rest[c]
    <2>1. total = rest
      BY <1>9, <1>10, <1>12 DEF Smaller
    <2>2. Total(d, LiveCredits) = d[c] + Total(d, LiveCredits \ {c})
      BY <1>2, <1>8, TotalRemove
    <2>3. Total(Rest, LiveCredits) = Rest[c] + Total(Rest, LiveCredits \ {c})
      BY <1>2, <1>8, TotalRemove
    <2>4. Total(d, LiveCredits \ {c}) <= Total(Rest, LiveCredits \ {c})
      BY <1>2, <1>8, FS_Subset, TotalLess
    <2>5. Total(d, LiveCredits \ {c}) \in Nat /\ Total(Rest, LiveCredits \ {c}) \in Nat
      BY <1>2, <1>8, FS_Subset, TotalType
    <2>6. d[c] \in Nat /\ Rest[c] \in Nat /\ d[c] <= Rest[c]
      BY <1>8
    <2> QED
      BY <1>5, <1>6, <1>9, <2>1, <2>2, <2>3, <2>4, <2>5, <2>6
  <1>13. PICK lim \in Nat, used \in Nat : lim = row.limit /\ used = row.used
    BY DEF SubRow
  <1>14. PICK x, y : x = Smaller(Less(lim, used), cost - total) /\ y = cost - total - x
    OBVIOUS
  <1>15. plan.monthly = x /\ plan.overage = y /\ plan.debits = d /\ plan.period = row.end
         /\ DOMAIN plan = {"monthly", "overage", "debits", "period"}
    BY <1>1, <1>4, <1>5, <1>13, <1>14
  <1>16. /\ x \in Nat /\ y \in Nat /\ x + y + total = cost /\ used + x <= lim
         /\ y > 0 => used + x = lim /\ total < cost
    BY <1>11, <1>13, <1>14 DEF Smaller, Less
  <1> HIDE DEF debits, plan
  <1>17. PlanOK(row, cost, plan)
    BY <1>3, <1>4, <1>5, <1>11, <1>12, <1>13, <1>15, <1>16 DEF PlanOK
  <1> QED
    BY <1>17 DEF plan

----------------------------------------------------------------------------
(* Subscriptions. *)

(* The newest subscription is the active one, and none is used beyond its   *)
(* allowance.                                                               *)
SubsOK ==
    /\ subs \in Seq(SubRow) /\ Len(subs) \in 1..MaxSub
    /\ \A s \in DOMAIN subs : /\ subs[s].status = "active" <=> s = Len(subs)
                              /\ subs[s].end > 0
                              /\ subs[s].used <= subs[s].limit

(* What SubsOK says, in the form the proofs use. *)
LEMMA SubTypes ==
    ASSUME SubsOK
    PROVE  /\ Len(subs) \in Nat /\ Len(subs) \in DOMAIN subs /\ DOMAIN subs = 1..Len(subs)
           /\ DOMAIN subs \subseteq Sub
           /\ \A s \in DOMAIN subs : subs[s] \in SubRow /\ s \in Nat
           /\ ActiveSubs = {Len(subs)}
           /\ GetActiveSubscription = Len(subs)
  <1>1. \A S : \A q \in Seq(S) : Len(q) \in Nat /\ DOMAIN q = 1..Len(q) /\ \A n \in DOMAIN q : q[n] \in S
    OBVIOUS
  <1>2. /\ Len(subs) \in Nat /\ DOMAIN subs = 1..Len(subs)
        /\ \A s \in DOMAIN subs : subs[s] \in SubRow
    BY <1>1, Zenon DEF SubsOK
  <1>3. DOMAIN subs \subseteq Sub /\ Len(subs) \in DOMAIN subs
    BY <1>2, MeteringAssumption DEF SubsOK, Sub
  <1>4. ActiveSubs = {Len(subs)}
    BY <1>2, <1>3 DEF ActiveSubs, SubsOK
  <1>5. GetActiveSubscription = Len(subs)
    BY <1>4 DEF GetActiveSubscription
  <1> QED
    BY <1>2, <1>3, <1>4, <1>5

(* The clock lies in one of the periods that follow each other from end on. *)
LEMMA NextPeriod ==
    ASSUME clock \in Nat, NEW end \in Nat, end <= clock
    PROVE  rollPeriod(end) \in Nat /\ rollPeriod(end) > clock
  <1>1. PICK p \in Nat \ {0} : p = PeriodLength
    BY MeteringAssumption
  <1> DEFINE Ends == {e \in Nat : e > clock /\ \E k \in Nat : e = end + k * p}
  <1>2. PICK e \in Ends : \A x \in Ends : e <= x
    <2>1. \E y \in Nat : y = (clock + 1) * p /\ y >= clock + 1
      <3>1. \A a, b \in Nat : b > 0 => a * b \in Nat /\ a * b >= a
        OBVIOUS
      <3> QED
        BY <1>1, <3>1
    <2>2. PICK y \in Nat : y = (clock + 1) * p /\ y >= clock + 1
      BY <2>1
    <2>3. end + y \in Ends
      BY <2>2
    <2>4. Ends \subseteq Nat /\ Ends # {}
      BY <2>3
    <2> HIDE DEF Ends
    <2> QED
      BY <2>4, LeastNat
  <1>3. PICK k \in Nat : e = end + k * p
    OBVIOUS
  <1>4. PICK m \in Nat : m = k * p
    OBVIOUS
  <1>5. e = end + m /\ e > clock /\ m > 0
    BY <1>2, <1>3, <1>4
  <1>6. k > 0
    BY <1>4, <1>5
  <1>7. (k - 1) * p = m - p /\ k - 1 \in Nat
    BY <1>1, <1>4, <1>6
  <1>8. m >= p
    <2>1. (k - 1) * p \in Nat
      BY <1>7
    <2> QED
      BY <1>4, <1>7, <2>1
  <1>9. e <= clock + p
    <2> SUFFICES ASSUME e > clock + p PROVE FALSE
      BY <1>2
    <2>1. e - p = end + (k - 1) * p
      BY <1>5, <1>7
    <2>2. e - p \in Ends
      BY <1>2, <1>7, <2>1
    <2>3. e \in Nat /\ p \in Nat /\ p > 0
      BY <1>1, <1>2
    <2>4. e <= e - p
      BY <1>2, <2>2
    <2> QED
      BY <2>3, <2>4
  <1>10. (e - end) % p = 0
    <2>1. \A a, b \in Nat : b > 0 => (a * b) % b = 0
      OBVIOUS
    <2> QED
      BY <1>1, <1>3, <1>4, <1>5, <2>1
  <1>11. \E x \in (clock + 1)..(clock + PeriodLength) : (x - end) % PeriodLength = 0
    BY <1>1, <1>2, <1>5, <1>9, <1>10
  <1>12. rollPeriod(end) \in (clock + 1)..(clock + PeriodLength)
    BY <1>11 DEF rollPeriod
  <1> QED
    BY <1>1, <1>12

(* The inline rollover: a period that has ended starts anew, in the one the *)
(* clock lies in.                                                           *)
LEMMA RolledRow ==
    ASSUME SubsOK, clock \in Nat, NEW s \in DOMAIN subs, NEW row, row = Rolled(subs[s])
    PROVE  /\ row \in SubRow /\ row.used <= row.limit
           /\ row.status = subs[s].status /\ row.overage = subs[s].overage
           /\ clock < row.end /\ row.end >= subs[s].end
           /\ row.end = subs[s].end => row = subs[s]
           /\ row.end # subs[s].end => /\ row.used = 0 /\ row.overUsed = 0
                                       /\ row.end > subs[s].end /\ ~(clock < subs[s].end)
  <1>1. PICK r : r = subs[s]
    OBVIOUS
  <1>2. r \in SubRow /\ r.end \in Nat /\ r.used <= r.limit
    BY <1>1, SubTypes DEF SubsOK, SubRow
  <1>3. CASE clock < r.end
    BY <1>1, <1>2, <1>3 DEF Rolled
  <1>4. CASE ~(clock < r.end)
    <2>1. PICK e, m, c : e = rollPeriod(r.end) /\ m = MonthlyTokens /\ c = 2 * MonthlyTokens
      OBVIOUS
    <2>2. e \in Nat /\ e > clock /\ m \in Nat /\ c \in Nat
      BY <1>2, <1>4, <2>1, NextPeriod, MeteringAssumption
    <2>3. row = [r EXCEPT !.used = 0, !.overUsed = 0, !.limit = m, !.cap = c, !.end = e]
      BY <1>1, <1>4, <2>1 DEF Rolled
    <2>4. PICK r1 : r1 = [r EXCEPT !.used = 0]
      OBVIOUS
    <2>5. PICK r2 : r2 = [r1 EXCEPT !.overUsed = 0]
      OBVIOUS
    <2>6. PICK r3 : r3 = [r2 EXCEPT !.limit = m]
      OBVIOUS
    <2>7. PICK r4 : r4 = [r3 EXCEPT !.cap = c]
      OBVIOUS
    <2>8. row = [r4 EXCEPT !.end = e]
      BY <2>3, <2>4, <2>5, <2>6, <2>7
    <2>9. r1 \in SubRow /\ r1.used = 0 /\ r1.status = r.status /\ r1.overage = r.overage
      BY <1>2, <2>4 DEF SubRow
    <2>10. r2 \in SubRow /\ r2.used = 0 /\ r2.overUsed = 0 /\ r2.status = r.status /\ r2.overage = r.overage
      BY <2>5, <2>9 DEF SubRow
    <2>11. /\ r3 \in SubRow /\ r3.used = 0 /\ r3.overUsed = 0 /\ r3.limit = m
           /\ r3.status = r.status /\ r3.overage = r.overage
      BY <2>2, <2>6, <2>10 DEF SubRow
    <2>12. /\ r4 \in SubRow /\ r4.used = 0 /\ r4.overUsed = 0 /\ r4.limit = m
           /\ r4.status = r.status /\ r4.overage = r.overage
      BY <2>2, <2>7, <2>11 DEF SubRow
    <2>13. /\ row \in SubRow /\ row.used = 0 /\ row.overUsed = 0 /\ row.limit = m /\ row.end = e
           /\ row.status = r.status /\ row.overage = r.overage
      BY <2>2, <2>8, <2>12 DEF SubRow
    <2> QED
      BY <1>1, <1>2, <1>4, <2>2, <2>13
  <1> QED
    BY <1>3, <1>4

----------------------------------------------------------------------------
(* The ledger. *)

(* The operations that have a 'charge' row. *)
ChargedOps == {op \in Op : Charged(op)}

(* A charge is of a subscription that exists, in a period no later than the *)
(* present one, and debits credits that exist.                              *)
ChargeRow(op) ==
    /\ DOMAIN ledger[op] = {"monthly", "overage", "debits", "period"}
    /\ ledger[op].monthly \in Nat /\ ledger[op].overage \in Nat
    /\ ledger[op].debits \in [CreditId -> Nat]
    /\ \A c \in CreditId \ DOMAIN credits : ledger[op].debits[c] = 0
    /\ op[1] \in DOMAIN subs
    /\ ledger[op].period \in Nat /\ ledger[op].period <= subs[op[1]].end
    /\ Paid(ledger[op]) \in Nat /\ Paid(ledger[op]) > 0

LedgerOK ==
    /\ DOMAIN ledger = Op
    /\ \A op \in ChargedOps : ChargeRow(op)
    /\ refunds \subseteq ChargedOps
    /\ IsFiniteSet(ChargedOps)

(* The ledger and the counters, with the facts their agreement rests on. *)
LedgerInv ==
    /\ clock \in Nat
    /\ SubsOK /\ CreditsOK /\ LedgerOK
    /\ CreditsMatchLedger /\ MonthlyMatchesLedger

(* The rows that the two sums of an invariant range over. *)
DebitsOf(c) == [op \in Op |-> ledger[op].debits[c]]
MonthlyOf == [op \in Op |-> ledger[op].monthly]
Here(s) == {op \in UnrefundedOps : op[1] = s /\ ledger[op].period = subs[s].end}
LateOps(s) == {op \in refunds : op[1] = s /\ ledger[op].period < subs[s].end}

(* What MonthlyMatchesLedger says of one subscription. *)
MonthlyAt(s) ==
    /\ subs[s].used <= Total(MonthlyOf, Here(s))
    /\ Total(MonthlyOf, Here(s)) <= subs[s].used + Total(MonthlyOf, LateOps(s))

(* MonthlyMatchesLedger, subscription by subscription. *)
LEMMA MonthlyRestated ==
    ASSUME SubsOK, refunds \subseteq Op
    PROVE  MonthlyMatchesLedger <=> \A s \in DOMAIN subs : MonthlyAt(s)
  <1>1. ASSUME NEW s \in DOMAIN subs
        PROVE  /\ {op \in Op : op[1] = s} \cap UnrefundedOps \subseteq UnrefundedOps
               /\ {op \in {op \in Op : op[1] = s} \cap UnrefundedOps :
                     ledger[op].period = subs[s].end} = Here(s)
               /\ {op \in {op \in Op : op[1] = s} \cap refunds : ledger[op].period < subs[s].end} = LateOps(s)
    BY DEF Here, LateOps, UnrefundedOps
  <1>2. \A s \in DOMAIN subs : subs[s].used <= subs[s].limit
    BY DEF SubsOK
  <1> QED
    BY <1>1, <1>2, Zenon DEF MonthlyMatchesLedger, MonthlyAt, MonthlyOf

(* What LedgerOK says of the sets and functions that are summed. *)
LEMMA LedgerSums ==
    ASSUME LedgerOK
    PROVE  /\ UnrefundedOps = ChargedOps \ refunds
           /\ UnrefundedOps \subseteq Op /\ refunds \subseteq Op
           /\ IsFiniteSet(UnrefundedOps) /\ IsFiniteSet(refunds)
           /\ \A op \in ChargedOps : op \in Op /\ MonthlyOf[op] \in Nat /\ MonthlyOf[op] = ledger[op].monthly
           /\ \A op \in ChargedOps : \A c \in CreditId :
                 DebitsOf(c)[op] \in Nat /\ DebitsOf(c)[op] = ledger[op].debits[c]
           /\ \A s \in DOMAIN subs : /\ IsFiniteSet(Here(s)) /\ Total(MonthlyOf, Here(s)) \in Nat
                                     /\ IsFiniteSet(LateOps(s)) /\ Total(MonthlyOf, LateOps(s)) \in Nat
                                     /\ Here(s) \subseteq ChargedOps /\ LateOps(s) \subseteq ChargedOps
  <1>1. UnrefundedOps = ChargedOps \ refunds /\ refunds \subseteq ChargedOps /\ ChargedOps \subseteq Op
    BY DEF UnrefundedOps, ChargedOps, LedgerOK
  <1>2. IsFiniteSet(ChargedOps)
    BY DEF LedgerOK
  <1>3. IsFiniteSet(UnrefundedOps) /\ IsFiniteSet(refunds)
    BY <1>1, <1>2, FS_Subset
  <1>4. \A op \in ChargedOps : op \in Op /\ MonthlyOf[op] \in Nat /\ MonthlyOf[op] = ledger[op].monthly
    BY <1>1 DEF LedgerOK, ChargeRow, MonthlyOf
  <1>5. \A op \in ChargedOps : \A c \in CreditId :
                 DebitsOf(c)[op] \in Nat /\ DebitsOf(c)[op] = ledger[op].debits[c]
    BY <1>1 DEF LedgerOK, ChargeRow, DebitsOf
  <1>6. ASSUME NEW s \in DOMAIN subs
        PROVE  /\ IsFiniteSet(Here(s)) /\ Total(MonthlyOf, Here(s)) \in Nat
               /\ IsFiniteSet(LateOps(s)) /\ Total(MonthlyOf, LateOps(s)) \in Nat
               /\ Here(s) \subseteq ChargedOps /\ LateOps(s) \subseteq ChargedOps
    <2>1. Here(s) \subseteq ChargedOps /\ LateOps(s) \subseteq ChargedOps
      BY <1>1 DEF Here, LateOps
    <2>2. IsFiniteSet(Here(s)) /\ IsFiniteSet(LateOps(s))
      BY <1>2, <2>1, FS_Subset
    <2>3. /\ \A op \in Here(s) : MonthlyOf[op] \in Nat
          /\ \A op \in LateOps(s) : MonthlyOf[op] \in Nat
      BY <1>4, <2>1
    <2> QED
      BY <2>1, <2>2, <2>3, TotalType
  <1> QED
    BY <1>1, <1>3, <1>4, <1>5, <1>6

----------------------------------------------------------------------------
(* A charge. *)

(* What a debit of plan at the row of s, rolled over, leaves. *)
Took(s, op, row, plan) ==
    /\ subs' \in Seq(SubRow) /\ Len(subs') = Len(subs)
    /\ \A i \in DOMAIN subs : i # s => subs'[i] = subs[i]
    /\ subs'[s] \in SubRow
    /\ subs'[s].used = row.used + plan.monthly /\ subs'[s].overUsed = row.overUsed + plan.overage
    /\ subs'[s].limit = row.limit /\ subs'[s].cap = row.cap /\ subs'[s].end = row.end
    /\ subs'[s].overage = row.overage /\ subs'[s].status = row.status
    /\ credits' \in Seq(CreditRow) /\ Len(credits') = Len(credits)
    /\ \A c \in DOMAIN credits :
          /\ credits'[c] \in CreditRow
          /\ credits'[c].amount = credits[c].amount /\ credits'[c].expires = credits[c].expires
          /\ credits'[c].consumed = credits[c].consumed + plan.debits[c]
          /\ credits'[c].consumed <= credits'[c].amount
          /\ credits'[c].exhausted <=> credits'[c].consumed = credits'[c].amount
    /\ ledger' = [ledger EXCEPT ![op] = plan] /\ refunds' = refunds

(* One row of the subscriptions rewritten. *)
LEMMA ExceptSub ==
    ASSUME SubsOK, NEW s \in DOMAIN subs, NEW r \in SubRow, subs' = [subs EXCEPT ![s] = r]
    PROVE  /\ subs' \in Seq(SubRow) /\ Len(subs') = Len(subs) /\ subs'[s] = r
           /\ \A i \in DOMAIN subs : i # s => subs'[i] = subs[i]
  <1>1. PICK n \in Nat : n = Len(subs) /\ DOMAIN subs = 1..n /\ \A i \in 1..n : subs[i] \in SubRow
    BY SubTypes
  <1>2. subs' \in [1..n -> SubRow]
    BY <1>1
  <1>3. \A S : \A m \in Nat : \A g \in [1..m -> S] : g \in Seq(S) /\ Len(g) = m
    OBVIOUS
  <1>4. subs' \in Seq(SubRow) /\ Len(subs') = n
    BY <1>2, <1>3, Zenon
  <1> QED
    BY <1>1, <1>4

(* Credit rows after a charge or a refund. *)
LEMMA NewCreditRows ==
    ASSUME CreditsOK, NEW consumed, credits' = CreditRows(consumed),
           \A c \in DOMAIN credits : consumed[c] \in Nat /\ consumed[c] <= credits[c].amount
    PROVE  /\ credits' \in Seq(CreditRow) /\ Len(credits') = Len(credits)
           /\ \A c \in DOMAIN credits :
                 /\ credits'[c] \in CreditRow
                 /\ credits'[c].amount = credits[c].amount /\ credits'[c].expires = credits[c].expires
                 /\ credits'[c].consumed = consumed[c]
                 /\ credits'[c].exhausted <=> credits'[c].consumed = credits'[c].amount
  <1>1. PICK n \in Nat : n = Len(credits) /\ DOMAIN credits = 1..n
    BY CreditTypes
  <1>2. ASSUME NEW c \in DOMAIN credits
        PROVE  /\ credits'[c] \in CreditRow
               /\ credits'[c].amount = credits[c].amount /\ credits'[c].expires = credits[c].expires
               /\ credits'[c].consumed = consumed[c]
               /\ credits'[c].exhausted <=> credits'[c].consumed = credits'[c].amount
    <2>1. PICK r, m : r = credits[c] /\ m = consumed[c]
      OBVIOUS
    <2>2. /\ r \in CreditRow /\ r.consumed <= r.amount /\ (r.exhausted <=> r.consumed = r.amount)
          /\ m \in Nat /\ m <= r.amount
      BY <2>1, CreditTypes DEF CreditsOK
    <2>3. PICK x : x = IF m >= r.amount THEN r.exhausted \/ m > r.consumed ELSE FALSE
      OBVIOUS
    <2>4. x \in BOOLEAN
      BY <2>2, <2>3
    <2>5. x <=> m = r.amount
      <3>1. CASE m = r.amount
        <4>1. r.exhausted \/ m > r.consumed
          BY <2>2, <3>1 DEF CreditRow
        <4>2. m >= r.amount
          BY <2>2, <3>1 DEF CreditRow
        <4>3. x <=> (r.exhausted \/ m > r.consumed)
          BY <2>3, <4>2, Zenon
        <4> QED
          BY <3>1, <4>1, <4>3, Zenon
      <3>2. CASE m # r.amount
        <4>1. ~(m >= r.amount)
          BY <2>2, <3>2 DEF CreditRow
        <4> QED
          BY <2>3, <3>2, <4>1, Zenon
      <3> QED
        BY <3>1, <3>2
    <2>6. PICK r1 : r1 = [r EXCEPT !.consumed = m]
      OBVIOUS
    <2>7. r1 \in CreditRow /\ r1.consumed = m /\ r1.amount = r.amount /\ r1.expires = r.expires
      BY <2>2, <2>6 DEF CreditRow
    <2>8. credits'[c] = [r1 EXCEPT !.exhausted = x]
      BY <2>1, <2>3, <2>6 DEF CreditRows
    <2> QED
      BY <2>1, <2>4, <2>5, <2>7, <2>8 DEF CreditRow
  <1>3. credits' \in [1..n -> CreditRow]
    BY <1>1, <1>2 DEF CreditRows
  <1>4. \A S : \A m \in Nat : \A g \in [1..m -> S] : g \in Seq(S) /\ Len(g) = m
    OBVIOUS
  <1>5. credits' \in Seq(CreditRow) /\ Len(credits') = n
    BY <1>3, <1>4, Zenon
  <1> QED
    BY <1>1, <1>2, <1>5

(* A charge that ConsumeTokensV2 lets through is debited as Took says, and  *)
(* its overage is allowed and within the cap.                               *)
LEMMA ConsumeTakes ==
    ASSUME LedgerInv, NEW s \in DOMAIN subs, NEW op \in Op, NEW cost \in Nat,
           ConsumeTokensV2(s, op, cost),
           NEW row, row = Rolled(subs[s]), NEW plan, plan = allocateConsumption(row, cost)
    PROVE  /\ Took(s, op, row, plan)
           /\ op \notin ChargedOps
           /\ plan.overage > 0 => row.overage /\ row.overUsed + plan.overage <= row.cap
  <1>1. row \in SubRow /\ row.used <= row.limit
    BY RolledRow DEF LedgerInv
  <1>2. ~QuotaExceeded(row, plan) /\ Debit(s, op, plan) /\ op \notin ChargedOps
    BY DEF ConsumeTokensV2, ChargedOps
  <1>3. PICK m, o, d : m = plan.monthly /\ o = plan.overage /\ d = plan.debits
    OBVIOUS
  <1>4. /\ m \in Nat /\ o \in Nat /\ d \in [CreditId -> Nat]
        /\ \A c \in CreditId : /\ c \notin LiveCredits => d[c] = 0
                               /\ c \in LiveCredits => d[c] <= Rest[c]
    <2>1. CreditsOK
      BY DEF LedgerInv
    <2>2. PlanOK(row, cost, plan)
      BY <1>1, <2>1, PlanAddsUp, Zenon
    <2>3. /\ plan.monthly \in Nat /\ plan.overage \in Nat /\ plan.debits \in [CreditId -> Nat]
          /\ \A c \in CreditId : /\ c \notin LiveCredits => plan.debits[c] = 0
                                 /\ c \in LiveCredits => plan.debits[c] <= Rest[c]
      BY <2>2 DEF PlanOK
    <2> QED
      BY <1>3, <2>3
  <1>5. o > 0 => row.overage /\ row.overUsed + o <= row.cap
    BY <1>1, <1>2, <1>3, <1>4 DEF QuotaExceeded, SubRow
  <1>6. PICK u, v : u = row.used + m /\ v = row.overUsed + o
    OBVIOUS
  <1>7. u \in Nat /\ v \in Nat
    BY <1>1, <1>4, <1>6 DEF SubRow
  <1>8. PICK r1 : r1 = [row EXCEPT !.used = u]
    OBVIOUS
  <1>9. PICK r2 : r2 = [r1 EXCEPT !.overUsed = v]
    OBVIOUS
  <1>10. /\ r1 \in SubRow /\ r1.used = u /\ r1.overUsed = row.overUsed /\ r1.limit = row.limit
         /\ r1.cap = row.cap /\ r1.end = row.end /\ r1.overage = row.overage /\ r1.status = row.status
    BY <1>1, <1>7, <1>8 DEF SubRow
  <1>11. /\ r2 \in SubRow /\ r2.used = u /\ r2.overUsed = v /\ r2.limit = row.limit
         /\ r2.cap = row.cap /\ r2.end = row.end /\ r2.overage = row.overage /\ r2.status = row.status
    BY <1>7, <1>9, <1>10 DEF SubRow
  <1>12. subs' = [subs EXCEPT ![s] = r2]
    <2>1. subs' = [subs EXCEPT ![s] = [row EXCEPT !.used = @ + plan.monthly, !.overUsed = @ + plan.overage]]
      BY <1>2 DEF Debit
    <2>2. [row EXCEPT !.used = @ + plan.monthly, !.overUsed = @ + plan.overage] = r2
      BY <1>1, <1>3, <1>6, <1>8, <1>9 DEF SubRow
    <2> QED
      BY <2>1, <2>2, Zenon
  <1>13. /\ subs' \in Seq(SubRow) /\ Len(subs') = Len(subs) /\ subs'[s] = r2
         /\ \A i \in DOMAIN subs : i # s => subs'[i] = subs[i]
    BY <1>11, <1>12, ExceptSub DEF LedgerInv
  <1>14. PICK k : k = [c \in DOMAIN credits |-> credits[c].consumed + d[c]]
    OBVIOUS
  <1>15. ASSUME NEW c \in DOMAIN credits
         PROVE  k[c] \in Nat /\ k[c] <= credits[c].amount /\ k[c] = credits[c].consumed + d[c]
    <2>1. c \in CreditId /\ credits[c] \in CreditRow /\ credits[c].consumed <= credits[c].amount
      BY CreditTypes DEF LedgerInv, CreditsOK
    <2>2. d[c] \in Nat /\ (d[c] = 0 \/ d[c] <= credits[c].amount - credits[c].consumed)
      BY <1>4, <2>1 DEF Rest
    <2> QED
      BY <1>14, <2>1, <2>2 DEF CreditRow
  <1>16. credits' = CreditRows(k) /\ ledger' = [ledger EXCEPT ![op] = plan] /\ refunds' = refunds
    BY <1>2, <1>3, <1>14 DEF Debit
  <1>17. /\ credits' \in Seq(CreditRow) /\ Len(credits') = Len(credits)
         /\ \A c \in DOMAIN credits :
                 /\ credits'[c] \in CreditRow
                 /\ credits'[c].amount = credits[c].amount /\ credits'[c].expires = credits[c].expires
                 /\ credits'[c].consumed = k[c]
                 /\ credits'[c].exhausted <=> credits'[c].consumed = credits'[c].amount
    BY <1>15, <1>16, NewCreditRows DEF LedgerInv
  <1>18. \A c \in DOMAIN credits : /\ credits'[c].consumed = credits[c].consumed + d[c]
                                  /\ credits'[c].consumed <= credits'[c].amount
    BY <1>15, <1>17
  <1> QED
    BY <1>2, <1>3, <1>5, <1>6, <1>11, <1>13, <1>16, <1>17, <1>18 DEF Took

(* The charge row enters the ledger. *)
LEMMA LedgerTakes ==
    ASSUME LedgerInv, NEW s \in DOMAIN subs, NEW op \in Op, op[1] = s, op \notin ChargedOps,
           NEW cost \in Nat, cost > 0, NEW row, row = Rolled(subs[s]), NEW plan, PlanOK(row, cost, plan),
           Took(s, op, row, plan)
    PROVE  /\ LedgerOK' /\ ChargedOps' = ChargedOps \cup {op}
           /\ UnrefundedOps' = UnrefundedOps \cup {op} /\ op \notin UnrefundedOps /\ op \notin refunds
           /\ ledger'[op] = plan /\ \A o \in Op : o # op => ledger'[o] = ledger[o]
  <1>1. /\ DOMAIN ledger = Op /\ ledger' = [ledger EXCEPT ![op] = plan] /\ refunds' = refunds
        /\ refunds \subseteq ChargedOps /\ IsFiniteSet(ChargedOps)
    BY DEF LedgerInv, LedgerOK, Took
  <1>2. ledger'[op] = plan /\ DOMAIN ledger' = Op /\ \A o \in Op : o # op => ledger'[o] = ledger[o]
    BY <1>1
  <1>3. row \in SubRow /\ row.end \in Nat /\ row.end > 0 /\ row.end >= subs[s].end
    BY RolledRow DEF LedgerInv, SubRow
  <1>4. plan.period = row.end /\ plan.period \in Nat
    BY <1>3 DEF PlanOK
  <1>5. plan # Nothing
    <2>1. Nothing.period = 0
      BY DEF Nothing
    <2> QED
      BY <1>3, <1>4, <2>1
  <1>6. ChargedOps' = ChargedOps \cup {op}
    BY <1>2, <1>5 DEF ChargedOps, Charged
  <1>7. IsFiniteSet(ChargedOps')
    BY <1>1, <1>6, FS_AddElement
  <1>8. DOMAIN subs' = DOMAIN subs /\ DOMAIN credits' = DOMAIN credits
    <2>1. \A S : \A q \in Seq(S) : DOMAIN q = 1..Len(q)
      OBVIOUS
    <2>2. subs \in Seq(SubRow) /\ credits \in Seq(CreditRow)
      BY DEF LedgerInv, SubsOK, CreditsOK
    <2>3. /\ subs' \in Seq(SubRow) /\ credits' \in Seq(CreditRow)
          /\ Len(subs') = Len(subs) /\ Len(credits') = Len(credits)
      BY DEF Took
    <2> QED
      BY <2>1, <2>2, <2>3, Zenon
  <1>9. \A i \in DOMAIN subs : subs[i].end \in Nat /\ subs'[i].end \in Nat /\ subs[i].end <= subs'[i].end
    <2>1. SubsOK
      BY DEF LedgerInv
    <2>2. \A i \in DOMAIN subs : subs[i].end \in Nat
      BY <2>1, SubTypes DEF SubRow
    <2>3. TAKE i \in DOMAIN subs
    <2>4. CASE i = s
      BY <1>3, <2>2, <2>4 DEF Took
    <2>5. CASE i # s
      <3>1. subs'[i] = subs[i]
        BY <2>5 DEF Took
      <3> QED
        BY <2>2, <3>1
    <2> QED
      BY <2>4, <2>5
  <1>10. ASSUME NEW o \in ChargedOps' PROVE ChargeRow(o)'
    <2>1. CASE o = op
      <3>1. \A c \in CreditId \ DOMAIN credits : plan.debits[c] = 0
        BY DEF PlanOK, LiveCredits
      <3>2. Paid(plan) = cost
        BY DEF Paid, PlanOK
      <3>3. subs'[s].end = row.end
        BY DEF Took
      <3>4. /\ plan.monthly \in Nat /\ plan.overage \in Nat /\ plan.debits \in [CreditId -> Nat]
            /\ DOMAIN plan = {"monthly", "overage", "debits", "period"}
        BY DEF PlanOK
      <3>5. Paid(ledger'[o]) \in Nat /\ Paid(ledger'[o]) > 0
        BY <1>2, <2>1, <3>2, Zenon
      <3>6. Paid(ledger[o])' = Paid(ledger'[o])
        BY DEF Paid
      <3> QED
        BY <1>2, <1>3, <1>4, <1>8, <2>1, <3>1, <3>3, <3>4, <3>5, <3>6 DEF ChargeRow
    <2>2. CASE o # op
      <3>1. o \in ChargedOps /\ ledger'[o] = ledger[o]
        BY <1>2, <1>6, <2>2 DEF ChargedOps
      <3>2. ChargeRow(o)
        BY <3>1 DEF LedgerInv, LedgerOK
      <3>3. Paid(ledger'[o]) \in Nat /\ Paid(ledger'[o]) > 0
        BY <3>1, <3>2, Zenon DEF ChargeRow
      <3>4. Paid(ledger[o])' = Paid(ledger'[o])
        BY DEF Paid
      <3>5. ledger[o].period <= subs'[o[1]].end
        BY <1>9, <3>2 DEF ChargeRow
      <3> QED
        BY <1>8, <3>1, <3>2, <3>3, <3>4, <3>5 DEF ChargeRow
    <2> QED
      BY <2>1, <2>2
  <1>11. UnrefundedOps' = UnrefundedOps \cup {op} /\ op \notin UnrefundedOps /\ op \notin refunds
    BY <1>1, <1>6 DEF UnrefundedOps, ChargedOps
  <1>12. refunds' \subseteq ChargedOps'
    BY <1>1, <1>6
  <1> QED
    BY <1>2, <1>6, <1>7, <1>10, <1>11, <1>12 DEF LedgerOK

(* One more summand. *)
Joins(S, x, T, f, g) ==
    /\ IsFiniteSet(S) /\ x \notin S /\ T = S \cup {x}
    /\ \A y \in S : f[y] \in Nat /\ g[y] = f[y]
    /\ g[x] \in Nat

(* ... and what it adds. *)
Joined(S, x, T, f, g) ==
    /\ Total(g, T) = Total(f, S) + g[x]
    /\ Total(f, S) \in Nat /\ Total(g, T) \in Nat

(* The total with one more summand. *)
LEMMA TotalJoins ==
    ASSUME NEW S, NEW x, NEW T, NEW f, NEW g, Joins(S, x, T, f, g)
    PROVE  Joined(S, x, T, f, g)
  <1>1. IsFiniteSet(T) /\ x \in T /\ T \ {x} = S
    BY FS_AddElement DEF Joins
  <1>2. \A y \in T : g[y] \in Nat
    BY DEF Joins
  <1>3. Total(g, T) = g[x] + Total(g, T \ {x})
    BY <1>1, <1>2, TotalRemove
  <1>4. Total(f, S) = Total(g, S)
    BY TotalSame DEF Joins
  <1>5. Total(f, S) \in Nat
    BY TotalType DEF Joins
  <1>6. Total(g, T) = g[x] + Total(f, S)
    BY <1>1, <1>3, <1>4, Zenon
  <1> QED
    BY <1>5, <1>6 DEF Joins, Joined

(* What CreditsMatchLedger says of one credit. *)
CreditAt(c) == credits[c].consumed = Total(DebitsOf(c), UnrefundedOps)

(* CreditsMatchLedger, credit by credit. *)
LEMMA CreditsThen == CreditsOK /\ (\A c \in DOMAIN credits : CreditAt(c)) => CreditsMatchLedger
  BY DEF CreditsOK, CreditAt, DebitsOf, CreditsMatchLedger

(* A charge keeps the credit rows in agreement with the ledger. *)
LEMMA ChargeKeepsCredits ==
    ASSUME LedgerInv, NEW s \in DOMAIN subs, NEW op \in Op, op[1] = s, op \notin ChargedOps,
           NEW cost \in Nat, cost > 0, NEW row, row = Rolled(subs[s]), NEW plan, PlanOK(row, cost, plan),
           Took(s, op, row, plan)
    PROVE  CreditsOK' /\ CreditsMatchLedger'
  <1>1. /\ DOMAIN credits = 1..Len(credits) /\ DOMAIN credits' = DOMAIN credits
        /\ Len(credits) <= MaxCredit
    <2>1. \A S : \A q \in Seq(S) : DOMAIN q = 1..Len(q)
      OBVIOUS
    <2>2. credits \in Seq(CreditRow) /\ credits' \in Seq(CreditRow) /\ Len(credits') = Len(credits)
      BY DEF LedgerInv, CreditsOK, Took
    <2>3. Len(credits) <= MaxCredit
      BY DEF LedgerInv, CreditsOK
    <2> QED
      BY <2>1, <2>2, <2>3, Zenon
  <1>2. CreditsOK'
    BY <1>1 DEF CreditsOK, Took
  <1>3. /\ UnrefundedOps' = UnrefundedOps \cup {op} /\ op \notin UnrefundedOps
        /\ ledger'[op] = plan /\ \A o \in Op : o # op => ledger'[o] = ledger[o]
    BY LedgerTakes
  <1>4. LedgerOK /\ CreditsOK /\ CreditsMatchLedger
    BY DEF LedgerInv
  <1>5. ASSUME NEW c \in DOMAIN credits
        PROVE  credits'[c].consumed = Total(DebitsOf(c)', UnrefundedOps')
    <2>1. c \in CreditId
      BY <1>4, CreditTypes
    <2>2. credits[c].consumed = Total(DebitsOf(c), UnrefundedOps)
      BY <1>4 DEF CreditsMatchLedger, DebitsOf
    <2>3. PICK f, g : f = DebitsOf(c) /\ g = DebitsOf(c)'
      OBVIOUS
    <2>4. \A o \in UnrefundedOps : f[o] \in Nat /\ g[o] = f[o]
      <3>1. UnrefundedOps \subseteq ChargedOps /\ UnrefundedOps \subseteq Op
        BY <1>4, LedgerSums
      <3>2. \A o \in UnrefundedOps : f[o] \in Nat
        BY <1>4, <2>1, <2>3, <3>1, LedgerSums
      <3>3. \A o \in UnrefundedOps : g[o] = f[o]
        BY <1>3, <2>3, <3>1 DEF DebitsOf
      <3> QED
        BY <3>2, <3>3
    <2>5. g[op] = plan.debits[c] /\ g[op] \in Nat
      BY <1>3, <2>1, <2>3 DEF DebitsOf, PlanOK
    <2>6. IsFiniteSet(UnrefundedOps)
      BY <1>4, LedgerSums
    <2>7. Total(g, UnrefundedOps') = Total(f, UnrefundedOps) + g[op] /\ Total(f, UnrefundedOps) \in Nat
      <3>1. PICK T : T = UnrefundedOps'
        OBVIOUS
      <3>2. Total(g, T) = Total(f, UnrefundedOps) + g[op] /\ Total(f, UnrefundedOps) \in Nat
        <4>1. Joins(UnrefundedOps, op, T, f, g)
          BY <1>3, <2>4, <2>5, <2>6, <3>1 DEF Joins
        <4>2. Joined(UnrefundedOps, op, T, f, g)
          BY <4>1, TotalJoins, Zenon
        <4> QED
          BY <4>2 DEF Joined
      <3> QED
        BY <3>1, <3>2, Zenon
    <2>8. credits'[c].consumed = credits[c].consumed + plan.debits[c]
      BY DEF Took
    <2>9. credits[c].consumed = Total(f, UnrefundedOps)
      BY <2>2, <2>3, Zenon
    <2>10. credits'[c].consumed = Total(g, UnrefundedOps')
      BY <2>5, <2>7, <2>8, <2>9
    <2> QED
      BY <2>3, <2>10, Zenon
  <1>6. (\A c \in DOMAIN credits : CreditAt(c))'
    BY <1>1, <1>5 DEF CreditAt
  <1>7. (CreditsOK /\ (\A c \in DOMAIN credits : CreditAt(c)) => CreditsMatchLedger)'
    BY CreditsThen, PTL
  <1> QED
    BY <1>2, <1>6, <1>7

(* The same, as a formula that holds of the next state too. *)
LEMMA MonthlyThen ==
    SubsOK /\ refunds \subseteq Op /\ (\A i \in DOMAIN subs : MonthlyAt(i)) => MonthlyMatchesLedger
  BY MonthlyRestated

(* A charge keeps the monthly counters in agreement with the ledger, in the *)
(* running period as after a rollover.                                      *)
LEMMA ChargeKeepsMonthly ==
    ASSUME LedgerInv, NEW s \in DOMAIN subs, NEW op \in Op, op[1] = s, op \notin ChargedOps,
           NEW cost \in Nat, cost > 0, NEW row, row = Rolled(subs[s]), NEW plan, PlanOK(row, cost, plan),
           Took(s, op, row, plan)
    PROVE  SubsOK' /\ MonthlyMatchesLedger'
  <1>1. LedgerOK /\ SubsOK /\ MonthlyMatchesLedger /\ clock \in Nat
    BY DEF LedgerInv
  <1>2. /\ Len(subs) \in Nat /\ DOMAIN subs = 1..Len(subs) /\ DOMAIN subs' = DOMAIN subs
        /\ subs' \in Seq(SubRow) /\ Len(subs') = Len(subs)
    <2>1. \A S : \A q \in Seq(S) : DOMAIN q = 1..Len(q) /\ Len(q) \in Nat
      OBVIOUS
    <2>2. subs \in Seq(SubRow) /\ subs' \in Seq(SubRow) /\ Len(subs') = Len(subs)
      BY <1>1 DEF SubsOK, Took
    <2> QED
      BY <2>1, <2>2, Zenon
  <1>3. /\ row \in SubRow /\ row.used <= row.limit /\ row.status = subs[s].status
        /\ row.end >= subs[s].end /\ row.end \in Nat
        /\ row.end = subs[s].end => row = subs[s]
        /\ row.end # subs[s].end => row.used = 0 /\ row.end > subs[s].end
    BY <1>1, RolledRow DEF SubRow
  <1>4. /\ \A i \in DOMAIN subs : i # s => subs'[i] = subs[i]
        /\ subs'[s].used = row.used + plan.monthly /\ subs'[s].end = row.end
        /\ subs'[s].limit = row.limit /\ subs'[s].status = row.status
        /\ plan.monthly \in Nat /\ row.used + plan.monthly <= row.limit /\ plan.period = row.end
    BY DEF Took, PlanOK
  <1>5. /\ LedgerOK' /\ UnrefundedOps' = UnrefundedOps \cup {op}
        /\ op \notin UnrefundedOps /\ op \notin refunds
        /\ ledger'[op] = plan /\ \A o \in Op : o # op => ledger'[o] = ledger[o]
    BY LedgerTakes
  <1>6. refunds' = refunds
    BY DEF Took
  <1>7. SubsOK'
    <2>1. \A i \in DOMAIN subs' : /\ subs'[i].status = "active" <=> i = Len(subs')
                                  /\ subs'[i].end > 0 /\ subs'[i].used <= subs'[i].limit
      <3>1. TAKE i \in DOMAIN subs'
      <3>2. CASE i = s
        <4>1. subs[s].status = "active" <=> s = Len(subs)
          BY <1>1 DEF SubsOK
        <4>2. subs[s].end > 0 /\ subs[s].end \in Nat
          BY <1>1, SubTypes DEF SubsOK, SubRow
        <4> QED
          BY <1>2, <1>3, <1>4, <3>2, <4>1, <4>2
      <3>3. CASE i # s
        BY <1>1, <1>2, <1>4, <3>3 DEF SubsOK
      <3> QED
        BY <3>2, <3>3
    <2> QED
      BY <1>1, <1>2, <2>1 DEF SubsOK
  <1>8. /\ UnrefundedOps \subseteq Op /\ refunds \subseteq Op
        /\ UnrefundedOps \subseteq ChargedOps /\ refunds \subseteq ChargedOps
    BY <1>1, LedgerSums DEF LedgerOK
  <1>9. \A i \in DOMAIN subs : MonthlyAt(i)
    BY <1>1, <1>8, MonthlyRestated
  <1>10. PICK f, g : f = MonthlyOf /\ g = MonthlyOf'
    OBVIOUS
  <1>11. /\ \A o \in ChargedOps : f[o] \in Nat
         /\ \A o \in ChargedOps : o # op => g[o] = f[o]
         /\ g[op] = plan.monthly /\ g[op] \in Nat
    <2>1. \A o \in ChargedOps : o \in Op /\ f[o] \in Nat
      BY <1>1, <1>10, LedgerSums
    <2>2. \A o \in Op : g[o] = ledger'[o].monthly /\ f[o] = ledger[o].monthly
      BY <1>10 DEF MonthlyOf
    <2> QED
      BY <1>4, <1>5, <2>1, <2>2
  <1>12. ASSUME NEW i \in DOMAIN subs
         PROVE  /\ IsFiniteSet(Here(i)) /\ IsFiniteSet(LateOps(i))
                /\ Here(i) \subseteq ChargedOps /\ LateOps(i) \subseteq ChargedOps
                /\ op \notin Here(i) /\ op \notin LateOps(i)
                /\ Total(f, Here(i)) \in Nat /\ Total(f, LateOps(i)) \in Nat
                /\ subs[i].used <= Total(f, Here(i))
                /\ Total(f, Here(i)) <= subs[i].used + Total(f, LateOps(i))
    BY <1>1, <1>9, <1>10, LedgerSums DEF MonthlyAt
  <1>13. ASSUME NEW i \in DOMAIN subs PROVE MonthlyAt(i)'
    <2>1. \A o \in Op : o # op => ledger'[o].period = ledger[o].period
      BY <1>5
    <2>2. CASE i # s
      <3>1. Here(i)' = Here(i)
        BY <1>4, <1>5, <1>8, <2>1, <2>2 DEF Here
      <3>2. LateOps(i)' = LateOps(i)
        BY <1>4, <1>5, <1>6, <1>8, <2>1, <2>2 DEF LateOps
      <3>3. Total(f, Here(i)) = Total(g, Here(i))
        <4>1. \A o \in Here(i) : f[o] = g[o]
          BY <1>11, <1>12
        <4> QED
          BY <1>12, <4>1, TotalSame
      <3>4. Total(f, LateOps(i)) = Total(g, LateOps(i))
        <4>1. \A o \in LateOps(i) : f[o] = g[o]
          BY <1>11, <1>12
        <4> QED
          BY <1>12, <4>1, TotalSame
      <3>5. subs'[i].used <= Total(g, Here(i)) /\ Total(g, Here(i)) <= subs'[i].used + Total(g, LateOps(i))
        BY <1>4, <1>12, <2>2, <3>3, <3>4
      <3>6. /\ Total(g, Here(i)) = Total(MonthlyOf', Here(i)')
            /\ Total(g, LateOps(i)) = Total(MonthlyOf', LateOps(i)')
        BY <1>10, <3>1, <3>2, Zenon
      <3> QED
        BY <3>5, <3>6, Zenon DEF MonthlyAt
    <2>3. CASE i = s /\ row.end = subs[s].end
      <3>1. Here(s)' = Here(s) \cup {op}
        BY <1>4, <1>5, <1>8, <2>1, <2>3 DEF Here
      <3>2. LateOps(s)' = LateOps(s)
        BY <1>4, <1>5, <1>6, <1>8, <2>1, <2>3 DEF LateOps
      <3>3. Total(g, Here(s) \cup {op}) = Total(f, Here(s)) + g[op]
        <4>1. \A o \in Here(s) : f[o] \in Nat /\ g[o] = f[o]
          BY <1>11, <1>12
        <4>2. PICK T : T = Here(s) \cup {op}
          OBVIOUS
        <4>3. Total(g, T) = Total(f, Here(s)) + g[op]
          <5>1. Joins(Here(s), op, T, f, g)
            BY <1>11, <1>12, <4>1, <4>2 DEF Joins
          <5>2. Joined(Here(s), op, T, f, g)
            BY <5>1, TotalJoins, Zenon
          <5> QED
            BY <5>2 DEF Joined
        <4> QED
          BY <4>2, <4>3, Zenon
      <3>4. Total(f, LateOps(s)) = Total(g, LateOps(s))
        <4>1. \A o \in LateOps(s) : f[o] = g[o]
          BY <1>11, <1>12
        <4> QED
          BY <1>12, <4>1, TotalSame
      <3>5. subs[s].used \in Nat /\ subs'[s].used = subs[s].used + g[op]
        BY <1>3, <1>4, <1>11, <2>3 DEF SubRow
      <3>6. /\ subs'[s].used <= Total(g, Here(s) \cup {op})
            /\ Total(g, Here(s) \cup {op}) <= subs'[s].used + Total(g, LateOps(s))
        BY <1>11, <1>12, <3>3, <3>4, <3>5
      <3>7. /\ Total(g, Here(s) \cup {op}) = Total(MonthlyOf', Here(s)')
            /\ Total(g, LateOps(s)) = Total(MonthlyOf', LateOps(s)')
        BY <1>10, <3>1, <3>2, Zenon
      <3>8. MonthlyAt(s)'
        BY <3>6, <3>7, Zenon DEF MonthlyAt
      <3> QED
        BY <2>3, <3>8, Zenon
    <2>4. CASE i = s /\ row.end # subs[s].end
      <3>1. Here(s)' = {op}
        <4>1. \A o \in UnrefundedOps : o[1] = s => ledger[o].period \in Nat /\ ledger[o].period <= subs[s].end
          BY <1>1, <1>8 DEF LedgerOK, ChargeRow
        <4>2. subs[s].end \in Nat
          BY <1>1, SubTypes DEF SubRow
        <4> QED
          BY <1>3, <1>4, <1>5, <1>8, <2>1, <2>4, <4>1, <4>2 DEF Here
      <3>2. Total(g, {op}) = g[op]
        <4>1. {op} \ {op} = {} /\ IsFiniteSet({op})
          BY FS_Singleton
        <4>2. Total(g, {op}) = g[op] + Total(g, {op} \ {op})
          BY <1>11, <4>1, TotalRemove
        <4>3. Total(g, {op} \ {op}) = 0
          BY <4>1, TotalEmpty
        <4> QED
          BY <1>11, <4>2, <4>3
      <3>3. LateOps(s)' \subseteq ChargedOps /\ op \notin LateOps(s)' /\ IsFiniteSet(LateOps(s)')
        <4>1. LateOps(s)' \subseteq refunds
          BY <1>6 DEF LateOps
        <4>2. IsFiniteSet(refunds)
          BY <1>1, LedgerSums
        <4> QED
          BY <1>5, <1>8, <4>1, <4>2, FS_Subset
      <3>4. Total(g, LateOps(s)') \in Nat
        <4>1. \A o \in LateOps(s)' : g[o] \in Nat
          BY <1>11, <3>3
        <4> QED
          BY <3>3, <4>1, TotalType
      <3>5. subs'[s].used = g[op]
        BY <1>3, <1>4, <1>11, <2>4
      <3>6. /\ subs'[s].used <= Total(g, {op})
            /\ Total(g, {op}) <= subs'[s].used + Total(g, LateOps(s)')
        BY <1>11, <3>2, <3>4, <3>5
      <3>7. /\ Total(g, {op}) = Total(MonthlyOf', Here(s)')
            /\ Total(g, LateOps(s)') = Total(MonthlyOf', LateOps(s)')
        BY <1>10, <3>1, Zenon
      <3>8. MonthlyAt(s)'
        BY <3>6, <3>7, Zenon DEF MonthlyAt
      <3> QED
        BY <2>4, <3>8, Zenon
    <2> QED
      BY <2>2, <2>3, <2>4
  <1>14. (refunds \subseteq Op)'
    BY <1>6, <1>8
  <1>15. (SubsOK /\ refunds \subseteq Op /\ (\A i \in DOMAIN subs : MonthlyAt(i)) => MonthlyMatchesLedger)'
    BY MonthlyThen, PTL
  <1> QED
    BY <1>2, <1>7, <1>13, <1>14, <1>15

----------------------------------------------------------------------------
(* A refund. *)

(* What giving back the charge b of op leaves. *)
Gave(s, op, b) ==
    /\ subs' \in Seq(SubRow) /\ Len(subs') = Len(subs)
    /\ \A i \in DOMAIN subs : i # s => subs'[i] = subs[i]
    /\ subs'[s] \in SubRow
    /\ subs'[s].used = Less(subs[s].used, b.monthly)
    /\ subs'[s].overUsed = Less(subs[s].overUsed, b.overage)
    /\ subs'[s].limit = subs[s].limit /\ subs'[s].cap = subs[s].cap /\ subs'[s].end = subs[s].end
    /\ subs'[s].overage = subs[s].overage /\ subs'[s].status = subs[s].status
    /\ credits' \in Seq(CreditRow) /\ Len(credits') = Len(credits)
    /\ \A c \in DOMAIN credits :
          /\ credits'[c] \in CreditRow
          /\ credits'[c].amount = credits[c].amount /\ credits'[c].expires = credits[c].expires
          /\ b.debits[c] \in Nat /\ b.debits[c] <= credits[c].consumed
          /\ credits'[c].consumed = credits[c].consumed - b.debits[c]
          /\ credits'[c].consumed <= credits'[c].amount
          /\ credits'[c].exhausted <=> credits'[c].consumed = credits'[c].amount
    /\ refunds' = refunds \cup {op} /\ ledger' = ledger

(* A credit has given at least what an unrefunded charge took from it. *)
LEMMA CreditCovers ==
    ASSUME LedgerInv, NEW op \in ChargedOps, op \notin refunds, NEW c \in DOMAIN credits
    PROVE  /\ c \in CreditId /\ ledger[op].debits[c] \in Nat
           /\ Total(DebitsOf(c), UnrefundedOps \ {op}) \in Nat
           /\ credits[c].consumed = ledger[op].debits[c] + Total(DebitsOf(c), UnrefundedOps \ {op})
  <1>1. LedgerOK /\ CreditsOK /\ CreditsMatchLedger
    BY DEF LedgerInv
  <1>2. c \in CreditId
    BY <1>1, CreditTypes
  <1>3. /\ IsFiniteSet(UnrefundedOps) /\ op \in UnrefundedOps
        /\ \A o \in UnrefundedOps : DebitsOf(c)[o] \in Nat
        /\ DebitsOf(c)[op] = ledger[op].debits[c] /\ DebitsOf(c)[op] \in Nat
    BY <1>1, <1>2, LedgerSums
  <1>4. PICK f, S : f = DebitsOf(c) /\ S = UnrefundedOps
    OBVIOUS
  <1>5. credits[c].consumed = Total(DebitsOf(c), UnrefundedOps)
    BY <1>1 DEF CreditsMatchLedger, DebitsOf
  <1>6. credits[c].consumed = Total(f, S)
    BY <1>4, <1>5, Zenon
  <1>7. Total(f, S) = f[op] + Total(f, S \ {op})
    BY <1>3, <1>4, TotalRemove
  <1>8. Total(f, S \ {op}) \in Nat
    <2>1. PICK T : T = S \ {op}
      OBVIOUS
    <2>2. IsFiniteSet(T) /\ \A o \in T : f[o] \in Nat
      BY <1>3, <1>4, <2>1, FS_Subset
    <2>3. Total(f, T) \in Nat
      BY <2>2, TotalType
    <2> QED
      BY <2>1, <2>3, Zenon
  <1>9. Total(f, S \ {op}) = Total(DebitsOf(c), UnrefundedOps \ {op}) /\ f[op] = ledger[op].debits[c]
    BY <1>3, <1>4, Zenon
  <1>10. Total(DebitsOf(c), UnrefundedOps \ {op}) \in Nat
    BY <1>8, <1>9, Zenon
  <1>11. credits[c].consumed = ledger[op].debits[c] + Total(DebitsOf(c), UnrefundedOps \ {op})
    BY <1>6, <1>7, <1>9, Zenon
  <1>12. ledger[op].debits[c] \in Nat
    BY <1>3
  <1> QED
    BY <1>2, <1>10, <1>11, <1>12

(* GiveBack of a charge leaves what Gave says: the clamps cut nothing. *)
LEMMA GiveBackGives ==
    ASSUME LedgerInv, NEW op \in ChargedOps, op \notin refunds, NEW s, s = op[1],
           NEW b, b = ledger[op], GiveBack(s, op, b)
    PROVE  Gave(s, op, b) /\ s \in DOMAIN subs
  <1>1. LedgerOK /\ CreditsOK /\ SubsOK
    BY DEF LedgerInv
  <1>2. ChargeRow(op)
    BY <1>1 DEF LedgerOK
  <1>3. /\ s \in DOMAIN subs /\ b.monthly \in Nat /\ b.overage \in Nat /\ b.debits \in [CreditId -> Nat]
    BY <1>2 DEF ChargeRow
  <1>4. PICK m, o, d : m = b.monthly /\ o = b.overage /\ d = b.debits
    OBVIOUS
  <1>5. PICK r : r = clampRefundToCharge(op, b)
    OBVIOUS
  <1>6. r.monthly = m /\ r.overage = o /\ \A c \in CreditId : r.debits[c] = d[c]
    <2>1. DOMAIN b = {"monthly", "overage", "debits", "period"}
      BY <1>2 DEF ChargeRow
    <2>2. Smaller(b.monthly, ledger[op].monthly) = m /\ Smaller(b.overage, ledger[op].overage) = o
      BY <1>3, <1>4 DEF Smaller
    <2>3. \A c \in CreditId : Smaller(b.debits[c], ledger[op].debits[c]) = d[c]
      BY <1>3, <1>4 DEF Smaller
    <2> QED
      BY <1>5, <2>1, <2>2, <2>3 DEF clampRefundToCharge
  <1>7. PICK u, v : u = Less(subs[s].used, m) /\ v = Less(subs[s].overUsed, o)
    OBVIOUS
  <1>8. subs[s] \in SubRow /\ u \in Nat /\ v \in Nat
    <2>1. subs[s] \in SubRow
      BY <1>1, <1>3, SubTypes
    <2> QED
      BY <1>3, <1>4, <1>7, <2>1 DEF Less, SubRow
  <1>9a. PICK q : q = subs[s]
    OBVIOUS
  <1>9b. PICK q1 : q1 = [q EXCEPT !.used = u]
    OBVIOUS
  <1>9. PICK q2 : q2 = [q1 EXCEPT !.overUsed = v]
    OBVIOUS
  <1>10. /\ q1 \in SubRow /\ q1.used = u /\ q1.overUsed = q.overUsed /\ q1.limit = q.limit
         /\ q1.cap = q.cap /\ q1.end = q.end /\ q1.overage = q.overage /\ q1.status = q.status
    BY <1>8, <1>9a, <1>9b DEF SubRow
  <1>11. /\ q2 \in SubRow /\ q2.used = u /\ q2.overUsed = v /\ q2.limit = q.limit
         /\ q2.cap = q.cap /\ q2.end = q.end /\ q2.overage = q.overage /\ q2.status = q.status
    BY <1>8, <1>9, <1>10 DEF SubRow
  <1>12. subs' = [subs EXCEPT ![s] = q2]
    <2>1. subs' = [subs EXCEPT ![s].used = Less(@, r.monthly), ![s].overUsed = Less(@, r.overage)]
      BY <1>5 DEF GiveBack
    <2>2. PICK t : t = [subs EXCEPT ![s].used = Less(@, r.monthly)]
      OBVIOUS
    <2>3. t = [subs EXCEPT ![s] = q1]
      BY <1>6, <1>7, <1>9a, <1>9b, <2>2
    <2>4. subs' = [t EXCEPT ![s].overUsed = Less(@, r.overage)]
      BY <2>1, <2>2
    <2>5. t[s] = q1 /\ q1.overUsed = q.overUsed
      BY <1>3, <1>10, <2>3
    <2>6. subs' = [t EXCEPT ![s] = q2]
      BY <1>6, <1>7, <1>9, <1>9a, <2>4, <2>5
    <2> QED
      BY <2>3, <2>6
  <1>13. /\ subs' \in Seq(SubRow) /\ Len(subs') = Len(subs) /\ subs'[s] = q2
         /\ \A i \in DOMAIN subs : i # s => subs'[i] = subs[i]
    BY <1>1, <1>3, <1>11, <1>12, ExceptSub
  <1>14. PICK k : k = [c \in DOMAIN credits |-> Less(credits[c].consumed, r.debits[c])]
    OBVIOUS
  <1>15. ASSUME NEW c \in DOMAIN credits
         PROVE  /\ k[c] \in Nat /\ k[c] <= credits[c].amount /\ k[c] = credits[c].consumed - d[c]
                /\ d[c] \in Nat /\ d[c] <= credits[c].consumed
    <2>1. c \in CreditId /\ credits[c] \in CreditRow /\ credits[c].consumed <= credits[c].amount
      BY <1>1, CreditTypes DEF CreditsOK
    <2>2. d[c] \in Nat /\ d[c] <= credits[c].consumed
      <3>1. PICK x : x = Total(DebitsOf(c), UnrefundedOps \ {op})
        OBVIOUS
      <3>2. x \in Nat /\ ledger[op].debits[c] \in Nat /\ credits[c].consumed = ledger[op].debits[c] + x
        BY <3>1, CreditCovers
      <3> QED
        BY <1>4, <3>2
    <2>3. k[c] = Less(credits[c].consumed, d[c])
      BY <1>6, <1>14, <2>1
    <2> QED
      BY <2>1, <2>2, <2>3 DEF CreditRow, Less
  <1>16. credits' = CreditRows(k) /\ ledger' = ledger /\ refunds' = refunds \cup {op}
    BY <1>5, <1>14 DEF GiveBack
  <1>17. /\ credits' \in Seq(CreditRow) /\ Len(credits') = Len(credits)
         /\ \A c \in DOMAIN credits :
                 /\ credits'[c] \in CreditRow
                 /\ credits'[c].amount = credits[c].amount /\ credits'[c].expires = credits[c].expires
                 /\ credits'[c].consumed = k[c]
                 /\ credits'[c].exhausted <=> credits'[c].consumed = credits'[c].amount
    BY <1>1, <1>15, <1>16, NewCreditRows
  <1>18. \A c \in DOMAIN credits : /\ credits'[c].consumed = credits[c].consumed - d[c]
                                  /\ credits'[c].consumed <= credits'[c].amount
    BY <1>15, <1>17
  <1> QED
    BY <1>3, <1>4, <1>7, <1>9a, <1>9, <1>11, <1>13, <1>15, <1>16, <1>17, <1>18 DEF Gave

(* A step that keeps the lengths keeps the domains. *)
LEMMA SameDomains ==
    ASSUME SubsOK, CreditsOK, subs' \in Seq(SubRow), Len(subs') = Len(subs),
           credits' \in Seq(CreditRow), Len(credits') = Len(credits)
    PROVE  DOMAIN subs' = DOMAIN subs /\ DOMAIN credits' = DOMAIN credits
  <1>1. \A S : \A q \in Seq(S) : DOMAIN q = 1..Len(q)
    OBVIOUS
  <1>2. subs \in Seq(SubRow) /\ credits \in Seq(CreditRow)
    BY DEF SubsOK, CreditsOK
  <1> QED
    BY <1>1, <1>2, Zenon

(* A refund keeps the credit rows in agreement with the ledger. *)
LEMMA RefundKeepsCredits ==
    ASSUME LedgerInv, NEW op \in ChargedOps, op \notin refunds, NEW s \in DOMAIN subs, s = op[1],
           NEW b, b = ledger[op], Gave(s, op, b)
    PROVE  CreditsOK' /\ CreditsMatchLedger'
  <1>1. LedgerOK /\ CreditsOK /\ SubsOK
    BY DEF LedgerInv
  <1>2. DOMAIN credits' = DOMAIN credits
    BY <1>1, SameDomains DEF Gave
  <1>3. CreditsOK'
    BY <1>1, <1>2 DEF CreditsOK, Gave
  <1>4. ledger' = ledger /\ UnrefundedOps' = UnrefundedOps \ {op}
    <2>1. ledger' = ledger /\ refunds' = refunds \cup {op}
      BY DEF Gave
    <2> QED
      BY <2>1 DEF UnrefundedOps, Charged
  <1>5. ASSUME NEW c \in DOMAIN credits PROVE credits'[c].consumed = Total(DebitsOf(c)', UnrefundedOps')
    <2>1. PICK x : x = Total(DebitsOf(c), UnrefundedOps \ {op})
      OBVIOUS
    <2>2. x \in Nat /\ b.debits[c] \in Nat /\ credits[c].consumed = b.debits[c] + x
      BY <2>1, CreditCovers
    <2>3. credits'[c].consumed = credits[c].consumed - b.debits[c]
      BY DEF Gave
    <2>4. credits'[c].consumed = x
      BY <2>2, <2>3
    <2>5. DebitsOf(c)' = DebitsOf(c)
      BY <1>4 DEF DebitsOf
    <2> QED
      BY <1>4, <2>1, <2>4, <2>5, Zenon
  <1>6. (\A c \in DOMAIN credits : CreditAt(c))'
    BY <1>2, <1>5 DEF CreditAt
  <1>7. (CreditsOK /\ (\A c \in DOMAIN credits : CreditAt(c)) => CreditsMatchLedger)'
    BY CreditsThen, PTL
  <1> QED
    BY <1>3, <1>6, <1>7

(* A refund keeps the monthly counters in agreement with the ledger, also one *)
(* of a charge of an earlier period.                                        *)
LEMMA RefundKeepsMonthly ==
    ASSUME LedgerInv, NEW op \in ChargedOps, op \notin refunds, NEW s \in DOMAIN subs, s = op[1],
           NEW b, b = ledger[op], Gave(s, op, b)
    PROVE  SubsOK' /\ LedgerOK' /\ MonthlyMatchesLedger'
  <1>1. LedgerOK /\ SubsOK /\ CreditsOK /\ MonthlyMatchesLedger
    BY DEF LedgerInv
  <1>2. /\ DOMAIN subs' = DOMAIN subs /\ DOMAIN credits' = DOMAIN credits
        /\ subs' \in Seq(SubRow) /\ Len(subs') = Len(subs)
    BY <1>1, SameDomains DEF Gave
  <1>3. ChargeRow(op)
    BY <1>1 DEF LedgerOK
  <1>4. PICK m \in Nat : m = b.monthly
    BY <1>3 DEF ChargeRow
  <1>5. /\ \A i \in DOMAIN subs : i # s => subs'[i] = subs[i]
        /\ subs'[s].used = Less(subs[s].used, m) /\ subs'[s].end = subs[s].end
        /\ subs'[s].limit = subs[s].limit /\ subs'[s].status = subs[s].status
    BY <1>4 DEF Gave
  <1>6. /\ \A i \in DOMAIN subs : subs'[i].end = subs[i].end /\ subs[i].end \in Nat
        /\ subs[s].used \in Nat /\ subs[s].limit \in Nat /\ subs[s].used <= subs[s].limit
    BY <1>1, <1>5, SubTypes DEF SubRow, SubsOK
  <1>7. subs'[s].used \in Nat /\ subs'[s].used <= subs[s].used /\ subs[s].used <= subs'[s].used + m
    BY <1>5, <1>6 DEF Less
  <1>8. SubsOK'
    <2>1. \A i \in DOMAIN subs' : /\ subs'[i].status = "active" <=> i = Len(subs')
                                  /\ subs'[i].end > 0 /\ subs'[i].used <= subs'[i].limit
      <3>1. TAKE i \in DOMAIN subs'
      <3>2. CASE i = s
        <4>1. subs[s].status = "active" <=> s = Len(subs)
          BY <1>1 DEF SubsOK
        <4>2. subs[s].end > 0
          BY <1>1 DEF SubsOK
        <4> QED
          BY <1>2, <1>5, <1>6, <1>7, <3>2, <4>1, <4>2
      <3>3. CASE i # s
        BY <1>1, <1>2, <1>5, <3>3 DEF SubsOK
      <3> QED
        BY <3>2, <3>3
    <2> QED
      BY <1>1, <1>2, <2>1 DEF SubsOK
  <1>9. refunds' = refunds \cup {op} /\ ledger' = ledger
    BY DEF Gave
  <1>10. ChargedOps' = ChargedOps /\ UnrefundedOps' = UnrefundedOps \ {op}
    BY <1>9 DEF ChargedOps, UnrefundedOps, Charged
  <1>11. LedgerOK'
    <2>1. ASSUME NEW o \in ChargedOps PROVE ChargeRow(o)'
      <3>1. ChargeRow(o)
        BY <1>1 DEF LedgerOK
      <3>2. Paid(ledger[o])' = Paid(ledger[o])
        BY <1>9 DEF Paid
      <3> QED
        BY <1>2, <1>6, <1>9, <3>1, <3>2 DEF ChargeRow
    <2> QED
      BY <1>1, <1>9, <1>10, <2>1 DEF LedgerOK
  <1>12. /\ UnrefundedOps \subseteq Op /\ refunds \subseteq Op
         /\ UnrefundedOps \subseteq ChargedOps /\ refunds \subseteq ChargedOps
         /\ op \in UnrefundedOps /\ op \in Op
    BY <1>1, LedgerSums DEF LedgerOK
  <1>13. \A i \in DOMAIN subs : MonthlyAt(i)
    BY <1>1, <1>12, MonthlyRestated
  <1>14. PICK f : f = MonthlyOf
    OBVIOUS
  <1>15. MonthlyOf' = f /\ (\A o \in ChargedOps : f[o] \in Nat) /\ f[op] = m
    BY <1>1, <1>4, <1>9, <1>14, LedgerSums DEF MonthlyOf
  <1>16. ASSUME NEW i \in DOMAIN subs
         PROVE  /\ IsFiniteSet(Here(i)) /\ IsFiniteSet(LateOps(i))
                /\ Here(i) \subseteq ChargedOps /\ LateOps(i) \subseteq ChargedOps
                /\ op \notin LateOps(i)
                /\ Total(f, Here(i)) \in Nat /\ Total(f, LateOps(i)) \in Nat
                /\ subs[i].used <= Total(f, Here(i))
                /\ Total(f, Here(i)) <= subs[i].used + Total(f, LateOps(i))
    BY <1>1, <1>13, <1>14, LedgerSums DEF MonthlyAt, LateOps
  <1>17. ASSUME NEW i \in DOMAIN subs PROVE MonthlyAt(i)'
    <2>1. CASE i # s
      <3>1. Here(i)' = Here(i)
        BY <1>6, <1>9, <1>10, <2>1 DEF Here
      <3>2. LateOps(i)' = LateOps(i)
        BY <1>6, <1>9, <2>1 DEF LateOps
      <3>3. subs'[i].used <= Total(f, Here(i)) /\ Total(f, Here(i)) <= subs'[i].used + Total(f, LateOps(i))
        BY <1>5, <1>16, <2>1
      <3>4. /\ Total(f, Here(i)) = Total(MonthlyOf', Here(i)')
            /\ Total(f, LateOps(i)) = Total(MonthlyOf', LateOps(i)')
        BY <1>15, <3>1, <3>2, Zenon
      <3> QED
        BY <3>3, <3>4, Zenon DEF MonthlyAt
    <2>2. CASE i = s /\ ledger[op].period = subs[s].end
      <3>1. Here(s)' = Here(s) \ {op} /\ op \in Here(s)
        BY <1>6, <1>9, <1>10, <1>12, <2>2 DEF Here
      <3>2. LateOps(s)' = LateOps(s)
        BY <1>6, <1>9, <2>2 DEF LateOps
      <3>3. PICK T : T = Here(s) \ {op}
        OBVIOUS
      <3>4. Total(f, T) \in Nat
        <4>1. IsFiniteSet(T) /\ \A o \in T : f[o] \in Nat
          BY <1>15, <1>16, <3>3, FS_Subset
        <4> QED
          BY <4>1, TotalType
      <3>5. Total(f, Here(s)) = m + Total(f, T)
        <4>1. \A o \in Here(s) : f[o] \in Nat
          BY <1>15, <1>16
        <4>2. Total(f, Here(s)) = f[op] + Total(f, Here(s) \ {op})
          BY <1>16, <3>1, <4>1, TotalRemove
        <4> QED
          BY <1>15, <3>3, <4>2, Zenon
      <3>6. subs'[s].used <= Total(f, T) /\ Total(f, T) <= subs'[s].used + Total(f, LateOps(s))
        BY <1>5, <1>6, <1>7, <1>16, <3>4, <3>5 DEF Less
      <3>7. Total(f, T) = Total(MonthlyOf', Here(s)') /\ Total(f, LateOps(s)) = Total(MonthlyOf', LateOps(s)')
        BY <1>15, <3>1, <3>2, <3>3, Zenon
      <3>8. MonthlyAt(s)'
        BY <3>6, <3>7, Zenon DEF MonthlyAt
      <3> QED
        BY <2>2, <3>8, Zenon
    <2>3. CASE i = s /\ ledger[op].period # subs[s].end
      <3>1. Here(s)' = Here(s)
        BY <1>6, <1>9, <1>10, <1>12, <2>3 DEF Here
      <3>2. LateOps(s)' = LateOps(s) \cup {op}
        <4>1. ledger[op].period < subs[s].end
          BY <1>3, <1>6, <2>3 DEF ChargeRow
        <4> QED
          BY <1>6, <1>9, <4>1 DEF LateOps
      <3>3. PICK T : T = LateOps(s) \cup {op}
        OBVIOUS
      <3>4. Total(f, T) \in Nat /\ Total(f, T) = Total(f, LateOps(s)) + m
        <4>1. Joins(LateOps(s), op, T, f, f)
          BY <1>15, <1>16, <3>3 DEF Joins
        <4>2. Joined(LateOps(s), op, T, f, f)
          BY <4>1, TotalJoins, Zenon
        <4> QED
          BY <1>15, <4>2 DEF Joined
      <3>6. subs'[s].used <= Total(f, Here(s)) /\ Total(f, Here(s)) <= subs'[s].used + Total(f, T)
        BY <1>6, <1>7, <1>16, <3>4
      <3>7. Total(f, Here(s)) = Total(MonthlyOf', Here(s)') /\ Total(f, T) = Total(MonthlyOf', LateOps(s)')
        BY <1>15, <3>1, <3>2, <3>3, Zenon
      <3>8. MonthlyAt(s)'
        BY <3>6, <3>7, Zenon DEF MonthlyAt
      <3> QED
        BY <2>3, <3>8, Zenon
    <2> QED
      BY <2>1, <2>2, <2>3
  <1>18. (refunds \subseteq Op)'
    BY <1>9, <1>12
  <1>19. (SubsOK /\ refunds \subseteq Op /\ (\A i \in DOMAIN subs : MonthlyAt(i)) => MonthlyMatchesLedger)'
    BY MonthlyThen, PTL
  <1> QED
    BY <1>2, <1>8, <1>11, <1>17, <1>18, <1>19

----------------------------------------------------------------------------
(* What the operator, the customer and the clock do. *)

(* Where the ledger stands still, so do its sums. *)
LEMMA LedgerStands ==
    ASSUME LedgerInv, ledger' = ledger, refunds' = refunds
    PROVE  /\ ChargedOps' = ChargedOps /\ UnrefundedOps' = UnrefundedOps
           /\ refunds' \subseteq Op /\ refunds \subseteq Op
           /\ \A i \in DOMAIN subs :
                 subs'[i].used = subs[i].used /\ subs'[i].end = subs[i].end => MonthlyAt(i)'
           /\ \A c \in DOMAIN credits : credits'[c].consumed = credits[c].consumed => CreditAt(c)'
           /\ \A op \in ChargedOps : /\ op[1] \in DOMAIN subs' /\ subs[op[1]].end <= subs'[op[1]].end
                                     /\ subs'[op[1]].end \in Nat
                                     /\ DOMAIN credits \subseteq DOMAIN credits'
                                     => ChargeRow(op)'
  <1>1. LedgerOK /\ SubsOK /\ CreditsMatchLedger /\ MonthlyMatchesLedger
    BY DEF LedgerInv
  <1>2. ChargedOps' = ChargedOps /\ UnrefundedOps' = UnrefundedOps /\ refunds \subseteq Op
    BY <1>1, LedgerSums DEF ChargedOps, UnrefundedOps, Charged
  <1>3. ASSUME NEW i \in DOMAIN subs, subs'[i].used = subs[i].used, subs'[i].end = subs[i].end
        PROVE  MonthlyAt(i)'
    <2>1. MonthlyAt(i)
      BY <1>1, <1>2, MonthlyRestated
    <2>2. Here(i)' = Here(i) /\ LateOps(i)' = LateOps(i)
      BY <1>2, <1>3 DEF Here, LateOps
    <2>3. MonthlyOf' = MonthlyOf
      BY DEF MonthlyOf
    <2>4. /\ subs[i].used <= Total(MonthlyOf, Here(i))
          /\ Total(MonthlyOf, Here(i)) <= subs[i].used + Total(MonthlyOf, LateOps(i))
      BY <2>1 DEF MonthlyAt
    <2>5. /\ subs'[i].used <= Total(MonthlyOf', Here(i)')
          /\ Total(MonthlyOf', Here(i)') <= subs'[i].used + Total(MonthlyOf', LateOps(i)')
      BY <1>3, <2>2, <2>3, <2>4, Zenon
    <2> QED
      BY <2>5, Zenon DEF MonthlyAt
  <1>4. ASSUME NEW c \in DOMAIN credits, credits'[c].consumed = credits[c].consumed
        PROVE  CreditAt(c)'
    <2>1. credits[c].consumed = Total(DebitsOf(c), UnrefundedOps)
      BY <1>1 DEF CreditsMatchLedger, DebitsOf
    <2>2. DebitsOf(c)' = DebitsOf(c)
      BY DEF DebitsOf
    <2>3. credits'[c].consumed = Total(DebitsOf(c)', UnrefundedOps')
      BY <1>2, <1>4, <2>1, <2>2, Zenon
    <2> QED
      BY <2>3, Zenon DEF CreditAt
  <1>5. ASSUME NEW op \in ChargedOps, op[1] \in DOMAIN subs', subs[op[1]].end <= subs'[op[1]].end,
               subs'[op[1]].end \in Nat, DOMAIN credits \subseteq DOMAIN credits'
        PROVE  ChargeRow(op)'
    <2>1. ChargeRow(op)
      BY <1>1 DEF LedgerOK
    <2>2. Paid(ledger[op])' = Paid(ledger[op])
      BY DEF Paid
    <2>3. ledger[op].period <= subs'[op[1]].end
      <3>1. subs[op[1]].end \in Nat
        BY <1>1, <2>1, SubTypes DEF ChargeRow, SubRow
      <3> QED
        BY <1>5, <2>1, <3>1 DEF ChargeRow
    <2>4. \A c \in CreditId \ DOMAIN credits' : ledger[op].debits[c] = 0
      BY <1>5, <2>1 DEF ChargeRow
    <2> QED
      BY <1>5, <2>1, <2>2, <2>3, <2>4 DEF ChargeRow
  <1> QED
    BY <1>2, <1>3, <1>4, <1>5

(* The clock. *)
LEMMA TickKeeps == ASSUME LedgerInv, Tick PROVE LedgerInv'
  <1>1. /\ subs' = subs /\ credits' = credits /\ ledger' = ledger /\ refunds' = refunds
        /\ clock \in Nat /\ clock' = clock + 1
    BY DEF Tick, ledgerVars, LedgerInv
  <1>2. SubsOK' /\ CreditsOK'
    BY <1>1 DEF LedgerInv, SubsOK, CreditsOK
  <1>3. /\ ChargedOps' = ChargedOps /\ refunds' \subseteq Op
        /\ \A i \in DOMAIN subs : MonthlyAt(i)'
        /\ \A c \in DOMAIN credits : CreditAt(c)'
    BY <1>1, LedgerStands
  <1>4. LedgerOK'
    <2>1. LedgerOK /\ SubsOK
      BY DEF LedgerInv
    <2>2. \A op \in ChargedOps : ChargeRow(op)'
      <3>1. TAKE op \in ChargedOps
      <3>2. ChargeRow(op)
        BY <2>1 DEF LedgerOK
      <3>3. op[1] \in DOMAIN subs' /\ subs[op[1]].end <= subs'[op[1]].end /\ subs'[op[1]].end \in Nat
        BY <1>1, <2>1, <3>2, SubTypes DEF ChargeRow, SubRow
      <3> QED
        BY <1>1, <3>3, LedgerStands
    <2> QED
      BY <1>1, <1>3, <2>1, <2>2 DEF LedgerOK
  <1>5. (SubsOK /\ refunds \subseteq Op /\ (\A i \in DOMAIN subs : MonthlyAt(i)) => MonthlyMatchesLedger)'
    BY MonthlyThen, PTL
  <1>6. (CreditsOK /\ (\A c \in DOMAIN credits : CreditAt(c)) => CreditsMatchLedger)'
    BY CreditsThen, PTL
  <1> QED
    BY <1>1, <1>2, <1>3, <1>4, <1>5, <1>6 DEF LedgerInv

(* UpdateSubscription. *)
LEMMA UpdateKeeps == ASSUME LedgerInv, UpdateSubscription PROVE LedgerInv'
  <1>0. SubsOK /\ LedgerOK /\ clock \in Nat /\ CreditsOK
    BY DEF LedgerInv
  <1>1. /\ credits' = credits /\ ledger' = ledger /\ refunds' = refunds /\ clock' = clock
    BY DEF UpdateSubscription
  <1>2. PICK s \in ActiveSubs, cap \in {1, 2 * MonthlyTokens} :
           subs' = [subs EXCEPT ![s].overage = ~@, ![s].cap = cap]
    BY DEF UpdateSubscription
  <1>3. s \in DOMAIN subs /\ cap \in Nat
    BY MeteringAssumption DEF ActiveSubs
  <1>4. PICK q : q = subs[s]
    OBVIOUS
  <1>5. q \in SubRow
    BY <1>0, <1>3, <1>4, SubTypes
  <1>6. PICK on : on = ~q.overage
    OBVIOUS
  <1>7. on \in BOOLEAN
    BY <1>6
  <1>8. PICK q1 : q1 = [q EXCEPT !.overage = on]
    OBVIOUS
  <1>9. PICK q2 : q2 = [q1 EXCEPT !.cap = cap]
    OBVIOUS
  <1>10. q1 \in SubRow /\ q1.used = q.used /\ q1.limit = q.limit /\ q1.end = q.end /\ q1.status = q.status
    BY <1>5, <1>7, <1>8 DEF SubRow
  <1>11. q2 \in SubRow /\ q2.used = q.used /\ q2.limit = q.limit /\ q2.end = q.end /\ q2.status = q.status
    BY <1>3, <1>9, <1>10 DEF SubRow
  <1>12. subs' = [subs EXCEPT ![s] = q2]
    <2>1. PICK t : t = [subs EXCEPT ![s].overage = ~@]
      OBVIOUS
    <2>2. t = [subs EXCEPT ![s] = q1]
      BY <1>4, <1>6, <1>8, <2>1
    <2>3. subs' = [t EXCEPT ![s].cap = cap]
      BY <1>2, <2>1
    <2>4. t[s] = q1
      BY <1>3, <2>2
    <2>5. subs' = [t EXCEPT ![s] = q2]
      BY <1>9, <2>3, <2>4
    <2> QED
      BY <2>2, <2>5
  <1>13. /\ subs' \in Seq(SubRow) /\ Len(subs') = Len(subs) /\ subs'[s] = q2
         /\ \A i \in DOMAIN subs : i # s => subs'[i] = subs[i]
    BY <1>0, <1>3, <1>11, <1>12, ExceptSub
  <1>14. DOMAIN subs' = DOMAIN subs
    BY <1>12
  <1>15. \A i \in DOMAIN subs : /\ subs'[i].used = subs[i].used /\ subs'[i].end = subs[i].end
                                /\ subs'[i].limit = subs[i].limit /\ subs'[i].status = subs[i].status
    BY <1>4, <1>11, <1>13
  <1>16. SubsOK'
    BY <1>0, <1>13, <1>14, <1>15 DEF SubsOK
  <1>17. CreditsOK'
    BY <1>0, <1>1 DEF CreditsOK
  <1>18. /\ ChargedOps' = ChargedOps /\ refunds' \subseteq Op
         /\ \A i \in DOMAIN subs : MonthlyAt(i)'
         /\ \A c \in DOMAIN credits : CreditAt(c)'
    BY <1>1, <1>15, LedgerStands
  <1>19. LedgerOK'
    <2>2. \A op \in ChargedOps : ChargeRow(op)'
      <3>1. TAKE op \in ChargedOps
      <3>2. ChargeRow(op)
        BY <1>0 DEF LedgerOK
      <3>3. op[1] \in DOMAIN subs' /\ subs[op[1]].end <= subs'[op[1]].end /\ subs'[op[1]].end \in Nat
        BY <1>0, <1>14, <1>15, <3>2, SubTypes DEF ChargeRow, SubRow
      <3> QED
        BY <1>1, <3>3, LedgerStands
    <2> QED
      BY <1>0, <1>1, <1>18, <2>2 DEF LedgerOK
  <1>20. (SubsOK /\ refunds \subseteq Op /\ (\A i \in DOMAIN subs : MonthlyAt(i)) => MonthlyMatchesLedger)'
    BY MonthlyThen, PTL
  <1>21. (CreditsOK /\ (\A c \in DOMAIN credits : CreditAt(c)) => CreditsMatchLedger)'
    BY CreditsThen, PTL
  <1> QED
    BY <1>0, <1>1, <1>14, <1>16, <1>17, <1>18, <1>19, <1>20, <1>21 DEF LedgerInv

(* A new row at the end of a sequence. *)
LEMMA Appended ==
    ASSUME NEW S, NEW q \in Seq(S), NEW e \in S, NEW t, t = Append(q, e)
    PROVE  /\ t \in Seq(S) /\ Len(t) = Len(q) + 1 /\ Len(q) \in Nat
           /\ DOMAIN q = 1..Len(q) /\ DOMAIN t = 1..(Len(q) + 1)
           /\ \A i \in DOMAIN q : t[i] = q[i]
           /\ t[Len(q) + 1] = e
  OBVIOUS

(* The rows that AssignPlan leaves: those it cancels, and the new one. *)
LEMMA AssignedRows ==
    ASSUME LedgerInv, AssignPlan, NEW n, n = Len(subs)
    PROVE  /\ n \in Nat /\ DOMAIN subs = 1..n
           /\ subs' \in Seq(SubRow) /\ Len(subs') = n + 1 /\ DOMAIN subs' = 1..(n + 1)
           /\ \A i \in DOMAIN subs : /\ subs'[i].used = subs[i].used /\ subs'[i].end = subs[i].end
                                     /\ subs'[i].limit = subs[i].limit /\ subs'[i].status = "cancelled"
                                     /\ subs'[i].overUsed = subs[i].overUsed
           /\ subs'[n + 1].used = 0 /\ subs'[n + 1].limit \in Nat /\ subs'[n + 1].status = "active"
           /\ subs'[n + 1].end > 0
  <1>0. SubsOK /\ LedgerOK /\ clock \in Nat /\ CreditsOK
    BY DEF LedgerInv
  <1>2. PICK row : row = NewSub(clock + PeriodLength)
    OBVIOUS
  <1>3. /\ row \in SubRow /\ row.used = 0 /\ row.limit = MonthlyTokens /\ row.end = clock + PeriodLength
        /\ row.status = "active" /\ row.end > 0
    <2>1. PICK m, c, e : m = MonthlyTokens /\ c = 2 * MonthlyTokens /\ e = clock + PeriodLength
      OBVIOUS
    <2>2. m \in Nat /\ c \in Nat /\ e \in Nat /\ e > 0
      BY <1>0, <2>1, MeteringAssumption
    <2>3. row = [status |-> "active", used |-> 0, limit |-> m, overUsed |-> 0,
                 cap |-> c, overage |-> FALSE, end |-> e]
      BY <1>2, <2>1 DEF NewSub
    <2> QED
      BY <2>1, <2>2, <2>3 DEF SubRow
  <1>4. PICK old : old = [s \in DOMAIN subs |-> [subs[s] EXCEPT !.status = "cancelled"]]
    OBVIOUS
  <1>5. n \in Nat /\ DOMAIN subs = 1..n
    BY <1>0, SubTypes
  <1>6. ASSUME NEW i \in DOMAIN subs
        PROVE  /\ old[i] \in SubRow /\ old[i].status = "cancelled" /\ old[i].used = subs[i].used
               /\ old[i].end = subs[i].end /\ old[i].limit = subs[i].limit
               /\ old[i].overUsed = subs[i].overUsed
    <2>1. PICK q : q = subs[i]
      OBVIOUS
    <2>2. q \in SubRow
      BY <1>0, <2>1, SubTypes
    <2>3. old[i] = [q EXCEPT !.status = "cancelled"]
      BY <1>4, <2>1
    <2> QED
      BY <2>1, <2>2, <2>3 DEF SubRow
  <1>7. old \in Seq(SubRow) /\ Len(old) = n
    <2>1. old \in [1..n -> SubRow]
      BY <1>4, <1>5, <1>6
    <2>2. \A S : \A m \in Nat : \A g \in [1..m -> S] : g \in Seq(S) /\ Len(g) = m
      OBVIOUS
    <2> QED
      BY <1>5, <2>1, <2>2, Zenon
  <1>8. subs' = Append(old, row)
    BY <1>2, <1>4 DEF AssignPlan
  <1>9. /\ subs' \in Seq(SubRow) /\ Len(subs') = n + 1 /\ DOMAIN subs' = 1..(n + 1)
        /\ \A i \in DOMAIN subs : subs'[i] = old[i]
        /\ subs'[n + 1] = row
    BY <1>3, <1>5, <1>7, <1>8, Appended
  <1> QED
    BY <1>3, <1>5, <1>6, <1>9, MeteringAssumption

(* AssignPlan. *)
LEMMA AssignKeeps == ASSUME LedgerInv, AssignPlan PROVE LedgerInv'
  <1>0. SubsOK /\ LedgerOK /\ clock \in Nat /\ CreditsOK
    BY DEF LedgerInv
  <1>1. /\ credits' = credits /\ ledger' = ledger /\ refunds' = refunds /\ clock' = clock
        /\ Len(subs) < MaxSub
    BY DEF AssignPlan
  <1>5. PICK n \in Nat : n = Len(subs) /\ DOMAIN subs = 1..n
    BY <1>0, SubTypes
  <1>9. /\ subs' \in Seq(SubRow) /\ Len(subs') = n + 1 /\ DOMAIN subs' = 1..(n + 1)
        /\ subs'[n + 1].used = 0 /\ subs'[n + 1].limit \in Nat /\ subs'[n + 1].status = "active"
        /\ subs'[n + 1].end > 0
    BY <1>5, AssignedRows
  <1>10. \A i \in DOMAIN subs : /\ subs'[i].used = subs[i].used /\ subs'[i].end = subs[i].end
                                /\ subs'[i].limit = subs[i].limit /\ subs'[i].status = "cancelled"
    BY <1>5, AssignedRows
  <1>11. SubsOK'
    <2>1. ASSUME NEW i \in DOMAIN subs'
          PROVE  /\ subs'[i].status = "active" <=> i = Len(subs')
                 /\ subs'[i].end > 0 /\ subs'[i].used <= subs'[i].limit
      <3>1. CASE i = n + 1
        BY <1>9, <3>1
      <3>2. CASE i # n + 1
        <4>1. i \in DOMAIN subs /\ i \in 1..n
          BY <1>5, <1>9, <3>2
        <4>2. subs[i].end > 0 /\ subs[i].used <= subs[i].limit
          BY <1>0, <4>1 DEF SubsOK
        <4> QED
          BY <1>9, <1>10, <3>2, <4>1, <4>2
      <3> QED
        BY <3>1, <3>2
    <2>2. Len(subs') \in 1..MaxSub
      BY <1>1, <1>5, <1>9, MeteringAssumption
    <2> QED
      BY <1>9, <2>1, <2>2 DEF SubsOK
  <1>12. CreditsOK'
    BY <1>0, <1>1 DEF CreditsOK
  <1>13. /\ ChargedOps' = ChargedOps /\ refunds' \subseteq Op /\ UnrefundedOps' = UnrefundedOps
         /\ \A i \in DOMAIN subs : MonthlyAt(i)'
         /\ \A c \in DOMAIN credits : CreditAt(c)'
    BY <1>1, <1>10, LedgerStands
  <1>14. LedgerOK'
    <2>2. \A op \in ChargedOps : ChargeRow(op)'
      <3>1. TAKE op \in ChargedOps
      <3>2. ChargeRow(op)
        BY <1>0 DEF LedgerOK
      <3>3. op[1] \in DOMAIN subs' /\ subs[op[1]].end <= subs'[op[1]].end /\ subs'[op[1]].end \in Nat
        <4>1. op[1] \in DOMAIN subs
          BY <3>2 DEF ChargeRow
        <4>2. subs[op[1]].end \in Nat
          BY <1>0, <4>1, SubTypes DEF SubRow
        <4>3. op[1] \in DOMAIN subs'
          BY <1>5, <1>9, <4>1
        <4> QED
          BY <1>10, <4>1, <4>2, <4>3
      <3> QED
        BY <1>1, <3>3, LedgerStands
    <2> QED
      BY <1>0, <1>1, <1>13, <2>2 DEF LedgerOK
  <1>15. MonthlyAt(n + 1)'
    <2>1. Here(n + 1)' = {} /\ LateOps(n + 1)' = {}
      <3>1. \A op \in ChargedOps : op[1] # n + 1
        BY <1>0, <1>5 DEF LedgerOK, ChargeRow
      <3>2. UnrefundedOps \subseteq ChargedOps /\ refunds \subseteq ChargedOps
        BY <1>0, LedgerSums DEF LedgerOK
      <3> QED
        BY <1>1, <1>13, <3>1, <3>2 DEF Here, LateOps
    <2>2. Total(MonthlyOf', {}) = 0
      BY TotalEmpty
    <2>3. Total(MonthlyOf', Here(n + 1)') = 0 /\ Total(MonthlyOf', LateOps(n + 1)') = 0
      BY <2>1, <2>2, Zenon
    <2>4. subs'[n + 1].used = 0
      BY <1>9
    <2>5. /\ subs'[n + 1].used <= Total(MonthlyOf', Here(n + 1)')
          /\ Total(MonthlyOf', Here(n + 1)') <= subs'[n + 1].used + Total(MonthlyOf', LateOps(n + 1)')
      BY <2>3, <2>4
    <2> QED
      BY <2>5, Zenon DEF MonthlyAt
  <1>16. (\A i \in DOMAIN subs : MonthlyAt(i))'
    <2>1. \A i \in DOMAIN subs' : i \in DOMAIN subs \/ i = n + 1
      BY <1>5, <1>9
    <2> QED
      BY <1>13, <1>15, <2>1
  <1>17. (\A c \in DOMAIN credits : CreditAt(c))'
    BY <1>1, <1>13
  <1>20. (SubsOK /\ refunds \subseteq Op /\ (\A i \in DOMAIN subs : MonthlyAt(i)) => MonthlyMatchesLedger)'
    BY MonthlyThen, PTL
  <1>21. (CreditsOK /\ (\A c \in DOMAIN credits : CreditAt(c)) => CreditsMatchLedger)'
    BY CreditsThen, PTL
  <1> QED
    BY <1>0, <1>1, <1>11, <1>12, <1>13, <1>14, <1>16, <1>17, <1>20, <1>21 DEF LedgerInv

(* A granted credit has given nothing yet. *)
LEMMA GrantKeeps == ASSUME LedgerInv, GrantCredit PROVE LedgerInv'
  <1>0. SubsOK /\ LedgerOK /\ clock \in Nat /\ CreditsOK
    BY DEF LedgerInv
  <1>1. /\ subs' = subs /\ ledger' = ledger /\ refunds' = refunds /\ clock' = clock
        /\ Len(credits) < MaxCredit
    BY DEF GrantCredit
  <1>2. PICK row, life : /\ life \in 1..CreditLife
                         /\ row = [amount |-> CreditAmount, consumed |-> 0,
                                   expires |-> clock + life, exhausted |-> FALSE]
                         /\ credits' = Append(credits, row)
    BY DEF GrantCredit
  <1>3. row \in CreditRow /\ row.consumed = 0 /\ row.amount > 0 /\ row.exhausted = FALSE
    <2>1. PICK a, e : a = CreditAmount /\ e = clock + life
      OBVIOUS
    <2>2. a \in Nat /\ a > 0 /\ e \in Nat
      BY <1>0, <1>2, <2>1, MeteringAssumption
    <2>3. row = [amount |-> a, consumed |-> 0, expires |-> e, exhausted |-> FALSE]
      BY <1>2, <2>1
    <2> QED
      BY <2>2, <2>3 DEF CreditRow
  <1>4. PICK n \in Nat : n = Len(credits) /\ DOMAIN credits = 1..n
    BY <1>0, CreditTypes
  <1>5. /\ credits' \in Seq(CreditRow) /\ Len(credits') = n + 1 /\ DOMAIN credits' = 1..(n + 1)
        /\ \A c \in DOMAIN credits : credits'[c] = credits[c]
        /\ credits'[n + 1] = row
    <2>1. credits \in Seq(CreditRow)
      BY <1>0 DEF CreditsOK
    <2> QED
      BY <1>2, <1>3, <1>4, <2>1, Appended
  <1>6. \A c \in DOMAIN credits' : c \in DOMAIN credits \/ c = n + 1
    BY <1>4, <1>5
  <1>7. CreditsOK'
    <2>1. ASSUME NEW c \in DOMAIN credits'
          PROVE  /\ credits'[c].consumed <= credits'[c].amount
                 /\ credits'[c].exhausted <=> credits'[c].consumed = credits'[c].amount
      <3>1. CASE c = n + 1
        BY <1>3, <1>5, <3>1 DEF CreditRow
      <3>2. CASE c \in DOMAIN credits
        BY <1>0, <1>5, <3>2 DEF CreditsOK
      <3> QED
        BY <1>6, <3>1, <3>2
    <2>2. Len(credits') <= MaxCredit
      BY <1>1, <1>4, <1>5, MeteringAssumption
    <2> QED
      BY <1>5, <2>1, <2>2 DEF CreditsOK
  <1>8. /\ SubsOK'
    BY <1>0, <1>1 DEF SubsOK
  <1>9. /\ ChargedOps' = ChargedOps /\ refunds' \subseteq Op /\ UnrefundedOps' = UnrefundedOps
        /\ \A i \in DOMAIN subs : MonthlyAt(i)'
        /\ \A c \in DOMAIN credits : CreditAt(c)'
    BY <1>1, <1>5, LedgerStands
  <1>10. LedgerOK'
    <2>2. \A op \in ChargedOps : ChargeRow(op)'
      <3>1. TAKE op \in ChargedOps
      <3>2. ChargeRow(op)
        BY <1>0 DEF LedgerOK
      <3>3. op[1] \in DOMAIN subs' /\ subs[op[1]].end <= subs'[op[1]].end /\ subs'[op[1]].end \in Nat
        BY <1>0, <1>1, <3>2, SubTypes DEF ChargeRow, SubRow
      <3>4. DOMAIN credits \subseteq DOMAIN credits'
        BY <1>4, <1>5
      <3> QED
        BY <1>1, <3>3, <3>4, LedgerStands
    <2> QED
      BY <1>0, <1>1, <1>9, <2>2 DEF LedgerOK
  <1>11. CreditAt(n + 1)'
    <2>1. PICK f : f = DebitsOf(n + 1)
      OBVIOUS
    <2>2. DebitsOf(n + 1)' = f
      BY <1>1, <2>1 DEF DebitsOf
    <2>3. /\ IsFiniteSet(UnrefundedOps) /\ \A op \in UnrefundedOps : f[op] = 0
      <3>1. IsFiniteSet(UnrefundedOps) /\ UnrefundedOps \subseteq ChargedOps /\ UnrefundedOps \subseteq Op
        BY <1>0, LedgerSums
      <3>2. n + 1 \in CreditId /\ n + 1 \notin DOMAIN credits
        BY <1>1, <1>4, MeteringAssumption DEF CreditId
      <3>3. \A op \in ChargedOps : ledger[op].debits[n + 1] = 0
        BY <1>0, <3>2 DEF LedgerOK, ChargeRow
      <3> QED
        BY <2>1, <3>1, <3>3 DEF DebitsOf
    <2>4. Total(f, UnrefundedOps) = Total(f, {})
      BY <2>3, TotalOfZeros
    <2>5. Total(f, {}) = 0
      BY TotalEmpty
    <2>6. Total(DebitsOf(n + 1)', UnrefundedOps') = 0
      BY <1>9, <2>2, <2>4, <2>5, Zenon
    <2>7. credits'[n + 1].consumed = Total(DebitsOf(n + 1)', UnrefundedOps')
      BY <1>3, <1>5, <2>6
    <2> QED
      BY <2>7, Zenon DEF CreditAt
  <1>12. (\A c \in DOMAIN credits : CreditAt(c))'
    BY <1>6, <1>9, <1>11
  <1>13. (\A i \in DOMAIN subs : MonthlyAt(i))'
    BY <1>1, <1>9
  <1>20. (SubsOK /\ refunds \subseteq Op /\ (\A i \in DOMAIN subs : MonthlyAt(i)) => MonthlyMatchesLedger)'
    BY MonthlyThen, PTL
  <1>21. (CreditsOK /\ (\A c \in DOMAIN credits : CreditAt(c)) => CreditsMatchLedger)'
    BY CreditsThen, PTL
  <1> QED
    BY <1>0, <1>1, <1>7, <1>8, <1>9, <1>10, <1>12, <1>13, <1>20, <1>21 DEF LedgerInv

(* A step that moves none of it. *)
LEMMA NothingMoves ==
    ASSUME LedgerInv, UNCHANGED <<subs, credits, ledger, refunds, clock>>
    PROVE  LedgerInv'
  <1>1. subs' = subs /\ credits' = credits /\ ledger' = ledger /\ refunds' = refunds /\ clock' = clock
    OBVIOUS
  <1>2. SubsOK' /\ CreditsOK'
    BY <1>1 DEF LedgerInv, SubsOK, CreditsOK
  <1>3. ChargedOps' = ChargedOps /\ UnrefundedOps' = UnrefundedOps
    BY <1>1 DEF ChargedOps, UnrefundedOps, Charged
  <1>4. LedgerOK'
    <2>1. \A op \in ChargedOps : ChargeRow(op)'
      BY <1>1 DEF LedgerInv, LedgerOK, ChargeRow, Paid
    <2> QED
      BY <1>1, <1>3, <2>1 DEF LedgerInv, LedgerOK
  <1>5. CreditsMatchLedger'
    BY <1>1, <1>3 DEF LedgerInv, CreditsMatchLedger
  <1>6. MonthlyMatchesLedger'
    BY <1>1, <1>3 DEF LedgerInv, MonthlyMatchesLedger
  <1> QED
    BY <1>1, <1>2, <1>4, <1>5, <1>6 DEF LedgerInv

(* Both ways of changing the ledger keep it in agreement with the counters. *)
LEMMA ConsumeKeeps ==
    ASSUME LedgerInv, NEW s \in DOMAIN subs, NEW op \in Op, op[1] = s, NEW cost \in Nat, cost > 0,
           ConsumeTokensV2(s, op, cost), clock' = clock
    PROVE  LedgerInv'
  <1>1. PICK row, plan : row = Rolled(subs[s]) /\ plan = allocateConsumption(row, cost)
    OBVIOUS
  <1>2. CreditsOK /\ SubsOK /\ clock \in Nat
    BY DEF LedgerInv
  <1>3. row \in SubRow /\ row.used <= row.limit
    BY <1>1, <1>2, RolledRow
  <1>4. PlanOK(row, cost, plan)
    BY <1>1, <1>2, <1>3, PlanAddsUp, Zenon
  <1>5. Took(s, op, row, plan) /\ op \notin ChargedOps
    BY <1>1, ConsumeTakes
  <1>6. LedgerOK'
    BY <1>1, <1>4, <1>5, LedgerTakes
  <1>7. CreditsOK' /\ CreditsMatchLedger'
    BY <1>1, <1>4, <1>5, ChargeKeepsCredits
  <1>8. SubsOK' /\ MonthlyMatchesLedger'
    BY <1>1, <1>4, <1>5, ChargeKeepsMonthly
  <1> QED
    BY <1>2, <1>6, <1>7, <1>8 DEF LedgerInv

(* The same for a refund. *)
LEMMA GiveBackKeeps ==
    ASSUME LedgerInv, NEW op \in ChargedOps, op \notin refunds,
           GiveBack(op[1], op, ledger[op]), clock' = clock
    PROVE  LedgerInv'
  <1>1. PICK s, b : s = op[1] /\ b = ledger[op]
    OBVIOUS
  <1>2. GiveBack(s, op, b)
    BY <1>1
  <1>3. Gave(s, op, b) /\ s \in DOMAIN subs
    BY <1>1, <1>2, GiveBackGives
  <1>4. CreditsOK' /\ CreditsMatchLedger'
    BY <1>1, <1>3, RefundKeepsCredits
  <1>5. SubsOK' /\ LedgerOK' /\ MonthlyMatchesLedger'
    BY <1>1, <1>3, RefundKeepsMonthly
  <1> QED
    BY <1>4, <1>5 DEF LedgerInv

----------------------------------------------------------------------------
(* Requests. *)

(* The fields of a request's row. *)
ReqFields == {"pc", "sub", "got", "status"}

(* Where a request stands, what it holds is the row of its operation. *)
ReqAt(r) ==
    /\ DOMAIN req[r] = ReqFields /\ req[r].status \in Nat
    /\ req[r].pc \in {"unsent", "admitted"} => req[r].got = Nothing
    /\ req[r].pc \in {"admitted", "charged", "refund"} => req[r].sub \in DOMAIN subs
    /\ req[r].pc \in {"charged", "refund"} \/ (req[r].pc = "done" /\ req[r].got # Nothing) =>
          /\ req[r].sub \in DOMAIN subs
          /\ Charged(opID(r)) /\ req[r].got = ledger[opID(r)]
    /\ req[r].pc = "refund" => Refundable(r, req[r].status)

(* Who gave op back. *)
Returned(q, op) ==
    /\ req[q].pc = "done" /\ opID(q) = op /\ Refundable(q, req[q].status)

ReqInv ==
    /\ DOMAIN req = MeterRequest
    /\ \A r \in MeterRequest : ReqAt(r)
    /\ \A op \in refunds : \E q \in MeterRequest : Returned(q, op)

(* Subscriptions stay, and so does the row of a charge. *)
LedgerGrows ==
    /\ DOMAIN subs \subseteq DOMAIN subs'
    /\ \A op \in ChargedOps : ledger'[op] = ledger[op]
    /\ refunds \subseteq refunds'

(* The row of r after a step. *)
ReqIs(r, pc, sub, got, status) ==
    /\ DOMAIN req' = MeterRequest
    /\ \A q \in MeterRequest : q # r => req'[q] = req[q]
    /\ DOMAIN req'[r] = ReqFields
    /\ req'[r].pc = pc /\ req'[r].sub = sub /\ req'[r].got = got /\ req'[r].status = status

(* The operation of a request that has read its subscription. *)
LEMMA OpsOfRequests ==
    ASSUME SubsOK, NEW r \in MeterRequest, req[r].sub \in DOMAIN subs
    PROVE  opID(r) \in Op /\ opID(r)[1] = req[r].sub
  BY SubTypes DEF opID, Op, Key

(* The five ways in which a step rewrites the row of its request. *)
LEMMA FinishRow ==
    ASSUME ReqInv, NEW r \in MeterRequest, NEW status, Finish(r, status)
    PROVE  ReqIs(r, "done", req[r].sub, req[r].got, status)
  <1>1. DOMAIN req = MeterRequest /\ DOMAIN req[r] = ReqFields
    BY DEF ReqInv, ReqAt
  <1>2. PICK q : q = req[r]
    OBVIOUS
  <1>3. PICK q1 : q1 = [q EXCEPT !.pc = "done"]
    OBVIOUS
  <1>4. PICK q2 : q2 = [q1 EXCEPT !.status = status]
    OBVIOUS
  <1>5. req' = [req EXCEPT ![r] = q2]
    <2>1. req' = [req EXCEPT ![r].pc = "done", ![r].status = status]
      BY DEF Finish
    <2>2. PICK t : t = [req EXCEPT ![r].pc = "done"]
      OBVIOUS
    <2>3. req' = [t EXCEPT ![r].status = status] /\ t = [req EXCEPT ![r] = q1]
      BY <1>2, <1>3, <2>1, <2>2
    <2>4. t[r] = q1
      BY <1>1, <2>3
    <2>5. req' = [t EXCEPT ![r] = q2]
      BY <1>4, <2>3, <2>4
    <2> QED
      BY <2>3, <2>5
  <1>6. DOMAIN q1 = ReqFields /\ q1.pc = "done" /\ q1.sub = q.sub /\ q1.got = q.got
    BY <1>1, <1>2, <1>3 DEF ReqFields
  <1>7. DOMAIN q2 = ReqFields /\ q2.pc = "done" /\ q2.sub = q.sub /\ q2.got = q.got /\ q2.status = status
    BY <1>4, <1>6 DEF ReqFields
  <1> QED
    BY <1>1, <1>2, <1>5, <1>7 DEF ReqIs

(* The request goes on. *)
LEMMA GotoRow ==
    ASSUME ReqInv, NEW r \in MeterRequest, NEW label, GotoMeter(r, label)
    PROVE  ReqIs(r, label, req[r].sub, req[r].got, req[r].status)
  <1>1. DOMAIN req = MeterRequest /\ DOMAIN req[r] = ReqFields
    BY DEF ReqInv, ReqAt
  <1>2. PICK q : q = req[r]
    OBVIOUS
  <1>3. PICK q1 : q1 = [q EXCEPT !.pc = label]
    OBVIOUS
  <1>4. req' = [req EXCEPT ![r] = q1]
    BY <1>2, <1>3 DEF GotoMeter
  <1>5. DOMAIN q1 = ReqFields /\ q1.pc = label /\ q1.sub = q.sub /\ q1.got = q.got /\ q1.status = q.status
    BY <1>1, <1>2, <1>3 DEF ReqFields
  <1> QED
    BY <1>1, <1>2, <1>4, <1>5 DEF ReqIs

(* The request has read its subscription. *)
LEMMA AdmittedRow ==
    ASSUME ReqInv, NEW r \in MeterRequest, NEW s, req' = [req EXCEPT ![r].pc = "admitted", ![r].sub = s]
    PROVE  ReqIs(r, "admitted", s, req[r].got, req[r].status)
  <1>1. DOMAIN req = MeterRequest /\ DOMAIN req[r] = ReqFields
    BY DEF ReqInv, ReqAt
  <1>2. PICK q : q = req[r]
    OBVIOUS
  <1>3. PICK q1 : q1 = [q EXCEPT !.pc = "admitted"]
    OBVIOUS
  <1>4. PICK q2 : q2 = [q1 EXCEPT !.sub = s]
    OBVIOUS
  <1>5. req' = [req EXCEPT ![r] = q2]
    <2>2. PICK t : t = [req EXCEPT ![r].pc = "admitted"]
      OBVIOUS
    <2>3. req' = [t EXCEPT ![r].sub = s] /\ t = [req EXCEPT ![r] = q1]
      BY <1>2, <1>3, <2>2
    <2>4. t[r] = q1
      BY <1>1, <2>3
    <2>5. req' = [t EXCEPT ![r] = q2]
      BY <1>4, <2>3, <2>4
    <2> QED
      BY <2>3, <2>5
  <1>6. DOMAIN q1 = ReqFields /\ q1.pc = "admitted" /\ q1.status = q.status /\ q1.got = q.got
    BY <1>1, <1>2, <1>3 DEF ReqFields
  <1>7. DOMAIN q2 = ReqFields /\ q2.pc = "admitted" /\ q2.sub = s /\ q2.got = q.got /\ q2.status = q.status
    BY <1>4, <1>6 DEF ReqFields
  <1> QED
    BY <1>1, <1>2, <1>5, <1>7 DEF ReqIs

(* The request has been charged. *)
LEMMA ConsumedRow ==
    ASSUME ReqInv, NEW r \in MeterRequest, NEW b, req' = [req EXCEPT ![r].pc = "charged", ![r].got = b]
    PROVE  ReqIs(r, "charged", req[r].sub, b, req[r].status)
  <1>1. DOMAIN req = MeterRequest /\ DOMAIN req[r] = ReqFields
    BY DEF ReqInv, ReqAt
  <1>2. PICK q : q = req[r]
    OBVIOUS
  <1>3. PICK q1 : q1 = [q EXCEPT !.pc = "charged"]
    OBVIOUS
  <1>4. PICK q2 : q2 = [q1 EXCEPT !.got = b]
    OBVIOUS
  <1>5. req' = [req EXCEPT ![r] = q2]
    <2>2. PICK t : t = [req EXCEPT ![r].pc = "charged"]
      OBVIOUS
    <2>3. req' = [t EXCEPT ![r].got = b] /\ t = [req EXCEPT ![r] = q1]
      BY <1>2, <1>3, <2>2
    <2>4. t[r] = q1
      BY <1>1, <2>3
    <2>5. req' = [t EXCEPT ![r] = q2]
      BY <1>4, <2>3, <2>4
    <2> QED
      BY <2>3, <2>5
  <1>6. DOMAIN q1 = ReqFields /\ q1.pc = "charged" /\ q1.status = q.status /\ q1.sub = q.sub
    BY <1>1, <1>2, <1>3 DEF ReqFields
  <1>7. DOMAIN q2 = ReqFields /\ q2.pc = "charged" /\ q2.sub = q.sub /\ q2.got = b /\ q2.status = q.status
    BY <1>4, <1>6 DEF ReqFields
  <1> QED
    BY <1>1, <1>2, <1>5, <1>7 DEF ReqIs

(* A handler fails, and its request goes to the refund. *)
ToRefund(r, status) == req' = [req EXCEPT ![r].pc = "refund", ![r].status = status]

(* The request is to be refunded. *)
LEMMA RefundRow ==
    ASSUME ReqInv, NEW r \in MeterRequest, NEW status, ToRefund(r, status)
    PROVE  ReqIs(r, "refund", req[r].sub, req[r].got, status)
  <1>1. DOMAIN req = MeterRequest /\ DOMAIN req[r] = ReqFields
    BY DEF ReqInv, ReqAt
  <1>2. PICK q : q = req[r]
    OBVIOUS
  <1>3. PICK q1 : q1 = [q EXCEPT !.pc = "refund"]
    OBVIOUS
  <1>4. PICK q2 : q2 = [q1 EXCEPT !.status = status]
    OBVIOUS
  <1>5. req' = [req EXCEPT ![r] = q2]
    <2>2. PICK t : t = [req EXCEPT ![r].pc = "refund"]
      OBVIOUS
    <2>3. req' = [t EXCEPT ![r].status = status] /\ t = [req EXCEPT ![r] = q1]
      BY <1>2, <1>3, <2>2 DEF ToRefund
    <2>4. t[r] = q1
      BY <1>1, <2>3
    <2>5. req' = [t EXCEPT ![r] = q2]
      BY <1>4, <2>3, <2>4
    <2> QED
      BY <2>3, <2>5
  <1>6. DOMAIN q1 = ReqFields /\ q1.pc = "refund" /\ q1.sub = q.sub /\ q1.got = q.got
    BY <1>1, <1>2, <1>3 DEF ReqFields
  <1>7. DOMAIN q2 = ReqFields /\ q2.pc = "refund" /\ q2.sub = q.sub /\ q2.got = q.got /\ q2.status = status
    BY <1>4, <1>6 DEF ReqFields
  <1> QED
    BY <1>1, <1>2, <1>5, <1>7 DEF ReqIs

(* What the other requests hold stays true. *)
LEMMA OthersKept ==
    ASSUME LedgerInv, ReqInv, LedgerGrows, NEW r \in MeterRequest, req[r].pc # "done",
           DOMAIN req' = MeterRequest, \A q \in MeterRequest : q # r => req'[q] = req[q],
           ReqAt(r)', \A op \in refunds' : op \in refunds \/ Returned(r, op)'
    PROVE  ReqInv'
  <1>1. ASSUME NEW q \in MeterRequest, q # r PROVE ReqAt(q)'
    <2>1. ReqAt(q) /\ req'[q] = req[q]
      BY <1>1 DEF ReqInv
    <2>2. opID(q)' = opID(q)
      BY <2>1 DEF opID
    <2>3. Refundable(q, req[q].status)' = Refundable(q, req[q].status)
      BY <2>1 DEF Refundable
    <2>4. ASSUME req[q].sub \in DOMAIN subs, Charged(opID(q))
          PROVE  ledger'[opID(q)] = ledger[opID(q)] /\ Charged(opID(q))'
      <3>1. opID(q) \in Op
        BY <2>4, OpsOfRequests DEF LedgerInv
      <3>2. ledger'[opID(q)] = ledger[opID(q)]
        BY <2>4, <3>1 DEF LedgerGrows, ChargedOps
      <3> QED
        BY <2>2, <2>4, <3>2 DEF Charged
    <2> QED
      BY <2>1, <2>2, <2>3, <2>4 DEF ReqAt, LedgerGrows
  <1>2. ASSUME NEW op \in refunds' PROVE \E q \in MeterRequest : Returned(q, op)'
    <2>1. CASE Returned(r, op)'
      BY <2>1
    <2>2. CASE op \in refunds
      <3>1. PICK q \in MeterRequest : Returned(q, op)
        BY <2>2 DEF ReqInv
      <3>2. q # r /\ req'[q] = req[q]
        BY <3>1 DEF Returned
      <3>3. Returned(q, op)'
        BY <3>1, <3>2 DEF Returned, opID, Refundable
      <3> QED
        BY <3>3
    <2> QED
      BY <1>2, <2>1, <2>2
  <1>3. (\A q \in MeterRequest : ReqAt(q))'
    BY <1>1
  <1>4. (\A op \in refunds : \E q \in MeterRequest : Returned(q, op))'
    BY <1>2
  <1> QED
    BY <1>3, <1>4 DEF ReqInv

(* A step that leaves the ledger alone. *)
LEMMA LedgerAlone ==
    ASSUME LedgerInv, UNCHANGED <<ledgerVars, outside>>
    PROVE  LedgerInv' /\ LedgerGrows /\ refunds' = refunds /\ subs' = subs /\ ledger' = ledger
  <1>1. UNCHANGED <<subs, credits, ledger, refunds, clock>>
    BY DEF ledgerVars, outside
  <1>2. LedgerInv'
    BY <1>1, NothingMoves
  <1> QED
    BY <1>1, <1>2 DEF LedgerGrows

(* requireSubscription reads a subscription that exists. *)
LEMMA RequireKeeps ==
    ASSUME LedgerInv, ReqInv, NEW r \in MeterRequest, requireSubscription(r)
    PROVE  LedgerInv' /\ ReqInv'
  <1>1. LedgerInv' /\ LedgerGrows /\ refunds' = refunds /\ subs' = subs /\ ledger' = ledger
    BY LedgerAlone DEF requireSubscription
  <1>2. ReqAt(r) /\ req[r].pc = "unsent"
    BY DEF ReqInv, requireSubscription
  <1>3. req[r].got = Nothing
    BY <1>2 DEF ReqAt
  <1>4. GetActiveSubscription \in DOMAIN subs /\ GetActiveSubscription # 0
    <2>1. SubsOK
      BY DEF LedgerInv
    <2> QED
      BY <2>1, SubTypes
  <1>5. PICK s : s = GetActiveSubscription
    OBVIOUS
  <1>6. req' = [req EXCEPT ![r].pc = "admitted", ![r].sub = s]
    BY <1>4, <1>5 DEF requireSubscription
  <1>7. ReqIs(r, "admitted", s, req[r].got, req[r].status)
    BY <1>6, AdmittedRow
  <1>8. ReqAt(r)'
    BY <1>1, <1>2, <1>3, <1>4, <1>5, <1>7 DEF ReqAt, ReqIs
  <1> QED
    BY <1>1, <1>2, <1>7, <1>8, OthersKept DEF ReqIs

(* A request that ends without a charge of its own, or is lost. *)
LEMMA EndKeeps ==
    ASSUME LedgerInv, ReqInv, LedgerInv', LedgerGrows, refunds' = refunds, NEW r \in MeterRequest,
           req[r].pc = "admitted", NEW status \in Nat, Finish(r, status)
    PROVE  ReqInv'
  <1>1. ReqAt(r) /\ DOMAIN req[r] = ReqFields /\ req[r].got = Nothing
    BY DEF ReqInv, ReqAt
  <1>2. ReqIs(r, "done", req[r].sub, req[r].got, status)
    BY FinishRow
  <1>3. ReqAt(r)'
    BY <1>1, <1>2 DEF ReqAt, ReqIs
  <1> QED
    BY <1>2, <1>3, OthersKept DEF ReqIs

(* A request costs at least one token. *)
LEMMA CostPositive == ASSUME NEW cost \in Cost PROVE cost \in Nat /\ cost > 0
  BY MeteringAssumption DEF Cost

(* The ledger only grows by a charge. *)
LEMMA ConsumeGrows ==
    ASSUME LedgerInv, NEW s \in DOMAIN subs, NEW op \in Op, op[1] = s, NEW cost \in Nat, cost > 0,
           ConsumeTokensV2(s, op, cost)
    PROVE  LedgerGrows /\ refunds' = refunds /\ ledger'[op] # Nothing /\ DOMAIN subs' = DOMAIN subs
  <1>1. PICK row, plan : row = Rolled(subs[s]) /\ plan = allocateConsumption(row, cost)
    OBVIOUS
  <1>2. CreditsOK /\ SubsOK /\ clock \in Nat
    BY DEF LedgerInv
  <1>3. row \in SubRow /\ row.used <= row.limit
    BY <1>1, <1>2, RolledRow
  <1>4. PlanOK(row, cost, plan)
    BY <1>1, <1>2, <1>3, PlanAddsUp, Zenon
  <1>5. Took(s, op, row, plan) /\ op \notin ChargedOps
    BY <1>1, ConsumeTakes
  <1>6. ChargedOps' = ChargedOps \cup {op} /\ \A o \in Op : o # op => ledger'[o] = ledger[o]
    BY <1>1, <1>4, <1>5, LedgerTakes
  <1>7. DOMAIN subs' = DOMAIN subs
    BY <1>2, <1>5, SameDomains DEF Took
  <1>8. refunds' = refunds
    BY <1>5 DEF Took
  <1>9. ledger'[op] # Nothing
    BY <1>6 DEF ChargedOps, Charged
  <1>10. LedgerGrows
    BY <1>5, <1>6, <1>7, <1>8 DEF LedgerGrows, ChargedOps
  <1> QED
    BY <1>7, <1>8, <1>9, <1>10

(* The charge of a request, or its refusal. *)
LEMMA MeteredKeeps ==
    ASSUME LedgerInv, ReqInv, NEW r \in MeterRequest, Metered(r)
    PROVE  LedgerInv' /\ ReqInv'
  <1>1. PICK s, op : s = req[r].sub /\ op = opID(r)
    OBVIOUS
  <1>2. /\ ReqAt(r) /\ req[r].pc = "admitted" /\ s \in DOMAIN subs
        /\ DOMAIN req[r] = ReqFields /\ req[r].status \in Nat
    BY <1>1 DEF ReqInv, Metered, ReqAt
  <1>3. op \in Op /\ op[1] = s
    BY <1>1, <1>2, OpsOfRequests DEF LedgerInv
  <1>4. UNCHANGED outside /\ clock' = clock
    BY DEF Metered, outside
  <1>5. CASE UNCHANGED ledgerVars /\ \E status \in {500, 402} : Finish(r, status)
    <2>1. LedgerInv' /\ LedgerGrows /\ refunds' = refunds
      BY <1>4, <1>5, LedgerAlone
    <2>2. PICK status \in Nat : Finish(r, status)
      BY <1>5
    <2> QED
      BY <1>2, <2>1, <2>2, EndKeeps
  <1>6. CASE UNCHANGED ledgerVars /\ Charged(op) /\ Consumed(r, ledger[op])
    <2>1. LedgerInv' /\ LedgerGrows /\ refunds' = refunds /\ subs' = subs /\ ledger' = ledger
      BY <1>4, <1>6, LedgerAlone
    <2>2. PICK b : b = ledger[op]
      OBVIOUS
    <2>3. ReqIs(r, "charged", s, b, req[r].status)
      BY <1>1, <1>6, <2>2, ConsumedRow DEF Consumed
    <2>4. opID(r)' = op
      BY <1>1, <2>3 DEF opID, ReqIs
    <2>5. ReqAt(r)'
      BY <1>2, <1>6, <2>1, <2>2, <2>3, <2>4 DEF ReqAt, ReqIs, Charged
    <2> QED
      BY <1>2, <2>1, <2>3, <2>5, OthersKept DEF ReqIs
  <1>7. CASE /\ \E cost \in Cost : ConsumeTokensV2(s, op, cost)
             /\ Consumed(r, ledger'[op]) \/ Finish(r, 500)
    <2>1. PICK cost \in Cost : ConsumeTokensV2(s, op, cost)
      BY <1>7
    <2>2. cost \in Nat /\ cost > 0
      BY CostPositive
    <2>3. LedgerInv'
      BY <1>2, <1>3, <1>4, <2>1, <2>2, ConsumeKeeps
    <2>4. LedgerGrows /\ refunds' = refunds /\ ledger'[op] # Nothing /\ DOMAIN subs' = DOMAIN subs
      BY <1>2, <1>3, <2>1, <2>2, ConsumeGrows
    <2>5. CASE Finish(r, 500)
      BY <1>2, <2>3, <2>4, <2>5, EndKeeps
    <2>6. CASE Consumed(r, ledger'[op])
      <3>1. PICK b : b = ledger'[op]
        OBVIOUS
      <3>2. ReqIs(r, "charged", s, b, req[r].status)
        BY <1>1, <2>6, <3>1, ConsumedRow DEF Consumed
      <3>3. opID(r)' = op
        BY <1>1, <3>2 DEF opID, ReqIs
      <3>4. ReqAt(r)'
        BY <1>2, <2>4, <3>1, <3>2, <3>3 DEF ReqAt, ReqIs, Charged
      <3> QED
        BY <1>2, <2>3, <2>4, <3>2, <3>4, OthersKept DEF ReqIs
    <2> QED
      BY <1>7, <2>5, <2>6
  <1>8. \/ UNCHANGED ledgerVars /\ \E status \in {500, 402} : Finish(r, status)
        \/ UNCHANGED ledgerVars /\ Charged(op) /\ Consumed(r, ledger[op])
        \/ /\ \E cost \in Cost : ConsumeTokensV2(s, op, cost)
           /\ Consumed(r, ledger'[op]) \/ Finish(r, 500)
    <2>1. \/ UNCHANGED ledgerVars /\ Finish(r, 500)
          \/ UNCHANGED ledgerVars /\ Finish(r, 402)
          \/ UNCHANGED ledgerVars /\ Charged(opID(r)) /\ Consumed(r, ledger[opID(r)])
          \/ /\ \E cost \in Cost : ConsumeTokensV2(req[r].sub, opID(r), cost)
             /\ Consumed(r, ledger'[opID(r)]) \/ Finish(r, 500)
      BY DEF Metered
    <2> QED
      BY <1>1, <2>1
  <1> QED
    BY <1>5, <1>6, <1>7, <1>8

(* The answer of a handler. *)
LEMMA HandlerKeeps ==
    ASSUME LedgerInv, ReqInv, NEW r \in MeterRequest, NEW status \in {200, 499, 502},
           proxyHandler(r, status) \/ refundOnError(r, status)
    PROVE  LedgerInv' /\ ReqInv'
  <1>1. /\ req[r].pc = "charged" /\ UNCHANGED <<ledgerVars, outside>>
        /\ \/ Finish(r, status)
           \/ Refundable(r, status) /\ ToRefund(r, status)
    BY DEF proxyHandler, refundOnError, Refundable, ToRefund
  <1>2. LedgerInv' /\ LedgerGrows /\ refunds' = refunds /\ subs' = subs /\ ledger' = ledger
    BY <1>1, LedgerAlone
  <1>3. ReqAt(r)
    BY DEF ReqInv
  <1>4. CASE Finish(r, status)
    <2>1. ReqIs(r, "done", req[r].sub, req[r].got, status)
      BY <1>4, FinishRow
    <2>2. opID(r)' = opID(r)
      BY <2>1 DEF opID, ReqIs
    <2>3. ReqAt(r)'
      BY <1>1, <1>2, <1>3, <2>1, <2>2 DEF ReqAt, ReqIs, Charged
    <2> QED
      BY <1>1, <1>2, <2>1, <2>3, OthersKept DEF ReqIs
  <1>5. CASE Refundable(r, status) /\ ToRefund(r, status)
    <2>1. ReqIs(r, "refund", req[r].sub, req[r].got, status)
      BY <1>5, RefundRow
    <2>2. opID(r)' = opID(r)
      BY <2>1 DEF opID, ReqIs
    <2>3. Refundable(r, req[r].status)'
      BY <1>5, <2>1 DEF Refundable, ReqIs
    <2>4. ReqAt(r)'
      BY <1>1, <1>2, <1>3, <2>1, <2>2, <2>3 DEF ReqAt, ReqIs, Charged
    <2> QED
      BY <1>1, <1>2, <2>1, <2>4, OthersKept DEF ReqIs
  <1> QED
    BY <1>1, <1>4, <1>5

(* The refund after an error: what it gives back is the row of the ledger,  *)
(* and the request that asked for it is on record.                          *)
LEMMA RefundedKeeps ==
    ASSUME LedgerInv, ReqInv, NEW r \in MeterRequest, Refunded(r)
    PROVE  LedgerInv' /\ ReqInv'
  <1>1. PICK s, op : s = req[r].sub /\ op = opID(r)
    OBVIOUS
  <1>2. /\ ReqAt(r) /\ req[r].pc = "refund" /\ Charged(op) /\ req[r].got = ledger[op] /\ s \in DOMAIN subs
        /\ Refundable(r, req[r].status)
    BY <1>1 DEF ReqInv, Refunded, ReqAt
  <1>3. op \in Op /\ op[1] = s /\ op \in ChargedOps
    BY <1>1, <1>2, OpsOfRequests DEF LedgerInv, ChargedOps
  <1>4. UNCHANGED outside /\ clock' = clock
    BY DEF Refunded, outside
  <1>5. ReqIs(r, "done", req[r].sub, req[r].got, req[r].status)
    BY GotoRow DEF Refunded
  <1>6. opID(r)' = op
    BY <1>1, <1>5 DEF opID, ReqIs
  <1>7. Returned(r, op)'
    BY <1>2, <1>5, <1>6 DEF Returned, ReqIs, Refundable
  <1>8. ASSUME LedgerGrows, ledger' = ledger, DOMAIN subs' = DOMAIN subs,
               refunds' = refunds \/ refunds' = refunds \cup {op}
        PROVE  ReqInv'
    <2>1. ReqAt(r)'
      BY <1>2, <1>5, <1>6, <1>8 DEF ReqAt, ReqIs, Charged
    <2>2. \A o \in refunds' : o \in refunds \/ Returned(r, o)'
      BY <1>7, <1>8
    <2> QED
      BY <1>2, <1>5, <1>8, <2>1, <2>2, OthersKept DEF ReqIs
  <1>9. CASE UNCHANGED ledgerVars
    <2>1. LedgerInv' /\ LedgerGrows /\ refunds' = refunds /\ subs' = subs /\ ledger' = ledger
      BY <1>4, <1>9, LedgerAlone
    <2> QED
      BY <1>8, <2>1
  <1>10. CASE op \notin refunds /\ GiveBack(op[1], op, ledger[op])
    <2>1. LedgerInv'
      BY <1>3, <1>4, <1>10, GiveBackKeeps
    <2>2. Gave(op[1], op, ledger[op])
      BY <1>3, <1>10, GiveBackGives
    <2>3. ledger' = ledger /\ refunds' = refunds \cup {op} /\ DOMAIN subs' = DOMAIN subs
      BY <2>2, SameDomains DEF Gave, LedgerInv
    <2>4. LedgerGrows
      BY <2>3 DEF LedgerGrows
    <2> QED
      BY <1>8, <2>1, <2>3, <2>4
  <1>11. UNCHANGED ledgerVars \/ (op \notin refunds /\ GiveBack(op[1], op, ledger[op]))
    BY <1>1, <1>2, <1>3 DEF Refunded, RefundTokensV2, ledgerVars, account
  <1> QED
    BY <1>9, <1>10, <1>11

(* A replica stops. *)
LEMMA StopKeeps ==
    ASSUME LedgerInv, ReqInv, NEW r \in MeterRequest, Stop(r)
    PROVE  LedgerInv' /\ ReqInv'
  <1>1. LedgerInv' /\ LedgerGrows /\ refunds' = refunds /\ subs' = subs /\ ledger' = ledger
    BY LedgerAlone DEF Stop
  <1>2. ReqAt(r) /\ req[r].pc \in {"charged", "refund"}
    BY DEF ReqInv, Stop
  <1>3. ReqIs(r, "lost", req[r].sub, req[r].got, req[r].status)
    BY GotoRow DEF Stop
  <1>4. ReqAt(r)'
    BY <1>1, <1>2, <1>3 DEF ReqAt, ReqIs
  <1> QED
    BY <1>1, <1>2, <1>3, <1>4, OthersKept DEF ReqIs

(* What the operator does leaves the requests alone. *)
LEMMA OutsideKeepsRequests ==
    ASSUME LedgerInv, ReqInv, LedgerGrows, req' = req, refunds' = refunds, ledger' = ledger
    PROVE  ReqInv'
  <1>1. ASSUME NEW q \in MeterRequest PROVE ReqAt(q)'
    <2>1. ReqAt(q)
      BY DEF ReqInv
    <2> QED
      BY <2>1 DEF ReqAt, LedgerGrows, opID, Charged, Refundable
  <1>2. \A op \in refunds : \E q \in MeterRequest : Returned(q, op)'
    BY DEF ReqInv, Returned, opID, Refundable
  <1>3. (\A q \in MeterRequest : ReqAt(q))'
    BY <1>1
  <1>4. (\A op \in refunds : \E q \in MeterRequest : Returned(q, op))'
    BY <1>2
  <1> QED
    BY <1>3, <1>4 DEF ReqInv

(* The inductive invariant. *)
MeterInv == LedgerInv /\ ReqInv /\ settings \in Nat

(* The initial state. *)
LEMMA MeterInitially == MeterInit => MeterInv
  <1> SUFFICES ASSUME MeterInit PROVE MeterInv
    OBVIOUS
  <1>1. /\ subs = <<NewSub(PeriodLength)>> /\ credits = <<>> /\ ledger = [op \in Op |-> Nothing]
        /\ refunds = {} /\ clock = 0
        /\ req = [r \in MeterRequest |-> [pc |-> "unsent", sub |-> 0, got |-> Nothing, status |-> 0]]
    BY DEF MeterInit
  <1>2. PICK row : row = NewSub(PeriodLength)
    OBVIOUS
  <1>3. row \in SubRow /\ row.used = 0 /\ row.limit \in Nat /\ row.end > 0 /\ row.status = "active"
    <2>1. PICK m, c, e : m = MonthlyTokens /\ c = 2 * MonthlyTokens /\ e = PeriodLength
      OBVIOUS
    <2>2. m \in Nat /\ c \in Nat /\ e \in Nat /\ e > 0
      BY <2>1, MeteringAssumption
    <2>3. row = [status |-> "active", used |-> 0, limit |-> m, overUsed |-> 0,
                 cap |-> c, overage |-> FALSE, end |-> e]
      BY <1>2, <2>1 DEF NewSub
    <2> QED
      BY <2>1, <2>2, <2>3 DEF SubRow
  <1>4. subs \in Seq(SubRow) /\ Len(subs) = 1 /\ DOMAIN subs = {1} /\ subs[1] = row
    <2>1. subs = <<row>>
      BY <1>1, <1>2
    <2> QED
      BY <1>3, <2>1
  <1>5. SubsOK
    BY <1>3, <1>4, MeteringAssumption DEF SubsOK
  <1>6. CreditsOK
    <2>1. credits \in Seq(CreditRow) /\ Len(credits) = 0 /\ DOMAIN credits = {}
      BY <1>1
    <2> QED
      BY <2>1, MeteringAssumption DEF CreditsOK
  <1>7. ChargedOps = {}
    BY <1>1 DEF ChargedOps, Charged
  <1>8. LedgerOK
    BY <1>1, <1>7, FS_EmptySet DEF LedgerOK
  <1>9. CreditsMatchLedger
    BY <1>1 DEF CreditsMatchLedger
  <1>10. \A s \in DOMAIN subs : MonthlyAt(s)
    <2>1. Here(1) = {} /\ LateOps(1) = {}
      BY <1>1, <1>8, LedgerSums, <1>7 DEF Here, LateOps
    <2>2. Total(MonthlyOf, {}) = 0
      BY TotalEmpty
    <2>3. Total(MonthlyOf, Here(1)) = 0 /\ Total(MonthlyOf, LateOps(1)) = 0
      BY <2>1, <2>2, Zenon
    <2> QED
      BY <1>3, <1>4, <2>3 DEF MonthlyAt
  <1>11. MonthlyMatchesLedger
    BY <1>1, <1>5, <1>10, MonthlyThen
  <1>12. ReqInv
    BY <1>1 DEF ReqInv, ReqAt, ReqFields
  <1>13. settings \in Nat
    BY DEF MeterInit
  <1> QED
    BY <1>1, <1>5, <1>6, <1>8, <1>9, <1>11, <1>12, <1>13 DEF MeterInv, LedgerInv

(* What happens around the requests adds subscriptions and credits, and     *)
(* leaves the ledger as it is.                                              *)
LEMMA GrownSubs ==
    ASSUME LedgerInv, AssignPlan \/ UpdateSubscription \/ GrantCredit \/ Tick
    PROVE  LedgerGrows /\ req' = req /\ refunds' = refunds /\ ledger' = ledger
  <1>1. req' = req /\ refunds' = refunds /\ ledger' = ledger
    BY DEF AssignPlan, UpdateSubscription, GrantCredit, Tick, ledgerVars
  <1>2. DOMAIN subs \subseteq DOMAIN subs'
    <2>1. CASE AssignPlan
      <3>1. PICK n : n = Len(subs)
        OBVIOUS
      <3>2. n \in Nat /\ DOMAIN subs = 1..n /\ DOMAIN subs' = 1..(n + 1)
        BY <2>1, <3>1, AssignedRows
      <3> QED
        BY <3>2
    <2>2. CASE UpdateSubscription
      BY <2>2 DEF UpdateSubscription
    <2>3. CASE GrantCredit \/ Tick
      BY <2>3 DEF GrantCredit, Tick, ledgerVars
    <2> QED
      BY <2>1, <2>2, <2>3
  <1> QED
    BY <1>1, <1>2 DEF LedgerGrows

(* Every step keeps the invariant. *)
LEMMA MeterKept == MeterInv /\ [MeterNext]_meterVars => MeterInv'
  <1> SUFFICES ASSUME MeterInv, [MeterNext]_meterVars PROVE MeterInv'
    OBVIOUS
  <1>0. LedgerInv /\ ReqInv
    BY DEF MeterInv
  <1>1. ASSUME AssignPlan \/ UpdateSubscription \/ GrantCredit \/ Tick PROVE LedgerInv' /\ ReqInv'
    <2>1. LedgerInv'
      BY <1>0, <1>1, AssignKeeps, UpdateKeeps, GrantKeeps, TickKeeps
    <2>2. ReqInv'
      BY <1>0, <1>1, GrownSubs, OutsideKeepsRequests
    <2> QED
      BY <2>1, <2>2
  <1>2. ASSUME NEW r \in MeterRequest, RequestStep(r) PROVE LedgerInv' /\ ReqInv'
    <2>1. CASE requireSubscription(r)
      BY <1>0, <2>1, RequireKeeps
    <2>2. CASE chargeQuota(r) \/ Charge(r)
      BY <1>0, <2>2, MeteredKeeps DEF chargeQuota, Charge
    <2>3. CASE \E status \in {200, 499, 502} : proxyHandler(r, status) \/ refundOnError(r, status)
      BY <1>0, <2>3, HandlerKeeps
    <2>4. CASE refund(r) \/ Refund(r)
      BY <1>0, <2>4, RefundedKeeps DEF refund, Refund
    <2>5. CASE Stop(r)
      BY <1>0, <2>5, StopKeeps
    <2> QED
      BY SMTT(40), <1>2, <2>1, <2>2, <2>3, <2>4, <2>5, Zenon DEF RequestStep
  <1>3. ASSUME UNCHANGED meterVars PROVE LedgerInv' /\ ReqInv'
    <2>1. UNCHANGED <<subs, credits, ledger, refunds, clock>> /\ req' = req
      BY <1>3 DEF meterVars
    <2>2. LedgerInv'
      BY <1>0, <2>1, NothingMoves
    <2>3. LedgerGrows
      BY <2>1 DEF LedgerGrows
    <2>4. ReqInv'
      BY <1>0, <2>1, <2>3, OutsideKeepsRequests
    <2> QED
      BY <2>2, <2>4
  <1>4. settings' \in Nat
    <2>1. settings' = settings \/ settings' = settings + 1
      <3>1. ASSUME NEW r \in MeterRequest, RequestStep(r) PROVE UNCHANGED outside
        BY <3>1 DEF RequestStep, requireSubscription, chargeQuota, Charge, Metered, proxyHandler,
                    refundOnError, refund, Refund, Refunded, Stop
      <3> QED
        BY <3>1 DEF MeterNext, meterVars, Tick, AssignPlan, UpdateSubscription, GrantCredit, outside
    <2> QED
      BY <2>1 DEF MeterInv
  <1> QED
    BY <1>1, <1>2, <1>3, <1>4 DEF MeterNext, MeterInv

(* MeterInv is an invariant. *)
LEMMA MeterAlways == MeterSpec => []MeterInv
  BY MeterInitially, MeterKept, PTL DEF MeterSpec

(* The invariant implies what the run checks. *)
LEMMA ConsistentThen == MeterInv => LedgerConsistent
  <1> SUFFICES ASSUME MeterInv PROVE LedgerConsistent
    OBVIOUS
  <1>1. /\ LedgerInv /\ ReqInv /\ SubsOK /\ CreditsOK /\ LedgerOK
        /\ CreditsMatchLedger /\ MonthlyMatchesLedger
    BY DEF MeterInv, LedgerInv
  <1>2. MeterTypeOK
    <2>1. Cardinality(ActiveSubs) = 1
      BY <1>1, SubTypes, FS_Singleton
    <2>2. Len(subs) <= MaxSub
      BY <1>1, MeteringAssumption DEF SubsOK
    <2>3. subs \in Seq(SubRow) /\ credits \in Seq(CreditRow)
      BY <1>1 DEF SubsOK, CreditsOK
    <2>4. DOMAIN ledger = Op /\ refunds \subseteq Op
      BY <1>1, LedgerSums DEF LedgerOK
    <2> QED
      BY <2>1, <2>2, <2>3, <2>4, Zenon DEF MeterTypeOK, SubRow, CreditRow
  <1>3. ServedWasCharged
    <2>1. SUFFICES ASSUME NEW r \in MeterRequest, req[r].pc = "done", req[r].got # Nothing,
                          req[r].status < 499
                   PROVE  /\ Charged(opID(r))
                          /\ opID(r) \in refunds =>
                               \E q \in MeterRequest \ {r} :
                                  KeyOf[q] = KeyOf[r] /\ Refundable(q, req[q].status)
      BY DEF ServedWasCharged
    <2>2. ReqAt(r)
      BY <1>1 DEF ReqInv
    <2>3. Charged(opID(r)) /\ req[r].status \in Nat
      BY <2>1, <2>2 DEF ReqAt
    <2>4. ASSUME opID(r) \in refunds
          PROVE  \E q \in MeterRequest \ {r} : KeyOf[q] = KeyOf[r] /\ Refundable(q, req[q].status)
      <3>1. PICK q \in MeterRequest : Returned(q, opID(r))
        BY <1>1, <2>4 DEF ReqInv
      <3>2. KeyOf[q] = KeyOf[r] /\ Refundable(q, req[q].status)
        BY <3>1 DEF Returned, opID
      <3>3. q # r
        BY <2>1, <2>3, <3>2 DEF Refundable
      <3> QED
        BY <3>2, <3>3
    <2> QED
      BY <2>3, <2>4
  <1> QED
    BY <1>1, <1>2, <1>3 DEF LedgerConsistent

(* The counters of subscriptions and credits agree with the ledger, whatever *)
(* charges, replays, refunds, rollovers and restarts came in between, and   *)
(* whoever was served was charged (ConsumeTokensV2, RefundTokensV2 in       *)
(* store/consume.go).                                                       *)
THEOREM LedgerStaysConsistent == MeterSpec => []LedgerConsistent
  BY MeterAlways, ConsistentThen, PTL

(* Overage grows only when everything else is spent. *)
OverageGrows(s) == subs'[s].overUsed > (IF subs'[s].end = subs[s].end THEN subs[s].overUsed ELSE 0)

(* ... what it takes for that. *)
OverageEarned(s) ==
    /\ subs'[s].overage
    /\ subs'[s].overUsed <= subs'[s].cap
    /\ subs'[s].used >= subs'[s].limit
    /\ \A c \in DOMAIN credits : Live(c) => credits'[c].exhausted

(* Overage does not grow where the counter does not. *)
LEMMA OverageStill ==
    ASSUME SubsOK, NEW s \in DOMAIN subs, subs'[s].end = subs[s].end, subs'[s].overUsed \in Nat,
           subs'[s].overUsed <= subs[s].overUsed
    PROVE  ~OverageGrows(s)
  BY SubTypes DEF OverageGrows, SubRow

(* A charge that takes overage has used up the rest, and is allowed to. *)
LEMMA ChargeTakesOverageLast ==
    ASSUME LedgerInv, NEW s \in DOMAIN subs, NEW op \in Op, op[1] = s, NEW cost \in Nat, cost > 0,
           ConsumeTokensV2(s, op, cost), NEW i \in DOMAIN subs
    PROVE  OverageGrows(i) => OverageEarned(i)
  <1> SUFFICES ASSUME OverageGrows(i) PROVE OverageEarned(i)
    OBVIOUS
  <1>1. PICK row, plan : row = Rolled(subs[s]) /\ plan = allocateConsumption(row, cost)
    OBVIOUS
  <1>2. CreditsOK /\ SubsOK /\ clock \in Nat
    BY DEF LedgerInv
  <1>3. /\ row \in SubRow /\ row.used <= row.limit
        /\ row.end = subs[s].end => row = subs[s]
        /\ row.end # subs[s].end => row.overUsed = 0
    BY <1>1, <1>2, RolledRow
  <1>4. PlanOK(row, cost, plan)
    BY <1>1, <1>2, <1>3, PlanAddsUp, Zenon
  <1>5. Took(s, op, row, plan) /\ (plan.overage > 0 => row.overage /\ row.overUsed + plan.overage <= row.cap)
    BY <1>1, ConsumeTakes
  <1>6. i = s
    <2> SUFFICES ASSUME i # s PROVE FALSE
      OBVIOUS
    <2>1. subs'[i] = subs[i]
      BY <1>5 DEF Took
    <2>2. subs[i] \in SubRow
      BY <1>2, SubTypes
    <2>3. subs[i].overUsed \in Nat
      BY <2>2 DEF SubRow
    <2>4. ~OverageGrows(i)
      BY <1>2, <2>1, <2>3, OverageStill
    <2> QED
      BY <2>4
  <1>7. /\ subs'[s].overUsed = row.overUsed + plan.overage /\ subs'[s].end = row.end
        /\ subs'[s].used = row.used + plan.monthly /\ subs'[s].limit = row.limit
        /\ subs'[s].cap = row.cap /\ subs'[s].overage = row.overage
    BY <1>5 DEF Took
  <1>8. plan.overage \in Nat /\ row.overUsed \in Nat
    BY <1>3, <1>4 DEF PlanOK, SubRow
  <1>9. plan.overage > 0
    BY <1>3, <1>6, <1>7, <1>8 DEF OverageGrows
  <1>10. row.used + plan.monthly = row.limit /\ row.limit \in Nat
    BY <1>3, <1>4, <1>9 DEF PlanOK, SubRow
  <1>11. ASSUME NEW c \in DOMAIN credits, Live(c) PROVE credits'[c].exhausted
    <2>1. c \in LiveCredits
      BY <1>11 DEF LiveCredits
    <2>2. plan.debits[c] = Rest[c]
      BY <1>4, <1>9, <2>1 DEF PlanOK
    <2>3. credits[c] \in CreditRow /\ Rest[c] = credits[c].amount - credits[c].consumed
      BY <1>2, CreditTypes DEF Rest
    <2>4. /\ credits'[c].consumed = credits[c].consumed + plan.debits[c]
          /\ credits'[c].amount = credits[c].amount
          /\ credits'[c].exhausted <=> credits'[c].consumed = credits'[c].amount
      BY <1>5 DEF Took
    <2>5. credits'[c].consumed = credits'[c].amount
      BY <2>2, <2>3, <2>4 DEF CreditRow
    <2> QED
      BY <2>4, <2>5
  <1> QED
    BY <1>5, <1>6, <1>7, <1>8, <1>9, <1>10, <1>11 DEF OverageEarned

(* A step that leaves the subscriptions alone. *)
LEMMA OverageAtRest ==
    ASSUME SubsOK, subs' = subs, NEW i \in DOMAIN subs PROVE ~OverageGrows(i)
  <1>1. subs[i] \in SubRow
    BY SubTypes
  <1>2. subs[i].overUsed \in Nat
    BY <1>1 DEF SubRow
  <1> QED
    BY <1>2, OverageStill

(* No step makes overage grow otherwise. *)
LEMMA OverageLastStep ==
    ASSUME MeterInv, [MeterNext]_meterVars, NEW i \in DOMAIN subs
    PROVE  OverageGrows(i) => OverageEarned(i)
  <1>0. LedgerInv /\ ReqInv /\ SubsOK /\ subs[i] \in SubRow
    BY SubTypes DEF MeterInv, LedgerInv
  <1>1. CASE subs' = subs
    BY <1>0, <1>1, OverageAtRest
  <1>2. CASE AssignPlan
    <2>1. subs'[i].end = subs[i].end /\ subs'[i].overUsed = subs[i].overUsed
      BY <1>0, <1>2, AssignedRows
    <2>2. subs[i].overUsed \in Nat
      BY <1>0 DEF SubRow
    <2>3. ~OverageGrows(i)
      BY <1>0, <2>1, <2>2, OverageStill
    <2> QED
      BY <2>3
  <1>3. CASE UpdateSubscription
    <2>1. PICK s \in ActiveSubs, cap \in {1, 2 * MonthlyTokens} :
             subs' = [subs EXCEPT ![s].overage = ~@, ![s].cap = cap]
      BY <1>3 DEF UpdateSubscription
    <2>2. PICK q : q = subs[i]
      OBVIOUS
    <2>3. PICK on : on = ~q.overage
      OBVIOUS
    <2>4. PICK q1 : q1 = [q EXCEPT !.overage = on]
      OBVIOUS
    <2>5. PICK q2 : q2 = [q1 EXCEPT !.cap = cap]
      OBVIOUS
    <2>6. q1.end = q.end /\ q1.overUsed = q.overUsed /\ DOMAIN q1 = DOMAIN q
      BY <1>0, <2>2, <2>4 DEF SubRow
    <2>7. q2.end = q.end /\ q2.overUsed = q.overUsed
      BY <2>5, <2>6
    <2>8. subs'[i] = IF i = s THEN q2 ELSE q
      <3>1. PICK t : t = [subs EXCEPT ![s].overage = ~@]
        OBVIOUS
      <3>2. subs' = [t EXCEPT ![s].cap = cap]
        BY <2>1, <3>1
      <3>3. CASE i = s
        <4>1. t[i] = q1
          BY <2>2, <2>3, <2>4, <3>1, <3>3
        <4>2. i \in DOMAIN t
          BY <3>1
        <4>3. subs'[i] = q2
          BY <2>5, <3>2, <3>3, <4>1, <4>2
        <4> QED
          BY <3>3, <4>3
      <3>4. CASE i # s
        BY <2>2, <3>1, <3>2, <3>4
      <3> QED
        BY <3>3, <3>4
    <2>9. subs'[i].end = q.end /\ subs'[i].overUsed = q.overUsed /\ q.overUsed \in Nat
      BY <1>0, <2>2, <2>7, <2>8 DEF SubRow
    <2>10. ~OverageGrows(i)
      BY <1>0, <2>2, <2>9, OverageStill
    <2> QED
      BY <2>10
  <1>4. ASSUME NEW r \in MeterRequest, Metered(r) PROVE OverageGrows(i) => OverageEarned(i)
    <2>1. ReqAt(r) /\ req[r].sub \in DOMAIN subs
      BY <1>0, <1>4 DEF ReqInv, ReqAt, Metered
    <2>2. opID(r) \in Op /\ opID(r)[1] = req[r].sub
      BY <1>0, <2>1, OpsOfRequests
    <2>3. subs' = subs \/ \E cost \in Cost : ConsumeTokensV2(req[r].sub, opID(r), cost)
      BY <1>4 DEF Metered, ledgerVars
    <2>4. CASE subs' = subs
      BY <1>0, <2>4, OverageAtRest
    <2>5. CASE \E cost \in Cost : ConsumeTokensV2(req[r].sub, opID(r), cost)
      BY <1>0, <2>1, <2>2, <2>5, CostPositive, ChargeTakesOverageLast
    <2> QED
      BY <2>3, <2>4, <2>5
  <1>5. ASSUME NEW r \in MeterRequest, Refunded(r) PROVE OverageGrows(i) => OverageEarned(i)
    <2>1. PICK op : op = opID(r)
      OBVIOUS
    <2>2. /\ ReqAt(r) /\ Charged(op) /\ req[r].got = ledger[op] /\ req[r].sub \in DOMAIN subs
      BY <1>0, <1>5, <2>1 DEF ReqInv, Refunded, ReqAt
    <2>3. op \in ChargedOps /\ op[1] = req[r].sub
      BY <1>0, <2>1, <2>2, OpsOfRequests DEF ChargedOps
    <2>4. subs' = subs \/ (op \notin refunds /\ GiveBack(op[1], op, ledger[op]))
      BY <1>5, <2>1, <2>2, <2>3 DEF Refunded, RefundTokensV2, ledgerVars, account
    <2>5. CASE subs' = subs
      BY <1>0, <2>5, OverageAtRest
    <2>6. CASE op \notin refunds /\ GiveBack(op[1], op, ledger[op])
      <3>1. Gave(op[1], op, ledger[op])
        BY <1>0, <2>3, <2>6, GiveBackGives
      <3>2. ChargeRow(op)
        BY <1>0, <2>3 DEF LedgerInv, LedgerOK
      <3>3. CASE i = op[1]
        <4>1. subs'[i].overUsed = Less(subs[i].overUsed, ledger[op].overage) /\ subs'[i].end = subs[i].end
          BY <3>1, <3>3 DEF Gave
        <4>2. subs[i].overUsed \in Nat /\ ledger[op].overage \in Nat
          BY <1>0, <3>2 DEF ChargeRow, SubRow
        <4>3. subs'[i].overUsed \in Nat /\ subs'[i].overUsed <= subs[i].overUsed
          BY <4>1, <4>2 DEF Less
        <4>4. ~OverageGrows(i)
          BY <1>0, <4>1, <4>3, OverageStill
        <4> QED
          BY <4>4
      <3>4. CASE i # op[1]
        <4>1. subs'[i] = subs[i]
          BY <3>1, <3>4 DEF Gave
        <4>2. subs[i].overUsed \in Nat
          BY <1>0 DEF SubRow
        <4>3. ~OverageGrows(i)
          BY <1>0, <4>1, <4>2, OverageStill
        <4> QED
          BY <4>3
      <3> QED
        BY <3>3, <3>4
    <2> QED
      BY <2>4, <2>5, <2>6
  <1>6. \/ subs' = subs \/ AssignPlan \/ UpdateSubscription
        \/ \E r \in MeterRequest : Metered(r) \/ Refunded(r)
    <2>1. ASSUME NEW r \in MeterRequest, RequestStep(r) PROVE subs' = subs \/ Metered(r) \/ Refunded(r)
      <3>1. UNCHANGED ledgerVars \/ Metered(r) \/ Refunded(r)
        BY <2>1 DEF RequestStep, requireSubscription, chargeQuota, Charge, proxyHandler, refundOnError,
                    refund, Refund, Stop
      <3> QED
        BY <3>1 DEF ledgerVars
    <2>2. Tick \/ GrantCredit \/ UNCHANGED meterVars => subs' = subs
      BY DEF Tick, GrantCredit, meterVars, ledgerVars
    <2> QED
      BY <2>1, <2>2 DEF MeterNext
  <1> QED
    BY <1>1, <1>2, <1>3, <1>4, <1>5, <1>6

(* Overage is taken only when every live credit and the allowance are spent, *)
(* the customer has it on, and within the cap (allocateConsumption in       *)
(* store/quotamath.go).                                                     *)
THEOREM OverageComesLast == MeterSpec => OverageLast
  <1>1. MeterInv /\ [MeterNext]_meterVars =>
           [\A s \in DOMAIN subs :
              subs'[s].overUsed > (IF subs'[s].end = subs[s].end THEN subs[s].overUsed ELSE 0) =>
                 /\ subs'[s].overage
                 /\ subs'[s].overUsed <= subs'[s].cap
                 /\ subs'[s].used >= subs'[s].limit
                 /\ \A c \in DOMAIN credits : Live(c) => credits'[c].exhausted]_meterVars
    BY OverageLastStep DEF OverageGrows, OverageEarned
  <1> QED
    BY <1>1, MeterAlways, PTL DEF MeterSpec, OverageLast

----------------------------------------------------------------------------
(* The refinement of TokenAccount. *)

(* The balance, with the credits that have not ended whether or not anything *)
(* is left of them.                                                          *)
Unexpired == {c \in DOMAIN credits : credits[c].expires > clock}
Row == Rolled(subs[Len(subs)])
MonthlyLeft(row) == Less(row.limit, row.used)
OverageLeft(row) == IF row.overage THEN Less(row.cap, row.overUsed) ELSE 0

(* The rollover, field by field. *)
LEMMA RolledFields ==
    ASSUME NEW r \in SubRow
    PROVE  /\ clock < r.end => Rolled(r) = r
           /\ ~(clock < r.end) =>
                 /\ Rolled(r).used = 0 /\ Rolled(r).overUsed = 0 /\ Rolled(r).limit = MonthlyTokens
                 /\ Rolled(r).cap = 2 * MonthlyTokens /\ Rolled(r).overage = r.overage
  <1>1. CASE clock < r.end
    BY <1>1 DEF Rolled
  <1>2. CASE ~(clock < r.end)
    <2>1. PICK e, m, c : e = rollPeriod(r.end) /\ m = MonthlyTokens /\ c = 2 * MonthlyTokens
      OBVIOUS
    <2>2. PICK row : row = Rolled(r)
      OBVIOUS
    <2>3. row = [r EXCEPT !.used = 0, !.overUsed = 0, !.limit = m, !.cap = c, !.end = e]
      BY <1>2, <2>1, <2>2 DEF Rolled
    <2>4. PICK r1 : r1 = [r EXCEPT !.used = 0]
      OBVIOUS
    <2>5. PICK r2 : r2 = [r1 EXCEPT !.overUsed = 0]
      OBVIOUS
    <2>6. PICK r3 : r3 = [r2 EXCEPT !.limit = m]
      OBVIOUS
    <2>7. PICK r4 : r4 = [r3 EXCEPT !.cap = c]
      OBVIOUS
    <2>8. row = [r4 EXCEPT !.end = e]
      BY <2>3, <2>4, <2>5, <2>6, <2>7
    <2>9. DOMAIN r1 = DOMAIN r /\ r1.used = 0 /\ r1.overage = r.overage
      BY <2>4 DEF SubRow
    <2>10. DOMAIN r2 = DOMAIN r /\ r2.used = 0 /\ r2.overUsed = 0 /\ r2.overage = r.overage
      BY <2>5, <2>9 DEF SubRow
    <2>11. DOMAIN r3 = DOMAIN r /\ r3.used = 0 /\ r3.overUsed = 0 /\ r3.limit = m /\ r3.overage = r.overage
      BY <2>6, <2>10 DEF SubRow
    <2>12. /\ DOMAIN r4 = DOMAIN r /\ r4.used = 0 /\ r4.overUsed = 0 /\ r4.limit = m /\ r4.cap = c
           /\ r4.overage = r.overage
      BY <2>7, <2>11 DEF SubRow
    <2>13. row.used = 0 /\ row.overUsed = 0 /\ row.limit = m /\ row.cap = c /\ row.overage = r.overage
      BY <2>8, <2>12 DEF SubRow
    <2> QED
      BY <1>2, <2>1, <2>2, <2>13
  <1> QED
    BY <1>1, <1>2

(* The balance is what is left of the three buckets. *)
BalanceOK ==
    /\ Available = Total(Rest, Unexpired) + MonthlyLeft(Row) + OverageLeft(Row)
    /\ Total(Rest, Unexpired) \in Nat /\ MonthlyLeft(Row) \in Nat /\ OverageLeft(Row) \in Nat
    /\ Available \in Nat

(* Available is the sum of those three. *)
LEMMA AvailableIs == LedgerInv => BalanceOK
  <1> SUFFICES ASSUME LedgerInv PROVE BalanceOK
    OBVIOUS
  <1>1. SubsOK /\ CreditsOK /\ clock \in Nat
    BY DEF LedgerInv
  <1>2. PICK n : n = Len(subs)
    OBVIOUS
  <1>3. n \in DOMAIN subs /\ GetActiveSubscription = n /\ n # 0
    BY <1>1, <1>2, SubTypes
  <1>4. Row \in SubRow
    BY <1>1, <1>2, <1>3, RolledRow DEF Row
  <1>5. MonthlyLeft(Row) \in Nat /\ OverageLeft(Row) \in Nat
    BY <1>4 DEF MonthlyLeft, OverageLeft, Less, SubRow
  <1>6. /\ IsFiniteSet(Unexpired) /\ LiveCredits \in SUBSET Unexpired
        /\ \A c \in Unexpired : Rest[c] \in Nat
        /\ \A c \in Unexpired \ LiveCredits : Rest[c] = 0
    <2>1. Unexpired \subseteq DOMAIN credits
      BY DEF Unexpired
    <2>2. IsFiniteSet(Unexpired)
      BY <1>1, <2>1, CreditTypes, FS_Subset
    <2>3. \A c \in Unexpired : Rest[c] \in Nat /\ (Rest[c] = 0 <=> credits[c].exhausted)
      BY <1>1, <2>1, CreditTypes
    <2> QED
      BY <2>2, <2>3 DEF LiveCredits, Live, Unexpired
  <1>7. Total(Rest, Unexpired) = Total(Rest, LiveCredits)
    BY <1>6, TotalOfZeros
  <1>8. PICK left : left = [c \in LiveCredits |-> credits[c].amount - credits[c].consumed]
    OBVIOUS
  <1>9. Total(Rest, LiveCredits) = Total(left, LiveCredits)
    <2>1. IsFiniteSet(LiveCredits)
      BY <1>6, FS_Subset
    <2>2. \A c \in LiveCredits : Rest[c] = left[c]
      BY <1>8 DEF Rest, LiveCredits
    <2> QED
      BY <2>1, <2>2, TotalSame
  <1>10. Total(Rest, Unexpired) \in Nat
    BY <1>6, TotalType
  <1>11. Available = Total(left, LiveCredits) + MonthlyLeft(Row) + OverageLeft(Row)
    <2>1. Available = Total([c \in LiveCredits |-> credits[c].amount - credits[c].consumed], LiveCredits)
                        + Less(Row.limit, Row.used) + (IF Row.overage THEN Less(Row.cap, Row.overUsed) ELSE 0)
      BY <1>2, <1>3, Zenon DEF Available, Row
    <2> QED
      BY <1>8, <2>1, Zenon DEF MonthlyLeft, OverageLeft
  <1>12. Available = Total(Rest, Unexpired) + MonthlyLeft(Row) + OverageLeft(Row)
    BY <1>7, <1>9, <1>11, Zenon
  <1> QED
    BY <1>5, <1>10, <1>12 DEF BalanceOK

(* What is not charged is not paid. *)
LEMMA PaidNothing == Paid(Nothing) = 0
  <1>1. PICK z : z = [c \in CreditId |-> 0]
    OBVIOUS
  <1>2. IsFiniteSet(CreditId)
    BY FS_Interval, MeteringAssumption DEF CreditId
  <1>3. Total(z, CreditId) = Total(z, {})
    BY <1>1, <1>2, TotalOfZeros
  <1>4. Total(z, {}) = 0
    BY TotalEmpty
  <1>5. Total(z, CreditId) = 0
    BY <1>3, <1>4
  <1>6. Nothing = [monthly |-> 0, overage |-> 0, debits |-> z, period |-> 0]
    BY <1>1 DEF Nothing
  <1>7. Nothing.monthly = 0 /\ Nothing.overage = 0 /\ Nothing.debits = z
    BY <1>6
  <1>8. Total(Nothing.debits, CreditId) = 0
    BY <1>5, <1>7, Zenon
  <1> QED
    BY <1>7, <1>8 DEF Paid

(* The two sides of the refinement mapping. *)
PaidFor == [op \in Op |-> Paid(ledger[op])]

(* A charge takes what it costs out of the balance. *)
LEMMA ChargeLowers ==
    ASSUME LedgerInv, LedgerInv', NEW s, s = Len(subs), NEW op \in Op, op[1] = s, NEW cost \in Nat, cost > 0,
           ConsumeTokensV2(s, op, cost), clock' = clock
    PROVE  /\ PaidFor[op] = 0 /\ PaidFor' = [PaidFor EXCEPT ![op] = cost]
           /\ cost \in 1..Available /\ Available' = Available - cost
           /\ refunds' = refunds /\ Len(subs') = Len(subs) /\ Len(credits') = Len(credits)
  <1>1. PICK row, plan : row = Rolled(subs[s]) /\ plan = allocateConsumption(row, cost)
    OBVIOUS
  <1>2. CreditsOK /\ SubsOK /\ clock \in Nat /\ s \in DOMAIN subs
    BY SubTypes DEF LedgerInv
  <1>3. row \in SubRow /\ row.used <= row.limit /\ clock < row.end /\ row = Row
    BY <1>1, <1>2, RolledRow DEF Row
  <1>4. PlanOK(row, cost, plan)
    BY <1>1, <1>2, <1>3, PlanAddsUp, Zenon
  <1>5. /\ Took(s, op, row, plan) /\ op \notin ChargedOps
        /\ (plan.overage > 0 => row.overage /\ row.overUsed + plan.overage <= row.cap)
    BY <1>1, <1>2, ConsumeTakes
  <1>6. ledger'[op] = plan /\ \A o \in Op : o # op => ledger'[o] = ledger[o]
    BY <1>1, <1>2, <1>4, <1>5, LedgerTakes
  <1>7. Paid(plan) = cost
    BY <1>4 DEF PlanOK, Paid
  <1>8. PaidFor[op] = 0
    <2>1. ledger[op] = Nothing
      BY <1>5 DEF ChargedOps, Charged
    <2>2. Paid(ledger[op]) = 0
      BY <2>1, PaidNothing, Zenon
    <2> QED
      BY <2>2 DEF PaidFor
  <1>9. PaidFor' = [PaidFor EXCEPT ![op] = cost]
    <2>1. \A o \in Op : Paid(ledger'[o]) = IF o = op THEN cost ELSE Paid(ledger[o])
      BY <1>6, <1>7, Zenon
    <2>2. PaidFor' = [o \in Op |-> Paid(ledger'[o])]
      BY DEF PaidFor, Paid
    <2> QED
      BY <2>1, <2>2 DEF PaidFor
  <1>10. BalanceOK /\ BalanceOK'
    <2>1. BalanceOK
      BY AvailableIs
    <2>2. (LedgerInv => BalanceOK)'
      BY AvailableIs, PTL
    <2> QED
      BY <2>1, <2>2
  <1>11. Len(subs') = Len(subs) /\ Len(credits') = Len(credits) /\ refunds' = refunds
    BY <1>5 DEF Took
  <1>12. Row' = subs'[s]
    <2>1. clock' < subs'[s].end
      BY <1>3, <1>5 DEF Took
    <2> QED
      BY <1>11, <2>1 DEF Row, Rolled
  <1>13. PICK m, o, d : m = plan.monthly /\ o = plan.overage /\ d = plan.debits
    OBVIOUS
  <1>14. /\ m \in Nat /\ o \in Nat /\ d \in [CreditId -> Nat]
         /\ Total(d, CreditId) \in Nat /\ m + o + Total(d, CreditId) = cost
         /\ row.used + m <= row.limit
    <2>1. Total(plan.debits, CreditId) = Total(d, CreditId)
      BY <1>13, Zenon
    <2>2. /\ plan.monthly \in Nat /\ plan.overage \in Nat /\ plan.debits \in [CreditId -> Nat]
          /\ Total(plan.debits, CreditId) \in Nat
          /\ plan.monthly + plan.overage + Total(plan.debits, CreditId) = cost
          /\ row.used + plan.monthly <= row.limit
      BY <1>4 DEF PlanOK
    <2> QED
      BY <1>13, <2>1, <2>2
  <1>15. MonthlyLeft(row) = MonthlyLeft(Row') + m
    <2>1. Row'.used = row.used + m /\ Row'.limit = row.limit
      BY <1>5, <1>12, <1>13 DEF Took
    <2> QED
      BY <1>3, <1>14, <2>1 DEF MonthlyLeft, Less, SubRow
  <1>16. OverageLeft(row) = OverageLeft(Row') + o
    <2>1. Row'.overUsed = row.overUsed + o /\ Row'.cap = row.cap /\ Row'.overage = row.overage
      BY <1>5, <1>12, <1>13 DEF Took
    <2>2. o > 0 => row.overage /\ row.overUsed + o <= row.cap
      BY <1>5, <1>13
    <2>3. CASE o = 0
      BY <1>3, <2>1, <2>3 DEF OverageLeft, Less, SubRow
    <2>4. CASE o > 0
      BY <1>3, <1>14, <2>1, <2>2, <2>4 DEF OverageLeft, Less, SubRow
    <2> QED
      BY <1>14, <2>3, <2>4
  <1>17. Total(Rest, Unexpired) = Total(Rest', Unexpired') + Total(d, CreditId)
    <2>1. DOMAIN credits' = DOMAIN credits
      BY <1>2, <1>5, SameDomains DEF Took
    <2>2. Unexpired' = Unexpired
      BY <1>5, <2>1 DEF Unexpired, Took
    <2>3. PICK f, g, U : f = Rest /\ g = Rest' /\ U = Unexpired
      OBVIOUS
    <2>4. /\ U \subseteq DOMAIN credits /\ U \subseteq CreditId /\ IsFiniteSet(U) /\ IsFiniteSet(CreditId)
          /\ LiveCredits \subseteq U
      <3>1. Unexpired \subseteq DOMAIN credits /\ LiveCredits \subseteq Unexpired
        BY DEF Unexpired, LiveCredits, Live
      <3> QED
        BY <1>2, <2>3, <3>1, CreditTypes, FS_Subset
    <2>5. \A c \in U : g[c] \in Nat /\ d[c] \in Nat /\ f[c] = g[c] + d[c]
      <3>1. TAKE c \in U
      <3>2. c \in DOMAIN credits /\ c \in CreditId /\ credits[c] \in CreditRow
        BY <1>2, <2>4, CreditTypes
      <3>3. /\ credits'[c].amount = credits[c].amount /\ credits'[c] \in CreditRow
            /\ credits'[c].consumed = credits[c].consumed + d[c]
            /\ credits'[c].consumed <= credits'[c].amount
        BY <1>5, <1>13, <3>2 DEF Took
      <3>4. f[c] = credits[c].amount - credits[c].consumed /\ g[c] = credits'[c].amount - credits'[c].consumed
        BY <2>1, <2>3, <3>2 DEF Rest
      <3>5. d[c] \in Nat
        BY <1>14, <3>2
      <3> QED
        BY SMTT(40), <3>2, <3>3, <3>4, <3>5 DEF CreditRow
    <2>6. Total(f, U) = Total(g, U) + Total(d, U)
      BY <2>4, <2>5, TotalAdd
    <2>7. Total(d, CreditId) = Total(d, U)
      <3>1. \A c \in CreditId \ U : d[c] = 0
        BY <1>4, <1>13, <2>4 DEF PlanOK
      <3>2. U \in SUBSET CreditId /\ \A c \in CreditId : d[c] \in Nat
        BY <1>14, <2>4
      <3> QED
        BY <2>4, <3>1, <3>2, TotalOfZeros
    <2>8. Total(f, U) = Total(g, U) + Total(d, CreditId)
      BY <2>6, <2>7
    <2> QED
      BY <2>2, <2>3, <2>8, Zenon
  <1>18. PICK t, t1, x, x1, y, y1, z : /\ t = Total(Rest, Unexpired) /\ t1 = Total(Rest', Unexpired')
                                       /\ x = MonthlyLeft(row) /\ x1 = MonthlyLeft(Row')
                                       /\ y = OverageLeft(row) /\ y1 = OverageLeft(Row')
                                       /\ z = Total(d, CreditId)
    OBVIOUS
  <1>19. t \in Nat /\ x \in Nat /\ y \in Nat /\ Available = t + x + y
    <2>1. row = Row
      BY <1>3
    <2> QED
      BY <1>10, <1>18, <2>1, Zenon DEF BalanceOK
  <1>20. t1 \in Nat /\ x1 \in Nat /\ y1 \in Nat /\ Available' = t1 + x1 + y1
    BY <1>10, <1>18, Zenon DEF BalanceOK, MonthlyLeft, OverageLeft
  <1>21. t = t1 + z /\ x = x1 + m /\ y = y1 + o /\ m + o + z = cost /\ z \in Nat
    BY <1>14, <1>15, <1>16, <1>17, <1>18
  <1> QED
    BY <1>8, <1>9, <1>11, <1>14, <1>19, <1>20, <1>21

(* Row, when q is the newest subscription. *)
RowIs(q) ==
    /\ clock < q.end => Row = q
    /\ ~(clock < q.end) =>
          /\ Row.used = 0 /\ Row.overUsed = 0 /\ Row.limit = MonthlyTokens
          /\ Row.cap = 2 * MonthlyTokens /\ Row.overage = q.overage

(* Row is the row of the newest subscription, rolled over. *)
LEMMA RowFields == SubsOK => RowIs(subs[Len(subs)])
  <1> SUFFICES ASSUME SubsOK PROVE RowIs(subs[Len(subs)])
    OBVIOUS
  <1>1. PICK q : q = subs[Len(subs)]
    OBVIOUS
  <1>2. q \in SubRow
    BY <1>1, SubTypes
  <1>3. Row = Rolled(q)
    BY <1>1, Zenon DEF Row
  <1>4. RowIs(q)
    BY <1>2, <1>3, RolledFields DEF RowIs
  <1> QED
    BY <1>1, <1>4, Zenon

(* A refund puts back no more than the charge took. *)
LEMMA RefundRaises ==
    ASSUME LedgerInv, LedgerInv', NEW op \in ChargedOps, op \notin refunds,
           GiveBack(op[1], op, ledger[op]), clock' = clock
    PROVE  /\ op \in Op /\ PaidFor[op] > 0 /\ PaidFor[op] \in Nat /\ PaidFor' = PaidFor
           /\ Available' \in Available..(Available + PaidFor[op])
           /\ refunds' = refunds \cup {op} /\ Len(subs') = Len(subs) /\ Len(credits') = Len(credits)
  <1>1. PICK s, b, n : s = op[1] /\ b = ledger[op] /\ n = Len(subs)
    OBVIOUS
  <1>2. CreditsOK /\ SubsOK /\ LedgerOK /\ clock \in Nat /\ n \in DOMAIN subs /\ subs[n] \in SubRow
    BY <1>1, SubTypes DEF LedgerInv
  <1>3. ChargeRow(op) /\ op \in Op
    BY <1>2 DEF LedgerOK, ChargedOps
  <1>4. Gave(s, op, b) /\ s \in DOMAIN subs
    BY <1>1, GiveBackGives
  <1>5. PaidFor[op] = Paid(b) /\ Paid(b) \in Nat /\ Paid(b) > 0
    BY <1>1, <1>3 DEF ChargeRow, PaidFor
  <1>6. PaidFor' = PaidFor
    <2>1. ledger' = ledger
      BY <1>4 DEF Gave
    <2> QED
      BY <2>1 DEF PaidFor, Paid
  <1>7. Len(subs') = Len(subs) /\ Len(credits') = Len(credits) /\ refunds' = refunds \cup {op}
    BY <1>4 DEF Gave
  <1>8. BalanceOK /\ BalanceOK'
    <2>1. BalanceOK
      BY AvailableIs
    <2>2. (LedgerInv => BalanceOK)'
      BY AvailableIs, PTL
    <2> QED
      BY <2>1, <2>2
  <1>9. PICK m, o, d : m = b.monthly /\ o = b.overage /\ d = b.debits
    OBVIOUS
  <1>10. /\ m \in Nat /\ o \in Nat /\ d \in [CreditId -> Nat] /\ IsFiniteSet(CreditId)
         /\ Total(d, CreditId) \in Nat /\ Paid(b) = m + o + Total(d, CreditId)
    <2>1. Paid(b) = b.monthly + b.overage + Total(b.debits, CreditId)
      BY DEF Paid
    <2>2. Total(b.debits, CreditId) = Total(d, CreditId)
      BY <1>9, Zenon
    <2>3. m \in Nat /\ o \in Nat /\ d \in [CreditId -> Nat]
      BY <1>1, <1>3, <1>9 DEF ChargeRow
    <2>4. IsFiniteSet(CreditId)
      BY <1>2, CreditTypes
    <2>5. Total(d, CreditId) \in Nat
      BY <2>3, <2>4, TotalType
    <2> QED
      BY <1>9, <2>1, <2>2, <2>3, <2>4, <2>5
  <1>11. PICK q, q1 : q = subs[n] /\ q1 = subs'[n]
    OBVIOUS
  <1>12. /\ q \in SubRow /\ q1 \in SubRow /\ q1.end = q.end /\ q1.limit = q.limit /\ q1.cap = q.cap
         /\ q1.overage = q.overage
         /\ q1.used = q.used \/ q1.used = Less(q.used, m)
         /\ q1.overUsed = q.overUsed \/ q1.overUsed = Less(q.overUsed, o)
    <2>1. CASE n = s
      BY <1>2, <1>4, <1>9, <1>11, <2>1 DEF Gave
    <2>2. CASE n # s
      <3>1. subs'[n] = subs[n]
        BY <1>2, <1>4, <2>2 DEF Gave
      <3> QED
        BY <1>2, <1>11, <3>1
    <2> QED
      BY <2>1, <2>2
  <1>13. PICK row, row1 : row = Row /\ row1 = Row'
    OBVIOUS
  <1>14. /\ row.overage = q.overage /\ row1.overage = q.overage /\ row.overage \in BOOLEAN
         /\ row1.limit = row.limit /\ row1.cap = row.cap /\ row.limit \in Nat /\ row.cap \in Nat
         /\ row.used \in Nat /\ row.overUsed \in Nat
         /\ row1.used = row.used \/ row1.used = Less(row.used, m)
         /\ row1.overUsed = row.overUsed \/ row1.overUsed = Less(row.overUsed, o)
    <2>1. RowIs(q)
      BY <1>1, <1>2, <1>11, RowFields
    <2>2. (SubsOK => RowIs(subs[Len(subs)]))'
      BY RowFields, PTL
    <2>3. SubsOK' /\ subs'[Len(subs')] = q1
      BY <1>1, <1>7, <1>11 DEF LedgerInv
    <2>4. /\ clock' < q1.end => row1 = q1
          /\ ~(clock' < q1.end) =>
                /\ row1.used = 0 /\ row1.overUsed = 0 /\ row1.limit = MonthlyTokens
                /\ row1.cap = 2 * MonthlyTokens /\ row1.overage = q1.overage
      BY <1>13, <2>2, <2>3 DEF RowIs
    <2>5. /\ clock < q.end => row = q
          /\ ~(clock < q.end) =>
                /\ row.used = 0 /\ row.overUsed = 0 /\ row.limit = MonthlyTokens
                /\ row.cap = 2 * MonthlyTokens /\ row.overage = q.overage
      BY <1>13, <2>1 DEF RowIs
    <2>6. CASE clock < q.end
      BY <1>12, <2>4, <2>5, <2>6 DEF SubRow
    <2>7. CASE ~(clock < q.end)
      <3>1. MonthlyTokens \in Nat /\ 2 * MonthlyTokens \in Nat
        BY MeteringAssumption
      <3> QED
        BY <1>12, <2>4, <2>5, <2>7, <3>1 DEF SubRow
    <2> QED
      BY <2>6, <2>7
  <1>15. PICK x, x1, y, y1 : /\ x = MonthlyLeft(row) /\ x1 = MonthlyLeft(row1)
                             /\ y = OverageLeft(row) /\ y1 = OverageLeft(row1)
    OBVIOUS
  <1>16. x \in Nat /\ x1 \in Nat /\ x <= x1 /\ x1 <= x + m
    BY <1>10, <1>14, <1>15 DEF MonthlyLeft, Less
  <1>17. y \in Nat /\ y1 \in Nat /\ y <= y1 /\ y1 <= y + o
    BY <1>10, <1>14, <1>15 DEF OverageLeft, Less
  <1>18. PICK z : z = Total(d, Unexpired)
    OBVIOUS
  <1>19. /\ z \in Nat /\ z <= Total(d, CreditId)
         /\ Total(Rest, Unexpired) \in Nat
         /\ Total(Rest', Unexpired') = Total(Rest, Unexpired) + z
    <2>1. DOMAIN credits' = DOMAIN credits
      BY <1>2, <1>4, SameDomains DEF Gave
    <2>2. Unexpired' = Unexpired
      BY <1>4, <2>1 DEF Unexpired, Gave
    <2>3. PICK f, g, U : f = Rest /\ g = Rest' /\ U = Unexpired
      OBVIOUS
    <2>4. /\ U \subseteq DOMAIN credits /\ U \in SUBSET CreditId /\ IsFiniteSet(U)
      <3>1. Unexpired \subseteq DOMAIN credits
        BY DEF Unexpired
      <3> QED
        BY <1>2, <2>3, <3>1, CreditTypes, FS_Subset
    <2>5. \A c \in U : f[c] \in Nat /\ d[c] \in Nat /\ g[c] = f[c] + d[c]
      <3>1. TAKE c \in U
      <3>2. c \in DOMAIN credits /\ c \in CreditId /\ credits[c] \in CreditRow /\ f[c] \in Nat
        BY <1>2, <2>3, <2>4, CreditTypes
      <3>3. /\ credits'[c].amount = credits[c].amount /\ credits'[c] \in CreditRow
            /\ d[c] <= credits[c].consumed
            /\ credits'[c].consumed = credits[c].consumed - d[c]
        BY <1>4, <1>9, <3>2 DEF Gave
      <3>4. f[c] = credits[c].amount - credits[c].consumed /\ g[c] = credits'[c].amount - credits'[c].consumed
        BY <2>1, <2>3, <3>2 DEF Rest
      <3>5. d[c] \in Nat
        BY <1>10, <3>2
      <3> QED
        BY <3>2, <3>3, <3>4, <3>5 DEF CreditRow
    <2>6. Total(g, U) = Total(f, U) + Total(d, U)
      BY <2>4, <2>5, TotalAdd
    <2>7. Total(d, U) <= Total(d, CreditId) /\ Total(d, U) \in Nat /\ Total(f, U) \in Nat
      <3>1. \A c \in CreditId : d[c] \in Nat
        BY <1>10
      <3>2. Total(d, U) <= Total(d, CreditId)
        BY <1>10, <2>4, <3>1, TotalGrows
      <3> QED
        BY <2>4, <2>5, <3>2, TotalType
    <2>8. Total(d, U) = z
      BY <1>18, <2>3, Zenon
    <2>9. /\ z \in Nat /\ z <= Total(d, CreditId) /\ Total(f, U) \in Nat
          /\ Total(g, U) = Total(f, U) + z
      BY <2>6, <2>7, <2>8
    <2>10. Total(f, U) = Total(Rest, Unexpired) /\ Total(g, U) = Total(Rest', Unexpired')
      BY <2>2, <2>3, Zenon
    <2> QED
      BY <2>9, <2>10
  <1>20. PICK t, t1, w : t = Total(Rest, Unexpired) /\ t1 = Total(Rest', Unexpired') /\ w = Total(d, CreditId)
    OBVIOUS
  <1>21. t \in Nat /\ Available = t + x + y /\ Available' = t1 + x1 + y1
    <2>1. Available = t + x + y
      BY <1>8, <1>13, <1>15, <1>20, Zenon DEF BalanceOK
    <2>2. Available' = t1 + x1 + y1
      BY <1>8, <1>13, <1>15, <1>20, Zenon DEF BalanceOK, MonthlyLeft, OverageLeft
    <2> QED
      BY <1>19, <1>20, <2>1, <2>2
  <1>22. t1 = t + z /\ z \in Nat /\ z <= w /\ w \in Nat /\ Paid(b) = m + o + w
    BY <1>10, <1>19, <1>20
  <1>23. Available' \in Available..(Available + PaidFor[op])
    BY <1>5, <1>10, <1>16, <1>17, <1>21, <1>22
  <1> QED
    BY <1>3, <1>5, <1>6, <1>7, <1>23

Terms == <<clock, settings, Len(subs), Len(credits)>>

(* The initial account, and what the steps make of it. *)
LEMMA AccountStarts == MeterInit /\ MeterInv => Account!AccountInit
  <1> SUFFICES ASSUME MeterInit, MeterInv PROVE Account!AccountInit
    OBVIOUS
  <1>1. Available \in Nat
    BY AvailableIs DEF MeterInv, BalanceOK
  <1>2. \A op \in Op : Paid(ledger[op]) = 0
    <2>1. \A op \in Op : ledger[op] = Nothing
      BY DEF MeterInit
    <2> QED
      BY <2>1, PaidNothing, Zenon
  <1>3. refunds = {}
    BY DEF MeterInit
  <1> QED
    BY <1>1, <1>2, <1>3 DEF Account!AccountInit

(* A step that moves none of what the account is made of is a stutter of it. *)
LEMMA StandsStill ==
    ASSUME UNCHANGED <<subs, credits, ledger, refunds, clock, settings>>
    PROVE  UNCHANGED Account!accountVars
  <1>1. Available' = Available
    BY DEF Available, GetActiveSubscription, ActiveSubs, Rolled, rollPeriod, LiveCredits, Live
  <1> QED
    BY <1>1 DEF Account!accountVars, Paid

(* Every step of the ledger is a step of the account or a stutter. *)
LEMMA AccountSteps ==
    ASSUME MeterInv, MeterInv', [MeterNext]_meterVars
    PROVE  [Account!AccountNext]_(Account!accountVars)
  <1>0. LedgerInv /\ LedgerInv' /\ ReqInv /\ SubsOK
    BY DEF MeterInv, LedgerInv
  <1>1. Available' \in Nat
    <2>1. (LedgerInv => BalanceOK)'
      BY AvailableIs, PTL
    <2> QED
      BY <1>0, <2>1 DEF BalanceOK
  <1>2. ASSUME ledger' = ledger, refunds' = refunds, Terms' # Terms
        PROVE  Account!Adjust
    <2>1. [op \in Op |-> Paid(ledger[op])]' = [op \in Op |-> Paid(ledger[op])]
      BY <1>2 DEF Paid
    <2> QED
      BY <1>1, <1>2, <2>1 DEF Account!Adjust, Terms
  <1>3. CASE AssignPlan
    <2>1. Len(subs') # Len(subs)
      <3>1. PICK n : n = Len(subs)
        OBVIOUS
      <3>2. n \in Nat /\ Len(subs') = n + 1
        BY <1>0, <1>3, <3>1, AssignedRows
      <3> QED
        BY <3>1, <3>2
    <2> QED
      BY <1>2, <1>3, <2>1 DEF AssignPlan, Terms, Account!AccountNext
  <1>4. CASE UpdateSubscription
    <2>1. settings' # settings
      BY <1>4 DEF UpdateSubscription, MeterInv
    <2> QED
      BY <1>2, <1>4, <2>1 DEF UpdateSubscription, Terms, Account!AccountNext
  <1>5. CASE GrantCredit
    <2>1. Len(credits') # Len(credits)
      <3>1. PICK row : credits' = Append(credits, row)
        BY <1>5 DEF GrantCredit
      <3>2. credits \in Seq(CreditRow)
        BY <1>0 DEF LedgerInv, CreditsOK
      <3>3. \A S : \A q \in Seq(S) : \A e : Len(Append(q, e)) = Len(q) + 1 /\ Len(q) \in Nat
        OBVIOUS
      <3>4. Len(credits') = Len(credits) + 1 /\ Len(credits) \in Nat
        BY <3>1, <3>2, <3>3, Zenon
      <3> QED
        BY <3>4
    <2> QED
      BY <1>2, <1>5, <2>1 DEF GrantCredit, Terms, Account!AccountNext
  <1>6. CASE Tick
    <2>1. clock' # clock
      BY <1>0, <1>6 DEF Tick, LedgerInv
    <2> QED
      BY <1>2, <1>6, <2>1 DEF Tick, Terms, ledgerVars, Account!AccountNext
  <1>7. ASSUME NEW r \in MeterRequest, Metered(r), ~ UNCHANGED ledgerVars
        PROVE  Account!AccountNext
    <2>1. PICK s, op : s = req[r].sub /\ op = opID(r)
      OBVIOUS
    <2>2. ReqAt(r) /\ s \in DOMAIN subs
      BY <1>0, <1>7, <2>1 DEF ReqInv, ReqAt, Metered
    <2>3. op \in Op /\ op[1] = s
      BY <1>0, <2>1, <2>2, OpsOfRequests
    <2>4. \E cost \in Cost : ConsumeTokensV2(req[r].sub, opID(r), cost)
      BY <1>7 DEF Metered
    <2>5. subs[req[r].sub].status = "active" /\ UNCHANGED outside
      BY <1>7 DEF Metered, ledgerVars
    <2>6. s = Len(subs) /\ clock' = clock /\ settings' = settings
      BY <1>0, <2>1, <2>2, <2>5 DEF SubsOK, outside
    <2>7. PICK cost \in Cost : ConsumeTokensV2(s, op, cost)
      BY <2>1, <2>4
    <2>8. /\ PaidFor[op] = 0 /\ PaidFor' = [PaidFor EXCEPT ![op] = cost]
          /\ cost \in 1..Available /\ Available' = Available - cost
          /\ refunds' = refunds /\ Len(subs') = Len(subs) /\ Len(credits') = Len(credits)
      <3>1. cost \in Nat /\ cost > 0
        BY CostPositive
      <3> QED
        BY <1>0, <2>3, <2>6, <2>7, <3>1, ChargeLowers
    <2>9. Account!Charge(op)
      BY <2>6, <2>8 DEF Account!Charge, PaidFor
    <2> QED
      BY <2>3, <2>9 DEF Account!AccountNext
  <1>8. ASSUME NEW r \in MeterRequest, Refunded(r), ~ UNCHANGED ledgerVars
        PROVE  Account!AccountNext
    <2>1. PICK op : op = opID(r)
      OBVIOUS
    <2>2. /\ ReqAt(r) /\ Charged(op) /\ req[r].got = ledger[op] /\ req[r].sub \in DOMAIN subs
      BY <1>0, <1>8, <2>1 DEF ReqInv, Refunded, ReqAt
    <2>3. op \in ChargedOps /\ op[1] = req[r].sub
      BY <1>0, <2>1, <2>2, OpsOfRequests DEF ChargedOps
    <2>4. op \notin refunds /\ GiveBack(op[1], op, ledger[op])
      BY <1>8, <2>1, <2>2, <2>3 DEF Refunded, RefundTokensV2, ledgerVars, account
    <2>5. clock' = clock /\ settings' = settings
      BY <1>8 DEF Refunded, outside
    <2>6. /\ op \in Op /\ PaidFor[op] > 0 /\ PaidFor[op] \in Nat /\ PaidFor' = PaidFor
          /\ Available' \in Available..(Available + PaidFor[op])
          /\ refunds' = refunds \cup {op} /\ Len(subs') = Len(subs) /\ Len(credits') = Len(credits)
      BY <1>0, <2>3, <2>4, <2>5, RefundRaises
    <2>7. Account!Refund(op)
      BY <2>4, <2>5, <2>6 DEF Account!Refund, PaidFor
    <2> QED
      BY <2>6, <2>7 DEF Account!AccountNext
  <1>9. CASE UNCHANGED <<subs, credits, ledger, refunds, clock, settings>>
    BY <1>9, StandsStill
  <1>10. \/ UNCHANGED <<subs, credits, ledger, refunds, clock, settings>>
         \/ AssignPlan \/ UpdateSubscription \/ GrantCredit \/ Tick
         \/ \E r \in MeterRequest : (Metered(r) \/ Refunded(r)) /\ ~UNCHANGED ledgerVars
    <2>1. ASSUME UNCHANGED ledgerVars, UNCHANGED outside
          PROVE  UNCHANGED <<subs, credits, ledger, refunds, clock, settings>>
      BY <2>1 DEF ledgerVars, outside
    <2>2. ASSUME UNCHANGED meterVars
          PROVE  UNCHANGED <<subs, credits, ledger, refunds, clock, settings>>
      BY <2>2 DEF meterVars
    <2>3. ASSUME NEW r \in MeterRequest, RequestStep(r)
          PROVE  UNCHANGED outside /\ (UNCHANGED ledgerVars \/ Metered(r) \/ Refunded(r))
      BY <2>3 DEF RequestStep, requireSubscription, chargeQuota, Charge, proxyHandler, refundOnError,
                  refund, Refund, Stop, Metered, Refunded
    <2> QED
      BY <2>1, <2>2, <2>3 DEF MeterNext
  <1> QED
    BY <1>3, <1>4, <1>5, <1>6, <1>7, <1>8, <1>9, <1>10

(* The ledger implements the account of TokenAccount: an operation is debited *)
(* at most once and in full, refunded at most once and never more than it was *)
(* debited, and nothing else moves the balance but a change of its terms.   *)
THEOREM LedgerIsAnAccount == MeterSpec => MeteringImplementsAccount
  <1>1. MeterInit => Account!AccountInit
    BY MeterInitially, AccountStarts
  <1>2. MeterInv /\ MeterInv' /\ [MeterNext]_meterVars => [Account!AccountNext]_(Account!accountVars)
    BY AccountSteps
  <1> QED
    BY <1>1, <1>2, MeterAlways, PTL DEF MeterSpec, MeteringImplementsAccount, Account!AccountSpec
=============================================================================
