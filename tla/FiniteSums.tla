------------------------------ MODULE FiniteSums ------------------------------
(***************************************************************************)
(* The sums of the models, MapThenSumSet of the sizes of a set of blocks:  *)
(* what an element that is added or taken out does to them.  The community *)
(* modules define a sum by a fold that takes the elements in the order of  *)
(* CHOOSE; that the order does not matter is an induction over the number  *)
(* of elements, carried out here on the set of numbers for which the claim *)
(* fails: it has a least element if it has one.                            *)
(***************************************************************************)
EXTENDS Integers, FiniteSets, FiniteSetsExt, FiniteSetTheorems, WellFoundedInduction, TLAPS

Pick(s) == CHOOSE x \in s : TRUE

\* F adds up the weights w over the subsets of S in the order of CHOOSE.
Adds(F, w, S) ==
    F = [s \in SUBSET S |-> IF s = {} THEN 0 ELSE w[Pick(s)] + F[s \ {Pick(s)}]]

Sum(w, S) == (CHOOSE F : Adds(F, w, S))[S]

\* A set of numbers has a least one.
LEMMA Least ==
    ASSUME NEW T, T \subseteq Nat, T # {}
    PROVE  \E m \in T : \A k \in T : m <= k
<1>1. PICK m \in T : \A k \in T : ~(<<k, m>> \in OpToRel(<, Nat))
  BY NatLessThanWellFounded, WFMin
<1>2. \A k \in T : ~(k < m) BY <1>1 DEF OpToRel
<1> QED BY <1>2

\* The sums of the model are of this kind.
LEMMA SizeIsSum ==
    ASSUME NEW S, NEW w, \A x \in S : w[x] = x.size
    PROVE  MapThenSumSet(LAMBDA b : b.size, S) = Sum(w, S)
<1>1. ASSUME NEW F
      PROVE  Adds(F, w, S) <=>
                F = [s \in SUBSET S |-> IF s = {} THEN 0 ELSE Pick(s).size + F[s \ {Pick(s)}]]
  <2>1. ASSUME NEW s \in SUBSET S, s # {} PROVE Pick(s) \in S BY <2>1 DEF Pick
  <2> QED BY <2>1 DEF Adds
<1> QED BY <1>1 DEF MapThenSumSet, MapThenFoldSet, Sum, Pick

LEMMA ReqIsSum ==
    ASSUME NEW S, NEW w, \A x \in S : w[x] = x.req
    PROVE  MapThenSumSet(LAMBDA s : s.req, S) = Sum(w, S)
<1>1. ASSUME NEW F
      PROVE  Adds(F, w, S) <=>
                F = [s \in SUBSET S |-> IF s = {} THEN 0 ELSE Pick(s).req + F[s \ {Pick(s)}]]
  <2>1. ASSUME NEW s \in SUBSET S, s # {} PROVE Pick(s) \in S BY <2>1 DEF Pick
  <2> QED BY <2>1 DEF Adds
<1> QED BY <1>1 DEF MapThenSumSet, MapThenFoldSet, Sum, Pick

\* What is left of a finite set when one element is taken out.
LEMMA OneOut ==
    ASSUME NEW s, IsFiniteSet(s), NEW x \in s
    PROVE  /\ IsFiniteSet(s \ {x}) /\ Cardinality(s) \in Nat /\ Cardinality(s \ {x}) \in Nat
           /\ Cardinality(s \ {x}) < Cardinality(s)
<1>1. Cardinality(s) \in Nat /\ Cardinality(s \ {x}) \in Nat /\ IsFiniteSet(s \ {x})
  BY FS_RemoveElement, FS_CardinalityType
<1>2. Cardinality(s \ {x}) = Cardinality(s) - 1 BY FS_RemoveElement
<1> QED BY <1>1, <1>2

Small(S, n) == {s \in SUBSET S : Cardinality(s) <= n}

\* F adds up the subsets of at most n elements.
Upto(F, w, S, n) ==
    /\ F \in [Small(S, n) -> Nat]
    /\ \A s \in Small(S, n) :
          F[s] = IF s = {} THEN 0 ELSE w[Pick(s)] + F[s \ {Pick(s)}]

\* The sums of larger and larger subsets are defined.
LEMMA AddsUpto ==
    ASSUME NEW S, IsFiniteSet(S), NEW w \in [S -> Nat]
    PROVE  \A n \in Nat : \E F : Upto(F, w, S, n)
<1> DEFINE Bad == {n \in Nat : ~ \E F : Upto(F, w, S, n)}
<1> SUFFICES ASSUME Bad # {} PROVE FALSE OBVIOUS
<1>1. PICK m \in Bad : \A k \in Bad : m <= k
  <2> HIDE DEF Bad
  <2>1. Bad \subseteq Nat BY DEF Bad
  <2> QED BY <2>1, Least
<1>2. \A s \in SUBSET S : IsFiniteSet(s) /\ Cardinality(s) \in Nat
  BY FS_Subset, FS_CardinalityType
<1>3. \A s \in SUBSET S : s # {} =>
         /\ Pick(s) \in s /\ Pick(s) \in S /\ s \ {Pick(s)} \in SUBSET S
         /\ Cardinality(s \ {Pick(s)}) < Cardinality(s)
         /\ Cardinality(s \ {Pick(s)}) \in Nat
  <2> SUFFICES ASSUME NEW s \in SUBSET S, s # {}
               PROVE /\ Pick(s) \in s /\ Pick(s) \in S /\ s \ {Pick(s)} \in SUBSET S
                     /\ Cardinality(s \ {Pick(s)}) < Cardinality(s)
                     /\ Cardinality(s \ {Pick(s)}) \in Nat
    OBVIOUS
  <2>1. Pick(s) \in s BY DEF Pick
  <2> QED BY <1>2, <2>1, OneOut
<1>4. m # 0
  <2> SUFFICES ASSUME m = 0 PROVE FALSE OBVIOUS
  <2> DEFINE F == [s \in Small(S, 0) |-> 0]
  <2>1. \A s \in Small(S, 0) : s = {} BY <1>2, FS_EmptySet DEF Small
  <2>2. Upto(F, w, S, 0) BY <2>1 DEF Upto
  <2> QED BY <2>2
<1>5. m \in Nat /\ m - 1 \in Nat /\ m - 1 < m /\ m - 1 \notin Bad BY <1>1, <1>4
<1>6. PICK F : Upto(F, w, S, m - 1) BY <1>5
<1> DEFINE G == [s \in Small(S, m) |->
                    IF s \in Small(S, m - 1) THEN F[s] ELSE w[Pick(s)] + F[s \ {Pick(s)}]]
<1>7. \A s \in Small(S, m) : s # {} => s \ {Pick(s)} \in Small(S, m - 1)
  BY <1>2, <1>3, <1>5 DEF Small
<1>8. Small(S, m - 1) \subseteq Small(S, m) BY <1>2, <1>5 DEF Small
<1>9. {} \in Small(S, m - 1) BY <1>5, FS_EmptySet DEF Small
<1>10. G \in [Small(S, m) -> Nat]
  <2> SUFFICES ASSUME NEW s \in Small(S, m) PROVE G[s] \in Nat OBVIOUS
  <2>1. CASE s \in Small(S, m - 1) BY <2>1, <1>6 DEF Upto
  <2>2. CASE s \notin Small(S, m - 1)
    <3>1. s # {} /\ s \in SUBSET S BY <2>2, <1>9 DEF Small
    <3>2. F[s \ {Pick(s)}] \in Nat BY <3>1, <1>6, <1>7 DEF Upto
    <3>3. w[Pick(s)] \in Nat BY <3>1, <1>3
    <3> QED BY <2>2, <3>2, <3>3
  <2> QED BY <2>1, <2>2
<1>11. ASSUME NEW s \in Small(S, m)
       PROVE  G[s] = IF s = {} THEN 0 ELSE w[Pick(s)] + G[s \ {Pick(s)}]
  <2>1. s # {} => G[s \ {Pick(s)}] = F[s \ {Pick(s)}] BY <1>7, <1>8
  <2>2. CASE s \in Small(S, m - 1)
    <3>1. F[s] = IF s = {} THEN 0 ELSE w[Pick(s)] + F[s \ {Pick(s)}] BY <2>2, <1>6 DEF Upto
    <3>2. G[s] = F[s] BY <2>2
    <3> HIDE DEF G
    <3> QED BY <2>1, <3>1, <3>2
  <2>3. CASE s \notin Small(S, m - 1)
    <3>1. s # {} /\ G[s] = w[Pick(s)] + F[s \ {Pick(s)}] BY <2>3, <1>9
    <3> HIDE DEF G
    <3> QED BY <2>1, <3>1
  <2> QED BY <2>2, <2>3
<1> HIDE DEF G
<1>12. Upto(G, w, S, m) BY <1>10, <1>11 DEF Upto
<1> QED BY <1>1, <1>12

\* There is such a function, and its values are natural numbers.
LEMMA AddsExists ==
    ASSUME NEW S, IsFiniteSet(S), NEW w \in [S -> Nat]
    PROVE  \E F \in [SUBSET S -> Nat] : Adds(F, w, S)
<1>1. Cardinality(S) \in Nat BY FS_CardinalityType
<1>2. Small(S, Cardinality(S)) = SUBSET S BY FS_Subset DEF Small
<1>3. PICK F : Upto(F, w, S, Cardinality(S)) BY <1>1, AddsUpto
<1>4. /\ F \in [SUBSET S -> Nat]
      /\ \A s \in SUBSET S : F[s] = IF s = {} THEN 0 ELSE w[Pick(s)] + F[s \ {Pick(s)}]
  BY <1>2, <1>3 DEF Upto
<1> QED BY <1>4 DEF Adds

\* Two of them agree where both are defined.
LEMMA AddsAgree ==
    ASSUME NEW A, IsFiniteSet(A), NEW B, NEW w, NEW v, NEW F, NEW G, Adds(F, w, A), Adds(G, v, B),
           \A x \in A \cap B : w[x] = v[x],
           NEW t \in SUBSET (A \cap B)
    PROVE  F[t] = G[t]
<1> DEFINE Bad == {n \in Nat : \E s \in SUBSET (A \cap B) : Cardinality(s) = n /\ F[s] # G[s]}
<1>0. \A s \in SUBSET (A \cap B) : IsFiniteSet(s) /\ Cardinality(s) \in Nat
  BY FS_Subset, FS_CardinalityType
<1> SUFFICES ASSUME Bad # {} PROVE FALSE BY <1>0
<1>1. PICK m \in Bad : \A k \in Bad : m <= k
  <2> HIDE DEF Bad
  <2>1. Bad \subseteq Nat BY DEF Bad
  <2> QED BY <2>1, Least
<1>2. PICK s \in SUBSET (A \cap B) : Cardinality(s) = m /\ F[s] # G[s] BY <1>1
<1>3. /\ F[s] = IF s = {} THEN 0 ELSE w[Pick(s)] + F[s \ {Pick(s)}]
      /\ G[s] = IF s = {} THEN 0 ELSE v[Pick(s)] + G[s \ {Pick(s)}]
  BY DEF Adds
<1>4. CASE s = {} BY <1>2, <1>3, <1>4
<1>5. CASE s # {}
  <2>1. Pick(s) \in s BY <1>5 DEF Pick
  <2>2. /\ Cardinality(s \ {Pick(s)}) \in Nat /\ Cardinality(s \ {Pick(s)}) < m
        /\ s \ {Pick(s)} \in SUBSET (A \cap B)
    BY <1>0, <1>2, <2>1, OneOut
  <2>3. Cardinality(s \ {Pick(s)}) \notin Bad BY <1>1, <2>2
  <2>4. F[s \ {Pick(s)}] = G[s \ {Pick(s)}] BY <2>2, <2>3
  <2>5. w[Pick(s)] = v[Pick(s)] BY <2>1
  <2> QED BY <1>2, <1>3, <1>5, <2>4, <2>5
<1> QED BY <1>4, <1>5

Adder(F, w, S) == w \in [S -> Nat] /\ F \in [SUBSET S -> Nat] /\ Adds(F, w, S)

\* The order does not matter: any element may be taken out first.
AnyFirst(F, w, S) == \A t \in SUBSET S : \A y \in t : F[t] = w[y] + F[t \ {y}]

LEMMA AddsAnyFirst ==
    ASSUME NEW S, IsFiniteSet(S), NEW w, NEW F, Adder(F, w, S)
    PROVE  AnyFirst(F, w, S)
<1>b. w \in [S -> Nat] /\ F \in [SUBSET S -> Nat] /\ Adds(F, w, S) BY DEF Adder
<1> DEFINE Bad == {n \in Nat : \E s \in SUBSET S : \E x \in s :
                                   Cardinality(s) = n /\ F[s] # w[x] + F[s \ {x}]}
<1>0. \A s \in SUBSET S : IsFiniteSet(s) /\ Cardinality(s) \in Nat
  BY FS_Subset, FS_CardinalityType
<1> SUFFICES ASSUME Bad # {} PROVE FALSE BY <1>0 DEF AnyFirst
<1>1. PICK m \in Bad : \A k \in Bad : m <= k
  <2> HIDE DEF Bad
  <2>1. Bad \subseteq Nat BY DEF Bad
  <2> QED BY <2>1, Least
<1>a. PICK s \in SUBSET S : \E x \in s : Cardinality(s) = m /\ F[s] # w[x] + F[s \ {x}]
  BY <1>1
<1>2. PICK x \in s : Cardinality(s) = m /\ F[s] # w[x] + F[s \ {x}] BY <1>a
<1>3. PICK p : p = Pick(s) OBVIOUS
<1>4. p \in s /\ F[s] = w[p] + F[s \ {p}] BY <1>b, <1>3 DEF Adds, Pick
<1>5. x # p BY <1>2, <1>4
<1>6. /\ Cardinality(s \ {p}) \in Nat /\ Cardinality(s \ {p}) < m
      /\ Cardinality(s \ {x}) \in Nat /\ Cardinality(s \ {x}) < m
  BY <1>0, <1>2, <1>4, OneOut
<1>7. Cardinality(s \ {p}) \notin Bad /\ Cardinality(s \ {x}) \notin Bad
  <2>1. m \in Nat BY <1>1
  <2> HIDE DEF Bad
  <2>2. \A k \in Nat : k < m => k \notin Bad BY <1>1, <2>1
  <2> QED BY <1>6, <2>2
<1>8. F[s \ {p}] = w[x] + F[(s \ {p}) \ {x}]
  <2>1. s \ {p} \in SUBSET S /\ x \in s \ {p} BY <1>5
  <2> QED BY <1>6, <1>7, <2>1
<1>9. F[s \ {x}] = w[p] + F[(s \ {x}) \ {p}]
  <2>1. s \ {x} \in SUBSET S /\ p \in s \ {x} BY <1>4, <1>5
  <2> QED BY <1>6, <1>7, <2>1
<1>10. (s \ {p}) \ {x} = (s \ {x}) \ {p} OBVIOUS
<1>11. PICK r \in SUBSET S : r = (s \ {x}) \ {p} OBVIOUS
<1>12. w[x] \in Nat /\ w[p] \in Nat /\ F[r] \in Nat
  <2>1. x \in S /\ p \in S BY <1>4
  <2> QED BY ONLY <1>b, <2>1, r \in SUBSET S
<1> HIDE DEF Bad
<1>13. F[s] = w[p] + (w[x] + F[r]) BY <1>4, <1>8, <1>10, <1>11
<1>14. w[x] + F[s \ {x}] = w[x] + (w[p] + F[r]) BY <1>9, <1>11
<1>15. w[p] + (w[x] + F[r]) = w[x] + (w[p] + F[r]) BY <1>12
<1> QED BY <1>2, <1>13, <1>14, <1>15

\* The sum over a set is the value of such a function.
LEMMA SumIs ==
    ASSUME NEW S, IsFiniteSet(S), NEW w \in [S -> Nat]
    PROVE  \E F \in [SUBSET S -> Nat] : Adds(F, w, S) /\ F[S] = Sum(w, S)
<1>1. PICK F \in [SUBSET S -> Nat] : Adds(F, w, S) BY AddsExists
<1>2. Adds(CHOOSE G : Adds(G, w, S), w, S) BY <1>1
<1>3. (CHOOSE G : Adds(G, w, S))[S] = F[S] BY <1>1, <1>2, AddsAgree
<1> QED BY <1>1, <1>3 DEF Sum

\* A sum of natural numbers is one.
LEMMA SumType ==
    ASSUME NEW S, IsFiniteSet(S), NEW w \in [S -> Nat]
    PROVE  Sum(w, S) \in Nat
<1>1. PICK F \in [SUBSET S -> Nat] : F[S] = Sum(w, S) BY SumIs
<1>2. F[S] \in Nat OBVIOUS
<1> QED BY <1>1, <1>2

\* Nothing adds up to 0.
LEMMA SumNone == \A w : Sum(w, {}) = 0
<1> SUFFICES ASSUME NEW w PROVE Sum(w, {}) = 0 OBVIOUS
<1> DEFINE F == [s \in SUBSET {} |-> 0]
<1>1. Adds(F, w, {})
  <2>1. \A s \in SUBSET {} : s = {} OBVIOUS
  <2>2. F = [s \in SUBSET {} |-> IF s = {} THEN 0 ELSE w[Pick(s)] + F[s \ {Pick(s)}]]
    BY <2>1
  <2> HIDE DEF F
  <2> QED BY <2>2 DEF Adds
<1>2. Adds(CHOOSE G : Adds(G, w, {}), w, {}) BY <1>1
<1> QED BY <1>2 DEF Adds, Sum

\* An element contributes its weight; w and v are weights over the two sets.
LEMMA SumMinus ==
    ASSUME NEW T, IsFiniteSet(T), NEW a \in T, NEW w \in [T -> Nat],
           NEW v \in [T \ {a} -> Nat], \A x \in T \ {a} : v[x] = w[x]
    PROVE  Sum(w, T) = w[a] + Sum(v, T \ {a})
<1>1. IsFiniteSet(T \ {a}) BY FS_RemoveElement
<1>2. PICK F \in [SUBSET T -> Nat] : Adds(F, w, T) /\ F[T] = Sum(w, T) BY SumIs
<1>3. PICK G \in [SUBSET (T \ {a}) -> Nat] : Adds(G, v, T \ {a}) /\ G[T \ {a}] = Sum(v, T \ {a})
  BY <1>1, SumIs
<1>4. T \in SUBSET T OBVIOUS
<1>5. F[T] = w[a] + F[T \ {a}]
  <2>1. Adder(F, w, T) BY <1>2 DEF Adder
  <2>2. AnyFirst(F, w, T) BY ONLY IsFiniteSet(T), <2>1, AddsAnyFirst
  <2> QED BY <1>4, <2>2 DEF AnyFirst
<1>6. T \ {a} \in SUBSET (T \cap (T \ {a})) /\ \A x \in T \cap (T \ {a}) : w[x] = v[x]
  OBVIOUS
<1>7. F[T \ {a}] = G[T \ {a}] BY <1>2, <1>3, <1>6, AddsAgree
<1> QED BY <1>2, <1>3, <1>5, <1>7

\* The sums of the models.
SizeSum(S) == MapThenSumSet(LAMBDA b : b.size, S)
ReqSum(S) == MapThenSumSet(LAMBDA s : s.req, S)

\* Taking an element out takes its size out of the sum.
LEMMA SizeMinus ==
    ASSUME NEW T, IsFiniteSet(T), \A x \in T : x.size \in Nat, NEW a \in T
    PROVE  /\ SizeSum(T) = a.size + SizeSum(T \ {a}) /\ SizeSum(T \ {a}) \in Nat
           /\ IsFiniteSet(T \ {a})
<1> DEFINE w == [x \in T |-> x.size]
           v == [x \in T \ {a} |-> x.size]
<1>1. SizeSum(T) = Sum(w, T) /\ SizeSum(T \ {a}) = Sum(v, T \ {a}) BY SizeIsSum DEF SizeSum
<1>2. w \in [T -> Nat] /\ v \in [T \ {a} -> Nat] OBVIOUS
<1>3. \A x \in T \ {a} : v[x] = w[x] OBVIOUS
<1>4. w[a] = a.size OBVIOUS
<1>5. IsFiniteSet(T \ {a}) BY FS_RemoveElement
<1> HIDE DEF v, w
<1> QED BY <1>1, <1>2, <1>3, <1>4, <1>5, SumMinus, SumType

\* The same of the sizes requested.
LEMMA ReqMinus ==
    ASSUME NEW T, IsFiniteSet(T), \A x \in T : x.req \in Nat, NEW a \in T
    PROVE  ReqSum(T) = a.req + ReqSum(T \ {a}) /\ ReqSum(T \ {a}) \in Nat
<1> DEFINE w == [x \in T |-> x.req]
           v == [x \in T \ {a} |-> x.req]
<1>1. ReqSum(T) = Sum(w, T) /\ ReqSum(T \ {a}) = Sum(v, T \ {a}) BY ReqIsSum DEF ReqSum
<1>2. w \in [T -> Nat] /\ v \in [T \ {a} -> Nat] OBVIOUS
<1>3. \A x \in T \ {a} : v[x] = w[x] OBVIOUS
<1>4. w[a] = a.req OBVIOUS
<1>5. IsFiniteSet(T \ {a}) BY FS_RemoveElement
<1> HIDE DEF v, w
<1> QED BY <1>1, <1>2, <1>3, <1>4, <1>5, SumMinus, SumType

\* Adding an element adds its size, and what it requests.
LEMMA SizePlus ==
    ASSUME NEW T, IsFiniteSet(T), \A x \in T : x.size \in Nat,
           NEW a, a \notin T, a.size \in Nat
    PROVE  SizeSum(T \cup {a}) = SizeSum(T) + a.size /\ SizeSum(T) \in Nat
<1>1. IsFiniteSet(T \cup {a}) /\ (T \cup {a}) \ {a} = T BY FS_AddElement
<1>2. PICK U : U = T \cup {a} OBVIOUS
<1>3. IsFiniteSet(U) /\ a \in U /\ U \ {a} = T /\ \A x \in U : x.size \in Nat
  BY <1>1, <1>2
<1>4. SizeSum(U) = a.size + SizeSum(T) /\ SizeSum(T) \in Nat BY <1>3, SizeMinus
<1> QED BY <1>2, <1>4

\* The same of the sizes requested.
LEMMA ReqPlus ==
    ASSUME NEW T, IsFiniteSet(T), \A x \in T : x.req \in Nat,
           NEW a, a \notin T, a.req \in Nat
    PROVE  ReqSum(T \cup {a}) = ReqSum(T) + a.req /\ ReqSum(T) \in Nat
<1>1. IsFiniteSet(T \cup {a}) /\ (T \cup {a}) \ {a} = T BY FS_AddElement
<1>2. PICK U : U = T \cup {a} OBVIOUS
<1>3. IsFiniteSet(U) /\ a \in U /\ U \ {a} = T /\ \A x \in U : x.req \in Nat
  BY <1>1, <1>2
<1>4. ReqSum(U) = a.req + ReqSum(T) /\ ReqSum(T) \in Nat BY <1>3, ReqMinus
<1> QED BY <1>2, <1>4

\* The sums of the model over no element.
LEMMA NoSize == SizeSum({}) = 0 /\ ReqSum({}) = 0
<1>1. PICK w : w = [x \in {} |-> 0] OBVIOUS
<1>2. SizeSum({}) = Sum(w, {}) BY SizeIsSum DEF SizeSum
<1>3. ReqSum({}) = Sum(w, {}) BY ReqIsSum DEF ReqSum
<1> QED BY <1>2, <1>3, SumNone

\* Sizes add up to a number.
LEMMA SizeType ==
    ASSUME NEW T, IsFiniteSet(T), \A x \in T : x.size \in Nat
    PROVE  SizeSum(T) \in Nat
<1>1. CASE T = {} BY <1>1, NoSize
<1>2. CASE T # {}
  <2>1. PICK a \in T : TRUE BY <1>2
  <2>2. a.size \in Nat /\ SizeSum(T) = a.size + SizeSum(T \ {a}) /\ SizeSum(T \ {a}) \in Nat
    BY SizeMinus
  <2> QED BY <2>2
<1> QED BY <1>1, <1>2

\* The sum over two sets that share nothing.
LEMMA SizeUnion ==
    ASSUME NEW A, IsFiniteSet(A), NEW B, IsFiniteSet(B), A \cap B = {},
           \A x \in A \cup B : x.size \in Nat
    PROVE  SizeSum(A \cup B) = SizeSum(A) + SizeSum(B)
<1> DEFINE Bad == {n \in Nat : \E s \in SUBSET B :
                      Cardinality(s) = n /\ SizeSum(A \cup s) # SizeSum(A) + SizeSum(s)}
<1>0. \A s \in SUBSET B : IsFiniteSet(s) /\ Cardinality(s) \in Nat
  BY FS_Subset, FS_CardinalityType
<1> SUFFICES ASSUME Bad # {} PROVE FALSE
  <2>1. B \in SUBSET B /\ Cardinality(B) \in Nat BY <1>0
  <2> QED BY <2>1
<1>1. PICK m \in Bad : \A k \in Bad : m <= k
  <2> HIDE DEF Bad
  <2>1. Bad \subseteq Nat BY DEF Bad
  <2> QED BY <2>1, Least
<1>2. PICK s \in SUBSET B : Cardinality(s) = m /\ SizeSum(A \cup s) # SizeSum(A) + SizeSum(s)
  BY <1>1
<1>3. SizeSum(A) \in Nat BY SizeType
<1>4. CASE s = {}
  <2>1. A \cup s = A BY <1>4
  <2> QED BY <1>2, <1>3, <1>4, <2>1, NoSize
<1>5. CASE s # {}
  <2>1. PICK a \in s : TRUE BY <1>5
  <2>2. PICK r \in SUBSET B : r = s \ {a} BY <2>1
  <2>3. /\ IsFiniteSet(s) /\ Cardinality(r) \in Nat /\ Cardinality(r) < m
        /\ a \notin r /\ a \notin A /\ IsFiniteSet(r)
    BY <1>0, <1>2, <2>1, <2>2, OneOut
  <2>4. SizeSum(A \cup r) = SizeSum(A) + SizeSum(r)
    <3>1. Cardinality(r) \notin Bad
      <4>1. m \in Nat BY <1>1
      <4> HIDE DEF Bad
      <4>2. \A k \in Nat : k < m => k \notin Bad BY <1>1, <4>1
      <4> QED BY <2>3, <4>2
    <3> QED BY <2>3, <3>1
  <2>5. /\ SizeSum(s) = a.size + SizeSum(r) /\ SizeSum(r) \in Nat /\ a.size \in Nat
    <3>1. \A x \in s : x.size \in Nat OBVIOUS
    <3> QED BY <2>1, <2>2, <2>3, <3>1, SizeMinus
  <2>6. SizeSum(A \cup s) = a.size + SizeSum(A \cup r)
    <3>1. PICK T : T = A \cup s OBVIOUS
    <3>2. IsFiniteSet(T) BY <2>3, <3>1, FS_Union
    <3>3. a \in T /\ T \ {a} = A \cup r /\ \A x \in T : x.size \in Nat
      BY <2>1, <2>2, <2>3, <3>1
    <3> QED BY <3>1, <3>2, <3>3, SizeMinus
  <2> QED BY <1>2, <1>3, <2>4, <2>5, <2>6
<1> QED BY <1>4, <1>5

\* A part adds up to no more than the whole.
LEMMA SizePart ==
    ASSUME NEW T, IsFiniteSet(T), \A x \in T : x.size \in Nat, NEW U \in SUBSET T
    PROVE  SizeSum(U) \in Nat /\ SizeSum(U) <= SizeSum(T) /\ IsFiniteSet(U)
<1>1. IsFiniteSet(U) /\ IsFiniteSet(T \ U) BY FS_Subset
<1>2. SizeSum(U) \in Nat /\ SizeSum(T \ U) \in Nat BY <1>1, SizeType
<1>3. PICK R : R = T \ U OBVIOUS
<1>4. U \cup R = T /\ U \cap R = {} BY <1>3
<1>5. SizeSum(T) = SizeSum(U) + SizeSum(R) BY <1>1, <1>3, <1>4, SizeUnion
<1> QED BY <1>1, <1>2, <1>3, <1>5
=============================================================================
