--------------------------- MODULE BotStateProofs ---------------------------
(***************************************************************************)
(* Lemmas about a BotState, for whoever keeps one: the sums over its lot   *)
(* book, what the operations on the book, the strategy and the executor do *)
(* to it, and what becomes of it in the tables.                            *)
(***************************************************************************)
EXTENDS DryRunExecutor, BotStateTables,
        FiniteSetTheorems, SequenceTheorems, WellFoundedInduction, TLAPS

-----------------------------------------------------------------------------
(* Sums over finite sets *)

LEMMA FiniteInduction ==
    ASSUME NEW S, IsFiniteSet(S), NEW Good,
           \A T \in SUBSET S : (\A U \in SUBSET T : U # T => U \in Good) => T \in Good
    PROVE  S \in Good
  <1> DEFINE Bad == {T \in SUBSET S : T \notin Good}
  <1>1. SUFFICES ASSUME Bad # {} PROVE FALSE
    OBVIOUS
  <1>2. IsWellFoundedOn(StrictSubsetOrdering(S), SUBSET S)
    BY FS_StrictSubsetOrderingWellFounded, FS_FiniteSubsetsOfFinite
  <1>3. PICK T \in Bad : \A U \in Bad : <<U, T>> \notin StrictSubsetOrdering(S)
    <2> HIDE DEF Bad
    <2>1. Bad \subseteq SUBSET S
      BY DEF Bad
    <2> QED
      BY <1>1, <1>2, <2>1, WFMin
  <1>4. \A U \in SUBSET T : U # T => U \in Good
    BY <1>3 DEF StrictSubsetOrdering
  <1> QED
    BY <1>3, <1>4

OneOf(s) == CHOOSE x \in s : TRUE

\* it is the sum of F over every subset of S, as MapThenSumSet computes it
IsSum(it, F, S) ==
    it = [s \in SUBSET S |-> IF s = {} THEN 0 ELSE F[OneOf(s)] + it[s \ {OneOf(s)}]]

Total(F, S) == (CHOOSE it : IsSum(it, F, S))[S]

Agree(F, G, S) == \A x \in S : F[x] = G[x]

LEMMA OneOfIsIn == ASSUME NEW S, S # {} PROVE OneOf(S) \in S
  BY DEF OneOf

LEMMA SumStep ==
    ASSUME NEW it, NEW F, NEW S, IsSum(it, F, S), NEW T \in SUBSET S
    PROVE  /\ T = {} => it[T] = 0
           /\ T # {} => it[T] = F[OneOf(T)] + it[T \ {OneOf(T)}]
  <1> DEFINE f(s) == IF s = {} THEN 0 ELSE F[OneOf(s)] + it[s \ {OneOf(s)}]
  <1>1. it = [s \in SUBSET S |-> f(s)]
    BY DEF IsSum
  <1> HIDE DEF f
  <1>2. it[T] = f(T)
    BY <1>1
  <1> QED
    BY <1>2 DEF f

LEMMA SumOfAll ==
    ASSUME NEW it, NEW F, NEW S, IsSum(it, F, S)
    PROVE  /\ S = {} => it[S] = 0
           /\ S # {} => it[S] = F[OneOf(S)] + it[S \ {OneOf(S)}]
  BY SumStep

LEMMA SumIsUnique ==
    ASSUME NEW F, NEW G, NEW S, IsFiniteSet(S), Agree(F, G, S),
           NEW it, NEW A, IsSum(it, F, A), NEW jt, NEW B, IsSum(jt, G, B),
           S \subseteq A, S \subseteq B
    PROVE  it[S] = jt[S]
  <1> DEFINE Good == {T \in SUBSET S : it[T] = jt[T]}
  <1>1. ASSUME NEW T \in SUBSET S, \A U \in SUBSET T : U # T => U \in Good
        PROVE  T \in Good
    <2>1. CASE T = {}
      BY <2>1, SumStep
    <2>2. CASE T # {}
      <3>1. OneOf(T) \in T /\ F[OneOf(T)] = G[OneOf(T)]
        BY <2>2, OneOfIsIn DEF Agree
      <3>2. it[T \ {OneOf(T)}] = jt[T \ {OneOf(T)}]
        BY <1>1, <3>1
      <3>3. it[T] = F[OneOf(T)] + it[T \ {OneOf(T)}] /\ jt[T] = G[OneOf(T)] + jt[T \ {OneOf(T)}]
        BY <2>2, SumStep
      <3> QED
        BY <3>1, <3>2, <3>3
    <2> QED
      BY <2>1, <2>2
  <1>2. S \in Good
    <2> HIDE DEF Good
    <2> QED
      BY <1>1, FiniteInduction
  <1> QED
    BY <1>2

LEMMA SumExists ==
    ASSUME NEW F, NEW S, IsFiniteSet(S)
    PROVE  \E it : IsSum(it, F, S)
  <1> DEFINE Good == {T \in SUBSET S : \E it : IsSum(it, F, T)}
             pick(T) == CHOOSE it : IsSum(it, F, T)
  <1>1. ASSUME NEW T \in SUBSET S, \A U \in SUBSET T : U # T => U \in Good
        PROVE  T \in Good
    <2> DEFINE f(s) == IF s = {} THEN 0
                       ELSE F[OneOf(s)] + pick(s \ {OneOf(s)})[s \ {OneOf(s)}]
               it == [s \in SUBSET T |-> f(s)]
    <2>1. \A U \in SUBSET T : U # T => IsSum(pick(U), F, U)
      BY <1>1
    <2> HIDE DEF pick
    <2>2. ASSUME NEW s \in SUBSET T, s # {}
          PROVE  it[s \ {OneOf(s)}] = pick(s \ {OneOf(s)})[s \ {OneOf(s)}]
      <3> DEFINE u == s \ {OneOf(s)}
      <3>1. OneOf(s) \in s /\ u \in SUBSET T /\ u # T
        BY <2>2, OneOfIsIn
      <3> HIDE DEF u
      <3>2. IsSum(pick(u), F, u) /\ it[u] = f(u) /\ u \in SUBSET u
        BY <2>1, <3>1
      <3>3. CASE u = {}
        <4>1. pick(u)[u] = 0
          BY <3>2, <3>3, SumStep
        <4> QED
          BY <3>2, <3>3, <4>1 DEF u
      <3>4. CASE u # {}
        <4> DEFINE v == u \ {OneOf(u)}
                   p == pick(u)
        <4>0. IsSum(p, F, u) /\ u \in SUBSET u
          BY <3>2
        <4> HIDE DEF p
        <4>4. p[u] = F[OneOf(u)] + p[v]
          BY <4>0, <3>4, SumOfAll
        <4>1. v \in SUBSET u /\ v \in SUBSET T /\ v # T /\ IsFiniteSet(v)
          BY <3>1, <3>4, OneOfIsIn, FS_Subset
        <4> HIDE DEF v
        <4>2. IsSum(pick(v), F, v)
          BY <2>1, <4>1
        <4>3. pick(u)[v] = pick(v)[v]
          BY <3>2, <4>1, <4>2, SumIsUnique DEF Agree
        <4>5. f(u) = F[OneOf(u)] + pick(v)[v]
          BY <3>4 DEF v
        <4> QED
          BY <3>2, <4>3, <4>4, <4>5 DEF u, p
      <3> QED
        BY <3>3, <3>4
    <2>3. it = [s \in SUBSET T |-> IF s = {} THEN 0 ELSE F[OneOf(s)] + it[s \ {OneOf(s)}]]
      <3> DEFINE g(s) == IF s = {} THEN 0 ELSE F[OneOf(s)] + it[s \ {OneOf(s)}]
      <3>1. \A s \in SUBSET T : f(s) = g(s)
        BY <2>2
      <3> HIDE DEF f, g
      <3>2. it = [s \in SUBSET T |-> g(s)]
        BY <3>1
      <3> QED
        BY <3>2 DEF g
    <2> HIDE DEF it
    <2> QED
      BY <2>3 DEF IsSum
  <1>2. S \in Good
    <2> HIDE DEF Good
    <2> QED
      BY <1>1, FiniteInduction
  <1> QED
    BY <1>2

LEMMA TotalIs ==
    ASSUME NEW F, NEW S, IsFiniteSet(S)
    PROVE  \E it : IsSum(it, F, S) /\ Total(F, S) = it[S]
  BY SumExists DEF Total

\* Any of its elements may be taken off a sum first.
LEMMA SumSplits ==
    ASSUME NEW it, NEW F, NEW S, IsFiniteSet(S), IsSum(it, F, S), \A x \in S : F[x] \in Int
    PROVE  \A T \in SUBSET S : /\ it[T] \in Int
                               /\ \A x \in T : it[T] = F[x] + it[T \ {x}]
  <1> DEFINE Good == {T \in SUBSET S : /\ it[T] \in Int
                                       /\ \A x \in T : it[T] = F[x] + it[T \ {x}]}
  <1>1. ASSUME NEW R \in SUBSET S, NEW T \in SUBSET R, 
               \A U \in SUBSET T : U # T => U \in Good
        PROVE  T \in Good
    <2>1. CASE T = {}
      BY <2>1, SumStep
    <2>2. CASE T # {}
      <3> DEFINE y == OneOf(T)
      <3>1. /\ y \in T /\ F[y] \in Int /\ it[T] = F[y] + it[T \ {y}]
        BY <2>2, OneOfIsIn, SumStep
      <3> HIDE DEF y
      <3>2. it[T \ {y}] \in Int /\ \A x \in T \ {y} : it[T \ {y}] = F[x] + it[(T \ {y}) \ {x}]
        BY <1>1, <3>1
      <3>3. ASSUME NEW x \in T, x # y PROVE it[T] = F[x] + it[T \ {x}]
        <4> DEFINE u == (T \ {y}) \ {x}
        <4>1. u = (T \ {x}) \ {y} /\ y \in T \ {x} /\ T \ {x} # T /\ u # T /\ u \in SUBSET T
          BY <3>1, <3>3
        <4>2. it[T \ {y}] = F[x] + it[u]
          BY <3>2, <3>3
        <4> HIDE DEF u
        <4>3. it[T \ {x}] = F[y] + it[u]
          BY <1>1, <4>1
        <4>4. F[x] \in Int /\ F[y] \in Int /\ it[u] \in Int
          BY <1>1, <3>1, <4>1
        <4> QED
          BY <3>1, <4>2, <4>3, <4>4
      <3>4. it[T] \in Int
        BY <3>1, <3>2
      <3> QED
        BY <3>1, <3>3, <3>4
    <2> QED
      BY <2>1, <2>2
  <1>2. ASSUME NEW R \in SUBSET S PROVE R \in Good
    <2>1. IsFiniteSet(R)
      BY FS_Subset
    <2> HIDE DEF Good
    <2>2. \A T \in SUBSET R : (\A U \in SUBSET T : U # T => U \in Good) => T \in Good
      BY <1>1
    <2> QED
      BY <2>1, <2>2, FiniteInduction
  <1> QED
    BY <1>2

LEMMA TotalIsNat ==
    ASSUME NEW F, NEW S, IsFiniteSet(S), \A x \in S : F[x] \in Nat
    PROVE  Total(F, S) \in Nat
  <1>1. PICK it : IsSum(it, F, S) /\ Total(F, S) = it[S]
    BY TotalIs
  <1> DEFINE Good == {T \in SUBSET S : it[T] \in Nat}
  <1>2. ASSUME NEW T \in SUBSET S, \A U \in SUBSET T : U # T => U \in Good
        PROVE  T \in Good
    <2>1. CASE T = {}
      <3>1. it[T] = 0
        BY <1>1, <2>1, SumStep
      <3> QED
        BY <3>1
    <2>2. CASE T # {}
      <3>1. OneOf(T) \in T /\ it[T] = F[OneOf(T)] + it[T \ {OneOf(T)}]
        BY <1>1, <2>2, OneOfIsIn, SumStep
      <3>2. F[OneOf(T)] \in Nat /\ it[T \ {OneOf(T)}] \in Nat
        BY <1>2, <3>1
      <3> QED
        BY <3>1, <3>2
    <2> QED
      BY <2>1, <2>2
  <1>3. S \in Good
    <2> HIDE DEF Good
    <2> QED
      BY <1>2, FiniteInduction
  <1> QED
    BY <1>1, <1>3

LEMMA TotalOfNone == ASSUME NEW F PROVE Total(F, {}) = 0
  <1>1. IsFiniteSet({})
    BY FS_EmptySet
  <1>2. PICK it : IsSum(it, F, {}) /\ Total(F, {}) = it[{}]
    BY <1>1, TotalIs
  <1> QED
    BY <1>2, SumOfAll

LEMMA TotalsAgree ==
    ASSUME NEW F, NEW G, NEW S, IsFiniteSet(S), Agree(F, G, S)
    PROVE  Total(F, S) = Total(G, S)
  <1>1. PICK it : IsSum(it, F, S) /\ Total(F, S) = it[S]
    BY TotalIs
  <1>2. PICK jt : IsSum(jt, G, S) /\ Total(G, S) = jt[S]
    BY TotalIs
  <1> QED
    BY <1>1, <1>2, SumIsUnique

\* S has x besides what T has
Grown(F, S, G, T, x) ==
    /\ IsFiniteSet(S) /\ \A y \in S : F[y] \in Int
    /\ x \in S /\ T = S \ {x} /\ Agree(F, G, T)

LEMMA TotalGrows ==
    ASSUME NEW F, NEW S, NEW G, NEW T, NEW x, Grown(F, S, G, T, x)
    PROVE  Total(F, S) = F[x] + Total(G, T)
  <1>0. /\ IsFiniteSet(S) /\ \A y \in S : F[y] \in Int
        /\ x \in S /\ T = S \ {x} /\ Agree(F, G, T)
    BY DEF Grown
  <1>1. PICK it : IsSum(it, F, S) /\ Total(F, S) = it[S]
    BY <1>0, TotalIs
  <1>2. IsFiniteSet(T) /\ T \subseteq S
    BY <1>0, FS_Subset
  <1>3. PICK jt : IsSum(jt, G, T) /\ Total(G, T) = jt[T]
    BY <1>2, TotalIs
  <1>4. it[T] = jt[T]
    BY <1>0, <1>1, <1>2, <1>3, SumIsUnique
  <1>5. it[S] = F[x] + it[S \ {x}]
    BY <1>0, <1>1, SumSplits
  <1> QED
    BY <1>0, <1>1, <1>3, <1>4, <1>5

-----------------------------------------------------------------------------
(* The quantity and the proceeds of a lot book *)

QtyOf(lots) == [l \in lots |-> l.qty]
ProceedsOf(lots) == [l \in lots |-> l.qty * l.entry_price]

LEMMA QuantityIsTotal ==
    ASSUME NEW lots, IsFiniteSet(lots)
    PROVE  Quantity(lots) = Total(QtyOf(lots), lots)
  <1> DEFINE Eq(it) == it = [s \in SUBSET lots |->
                                IF s = {} THEN 0
                                ELSE (CHOOSE x \in s : TRUE).qty + it[s \ {CHOOSE x \in s : TRUE}]]
             q == CHOOSE it : Eq(it)
             F == QtyOf(lots)
  <1>1. Quantity(lots) = q[lots]
    BY DEF Quantity, MapThenSumSet, MapThenFoldSet
  <1>2. \A it : Eq(it) <=> IsSum(it, F, lots)
    <2> SUFFICES ASSUME NEW it PROVE Eq(it) <=> IsSum(it, F, lots)
      OBVIOUS
    <2> DEFINE f(s) == IF s = {} THEN 0 ELSE OneOf(s).qty + it[s \ {OneOf(s)}]
               g(s) == IF s = {} THEN 0 ELSE F[OneOf(s)] + it[s \ {OneOf(s)}]
    <2>1. \A s \in SUBSET lots : f(s) = g(s)
      BY OneOfIsIn DEF QtyOf
    <2>2. Eq(it) <=> it = [s \in SUBSET lots |-> f(s)]
      BY DEF OneOf
    <2>3. IsSum(it, F, lots) <=> it = [s \in SUBSET lots |-> g(s)]
      BY DEF IsSum
    <2> HIDE DEF f, g, Eq, F
    <2>4. [s \in SUBSET lots |-> f(s)] = [s \in SUBSET lots |-> g(s)]
      BY <2>1
    <2> QED
      BY <2>2, <2>3, <2>4
  <1>3. PICK it : IsSum(it, F, lots)
    BY SumExists
  <1> HIDE DEF Eq, F
  <1>4. IsSum(q, F, lots)
    BY <1>2, <1>3
  <1>5. PICK jt : IsSum(jt, F, lots) /\ Total(F, lots) = jt[lots]
    BY TotalIs
  <1> HIDE DEF q
  <1>6. q[lots] = jt[lots]
    BY <1>4, <1>5, SumIsUnique DEF Agree
  <1> QED
    BY <1>1, <1>5, <1>6 DEF F

LEMMA ProceedsIsTotal ==
    ASSUME NEW lots, IsFiniteSet(lots)
    PROVE  Proceeds(lots) = Total(ProceedsOf(lots), lots)
  <1> DEFINE value(x) == x.qty * x.entry_price
             Eq(it) == it = [s \in SUBSET lots |->
                                IF s = {} THEN 0
                                ELSE value(CHOOSE x \in s : TRUE) + it[s \ {CHOOSE x \in s : TRUE}]]
             q == CHOOSE it : Eq(it)
             F == ProceedsOf(lots)
  <1>1. Proceeds(lots) = q[lots]
    BY DEF Proceeds, MapThenSumSet, MapThenFoldSet
  <1>2. \A it : Eq(it) <=> IsSum(it, F, lots)
    <2> SUFFICES ASSUME NEW it PROVE Eq(it) <=> IsSum(it, F, lots)
      OBVIOUS
    <2> DEFINE f(s) == IF s = {} THEN 0 ELSE value(OneOf(s)) + it[s \ {OneOf(s)}]
               g(s) == IF s = {} THEN 0 ELSE F[OneOf(s)] + it[s \ {OneOf(s)}]
    <2>1. \A s \in SUBSET lots : f(s) = g(s)
      BY OneOfIsIn DEF ProceedsOf
    <2>2. Eq(it) <=> it = [s \in SUBSET lots |-> f(s)]
      BY DEF OneOf
    <2>3. IsSum(it, F, lots) <=> it = [s \in SUBSET lots |-> g(s)]
      BY DEF IsSum
    <2> HIDE DEF f, g, Eq, F
    <2>4. [s \in SUBSET lots |-> f(s)] = [s \in SUBSET lots |-> g(s)]
      BY <2>1
    <2> QED
      BY <2>2, <2>3, <2>4
  <1>3. PICK it : IsSum(it, F, lots)
    BY SumExists
  <1> HIDE DEF Eq, F
  <1>4. IsSum(q, F, lots)
    BY <1>2, <1>3
  <1>5. PICK jt : IsSum(jt, F, lots) /\ Total(F, lots) = jt[lots]
    BY TotalIs
  <1> HIDE DEF q
  <1>6. q[lots] = jt[lots]
    BY <1>4, <1>5, SumIsUnique DEF Agree
  <1> QED
    BY <1>1, <1>5, <1>6 DEF F

\* what a sum over a book is made of
Amounts(lots) ==
    /\ IsFiniteSet(lots)
    /\ \A l \in lots : l.qty \in Nat \ {0} /\ l.entry_price \in Nat

LEMMA QuantitySplits ==
    ASSUME NEW lots, Amounts(lots)
    PROVE  /\ Quantity(lots) \in Nat
           /\ \A l \in lots : Quantity(lots) = l.qty + Quantity(lots \ {l})
           /\ Quantity(lots) = 0 <=> lots = {}
  <1>1. /\ IsFiniteSet(lots) /\ Quantity(lots) = Total(QtyOf(lots), lots)
        /\ \A l \in lots : QtyOf(lots)[l] = l.qty
    BY QuantityIsTotal DEF Amounts, QtyOf
  <1>2. \A l \in lots : QtyOf(lots)[l] \in Nat
    BY <1>1 DEF Amounts
  <1>3. Quantity(lots) \in Nat
    BY <1>1, <1>2, TotalIsNat
  <1>4. ASSUME NEW l \in lots
        PROVE  /\ Quantity(lots) = l.qty + Quantity(lots \ {l})
               /\ Quantity(lots \ {l}) \in Nat
    <2> DEFINE rest == lots \ {l}
    <2>1. /\ IsFiniteSet(rest) /\ Quantity(rest) = Total(QtyOf(rest), rest)
          /\ \A k \in rest : QtyOf(rest)[k] = k.qty
          /\ rest \subseteq lots
      <3>1. IsFiniteSet(rest)
        BY <1>1, FS_Subset
      <3> HIDE DEF rest
      <3>2. /\ Quantity(rest) = Total(QtyOf(rest), rest)
            /\ \A k \in rest : QtyOf(rest)[k] = k.qty
        BY <3>1, QuantityIsTotal DEF QtyOf
      <3> QED
        BY <3>1, <3>2 DEF rest
    <2>2. Agree(QtyOf(lots), QtyOf(rest), rest)
      BY <1>1, <2>1 DEF Agree
    <2>3. Total(QtyOf(lots), lots) = QtyOf(lots)[l] + Total(QtyOf(rest), rest)
      <3> DEFINE F == QtyOf(lots)
                 G == QtyOf(rest)
      <3>1. (\A x \in lots : F[x] \in Int) /\ Agree(F, G, rest)
        BY <1>2, <2>2
      <3>2. rest = lots \ {l} /\ IsFiniteSet(lots)
        BY <1>1
      <3> HIDE DEF F, G, rest
      <3>3. Grown(F, lots, G, rest, l)
        BY <3>1, <3>2 DEF Grown
      <3>4. Total(F, lots) = F[l] + Total(G, rest)
        BY <3>3, TotalGrows
      <3> QED
        BY <3>4 DEF F, G
    <2>4. Total(QtyOf(rest), rest) \in Nat
      <3> HIDE DEF rest
      <3>1. \A k \in rest : QtyOf(rest)[k] \in Nat
        BY <2>1, <1>1 DEF Amounts
      <3> QED
        BY <2>1, <3>1, TotalIsNat
    <2> QED
      BY <1>1, <2>1, <2>3, <2>4
  <1>5. lots = {} => Quantity(lots) = 0
    BY <1>1, TotalOfNone
  <1>6. lots # {} => Quantity(lots) # 0
    <2> SUFFICES ASSUME NEW l \in lots PROVE Quantity(lots) # 0
      OBVIOUS
    <2> DEFINE n == l.qty
               r == Quantity(lots \ {l})
    <2>1. n \in Nat /\ n # 0
      BY DEF Amounts
    <2>2. Quantity(lots) = n + r /\ r \in Nat
      BY <1>4
    <2> HIDE DEF n, r
    <2> QED
      BY <2>1, <2>2
  <1> QED
    BY <1>3, <1>4, <1>5, <1>6

LEMMA ProceedsSplits ==
    ASSUME NEW lots, Amounts(lots)
    PROVE  /\ Proceeds(lots) \in Nat
           /\ \A l \in lots : Proceeds(lots) = l.qty * l.entry_price + Proceeds(lots \ {l})
           /\ lots = {} => Proceeds(lots) = 0
  <1>1. /\ IsFiniteSet(lots) /\ Proceeds(lots) = Total(ProceedsOf(lots), lots)
        /\ \A l \in lots : ProceedsOf(lots)[l] = l.qty * l.entry_price
    BY ProceedsIsTotal DEF Amounts, ProceedsOf
  <1>2. \A l \in lots : ProceedsOf(lots)[l] \in Nat
    BY <1>1 DEF Amounts
  <1>3. Proceeds(lots) \in Nat
    BY <1>1, <1>2, TotalIsNat
  <1>4. ASSUME NEW l \in lots
        PROVE  Proceeds(lots) = l.qty * l.entry_price + Proceeds(lots \ {l})
    <2> DEFINE rest == lots \ {l}
    <2>1. IsFiniteSet(rest)
      BY <1>1, FS_Subset
    <2>2. /\ Proceeds(rest) = Total(ProceedsOf(rest), rest)
          /\ \A k \in rest : ProceedsOf(rest)[k] = k.qty * k.entry_price
      <3> HIDE DEF rest
      <3> QED
        BY <2>1, ProceedsIsTotal DEF ProceedsOf
    <2>3. Agree(ProceedsOf(lots), ProceedsOf(rest), rest)
      BY <1>1, <2>2 DEF Agree
    <2>4. Total(ProceedsOf(lots), lots) = ProceedsOf(lots)[l] + Total(ProceedsOf(rest), rest)
      <3> DEFINE F == ProceedsOf(lots)
                 G == ProceedsOf(rest)
      <3>1. (\A x \in lots : F[x] \in Int) /\ Agree(F, G, rest)
        BY <1>2, <2>3
      <3>2. rest = lots \ {l} /\ IsFiniteSet(lots)
        BY <1>1
      <3> HIDE DEF F, G, rest
      <3>3. Grown(F, lots, G, rest, l)
        BY <3>1, <3>2 DEF Grown
      <3>4. Total(F, lots) = F[l] + Total(G, rest)
        BY <3>3, TotalGrows
      <3> QED
        BY <3>4 DEF F, G
    <2> QED
      BY <1>1, <2>2, <2>4
  <1>5. lots = {} => Proceeds(lots) = 0
    BY <1>1, TotalOfNone
  <1> QED
    BY <1>3, <1>4, <1>5

-----------------------------------------------------------------------------
(* Numbers that a finite set must have *)

LEMMA LargestExists ==
    ASSUME NEW S, IsFiniteSet(S), NEW F, \A x \in S : F[x] \in Int, S # {}
    PROVE  \E x \in S : \A y \in S : F[y] <= F[x]
  <1> DEFINE Good == {T \in SUBSET S : T # {} => \E x \in T : \A y \in T : F[y] <= F[x]}
  <1>1. ASSUME NEW T \in SUBSET S, \A U \in SUBSET T : U # T => U \in Good
        PROVE  T \in Good
    <2> SUFFICES ASSUME NEW t \in T PROVE \E x \in T : \A y \in T : F[y] <= F[x]
      OBVIOUS
    <2>1. T \ {t} = {} \/ \E x \in T \ {t} : \A y \in T \ {t} : F[y] <= F[x]
      <3> DEFINE u == T \ {t}
      <3>1. u \in Good
        BY <1>1
      <3> HIDE DEF u
      <3>2. u = {} \/ \E x \in u : \A y \in u : F[y] <= F[x]
        BY <3>1
      <3> QED
        BY <3>2 DEF u
    <2>2. ASSUME NEW x \in T \ {t}, \A y \in T \ {t} : F[y] <= F[x]
          PROVE  \E z \in T : \A y \in T : F[y] <= F[z]
      <3>1. F[x] \in Int /\ F[t] \in Int /\ \A y \in T : F[y] \in Int
        OBVIOUS
      <3>2. CASE F[x] <= F[t]
        BY <2>2, <3>1, <3>2
      <3>3. CASE F[t] <= F[x]
        BY <2>2, <3>1, <3>3
      <3> QED
        BY <3>1, <3>2, <3>3
    <2>3. T \ {t} = {} => \A y \in T : F[y] <= F[t]
      OBVIOUS
    <2> QED
      BY <2>1, <2>2, <2>3
  <1>2. S \in Good
    <2> HIDE DEF Good
    <2> QED
      BY <1>1, FiniteInduction
  <1> QED
    BY <1>2

LEMMA MaxIs ==
    ASSUME NEW S, IsFiniteSet(S), S \subseteq Int, S # {}
    PROVE  Max(S) \in S /\ \A y \in S : y <= Max(S)
  <1> DEFINE F == [x \in S |-> x]
  <1>1. \E x \in S : \A y \in S : F[y] <= F[x]
    <2>1. \A x \in S : F[x] \in Int
      OBVIOUS
    <2> HIDE DEF F
    <2> QED
      BY <2>1, LargestExists
  <1>2. \E x \in S : \A y \in S : x >= y
    BY <1>1
  <1> QED
    BY <1>2 DEF Max

LEMMA MinIs ==
    ASSUME NEW S, IsFiniteSet(S), S \subseteq Int, S # {}
    PROVE  Min(S) \in S /\ \A y \in S : Min(S) <= y
  <1> DEFINE F == [x \in S |-> -x]
  <1>1. \E x \in S : \A y \in S : F[y] <= F[x]
    <2>1. \A x \in S : F[x] \in Int
      OBVIOUS
    <2> HIDE DEF F
    <2> QED
      BY <2>1, LargestExists
  <1>2. \E x \in S : \A y \in S : x <= y
    <2>1. PICK x \in S : \A y \in S : F[y] <= F[x]
      BY <1>1
    <2>2. \A y \in S : x <= y
      BY <2>1
    <2> QED
      BY <2>2
  <1> QED
    BY <1>2 DEF Min

LEMMA ImageIsFinite ==
    ASSUME NEW S, IsFiniteSet(S), NEW F
    PROVE  LET T == {F[x] : x \in S} IN
           IsFiniteSet(T) /\ Cardinality(T) <= Cardinality(S)
  <1> DEFINE T == {F[x] : x \in S}
             f == [x \in S |-> F[x]]
  <1>1. f \in Surjection(S, T)
    BY DEF Surjection
  <1> HIDE DEF T, f
  <1>2. IsFiniteSet(T) /\ Cardinality(T) <= Cardinality(S)
    BY <1>1, FS_Surjection
  <1> QED
    BY <1>2 DEF T

-----------------------------------------------------------------------------
(* The lot book.  Its lots have ids and open_sequences of their own. *)

Distinct(lots) ==
    /\ \A k, l \in lots : k.id = l.id => k = l
    /\ \A k, l \in lots : k.open_sequence = l.open_sequence => k = l

LotBook(lots, Ids) == lots \subseteq Lot(Ids) /\ IsFiniteSet(lots) /\ Distinct(lots)

LEMMA BookHasAmounts == \A lots, Ids : LotBook(lots, Ids) => Amounts(lots)
  BY DEF LotBook, Lot, Amounts

LEMMA LastLotIs ==
    ASSUME NEW st, NEW Ids, LotBook(st.lots, Ids), st.lots # {}
    PROVE  /\ get_last_lot(st) \in st.lots
           /\ \A k \in st.lots : k.open_sequence <= get_last_lot(st).open_sequence
           /\ \A k \in st.lots \ {get_last_lot(st)} :
                  k.open_sequence < get_last_lot(st).open_sequence
  <1> DEFINE F == [l \in st.lots |-> l.open_sequence]
  <1>1. \A l \in st.lots : l.open_sequence \in Nat /\ F[l] = l.open_sequence
    BY DEF LotBook, Lot
  <1>2. \E l \in st.lots : \A k \in st.lots : F[k] <= F[l]
    <2> HIDE DEF F
    <2>1. (\A l \in st.lots : F[l] \in Int) /\ IsFiniteSet(st.lots)
      BY <1>1 DEF LotBook
    <2> QED
      BY <2>1, LargestExists
  <1>3. \E l \in st.lots : \A k \in st.lots : k.open_sequence <= l.open_sequence
    BY <1>1, <1>2
  <1>4. /\ get_last_lot(st) \in st.lots
        /\ \A k \in st.lots : k.open_sequence <= get_last_lot(st).open_sequence
    BY <1>3 DEF get_last_lot
  <1>5. \A k \in st.lots : k.open_sequence = get_last_lot(st).open_sequence
                              => k = get_last_lot(st)
    BY <1>4 DEF LotBook, Distinct
  <1> DEFINE last == get_last_lot(st)
  <1> HIDE DEF last
  <1>6. ASSUME NEW k \in st.lots \ {last} PROVE k.open_sequence < last.open_sequence
    <2>1. /\ k.open_sequence \in Nat /\ last.open_sequence \in Nat
          /\ k.open_sequence <= last.open_sequence /\ k.open_sequence # last.open_sequence
      BY <1>1, <1>4, <1>5 DEF last
    <2> QED
      BY <2>1
  <1> QED
    BY <1>4, <1>6 DEF last

LEMMA NextSequenceIsNew ==
    ASSUME NEW lots, NEW Ids, LotBook(lots, Ids)
    PROVE  /\ next_open_sequence(lots) \in Nat
           /\ \A l \in lots : l.open_sequence < next_open_sequence(lots)
  <1> DEFINE F == [l \in lots |-> l.open_sequence]
             S == {F[l] : l \in lots}
  <1>1. S = {l.open_sequence : l \in lots} /\ S \subseteq Nat
    BY DEF LotBook, Lot
  <1>2. IsFiniteSet(S)
    <2> HIDE DEF F
    <2> QED
      BY ImageIsFinite DEF LotBook
  <1>3. lots # {} => S # {}
    OBVIOUS
  <1>4. \A l \in lots : l.open_sequence \in S
    OBVIOUS
  <1> HIDE DEF S
  <1>5. CASE lots = {}
    BY <1>5 DEF next_open_sequence
  <1>6. CASE lots # {}
    <2>1. Max(S) \in S /\ \A y \in S : y <= Max(S)
      <3>1. S \subseteq Int /\ S # {}
        BY <1>1, <1>3, <1>6
      <3> QED
        BY <1>2, <3>1, MaxIs
    <2>2. next_open_sequence(lots) = Max(S) + 1
      BY <1>1, <1>6 DEF next_open_sequence
    <2>3. Max(S) \in Nat /\ \A y \in S : y \in Int
      BY <1>1, <2>1
    <2> QED
      BY <1>4, <2>1, <2>2, <2>3
  <1> QED
    BY <1>5, <1>6

-----------------------------------------------------------------------------
(* A state that its book accounts for, and the operations on it *)

TrailingHasMin(st) == st.trailing_active => st.trailing_min # None

Bookable(st, Ids) ==
    st \in BotState(Ids) /\ LotBook(st.lots, Ids) /\ TrailingHasMin(st)

Booked(st, Ids) ==
    /\ Bookable(st, Ids)
    /\ st.pos_size_abs = Quantity(st.lots)
    /\ st.pos_proceeds_usdt = Proceeds(st.lots)

\* what the book has no part in
SameCycle(s, st) == s.num_sells = st.num_sells /\ s.cycle_base_qty = st.cycle_base_qty

SameRest(s, st) ==
    /\ s.trailing_active = st.trailing_active
    /\ s.trailing_min = st.trailing_min
    /\ s.orders_last_3min = st.orders_last_3min
    /\ s.fills_this_bar = st.fills_this_bar
    /\ s.subcovers_this_bar = st.subcovers_this_bar
    /\ s.last_candle_time = st.last_candle_time
    /\ s.safe_stop_active = st.safe_stop_active

LevelAfter(s, st, next_level) ==
    s.next_level_price = IF s.lots = {} THEN None
                         ELSE IF next_level # None THEN next_level ELSE st.next_level_price

\* A state that its book accounts for passes the checks of engine and risk manager.
LEMMA BookedIsValid ==
    ASSUME NEW st, NEW Ids, Booked(st, Ids)
    PROVE  /\ ~InvalidState(st)
           /\ st.pos_size_abs = 0 <=> st.lots = {}
           /\ st.lots = {} => st.pos_proceeds_usdt = 0
  <1>1. Amounts(st.lots)
    BY BookHasAmounts DEF Booked, Bookable
  <1>2. /\ Quantity(st.lots) \in Nat /\ (Quantity(st.lots) = 0 <=> st.lots = {})
        /\ st.lots = {} => Proceeds(st.lots) = 0
    BY <1>1, QuantitySplits, ProceedsSplits
  <1> QED
    BY <1>2 DEF Booked, Bookable, TrailingHasMin, InvalidState

LEMMA CleanStateIsBooked == \A Ids : Booked(CleanState, Ids)
  <1> SUFFICES ASSUME NEW Ids PROVE Booked(CleanState, Ids)
    OBVIOUS
  <1>1. CleanState \in BotState(Ids)
    BY DEF CleanState, BotState, Optional
  <1>2. IsFiniteSet({}) /\ Amounts({})
    BY FS_EmptySet DEF Amounts
  <1>3. Quantity({}) = 0 /\ Proceeds({}) = 0
    BY <1>2, QuantitySplits, ProceedsSplits
  <1> QED
    BY <1>1, <1>2, <1>3
    DEF Booked, Bookable, LotBook, Distinct, TrailingHasMin, CleanState

LEMMA RecalculatedIsBooked ==
    ASSUME NEW st, NEW Ids, Bookable(st, Ids), NEW p \in Nat, NEW lvl \in Optional(Nat)
    PROVE  LET s == recalculate_position_fields(st, p, lvl) IN
           /\ Booked(s, Ids) /\ s.lots = st.lots /\ SameRest(s, st) /\ SameCycle(s, st)
           /\ LevelAfter(s, st, lvl)
  <1> DEFINE s == recalculate_position_fields(st, p, lvl)
             q == Quantity(st.lots)
             v == Proceeds(st.lots)
  <1>1. q \in Nat /\ v \in Nat /\ (q = 0 <=> st.lots = {})
    BY BookHasAmounts, QuantitySplits, ProceedsSplits DEF Bookable
  <1>2. s = [st EXCEPT !.pos_size_abs = q, !.pos_proceeds_usdt = v, !.last_fill_price = p,
                       !.next_level_price = IF q = 0 THEN None
                                            ELSE IF lvl # None THEN lvl ELSE @]
    BY DEF recalculate_position_fields
  <1> HIDE DEF s, q, v
  <1>3. /\ st \in BotState(Ids)
        /\ p \in Optional(Nat) /\ None \in Optional(Nat)
    BY DEF Bookable, Optional
  <1>4. s \in BotState(Ids)
    BY <1>1, <1>2, <1>3 DEF BotState
  <1>5. /\ s.lots = st.lots /\ SameRest(s, st) /\ SameCycle(s, st)
        /\ s.pos_size_abs = q /\ s.pos_proceeds_usdt = v
        /\ s.next_level_price = IF q = 0 THEN None
                                ELSE IF lvl # None THEN lvl ELSE st.next_level_price
    BY <1>2, <1>3 DEF BotState, SameRest, SameCycle
  <1>6. Booked(s, Ids)
    BY <1>4, <1>5 DEF Booked, Bookable, TrailingHasMin, SameRest, q, v
  <1> QED
    BY <1>1, <1>5, <1>6 DEF LevelAfter, s

LEMMA AddedLotIsBooked ==
    ASSUME NEW st, NEW Ids, Bookable(st, Ids), NEW id \in Ids, \A l \in st.lots : l.id # id,
           NEW qty \in Nat \ {0}, NEW p \in Nat, NEW lvl \in Optional(Nat)
    PROVE  LET s == add_short_lot(st, id, qty, p, lvl)
               lot == [id |-> id, qty |-> qty, entry_price |-> p,
                       open_sequence |-> next_open_sequence(st.lots)]
           IN  /\ Booked(s, Ids) /\ LevelAfter(s, st, lvl)
               /\ s.lots = st.lots \cup {lot} /\ lot \notin st.lots
               /\ SameRest(s, st) /\ s.num_sells = st.num_sells + 1
  <1> DEFINE lot == [id |-> id, qty |-> qty, entry_price |-> p,
                     open_sequence |-> next_open_sequence(st.lots)]
             b == BookLot(st, lot)
             s == add_short_lot(st, id, qty, p, lvl)
  <1>1. /\ st \in BotState(Ids) /\ LotBook(st.lots, Ids) /\ TrailingHasMin(st)
        /\ next_open_sequence(st.lots) \in Nat
        /\ \A l \in st.lots : l.open_sequence < next_open_sequence(st.lots)
        /\ \A l \in st.lots : l.open_sequence \in Nat
    BY NextSequenceIsNew DEF Bookable, LotBook, Lot
  <1>2. lot \in Lot(Ids) /\ lot.id = id /\ lot.qty = qty
    BY <1>1 DEF Lot
  <1>3. /\ lot \notin st.lots
        /\ \A l \in st.lots : l.id # lot.id /\ l.open_sequence # lot.open_sequence
    BY <1>1
  <1>4. s = recalculate_position_fields(b, p, lvl)
    BY DEF add_short_lot
  <1> HIDE DEF lot, s
  <1>5. LotBook(st.lots \cup {lot}, Ids)
    <2>1. IsFiniteSet(st.lots \cup {lot})
      BY <1>1, FS_AddElement DEF LotBook
    <2>2. Distinct(st.lots \cup {lot})
      BY <1>1, <1>3 DEF LotBook, Distinct
    <2> QED
      BY <1>1, <1>2, <2>1, <2>2 DEF LotBook
  <1>6. st.lots \cup {lot} \in SUBSET Lot(Ids)
    BY <1>5 DEF LotBook
  <1>7. /\ b \in BotState(Ids) /\ b.lots = st.lots \cup {lot}
        /\ SameRest(b, st) /\ b.num_sells = st.num_sells + 1
        /\ b.next_level_price = st.next_level_price
        /\ b.trailing_active = st.trailing_active /\ b.trailing_min = st.trailing_min
    <2> DEFINE c == IF st.cycle_base_qty = 0 THEN qty ELSE st.cycle_base_qty
    <2>1. b = [st EXCEPT !.lots = st.lots \cup {lot}, !.num_sells = st.num_sells + 1,
                         !.cycle_base_qty = c]
      BY <1>1, <1>2 DEF BookLot, BotState
    <2>2. st.num_sells + 1 \in Nat /\ c \in Nat
      BY <1>1 DEF BotState
    <2> HIDE DEF b, c
    <2>3. b \in BotState(Ids)
      BY <1>1, <1>6, <2>1, <2>2 DEF BotState, c
    <2>4. b.lots = st.lots \cup {lot} /\ SameRest(b, st)
      BY <1>1, <2>1 DEF BotState, SameRest
    <2>5. /\ b.num_sells = st.num_sells + 1 /\ b.next_level_price = st.next_level_price
          /\ b.trailing_active = st.trailing_active /\ b.trailing_min = st.trailing_min
      BY <1>1, <2>1 DEF BotState
    <2> QED
      BY <2>3, <2>4, <2>5
  <1> HIDE DEF b
  <1>8. Bookable(b, Ids)
    BY <1>1, <1>5, <1>7 DEF Bookable, TrailingHasMin
  <1>9. Booked(s, Ids) /\ s.lots = b.lots /\ SameRest(s, b) /\ SameCycle(s, b)
        /\ LevelAfter(s, b, lvl)
    BY <1>4, <1>8, RecalculatedIsBooked
  <1> QED
    BY <1>3, <1>7, <1>9 DEF LevelAfter, SameRest, SameCycle, lot, s

\* The newest lot is closed, or what is left of it keeps its place.
LEMMA ClosedLotIsBooked ==
    ASSUME NEW st, NEW Ids, Bookable(st, Ids), NEW qty \in Nat, CanCloseLastLot(st, qty),
           NEW p \in Nat
    PROVE  LET s == close_last_lot(st, qty, p)
               last == get_last_lot(st)
           IN  /\ Booked(s, Ids) /\ LevelAfter(s, st, None)
               /\ SameRest(s, st) /\ SameCycle(s, st)
               /\ last \in st.lots
               /\ s.lots = (st.lots \ {last}) \cup
                               (IF qty = last.qty THEN {} ELSE {[last EXCEPT !.qty = @ - qty]})
  <1> DEFINE s == close_last_lot(st, qty, p)
             last == get_last_lot(st)
             left == [last EXCEPT !.qty = @ - qty]
             rest == IF qty = last.qty THEN {} ELSE {left}
             lots == (st.lots \ {last}) \cup rest
             r == [st EXCEPT !.lots = lots]
  <1>1. /\ st \in BotState(Ids) /\ LotBook(st.lots, Ids) /\ TrailingHasMin(st)
        /\ last \in st.lots
    BY LastLotIs DEF Bookable, CanCloseLastLot
  <1>2. qty > 0 /\ qty <= last.qty
    BY DEF CanCloseLastLot
  <1> HIDE DEF last
  <1>3. last \in Lot(Ids)
    BY <1>1 DEF LotBook
  <1>4. /\ qty # last.qty => left \in Lot(Ids)
        /\ left.id = last.id /\ left.open_sequence = last.open_sequence
    BY <1>2, <1>3 DEF Lot
  <1> HIDE DEF left
  <1>5. {l \in st.lots : l.id # last.id} = st.lots \ {last}
    BY <1>1 DEF LotBook, Distinct
  <1>6. s = recalculate_position_fields(r, p, None)
    BY <1>5 DEF close_last_lot, left, last
  <1>7. lots \in SUBSET Lot(Ids)
    BY <1>1, <1>4 DEF LotBook
  <1>8. IsFiniteSet(lots)
    <2>1. IsFiniteSet(st.lots \ {last})
      BY <1>1, FS_RemoveElement DEF LotBook
    <2>2. IsFiniteSet((st.lots \ {last}) \cup {left})
      BY <2>1, FS_AddElement
    <2>3. (st.lots \ {last}) \cup {} = st.lots \ {last}
      OBVIOUS
    <2> QED
      BY <2>1, <2>2, <2>3
  <1>9. Distinct(lots)
    BY <1>1, <1>4 DEF LotBook, Distinct
  <1> HIDE DEF lots, s
  <1>10. /\ r \in BotState(Ids) /\ r.lots = lots /\ SameRest(r, st) /\ SameCycle(r, st)
         /\ r.next_level_price = st.next_level_price
    BY <1>1, <1>7 DEF BotState, SameRest, SameCycle
  <1> HIDE DEF r
  <1>11. Bookable(r, Ids)
    BY <1>1, <1>7, <1>8, <1>9, <1>10 DEF Bookable, LotBook, TrailingHasMin, SameRest
  <1>12. /\ Booked(s, Ids) /\ s.lots = lots /\ SameRest(s, r) /\ SameCycle(s, r)
         /\ LevelAfter(s, r, None)
    <2>1. None \in Optional(Nat)
      BY DEF Optional
    <2> QED
      BY <1>6, <1>10, <1>11, <2>1, RecalculatedIsBooked
  <1>13. s.lots = lots /\ SameRest(s, st) /\ SameCycle(s, st) /\ LevelAfter(s, st, None)
    BY <1>10, <1>12 DEF SameRest, SameCycle, LevelAfter
  <1> QED
    BY <1>1, <1>12, <1>13 DEF lots, left, last, s

LEMMA ResetIsBooked ==
    ASSUME NEW st, NEW Ids, Bookable(st, Ids), NEW p \in Nat
    PROVE  LET s == reset_cycle(close_all(st, p)) IN
           /\ Booked(s, Ids) /\ s.lots = {} /\ s.next_level_price = None
           /\ s.num_sells = 0 /\ s.orders_last_3min = st.orders_last_3min
           /\ s.last_candle_time = st.last_candle_time
           /\ s.safe_stop_active = st.safe_stop_active
           /\ s.cycle_base_qty = 0 /\ s.trailing_active = FALSE
  <1> DEFINE r == [st EXCEPT !.lots = {}]
             c == close_all(st, p)
             s == reset_cycle(c)
  <1>1. IsFiniteSet({}) /\ Amounts({})
    BY FS_EmptySet DEF Amounts
  <1>2. LotBook({}, Ids) /\ Quantity({}) = 0 /\ Proceeds({}) = 0
    BY <1>1, QuantitySplits, ProceedsSplits DEF LotBook, Distinct
  <1>3. r \in BotState(Ids) /\ r.lots = {} /\ SameRest(r, st)
    BY DEF Bookable, BotState, SameRest
  <1>4. Bookable(r, Ids)
    BY <1>2, <1>3 DEF Bookable, TrailingHasMin, SameRest
  <1>5. Booked(c, Ids) /\ SameRest(c, r)
    <2>1. c = recalculate_position_fields(r, p, None)
      BY DEF close_all
    <2> HIDE DEF c, r
    <2> QED
      BY <1>4, <2>1, RecalculatedIsBooked DEF Optional
  <1> HIDE DEF c
  <1>6. c \in BotState(Ids)
    BY <1>5 DEF Booked, Bookable
  <1>7. /\ s \in BotState(Ids) /\ s.lots = {} /\ s.pos_size_abs = 0
        /\ s.pos_proceeds_usdt = 0 /\ s.next_level_price = None /\ s.num_sells = 0
        /\ s.orders_last_3min = c.orders_last_3min
        /\ s.last_candle_time = c.last_candle_time
        /\ s.safe_stop_active = c.safe_stop_active
        /\ s.cycle_base_qty = 0 /\ s.trailing_active = FALSE
    BY <1>6 DEF reset_cycle, BotState, Optional
  <1> HIDE DEF s
  <1>8. Booked(s, Ids)
    BY <1>2, <1>7 DEF Booked, Bookable, TrailingHasMin
  <1> QED
    BY <1>3, <1>5, <1>7, <1>8 DEF SameRest, s, c

-----------------------------------------------------------------------------
(* The book in order *)

Below(lots, l) == {k \in lots : k.open_sequence < l.open_sequence}
Amount(l) == [qty |-> l.qty, entry_price |-> l.entry_price]

\* the lot in the i-th place
InPlace(lots, i) == CHOOSE l \in lots : Cardinality(Below(lots, l)) = i - 1

LEMMA BookIs ==
    \A lots : Book(lots) = [i \in 1 .. Cardinality(lots) |-> Amount(InPlace(lots, i))]
  BY DEF Book, InPlace, Below, Amount

LEMMA BookIsSeq ==
    ASSUME NEW lots, IsFiniteSet(lots)
    PROVE  /\ \E S : Book(lots) \in Seq(S)
           /\ Len(Book(lots)) = Cardinality(lots)
           /\ DOMAIN Book(lots) = 1 .. Cardinality(lots)
  <1> DEFINE n == Cardinality(lots)
             S == {Amount(InPlace(lots, i)) : i \in 1 .. n}
  <1>1. n \in Nat
    BY FS_CardinalityType
  <1>2. Book(lots) \in [1 .. n -> S]
    BY BookIs
  <1> HIDE DEF n, S
  <1>3. Book(lots) \in Seq(S)
    BY <1>1, <1>2, SeqDef
  <1> QED
    BY <1>1, <1>2, <1>3, LenProperties DEF n

LEMMA EmptyBook == Book({}) = <<>>
  <1>1. IsFiniteSet({}) /\ Cardinality({}) = 0
    BY FS_EmptySet
  <1>2. PICK S : Book({}) \in Seq(S) /\ Len(Book({})) = 0
    BY <1>1, BookIsSeq
  <1> QED
    BY <1>2, EmptySeq

\* A lot opened after all the others is on top of them.
LEMMA NewestIsOnTop ==
    ASSUME NEW lots, IsFiniteSet(lots), NEW t, t \notin lots, t.open_sequence \in Int,
           \A l \in lots : l.open_sequence \in Int /\ l.open_sequence < t.open_sequence
    PROVE  Book(lots \cup {t}) = Append(Book(lots), Amount(t))
  <1> DEFINE n == Cardinality(lots)
             all == lots \cup {t}
  <1>1. n \in Nat /\ IsFiniteSet(all) /\ Cardinality(all) = n + 1
    BY FS_CardinalityType, FS_AddElement
  <1>2. ASSUME NEW l \in lots
        PROVE  Below(all, l) = Below(lots, l) /\ Cardinality(Below(lots, l)) \in 0 .. n - 1
    <2>1. Below(all, l) = Below(lots, l)
      BY DEF Below
    <2>2. Below(lots, l) \subseteq lots \ {l}
      BY DEF Below
    <2>3. IsFiniteSet(lots \ {l}) /\ Cardinality(lots \ {l}) = n - 1
      BY FS_RemoveElement
    <2>4. Cardinality(Below(lots, l)) <= n - 1 /\ Cardinality(Below(lots, l)) \in Nat
      <3> DEFINE b == Below(lots, l)
                 o == lots \ {l}
      <3> HIDE DEF b, o
      <3>1. b \in SUBSET o /\ IsFiniteSet(o)
        BY <2>2, <2>3 DEF b, o
      <3>2. IsFiniteSet(b) /\ Cardinality(b) <= Cardinality(o) /\ Cardinality(b) \in Nat
        BY <3>1, FS_Subset, FS_CardinalityType
      <3> QED
        BY <2>3, <3>2 DEF b, o
    <2> QED
      BY <1>1, <2>1, <2>4
  <1>3. Below(all, t) = lots
    <2>1. ~(t.open_sequence < t.open_sequence)
      OBVIOUS
    <2> QED
      BY <2>1 DEF Below
  <1>4. ASSUME NEW i \in 1 .. n PROVE InPlace(all, i) = InPlace(lots, i)
    <2>1. \A l : l \in all /\ Cardinality(Below(all, l)) = i - 1
             <=> l \in lots /\ Cardinality(Below(lots, l)) = i - 1
      <3>1. Cardinality(Below(all, t)) = n /\ n # i - 1
        BY <1>1, <1>3
      <3>2. \A l \in lots : Below(all, l) = Below(lots, l)
        BY <1>2
      <3> QED
        BY <3>1, <3>2
    <2> QED
      BY <2>1 DEF InPlace
  <1>5. InPlace(all, n + 1) = t
    <2>1. \A l \in all : Cardinality(Below(all, l)) = n <=> l = t
      BY <1>1, <1>2, <1>3
    <2> QED
      BY <1>1, <2>1 DEF InPlace
  <1> HIDE DEF all
  <1>6. PICK S : Book(lots) \in Seq(S)
    BY BookIsSeq
  <1> DEFINE T == S \cup {Amount(t)}
             a == Append(Book(lots), Amount(t))
  <1>7. Book(lots) \in Seq(T)
    BY <1>6, SeqMonotonic
  <1>8. /\ a \in Seq(T) /\ Len(a) = n + 1 /\ a[n + 1] = Amount(t)
        /\ \A i \in 1 .. n : a[i] = Book(lots)[i]
    BY <1>7, BookIsSeq, AppendProperties
  <1> HIDE DEF a, T
  <1>9. \A i \in 1 .. n : Book(lots)[i] = Amount(InPlace(lots, i))
    BY BookIs
  <1>10. /\ Book(all) = [i \in 1 .. n + 1 |-> Amount(InPlace(all, i))]
    BY <1>1, BookIs
  <1>11. a = [i \in 1 .. n + 1 |-> a[i]]
    BY <1>8, LenProperties
  <1>12. \A i \in 1 .. n + 1 : a[i] = Amount(InPlace(all, i))
    BY <1>1, <1>4, <1>5, <1>8, <1>9
  <1> QED
    BY <1>10, <1>11, <1>12 DEF a, all

LEMMA AppendedTo ==
    ASSUME NEW s, NEW S, s \in Seq(S), NEW x
    PROVE  LET a == Append(s, x) IN
           /\ Len(a) = Len(s) + 1 /\ a # <<>> /\ a[Len(a)] = x
           /\ SubSeq(a, 1, Len(s)) = s
  <1> DEFINE T == S \cup {x}
             a == Append(s, x)
             b == SubSeq(a, 1, Len(s))
  <1>1. s \in Seq(T) /\ x \in T
    BY SeqMonotonic
  <1> HIDE DEF T
  <1>2. /\ a \in Seq(T) /\ Len(a) = Len(s) + 1 /\ a # <<>> /\ a[Len(s) + 1] = x
        /\ \A i \in 1 .. Len(s) : a[i] = s[i]
    BY <1>1, AppendProperties
  <1>3. Len(s) \in Nat /\ \A i \in 1 .. Len(s) : s[i] \in T
    BY <1>1, LenProperties, ElementOfSeq
  <1> HIDE DEF a
  <1>4. /\ b \in Seq(T) /\ Len(b) = Len(s)
        /\ \A i \in 1 .. Len(s) : b[i] = a[i]
    <2>1. \A i \in 1 .. Len(s) : a[i] \in T
      BY <1>2, <1>3
    <2>2. /\ b \in Seq(T) /\ Len(b) = (IF 1 <= Len(s) THEN Len(s) - 1 + 1 ELSE 0)
          /\ \A i \in 1 .. Len(s) - 1 + 1 : b[i] = a[1 + i - 1]
      BY <1>3, <2>1, SubSeqProperties
    <2> HIDE DEF b
    <2> QED
      BY <1>3, <2>2
  <1> HIDE DEF b
  <1>5. b = s
    BY <1>1, <1>2, <1>4, SeqEqual
  <1> QED
    BY <1>2, <1>5 DEF a, b

\* What the book is, as a stack, once a lot is on top of it.
LEMMA BookWithOneMore ==
    ASSUME NEW lots, NEW Ids, LotBook(lots, Ids), NEW lot, lot \notin lots,
           lot.open_sequence \in Nat, \A l \in lots : l.open_sequence < lot.open_sequence
    PROVE  LET b == Book(lots \cup {lot}) IN
           /\ Len(b) = Len(Book(lots)) + 1
           /\ SubSeq(b, 1, Len(Book(lots))) = Book(lots)
           /\ b[Len(b)] = Amount(lot)
  <1>1. IsFiniteSet(lots) /\ \A l \in lots : l.open_sequence \in Nat
    BY DEF LotBook, Lot
  <1>2. Book(lots \cup {lot}) = Append(Book(lots), Amount(lot))
    BY <1>1, NewestIsOnTop
  <1>3. PICK S : Book(lots) \in Seq(S)
    BY <1>1, BookIsSeq
  <1> QED
    BY <1>2, <1>3, AppendedTo

\* What it is once its newest lot is gone, or is there with another quantity.
LEMMA BookWithoutTop ==
    ASSUME NEW lots, NEW Ids, LotBook(lots, Ids), NEW last \in lots,
           \A k \in lots \ {last} : k.open_sequence < last.open_sequence, NEW q
    PROVE  LET b == Book(lots)
               below == SubSeq(b, 1, Len(b) - 1)
           IN  /\ b # <<>> /\ b[Len(b)] = Amount(last)
               /\ Book(lots \ {last}) = below
               /\ Book((lots \ {last}) \cup {[last EXCEPT !.qty = q]})
                      = Append(below, [Amount(last) EXCEPT !.qty = q])
  <1>0. IsFiniteSet(lots) /\ \A l \in lots : l \in Lot(Ids) /\ l.open_sequence \in Nat
    BY DEF LotBook, Lot
  <1> DEFINE rest == lots \ {last}
             b == Book(lots)
  <1>1. /\ IsFiniteSet(rest) /\ last \notin rest /\ rest \cup {last} = lots
        /\ \A k \in rest : k.open_sequence \in Nat /\ k.open_sequence < last.open_sequence
        /\ last.open_sequence \in Nat
    BY <1>0, FS_RemoveElement
  <1> HIDE DEF rest
  <1>2. b = Append(Book(rest), Amount(last))
    BY <1>1, NewestIsOnTop
  <1>3. PICK S : Book(rest) \in Seq(S)
    BY <1>1, BookIsSeq
  <1>4. /\ Len(b) = Len(Book(rest)) + 1 /\ b # <<>> /\ b[Len(b)] = Amount(last)
        /\ SubSeq(b, 1, Len(Book(rest))) = Book(rest) /\ Len(Book(rest)) \in Nat
    BY <1>2, <1>3, AppendedTo, LenProperties
  <1>5. Book(rest) = SubSeq(b, 1, Len(b) - 1)
    BY <1>4
  <1>6. Book(rest \cup {[last EXCEPT !.qty = q]})
           = Append(Book(rest), [Amount(last) EXCEPT !.qty = q])
    <2> DEFINE left == [last EXCEPT !.qty = q]
    <2>1. /\ left.open_sequence = last.open_sequence
          /\ Amount(left) = [Amount(last) EXCEPT !.qty = q]
      BY <1>0 DEF Lot, Amount
    <2> HIDE DEF left
    <2>2. left \notin rest
      <3>1. last.open_sequence \in Nat /\ left.open_sequence = last.open_sequence
        BY <1>1, <2>1
      <3>2. left \in rest => left.open_sequence < last.open_sequence
        BY <1>1
      <3> QED
        BY <3>1, <3>2
    <2>3. Book(rest \cup {left}) = Append(Book(rest), Amount(left))
      BY <1>1, <2>1, <2>2, NewestIsOnTop
    <2> QED
      BY <2>1, <2>3 DEF left
  <1> QED
    BY <1>4, <1>5, <1>6 DEF rest

-----------------------------------------------------------------------------
(* The tables *)

StorableState(st, Ids) == st \in BotState(Ids) /\ Storable(st)

\* ORDER BY leaves what is in order as it is.
LEMMA InOrderKeepsOrder ==
    ASSUME NEW times \in Seq(Nat), Chronological(times)
    PROVE  InOrder(times) = times
  <1> DEFINE D == DOMAIN times
             Earlier(v) == {j \in D : times[j] < v}
             NotLater(v) == {j \in D : times[j] <= v}
             V == {times[j] : j \in D}
             Fits(i, v) == i \in Cardinality(Earlier(v)) + 1 .. Cardinality(NotLater(v))
  <1>1. D = 1 .. Len(times) /\ Len(times) \in Nat /\ V \subseteq Nat
    OBVIOUS
  <1>2. IsFiniteSet(D) /\ D \subseteq Nat
    BY <1>1, FS_Interval
  <1>3. ASSUME NEW v
        PROVE  /\ IsFiniteSet(Earlier(v)) /\ IsFiniteSet(NotLater(v))
               /\ Cardinality(Earlier(v)) \in Nat /\ Cardinality(NotLater(v)) \in Nat
    <2>1. Earlier(v) \in SUBSET D /\ NotLater(v) \in SUBSET D
      OBVIOUS
    <2>2. IsFiniteSet(Earlier(v)) /\ IsFiniteSet(NotLater(v))
      BY <1>2, <2>1, FS_Subset
    <2> QED
      BY <2>2, FS_CardinalityType
  <1>4. ASSUME NEW i \in D
        PROVE  Fits(i, times[i])
    <2>0. i \in Nat \ {0} /\ i <= Len(times) /\ times[i] \in Nat
      BY <1>1
    <2>1. Earlier(times[i]) \subseteq 1 .. (i - 1) /\ 1 .. i \subseteq NotLater(times[i])
      <3>1. ASSUME NEW j \in D, times[j] < times[i] PROVE j \in 1 .. (i - 1)
        <4>1. j \in Nat \ {0} /\ times[j] \in Nat /\ (i < j => times[i] <= times[j])
          BY <1>1 DEF Chronological
        <4> QED
          BY <2>0, <3>1, <4>1
      <3>2. ASSUME NEW j \in 1 .. i PROVE j \in D /\ times[j] <= times[i]
        <4>1. j \in D /\ times[j] \in Nat
          BY <1>1, <2>0
        <4>2. j < i => times[j] <= times[i]
          BY <4>1 DEF Chronological
        <4> QED
          BY <2>0, <4>1, <4>2
      <3> QED
        BY <3>1, <3>2
    <2>2. /\ IsFiniteSet(1 .. i - 1) /\ Cardinality(1 .. i - 1) = i - 1
          /\ IsFiniteSet(1 .. i) /\ Cardinality(1 .. i) = i
      <3>1. 1 \in Int /\ i \in Int /\ i - 1 \in Int
        BY <2>0
      <3>2. IsFiniteSet(1 .. i - 1) /\ IsFiniteSet(1 .. i)
        BY <3>1, FS_Interval
      <3>3. Cardinality(1 .. i - 1) = i - 1
        <4>1. PICK n \in Int : n = i - 1
          BY <3>1
        <4>2. Cardinality(1 .. n) = IF 1 > n THEN 0 ELSE n - 1 + 1
          BY FS_Interval
        <4> QED
          BY <2>0, <4>1, <4>2
      <3>4. Cardinality(1 .. i) = i
        BY <2>0, <3>1, FS_Interval
      <3> QED
        BY <3>2, <3>3, <3>4
    <2>3. Cardinality(Earlier(times[i])) <= i - 1
      <3>1. Cardinality(Earlier(times[i])) <= Cardinality(1 .. (i - 1))
        BY <2>1, <2>2, FS_Subset
      <3> QED
        BY <3>1, <2>2
    <2>4. i <= Cardinality(NotLater(times[i]))
      <3>1. Cardinality(1 .. i) <= Cardinality(NotLater(times[i]))
        BY <2>1, <1>3, FS_Subset
      <3> QED
        BY <3>1, <2>2
    <2> QED
      <3>1. Cardinality(Earlier(times[i])) \in Nat /\ Cardinality(NotLater(times[i])) \in Nat
        BY <1>3
      <3> HIDE DEF Earlier, NotLater
      <3> QED
        BY <2>0, <2>3, <2>4, <3>1
  <1>5. ASSUME NEW v \in V, NEW w \in V, v < w, NEW i \in D
        PROVE  ~(Fits(i, v) /\ Fits(i, w))
    <2>1. NotLater(v) \in SUBSET Earlier(w)
      BY <1>1, <1>5
    <2>2. Cardinality(NotLater(v)) <= Cardinality(Earlier(w))
      BY <1>3, <2>1, FS_Subset
    <2> QED
      <3>1. Cardinality(NotLater(v)) \in Nat /\ Cardinality(Earlier(w)) \in Nat
        BY <1>3
      <3> QED
        BY <1>1, <2>2, <3>1
  <1>6. ASSUME NEW i \in D
        PROVE  (CHOOSE v \in V : Fits(i, v)) = times[i]
    <2>1. times[i] \in V /\ Fits(i, times[i])
      BY <1>4
    <2> HIDE DEF Fits, V
    <2>2. /\ (CHOOSE v \in V : Fits(i, v)) \in V
          /\ Fits(i, CHOOSE v \in V : Fits(i, v))
      BY <2>1
    <2> QED
      BY <2>1, <2>2, <1>5, <1>1
  <1>7. InOrder(times) = [i \in D |-> CHOOSE v \in V : Fits(i, v)]
    BY DEF InOrder
  <1> HIDE DEF V, Fits, D
  <1>8. InOrder(times) = [i \in D |-> times[i]]
    BY <1>6, <1>7
  <1> QED
    BY <1>8 DEF D

AreTables(t) ==
    /\ t = [bot_state |-> t.bot_state, lots |-> t.lots,
            rolling_window_entries |-> t.rolling_window_entries, bar_counters |-> t.bar_counters]
    /\ t.bot_state = [a \in DOMAIN t.bot_state |-> t.bot_state[a]]
    /\ t.rolling_window_entries = [a \in Bots |-> t.rolling_window_entries[a]]
    /\ t.bar_counters = [a \in Bots |-> t.bar_counters[a]]

\* The tables have the state st of the bot b.
Holds(t, b, st) ==
    /\ HasRow(t, b) /\ t.bot_state[b] = BotStateRow(st)
    /\ list_open_lots(t, b) = st.lots
    /\ t.rolling_window_entries[b] = st.orders_last_3min
    /\ t.bar_counters[b] = CountersRow(st)

\* What concerns the bot a has not changed.
SameRows(u, t, a) ==
    /\ HasRow(u, a) <=> HasRow(t, a)
    /\ HasRow(t, a) => u.bot_state[a] = t.bot_state[a]
    /\ list_open_lots(u, a) = list_open_lots(t, a)
    /\ u.rolling_window_entries[a] = t.rolling_window_entries[a]
    /\ u.bar_counters[a] = t.bar_counters[a]

LEMMA NoTablesAreTables == AreTables(NoTables) /\ \A b : ~HasRow(NoTables, b)
  BY DEF AreTables, NoTables, HasRow

LEMMA SavedIsHeld ==
    ASSUME NEW t, AreTables(t), NEW b \in Bots, NEW st
    PROVE  LET u == save_bot_state(t, b, st) IN
           /\ AreTables(u) /\ Holds(u, b, st)
           /\ \A a \in Bots \ {b} : SameRows(u, t, a)
  <1> DEFINE u == save_bot_state(t, b, st)
  <1>1. /\ u.bot_state = [a \in DOMAIN t.bot_state \cup {b} |->
                             IF a = b THEN BotStateRow(st) ELSE t.bot_state[a]]
        /\ u.lots = OtherLots(t, b) \cup {[bot |-> b, lot |-> l] : l \in st.lots}
        /\ u.rolling_window_entries
               = [t.rolling_window_entries EXCEPT ![b] = st.orders_last_3min]
        /\ u.bar_counters = [t.bar_counters EXCEPT ![b] = CountersRow(st)]
    BY DEF save_bot_state
  <1>2. u = [bot_state |-> u.bot_state, lots |-> u.lots,
             rolling_window_entries |-> u.rolling_window_entries,
             bar_counters |-> u.bar_counters]
    BY DEF save_bot_state
  <1> HIDE DEF u
  <1>3. /\ u.bot_state = [a \in DOMAIN u.bot_state |-> u.bot_state[a]]
        /\ HasRow(u, b) /\ u.bot_state[b] = BotStateRow(st)
        /\ \A a \in Bots \ {b} : /\ HasRow(u, a) <=> HasRow(t, a)
                                 /\ HasRow(t, a) => u.bot_state[a] = t.bot_state[a]
    BY <1>1 DEF HasRow
  <1>4. /\ u.rolling_window_entries = [a \in Bots |-> u.rolling_window_entries[a]]
        /\ u.rolling_window_entries[b] = st.orders_last_3min
        /\ \A a \in Bots \ {b} : u.rolling_window_entries[a] = t.rolling_window_entries[a]
    BY <1>1 DEF AreTables
  <1>5. /\ u.bar_counters = [a \in Bots |-> u.bar_counters[a]]
        /\ u.bar_counters[b] = CountersRow(st)
        /\ \A a \in Bots \ {b} : u.bar_counters[a] = t.bar_counters[a]
    BY <1>1 DEF AreTables
  <1>6. list_open_lots(u, b) = st.lots
    <2>1. {r \in u.lots : r.bot = b} = {[bot |-> b, lot |-> l] : l \in st.lots}
      BY <1>1 DEF OtherLots
    <2>2. list_open_lots(u, b) = {r.lot : r \in {[bot |-> b, lot |-> l] : l \in st.lots}}
      BY <2>1 DEF list_open_lots
    <2>3. \A l : [bot |-> b, lot |-> l].lot = l
      OBVIOUS
    <2>4. ASSUME NEW l \in st.lots PROVE l \in list_open_lots(u, b)
      <3>1. [bot |-> b, lot |-> l] \in {r \in u.lots : r.bot = b}
        BY <2>1
      <3> QED
        BY <3>1, <2>3 DEF list_open_lots
    <2>5. ASSUME NEW l \in list_open_lots(u, b) PROVE l \in st.lots
      BY <2>2, <2>3
    <2> QED
      BY <2>4, <2>5
  <1>7. ASSUME NEW a \in Bots \ {b} PROVE list_open_lots(u, a) = list_open_lots(t, a)
    <2>1. {r \in u.lots : r.bot = a} = {r \in t.lots : r.bot = a}
      BY <1>1 DEF OtherLots
    <2> QED
      BY <2>1 DEF list_open_lots
  <1> QED
    BY <1>2, <1>3, <1>4, <1>5, <1>6, <1>7 DEF AreTables, Holds, SameRows, u

LEMMA MarkIsHeld ==
    ASSUME NEW t, AreTables(t), NEW b \in Bots, NEW st, NEW Ids, StorableState(st, Ids),
           Holds(t, b, st)
    PROVE  LET u == MarkSafeStop(t, b)
               marked == [st EXCEPT !.safe_stop_active = TRUE]
           IN  /\ AreTables(u) /\ Holds(u, b, marked) /\ StorableState(marked, Ids)
               /\ \A a \in Bots \ {b} : SameRows(u, t, a)
  <1> DEFINE u == MarkSafeStop(t, b)
             marked == [st EXCEPT !.safe_stop_active = TRUE]
  <1>1. u = [t EXCEPT !.bot_state[b].safe_stop_active = TRUE]
    BY DEF MarkSafeStop, Holds
  <1>2. /\ u.bot_state = [t.bot_state EXCEPT ![b].safe_stop_active = TRUE]
        /\ u.lots = t.lots /\ u.rolling_window_entries = t.rolling_window_entries
        /\ u.bar_counters = t.bar_counters
    BY <1>1 DEF AreTables
  <1>3. u = [bot_state |-> u.bot_state, lots |-> u.lots,
             rolling_window_entries |-> u.rolling_window_entries,
             bar_counters |-> u.bar_counters]
    BY <1>1 DEF AreTables
  <1>4. /\ marked.lots = st.lots /\ marked.orders_last_3min = st.orders_last_3min
        /\ marked.last_candle_time = st.last_candle_time
        /\ marked.fills_this_bar = st.fills_this_bar
        /\ marked.subcovers_this_bar = st.subcovers_this_bar
        /\ marked \in BotState(Ids)
    BY DEF StorableState, BotState
  <1>5. BotStateRow(marked) = [BotStateRow(st) EXCEPT !.safe_stop_active = TRUE]
    BY DEF BotStateRow, Scalars, CleanState, StorableState, BotState
  <1> HIDE DEF u, marked
  <1>6. /\ u.bot_state = [a \in DOMAIN u.bot_state |-> u.bot_state[a]]
        /\ HasRow(u, b) /\ u.bot_state[b] = BotStateRow(marked)
        /\ \A a \in Bots \ {b} : /\ HasRow(u, a) <=> HasRow(t, a)
                                 /\ HasRow(t, a) => u.bot_state[a] = t.bot_state[a]
    BY <1>2, <1>5 DEF AreTables, HasRow, Holds
  <1>7. AreTables(u)
    BY <1>2, <1>3, <1>6 DEF AreTables
  <1>8. Holds(u, b, marked)
    BY <1>2, <1>4, <1>6 DEF Holds, list_open_lots, CountersRow
  <1>9. StorableState(marked, Ids)
    BY <1>4 DEF StorableState, Storable
  <1>10. \A a \in Bots \ {b} : SameRows(u, t, a)
    BY <1>2, <1>6 DEF SameRows, list_open_lots
  <1> QED
    BY <1>7, <1>8, <1>9, <1>10 DEF u, marked

LEMMA SameRowsHold ==
    ASSUME NEW u, NEW t, NEW a, SameRows(u, t, a)
    PROVE  /\ \A st : Holds(t, a, st) => Holds(u, a, st)
           /\ load_bot_state(u, a) = load_bot_state(t, a)
  BY DEF SameRows, Holds, load_bot_state, RollingWindow, BarCounters

\* A state goes through the tables unharmed.
LEMMA HeldIsLoaded ==
    ASSUME NEW t, NEW b, NEW st, NEW Ids, StorableState(st, Ids), Holds(t, b, st)
    PROVE  /\ load_bot_state(t, b) = st
           /\ RollingWindow(t, b) = st.orders_last_3min
           /\ BarCounters(t, b) = [fills_this_bar |-> st.fills_this_bar,
                                   subcovers_this_bar |-> st.subcovers_this_bar]
  <1>1. RollingWindow(t, b) = st.orders_last_3min
    BY InOrderKeepsOrder DEF RollingWindow, Holds, StorableState, Storable, BotState
  <1>2. BarCounters(t, b) = [fills_this_bar |-> st.fills_this_bar,
                             subcovers_this_bar |-> st.subcovers_this_bar]
    <2>1. st.last_candle_time = None \/ CountersRow(st) # None
      BY CountersAssumption DEF CountersRow, StorableState, BotState
    <2> QED
      BY <2>1 DEF BarCounters, CountersRow, Holds, StorableState, Storable
  <1>3. st = [f \in DOMAIN CleanState |-> st[f]]
    BY DEF StorableState, BotState, CleanState
  <1>4. load_bot_state(t, b)
            = [f \in DOMAIN CleanState |->
                  IF f \in Scalars THEN BotStateRow(st)[f]
                  ELSE IF f = "lots" THEN st.lots
                  ELSE IF f = "orders_last_3min" THEN st.orders_last_3min
                  ELSE BarCounters(t, b)[f]]
    BY <1>1 DEF load_bot_state, deserialize_bot_state, Holds
  <1>5. ASSUME NEW f \in DOMAIN CleanState
        PROVE  f \in Scalars \/ f \in {"lots", "orders_last_3min", "fills_this_bar",
                                       "subcovers_this_bar"}
    BY DEF Scalars
  <1>6. ASSUME NEW f \in DOMAIN CleanState
        PROVE  st[f] = IF f \in Scalars THEN BotStateRow(st)[f]
                       ELSE IF f = "lots" THEN st.lots
                       ELSE IF f = "orders_last_3min" THEN st.orders_last_3min
                       ELSE BarCounters(t, b)[f]
    <2>1. CASE f \in Scalars
      BY <2>1 DEF BotStateRow
    <2>2. CASE f \notin Scalars
      BY <2>2, <1>5, <1>2
    <2> QED
      BY <2>1, <2>2
  <1> QED
    BY <1>1, <1>2, <1>3, <1>4, <1>6

-----------------------------------------------------------------------------
(* The strategy: quantities, prices, and what a bar may come to *)

Priced(c) == {c.open, c.high, c.low, c.close} \subseteq Nat

LEMMA ReferenceIsPrice ==
    ASSUME NEW c, Priced(c)
    PROVE  DownsideReference(c) \in Nat
  <1>1. CASE Settings.touch_mode = "wick"
    <2>1. DownsideReference(c) = c.low
      BY <1>1 DEF DownsideReference
    <2> QED
      BY <2>1 DEF Priced
  <1>2. CASE Settings.touch_mode = "body"
    <2>1. DownsideReference(c) = LowerOf(c.open, c.close)
      BY <1>2 DEF DownsideReference
    <2> QED
      BY <2>1 DEF Priced, LowerOf
  <1>3. CASE Settings.touch_mode = "close"
    <2>1. DownsideReference(c) = c.close
      BY <1>3 DEF DownsideReference
    <2> QED
      BY <2>1 DEF Priced
  <1> QED
    BY <1>1, <1>2, <1>3, SettingsAssumption

LEMMA BaseQtyIsNat ==
    ASSUME NEW close \in Nat
    PROVE  BaseOrderQty(close) \in Nat
  <1>1. Settings.first_sell_qty_coin \in Nat /\ Settings.base_notional \in Nat
    BY SettingsAssumption
  <1>2. close > 0 => Settings.base_notional \div close \in Nat
    BY <1>1
  <1> QED
    BY <1>1, <1>2 DEF BaseOrderQty, HigherOf

LEMMA DcaQtyIsInt ==
    ASSUME NEW st, st.cycle_base_qty \in Nat, NEW close \in Nat, NEW n
    PROVE  DcaQty(st, close, n) \in Int
  <1> DEFINE base == IF st.cycle_base_qty > 0 THEN st.cycle_base_qty ELSE BaseOrderQty(close)
  <1>1. base \in Nat
    BY BaseQtyIsNat
  <1>2. DcaMultiplier2(n) \in {2, 3, 4, 7}
    BY DEF DcaMultiplier2
  <1> HIDE DEF base
  <1>3. (base * DcaMultiplier2(n)) \div 2 \in Int
    BY <1>1, <1>2
  <1> QED
    BY <1>3 DEF DcaQty, base

LEMMA LevelIsNat ==
    ASSUME NEW close \in Nat, NEW n
    PROVE  NextLevelPrice(close, n) \in Nat
  <1>1. RisePercent(n) \in {3, 4, 6, 8}
    BY DEF RisePercent
  <1>2. PCT + RisePercent(n) \in Nat
    BY <1>1 DEF PCT
  <1> QED
    BY <1>2 DEF NextLevelPrice

SameBook(s, st) ==
    /\ s.lots = st.lots /\ SameCycle(s, st)
    /\ s.next_level_price = st.next_level_price
    /\ s.pos_size_abs = st.pos_size_abs /\ s.pos_proceeds_usdt = st.pos_proceeds_usdt

SameMemory(s, st) ==
    s.orders_last_3min = st.orders_last_3min /\ s.last_candle_time = st.last_candle_time

LEMMA TrailingIsBooked ==
    ASSUME NEW st, NEW Ids, Booked(st, Ids), NEW c, Priced(c)
    PROVE  LET tr == UpdateTrailing(st, c) IN
           /\ Booked(tr, Ids) /\ SameBook(tr, st) /\ SameMemory(tr, st)
           /\ st.trailing_active => tr.trailing_active /\ tr.trailing_min <= st.trailing_min
  <1> DEFINE ref == DownsideReference(c)
  <1>0. /\ st \in BotState(Ids) /\ TrailingHasMin(st)
        /\ st.trailing_active \in BOOLEAN /\ st.trailing_min \in Optional(Nat)
        /\ st.trailing_active => st.trailing_min \in Nat
    BY DEF Booked, Bookable, BotState, TrailingHasMin, Optional
  <1>1. ref \in Nat /\ ref \in Optional(Nat) /\ ref # None
    BY ReferenceIsPrice, NoneAssumption DEF Optional
  <1>2. /\ LowerOf(st.trailing_min, ref) \in {st.trailing_min, ref}
        /\ st.trailing_active => LowerOf(st.trailing_min, ref) <= st.trailing_min
    <2> HIDE DEF ref
    <2> QED
      BY <1>0, <1>1 DEF LowerOf
  <1> HIDE DEF ref
  <1>4. ASSUME NEW m, m \in {st.trailing_min, ref}, st.trailing_active \/ m = ref
        PROVE  LET tr == [st EXCEPT !.trailing_active = TRUE, !.trailing_min = m] IN
               /\ Booked(tr, Ids) /\ SameBook(tr, st) /\ SameMemory(tr, st)
               /\ tr.trailing_active /\ tr.trailing_min = m
    <2> DEFINE tr == [st EXCEPT !.trailing_active = TRUE, !.trailing_min = m]
    <2>1. m \in Optional(Nat) /\ m # None
      BY <1>1, <1>0, <1>4 DEF TrailingHasMin
    <2>2. tr \in BotState(Ids)
      BY <1>0, <2>1 DEF BotState
    <2>3. /\ SameBook(tr, st) /\ SameMemory(tr, st)
          /\ tr.trailing_active /\ tr.trailing_min = m
      BY <1>0 DEF BotState, SameBook, SameCycle, SameMemory
    <2> HIDE DEF tr
    <2>4. Booked(tr, Ids)
      BY <2>1, <2>2, <2>3
      DEF Booked, Bookable, TrailingHasMin, SameBook, SameCycle
    <2> QED
      BY <2>3, <2>4 DEF tr
  <1>5. CASE ActivatesTrailing(st, c)
    <2>1. UpdateTrailing(st, c) = [st EXCEPT !.trailing_active = TRUE, !.trailing_min = ref]
      BY <1>5 DEF UpdateTrailing, ref
    <2>2. ~st.trailing_active
      BY <1>5 DEF ActivatesTrailing
    <2> QED
      BY <1>4, <2>1, <2>2
  <1>6. CASE ~ActivatesTrailing(st, c) /\ st.trailing_active
    <2> DEFINE m == LowerOf(st.trailing_min, ref)
    <2>1. UpdateTrailing(st, c) = [st EXCEPT !.trailing_min = m]
      BY <1>6 DEF UpdateTrailing, ref
    <2>2. [st EXCEPT !.trailing_min = m] = [st EXCEPT !.trailing_active = TRUE, !.trailing_min = m]
      BY <1>0, <1>6 DEF BotState
    <2> HIDE DEF m
    <2> QED
      BY <1>2, <1>4, <1>6, <2>1, <2>2 DEF m
  <1>7. CASE ~ActivatesTrailing(st, c) /\ ~st.trailing_active
    <2>1. UpdateTrailing(st, c) = st
      BY <1>7 DEF UpdateTrailing
    <2> QED
      BY <1>7, <2>1 DEF SameBook, SameCycle, SameMemory
  <1> QED
    BY <1>5, <1>6, <1>7

\* What evaluate_bar comes to, short of a safe stop: nothing, a first short into an empty
\* book, or, with a position, its trailing stop updated and then nothing, an exit, a
\* sub-cover, or a DCA within the limit.
LEMMA BarDecision ==
    ASSUME NEW st, NEW c, NEW even, NEW d, d = evaluate_bar(st, c, even),
           ~d.safe_stop_required
    PROVE  LET now == [st EXCEPT !.last_candle_time = c.close_time]
               tr == UpdateTrailing(now, c)
           IN  \/ d = Decision(now, None)
               \/ d = FirstShort(now, c) /\ (now.pos_size_abs = 0 \/ now.lots = {})
               \/ /\ now.lots # {}
                  /\ \/ d = Exit(now, now, c, "FULL_COVER") /\ TpConfirmed(now, c)
                     \/ d = Exit(now, tr, c, "TRAILING_TP")
                     \/ d = Subcover(tr, c) /\ SubcoverDue(tr, c)
                     \/ d = Dca(tr, c) /\ DcaDue(tr, c)
                     \/ d = Decision(tr, None)
  <1> DEFINE now == [st EXCEPT !.last_candle_time = c.close_time]
  <1>1. ASSUME NEW s PROVE SafeStopDecision(s).safe_stop_required
    BY DEF SafeStopDecision
  <1>2. d = evaluate_bar(st, c, even)
    OBVIOUS
  <1>3. \/ d = Decision(now, None)
        \/ d = FirstShort(now, c) /\ (now.pos_size_abs = 0 \/ now.lots = {})
        \/ d = ManagePosition(now, c) /\ now.lots # {}
    BY <1>1 DEF evaluate_bar
  <1> QED
    BY <1>3 DEF ManagePosition

LEMMA Decided ==
    \A s, i : /\ Decision(s, i).updated_state = s /\ Decision(s, i).intent = i
              /\ Decision(s, i).safe_stop_required = FALSE
              /\ SafeStopDecision(s).safe_stop_required
  BY DEF Decision, SafeStopDecision

\* What a bar leaves of a state if it is not traded on: the same lots, and its time.
Stands(s, st, Ids, c) ==
    /\ Booked(s, Ids) /\ s.lots = st.lots
    /\ s.orders_last_3min = st.orders_last_3min /\ s.last_candle_time = c.close_time

\* An intent that the state can be asked to fill.
IntentFor(intent, st, c) ==
    \E type \in OpenTypes \cup CoverTypes, qty \in Nat :
       /\ intent = Intent(type, c, qty)
       /\ type = "SUB_COVER" => st.lots # {} /\ qty = get_last_lot(st).qty

LEMMA DecisionOnBooked ==
    ASSUME NEW st, NEW Ids, Booked(st, Ids), NEW c, Priced(c), c.close_time \in Nat,
           NEW even, NEW d, d = evaluate_bar(st, c, even)
    PROVE  \/ Stands(d.updated_state, st, Ids, c) /\ (d.safe_stop_required \/ d.intent = None)
           \/ ~d.safe_stop_required /\ IntentFor(d.intent, st, c)
  <1> DEFINE Goal ==
                \/ /\ Stands(d.updated_state, st, Ids, c)
                   /\ d.safe_stop_required \/ d.intent = None
                \/ ~d.safe_stop_required /\ IntentFor(d.intent, st, c)
             now == [st EXCEPT !.last_candle_time = c.close_time]
             tr == UpdateTrailing(now, c)
  <1> SUFFICES Goal
    OBVIOUS
  <1>1. Stands(now, st, Ids, c) /\ now.lots = st.lots
    <2>1. c.close_time \in Optional(Nat) /\ st \in BotState(Ids)
      BY DEF Booked, Bookable, Optional
    <2>2. now \in BotState(Ids)
      BY <2>1 DEF BotState
    <2>3. /\ now.lots = st.lots /\ now.orders_last_3min = st.orders_last_3min
          /\ now.last_candle_time = c.close_time
          /\ now.pos_size_abs = st.pos_size_abs /\ now.pos_proceeds_usdt = st.pos_proceeds_usdt
          /\ now.trailing_active = st.trailing_active /\ now.trailing_min = st.trailing_min
      BY <2>1 DEF BotState
    <2> HIDE DEF now
    <2>4. Booked(now, Ids)
      BY <2>2, <2>3 DEF Booked, Bookable, TrailingHasMin
    <2> QED
      BY <2>3, <2>4 DEF Stands
  <1>2. \/ d = SafeStopDecision(now) \/ d = Decision(now, None)
        \/ d = FirstShort(now, c) \/ d = ManagePosition(now, c)
    BY DEF evaluate_bar
  <1> HIDE DEF now
  <1>3. Stands(tr, st, Ids, c)
    BY <1>1, TrailingIsBooked DEF Stands, SameBook, SameMemory
  <1>4. \/ d = SafeStopDecision(now) \/ d = Decision(now, None) \/ d = FirstShort(now, c)
        \/ d = Exit(now, now, c, "FULL_COVER") \/ d = Exit(now, tr, c, "TRAILING_TP")
        \/ d = Subcover(tr, c) /\ SubcoverDue(tr, c)
        \/ d = Dca(tr, c) \/ d = Decision(tr, None)
    BY <1>2 DEF ManagePosition
  <1> HIDE DEF tr, Goal
  <1>5. ASSUME NEW t, t \in {now, tr}, d = Decision(t, None) PROVE Goal
    BY <1>1, <1>3, <1>5, Decided DEF Goal
  <1>6. ASSUME NEW t, t \in {now, tr}, d = SafeStopDecision(t) PROVE Goal
    <2> DEFINE u == [t EXCEPT !.safe_stop_active = TRUE]
    <2>1. Booked(t, Ids) /\ t \in BotState(Ids) /\ Stands(t, st, Ids, c)
      BY <1>1, <1>3, <1>6 DEF Stands, Booked, Bookable
    <2>2. u \in BotState(Ids)
      BY <2>1 DEF BotState
    <2>3. /\ u.lots = t.lots /\ u.orders_last_3min = t.orders_last_3min
          /\ u.last_candle_time = t.last_candle_time
          /\ u.pos_size_abs = t.pos_size_abs /\ u.pos_proceeds_usdt = t.pos_proceeds_usdt
          /\ u.trailing_active = t.trailing_active /\ u.trailing_min = t.trailing_min
      BY <2>1 DEF BotState
    <2>4. d.updated_state = u /\ d.safe_stop_required
      BY <1>6 DEF SafeStopDecision
    <2> HIDE DEF u
    <2>5. Booked(u, Ids)
      BY <2>1, <2>2, <2>3 DEF Booked, Bookable, TrailingHasMin
    <2> QED
      BY <2>1, <2>3, <2>4, <2>5 DEF Goal, Stands
  <1>7. ASSUME NEW s, NEW type \in OpenTypes \cup CoverTypes, NEW qty \in Nat,
               d = Decision(s, Intent(type, c, qty)),
               type = "SUB_COVER" => st.lots # {} /\ qty = get_last_lot(st).qty
        PROVE  Goal
    BY <1>7, Decided DEF Goal, IntentFor
  <1>8. c.close \in Nat /\ now.pos_size_abs \in Nat /\ tr.cycle_base_qty \in Nat
    BY <1>1, <1>3 DEF Priced, Stands, Booked, Bookable, BotState
  <1>9. CASE d = FirstShort(now, c)
    <2>1. BaseOrderQty(c.close) \in Nat
      BY <1>8, BaseQtyIsNat
    <2> QED
      BY <1>6, <1>7, <1>9, <2>1 DEF FirstShort, OpenTypes
  <1>10. ASSUME NEW t, NEW type \in CoverTypes \ {"SUB_COVER"}, d = Exit(now, t, c, type)
         PROVE  Goal
    BY <1>7, <1>8, <1>10 DEF Exit
  <1>11. CASE d = Subcover(tr, c) /\ SubcoverDue(tr, c)
    <2>1. tr.lots = st.lots /\ st.lots # {} /\ get_last_lot(tr) = get_last_lot(st)
      BY <1>3, <1>11 DEF Stands, SubcoverDue, get_last_lot
    <2>2. get_last_lot(st).qty \in Nat
      <3>1. LotBook(st.lots, Ids) /\ get_last_lot(st) \in st.lots
        BY <2>1, LastLotIs DEF Booked, Bookable
      <3> QED
        BY <3>1 DEF LotBook, Lot
    <2> QED
      BY <1>7, <1>11, <2>1, <2>2 DEF Subcover, CoverTypes
  <1>12. CASE d = Dca(tr, c)
    <2> DEFINE qty == DcaQty(tr, c.close, tr.num_sells + 1)
    <2>1. qty \in Int
      BY <1>8, DcaQtyIsInt
    <2>2. ~(qty <= 0) => qty \in Nat
      BY <2>1
    <2>3. \/ d = SafeStopDecision(tr)
          \/ ~(qty <= 0) /\ \E s : d = Decision(s, Intent("DCA_SHORT", c, qty))
      BY <1>12 DEF Dca
    <2> HIDE DEF qty
    <2>4. "DCA_SHORT" \in OpenTypes \cup CoverTypes /\ "DCA_SHORT" # "SUB_COVER"
      BY DEF OpenTypes
    <2> QED
      BY <1>6, <1>7, <2>2, <2>3, <2>4
  <1> QED
    BY <1>4, <1>5, <1>6, <1>9, <1>10, <1>11, <1>12 DEF CoverTypes

-----------------------------------------------------------------------------
(* The executor: what a fill does to the state *)

\* An intent is refused and the state handed back, or it is new on its bar, below its
\* cap and the limit of the window, and filled.
LEMMA RefusedOrFilled ==
    ASSUME NEW intent, NEW st, NEW c, NEW keys, NEW r,
           r = execute_intent(intent, st, c, keys)
    PROVE  \/ r.updated_state = st /\ r.filled_qty = 0
           \/ /\ r.filled_qty # 0
              /\ intent.intent_id \notin keys
              /\ ~DcaCapReached(st, intent) /\ ~SubcoverCapReached(st, intent)
              /\ ~(RecentOrders(st, c.close_time) >= Settings.max_orders_per_3min)
              /\ r.filled_qty = FilledQty(intent) /\ ~(r.filled_qty <= 0)
              /\ r.updated_state = ApplyFill(st, intent, r.filled_qty, c)
  <1> DEFINE n == normalize_order(intent)
  <1>1. n.qty <= 0 \/ n.qty = 0 => n.reason \in {"price", "zero_qty"}
    BY DEF normalize_order, check_minimum_requirements
  <1> HIDE DEF n
  <1>2. CASE check_intent(st, intent, c.close_time, keys) # "ok"
    BY <1>2 DEF execute_intent, Blocked
  <1>3. CASE n.reason # "ok" /\ ~VirtualOpenAllowed(intent, n)
    BY <1>3 DEF execute_intent, Blocked, n
  <1>4. CASE /\ check_intent(st, intent, c.close_time, keys) = "ok"
             /\ n.reason = "ok" \/ VirtualOpenAllowed(intent, n)
    <2>1. n.qty # 0 /\ ~(n.qty <= 0)
      BY <1>1, <1>4 DEF VirtualOpenAllowed
    <2>2. r = Filled(ApplyFill(st, intent, n.qty, c), n.qty) /\ n.qty = FilledQty(intent)
      BY <1>4 DEF execute_intent, BookedQty, FilledQty, n
    <2>3. /\ ~DuplicateIntent(intent, keys)
          /\ ~DcaCapReached(st, intent) /\ ~SubcoverCapReached(st, intent)
          /\ ~(RecentOrders(st, c.close_time) >= Settings.max_orders_per_3min)
      BY <1>4 DEF check_intent
    <2> QED
      BY <2>1, <2>2, <2>3 DEF Filled, DuplicateIntent
  <1> QED
    BY <1>2, <1>3, <1>4

Exits == {"FULL_COVER", "TRAILING_TP"}


\* Rounding never takes a quantity up.
LEMMA RoundsDown ==
    ASSUME NEW x \in Nat, NEW step \in Nat \ {0}
    PROVE  RoundDown(x, step) \in 0 .. x
  <1>1. x % step \in 0 .. step - 1 /\ x = step * (x \div step) + (x % step)
    OBVIOUS
  <1>2. x \div step \in Nat /\ step * (x \div step) \in Nat
    OBVIOUS
  <1> DEFINE r == x % step
             m == step * (x \div step)
  <1> HIDE DEF r, m
  <1>3. r \in Nat /\ m \in Nat /\ x = m + r
    BY <1>1, <1>2 DEF r, m
  <1>4. x - r \in 0 .. x
    BY <1>3
  <1> QED
    BY <1>4 DEF RoundDown, r

LEMMA FilledQtyIs ==
    ASSUME NEW intent, intent.qty \in Nat
    PROVE  FilledQty(intent) \in Nat /\ FilledQty(intent) <= intent.qty
  <1> DEFINE step == Constraints.lot_step
             quantum == Constraints.qty_quantum
             r == RoundDown(intent.qty, step)
  <1>1. step \in Nat \ {0} /\ quantum \in Nat \ {0}
    BY ConstraintsAssumption
  <1>2. FilledQty(intent) = RoundDown(r, quantum)
    BY DEF FilledQty, normalize_order, normalize_qty_to_step, QuantizeDown
  <1>3. r \in 0 .. intent.qty
    BY <1>1, RoundsDown
  <1> HIDE DEF r, step, quantum
  <1>4. RoundDown(r, quantum) \in 0 .. r
    BY <1>1, <1>3, RoundsDown
  <1> QED
    BY <1>2, <1>3, <1>4

\* What the book is after a fill: a lot more, less of its newest lot, or nothing.
LotOpened(lots, st, Ids, qty, price) ==
    \E lot \in Lot(Ids) :
       /\ lot.qty = qty /\ lot.entry_price = price /\ lot \notin st.lots
       /\ \A l \in st.lots : l.open_sequence < lot.open_sequence
       /\ lots = st.lots \cup {lot}

LotCovered(lots, st, qty) ==
    LET last == get_last_lot(st) IN
    /\ last \in st.lots /\ qty \in 1 .. last.qty
    /\ lots = (st.lots \ {last}) \cup
                  (IF qty = last.qty THEN {} ELSE {[last EXCEPT !.qty = @ - qty]})

\* a fill that the book takes, and what it leaves behind
Fillable(st, Ids, intent, qty, c) ==
    /\ Booked(st, Ids)
    /\ qty \in Nat \ {0} /\ c.close_time \in Nat /\ c.close \in Nat
    /\ intent.intent_type \in OpenTypes \cup CoverTypes
    /\ intent.intent_type \in OpenTypes =>
          intent.intent_id \in Ids /\ \A l \in st.lots : l.id # intent.intent_id
    /\ intent.intent_type = "SUB_COVER" => CanCloseLastLot(st, qty)

AfterFill(s, st, Ids, intent, qty, c) ==
    /\ Booked(s, Ids)
    /\ s.orders_last_3min = Append(st.orders_last_3min, c.close_time)
    /\ s.last_candle_time = c.close_time
    /\ intent.intent_type \in OpenTypes =>
          /\ LotOpened(s.lots, st, Ids, qty, c.close)
          /\ \A l \in s.lots : l \in st.lots \/ l.id = intent.intent_id
    /\ intent.intent_type = "SUB_COVER" => LotCovered(s.lots, st, qty)
    /\ intent.intent_type \in Exits => s.lots = {}

LEMMA AppliedFill ==
    ASSUME NEW st, NEW Ids, NEW intent, NEW qty, NEW c,
           Fillable(st, Ids, intent, qty, c)
    PROVE  AfterFill(ApplyFill(st, intent, qty, c), st, Ids, intent, qty, c)
  <1> DEFINE type == intent.intent_type
             orders == Append(st.orders_last_3min, c.close_time)
             Stamp(s) == [s EXCEPT !.orders_last_3min = orders, !.last_candle_time = c.close_time]
             result == ApplyFill(st, intent, qty, c)
  <1>0. /\ qty \in Nat \ {0} /\ c.close_time \in Nat /\ c.close \in Nat
        /\ type \in OpenTypes =>
              intent.intent_id \in Ids /\ \A l \in st.lots : l.id # intent.intent_id
        /\ type = "SUB_COVER" => CanCloseLastLot(st, qty)
        /\ type \in OpenTypes \cup CoverTypes
    BY DEF Fillable
  <1>1. /\ st \in BotState(Ids) /\ Bookable(st, Ids) /\ LotBook(st.lots, Ids)
        /\ c.close_time \in Optional(Nat) /\ None \in Optional(Nat)
    BY <1>0 DEF Fillable, Booked, Bookable, Optional
  <1>2. orders \in Seq(Nat)
    BY <1>0, <1>1 DEF BotState
  <1>3. /\ st.fills_this_bar + 1 \in Nat /\ st.subcovers_this_bar + 1 \in Nat
    BY <1>1 DEF BotState
  <1> HIDE DEF orders
  <1>4. ASSUME NEW s, Booked(s, Ids)
        PROVE  /\ Booked(Stamp(s), Ids) /\ Stamp(s).orders_last_3min = orders
               /\ Stamp(s).lots = s.lots /\ Stamp(s).last_candle_time = c.close_time
    <2> DEFINE u == Stamp(s)
    <2>1. s \in BotState(Ids)
      BY <1>4 DEF Booked, Bookable
    <2>2. u \in BotState(Ids)
      BY <1>1, <1>2, <2>1 DEF BotState
    <2>3. /\ u.lots = s.lots /\ u.pos_size_abs = s.pos_size_abs
          /\ u.pos_proceeds_usdt = s.pos_proceeds_usdt
          /\ u.trailing_active = s.trailing_active /\ u.trailing_min = s.trailing_min
          /\ u.orders_last_3min = orders /\ u.last_candle_time = c.close_time
      BY <2>1 DEF BotState
    <2> HIDE DEF u
    <2>4. Booked(u, Ids)
      BY <1>4, <2>2, <2>3 DEF Booked, Bookable, TrailingHasMin
    <2> QED
      BY <2>3, <2>4 DEF u
  <1>5. CASE type \in OpenTypes
    <2> DEFINE a == add_short_lot(st, intent.intent_id, qty, c.close, None)
               u == Stamp(a)
               lot == [id |-> intent.intent_id, qty |-> qty, entry_price |-> c.close,
                       open_sequence |-> next_open_sequence(st.lots)]
    <2>1. Booked(a, Ids) /\ a.lots = st.lots \cup {lot} /\ lot \notin st.lots
      BY <1>0, <1>1, <1>5, AddedLotIsBooked
    <2>2. /\ Booked(u, Ids) /\ u.orders_last_3min = orders /\ u.lots = a.lots
          /\ u.last_candle_time = c.close_time
      BY <1>4, <2>1
    <2>3. result = [u EXCEPT !.fills_this_bar = st.fills_this_bar + 1, !.reset_cycle = FALSE]
      BY <1>5 DEF ApplyFill, orders
    <2>4. /\ lot \in Lot(Ids) /\ lot.qty = qty /\ lot.entry_price = c.close
          /\ lot.id = intent.intent_id
          /\ \A l \in st.lots : l.open_sequence < lot.open_sequence
      BY <1>0, <1>1, <1>5, NextSequenceIsNew DEF Lot
    <2> HIDE DEF u, a, lot, result
    <2>5. u \in BotState(Ids)
      BY <2>2 DEF Booked, Bookable
    <2>6. result \in BotState(Ids)
      BY <1>3, <2>3, <2>5 DEF BotState
    <2>7. /\ result.lots = u.lots /\ result.pos_size_abs = u.pos_size_abs
          /\ result.pos_proceeds_usdt = u.pos_proceeds_usdt
          /\ result.trailing_active = u.trailing_active
          /\ result.trailing_min = u.trailing_min /\ result.orders_last_3min = orders
          /\ result.last_candle_time = c.close_time
      BY <2>2, <2>3, <2>5 DEF BotState
    <2>8. Booked(result, Ids)
      BY <2>2, <2>6, <2>7 DEF Booked, Bookable, TrailingHasMin
    <2>9. LotOpened(result.lots, st, Ids, qty, c.close)
      BY <2>1, <2>2, <2>4, <2>7 DEF LotOpened
    <2>10. \A l \in result.lots : l \in st.lots \/ l.id = intent.intent_id
      BY <2>1, <2>2, <2>4, <2>7
    <2> QED
      BY <1>5, <2>7, <2>8, <2>9, <2>10 DEF AfterFill, result, orders, OpenTypes, Exits
  <1>6. CASE type = "SUB_COVER"
    <2> DEFINE a == close_last_lot(st, qty, c.close)
               u == Stamp(a)
               last == get_last_lot(st)
    <2>1. /\ Booked(a, Ids) /\ last \in st.lots
          /\ a.lots = (st.lots \ {last}) \cup
                          (IF qty = last.qty THEN {} ELSE {[last EXCEPT !.qty = @ - qty]})
      BY <1>0, <1>1, <1>6, ClosedLotIsBooked
    <2>2. /\ Booked(u, Ids) /\ u.orders_last_3min = orders /\ u.lots = a.lots
          /\ u.last_candle_time = c.close_time
      BY <1>4, <2>1
    <2>3. result = [u EXCEPT !.subcovers_this_bar = st.subcovers_this_bar + 1]
      BY <1>6 DEF ApplyFill, orders, OpenTypes
    <2>4. qty \in 1 .. last.qty
      <3>1. last.qty \in Nat
        BY <1>1, <2>1 DEF LotBook, Lot
      <3> QED
        BY <1>0, <1>6, <3>1 DEF CanCloseLastLot
    <2> HIDE DEF u, a, result, last
    <2>5. u \in BotState(Ids)
      BY <2>2 DEF Booked, Bookable
    <2>6. result \in BotState(Ids)
      BY <1>3, <2>3, <2>5 DEF BotState
    <2>7. /\ result.lots = u.lots /\ result.pos_size_abs = u.pos_size_abs
          /\ result.pos_proceeds_usdt = u.pos_proceeds_usdt
          /\ result.trailing_active = u.trailing_active
          /\ result.trailing_min = u.trailing_min /\ result.orders_last_3min = orders
          /\ result.last_candle_time = c.close_time
      BY <2>2, <2>3, <2>5 DEF BotState
    <2>8. Booked(result, Ids)
      BY <2>2, <2>6, <2>7 DEF Booked, Bookable, TrailingHasMin
    <2>9. LotCovered(result.lots, st, qty)
      BY <2>1, <2>2, <2>4, <2>7 DEF LotCovered, last
    <2> QED
      BY <1>6, <2>7, <2>8, <2>9 DEF AfterFill, result, orders, OpenTypes, Exits
  <1>7. CASE type \in Exits
    <2> DEFINE a == reset_cycle(close_all(st, c.close))
    <2>1. Booked(a, Ids) /\ a.lots = {}
      BY <1>0, <1>1, ResetIsBooked
    <2>2. result = Stamp(a)
      BY <1>7 DEF ApplyFill, orders, OpenTypes, Exits
    <2> HIDE DEF a, result
    <2>3. /\ Booked(result, Ids) /\ result.orders_last_3min = orders /\ result.lots = {}
          /\ result.last_candle_time = c.close_time
      BY <1>4, <2>1, <2>2
    <2> QED
      BY <1>7, <2>3 DEF AfterFill, result, orders, OpenTypes, Exits
  <1>8. type \in OpenTypes \/ type = "SUB_COVER" \/ type \in Exits
    BY <1>0 DEF CoverTypes, Exits
  <1> QED
    BY <1>5, <1>6, <1>7, <1>8
=============================================================================
