-------------------------- MODULE Withdrawals_proofs --------------------------
(***************************************************************************)
(* Proofs about Withdrawals for any number of users, requests, reviews and *)
(* replicas, in both approval modes: type correctness, exclusive balance   *)
(* checks up to lease expiry, completed rows were paid, what it takes to   *)
(* pay a row twice, final statuses that stay, money that deposits cover    *)
(* and the daily limit.                                                    *)
(***************************************************************************)
EXTENDS Withdrawals, FiniteSetTheorems, WellFoundedInduction, TLAPS

\* The stages in which Withdraw holds the lock; those before the row exists.
Locked == {"deposits", "balance", "level", "limit", "used", "create", "send", "fail"}
Unwritten == {"idle", "deposits", "balance", "level", "limit", "used", "create"}

\* The review v holds row r: loaded, outcome not yet written.
Holds(v, r) == target[v] = r /\ review[v] \in {"send", "mark", "fail", "reject"}

\* A handler is in the lock's critical section of its account exactly from
\* Acquire to Release, and owns the key unless its lease ran out; what it read
\* before GetWithdrawalLimit is a level.
LockPart ==
    /\ \A r \in Request :
        IF stage[r] \in Locked
        THEN acct[r] \in Account /\ inside[r] = acct[r]
        ELSE inside[r] = None
    /\ \A r \in Request : stage[r] = "limit" => seen[r] \in Level
    /\ Lock!InsideOwns

\* Rows come before payments, payments before "completed".
RowPart ==
    /\ \A r \in Request :
        /\ stage[r] \in Unwritten => status[r] = "absent"
        /\ stage[r] \in {"send", "fail"} => status[r] # "absent"
        /\ status[r] = "completed" => sent[r] > 0
        /\ sent[r] > 0 => status[r] # "absent"
    /\ \A v \in Review :
        /\ review[v] \in {"send", "mark", "fail", "reject"} =>
              target[v] \in Request /\ status[target[v]] # "absent"
        /\ review[v] = "mark" => sent[target[v]] > 0

\* A row outside overlapped has at most one handler, and is pending while it
\* has one.
HolderPart ==
    \A r \in Request \ overlapped :
        /\ \A v, w \in Review : Holds(v, r) /\ Holds(w, r) => v = w
        /\ stage[r] \in {"send", "fail"} => \A v \in Review : ~Holds(v, r)
        /\ Busy(r) => status[r] = "pending"

\* A row with neither cause is paid at most once, and once it is paid, it is
\* pending only until the handler that paid it writes the outcome.
PaymentPart ==
    \A r \in Request \ (unrecorded \cup overlapped) :
        /\ sent[r] <= 1
        /\ stage[r] = "send" => sent[r] = 0
        /\ \A v \in Review : Holds(v, r) /\ review[v] \in {"send", "reject"} => sent[r] = 0
        /\ sent[r] = 1 /\ status[r] = "pending" =>
              \/ stage[r] = "fail"
              \/ \E v \in Review : Holds(v, r) /\ review[v] \in {"mark", "fail"}

IInv == TypeOK /\ LockPart /\ RowPart /\ HolderPart /\ PaymentPart

\* Every row belongs to a request that got past Acquire, finitely many did, and
\* the daily limit a request compares with was configured.
OriginRows ==
    \A r \in Request :
        /\ stage[r] = "idle" => acct[r] = None
        /\ r \in aged => status[r] # "absent"
        /\ stage[r] = "used" => seen[r] \in Limits

OriginPart == OriginRows /\ IsFiniteSet({r \in Request : stage[r] # "idle"})

\* The accounts the two money properties are about.
Clean(a) == a \notin blind /\ Rows(a) \cap (unrecorded \cup overlapped) = {}

\* Rows whose money a balance check must find covered: those it counts, and
\* those it does not see.
Counts(r) == status[r] = "completed" \/ Uncounted(r)

\* The same for the daily limit, from the limit check on.
Limited(r) ==
    \/ status[r] \in {"pending", "completed"}
    \/ stage[r] \in {"create", "send"}
    \/ sent[r] # 0

\* In a clean account one row at most escapes the balance check, the balance it
\* read is still there, and all its money is covered and within a limit.
Covered(a) ==
    /\ \A q, r \in Rows(a) : Uncounted(q) /\ Uncounted(r) => q = r
    /\ \A r \in Rows(a) : stage[r] = "balance" => seen[r] <= deposited[a]
    /\ Amount({r \in Rows(a) : Counts(r)}) <= deposited[a]
    /\ Amount({r \in Rows(a) \ aged : Limited(r)}) <= Max(Limits)

MoneyPart == \A a \in Account : Clean(a) => Covered(a)

MInv == IInv /\ OriginPart /\ MoneyPart

-----------------------------------------------------------------------------
(* Sums over finite sets.                                                   *)

\* A set of numbers that has 0, and n + 1 with every n, has all of them.
LEMMA Counting == 
  ASSUME NEW S, 0 \in S, \A n \in Nat : n \in S => n + 1 \in S PROVE Nat \subseteq S
<1> DEFINE R == {ss \in Nat \X Nat : ss[1] < ss[2]}
<1>1. IsWellFoundedOn(R, Nat)
  BY NatLessThanWellFounded DEF OpToRel
<1>2. SUFFICES ASSUME Nat \ S # {} PROVE FALSE
  OBVIOUS
<1>3. PICK x \in Nat \ S : \A y \in Nat \ S : <<y, x>> \notin R
  <2>1. Nat \ S \subseteq Nat
    OBVIOUS
  <2> HIDE DEF R
  <2> QED BY <1>1, <1>2, <2>1, WFMin
<1>4. x # 0 /\ x - 1 \in Nat /\ x - 1 < x
  OBVIOUS
<1>5. <<x - 1, x>> \in R
  BY <1>4
<1>6. x - 1 \in S
  BY <1>3, <1>4, <1>5
<1> QED BY <1>4, <1>6

\* The element a fold takes next.
Taken(s) == CHOOSE x \in s : TRUE

\* Without it, a set is smaller by one.
LEMMA TakenFact == 
  ASSUME NEW S, IsFiniteSet(S), NEW s \in SUBSET S, s # {}
  PROVE  /\ Taken(s) \in s
         /\ IsFiniteSet(s)
         /\ s \ {Taken(s)} \in SUBSET S
         /\ Cardinality(s) \in Nat /\ Cardinality(s) # 0
         /\ Cardinality(s \ {Taken(s)}) = Cardinality(s) - 1
<1>1. Taken(s) \in s
  BY DEF Taken
<1>2. IsFiniteSet(s)
  BY FS_Subset
<1>3. Cardinality(s) \in Nat /\ Cardinality(s) # 0
  BY <1>2, FS_CardinalityType, FS_EmptySet
<1>4. Cardinality(s \ {Taken(s)}) = Cardinality(s) - 1
  BY <1>1, <1>2, FS_RemoveElement
<1> QED BY <1>1, <1>2, <1>3, <1>4

\* One step of a sum; g is the sum of f on every subset of S.
FoldStep(f, g, s) == IF s = {} THEN 0 ELSE f[Taken(s)] + g[s \ {Taken(s)}]

IsFold(f, g, S) == \A s \in SUBSET S : g[s] = FoldStep(f, g, s)

\* The recursive function that SumFunctionOnSet is defined by exists.
LEMMA Unfold ==
  ASSUME NEW f, NEW S, IsFiniteSet(S)
  PROVE  \E g : /\ SumFunctionOnSet(f, S) = g[S]
                /\ IsFold(f, g, S)
<1> DEFINE Is(g) == g = [s \in SUBSET S |-> FoldStep(f, g, s)]
           Good == {n \in Nat : \E g : \A s \in SUBSET S : Cardinality(s) <= n => g[s] = FoldStep(f, g, s)}
<1>1. SumFunctionOnSet(f, S) = (CHOOSE g : Is(g))[S]
  BY DEF SumFunctionOnSet, FoldFunctionOnSet, MapThenFoldSet, FoldStep, Taken
<1>a. \A s \in SUBSET S : IsFiniteSet(s) /\ Cardinality(s) \in Nat /\ (Cardinality(s) = 0 <=> s = {})
  BY FS_Subset, FS_CardinalityType, FS_EmptySet
<1>2. 0 \in Good
  <2> DEFINE g == [s \in SUBSET S |-> 0]
  <2>1. \A s \in SUBSET S : Cardinality(s) <= 0 => g[s] = FoldStep(f, g, s)
    BY <1>a DEF FoldStep
  <2> HIDE DEF g
  <2> QED BY <2>1
<1>3. ASSUME NEW n \in Nat, n \in Good PROVE n + 1 \in Good
  <2>1. PICK g : \A s \in SUBSET S : Cardinality(s) <= n => g[s] = FoldStep(f, g, s)
    BY <1>3
  <2> DEFINE h == [s \in SUBSET S |-> IF Cardinality(s) <= n THEN g[s] ELSE FoldStep(f, g, s)]
  <2>2. ASSUME NEW s \in SUBSET S, Cardinality(s) <= n + 1 PROVE h[s] = FoldStep(f, h, s)
    <3>1. CASE s = {}
      <4>1. h[s] = FoldStep(f, g, s)
        BY <2>1
      <4> QED BY <3>1, <4>1 DEF FoldStep
    <3>2. CASE s # {}
      <4>1. h[s] = FoldStep(f, g, s)
        BY <2>1
      <4>2. s \ {Taken(s)} \in SUBSET S /\ Cardinality(s \ {Taken(s)}) <= n
        BY <3>2, <2>2, TakenFact
      <4>3. h[s \ {Taken(s)}] = g[s \ {Taken(s)}]
        BY <4>2
      <4> HIDE DEF h
      <4> QED BY <3>2, <4>1, <4>3 DEF FoldStep
    <3> QED BY <3>1, <3>2
  <2> HIDE DEF h
  <2> QED BY <2>2
<1>4. Nat \subseteq Good
  <2> HIDE DEF Good
  <2> QED BY <1>2, <1>3, Counting
<1>5. \E g : Is(g)
  <2>1. PICK g : \A s \in SUBSET S : Cardinality(s) <= Cardinality(S) => g[s] = FoldStep(f, g, s)
    <3>1. Cardinality(S) \in Good
      BY <1>4, <1>a
    <3> QED BY <3>1
  <2>2. \A s \in SUBSET S : g[s] = FoldStep(f, g, s)
    BY <2>1, FS_Subset, FS_CardinalityType
  <2> DEFINE h == [s \in SUBSET S |-> FoldStep(f, g, s)]
  <2>3. \A s \in SUBSET S : s # {} => h[s \ {Taken(s)}] = g[s \ {Taken(s)}]
    BY <2>2
  <2>4. \A s \in SUBSET S : FoldStep(f, g, s) = FoldStep(f, h, s)
    BY <2>3 DEF FoldStep
  <2>5. Is(h)
    BY <2>4
  <2> QED BY <2>5
<1>6. PICK g : g = (CHOOSE gg : Is(gg))
  OBVIOUS
<1>7. Is(g)
  BY <1>5, <1>6
<1>8. \A s \in SUBSET S : g[s] = FoldStep(f, g, s)
  BY <1>7
<1> QED BY <1>1, <1>6, <1>8 DEF IsFold

\* Two folds of functions that agree on T agree on T.
LEMMA Agree ==
  ASSUME NEW f, NEW h, NEW S, IsFiniteSet(S), NEW T \in SUBSET S,
         \A x \in T : f[x] = h[x],
         NEW g, IsFold(f, g, S),
         NEW k, IsFold(h, k, T)
  PROVE  g[T] = k[T]
<1> DEFINE Good == {n \in Nat : \A s \in SUBSET T : Cardinality(s) <= n => g[s] = k[s]}
<1>a. IsFiniteSet(T) /\ SUBSET T \subseteq SUBSET S
  BY FS_Subset
<1>b. \A s \in SUBSET T : IsFiniteSet(s) /\ Cardinality(s) \in Nat /\ (Cardinality(s) = 0 <=> s = {})
  BY <1>a, FS_Subset, FS_CardinalityType, FS_EmptySet
<1>c. g[{}] = k[{}]
  <2>1. {} \in SUBSET S /\ {} \in SUBSET T
    OBVIOUS
  <2>2. g[{}] = FoldStep(f, g, {}) /\ k[{}] = FoldStep(h, k, {})
    BY <2>1 DEF IsFold
  <2> QED BY <2>2 DEF FoldStep
<1>1. 0 \in Good
  <2>1. \A s \in SUBSET T : Cardinality(s) <= 0 => s = {}
    BY <1>b
  <2> QED BY <1>c, <2>1
<1>2. ASSUME NEW n \in Nat, n \in Good PROVE n + 1 \in Good
  <2> SUFFICES ASSUME NEW s \in SUBSET T, Cardinality(s) <= n + 1, s # {}
               PROVE  g[s] = k[s]
    BY <1>c
  <2>1. s \ {Taken(s)} \in SUBSET T /\ Cardinality(s \ {Taken(s)}) <= n /\ Taken(s) \in T
    BY <1>a, TakenFact
  <2>2. g[s \ {Taken(s)}] = k[s \ {Taken(s)}]
    BY <2>1, <1>2
  <2>3. g[s] = FoldStep(f, g, s) /\ k[s] = FoldStep(h, k, s)
    BY <1>a DEF IsFold
  <2> QED BY <2>1, <2>2, <2>3 DEF FoldStep
<1>3. Nat \subseteq Good
  <2> HIDE DEF Good
  <2> QED BY <1>1, <1>2, Counting
<1> QED BY <1>3, <1>b

\* The order in which the elements are taken does not matter.
LEMMA AnyOrder ==
  ASSUME NEW f, NEW S, IsFiniteSet(S), \A x \in S : f[x] \in Nat,
         NEW g, IsFold(f, g, S)
  PROVE  \A s \in SUBSET S : g[s] \in Nat /\ \A x \in s : g[s] = f[x] + g[s \ {x}]
<1> DEFINE Good == {n \in Nat : \A s \in SUBSET S : Cardinality(s) <= n =>
                        g[s] \in Nat /\ \A x \in s : g[s] = f[x] + g[s \ {x}]}
<1>b. \A s \in SUBSET S : IsFiniteSet(s) /\ Cardinality(s) \in Nat /\ (Cardinality(s) = 0 <=> s = {})
  BY FS_Subset, FS_CardinalityType, FS_EmptySet
<1>1. 0 \in Good
  BY <1>b DEF FoldStep, IsFold
<1>2. ASSUME NEW n \in Nat, n \in Good PROVE n + 1 \in Good
  <2> SUFFICES ASSUME NEW s \in SUBSET S, Cardinality(s) <= n + 1
               PROVE  g[s] \in Nat /\ \A x \in s : g[s] = f[x] + g[s \ {x}]
    OBVIOUS
  <2>1. CASE s = {}
    BY <2>1 DEF FoldStep, IsFold
  <2>2. CASE s # {}
    <3> DEFINE p == Taken(s)
    <3>1. p \in s /\ s \ {p} \in SUBSET S /\ Cardinality(s \ {p}) <= n
      BY <2>2, TakenFact
    <3> HIDE DEF p
    <3>2. g[s \ {p}] \in Nat /\ \A x \in s \ {p} : g[s \ {p}] = f[x] + g[(s \ {p}) \ {x}]
      BY <3>1, <1>2
    <3>3. g[s] = f[p] + g[s \ {p}]
      BY <2>2 DEF FoldStep, p, IsFold
    <3>4. ASSUME NEW x \in s, x # p PROVE g[s] = f[x] + g[s \ {x}]
      <4>1. s \ {x} \in SUBSET S /\ Cardinality(s \ {x}) <= n
        <5>1. IsFiniteSet(s) /\ Cardinality(s) \in Nat /\ Cardinality(s \ {x}) = Cardinality(s) - 1
          BY <1>b, FS_RemoveElement
        <5> QED BY <5>1
      <4>2. p \in s \ {x} /\ x \in s \ {p}
        BY <3>1, <3>4
      <4>3. g[s \ {x}] = f[p] + g[(s \ {x}) \ {p}]
        BY <1>2, <4>1, <4>2
      <4>4. g[s \ {p}] = f[x] + g[(s \ {p}) \ {x}]
        BY <3>2, <4>2
      <4>5. (s \ {x}) \ {p} = (s \ {p}) \ {x}
        OBVIOUS
      <4>6. f[p] \in Nat /\ f[x] \in Nat /\ g[s \ {x}] \in Nat /\ g[(s \ {p}) \ {x}] \in Nat
        <5>1. (s \ {p}) \ {x} \in SUBSET (s \ {p}) /\ (s \ {p}) \ {x} \in SUBSET S
          OBVIOUS
        <5>2. IsFiniteSet(s \ {p}) /\ Cardinality(s \ {p}) \in Nat
          BY <1>b, <3>1
        <5>3. Cardinality((s \ {p}) \ {x}) <= Cardinality(s \ {p}) /\ Cardinality((s \ {p}) \ {x}) \in Nat
          BY <5>1, <5>2, <1>b, FS_Subset
        <5>4. Cardinality((s \ {p}) \ {x}) <= n
          BY <5>2, <5>3, <3>1
        <5>5. g[(s \ {p}) \ {x}] \in Nat
          BY <1>2, <5>1, <5>4
        <5>6. g[s \ {x}] \in Nat
          BY <1>2, <4>1
        <5> QED BY <3>1, <5>5, <5>6
      <4> QED BY <3>3, <4>3, <4>4, <4>5, <4>6
    <3>5. f[p] \in Nat
      BY <3>1
    <3>6. g[s] \in Nat
      BY <3>2, <3>3, <3>5
    <3> QED BY <3>3, <3>4, <3>6
  <2> QED BY <2>1, <2>2
<1>3. Nat \subseteq Good
  <2> HIDE DEF Good
  <2> QED BY <1>1, <1>2, Counting
<1> QED BY <1>3, <1>b

\* A sum of naturals is a natural, and any element may be taken out first.
LEMMA SumTakeOut ==
  ASSUME NEW f, NEW S, IsFiniteSet(S), \A x \in S : f[x] \in Nat
  PROVE  /\ SumFunctionOnSet(f, S) \in Nat
         /\ \A x \in S : SumFunctionOnSet(f, S) = f[x] + SumFunctionOnSet(f, S \ {x})
<1>1. PICK g : SumFunctionOnSet(f, S) = g[S] /\ IsFold(f, g, S)
  BY Unfold
<1>2. \A s \in SUBSET S : g[s] \in Nat /\ \A x \in s : g[s] = f[x] + g[s \ {x}]
  BY <1>1, AnyOrder
<1>3. ASSUME NEW x \in S PROVE SumFunctionOnSet(f, S \ {x}) = g[S \ {x}]
  <2>1. IsFiniteSet(S \ {x}) /\ S \ {x} \in SUBSET S
    BY FS_Subset
  <2>2. PICK k : SumFunctionOnSet(f, S \ {x}) = k[S \ {x}]
                  /\ IsFold(f, k, S \ {x})
    BY <2>1, Unfold
  <2>3. g[S \ {x}] = k[S \ {x}]
    BY <1>1, <2>1, <2>2, Agree
  <2> QED BY <2>2, <2>3
<1> QED BY <1>1, <1>2, <1>3

\* A sum that only has zeroes besides the elements of another, and is nowhere
\* above it, is not larger.
LEMMA SumMonotonic ==
  ASSUME NEW f, NEW h, NEW T, NEW S, IsFiniteSet(T), IsFiniteSet(S),
         \A x \in S : h[x] \in Nat,
         \A x \in T : f[x] \in Nat /\ f[x] <= (IF x \in S THEN h[x] ELSE 0)
  PROVE  SumFunctionOnSet(f, T) <= SumFunctionOnSet(h, S)
<1> DEFINE Sum(k, s) == SumFunctionOnSet(k, s)
           U == T \cup S
           Good == {n \in Nat : \A s \in SUBSET U : Cardinality(s) <= n =>
                        Sum(f, s \cap T) <= Sum(h, s \cap S)}
<1>a. IsFiniteSet(U)
  BY FS_Union
<1> HIDE DEF U
<1>b. \A s \in SUBSET U : IsFiniteSet(s) /\ Cardinality(s) \in Nat /\ (Cardinality(s) = 0 <=> s = {})
  BY <1>a, FS_Subset, FS_CardinalityType, FS_EmptySet
<1>c. Sum(f, {}) = 0 /\ Sum(h, {}) = 0
  <2>1. IsFiniteSet({})
    BY FS_EmptySet
  <2> QED BY <2>1, Unfold DEF FoldStep, IsFold
<1>d. \A s \in SUBSET S : Sum(h, s) \in Nat /\ \A x \in s : Sum(h, s) = h[x] + Sum(h, s \ {x})
  BY FS_Subset, SumTakeOut
<1>e. \A s \in SUBSET T : Sum(f, s) \in Nat /\ \A x \in s : Sum(f, s) = f[x] + Sum(f, s \ {x})
  BY FS_Subset, SumTakeOut
<1> HIDE DEF Sum
<1>1. 0 \in Good
  <2>1. \A s \in SUBSET U : Cardinality(s) <= 0 => s = {} /\ s \cap T = {} /\ s \cap S = {}
    BY <1>b
  <2> QED BY <1>c, <2>1
<1>2. ASSUME NEW n \in Nat, n \in Good PROVE n + 1 \in Good
  <2> SUFFICES ASSUME NEW s \in SUBSET U, Cardinality(s) <= n + 1
               PROVE  Sum(f, s \cap T) <= Sum(h, s \cap S)
    OBVIOUS
  <2>1. CASE s = {}
    <3>1. s \cap T = {} /\ s \cap S = {}
      BY <2>1
    <3> QED BY <1>c, <3>1
  <2>2. CASE s # {}
    <3>1. PICK x \in s : TRUE
      BY <2>2
    <3> DEFINE t == s \ {x}
    <3>2. t \in SUBSET U /\ Cardinality(t) <= n
      BY <1>b, FS_RemoveElement
    <3>3. Sum(f, t \cap T) <= Sum(h, t \cap S)
      BY <1>2, <3>2
    <3>4. Sum(f, t \cap T) \in Nat /\ Sum(h, t \cap S) \in Nat
      BY <1>d, <1>e
    <3>5. x \in T => Sum(f, s \cap T) = f[x] + Sum(f, t \cap T)
      <4>1. t \cap T = (s \cap T) \ {x}
        OBVIOUS
      <4>2. x \in T => Sum(f, s \cap T) = f[x] + Sum(f, (s \cap T) \ {x})
        BY <1>e, <3>1
      <4> HIDE DEF t
      <4> QED BY <4>1, <4>2
    <3>6. x \notin T => Sum(f, s \cap T) = Sum(f, t \cap T)
      <4>1. x \notin T => t \cap T = s \cap T
        OBVIOUS
      <4> HIDE DEF t
      <4> QED BY <4>1
    <3>7. x \in S => Sum(h, s \cap S) = h[x] + Sum(h, t \cap S)
      <4>1. t \cap S = (s \cap S) \ {x}
        OBVIOUS
      <4>2. x \in S => Sum(h, s \cap S) = h[x] + Sum(h, (s \cap S) \ {x})
        BY <1>d, <3>1
      <4> HIDE DEF t
      <4> QED BY <4>1, <4>2
    <3>8. x \notin S => Sum(h, s \cap S) = Sum(h, t \cap S)
      <4>1. x \notin S => t \cap S = s \cap S
        OBVIOUS
      <4> HIDE DEF t
      <4> QED BY <4>1
    <3>9. /\ x \in S => h[x] \in Nat
          /\ x \in T => f[x] \in Nat /\ f[x] <= (IF x \in S THEN h[x] ELSE 0)
          /\ x \in T \/ x \in S
      BY <3>1 DEF U
    <3> HIDE DEF t
    <3> QED BY <3>3, <3>4, <3>5, <3>6, <3>7, <3>8, <3>9
  <2> QED BY <2>1, <2>2
<1>3. Nat \subseteq Good
  <2> HIDE DEF Good
  <2> QED BY <1>1, <1>2, Counting
<1>4. Sum(f, U \cap T) <= Sum(h, U \cap S)
  BY <1>3, <1>b
<1>5. U \cap T = T /\ U \cap S = S
  BY DEF U
<1> QED BY <1>4, <1>5 DEF Sum

\* A finite set of naturals has a largest element.
LEMMA MaxFact ==
  ASSUME NEW S \in SUBSET Nat, IsFiniteSet(S), S # {}
  PROVE  Max(S) \in S /\ \A y \in S : y <= Max(S)
<1> DEFINE HasMax(s) == \E x \in s : \A y \in s : x >= y
           Good == {n \in Nat : \A s \in SUBSET S : Cardinality(s) <= n /\ s # {} => HasMax(s)}
<1>b. \A s \in SUBSET S : IsFiniteSet(s) /\ Cardinality(s) \in Nat /\ (Cardinality(s) = 0 <=> s = {})
  BY FS_Subset, FS_CardinalityType, FS_EmptySet
<1>1. 0 \in Good
  <2>1. \A s \in SUBSET S : Cardinality(s) <= 0 => s = {}
    BY <1>b
  <2> QED BY <2>1
<1>2. ASSUME NEW n \in Nat, n \in Good PROVE n + 1 \in Good
  <2> SUFFICES ASSUME NEW s \in SUBSET S, Cardinality(s) <= n + 1, s # {}
               PROVE  HasMax(s)
    OBVIOUS
  <2>1. PICK x \in s : TRUE
    OBVIOUS
  <2>2. s \ {x} \in SUBSET S /\ Cardinality(s \ {x}) <= n
    BY <1>b, FS_RemoveElement
  <2>3. CASE s \ {x} = {}
    <3>1. \A y \in s : x >= y
      BY <2>3
    <3> QED BY <3>1
  <2>4. CASE s \ {x} # {}
    <3>1. PICK z \in s \ {x} : \A y \in s \ {x} : z >= y
      BY <1>2, <2>2, <2>4
    <3>2. \/ \A y \in s : z >= y
          \/ \A y \in s : x >= y
      BY <3>1
    <3> QED BY <3>2
  <2> QED BY <2>3, <2>4
<1>3. Nat \subseteq Good
  <2> HIDE DEF Good
  <2> QED BY <1>1, <1>2, Counting
<1>4. HasMax(S)
  BY <1>3, <1>b
<1> QED BY <1>4 DEF Max

-----------------------------------------------------------------------------
(* How steps fall into groups.                                              *)

\* Steps of the environment and of administrators that touch no handler.
Outside ==
    \/ \E a \in Account : ConfirmDeposit(a)
    \/ \E u \in User, l \in Level : UpgradeUser(u, l)
    \/ \E l \in Level, daily \in [Chain -> Limits] : UpdateWithdrawalLimit(l, daily)
    \/ DayPasses

\* Steps of Withdraw that only read, and go on under the lock.
Reads(r) ==
    ReadDeposits(r) \/ CheckBalance(r) \/ ReadLevel(r) \/ ReadLimit(r) \/ CheckLimit(r)

\* Steps of Withdraw that return before a row exists.
Refusals(r) == QueryFails(r) \/ InsufficientBalance(r) \/ LimitExceeded(r)

\* The three ends of a review.
Outcome(v, from, s) ==
    /\ <<from, s>> \in {<<"mark", "completed">>, <<"fail", "failed">>, <<"reject", "rejected">>}
    /\ WriteOutcome(v, from, s)

\* Every step is in one of the groups.
LEMMA Steps ==
    ASSUME [Next]_vars
    PROVE  \/ \E r \in Request, a \in Account : \E m \in 1..SingleCap[a[2]] : Submit(r, a, m)
           \/ \E r \in Request : LockRefused(r) \/ Reads(r) \/ Refusals(r) \/ CreateRow(r)
                                \/ AutoPaid(r) \/ AutoSendFails(r) \/ AutoMarkFailed(r)
                                \/ LeaseEnds(r)
           \/ \E v \in Review, r \in Request :
                    LoadPending(v, r, "send") \/ LoadPending(v, r, "reject")
           \/ \E v \in Review : SendApproved(v) \/ SendApprovedFails(v)
           \/ \E v \in Review : \E from \in ReviewStages, s \in Settled : Outcome(v, from, s)
           \/ Outside
           \/ \E p \in Process : Crash(p)
           \/ UNCHANGED vars
  BY DEF Next, WithdrawStep, ReviewStep, Outside, Reads, Refusals, Outcome, ReviewStages, Settled

-----------------------------------------------------------------------------
\* What a return does to the lock: the handler is outside, and at most its own
\* key changes hands.
LEMMA ReturnFact ==
    ASSUME TypeOK, NEW r \in Request, NEW end \in {"done", "paid"}, Return(r, end)
    PROVE  /\ stage' = [stage EXCEPT ![r] = end]
           /\ stage' \in [Request -> Stages]
           /\ inside' = [inside EXCEPT ![r] = None]
           /\ lapsed' = lapsed
           /\ owner' \in [Account -> Request \cup {None}]
           /\ \A k \in Account : owner[k] # r => owner'[k] = owner[k]
<1> USE DEF TypeOK, Lock!LockTypeOK, Stages
<1>1. PICK gone \in SUBSET {acct[r]} : Lock!Leave(r, gone)
  BY DEF Return
<1>2. stage' = [stage EXCEPT ![r] = end]
  BY DEF Return
<1> QED
  BY <1>1, <1>2 DEF Lock!Leave

\* A return leaves the lock as LockPart wants it.
LEMMA ReturnLock ==
    ASSUME IInv, NEW r \in Request, NEW end \in {"done", "paid"}, Return(r, end),
           UNCHANGED <<acct, seen>>
    PROVE  LockPart'
<1> USE DEF IInv, TypeOK, Lock!LockTypeOK, Locked
<1>1. \A q \in Request :
        IF stage'[q] \in Locked
        THEN acct'[q] \in Account /\ inside'[q] = acct'[q]
        ELSE inside'[q] = None
  BY ReturnFact DEF LockPart
<1>2. \A q \in Request : stage'[q] = "limit" => seen'[q] \in Level
  BY ReturnFact DEF LockPart
<1>3. ASSUME NEW q \in Request, inside'[q] # None, q \notin lapsed'
      PROVE  owner'[inside'[q]] = q
  <2>1. q # r /\ inside'[q] = inside[q]
    BY <1>3, ReturnFact
  <2>2. owner[inside[q]] = q /\ inside[q] \in Account
    BY <2>1, <1>3, ReturnFact DEF LockPart, Lock!InsideOwns
  <2> QED
    BY <2>1, <2>2, ReturnFact
<1> QED
  BY <1>1, <1>2, <1>3 DEF LockPart, Lock!InsideOwns

\* So does a step from one call under the lock to the next.
LEMMA AdvanceLock ==
    ASSUME IInv, NEW r \in Request, NEW from \in Locked, NEW to \in Locked,
           Advance(r, from, to), UNCHANGED acct,
           \A q \in Request : stage'[q] = "limit" => seen'[q] \in Level
    PROVE  LockPart'
<1> USE DEF IInv, TypeOK, Lock!LockTypeOK, Locked, Advance, lockVars
<1>1. \A q \in Request :
        IF stage'[q] \in Locked
        THEN acct'[q] \in Account /\ inside'[q] = acct'[q]
        ELSE inside'[q] = None
  BY DEF LockPart
<1>2. Lock!InsideOwns'
  BY DEF LockPart, Lock!InsideOwns
<1> QED
  BY <1>1, <1>2 DEF LockPart

\* Types are preserved.
LEMMA NextType == IInv /\ [Next]_vars => TypeOK'
<1> SUFFICES ASSUME IInv, [Next]_vars PROVE TypeOK'
  OBVIOUS
<1>a. TypeOK
  BY DEF IInv
<1>b. \A r \in Request :
        /\ stage[r] \in Locked => acct[r] \in Account
        /\ stage[r] = "limit" => seen[r] \in Level
  BY DEF IInv, LockPart
<1>c. \A v \in Review : review[v] \in {"send", "mark", "fail", "reject"} => target[v] \in Request
  BY DEF IInv, RowPart
<1> USE <1>a, <1>b, <1>c DEF Locked
<1> USE AmountAssumption, LevelAssumption, NoneAssumption
    DEF TypeOK, Account, Status, Settled, Stages, ReviewStages, dbVars, requestVars, reviewVars, historyVars, Lock!LockTypeOK
<1>1. ASSUME NEW r \in Request, NEW a \in Account, NEW m \in 1..SingleCap[a[2]], Submit(r, a, m)
      PROVE  TypeOK'
  BY <1>1 DEF Submit, Lock!Enter
<1>2. ASSUME NEW r \in Request, LockRefused(r)
      PROVE  TypeOK'
  BY <1>2 DEF LockRefused, Lock!Claim, lockVars
<1>3. ASSUME NEW r \in Request, Reads(r)
      PROVE  TypeOK'
  <2>1. CASE ReadDeposits(r)
    BY <2>1 DEF ReadDeposits, Advance, lockVars
  <2>2. CASE CheckBalance(r)
    BY <2>2 DEF CheckBalance, Advance, lockVars
  <2>3. CASE ReadLevel(r)
    <3>1. level[acct[r][1]] \in Nat
      BY <2>3 DEF ReadLevel, Advance
    <3> QED
      BY <2>3, <3>1 DEF ReadLevel, Advance, lockVars
  <2>4. CASE ReadLimit(r)
    <3>1. dailyLimit[seen[r]][acct[r][2]] \in Nat
      <4>1. seen[r] \in Level /\ acct[r] \in User \X Chain
        BY <2>4 DEF ReadLimit, Advance
      <4>2. dailyLimit[seen[r]] \in [Chain -> Limits] /\ acct[r][2] \in Chain
        BY <4>1
      <4> QED
        BY <4>2
    <3> QED
      BY <2>4, <3>1 DEF ReadLimit, Advance, lockVars
  <2>5. CASE CheckLimit(r)
    BY <2>5 DEF CheckLimit, Advance, lockVars
  <2> QED
    BY <1>3, <2>1, <2>2, <2>3, <2>4, <2>5 DEF Reads
<1>4. ASSUME NEW r \in Request, Refusals(r)
      PROVE  TypeOK'
  BY ReturnFact, <1>4 DEF Refusals, QueryFails, InsufficientBalance, LimitExceeded
<1>5. ASSUME NEW r \in Request, CreateRow(r)
      PROVE  TypeOK'
  BY ReturnFact, <1>5 DEF CreateRow, Advance, lockVars
<1>6. ASSUME NEW r \in Request, AutoPaid(r)
      PROVE  TypeOK'
  <2>1. sent' \in [Request -> Nat] /\ unrecorded' \subseteq Request
    BY <1>6 DEF AutoPaid
  <2>2. /\ stage' \in [Request -> Stages] /\ inside' = [inside EXCEPT ![r] = None]
        /\ lapsed' = lapsed /\ owner' \in [Account -> Request \cup {None}]
    BY <1>6, ReturnFact DEF AutoPaid
  <2> QED
    BY <1>6, <2>1, <2>2 DEF AutoPaid
<1>7. ASSUME NEW r \in Request, AutoSendFails(r)
      PROVE  TypeOK'
  BY <1>7 DEF AutoSendFails, Advance, lockVars
<1>8. ASSUME NEW r \in Request, AutoMarkFailed(r)
      PROVE  TypeOK'
  BY ReturnFact, <1>8 DEF AutoMarkFailed, WriteStatus
<1>9. ASSUME NEW r \in Request, LeaseEnds(r)
      PROVE  TypeOK'
  BY <1>9 DEF LeaseEnds, Lock!Lapse, Lock!GiveBack
<1>10. ASSUME NEW v \in Review, NEW r \in Request, NEW next \in {"send", "reject"},
             LoadPending(v, r, next)
      PROVE  TypeOK'
  BY <1>10 DEF LoadPending, lockVars
<1>11. ASSUME NEW v \in Review, SendApproved(v)
      PROVE  TypeOK'
  BY <1>11 DEF SendApproved, Proceed, lockVars
<1>12. ASSUME NEW v \in Review, SendApprovedFails(v)
      PROVE  TypeOK'
  BY <1>12 DEF SendApprovedFails, Proceed, lockVars
<1>13. ASSUME NEW v \in Review, NEW from \in ReviewStages, NEW s \in Settled, Outcome(v, from, s)
      PROVE  TypeOK'
  BY <1>13 DEF Outcome, WriteOutcome, Proceed, WriteStatus, lockVars
<1>14. ASSUME Outside
      PROVE  TypeOK'
  BY <1>14 DEF Outside, ConfirmDeposit, UpgradeUser, UpdateWithdrawalLimit, DayPasses, lockVars
<1>15. ASSUME NEW p \in Process, Crash(p)
      PROVE  TypeOK'
  BY <1>15 DEF Crash, Lock!Crash
<1>16. CASE UNCHANGED vars
  BY <1>16 DEF vars, lockVars
<1> HIDE DEF IInv, TypeOK, LockPart, RowPart, HolderPart, PaymentPart
<1> QED
  BY Steps, <1>1, <1>2, <1>3, <1>4, <1>5, <1>6, <1>7, <1>8, <1>9, <1>10, <1>11, <1>12, <1>13, <1>14, <1>15, <1>16


\* Handlers keep entering and leaving through the lock.
LEMMA NextLock == IInv /\ [Next]_vars => LockPart'
<1> SUFFICES ASSUME IInv, [Next]_vars PROVE LockPart'
  OBVIOUS
<1>0. \A r \in Request : stage[r] \in Locked => acct[r] \in Account
  BY DEF IInv, LockPart
<1>1. ASSUME NEW r \in Request, NEW a \in Account, NEW m \in 1..SingleCap[a[2]], Submit(r, a, m)
      PROVE  LockPart'
  BY <1>1, NoneAssumption DEF Submit, Lock!Enter, IInv, TypeOK, Lock!LockTypeOK, LockPart,
       Locked, Lock!InsideOwns
<1>2. ASSUME NEW r \in Request, LockRefused(r) PROVE LockPart'
  BY <1>2, NoneAssumption DEF LockRefused, Lock!Claim, lockVars, IInv, TypeOK,
       Lock!LockTypeOK, LockPart, Locked, Lock!InsideOwns
<1>3. ASSUME NEW r \in Request, Reads(r) PROVE LockPart'
  <2> USE <1>0 DEF Locked
  <2>1. CASE ReadDeposits(r)
    <3>1. \A q \in Request : stage'[q] = "limit" => seen'[q] \in Level
      BY <2>1 DEF ReadDeposits, Advance, IInv, TypeOK, LockPart
    <3> QED
      BY <2>1, <3>1, AdvanceLock DEF ReadDeposits
  <2>2. CASE CheckBalance(r)
    <3>1. \A q \in Request : stage'[q] = "limit" => seen'[q] \in Level
      BY <2>2 DEF CheckBalance, Advance, IInv, TypeOK, LockPart
    <3> QED
      BY <2>2, <3>1, AdvanceLock DEF CheckBalance
  <2>3. CASE ReadLevel(r)
    <3>1. level[acct[r][1]] \in Level
      BY <2>3 DEF ReadLevel, Advance, IInv, TypeOK, Account
    <3>2. \A q \in Request : stage'[q] = "limit" => seen'[q] \in Level
      BY <2>3, <3>1 DEF ReadLevel, Advance, IInv, TypeOK, LockPart
    <3> QED
      BY <2>3, <3>2, AdvanceLock DEF ReadLevel
  <2>4. CASE ReadLimit(r)
    <3>1. \A q \in Request : stage'[q] = "limit" => seen'[q] \in Level
      BY <2>4 DEF ReadLimit, Advance, IInv, TypeOK, LockPart
    <3> QED
      BY <2>4, <3>1, AdvanceLock DEF ReadLimit
  <2>5. CASE CheckLimit(r)
    <3>1. \A q \in Request : stage'[q] = "limit" => seen'[q] \in Level
      BY <2>5 DEF CheckLimit, Advance, IInv, TypeOK, LockPart
    <3> QED
      BY <2>5, <3>1, AdvanceLock DEF CheckLimit
  <2> QED
    BY <1>3, <2>1, <2>2, <2>3, <2>4, <2>5 DEF Reads
<1>4. ASSUME NEW r \in Request, Refusals(r) PROVE LockPart'
  BY <1>4, ReturnLock DEF Refusals, QueryFails, InsufficientBalance, LimitExceeded
<1>5. ASSUME NEW r \in Request, CreateRow(r) PROVE LockPart'
  <2>1. CASE Advance(r, "create", "send")
    <3>1. \A q \in Request : stage'[q] = "limit" => seen'[q] \in Level
      BY <1>5, <2>1 DEF CreateRow, Advance, IInv, TypeOK, LockPart
    <3> QED
      BY <1>5, <2>1, <3>1, AdvanceLock DEF CreateRow, Locked
  <2>2. CASE Return(r, "done")
    BY <1>5, <2>2, ReturnLock DEF CreateRow
  <2> QED
    BY <1>5, <2>1, <2>2 DEF CreateRow
<1>6. ASSUME NEW r \in Request, AutoPaid(r) PROVE LockPart'
  BY <1>6, ReturnLock DEF AutoPaid
<1>7. ASSUME NEW r \in Request, AutoSendFails(r) PROVE LockPart'
  <2>1. \A q \in Request : stage'[q] = "limit" => seen'[q] \in Level
    BY <1>7 DEF AutoSendFails, Advance, IInv, TypeOK, LockPart
  <2> QED
    BY <1>7, <2>1, AdvanceLock DEF AutoSendFails, Locked
<1>8. ASSUME NEW r \in Request, AutoMarkFailed(r) PROVE LockPart'
  BY <1>8, ReturnLock DEF AutoMarkFailed
<1>9. ASSUME NEW r \in Request, LeaseEnds(r) PROVE LockPart'
  BY <1>9 DEF LeaseEnds, Lock!Lapse, Lock!GiveBack, IInv, TypeOK, Lock!LockTypeOK, LockPart,
       Lock!InsideOwns, Locked, requestVars
<1>10. CASE UNCHANGED <<requestVars, lockVars>>
  BY <1>10 DEF requestVars, lockVars, LockPart, IInv, Lock!InsideOwns
<1>11. ASSUME NEW p \in Process, Crash(p) PROVE LockPart'
  BY <1>11 DEF Crash, Lock!Crash, IInv, TypeOK, Lock!LockTypeOK, LockPart, Locked,
       Lock!InsideOwns
<1>12. ASSUME NEW v \in Review, NEW r \in Request,
             LoadPending(v, r, "send") \/ LoadPending(v, r, "reject")
      PROVE  UNCHANGED <<requestVars, lockVars>>
  BY <1>12 DEF LoadPending
<1>13. ASSUME NEW v \in Review, SendApproved(v) \/ SendApprovedFails(v)
      PROVE  UNCHANGED <<requestVars, lockVars>>
  BY <1>13 DEF SendApproved, SendApprovedFails, Proceed
<1>14. ASSUME NEW v \in Review, NEW from \in ReviewStages, NEW s \in Settled,
              Outcome(v, from, s)
       PROVE  UNCHANGED <<requestVars, lockVars>>
  BY <1>14 DEF Outcome, WriteOutcome, Proceed
<1>15. CASE Outside
  <2>1. UNCHANGED <<requestVars, lockVars>>
    BY <1>15 DEF Outside, ConfirmDeposit, UpgradeUser, UpdateWithdrawalLimit, DayPasses
  <2> QED
    BY <2>1, <1>10
<1>16. CASE UNCHANGED vars
  BY <1>16, <1>10 DEF vars
<1> QED
  BY Steps, <1>1, <1>2, <1>3, <1>4, <1>5, <1>6, <1>7, <1>8, <1>9, <1>10, <1>11, <1>12, <1>13,
     <1>14, <1>15, <1>16

\* The order of row, payment and status is preserved.
LEMMA NextRow == IInv /\ [Next]_vars => RowPart'
<1> SUFFICES ASSUME IInv, [Next]_vars PROVE RowPart'
  OBVIOUS
<1> USE NoneAssumption DEF IInv, RowPart, Unwritten, TypeOK, Account, Status, Settled, Stages, ReviewStages, dbVars, requestVars, reviewVars, historyVars, Lock!LockTypeOK
<1>1. ASSUME NEW r \in Request, NEW a \in Account, NEW m \in 1..SingleCap[a[2]], Submit(r, a, m)
      PROVE  RowPart'
  BY <1>1 DEF Submit, Lock!Enter
<1>2. ASSUME NEW r \in Request, LockRefused(r)
      PROVE  RowPart'
  BY <1>2 DEF LockRefused, Lock!Claim, lockVars
<1>3. ASSUME NEW r \in Request, Reads(r)
      PROVE  RowPart'
  BY <1>3 DEF Reads, ReadDeposits, CheckBalance, ReadLevel, ReadLimit, CheckLimit, Advance, lockVars
<1>4. ASSUME NEW r \in Request, Refusals(r)
      PROVE  RowPart'
  BY ReturnFact, <1>4 DEF Refusals, QueryFails, InsufficientBalance, LimitExceeded
<1>5. ASSUME NEW r \in Request, CreateRow(r)
      PROVE  RowPart'
  BY ReturnFact, <1>5 DEF CreateRow, Advance, lockVars
<1>6. ASSUME NEW r \in Request, AutoPaid(r)
      PROVE  RowPart'
  BY ReturnFact, <1>6 DEF AutoPaid
<1>7. ASSUME NEW r \in Request, AutoSendFails(r)
      PROVE  RowPart'
  BY <1>7 DEF AutoSendFails, Advance, lockVars
<1>8. ASSUME NEW r \in Request, AutoMarkFailed(r)
      PROVE  RowPart'
  BY ReturnFact, <1>8 DEF AutoMarkFailed, WriteStatus
<1>9. ASSUME NEW r \in Request, LeaseEnds(r)
      PROVE  RowPart'
  BY <1>9 DEF LeaseEnds, Lock!Lapse, Lock!GiveBack
<1>10. ASSUME NEW v \in Review, NEW r \in Request, NEW next \in {"send", "reject"},
             LoadPending(v, r, next)
      PROVE  RowPart'
  BY <1>10 DEF LoadPending, lockVars
<1>11. ASSUME NEW v \in Review, SendApproved(v)
      PROVE  RowPart'
  BY <1>11 DEF SendApproved, Proceed, lockVars
<1>12. ASSUME NEW v \in Review, SendApprovedFails(v)
      PROVE  RowPart'
  BY <1>12 DEF SendApprovedFails, Proceed, lockVars
<1>13. ASSUME NEW v \in Review, NEW from \in ReviewStages, NEW s \in Settled, Outcome(v, from, s)
      PROVE  RowPart'
  BY <1>13 DEF Outcome, WriteOutcome, Proceed, WriteStatus, lockVars
<1>14. ASSUME Outside
      PROVE  RowPart'
  BY <1>14 DEF Outside, ConfirmDeposit, UpgradeUser, UpdateWithdrawalLimit, DayPasses, lockVars
<1>15. ASSUME NEW p \in Process, Crash(p)
      PROVE  RowPart'
  BY <1>15 DEF Crash, Lock!Crash
<1>16. CASE UNCHANGED vars
  BY <1>16 DEF vars, lockVars
<1> HIDE DEF IInv, TypeOK, LockPart, RowPart, HolderPart, PaymentPart
<1> QED
  BY Steps, <1>1, <1>2, <1>3, <1>4, <1>5, <1>6, <1>7, <1>8, <1>9, <1>10, <1>11, <1>12, <1>13, <1>14, <1>15, <1>16


\* Rows outside overlapped keep a single handler.
LEMMA NextHolder == IInv /\ [Next]_vars => HolderPart'
<1> SUFFICES ASSUME IInv, [Next]_vars PROVE HolderPart'
  OBVIOUS
<1> USE NoneAssumption DEF IInv, RowPart, HolderPart, Unwritten, Holds, Busy, TypeOK, Account, Status, Settled, Stages, ReviewStages, dbVars, requestVars, reviewVars, historyVars, Lock!LockTypeOK
<1>1. ASSUME NEW r \in Request, NEW a \in Account, NEW m \in 1..SingleCap[a[2]], Submit(r, a, m)
      PROVE  HolderPart'
  BY <1>1 DEF Submit, Lock!Enter
<1>2. ASSUME NEW r \in Request, LockRefused(r)
      PROVE  HolderPart'
  BY <1>2 DEF LockRefused, Lock!Claim, lockVars
<1>3. ASSUME NEW r \in Request, Reads(r)
      PROVE  HolderPart'
  BY <1>3 DEF Reads, ReadDeposits, CheckBalance, ReadLevel, ReadLimit, CheckLimit, Advance, lockVars
<1>4. ASSUME NEW r \in Request, Refusals(r)
      PROVE  HolderPart'
  BY ReturnFact, <1>4 DEF Refusals, QueryFails, InsufficientBalance, LimitExceeded
<1>5. ASSUME NEW r \in Request, CreateRow(r)
      PROVE  HolderPart'
  BY ReturnFact, <1>5 DEF CreateRow, Advance, lockVars
<1>6. ASSUME NEW r \in Request, AutoPaid(r)
      PROVE  HolderPart'
  BY ReturnFact, <1>6 DEF AutoPaid
<1>7. ASSUME NEW r \in Request, AutoSendFails(r)
      PROVE  HolderPart'
  BY <1>7 DEF AutoSendFails, Advance, lockVars
<1>8. ASSUME NEW r \in Request, AutoMarkFailed(r)
      PROVE  HolderPart'
  BY ReturnFact, <1>8 DEF AutoMarkFailed, WriteStatus
<1>9. ASSUME NEW r \in Request, LeaseEnds(r)
      PROVE  HolderPart'
  BY <1>9 DEF LeaseEnds, Lock!Lapse, Lock!GiveBack
<1>10. ASSUME NEW v \in Review, NEW r \in Request, NEW next \in {"send", "reject"},
             LoadPending(v, r, next)
      PROVE  HolderPart'
  BY <1>10 DEF LoadPending, lockVars
<1>11. ASSUME NEW v \in Review, SendApproved(v)
      PROVE  HolderPart'
  BY <1>11 DEF SendApproved, Proceed, lockVars
<1>12. ASSUME NEW v \in Review, SendApprovedFails(v)
      PROVE  HolderPart'
  BY <1>12 DEF SendApprovedFails, Proceed, lockVars
<1>13. ASSUME NEW v \in Review, NEW from \in ReviewStages, NEW s \in Settled, Outcome(v, from, s)
      PROVE  HolderPart'
  BY <1>13 DEF Outcome, WriteOutcome, Proceed, WriteStatus, lockVars
<1>14. ASSUME Outside
      PROVE  HolderPart'
  BY <1>14 DEF Outside, ConfirmDeposit, UpgradeUser, UpdateWithdrawalLimit, DayPasses, lockVars
<1>15. ASSUME NEW p \in Process, Crash(p)
      PROVE  HolderPart'
  BY <1>15 DEF Crash, Lock!Crash
<1>16. CASE UNCHANGED vars
  BY <1>16 DEF vars, lockVars
<1> HIDE DEF IInv, TypeOK, LockPart, RowPart, HolderPart, PaymentPart
<1> QED
  BY Steps, <1>1, <1>2, <1>3, <1>4, <1>5, <1>6, <1>7, <1>8, <1>9, <1>10, <1>11, <1>12, <1>13, <1>14, <1>15, <1>16


\* Rows without a cause are paid once.
LEMMA NextPayment == IInv /\ [Next]_vars => PaymentPart'
<1> SUFFICES ASSUME IInv, [Next]_vars PROVE PaymentPart'
  OBVIOUS
<1> USE NoneAssumption DEF IInv, RowPart, HolderPart, PaymentPart, Unwritten, Holds, Busy, TypeOK, Account, Status, Settled, Stages, ReviewStages, dbVars, requestVars, reviewVars, historyVars, Lock!LockTypeOK
<1>1. ASSUME NEW r \in Request, NEW a \in Account, NEW m \in 1..SingleCap[a[2]], Submit(r, a, m)
      PROVE  PaymentPart'
  BY <1>1 DEF Submit, Lock!Enter
<1>2. ASSUME NEW r \in Request, LockRefused(r)
      PROVE  PaymentPart'
  BY <1>2 DEF LockRefused, Lock!Claim, lockVars
<1>3. ASSUME NEW r \in Request, Reads(r)
      PROVE  PaymentPart'
  BY <1>3 DEF Reads, ReadDeposits, CheckBalance, ReadLevel, ReadLimit, CheckLimit, Advance, lockVars
<1>4. ASSUME NEW r \in Request, Refusals(r)
      PROVE  PaymentPart'
  BY ReturnFact, <1>4 DEF Refusals, QueryFails, InsufficientBalance, LimitExceeded
<1>5. ASSUME NEW r \in Request, CreateRow(r)
      PROVE  PaymentPart'
  BY ReturnFact, <1>5 DEF CreateRow, Advance, lockVars
<1>6. ASSUME NEW r \in Request, AutoPaid(r)
      PROVE  PaymentPart'
  BY ReturnFact, <1>6 DEF AutoPaid
<1>7. ASSUME NEW r \in Request, AutoSendFails(r)
      PROVE  PaymentPart'
  BY <1>7 DEF AutoSendFails, Advance, lockVars
<1>8. ASSUME NEW r \in Request, AutoMarkFailed(r)
      PROVE  PaymentPart'
  BY ReturnFact, <1>8 DEF AutoMarkFailed, WriteStatus
<1>9. ASSUME NEW r \in Request, LeaseEnds(r)
      PROVE  PaymentPart'
  BY <1>9 DEF LeaseEnds, Lock!Lapse, Lock!GiveBack
<1>10. ASSUME NEW v \in Review, NEW r \in Request, NEW next \in {"send", "reject"},
             LoadPending(v, r, next)
      PROVE  PaymentPart'
  <2>1. r \notin unrecorded \cup overlapped' => ~Busy(r) /\ r \notin overlapped
    BY <1>10 DEF LoadPending
  <2>2. r \notin unrecorded \cup overlapped' => sent[r] = 0
    BY <1>10, <2>1 DEF LoadPending
  <2>3. /\ \A w \in Review \ {v} : review'[w] = review[w] /\ target'[w] = target[w]
        /\ review'[v] = next /\ target'[v] = r /\ review[v] = "idle"
        /\ overlapped \subseteq overlapped'
        /\ UNCHANGED <<sent, status, stage, unrecorded>>
    BY <1>10 DEF LoadPending
  <2> QED
    BY <2>2, <2>3
<1>11. ASSUME NEW v \in Review, SendApproved(v)
      PROVE  PaymentPart'
  BY <1>11 DEF SendApproved, Proceed, lockVars
<1>12. ASSUME NEW v \in Review, SendApprovedFails(v)
      PROVE  PaymentPart'
  BY <1>12 DEF SendApprovedFails, Proceed, lockVars
<1>13. ASSUME NEW v \in Review, NEW from \in ReviewStages, NEW s \in Settled, Outcome(v, from, s)
      PROVE  PaymentPart'
  BY <1>13 DEF Outcome, WriteOutcome, Proceed, WriteStatus, lockVars
<1>14. ASSUME Outside
      PROVE  PaymentPart'
  BY <1>14 DEF Outside, ConfirmDeposit, UpgradeUser, UpdateWithdrawalLimit, DayPasses, lockVars
<1>15. ASSUME NEW p \in Process, Crash(p)
      PROVE  PaymentPart'
  BY <1>15 DEF Crash, Lock!Crash
<1>16. CASE UNCHANGED vars
  BY <1>16 DEF vars, lockVars
<1> HIDE DEF IInv, TypeOK, LockPart, RowPart, HolderPart, PaymentPart
<1> QED
  BY Steps, <1>1, <1>2, <1>3, <1>4, <1>5, <1>6, <1>7, <1>8, <1>9, <1>10, <1>11, <1>12, <1>13, <1>14, <1>15, <1>16


-----------------------------------------------------------------------------
(* Money.                                                                   *)

\* Nothing adds up to nothing.
LEMMA SumEmpty ==
    ASSUME NEW f
    PROVE  SumFunctionOnSet(f, {}) = 0
<1>1. IsFiniteSet({})
  BY FS_EmptySet
<1> QED
  BY <1>1, Unfold DEF FoldStep, IsFold

\* One more element adds its value at most.
LEMMA AtMostOneMore ==
    ASSUME NEW f, NEW C, IsFiniteSet(C), NEW x, NEW D \in SUBSET (C \cup {x}),
           \A y \in C \cup {x} : f[y] \in Nat
    PROVE  SumFunctionOnSet(f, D) <= SumFunctionOnSet(f, C) + f[x]
<1> DEFINE Sum(s) == SumFunctionOnSet(f, s)
           E == C \cup {x}
<1>1. IsFiniteSet(E) /\ IsFiniteSet(D) /\ IsFiniteSet(E \ {x})
  <2>1. IsFiniteSet(E)
    BY FS_AddElement
  <2> QED
    BY <2>1, FS_Subset, FS_RemoveElement
<1>2. Sum(D) <= Sum(E)
  <2>1. /\ \A y \in E : f[y] \in Nat
        /\ \A y \in D : f[y] \in Nat /\ f[y] <= (IF y \in E THEN f[y] ELSE 0)
    OBVIOUS
  <2> HIDE DEF E
  <2> QED
    BY <1>1, <2>1, SumMonotonic
<1>3. Sum(E) = f[x] + Sum(E \ {x})
  <2>1. x \in E /\ \A y \in E : f[y] \in Nat
    OBVIOUS
  <2> HIDE DEF E
  <2> QED
    BY <1>1, <2>1, SumTakeOut
<1>4. Sum(E \ {x}) <= Sum(C)
  BY <1>1, SumMonotonic
<1>5. Sum(D) \in Nat /\ Sum(E) \in Nat /\ Sum(E \ {x}) \in Nat /\ Sum(C) \in Nat /\ f[x] \in Nat
  BY <1>1, SumTakeOut
<1> HIDE DEF Sum, E
<1> QED
  BY <1>2, <1>3, <1>4, <1>5 DEF Sum

\* The rows of an account are finitely many.
LEMMA FiniteRows ==
    ASSUME IInv, OriginPart, NEW a \in Account
    PROVE  IsFiniteSet(Rows(a)) /\ \A R \in SUBSET Rows(a) : IsFiniteSet(R)
<1>1. Rows(a) \subseteq {r \in Request : stage[r] # "idle"}
  BY NoneAssumption DEF Rows, OriginPart, OriginRows
<1>2. IsFiniteSet(Rows(a))
  BY <1>1, FS_Subset DEF OriginPart
<1> QED
  BY <1>2, FS_Subset

\* What a step does not take from a clean account: nothing is forgotten.
Grows ==
    /\ \A a \in Account : deposited[a] <= deposited'[a]
    /\ blind \subseteq blind' /\ unrecorded \subseteq unrecorded' /\ overlapped \subseteq overlapped'
    /\ \A r \in Request : acct[r] # None => acct'[r] = acct[r]

\* A step under which row r claims no more than before.
Kept(r) ==
    /\ acct'[r] = acct[r] /\ amt'[r] = amt[r]
    /\ Uncounted(r)' => Uncounted(r)
    /\ Counts(r)' => Counts(r)
    /\ r \notin aged' /\ Limited(r)' => r \notin aged /\ Limited(r)
    /\ stage'[r] = "balance" =>
          \/ stage[r] = "balance" /\ seen'[r] = seen[r]
          \/ acct[r] \in Account /\ seen'[r] <= deposited[acct[r]]

\* A request that just passed Acquire claims nothing.
Fresh(r) == ~Counts(r)' /\ ~Uncounted(r)' /\ ~Limited(r)' /\ stage'[r] # "balance"

\* Rows that claim no more leave an account covered.
LEMMA KeptCovered ==
    ASSUME MInv, TypeOK', NEW a \in Account, Clean(a)', Grows,
           \A r \in Rows(a)' : (r \in Rows(a) /\ Kept(r)) \/ Fresh(r)
    PROVE  Covered(a)'
<1> DEFINE C == {r \in Rows(a) : Counts(r)}
           L == {r \in Rows(a) \ aged : Limited(r)}
<1>0. Rows(a) \subseteq Rows(a)' /\ Rows(a) \subseteq Request /\ Rows(a)' \subseteq Request
  BY NoneAssumption DEF Rows, Grows
<1>1. Clean(a) /\ Covered(a)
  <2>1. Clean(a)
    BY <1>0 DEF Clean, Grows
  <2> QED
    BY <2>1 DEF MInv, MoneyPart
<1>2. /\ IsFiniteSet(C) /\ IsFiniteSet(L)
      /\ \A r \in Request : amt[r] \in Nat /\ amt'[r] \in Nat
      /\ deposited[a] \in Nat /\ deposited'[a] \in Nat /\ deposited[a] <= deposited'[a]
      /\ \A r \in Request : seen[r] \in Nat /\ seen'[r] \in Nat
  BY FiniteRows DEF MInv, IInv, TypeOK, Grows
<1>3. C' \subseteq C /\ L' \subseteq L /\ \A r \in C \cup L : r \in C' \cup L' => amt'[r] = amt[r]
  BY <1>0 DEF Kept, Fresh
<1>4. \A q, r \in Rows(a)' : Uncounted(q)' /\ Uncounted(r)' => q = r
  <2>1. \A r \in Rows(a)' : Uncounted(r)' => r \in Rows(a) /\ Uncounted(r)
    BY DEF Kept, Fresh
  <2> QED
    BY <1>1, <2>1 DEF Covered
<1>5. \A r \in Rows(a)' : stage'[r] = "balance" => seen'[r] <= deposited'[a]
  <2> SUFFICES ASSUME NEW r \in Rows(a)', stage'[r] = "balance"
               PROVE  seen'[r] <= deposited'[a]
    OBVIOUS
  <2>1. r \in Rows(a) /\ Kept(r) /\ acct[r] = a
    BY DEF Fresh, Rows
  <2>2. seen'[r] <= deposited[a]
    BY <1>1, <2>1 DEF Kept, Covered
  <2>3. seen'[r] \in Nat
    BY <1>0, <1>2, <2>1
  <2> QED
    BY <1>2, <2>2, <2>3
<1>6. Amount(C)' <= deposited'[a]
  <2>1. IsFiniteSet(C')
    BY <1>2, <1>3, FS_Subset
  <2>2. /\ \A r \in C : amt[r] \in Nat
        /\ \A r \in C' : amt'[r] \in Nat /\ amt'[r] <= (IF r \in C THEN amt[r] ELSE 0)
    BY <1>0, <1>2, <1>3
  <2>3. SumFunctionOnSet(amt', C') <= SumFunctionOnSet(amt, C)
    <3> HIDE DEF C
    <3> QED BY <1>2, <2>1, <2>2, SumMonotonic
  <2>4. SumFunctionOnSet(amt', C') \in Nat /\ SumFunctionOnSet(amt, C) \in Nat
    <3>1. \A r \in C' : amt'[r] \in Nat
      BY <2>2
    <3> HIDE DEF C
    <3> QED BY <1>2, <2>1, <2>2, <3>1, SumTakeOut
  <2>5. SumFunctionOnSet(amt, C) <= deposited[a]
    BY <1>1 DEF Covered, Amount
  <2>6. SumFunctionOnSet(amt', C') <= deposited'[a]
    BY <1>2, <2>3, <2>4, <2>5
  <2> QED
    BY <2>6 DEF Amount
<1>7. Amount(L)' <= Max(Limits)
  <2>1. IsFiniteSet(L')
    BY <1>2, <1>3, FS_Subset
  <2>2. /\ \A r \in L : amt[r] \in Nat
        /\ \A r \in L' : amt'[r] \in Nat /\ amt'[r] <= (IF r \in L THEN amt[r] ELSE 0)
    BY <1>0, <1>2, <1>3
  <2>3. SumFunctionOnSet(amt', L') <= SumFunctionOnSet(amt, L)
    <3> HIDE DEF L
    <3> QED BY <1>2, <2>1, <2>2, SumMonotonic
  <2>4. SumFunctionOnSet(amt', L') \in Nat /\ SumFunctionOnSet(amt, L) \in Nat
    <3>1. \A r \in L' : amt'[r] \in Nat
      BY <2>2
    <3> HIDE DEF L
    <3> QED BY <1>2, <2>1, <2>2, <3>1, SumTakeOut
  <2>5. SumFunctionOnSet(amt, L) <= Max(Limits)
    BY <1>1 DEF Covered, Amount
  <2>6. Max(Limits) \in Nat
    BY AmountAssumption, LimitsAssumption, MaxFact
  <2>7. SumFunctionOnSet(amt', L') <= Max(Limits)
    BY <2>3, <2>4, <2>5, <2>6
  <2> QED
    BY <2>7 DEF Amount
<1> QED
  BY <1>4, <1>5, <1>6, <1>7 DEF Covered

\* Every step but the three of the next lemmas keeps every row with neither
\* cause as it is, or claims less for it.
LEMMA StepKeeps ==
    ASSUME MInv, [Next]_vars,
           \A r \in Request :
                /\ ~CheckBalance(r) /\ ~CheckLimit(r)
                /\ \A a \in Account : \A m \in 1..SingleCap[a[2]] : ~Submit(r, a, m)
    PROVE  Grows /\ \A r \in Request \ (unrecorded' \cup overlapped') : Kept(r)
<1> DEFINE Goal == Grows /\ \A r \in Request \ (unrecorded' \cup overlapped') : Kept(r)
<1>a. /\ TypeOK
      /\ \A r \in Request : stage[r] \in Locked => acct[r] \in Account
      /\ \A r \in aged : status[r] # "absent"
      /\ \A r \in Request \ overlapped : Busy(r) => status[r] = "pending"
      /\ \A r \in Request : stage[r] \in Unwritten => status[r] = "absent"
  BY DEF MInv, IInv, LockPart, OriginPart, OriginRows, HolderPart, RowPart, TypeOK
<1> USE <1>a DEF Grows, Kept, Counts, Uncounted, Limited, TypeOK, Locked, Unwritten, dbVars, requestVars,
                 reviewVars, historyVars
<1>1. ASSUME NEW r \in Request, LockRefused(r) PROVE Goal
  BY <1>1 DEF LockRefused
<1>2. ASSUME NEW r \in Request, ReadDeposits(r) \/ ReadLevel(r) \/ ReadLimit(r) PROVE Goal
  <2>1. CASE ReadDeposits(r)
    BY <2>1 DEF ReadDeposits, Advance
  <2>2. CASE ReadLevel(r)
    BY <2>2 DEF ReadLevel, Advance
  <2>3. CASE ReadLimit(r)
    BY <2>3 DEF ReadLimit, Advance
  <2> QED
    BY <1>2, <2>1, <2>2, <2>3
<1>3. ASSUME NEW r \in Request, Refusals(r) PROVE Goal
  BY <1>3 DEF Refusals, QueryFails, InsufficientBalance, LimitExceeded, Return
<1>4. ASSUME NEW r \in Request, CreateRow(r) PROVE Goal
  BY <1>4 DEF CreateRow, Return, Advance
<1>5. ASSUME NEW r \in Request, AutoPaid(r) PROVE Goal
  BY <1>5 DEF AutoPaid, Return
<1>6. ASSUME NEW r \in Request, AutoSendFails(r) PROVE Goal
  <2>1. r \notin overlapped => status[r] = "pending"
    BY <1>6 DEF AutoSendFails, Advance, Busy
  <2> QED
    BY <1>6, <2>1 DEF AutoSendFails, Advance
<1>7. ASSUME NEW r \in Request, AutoMarkFailed(r) PROVE Goal
  <2>1. r \notin overlapped => status[r] = "pending"
    BY <1>7 DEF AutoMarkFailed, Busy
  <2> QED
    BY <1>7, <2>1 DEF AutoMarkFailed, WriteStatus, Return
<1>8. ASSUME NEW r \in Request, LeaseEnds(r) PROVE Goal
  BY <1>8 DEF LeaseEnds
<1>9. ASSUME NEW v \in Review, NEW r \in Request, LoadPending(v, r, "send") \/ LoadPending(v, r, "reject")
      PROVE  Goal
  BY <1>9 DEF LoadPending
<1>10. ASSUME NEW v \in Review, SendApproved(v) \/ SendApprovedFails(v) PROVE Goal
  <2>1. target[v] \in Request /\ (target[v] \notin overlapped => status[target[v]] = "pending")
    BY <1>10 DEF SendApproved, SendApprovedFails, Proceed, Busy, MInv, IInv, RowPart
  <2> QED
    BY <1>10, <2>1 DEF SendApproved, SendApprovedFails, Proceed
<1>11. ASSUME NEW v \in Review, NEW from \in ReviewStages, NEW s \in Settled, Outcome(v, from, s)
       PROVE  Goal
  <2>1. target[v] \in Request /\ (target[v] \notin overlapped => status[target[v]] = "pending")
    BY <1>11 DEF Outcome, WriteOutcome, Proceed, Busy, MInv, IInv, RowPart
  <2>2. s # "completed" \/ sent[target[v]] = 1 \/ target[v] \in unrecorded \cup overlapped
    BY <1>11 DEF Outcome, WriteOutcome, Proceed, MInv, IInv, RowPart, PaymentPart
  <2>3. s \in {"completed", "failed", "rejected"}
    BY DEF Settled
  <2> QED
    BY <1>11, <2>1, <2>2, <2>3 DEF Outcome, WriteOutcome, Proceed, WriteStatus
<1>12. CASE Outside
  BY <1>12 DEF Outside, ConfirmDeposit, UpgradeUser, UpdateWithdrawalLimit, DayPasses
<1>13. ASSUME NEW p \in Process, Crash(p) PROVE Goal
  BY <1>13 DEF Crash
<1>14. CASE UNCHANGED vars
  BY <1>14 DEF vars
<1> HIDE DEF Goal, Grows, Kept, Counts, Uncounted, Limited, TypeOK, dbVars, requestVars, reviewVars, historyVars
<1>15. ASSUME NEW r \in Request, Reads(r)
       PROVE  ReadDeposits(r) \/ ReadLevel(r) \/ ReadLimit(r)
  BY <1>15 DEF Reads
<1>16. ~\E r \in Request, a \in Account : \E m \in 1..SingleCap[a[2]] : Submit(r, a, m)
  OBVIOUS
<1> QED
  BY Steps, <1>1, <1>2, <1>3, <1>4, <1>5, <1>6, <1>7, <1>8, <1>9, <1>10, <1>11, <1>12, <1>13, <1>14,
     <1>15, <1>16 DEF Goal

\* Acquire lets in a request that claims nothing yet.
LEMMA SubmitKeeps ==
    ASSUME MInv, NEW r \in Request, NEW a \in Account, NEW m \in 1..SingleCap[a[2]],
           Submit(r, a, m)
    PROVE  Grows /\ Fresh(r) /\ \A q \in Request \ {r} : Kept(q)
<1>1. /\ TypeOK /\ stage[r] = "idle" /\ acct[r] = None /\ status[r] = "absent" /\ sent[r] = 0
      /\ r \notin aged
  <2>1. TypeOK /\ stage[r] = "idle" /\ acct[r] = None
    BY DEF Submit, MInv, IInv, OriginPart, OriginRows
  <2>2. status[r] = "absent" /\ ~(sent[r] > 0) /\ r \notin aged
    BY <2>1 DEF MInv, IInv, RowPart, OriginPart, OriginRows, Unwritten
  <2> QED
    BY <2>1, <2>2 DEF TypeOK
<1> QED
  BY <1>1 DEF Submit, Grows, Fresh, Kept, Counts, Uncounted, Limited, TypeOK, dbVars, historyVars

\* A balance check that does not make its account blind counts every other row.
LEMMA CheckBalanceCovers ==
    ASSUME MInv, NEW r \in Request, CheckBalance(r), NEW a \in Account, Clean(a)'
    PROVE  Covered(a)'
<1> DEFINE C == {q \in Rows(a) : status[q] = "completed"}
           D == {q \in Rows(a) : Counts(q)}
           L == {q \in Rows(a) \ aged : Limited(q)}
<1>1. /\ TypeOK /\ stage[r] = "balance" /\ acct[r] \in Account
      /\ status[r] = "absent" /\ sent[r] = 0
      /\ UNCHANGED <<dbVars, sent, acct, amt, seen>>
      /\ stage' = [stage EXCEPT ![r] = "level"]
  <2>1. TypeOK /\ stage[r] = "balance" /\ acct[r] \in Account
    BY DEF CheckBalance, Advance, MInv, IInv, LockPart, Locked
  <2>2. status[r] = "absent" /\ ~(sent[r] > 0)
    BY <2>1 DEF MInv, IInv, RowPart, Unwritten
  <2> QED
    BY <2>1, <2>2 DEF CheckBalance, Advance, TypeOK
<1>2. Clean(a) /\ Covered(a) /\ Rows(a)' = Rows(a) /\ Rows(a) \subseteq Request
  <2>1. Rows(a)' = Rows(a)
    BY <1>1 DEF Rows
  <2>2. blind \subseteq blind' /\ UNCHANGED <<unrecorded, overlapped>>
    BY DEF CheckBalance
  <2>3. Clean(a)
    BY <2>1, <2>2 DEF Clean
  <2> QED
    BY <2>1, <2>3 DEF MInv, MoneyPart, Rows
<1>3. \A q \in Request : amt[q] \in Nat
  BY <1>1 DEF TypeOK
<1>4. \A q \in Request \ {r} : /\ Uncounted(q)' <=> Uncounted(q)
                               /\ Counts(q)' <=> Counts(q)
                               /\ stage'[q] = stage[q]
  BY <1>1 DEF Uncounted, Counts, TypeOK, dbVars
<1>5. \A q \in Request : Limited(q)' <=> Limited(q)
  BY <1>1 DEF Limited, TypeOK, dbVars
<1>6. L' = L
  BY <1>1, <1>2, <1>5 DEF dbVars
<1>7. Amount(L)' <= Max(Limits)
  <2>1. SumFunctionOnSet(amt, L) <= Max(Limits)
    BY <1>2 DEF Covered, Amount
  <2>2. SumFunctionOnSet(amt', L') = SumFunctionOnSet(amt, L)
    BY <1>1, <1>6
  <2> QED
    BY <2>1, <2>2 DEF Amount
<1>8. \A q \in Rows(a)' : stage'[q] = "balance" => seen'[q] <= deposited'[a]
  BY <1>1, <1>2 DEF Covered, TypeOK, dbVars
<1>9. CASE a # acct[r]
  <2>1. r \notin Rows(a)
    BY <1>9 DEF Rows
  <2>2. D' = D /\ \A q, t \in Rows(a)' : Uncounted(q)' /\ Uncounted(t)' => q = t
    BY <1>2, <1>4, <2>1 DEF Covered
  <2>3. SumFunctionOnSet(amt', D') = SumFunctionOnSet(amt, D) /\ deposited' = deposited
    BY <1>1, <2>2 DEF dbVars
  <2>4. SumFunctionOnSet(amt, D) <= deposited[a]
    BY <1>2 DEF Covered, Amount
  <2>5. Amount(D)' <= deposited'[a]
    BY <2>3, <2>4 DEF Amount
  <2> QED
    BY <1>7, <1>8, <2>2, <2>5 DEF Covered
<1>10. CASE a = acct[r]
  <2>1. r \in Rows(a) /\ ~\E q \in Rows(a) \ {r} : Uncounted(q)
    BY <1>1, <1>10 DEF Clean, CheckBalance, Rows
  <2>2. \A q, t \in Rows(a)' : Uncounted(q)' /\ Uncounted(t)' => q = t
    BY <1>2, <1>4, <2>1
  <2>3. D' \in SUBSET (C \cup {r})
    BY <1>2, <1>4, <2>1 DEF Counts
  <2>4. IsFiniteSet(C) /\ IsFiniteSet(D')
    <3>1. IsFiniteSet(Rows(a)) /\ \A R \in SUBSET Rows(a) : IsFiniteSet(R)
      BY FiniteRows DEF MInv
    <3>2. C \in SUBSET Rows(a) /\ D' \in SUBSET Rows(a)
      BY <1>2
    <3> QED
      BY <3>1, <3>2
  <2>5. seen[r] - SumFunctionOnSet(amt, C) >= amt[r]
    BY <1>10 DEF CheckBalance, BalanceSuffices, TotalWithdrawal, Amount
  <2>6. seen[r] <= deposited[a] /\ seen[r] \in Nat /\ deposited[a] \in Nat /\ amt[r] \in Nat
    BY <1>1, <1>2, <2>1 DEF Covered, TypeOK
  <2>7. \A q \in C \cup {r} : amt[q] \in Nat
    BY <1>2, <1>3
  <2>8. /\ SumFunctionOnSet(amt, C) \in Nat
        /\ SumFunctionOnSet(amt, D') \in Nat
        /\ SumFunctionOnSet(amt, D') <= SumFunctionOnSet(amt, C) + amt[r]
    <3> DEFINE E == D'
    <3>1. E \in SUBSET (C \cup {r}) /\ IsFiniteSet(E) /\ \A q \in E : amt[q] \in Nat
      BY <2>3, <2>4, <2>7
    <3>2. SumFunctionOnSet(amt, C) \in Nat
      <4> HIDE DEF C
      <4> QED BY <2>4, <2>7, SumTakeOut
    <3> HIDE DEF C, E
    <3>3. SumFunctionOnSet(amt, E) \in Nat
      BY <3>1, SumTakeOut
    <3>4. SumFunctionOnSet(amt, E) <= SumFunctionOnSet(amt, C) + amt[r]
      BY <2>4, <2>7, <3>1, AtMostOneMore
    <3> QED
      BY <3>2, <3>3, <3>4 DEF E
  <2>9. SumFunctionOnSet(amt, D') <= deposited[a]
    <3> HIDE DEF C, D
    <3> QED BY <2>5, <2>6, <2>8
  <2>10. SumFunctionOnSet(amt', D') = SumFunctionOnSet(amt, D') /\ deposited' = deposited
    BY <1>1 DEF dbVars
  <2>11. Amount(D)' <= deposited'[a]
    BY <2>9, <2>10 DEF Amount
  <2> QED
    BY <1>7, <1>8, <2>2, <2>11 DEF Covered
<1> QED
  BY <1>9, <1>10

\* A limit check that passes leaves the money of the day within a limit.
LEMMA CheckLimitCovers ==
    ASSUME MInv, NEW r \in Request, CheckLimit(r), NEW a \in Account, Clean(a)'
    PROVE  Covered(a)'
<1> DEFINE C == {q \in Rows(a) \ aged : status[q] = "completed"}
           D == {q \in Rows(a) : Counts(q)}
           L == {q \in Rows(a) \ aged : Limited(q)}
<1>1. /\ TypeOK /\ stage[r] = "used" /\ acct[r] \in Account /\ seen[r] \in Limits
      /\ UNCHANGED <<dbVars, sent, acct, amt, seen, historyVars>>
      /\ stage' = [stage EXCEPT ![r] = "create"]
  BY DEF CheckLimit, Advance, MInv, IInv, LockPart, Locked, OriginPart, OriginRows
<1>2. Clean(a) /\ Covered(a) /\ Rows(a)' = Rows(a) /\ Rows(a) \subseteq Request
  <2>1. Rows(a)' = Rows(a)
    BY <1>1 DEF Rows
  <2>2. Clean(a)
    BY <1>1, <2>1 DEF Clean, historyVars
  <2> QED
    BY <2>1, <2>2 DEF MInv, MoneyPart, Rows
<1>3. \A q \in Request : amt[q] \in Nat
  BY <1>1 DEF TypeOK
<1>4. \A q \in Request : /\ Uncounted(q)' <=> Uncounted(q)
                         /\ Counts(q)' <=> Counts(q)
                         /\ stage'[q] = "balance" <=> stage[q] = "balance"
  BY <1>1 DEF Uncounted, Counts, TypeOK, dbVars
<1>5. Uncounted(r) /\ \A q \in Request \ {r} : Limited(q)' <=> Limited(q)
  BY <1>1 DEF Limited, Uncounted, TypeOK, dbVars
<1>6. D' = D /\ \A q, t \in Rows(a)' : Uncounted(q)' /\ Uncounted(t)' => q = t
  BY <1>2, <1>4 DEF Covered
<1>7. Amount(D)' <= deposited'[a]
  <2>1. SumFunctionOnSet(amt, D) <= deposited[a]
    BY <1>2 DEF Covered, Amount
  <2>2. SumFunctionOnSet(amt', D') = SumFunctionOnSet(amt, D) /\ deposited' = deposited
    BY <1>1, <1>6 DEF dbVars
  <2> QED
    BY <2>1, <2>2 DEF Amount
<1>8. \A q \in Rows(a)' : stage'[q] = "balance" => seen'[q] <= deposited'[a]
  BY <1>1, <1>2, <1>4 DEF Covered, dbVars
<1>9. Amount(L)' <= Max(Limits)
  <2>1. CASE a # acct[r]
    <3>1. r \notin Rows(a)
      BY <2>1 DEF Rows
    <3>2. L' = L
      BY <1>1, <1>2, <1>5, <3>1 DEF dbVars
    <3>3. SumFunctionOnSet(amt', L') = SumFunctionOnSet(amt, L)
      BY <1>1, <3>2
    <3>4. SumFunctionOnSet(amt, L) <= Max(Limits)
      BY <1>2 DEF Covered, Amount
    <3> QED
      BY <3>3, <3>4 DEF Amount
  <2>2. CASE a = acct[r]
    <3>1. r \in Rows(a)
      BY <2>2 DEF Rows
    <3>2. \A q \in Rows(a) \ {r} : Limited(q)' => status[q] = "completed"
      <4>1. \A q \in Rows(a) \ {r} : ~Uncounted(q)
        BY <1>2, <1>5, <3>1 DEF Covered
      <4> QED
        BY <1>1, <1>2, <1>5, <4>1 DEF Limited, Uncounted, TypeOK
    <3>3. L' \in SUBSET (C \cup {r})
      BY <1>1, <1>2, <3>2 DEF dbVars
    <3>4. IsFiniteSet(C) /\ IsFiniteSet(L')
      <4>1. IsFiniteSet(Rows(a)) /\ \A R \in SUBSET Rows(a) : IsFiniteSet(R)
        BY FiniteRows DEF MInv
      <4>2. C \in SUBSET Rows(a) /\ L' \in SUBSET Rows(a)
        BY <1>2
      <4> QED
        BY <4>1, <4>2
    <3>5. SumFunctionOnSet(amt, C) + amt[r] <= seen[r]
      BY <2>2 DEF CheckLimit, WithinLimit, Last24h, Amount
    <3>6. seen[r] <= Max(Limits) /\ seen[r] \in Nat /\ Max(Limits) \in Nat /\ amt[r] \in Nat
      BY <1>1, <1>3, AmountAssumption, LimitsAssumption, MaxFact
    <3>7. \A q \in C \cup {r} : amt[q] \in Nat
      BY <1>2, <1>3
    <3>8. /\ SumFunctionOnSet(amt, C) \in Nat
          /\ SumFunctionOnSet(amt, L') \in Nat
          /\ SumFunctionOnSet(amt, L') <= SumFunctionOnSet(amt, C) + amt[r]
      <4> DEFINE E == L'
      <4>1. E \in SUBSET (C \cup {r}) /\ IsFiniteSet(E) /\ \A q \in E : amt[q] \in Nat
        BY <3>3, <3>4, <3>7
      <4>2. SumFunctionOnSet(amt, C) \in Nat
        <5> HIDE DEF C
        <5> QED BY <3>4, <3>7, SumTakeOut
      <4> HIDE DEF C, E
      <4>3. SumFunctionOnSet(amt, E) \in Nat
        BY <4>1, SumTakeOut
      <4>4. SumFunctionOnSet(amt, E) <= SumFunctionOnSet(amt, C) + amt[r]
        BY <3>4, <3>7, <4>1, AtMostOneMore
      <4> QED
        BY <4>2, <4>3, <4>4 DEF E
    <3>9. SumFunctionOnSet(amt, L') <= Max(Limits)
      <4> HIDE DEF C, L
      <4> QED BY <3>5, <3>6, <3>8
    <3>10. SumFunctionOnSet(amt', L') = SumFunctionOnSet(amt, L')
      BY <1>1
    <3> QED
      BY <3>9, <3>10 DEF Amount
  <2> QED
    BY <2>1, <2>2
<1> QED
  BY <1>6, <1>7, <1>8, <1>9 DEF Covered

\* A step that starts no request but x.
StartsOnly(x) == \A r \in Request \ {x} : stage'[r] # "idle" => stage[r] # "idle"

\* No step starts more than one request.
LEMMA NextOrigin ==
    ASSUME MInv, [Next]_vars
    PROVE  OriginPart'
<1> DEFINE Begun == {r \in Request : stage[r] # "idle"}
           Goal == OriginRows' /\ \E x : StartsOnly(x)
<1>a. /\ TypeOK
      /\ \A r \in Request : /\ stage[r] \in Locked => acct[r] \in Account
                            /\ stage[r] = "limit" => seen[r] \in Level
                            /\ stage[r] = "idle" => acct[r] = None
                            /\ r \in aged => status[r] # "absent"
                            /\ stage[r] = "used" => seen[r] \in Limits
                            /\ stage[r] = "idle" => status[r] = "absent"
  BY DEF MInv, IInv, LockPart, OriginPart, OriginRows, RowPart, Unwritten
<1> USE <1>a DEF OriginRows, StartsOnly, TypeOK, Locked, dbVars, requestVars, reviewVars, historyVars
<1>1. ASSUME NEW r \in Request, NEW a \in Account, NEW m \in 1..SingleCap[a[2]], Submit(r, a, m)
      PROVE  Goal
  <2>1. OriginRows'
    BY <1>1 DEF Submit
  <2>2. StartsOnly(r)
    BY <1>1 DEF Submit
  <2> HIDE DEF OriginRows, StartsOnly
  <2> QED
    BY <2>1, <2>2
<1>2. ASSUME NEW r \in Request, LockRefused(r) PROVE Goal
  <2>1. OriginRows'
    BY <1>2 DEF LockRefused
  <2>2. StartsOnly(r)
    BY <1>2 DEF LockRefused
  <2> HIDE DEF OriginRows, StartsOnly
  <2> QED
    BY <2>1, <2>2
<1>3. ASSUME NEW r \in Request, Reads(r) PROVE Goal
  <2>1. StartsOnly(r)
    BY <1>3 DEF Reads, ReadDeposits, CheckBalance, ReadLevel, ReadLimit, CheckLimit, Advance
  <2>2. CASE ReadDeposits(r) \/ CheckBalance(r) \/ ReadLevel(r) \/ CheckLimit(r)
    BY <2>1, <2>2 DEF ReadDeposits, CheckBalance, ReadLevel, CheckLimit, Advance
  <2>3. CASE ReadLimit(r)
    <3>1. seen[r] \in Level /\ acct[r] \in User \X Chain
      BY <2>3 DEF ReadLimit, Advance, Account
    <3>2. dailyLimit[seen[r]] \in [Chain -> Limits] /\ acct[r][2] \in Chain
      BY <3>1
    <3>3. dailyLimit[seen[r]][acct[r][2]] \in Limits
      BY <3>2
    <3> QED
      BY <2>1, <2>3, <3>3 DEF ReadLimit, Advance
  <2> QED
    BY <1>3, <2>2, <2>3 DEF Reads
<1>4. ASSUME NEW r \in Request, Refusals(r) PROVE Goal
  BY <1>4 DEF Refusals, QueryFails, InsufficientBalance, LimitExceeded, Return
<1>5. ASSUME NEW r \in Request, CreateRow(r) PROVE Goal
  BY <1>5 DEF CreateRow, Return, Advance
<1>6. ASSUME NEW r \in Request, AutoPaid(r) PROVE Goal
  BY <1>6 DEF AutoPaid, Return
<1>7. ASSUME NEW r \in Request, AutoSendFails(r) PROVE Goal
  BY <1>7 DEF AutoSendFails, Advance
<1>8. ASSUME NEW r \in Request, AutoMarkFailed(r) PROVE Goal
  BY <1>8 DEF AutoMarkFailed, WriteStatus, Return
<1>9. ASSUME NEW r \in Request, LeaseEnds(r) PROVE Goal
  BY <1>9 DEF LeaseEnds
<1>10. ASSUME NEW v \in Review, NEW r \in Request, LoadPending(v, r, "send") \/ LoadPending(v, r, "reject")
       PROVE  Goal
  BY <1>10 DEF LoadPending
<1>11. ASSUME NEW v \in Review, SendApproved(v) \/ SendApprovedFails(v) PROVE Goal
  BY <1>11 DEF SendApproved, SendApprovedFails, Proceed
<1>12. ASSUME NEW v \in Review, NEW from \in ReviewStages, NEW s \in Settled, Outcome(v, from, s)
       PROVE  Goal
  <2>1. s # "absent"
    BY DEF Settled
  <2> QED
    BY <1>12, <2>1 DEF Outcome, WriteOutcome, Proceed, WriteStatus
<1>13. ASSUME Outside PROVE Goal
  <2>1. UNCHANGED <<stage, acct, seen, status>>
    BY <1>13 DEF Outside, ConfirmDeposit, UpgradeUser, UpdateWithdrawalLimit, DayPasses
  <2>2. aged' = aged \/ aged' = {r \in Request : status[r] # "absent"}
    BY <1>13 DEF Outside, ConfirmDeposit, UpgradeUser, UpdateWithdrawalLimit, DayPasses
  <2>3. OriginRows' /\ StartsOnly({})
    BY <2>1, <2>2
  <2> HIDE DEF OriginRows, StartsOnly
  <2> QED
    BY <2>3
<1>14. ASSUME NEW p \in Process, Crash(p) PROVE Goal
  <2>1. /\ \A r \in Request : stage'[r] = stage[r] \/ (stage'[r] = "done" /\ stage[r] # "idle")
        /\ UNCHANGED <<acct, seen, status, aged>>
    BY <1>14 DEF Crash
  <2>2. OriginRows' /\ StartsOnly({})
    BY <2>1
  <2> HIDE DEF OriginRows, StartsOnly
  <2> QED
    BY <2>2
<1>15. ASSUME UNCHANGED vars PROVE Goal
  BY <1>15 DEF vars
<1> HIDE DEF TypeOK, Locked, dbVars, requestVars, reviewVars, historyVars
<1>16. Goal
  <2> HIDE DEF OriginRows, StartsOnly
  <2> QED
    BY Steps, <1>1, <1>2, <1>3, <1>4, <1>5, <1>6, <1>7, <1>8, <1>9, <1>10, <1>11, <1>12, <1>13, <1>14,
       <1>15
<1>17. IsFiniteSet(Begun')
  <2>1. PICK x : StartsOnly(x)
    BY <1>16
  <2>2. Begun' \in SUBSET (Begun \cup {x})
    BY <2>1
  <2>3. IsFiniteSet(Begun \cup {x})
    BY FS_AddElement DEF MInv, OriginPart
  <2> QED
    BY <2>2, <2>3, FS_Subset
<1> QED
  BY <1>16, <1>17 DEF OriginPart

\* Every step leaves the clean accounts covered.
LEMMA NextMoney ==
    ASSUME MInv, TypeOK', [Next]_vars
    PROVE  MoneyPart'
<1> SUFFICES ASSUME NEW a \in Account, Clean(a)' PROVE Covered(a)'
  BY DEF MoneyPart
<1>1. ASSUME NEW r \in Request, CheckBalance(r) PROVE Covered(a)'
  BY <1>1, CheckBalanceCovers
<1>2. ASSUME NEW r \in Request, CheckLimit(r) PROVE Covered(a)'
  BY <1>2, CheckLimitCovers
<1>3. ASSUME NEW r \in Request, NEW b \in Account, NEW m \in 1..SingleCap[b[2]], Submit(r, b, m)
      PROVE  Covered(a)'
  <2>1. Grows /\ Fresh(r) /\ \A q \in Request \ {r} : Kept(q)
    BY <1>3, SubmitKeeps
  <2>2. \A q \in Rows(a)' : (q \in Rows(a) /\ Kept(q)) \/ Fresh(q)
    BY <2>1 DEF Rows, Kept
  <2> QED
    BY <2>1, <2>2, KeptCovered
<1>4. ASSUME \A r \in Request :
                /\ ~CheckBalance(r) /\ ~CheckLimit(r)
                /\ \A b \in Account : \A m \in 1..SingleCap[b[2]] : ~Submit(r, b, m)
      PROVE  Covered(a)'
  <2>1. Grows /\ \A r \in Request \ (unrecorded' \cup overlapped') : Kept(r)
    BY <1>4, StepKeeps
  <2>2. \A q \in Rows(a)' : (q \in Rows(a) /\ Kept(q)) \/ Fresh(q)
    BY <2>1 DEF Rows, Kept, Clean
  <2> QED
    BY <2>1, <2>2, KeptCovered
<1> QED
  BY <1>1, <1>2, <1>3, <1>4

-----------------------------------------------------------------------------
(* The theorems.                                                            *)

\* The initial states satisfy the invariant.
LEMMA InitIInv == Init => IInv
<1> SUFFICES ASSUME Init PROVE IInv
  OBVIOUS
<1>1. TypeOK
  BY DEF Init, TypeOK, Status, Stages, ReviewStages, Lock!LockInit, Lock!LockTypeOK
<1>2. LockPart
  BY NoneAssumption DEF Init, LockPart, Locked, Lock!LockInit, Lock!InsideOwns
<1>3. RowPart /\ HolderPart /\ PaymentPart
  BY DEF Init, RowPart, HolderPart, PaymentPart, Unwritten, Holds, Busy
<1> QED
  BY <1>1, <1>2, <1>3 DEF IInv

\* It is inductive, so it holds throughout.
LEMMA SpecIInv == Spec => []IInv
<1>1. IInv /\ [Next]_vars => IInv'
  BY NextType, NextLock, NextRow, NextHolder, NextPayment DEF IInv
<1> QED
  BY <1>1, InitIInv, PTL DEF Spec

\* Types of the database, the handlers and the lock, in every state.
THEOREM TypeCorrect == Spec => []TypeOK
<1>1. IInv => TypeOK
  BY DEF IInv
<1> QED
  BY <1>1, SpecIInv, PTL

\* Withdraw: two requests of one account are between Acquire and Release at
\* the same time only if a lease ran out.
THEOREM SectionExclusive == Spec => []SectionIsExclusive
<1>1. IInv => SectionIsExclusive
  <2> SUFFICES ASSUME IInv, NEW q \in Request, NEW r \in Request,
                      stage[q] \in CheckedSection, stage[r] \in CheckedSection,
                      acct[q] = acct[r], q # r, q \notin lapsed, r \notin lapsed
               PROVE  FALSE
    BY DEF SectionIsExclusive
  <2>1. inside[q] = acct[q] /\ inside[r] = acct[q] /\ acct[q] \in Account
    BY DEF IInv, LockPart, CheckedSection, Locked
  <2>2. owner[acct[q]] = q /\ owner[acct[q]] = r
    BY <2>1, NoneAssumption DEF IInv, LockPart, Lock!InsideOwns
  <2> QED
    BY <2>2
<1> QED
  BY <1>1, SpecIInv, PTL

\* Rows are inserted before money leaves and completed only afterwards.
THEOREM CompletedWasSent == Spec => []CompletedMeansSent
<1>1. IInv => CompletedMeansSent
  BY DEF IInv, RowPart, CompletedMeansSent
<1> QED
  BY <1>1, SpecIInv, PTL

\* Every double payment has one of the two causes.
THEOREM DoublePaymentCause == Spec => []DoublePaymentNeedsCause
<1>1. IInv => DoublePaymentNeedsCause
  BY DEF IInv, PaymentPart, DoublePaymentNeedsCause, TypeOK
<1> QED
  BY <1>1, SpecIInv, PTL

\* A step that changes a final status changes that of an overlapped row.
LEMMA StepKeepsSettled ==
    IInv /\ [Next]_vars =>
        \A r \in Request :
            status[r] \in Settled /\ r \notin overlapped => status'[r] = status[r]
<1> SUFFICES ASSUME IInv, [Next]_vars, NEW q \in Request,
                    status[q] \in Settled, q \notin overlapped
             PROVE  status'[q] = status[q]
  OBVIOUS
<1>0. ~Busy(q) /\ status[q] # "absent" /\ stage[q] # "create" /\ status[q] # "pending"
  BY DEF IInv, HolderPart, RowPart, Unwritten, Settled
<1>1. ASSUME NEW r \in Request, CreateRow(r) PROVE status'[q] = status[q]
  BY <1>0, <1>1 DEF CreateRow, IInv, TypeOK
<1>2. ASSUME NEW r \in Request, AutoMarkFailed(r) PROVE status'[q] = status[q]
  BY <1>0, <1>2 DEF AutoMarkFailed, WriteStatus, Busy, IInv, TypeOK
<1>3. ASSUME NEW v \in Review, NEW from \in ReviewStages, NEW s \in Settled,
             Outcome(v, from, s)
      PROVE  status'[q] = status[q]
  <2>1. target[v] # q
    BY <1>0, <1>3 DEF Outcome, WriteOutcome, Proceed, Busy
  <2> QED
    BY <2>1, <1>3 DEF Outcome, WriteOutcome, WriteStatus, IInv, TypeOK
<1>4. CASE UNCHANGED status
  BY <1>4
<1>5. ASSUME NEW r \in Request, LockRefused(r) \/ Reads(r) \/ Refusals(r) \/ AutoPaid(r)
                                \/ AutoSendFails(r) \/ LeaseEnds(r)
      PROVE  UNCHANGED status
  BY <1>5 DEF LockRefused, Reads, ReadDeposits, CheckBalance, ReadLevel, ReadLimit, CheckLimit,
       Refusals, QueryFails, InsufficientBalance, LimitExceeded, AutoPaid, AutoSendFails,
       LeaseEnds, dbVars
<1>6. ASSUME NEW r \in Request, NEW a \in Account, NEW m \in 1..SingleCap[a[2]], Submit(r, a, m)
      PROVE  UNCHANGED status
  BY <1>6 DEF Submit, dbVars
<1>7. ASSUME NEW v \in Review, NEW r \in Request,
             LoadPending(v, r, "send") \/ LoadPending(v, r, "reject")
      PROVE  UNCHANGED status
  BY <1>7 DEF LoadPending, dbVars
<1>8. ASSUME NEW v \in Review, SendApproved(v) \/ SendApprovedFails(v) PROVE UNCHANGED status
  BY <1>8 DEF SendApproved, SendApprovedFails, dbVars
<1>9. ASSUME NEW p \in Process, Crash(p) PROVE UNCHANGED status
  BY <1>9 DEF Crash, dbVars
<1>10. CASE Outside
  BY <1>10 DEF Outside, ConfirmDeposit, UpgradeUser, UpdateWithdrawalLimit, DayPasses
<1>11. CASE UNCHANGED vars
  BY <1>11 DEF vars, dbVars
<1> QED
  BY Steps, <1>1, <1>2, <1>3, <1>4, <1>5, <1>6, <1>7, <1>8, <1>9, <1>10, <1>11

\* No approval or rejection overwrites a final status of a row that had one
\* handler at a time.
THEOREM FinalStatusStays == Spec => SettledStays
<1>1. IInv /\ [Next]_vars =>
        [\A r \in Request :
            status[r] \in Settled /\ r \notin overlapped => status'[r] = status[r]]_vars
  BY StepKeepsSettled
<1> QED
  BY <1>1, SpecIInv, PTL DEF Spec, SettledStays

\* A clean account starts with nothing sent and nothing claimed.
LEMMA InitMInv == Init => MInv
<1> SUFFICES ASSUME Init PROVE MInv
  OBVIOUS
<1>1. OriginPart
  <2>1. {r \in Request : stage[r] # "idle"} = {}
    BY DEF Init
  <2>2. IsFiniteSet({r \in Request : stage[r] # "idle"})
    BY <2>1, FS_EmptySet
  <2> QED
    BY <2>2 DEF Init, OriginPart, OriginRows
<1>2. MoneyPart
  <2> SUFFICES ASSUME NEW a \in Account PROVE Covered(a)
    BY DEF MoneyPart
  <2>1. Rows(a) = {}
    BY NoneAssumption DEF Init, Rows
  <2>2. {r \in Rows(a) : Counts(r)} = {} /\ {r \in Rows(a) \ aged : Limited(r)} = {}
    BY <2>1
  <2>3. Amount({}) = 0
    BY SumEmpty DEF Amount
  <2>4. Amount({r \in Rows(a) : Counts(r)}) = 0 /\ Amount({r \in Rows(a) \ aged : Limited(r)}) = 0
    BY <2>2, <2>3
  <2>5. Max(Limits) \in Nat /\ deposited[a] = 0
    BY AmountAssumption, LimitsAssumption, MaxFact DEF Init
  <2> QED
    BY <2>1, <2>4, <2>5 DEF Covered
<1> QED
  BY <1>1, <1>2, InitIInv DEF MInv

\* The strengthened invariant holds throughout.
LEMMA SpecMInv == Spec => []MInv
<1>1. MInv /\ [Next]_vars => MInv'
  <2>1. IInv /\ [Next]_vars => IInv'
    BY NextType, NextLock, NextRow, NextHolder, NextPayment DEF IInv
  <2>2. MInv /\ [Next]_vars => IInv' /\ TypeOK'
    BY <2>1 DEF MInv, IInv
  <2> QED
    BY <2>2, NextOrigin, NextMoney DEF MInv
<1> QED
  BY <1>1, InitMInv, PTL DEF Spec

\* Rows paid at most once cost no more than the rows R that claim money, if
\* those include every paid one.
LEMMA PaidWithin ==
    ASSUME MInv, NEW a \in Account, Clean(a), NEW R \in SUBSET Rows(a), NEW Q \in SUBSET R,
           \A r \in R : sent[r] # 0 => r \in Q
    PROVE  Paid(R) \in Nat /\ Amount(Q) \in Nat /\ Paid(R) <= Amount(Q)
<1> DEFINE f == [r \in R |-> sent[r] * amt[r]]
<1>1. \A r \in R : /\ sent[r] \in {0, 1} /\ amt[r] \in Nat
  <2> SUFFICES ASSUME NEW r \in R PROVE sent[r] \in {0, 1} /\ amt[r] \in Nat
    OBVIOUS
  <2>1. r \in Request \ (unrecorded \cup overlapped)
    BY DEF Clean, Rows
  <2>2. sent[r] <= 1 /\ sent[r] \in Nat /\ amt[r] \in Nat
    BY <2>1 DEF MInv, IInv, TypeOK, PaymentPart
  <2> QED
    BY <2>2
<1>2. \A r \in R : f[r] \in Nat /\ f[r] <= (IF r \in Q THEN amt[r] ELSE 0)
  <2> SUFFICES ASSUME NEW r \in R
               PROVE  f[r] \in Nat /\ f[r] <= (IF r \in Q THEN amt[r] ELSE 0)
    OBVIOUS
  <2>1. CASE sent[r] = 0
    BY <1>1, <2>1
  <2>2. CASE sent[r] = 1
    BY <1>1, <2>2
  <2> QED
    BY <1>1, <2>1, <2>2
<1>3. IsFiniteSet(R) /\ IsFiniteSet(Q) /\ \A r \in Q : amt[r] \in Nat
  <2>1. \A S \in SUBSET Rows(a) : IsFiniteSet(S)
    BY FiniteRows DEF MInv
  <2> QED
    BY <2>1, <1>1
<1> HIDE DEF f
<1>4. SumFunctionOnSet(f, R) <= SumFunctionOnSet(amt, Q)
  BY <1>2, <1>3, SumMonotonic
<1>5. SumFunctionOnSet(f, R) \in Nat /\ SumFunctionOnSet(amt, Q) \in Nat
  BY <1>2, <1>3, SumTakeOut
<1> QED
  BY <1>4, <1>5 DEF Paid, Amount, f

\* Balance checks: what was sent for an account is covered by its confirmed
\* deposits, unless a check passed blindly or a row was paid twice or unrecorded.
THEOREM SpendingCovered == Spec => []CoveredUnlessBlind
<1>1. MInv => CoveredUnlessBlind
  <2> SUFFICES ASSUME MInv, NEW a \in Account, Clean(a) PROVE Paid(Rows(a)) <= deposited[a]
    BY DEF CoveredUnlessBlind, Clean
  <2> DEFINE Q == {r \in Rows(a) : Counts(r)}
  <2>1. \A r \in Rows(a) : sent[r] # 0 => r \in Q
    BY DEF Counts, Uncounted
  <2>2. Paid(Rows(a)) \in Nat /\ Amount(Q) \in Nat /\ Paid(Rows(a)) <= Amount(Q)
    <3> Q \in SUBSET Rows(a)
      OBVIOUS
    <3> HIDE DEF Q
    <3> QED
      BY <2>1, PaidWithin
  <2>3. Amount(Q) <= deposited[a] /\ deposited[a] \in Nat
    BY DEF MInv, MoneyPart, Covered, IInv, TypeOK
  <2> HIDE DEF Q
  <2> QED
    BY <2>2, <2>3
<1> QED
  BY <1>1, SpecMInv, PTL

\* Limit checks: under the same conditions what was sent for the rows of a day
\* stays within the largest configured limit.
THEOREM SpendingLimited == Spec => []WithinLimitUnlessBlind
<1>1. MInv => WithinLimitUnlessBlind
  <2> SUFFICES ASSUME MInv, NEW a \in Account, Clean(a) PROVE Paid(Rows(a) \ aged) <= Max(Limits)
    BY DEF WithinLimitUnlessBlind, Clean
  <2> DEFINE R == Rows(a) \ aged
             Q == {r \in R : Limited(r)}
  <2>1. R \in SUBSET Rows(a) /\ Q \in SUBSET R /\ \A r \in R : sent[r] # 0 => r \in Q
    BY DEF Limited
  <2>2. Amount(Q) <= Max(Limits)
    BY DEF MInv, MoneyPart, Covered
  <2>3. Max(Limits) \in Nat
    BY AmountAssumption, LimitsAssumption, MaxFact
  <2> HIDE DEF Q, R
  <2>4. Paid(R) \in Nat /\ Amount(Q) \in Nat /\ Paid(R) <= Amount(Q)
    BY <2>1, PaidWithin
  <2>5. Paid(R) <= Max(Limits)
    BY <2>2, <2>3, <2>4
  <2> QED
    BY <2>5 DEF R
<1> QED
  BY <1>1, SpecMInv, PTL
=============================================================================
