----------------------------- MODULE SumTheorems -----------------------------
(***************************************************************************)
(* Facts about SumFunction of the community module Functions, the sum the  *)
(* modules of order-to-cash, the ledger and purchasing use wherever the    *)
(* code writes SELECT SUM(...) or rows.reduce(...).  The sum is a fold,    *)
(* that is a recursive function on the subsets of the domain: what is      *)
(* shown first is that this recursion is well defined on a finite domain,  *)
(* then how the sum reacts to a change of the summed function.             *)
(***************************************************************************)
EXTENDS Integers, FiniteSets, Functions, FiniteSetTheorems,
        WellFoundedInduction, TLAPS

Pick(s) == CHOOSE x \in s : TRUE

\* h is the table of partial sums of f over the subsets of a.
IsTable(h, f, a) ==
  h = [s \in SUBSET a |->
         IF s = {} THEN 0 ELSE f[Pick(s)] + h[s \ {Pick(s)}]]

\* Induction over the subsets of a finite set: if membership in G passes
\* from all strict subsets of a set to the set, then G has every subset.
LEMMA SubsetInduction ==
  ASSUME NEW D, IsFiniteSet(D), NEW G,
         \A s \in SUBSET D : (\A t \in SUBSET s : t # s => t \in G) => s \in G
  PROVE  \A s \in SUBSET D : s \in G
<1> DEFINE B == {s \in SUBSET D : s \notin G}
<1>1. SUFFICES ASSUME B # {} PROVE FALSE
  OBVIOUS
<1>2. IsWellFoundedOn(StrictSubsetOrdering(D), SUBSET D)
  BY FS_StrictSubsetOrderingWellFounded, FS_FiniteSubsetsOfFinite
<1>3. B \subseteq SUBSET D
  OBVIOUS
<1>4. PICK s \in B : \A t \in B : ~ (<<t, s>> \in StrictSubsetOrdering(D))
  <2> HIDE DEF B
  <2> QED BY <1>1, <1>2, <1>3, WFMin
<1>5. \A t \in SUBSET s : t # s => t \in G
  BY <1>4 DEF StrictSubsetOrdering
<1> QED BY <1>5

\* Two tables of partial sums agree wherever both are defined.
LEMMA TablesAgree ==
  ASSUME NEW D, IsFiniteSet(D), NEW f,
         NEW a \in SUBSET D, NEW b \in SUBSET D, NEW h, NEW k,
         IsTable(h, f, a), IsTable(k, f, b)
  PROVE  \A s \in SUBSET D : s \subseteq a /\ s \subseteq b => h[s] = k[s]
<1> DEFINE G == {s \in SUBSET D : s \subseteq a /\ s \subseteq b => h[s] = k[s]}
<1>1. ASSUME NEW s \in SUBSET D, \A t \in SUBSET s : t # s => t \in G
      PROVE  s \in G
  <2>1. CASE s = {}
    BY <2>1 DEF IsTable
  <2>2. CASE s # {} /\ s \subseteq a /\ s \subseteq b
    <3>1. Pick(s) \in s
      BY <2>2 DEF Pick
    <3>2. s \ {Pick(s)} \in G
      BY <1>1, <3>1
    <3>3. h[s \ {Pick(s)}] = k[s \ {Pick(s)}]
      BY <2>2, <3>2
    <3>4. h[s] = f[Pick(s)] + h[s \ {Pick(s)}]
      BY <2>2 DEF IsTable
    <3>5. k[s] = f[Pick(s)] + k[s \ {Pick(s)}]
      BY <2>2 DEF IsTable
    <3> QED BY <3>3, <3>4, <3>5
  <2> QED BY <2>1, <2>2
<1>2. \A s \in SUBSET D : s \in G
  <2> HIDE DEF G
  <2> QED BY <1>1, SubsetInduction
<1> QED BY <1>2

\* Every subset of a finite set has a table of partial sums.
LEMMA TableExists ==
  ASSUME NEW D, IsFiniteSet(D), NEW f
  PROVE  \A s \in SUBSET D : \E h : IsTable(h, f, s)
<1> DEFINE G == {s \in SUBSET D : \E h : IsTable(h, f, s)}
           T(t) == CHOOSE h : IsTable(h, f, t)
<1>1. ASSUME NEW s \in SUBSET D, \A t \in SUBSET s : t # s => t \in G
      PROVE  s \in G
  <2> DEFINE up(t) == IF t = {} THEN 0
                      ELSE f[Pick(t)] + T(t \ {Pick(t)})[t \ {Pick(t)}]
             k == [t \in SUBSET s |-> up(t)]
  <2>1. \A t \in SUBSET s : t # s => IsTable(T(t), f, t)
    BY <1>1
  <2> HIDE DEF T
  <2>2. ASSUME NEW t \in SUBSET s, t # {}
        PROVE  k[t \ {Pick(t)}] = T(t \ {Pick(t)})[t \ {Pick(t)}]
    <3> DEFINE u == t \ {Pick(t)}
    <3>1. Pick(t) \in t
      BY <2>2 DEF Pick
    <3>2. u \in SUBSET s /\ u # s
      BY <3>1
    <3>3. IsTable(T(u), f, u)
      BY <2>1, <3>2
    <3>4. CASE u = {}
      BY <3>2, <3>3, <3>4 DEF IsTable
    <3>5. CASE u # {}
      <4> DEFINE v == u \ {Pick(u)}
      <4>1. Pick(u) \in u
        BY <3>5 DEF Pick
      <4>2. v \in SUBSET s /\ v # s /\ v \subseteq u
        BY <3>2, <4>1
      <4>3. IsTable(T(v), f, v)
        BY <2>1, <4>2
      <4>4. T(u)[v] = T(v)[v]
        <5>1. /\ u \in SUBSET D /\ v \in SUBSET D
              /\ v \subseteq u /\ v \subseteq v
          BY <3>2, <4>2
        <5>2. PICK hu : hu = T(u)
          OBVIOUS
        <5>3. PICK hv : hv = T(v)
          OBVIOUS
        <5>4. IsTable(hu, f, u) /\ IsTable(hv, f, v)
          BY <3>3, <4>3, <5>2, <5>3
        <5>5. hu[v] = hv[v]
          <6> HIDE DEF u, v
          <6> QED BY <5>1, <5>4, TablesAgree
        <5> QED BY <5>2, <5>3, <5>5
      <4>5. T(u)[u] = f[Pick(u)] + T(u)[v]
        BY <3>3, <3>5 DEF IsTable
      <4>6. k[u] = f[Pick(u)] + T(v)[v]
        BY <3>2, <3>5
      <4> QED BY <4>4, <4>5, <4>6
    <3> QED BY <3>4, <3>5
  <2>3. IsTable(k, f, s)
    <3>1. ASSUME NEW t \in SUBSET s
          PROVE  k[t] = IF t = {} THEN 0
                        ELSE f[Pick(t)] + k[t \ {Pick(t)}]
      BY <2>2
    <3> HIDE DEF k
    <3>2. k = [t \in SUBSET s |-> k[t]]
      BY DEF k
    <3> QED BY <3>1, <3>2 DEF IsTable
  <2> QED BY <2>3
<1>2. \A s \in SUBSET D : s \in G
  <2> HIDE DEF G
  <2> QED BY <1>1, SubsetInduction
<1> QED BY <1>2

\* The sum of a function with a finite domain is the last entry of a table.
LEMMA SumFromTable ==
  ASSUME NEW f, IsFiniteSet(DOMAIN f)
  PROVE  \E h : IsTable(h, f, DOMAIN f) /\ SumFunction(f) = h[DOMAIN f]
<1> DEFINE h == CHOOSE g : IsTable(g, f, DOMAIN f)
<1>1. IsTable(h, f, DOMAIN f)
  BY TableExists
<1>2. SumFunction(f) = h[DOMAIN f]
  BY DEF IsTable, Pick, SumFunction, SumFunctionOnSet, FoldFunctionOnSet,
         MapThenFoldSet
<1> QED BY <1>1, <1>2

\* The sum of integers is an integer.
THEOREM SumInt ==
  ASSUME NEW D, IsFiniteSet(D), NEW f \in [D -> Int]
  PROVE  SumFunction(f) \in Int
<1>1. PICK h : IsTable(h, f, D) /\ SumFunction(f) = h[D]
  BY SumFromTable
<1> DEFINE G == {s \in SUBSET D : h[s] \in Int}
<1>2. ASSUME NEW s \in SUBSET D, \A t \in SUBSET s : t # s => t \in G
      PROVE  s \in G
  <2>1. CASE s = {}
    BY <1>1, <2>1 DEF IsTable
  <2>2. CASE s # {}
    <3>1. Pick(s) \in s
      BY <2>2 DEF Pick
    <3>2. h[s \ {Pick(s)}] \in Int
      BY <1>2, <3>1
    <3>3. h[s] = f[Pick(s)] + h[s \ {Pick(s)}]
      BY <1>1, <2>2 DEF IsTable
    <3> QED BY <3>1, <3>2, <3>3
  <2> QED BY <2>1, <2>2
<1>3. \A s \in SUBSET D : s \in G
  <2> HIDE DEF G
  <2> QED BY <1>2, SubsetInduction
<1> QED BY <1>1, <1>3

\* The sum of a pointwise sum is the sum of the sums.
THEOREM SumPlus ==
  ASSUME NEW D, IsFiniteSet(D), NEW f \in [D -> Int], NEW g \in [D -> Int],
         NEW e \in [D -> Int], \A x \in D : e[x] = f[x] + g[x]
  PROVE  SumFunction(e) = SumFunction(f) + SumFunction(g)
<1>1. PICK hf : IsTable(hf, f, D) /\ SumFunction(f) = hf[D]
  BY SumFromTable
<1>2. PICK hg : IsTable(hg, g, D) /\ SumFunction(g) = hg[D]
  BY SumFromTable
<1>3. PICK he : IsTable(he, e, D) /\ SumFunction(e) = he[D]
  BY SumFromTable
<1> DEFINE G == {s \in SUBSET D : /\ hf[s] \in Int /\ hg[s] \in Int
                                  /\ he[s] = hf[s] + hg[s]}
<1>4. ASSUME NEW s \in SUBSET D, \A t \in SUBSET s : t # s => t \in G
      PROVE  s \in G
  <2>1. CASE s = {}
    BY <1>1, <1>2, <1>3, <2>1 DEF IsTable
  <2>2. CASE s # {}
    <3> DEFINE r == s \ {Pick(s)}
    <3>1. Pick(s) \in s
      BY <2>2 DEF Pick
    <3>2. r \in G
      BY <1>4, <3>1
    <3>3. hf[s] = f[Pick(s)] + hf[r]
      BY <1>1, <2>2 DEF IsTable
    <3>4. hg[s] = g[Pick(s)] + hg[r]
      BY <1>2, <2>2 DEF IsTable
    <3>5. he[s] = e[Pick(s)] + he[r]
      BY <1>3, <2>2 DEF IsTable
    <3>6. e[Pick(s)] = f[Pick(s)] + g[Pick(s)] /\ Pick(s) \in D
      BY <3>1
    <3>7. f[Pick(s)] \in Int /\ g[Pick(s)] \in Int
      BY <3>6
    <3>8. hf[r] \in Int /\ hg[r] \in Int /\ he[r] = hf[r] + hg[r]
      BY <3>2
    <3> HIDE DEF r
    <3> QED BY <3>3, <3>4, <3>5, <3>6, <3>7, <3>8
  <2> QED BY <2>1, <2>2
<1>5. \A s \in SUBSET D : s \in G
  <2> HIDE DEF G
  <2> QED BY <1>4, SubsetInduction
<1> QED BY <1>1, <1>2, <1>3, <1>5

\* Changing one entry changes the sum by the difference.
THEOREM SumUpdate ==
  ASSUME NEW D, IsFiniteSet(D), NEW f \in [D -> Int], NEW g \in [D -> Int],
         NEW y \in D, \A x \in D : x # y => g[x] = f[x]
  PROVE  SumFunction(g) = SumFunction(f) + g[y] - f[y]
<1>1. PICK hf : IsTable(hf, f, D) /\ SumFunction(f) = hf[D]
  BY SumFromTable
<1>2. PICK hg : IsTable(hg, g, D) /\ SumFunction(g) = hg[D]
  BY SumFromTable
<1> DEFINE change(s) == IF y \in s THEN g[y] - f[y] ELSE 0
           G == {s \in SUBSET D : /\ hf[s] \in Int /\ hg[s] \in Int
                                  /\ hg[s] = hf[s] + change(s)}
<1>3. ASSUME NEW s \in SUBSET D, \A t \in SUBSET s : t # s => t \in G
      PROVE  s \in G
  <2>1. CASE s = {}
    BY <1>1, <1>2, <2>1 DEF IsTable
  <2>2. CASE s # {}
    <3> DEFINE x == Pick(s)
               r == s \ {x}
    <3>1. x \in s /\ x \in D
      BY <2>2 DEF Pick
    <3>2. r \in G
      BY <1>3, <3>1
    <3>3. hf[s] = f[x] + hf[r]
      BY <1>1, <2>2 DEF IsTable
    <3>4. hg[s] = g[x] + hg[r]
      BY <1>2, <2>2 DEF IsTable
    <3>5. f[x] \in Int /\ g[x] \in Int /\ f[y] \in Int /\ g[y] \in Int
      BY <3>1
    <3>6. hf[r] \in Int /\ hg[r] \in Int /\ hg[r] = hf[r] + change(r)
      BY <3>2
    <3>7. CASE x = y
      <4>1. change(r) = 0 /\ change(s) = g[x] - f[x]
        BY <3>1, <3>7
      <4> HIDE DEF change, r, x
      <4>2. hg[s] = hf[s] + change(s) /\ hf[s] \in Int /\ hg[s] \in Int
        BY <3>3, <3>4, <3>5, <3>6, <4>1
      <4> QED BY <4>2
    <3>8. CASE x # y
      <4>1. change(r) = change(s) /\ g[x] = f[x] /\ change(s) \in Int
        BY <3>1, <3>5, <3>8
      <4> HIDE DEF change, r, x
      <4>2. hg[s] = hf[s] + change(s) /\ hf[s] \in Int /\ hg[s] \in Int
        BY <3>3, <3>4, <3>5, <3>6, <4>1
      <4> QED BY <4>2
    <3> QED BY <3>7, <3>8
  <2> QED BY <2>1, <2>2
<1>4. \A s \in SUBSET D : s \in G
  <2> HIDE DEF G
  <2> QED BY <1>3, SubsetInduction
<1>5. hf[D] \in Int /\ hg[D] = hf[D] + g[y] - f[y]
  BY <1>4
<1> QED BY <1>1, <1>2, <1>5

\* The sum of natural numbers is a natural number.
THEOREM SumNat ==
  ASSUME NEW D, IsFiniteSet(D), NEW f \in [D -> Nat]
  PROVE  SumFunction(f) \in Nat
<1>1. PICK h : IsTable(h, f, D) /\ SumFunction(f) = h[D]
  BY SumFromTable
<1> DEFINE G == {s \in SUBSET D : h[s] \in Nat}
<1>2. ASSUME NEW s \in SUBSET D, \A t \in SUBSET s : t # s => t \in G
      PROVE  s \in G
  <2>1. CASE s = {}
    BY <1>1, <2>1 DEF IsTable
  <2>2. CASE s # {}
    <3>1. Pick(s) \in s
      BY <2>2 DEF Pick
    <3>2. h[s \ {Pick(s)}] \in Nat
      BY <1>2, <3>1
    <3>3. h[s] = f[Pick(s)] + h[s \ {Pick(s)}]
      BY <1>1, <2>2 DEF IsTable
    <3> QED BY <3>1, <3>2, <3>3
  <2> QED BY <2>1, <2>2
<1>3. \A s \in SUBSET D : s \in G
  <2> HIDE DEF G
  <2> QED BY <1>2, SubsetInduction
<1> QED BY <1>1, <1>3

\* The sum of zeros is zero.
THEOREM SumZero ==
  ASSUME NEW D, IsFiniteSet(D), NEW f \in [D -> Int], \A x \in D : f[x] = 0
  PROVE  SumFunction(f) = 0
<1>1. SumFunction(f) \in Int
  BY SumInt
<1>2. SumFunction(f) = SumFunction(f) + SumFunction(f)
  <2>1. \A x \in D : f[x] = f[x] + f[x]
    OBVIOUS
  <2> QED BY <2>1, SumPlus
<1>3. \A n \in Int : n = n + n => n = 0
  OBVIOUS
<1> QED BY <1>1, <1>2, <1>3

\* A sum of natural numbers is at least each of them.
THEOREM SumAtLeast ==
  ASSUME NEW D, IsFiniteSet(D), NEW f \in [D -> Nat], NEW y \in D
  PROVE  f[y] <= SumFunction(f)
<1> DEFINE g == [x \in D |-> IF x = y THEN 0 ELSE f[x]]
<1>1. g \in [D -> Nat] /\ g[y] = 0
  OBVIOUS
<1>2. SumFunction(g) \in Nat /\ SumFunction(f) \in Nat
  <2> HIDE DEF g
  <2> QED BY <1>1, SumNat
<1>3. SumFunction(g) = SumFunction(f) + g[y] - f[y]
  <2>1. \A x \in D : x # y => g[x] = f[x]
    OBVIOUS
  <2>2. g \in [D -> Int] /\ f \in [D -> Int]
    BY <1>1
  <2> HIDE DEF g
  <2> QED BY <2>1, <2>2, SumUpdate
<1> HIDE DEF g
<1>4. f[y] \in Nat
  OBVIOUS
<1> QED BY <1>1, <1>2, <1>3, <1>4

\* A table of integers adds up to the same by columns and by rows.
THEOREM SumExchange ==
  ASSUME NEW P, IsFiniteSet(P), NEW Q, IsFiniteSet(Q), NEW m \in [P -> [Q -> Int]]
  PROVE  SumFunction([q \in Q |-> SumFunction([p \in P |-> m[p][q]])])
           = SumFunction([p \in P |-> SumFunction(m[p])])
<1> DEFINE cell(s, p, q) == IF p \in s THEN m[p][q] ELSE 0
           column(s, q)  == [p \in P |-> cell(s, p, q)]
           row(s, p)     == [q \in Q |-> cell(s, p, q)]
           columns(s)    == [q \in Q |-> SumFunction(column(s, q))]
           rows(s)       == [p \in P |-> SumFunction(row(s, p))]
           G == {s \in SUBSET P : SumFunction(columns(s)) = SumFunction(rows(s))}
<1>1. \A s, p, q : p \in P /\ q \in Q => cell(s, p, q) \in Int
  OBVIOUS
<1>2. ASSUME NEW s, NEW q \in Q
      PROVE  column(s, q) \in [P -> Int] /\ SumFunction(column(s, q)) \in Int
  <2> HIDE DEF cell
  <2>1. column(s, q) \in [P -> Int]
    BY <1>1
  <2> HIDE DEF column
  <2> QED BY <2>1, SumInt
<1>3. ASSUME NEW s, NEW p \in P
      PROVE  row(s, p) \in [Q -> Int] /\ SumFunction(row(s, p)) \in Int
  <2> HIDE DEF cell
  <2>1. row(s, p) \in [Q -> Int]
    BY <1>1
  <2> HIDE DEF row
  <2> QED BY <2>1, SumInt
<1>4. ASSUME NEW s
      PROVE  columns(s) \in [Q -> Int] /\ rows(s) \in [P -> Int]
  <2> HIDE DEF column, row
  <2> QED BY <1>2, <1>3
<1>5. ASSUME NEW s \in SUBSET P, \A t \in SUBSET s : t # s => t \in G
      PROVE  s \in G
  <2>1. CASE s = {}
    <3>1. ASSUME NEW q \in Q PROVE SumFunction(column(s, q)) = 0
      <4>1. \A p \in P : column(s, q)[p] = 0
        BY <2>1
      <4> HIDE DEF column
      <4> QED BY <1>2, <4>1, SumZero
    <3>2. ASSUME NEW p \in P PROVE SumFunction(row(s, p)) = 0
      <4>1. \A q \in Q : row(s, p)[q] = 0
        BY <2>1
      <4> HIDE DEF row
      <4> QED BY <1>3, <4>1, SumZero
    <3> HIDE DEF column, row
    <3>3. (\A q \in Q : columns(s)[q] = 0) /\ (\A p \in P : rows(s)[p] = 0)
      BY <3>1, <3>2
    <3> HIDE DEF columns, rows
    <3>4. SumFunction(columns(s)) = 0 /\ SumFunction(rows(s)) = 0
      BY <1>4, <3>3, SumZero
    <3> QED BY <3>4
  <2>2. CASE s # {}
    <3>1. PICK x \in s : TRUE
      BY <2>2
    <3> DEFINE t == s \ {x}
    <3>2. /\ t \in SUBSET P /\ t # s /\ x \in P /\ x \notin t
          /\ \A p \in P : p # x => (p \in t <=> p \in s)
      BY <3>1
    <3> HIDE DEF t
    <3>3. SumFunction(columns(t)) = SumFunction(rows(t))
      <4>1. t \in SUBSET s
        BY DEF t
      <4>2. t \in G
        BY <1>5, <3>2, <4>1
      <4> HIDE DEF columns, rows
      <4> QED BY <4>2
    <3>4. ASSUME NEW q \in Q
          PROVE  SumFunction(column(s, q)) = SumFunction(column(t, q)) + m[x][q]
      <4>1. /\ column(s, q)[x] = m[x][q] /\ column(t, q)[x] = 0
            /\ m[x][q] \in Int
            /\ \A p \in P : p # x => column(s, q)[p] = column(t, q)[p]
        BY <3>1, <3>2
      <4>2. /\ column(s, q) \in [P -> Int] /\ column(t, q) \in [P -> Int]
            /\ SumFunction(column(t, q)) \in Int
        BY <1>2
      <4> HIDE DEF column
      <4>3. SumFunction(column(s, q)) = SumFunction(column(t, q))
              + column(s, q)[x] - column(t, q)[x]
        <5>1. PICK f : f = column(t, q)
          OBVIOUS
        <5>2. PICK g : g = column(s, q)
          OBVIOUS
        <5>3. f \in [P -> Int] /\ g \in [P -> Int] /\ \A p \in P : p # x => g[p] = f[p]
          BY <4>1, <4>2, <5>1, <5>2
        <5>4. SumFunction(g) = SumFunction(f) + g[x] - f[x]
          BY <3>2, <5>3, SumUpdate
        <5> QED BY <5>1, <5>2, <5>4
      <4> QED BY <4>1, <4>2, <4>3
    <3>5. SumFunction(columns(s)) = SumFunction(columns(t)) + SumFunction(m[x])
      <4>1. m[x] \in [Q -> Int]
        BY <3>2
      <4> HIDE DEF column
      <4>2. \A q \in Q : columns(s)[q] = columns(t)[q] + m[x][q]
        BY <3>4
      <4> HIDE DEF columns
      <4> QED BY <1>4, <4>1, <4>2, SumPlus
    <3>6. SumFunction(rows(s)) = SumFunction(rows(t)) + SumFunction(m[x])
      <4>1. row(s, x) = m[x]
        BY <3>1, <3>2
      <4>2. \A q \in Q : row(t, x)[q] = 0
        BY <3>2
      <4>3. SumFunction(row(t, x)) = 0
        <5> HIDE DEF row
        <5> QED BY <1>3, <3>2, <4>2, SumZero
      <4>4. \A p \in P : p # x => row(s, p) = row(t, p)
        BY <3>2
      <4> HIDE DEF row
      <4>5. /\ rows(s)[x] = SumFunction(m[x]) /\ rows(t)[x] = 0
            /\ \A p \in P : p # x => rows(s)[p] = rows(t)[p]
        BY <3>2, <4>1, <4>3, <4>4
      <4>6. SumFunction(m[x]) \in Int
        BY <1>3, <3>2, <4>1
      <4> HIDE DEF rows
      <4>7. SumFunction(rows(t)) \in Int
        BY <1>4, SumInt
      <4>8. SumFunction(rows(s)) = SumFunction(rows(t)) + rows(s)[x] - rows(t)[x]
        BY <1>4, <3>2, <4>5, SumUpdate
      <4> QED BY <4>5, <4>6, <4>7, <4>8
    <3> HIDE DEF columns, rows
    <3> QED BY <3>3, <3>5, <3>6
  <2> QED BY <2>1, <2>2
<1>6. P \in G
  <2>1. \A s \in SUBSET P : s \in G
    <3> HIDE DEF G
    <3> QED BY <1>5, SubsetInduction
  <2> QED BY <2>1
<1>7. /\ \A q \in Q : column(P, q) = [p \in P |-> m[p][q]]
      /\ \A p \in P : row(P, p) = m[p]
  OBVIOUS
<1>8. /\ columns(P) = [q \in Q |-> SumFunction([p \in P |-> m[p][q]])]
      /\ rows(P) = [p \in P |-> SumFunction(m[p])]
  <2> HIDE DEF column, row
  <2> QED BY <1>7
<1> HIDE DEF columns, rows
<1> QED BY <1>6, <1>8

-----------------------------------------------------------------------------
\* The sum of a part of a function's domain.
SumOn(T, f) == SumFunction([x \in T |-> f[x]])

\* A sum is its first term and the sum of the rest, whatever the domain.
LEMMA SumStep ==
  ASSUME NEW T, IsFiniteSet(T), T # {}, NEW f
  PROVE  SumOn(T, f) = f[Pick(T)] + SumOn(T \ {Pick(T)}, f)
<1> DEFINE p == Pick(T)
           R == T \ {p}
           g == [x \in T |-> f[x]]
           e == [x \in R |-> f[x]]
<1>0. p \in T /\ IsFiniteSet(R)
  BY FS_RemoveElement DEF Pick
<1>1. PICK h : IsTable(h, g, T) /\ SumFunction(g) = h[T]
  <2>1. DOMAIN g = T
    OBVIOUS
  <2> HIDE DEF g
  <2> QED BY <2>1, SumFromTable
<1>2. PICK k : IsTable(k, e, R) /\ SumFunction(e) = k[R]
  <2>1. DOMAIN e = R
    OBVIOUS
  <2> HIDE DEF e, R
  <2> QED BY <1>0, <2>1, SumFromTable
<1>3. IsTable(k, g, R)
  <2>1. \A s \in SUBSET R : s # {} => e[Pick(s)] = g[Pick(s)]
    BY DEF Pick
  <2>2. [s \in SUBSET R |-> IF s = {} THEN 0 ELSE e[Pick(s)] + k[s \ {Pick(s)}]]
          = [s \in SUBSET R |-> IF s = {} THEN 0 ELSE g[Pick(s)] + k[s \ {Pick(s)}]]
    <3> HIDE DEF e, g, R
    <3> QED BY <2>1
  <2> HIDE DEF e, g, R
  <2> QED BY <1>2, <2>2 DEF IsTable
<1>4. h[R] = k[R]
  <2> HIDE DEF e, g
  <2> QED BY <1>1, <1>3, TablesAgree
<1>5. h[T] = g[p] + h[R]
  <2> HIDE DEF e, g
  <2> QED BY <1>1 DEF IsTable
<1>6. g[p] = f[p]
  BY <1>0
<1> QED BY <1>1, <1>2, <1>4, <1>5, <1>6 DEF SumOn

LEMMA SumOnInt ==
  ASSUME NEW T, IsFiniteSet(T), NEW f, \A x \in T : f[x] \in Int
  PROVE  SumOn(T, f) \in Int
<1> DEFINE g == [x \in T |-> f[x]]
<1>1. g \in [T -> Int]
  OBVIOUS
<1> HIDE DEF g
<1>2. SumFunction(g) \in Int
  BY <1>1, SumInt
<1> QED BY <1>2 DEF g, SumOn

\* Any term may be the one that is taken off.
LEMMA SumRemove ==
  ASSUME NEW D, IsFiniteSet(D), NEW f \in [D -> Int]
  PROVE  \A T \in SUBSET D : \A y \in T : SumOn(T, f) = f[y] + SumOn(T \ {y}, f)
<1> DEFINE Off(T) == \A y \in T : SumOn(T, f) = f[y] + SumOn(T \ {y}, f)
           G == {T \in SUBSET D : Off(T)}
<1>1. ASSUME NEW T \in SUBSET D, \A U \in SUBSET T : U # T => U \in G
      PROVE  T \in G
  <2> SUFFICES ASSUME NEW y \in T PROVE SumOn(T, f) = f[y] + SumOn(T \ {y}, f)
    OBVIOUS
  <2> DEFINE p == Pick(T)
  <2>0. \A U \in SUBSET D : IsFiniteSet(U)
    BY FS_Subset
  <2>1. p \in T /\ SumOn(T, f) = f[p] + SumOn(T \ {p}, f)
    BY <2>0, SumStep DEF Pick
  <2>2. CASE y = p  BY <2>1, <2>2
  <2>3. CASE y # p
    <3> HIDE DEF p
    <3>1. SumOn(T \ {p}, f) = f[y] + SumOn((T \ {p}) \ {y}, f)
      <4>1. T \ {p} \in SUBSET T /\ T \ {p} # T /\ y \in T \ {p}
        BY <2>1, <2>3
      <4> QED BY <4>1, <1>1
    <3>2. SumOn(T \ {y}, f) = f[p] + SumOn((T \ {y}) \ {p}, f)
      <4>1. T \ {y} \in SUBSET T /\ T \ {y} # T /\ p \in T \ {y}
        BY <2>1, <2>3
      <4> QED BY <4>1, <1>1
    <3>3. (T \ {p}) \ {y} = (T \ {y}) \ {p}
      OBVIOUS
    <3>4. f[y] \in Int /\ f[p] \in Int /\ SumOn((T \ {y}) \ {p}, f) \in Int
      <4>1. (T \ {y}) \ {p} \in SUBSET D
        OBVIOUS
      <4>2. IsFiniteSet((T \ {y}) \ {p})
        BY <4>1, <2>0
      <4>3. \A x \in (T \ {y}) \ {p} : f[x] \in Int
        OBVIOUS
      <4> QED BY <2>1, <4>2, <4>3, SumOnInt
    <3> DEFINE rest == SumOn((T \ {y}) \ {p}, f)
               fp == f[p]
               fy == f[y]
    <3>5. SumOn(T \ {p}, f) = fy + rest
      BY <3>1, <3>3, Zenon
    <3>6. SumOn(T \ {y}, f) = fp + rest /\ SumOn(T, f) = fp + SumOn(T \ {p}, f)
      BY <2>1, <3>2
    <3>7. fy \in Int /\ fp \in Int /\ rest \in Int
      BY <3>4
    <3> HIDE DEF rest, fp, fy
    <3>8. SumOn(T, f) = fy + SumOn(T \ {y}, f)
      BY <3>5, <3>6, <3>7
    <3> QED BY <3>8 DEF fy
  <2> QED BY <2>2, <2>3
<1>2. \A T \in SUBSET D : T \in G
  <2> HIDE DEF G
  <2> QED BY <1>1, SubsetInduction
<1> QED BY <1>2

\* Terms that are zero may be left out.
THEOREM SumWithin ==
  ASSUME NEW D, IsFiniteSet(D), NEW f \in [D -> Int], NEW S \in SUBSET D,
         \A x \in D \ S : f[x] = 0
  PROVE  SumFunction(f) = SumFunction([x \in S |-> f[x]])
<1> DEFINE G == {T \in SUBSET D : S \subseteq T => SumOn(T, f) = SumOn(S, f)}
<1>1. ASSUME NEW T \in SUBSET D, \A U \in SUBSET T : U # T => U \in G
      PROVE  T \in G
  <2> SUFFICES ASSUME S \subseteq T PROVE SumOn(T, f) = SumOn(S, f)
    OBVIOUS
  <2>1. CASE S = T  BY <2>1
  <2>2. CASE S # T
    <3>1. PICK y \in T : y \notin S
      BY <2>2
    <3>2. SumOn(T, f) = f[y] + SumOn(T \ {y}, f)
      BY SumRemove
    <3>3. f[y] = 0
      BY <3>1
    <3>4. SumOn(T \ {y}, f) = SumOn(S, f)
      BY <1>1, <3>1
    <3>5. SumOn(S, f) \in Int
      BY FS_Subset, SumOnInt
    <3> QED BY <3>2, <3>3, <3>4, <3>5
  <2> QED BY <2>1, <2>2
<1>2. D \in G
  <2> HIDE DEF G
  <2> QED BY <1>1, SubsetInduction
<1>3. SumOn(D, f) = SumFunction(f)
  <2>1. [x \in D |-> f[x]] = f
    OBVIOUS
  <2> QED BY <2>1 DEF SumOn
<1> QED BY <1>2, <1>3 DEF SumOn
=============================================================================
