--------------------------- MODULE RunQueueProofs ---------------------------
(***************************************************************************)
(* Proofs about the run queue.  Eight parts: induction over the naturals   *)
(* and what the recursions of the model compute; dependencies first;       *)
(* types; no work is doubled; the collapsed graph is reachability; inputs  *)
(* are there; success is complete; verdicts are true.                      *)
(*                                                                         *)
(* The library's induction theorems take an operator and cannot be used,   *)
(* so induction is over sets (Induct): "every n with the property is in a  *)
(* set" follows from the well-foundedness of <.                            *)
(***************************************************************************)
EXTENDS RunQueue, FiniteSetTheorems, WellFoundedInduction, TLAPS

\* Induction over the naturals for a set: what holds is put as membership.
LEMMA Induct ==
  ASSUME NEW S, 0 \in S, \A n \in Nat : n \in S => n + 1 \in S
  PROVE  \A n \in Nat : n \in S
<1>1. SUFFICES ASSUME NEW k \in Nat, k \notin S PROVE FALSE
  OBVIOUS
<1> DEFINE R == OpToRel(<, Nat)
<1>2. \A x, y \in Nat : x < y => <<x, y>> \in R
  BY DEF OpToRel
<1>3. IsWellFoundedOn(R, Nat)
  BY NatLessThanWellFounded
<1> HIDE DEF R
<1>4. PICK m \in Nat \ S : \A y \in Nat \ S : ~ (<<y, m>> \in R)
  BY <1>1, <1>3, WFMin
<1>5. m # 0 /\ m - 1 \in Nat /\ m - 1 < m
  BY <1>4
<1>6. m - 1 \in S
  BY <1>2, <1>4, <1>5
<1>7. (m - 1) + 1 \in S
  BY <1>5, <1>6
<1> QED  BY <1>4, <1>7

\* A set of naturals has a least element.
LEMMA Least ==
  ASSUME NEW S \in SUBSET Nat, S # {}
  PROVE  \E m \in S : \A k \in S : m <= k
<1> SUFFICES ASSUME \A m \in S : \E k \in S : ~(m <= k) PROVE FALSE
  OBVIOUS
<1> DEFINE E == {n \in Nat : \A k \in S : n <= k}
<1>1. 0 \in E
  OBVIOUS
<1>2. ASSUME NEW n \in Nat, n \in E PROVE n + 1 \in E
  <2>1. n \notin S
    BY <1>2
  <2> QED  BY <1>2, <2>1
<1>3. \A n \in Nat : n \in E
  <2> HIDE DEF E
  <2> QED  BY <1>1, <1>2, Induct
<1>4. PICK k \in S : TRUE
  OBVIOUS
<1>5. k + 1 \in E
  BY <1>3, <1>4
<1> QED  BY <1>4, <1>5

\* Recursion over the naturals with a step that is a function.
LEMMA Recursion ==
  ASSUME NEW V, NEW a \in V, NEW h \in [V -> V]
  PROVE  \E f \in [Nat -> V] : \A n \in Nat : f[n] = IF n = 0 THEN a ELSE h[f[n - 1]]
<1> DEFINE Good(g, n) == g[0] = a /\ \A i \in 0..(n - 1) : g[i + 1] = h[g[i]]
           S == {n \in Nat : \E g \in [0..n -> V] : Good(g, n)}
<1>1. 0 \in S
  <2>1. [i \in 0..0 |-> a] \in [0..0 -> V] /\ Good([i \in 0..0 |-> a], 0)
    OBVIOUS
  <2> QED  BY <2>1
<1>2. ASSUME NEW n \in Nat, n \in S PROVE n + 1 \in S
  <2>1. PICK g \in [0..n -> V] : Good(g, n)
    BY <1>2
  <2> DEFINE g2 == [i \in 0..(n + 1) |-> IF i = n + 1 THEN h[g[n]] ELSE g[i]]
  <2>2. g2 \in [0..(n + 1) -> V]
    OBVIOUS
  <2>3. Good(g2, n + 1)
    BY <2>1
  <2> QED  BY <2>2, <2>3
<1>3. \A n \in Nat : n \in S
  <2> HIDE DEF S
  <2> QED BY <1>1, <1>2, Induct
<1>4. ASSUME NEW n \in Nat, NEW g \in [0..n -> V], Good(g, n),
             NEW m \in Nat, NEW k \in [0..m -> V], Good(k, m), n <= m
      PROVE  \A i \in 0..n : g[i] = k[i]
  <2> DEFINE E == {i \in Nat : i <= n => g[i] = k[i]}
  <2>1. 0 \in E
    BY <1>4
  <2>2. ASSUME NEW i \in Nat, i \in E PROVE i + 1 \in E
    BY <1>4, <2>2
  <2>3. \A i \in Nat : i \in E
    <3> HIDE DEF E
    <3> QED BY <2>1, <2>2, Induct
  <2> QED  BY <2>3
<1> DEFINE G == [n \in Nat |-> CHOOSE g \in [0..n -> V] : Good(g, n)]
           f == [n \in Nat |-> G[n][n]]
<1>5. \A n \in Nat : G[n] \in [0..n -> V] /\ Good(G[n], n)
  <2> HIDE DEF Good
  <2>1. ASSUME NEW n \in Nat PROVE \E g \in [0..n -> V] : Good(g, n)
    BY <1>3
  <2> QED  BY <2>1
<1>6. ASSUME NEW n \in Nat PROVE f[n + 1] = h[f[n]]
  <2>1. G[n + 1][n] = G[n][n]
    <3> HIDE DEF Good, G
    <3>1. n + 1 \in Nat /\ n <= n + 1 /\ n \in 0..n
      OBVIOUS
    <3> QED  BY <1>4, <1>5, <3>1
  <2>2. G[n + 1][n + 1] = h[G[n + 1][n]]
    <3> HIDE DEF G
    <3>1. n + 1 \in Nat /\ n \in 0..((n + 1) - 1)
      OBVIOUS
    <3> QED  BY <1>5, <3>1
  <2>3. f[n] = G[n][n] /\ f[n + 1] = G[n + 1][n + 1]
    <3> HIDE DEF G
    <3> QED  OBVIOUS
  <2> HIDE DEF f
  <2> QED  BY <2>1, <2>2, <2>3
<1>7. f[0] = a
  <2> HIDE DEF G
  <2> QED BY <1>5
<1>8. f \in [Nat -> V]
  <2> HIDE DEF G, Good
  <2>1. ASSUME NEW n \in Nat PROVE G[n][n] \in V
    BY <1>5
  <2> QED  BY <2>1
<1>9. ASSUME NEW n \in Nat PROVE f[n] = IF n = 0 THEN a ELSE h[f[n - 1]]
  <2> HIDE DEF f
  <2>1. CASE n = 0
    BY <1>7, <2>1
  <2>2. CASE n # 0
    <3>1. n - 1 \in Nat /\ (n - 1) + 1 = n
      BY <2>2
    <3>2. f[(n - 1) + 1] = h[f[n - 1]]
      BY <1>6, <3>1
    <3> QED  BY <2>2, <3>1, <3>2
  <2> QED  BY <2>1, <2>2
<1> QED  BY <1>8, <1>9

\* What is defined so stays in V.
LEMMA Unfold ==
  ASSUME NEW V, NEW a \in V, NEW h \in [V -> V], NEW f,
         f[0] = a, \A n \in Nat \ {0} : f[n - 1] \in V => f[n] = h[f[n - 1]]
  PROVE  \A n \in Nat : f[n] \in V /\ f[n + 1] = h[f[n]]
<1>2. ASSUME NEW n \in Nat, f[n] \in V PROVE f[n + 1] = h[f[n]]
  <2>1. n + 1 \in Nat /\ n + 1 # 0 /\ (n + 1) - 1 = n
    OBVIOUS
  <2> QED  BY <1>2, <2>1
<1> DEFINE E == {n \in Nat : f[n] \in V}
<1>3. 0 \in E
  OBVIOUS
<1>4. \A n \in Nat : n \in E => n + 1 \in E
  BY <1>2
<1>5. \A n \in Nat : n \in E
  <2> HIDE DEF E
  <2> QED  BY <1>3, <1>4, Induct
<1> QED  BY <1>2, <1>5

\* A growing chain of subsets of S that stands still once it stood still has
\* done so after as many steps as S has elements.
LEMMA Chain ==
  ASSUME NEW S, IsFiniteSet(S), NEW f \in [Nat -> SUBSET S],
         \A n \in Nat : f[n] \subseteq f[n + 1],
         \A n \in Nat : f[n + 1] = f[n] => f[(n + 1) + 1] = f[n + 1]
  PROVE  f[Cardinality(S) + 1] = f[Cardinality(S)]
<1>1. \A T \in SUBSET S : IsFiniteSet(T) /\ Cardinality(T) \in Nat
  BY FS_Subset, FS_CardinalityType
<1>2. Cardinality(S) \in Nat
  BY FS_CardinalityType
<1> DEFINE E == {n \in Nat : f[n + 1] = f[n] \/ Cardinality(f[n]) >= n}
<1>3. 0 \in E
  BY <1>1
<1>4. ASSUME NEW n \in Nat, n \in E PROVE n + 1 \in E
  <2>1. CASE f[n + 1] = f[n]
    BY <2>1
  <2>2. CASE f[n + 1] # f[n] /\ Cardinality(f[n]) >= n
    <3>1. f[n + 1] \in SUBSET S /\ f[n] \in SUBSET S
      OBVIOUS
    <3>2. Cardinality(f[n]) < Cardinality(f[n + 1])
      BY <1>1, <2>2, <3>1, FS_Subset
    <3>3. Cardinality(f[n]) \in Nat /\ Cardinality(f[n + 1]) \in Nat
      BY <1>1, <3>1
    <3> QED  BY <2>2, <3>2, <3>3
  <2> QED  BY <1>4, <2>1, <2>2
<1>5. Cardinality(S) \in E
  <2> HIDE DEF E
  <2> QED  BY <1>2, <1>3, <1>4, Induct
<1>6. CASE Cardinality(f[Cardinality(S)]) >= Cardinality(S)
  <2>1. f[Cardinality(S)] \in SUBSET S /\ f[Cardinality(S) + 1] \in SUBSET S
    BY <1>2
  <2>2. f[Cardinality(S)] = S
    BY <1>1, <1>2, <1>6, <2>1, FS_Subset
  <2> QED  BY <1>2, <2>1, <2>2
<1> QED  BY <1>5, <1>6

\* The sets of tasks: what the recursions of the model run over.
TaskSets == SUBSET Tasks

\* A function that adds to a set of tasks again and again comes, after as many
\* steps as there are tasks, to the least set that nothing is added to.
LEMMA Closure ==
  ASSUME NEW a \in TaskSets, NEW h \in [TaskSets -> TaskSets],
         \A g \in TaskSets : g \subseteq h[g], NEW f,
         f[0] = a, \A n \in Nat \ {0} : f[n - 1] \in TaskSets => f[n] = h[f[n - 1]]
  PROVE  /\ f[Cardinality(Tasks)] \in TaskSets /\ a \subseteq f[Cardinality(Tasks)]
         /\ h[f[Cardinality(Tasks)]] = f[Cardinality(Tasks)]
         /\ \A T : a \subseteq T /\ (\A g \in TaskSets : g \subseteq T => h[g] \subseteq T)
                 => f[Cardinality(Tasks)] \subseteq T
<1> DEFINE N == Cardinality(Tasks)
           F == [n \in Nat |-> f[n]]
<1>1. \A n \in Nat : f[n] \in TaskSets /\ f[n + 1] = h[f[n]]
  <2> DEFINE E == {n \in Nat : f[n] \in TaskSets}
  <2>1. 0 \in E
    OBVIOUS
  <2>2. ASSUME NEW n \in Nat, f[n] \in TaskSets PROVE f[n + 1] = h[f[n]] /\ f[n + 1] \in TaskSets
    <3>1. n + 1 \in Nat \ {0} /\ (n + 1) - 1 = n
      OBVIOUS
    <3>2. f[n + 1] = h[f[n]]
      BY <2>2, <3>1
    <3> QED  BY <2>2, <3>2
  <2>3. \A n \in Nat : n \in E => n + 1 \in E
    BY <2>2
  <2>4. \A n \in Nat : n \in E
    <3> HIDE DEF E
    <3> QED  BY <2>1, <2>3, Induct
  <2> QED  BY <2>2, <2>4
<1>2. N \in Nat
  BY TasksAssumption, FS_CardinalityType
<1>3. \A n \in Nat : F[n] = f[n] /\ F[n + 1] = f[n + 1] /\ F[(n + 1) + 1] = f[(n + 1) + 1]
  OBVIOUS
<1>4. F \in [Nat -> SUBSET Tasks]
  BY <1>1 DEF TaskSets
<1> HIDE DEF F
<1>5. ASSUME NEW n \in Nat PROVE F[n] \subseteq F[n + 1]
  <2>1. f[n] \in TaskSets /\ f[n + 1] = h[f[n]]
    BY <1>1
  <2> QED  BY <1>3, <2>1
<1>6. \A n \in Nat : F[n + 1] = F[n] => F[(n + 1) + 1] = F[n + 1]
  BY <1>1, <1>3
<1>7. F[N + 1] = F[N]
  BY <1>4, <1>5, <1>6, TasksAssumption, Chain
<1>8. a \subseteq f[N]
  <2> DEFINE E == {n \in Nat : a \subseteq f[n]}
  <2>1. 0 \in E /\ \A n \in Nat : n \in E => n + 1 \in E
    BY <1>1
  <2>2. \A n \in Nat : n \in E
    <3> HIDE DEF E
    <3> QED  BY <2>1, Induct
  <2> QED  BY <1>2, <2>2
<1>9. ASSUME NEW T, a \subseteq T, \A g \in TaskSets : g \subseteq T => h[g] \subseteq T
      PROVE  f[N] \subseteq T
  <2> DEFINE E == {n \in Nat : f[n] \subseteq T}
  <2>1. 0 \in E /\ \A n \in Nat : n \in E => n + 1 \in E
    BY <1>1, <1>9
  <2>2. \A n \in Nat : n \in E
    <3> HIDE DEF E
    <3> QED  BY <2>1, Induct
  <2> QED  BY <1>2, <2>2
<1> QED  BY <1>1, <1>2, <1>3, <1>7, <1>8, <1>9

\* What the state must satisfy for the graph's lemmas: a build.
BuildOK ==
  /\ rqdata.depends \in [Tasks -> SUBSET Tasks]
  /\ \A t \in Tasks : \A d \in rqdata.depends[t] : d < t
  /\ rqdata.setscene \subseteq Tasks
  /\ rqdata.hard \in [rqdata.setscene -> SUBSET rqdata.setscene]
  /\ rqdata.targets \subseteq Tasks

\* The unskippable tasks of sqdata: targets and end points are among them, and
\* what such a task without a setscene variant depends on.
LEMMA UnskippableIs ==
  ASSUME BuildOK
  PROVE  /\ Unskippable \subseteq Tasks
         /\ CantSkip \subseteq Unskippable
         /\ \A t \in Tasks : Revdeps(t) = {} => t \in Unskippable
         /\ \A t \in Unskippable \ Setscene : Depends(t) \subseteq Unskippable
<1> DEFINE a == {t \in Tasks : Revdeps(t) = {}} \union CantSkip
           step(g) == g \union UNION {Depends(t) : t \in g \ Setscene}
           e(g) == [n \in Nat |-> IF n = 0 THEN a ELSE step(g[n - 1])]
           grow == CHOOSE g : g = e(g)
           h == [g \in TaskSets |-> step(g)]
<1>1. Unskippable = grow[Cardinality(Tasks)]
  BY DEF Unskippable
<1>2. a \in TaskSets /\ h \in [TaskSets -> TaskSets]
  BY DEF TaskSets, BuildOK, CantSkip, Depends, Setscene
<1>3. \A g \in TaskSets : h[g] = step(g)
  OBVIOUS
<1>4. \A n \in Nat : grow[n] = IF n = 0 THEN a ELSE step(grow[n - 1])
  <2> HIDE DEF a, step, h
  <2>1. PICK f \in [Nat -> TaskSets] : \A n \in Nat : f[n] = IF n = 0 THEN a ELSE h[f[n - 1]]
    <3> HIDE DEF e
    <3> QED  BY <1>2, Recursion
  <2>2. f = e(f)
    <3>1. \A n \in Nat : n # 0 => f[n - 1] \in TaskSets
      OBVIOUS
    <3> QED  BY <1>3, <2>1, <3>1
  <2>3. grow = e(grow)
    <3> HIDE DEF e
    <3> QED  BY <2>2
  <2> HIDE DEF grow
  <2> QED  BY <2>3
<1>5. \A g \in TaskSets : g \subseteq h[g]
  OBVIOUS
<1> HIDE DEF grow, e
<1> DEFINE r == grow[Cardinality(Tasks)]
<1>6. r \in TaskSets /\ a \subseteq r /\ h[r] = r
  <2> HIDE DEF a, step, h
  <2>2. grow[0] = a /\ \A n \in Nat \ {0} : grow[n - 1] \in TaskSets => grow[n] = h[grow[n - 1]]
    BY <1>3, <1>4
  <2> QED  BY <1>2, <1>5, <2>2, Closure
<1>7. Unskippable \in TaskSets /\ a \subseteq Unskippable /\ step(Unskippable) = Unskippable
  BY <1>1, <1>3, <1>6
<1> QED  BY <1>7 DEF TaskSets

\* Below(s) is closed under the dependencies of tasks without a setscene
\* variant, and the least such set.
LEMMA BelowIs ==
  ASSUME BuildOK, NEW s \in Tasks
  PROVE  /\ Below(s) \subseteq Tasks
         /\ Depends(s) \subseteq Below(s)
         /\ \A t \in Below(s) \ Setscene : Depends(t) \subseteq Below(s)
         /\ \A T : Depends(s) \subseteq T /\ (\A t \in T \ Setscene :
             t \in Tasks => Depends(t) \subseteq T)
                 => Below(s) \subseteq T
<1> DEFINE a == Depends(s)
           step(g) == g \union UNION {Depends(t) : t \in g \ Setscene}
           e(g) == [n \in Nat |-> IF n = 0 THEN a ELSE step(g[n - 1])]
           down == CHOOSE g : g = e(g)
           h == [g \in TaskSets |-> step(g)]
<1>1. Below(s) = down[Cardinality(Tasks)]
  BY DEF Below
<1>2. a \in TaskSets /\ h \in [TaskSets -> TaskSets]
  BY DEF TaskSets, BuildOK, Depends, Setscene
<1>3. \A g \in TaskSets : h[g] = step(g)
  OBVIOUS
<1>4. \A n \in Nat : down[n] = IF n = 0 THEN a ELSE step(down[n - 1])
  <2> HIDE DEF a, step, h
  <2>1. PICK f \in [Nat -> TaskSets] : \A n \in Nat : f[n] = IF n = 0 THEN a ELSE h[f[n - 1]]
    <3> HIDE DEF e
    <3> QED  BY <1>2, Recursion
  <2>2. f = e(f)
    <3>1. \A n \in Nat : n # 0 => f[n - 1] \in TaskSets
      OBVIOUS
    <3> QED  BY <1>3, <2>1, <3>1
  <2>3. down = e(down)
    <3> HIDE DEF e
    <3> QED  BY <2>2
  <2> HIDE DEF down
  <2> QED  BY <2>3
<1>5. \A g \in TaskSets : g \subseteq h[g]
  OBVIOUS
<1> HIDE DEF down, e
<1> DEFINE r == down[Cardinality(Tasks)]
<1>6. /\ r \in TaskSets /\ a \subseteq r /\ h[r] = r
      /\ \A T : a \subseteq T /\ (\A g \in TaskSets : g \subseteq T => h[g] \subseteq T)
              => r \subseteq T
  <2> HIDE DEF a, step, h
  <2>1. down[0] = a /\ \A n \in Nat \ {0} : down[n - 1] \in TaskSets => down[n] = h[down[n - 1]]
    BY <1>3, <1>4
  <2> QED  BY <1>2, <1>5, <2>1, Closure
<1>7. Below(s) \in TaskSets /\ Depends(s) \subseteq Below(s) /\ step(Below(s)) = Below(s)
  BY <1>1, <1>3, <1>6
<1>8. ASSUME NEW T, Depends(s) \subseteq T, \A t \in T \ Setscene :
                 t \in Tasks => Depends(t) \subseteq T
      PROVE  Below(s) \subseteq T
  <2>1. ASSUME NEW g \in TaskSets, g \subseteq T PROVE h[g] \subseteq T
    <3>1. h[g] = g \union UNION {Depends(t) : t \in g \ Setscene}
      BY <1>3
    <3>2. \A t \in g : t \in Tasks /\ t \in T
      BY <2>1 DEF TaskSets
    <3> HIDE DEF h
    <3> QED  BY <1>8, <2>1, <3>1, <3>2
  <2> HIDE DEF h, r
  <2> QED  BY <1>1, <1>6, <1>8, <2>1 DEF r
<1> QED  BY <1>7, <1>8 DEF TaskSets

\* The tasks that fail with ts: closed under hard dependencies except for the
\* ones handled or with a stamp, which are not among them, and each for one
\* it cannot do without.
LEMMA FailsWithIs ==
  ASSUME BuildOK, NEW q, NEW ts \in SUBSET Setscene, NEW stamped
  PROVE  LET F == FailsWith(q, ts, stamped)
             handled == q.covered \union q.notcovered
         IN /\ ts \subseteq F /\ F \subseteq Setscene
            /\ \A t \in F : HardDependents(t) \subseteq F \union handled \union stamped
            /\ \A x \in F : x \in ts \/ x \notin handled \union stamped
            /\ \A x \in F : x \in ts \/ \E t \in F : x \in HardDependents(t)
            /\ ts = {} => F = {}
<1> DEFINE keep == q.covered \union q.notcovered \union stamped
           F == FailsWith(q, ts, stamped)
<1> DEFINE a == ts
           step(g) == g \union ((UNION {HardDependents(t) : t \in g}) \ keep)
           e(g) == [n \in Nat |-> IF n = 0 THEN a ELSE step(g[n - 1])]
           fails == CHOOSE g : g = e(g)
           h == [g \in TaskSets |-> step(g)]
<1>1. F = fails[Cardinality(Tasks)]
  BY DEF FailsWith, keep
<1> HIDE DEF keep
<1>2. a \in TaskSets /\ h \in [TaskSets -> TaskSets]
  BY DEF TaskSets, BuildOK, HardDependents, Setscene
<1>3. \A g \in TaskSets : h[g] = step(g)
  OBVIOUS
<1>4. \A n \in Nat : fails[n] = IF n = 0 THEN a ELSE step(fails[n - 1])
  <2> HIDE DEF a, step, h
  <2>1. PICK f \in [Nat -> TaskSets] : \A n \in Nat : f[n] = IF n = 0 THEN a ELSE h[f[n - 1]]
    <3> HIDE DEF e
    <3> QED  BY <1>2, Recursion
  <2>2. f = e(f)
    <3>1. \A n \in Nat : n # 0 => f[n - 1] \in TaskSets
      OBVIOUS
    <3> QED  BY <1>3, <2>1, <3>1
  <2>3. fails = e(fails)
    <3> HIDE DEF e
    <3> QED  BY <2>2
  <2> HIDE DEF fails
  <2> QED  BY <2>3
<1>5. \A g \in TaskSets : g \subseteq h[g]
  OBVIOUS
<1> HIDE DEF fails, e
<1> DEFINE r == fails[Cardinality(Tasks)]
<1>6. /\ r \in TaskSets /\ a \subseteq r /\ h[r] = r
      /\ \A T : a \subseteq T /\ (\A g \in TaskSets : g \subseteq T => h[g] \subseteq T)
              => r \subseteq T
  <2> HIDE DEF a, step, h
  <2>1. fails[0] = a /\ \A n \in Nat \ {0} : fails[n - 1] \in TaskSets => fails[n] = h[fails[n - 1]]
    BY <1>3, <1>4
  <2> QED  BY <1>2, <1>5, <2>1, Closure
<1> HIDE DEF F
<1>7. F \in TaskSets /\ ts \subseteq F /\ step(F) = F
  BY <1>1, <1>3, <1>6
<1>8. ASSUME NEW T, ts \subseteq T, \A g \in TaskSets : g \subseteq T => step(g) \subseteq T
      PROVE  F \subseteq T
  <2> HIDE DEF h, r, step
  <2> QED  BY <1>1, <1>3, <1>6, <1>8 DEF r
<1>9. F \subseteq Setscene
  <2>1. \A g \in TaskSets : g \subseteq Setscene => step(g) \subseteq Setscene
    BY DEF HardDependents
  <2> HIDE DEF step
  <2> QED  BY <1>8, <2>1
<1>10. F \subseteq ts \union (Tasks \ keep)
  <2>1. ASSUME NEW g \in TaskSets, g \subseteq ts \union (Tasks \ keep)
        PROVE  step(g) \subseteq ts \union (Tasks \ keep)
    <3>1. \A t : HardDependents(t) \subseteq Tasks
      BY DEF HardDependents, Setscene, BuildOK
    <3>2. ASSUME NEW x \in step(g) PROVE x \in ts \union (Tasks \ keep)
      <4>1. x \in g \/ (x \notin keep /\ \E t \in g : x \in HardDependents(t))
        OBVIOUS
      <4> HIDE DEF step
      <4> QED  BY <2>1, <3>1, <4>1
    <3> HIDE DEF step
    <3> QED  BY <3>2
  <2> HIDE DEF step, keep
  <2> QED  BY <1>8, <2>1
<1>11. F \subseteq {x \in Tasks : x \in ts \/ \E t \in F : x \in HardDependents(t)}
  <2> DEFINE T == {x \in F : x \in ts \/ \E t \in F : x \in HardDependents(t)}
  <2>1. \A g \in TaskSets : g \subseteq T => step(g) \subseteq T
    <3> SUFFICES ASSUME NEW g \in TaskSets, g \subseteq T, NEW x \in step(g) PROVE x \in T
      OBVIOUS
    <3>1. x \in step(F)
      OBVIOUS
    <3>2. x \in F
      BY <1>7, <3>1
    <3>3. x \in g \/ \E t \in g : x \in HardDependents(t)
      OBVIOUS
    <3> HIDE DEF step
    <3> QED  BY <3>2, <3>3
  <2>2. ts \subseteq T
    BY <1>7
  <2>3. F \subseteq T
    <3> HIDE DEF step, T
    <3> QED  BY <1>8, <2>1, <2>2
  <2> QED  BY <1>7, <2>3 DEF TaskSets
<1>12. ASSUME NEW t \in F, NEW x \in HardDependents(t) PROVE x \in F \union keep
  <2>1. x \in keep \/ x \in step(F)
    <3>1. x \in UNION {HardDependents(u) : u \in F}
      OBVIOUS
    <3> QED  BY <3>1
  <2> HIDE DEF step
  <2> QED  BY <1>7, <2>1
<1>13. ts = {} => F = {}
  <2>1. \A g \in TaskSets : g \subseteq {} => step(g) \subseteq {}
    OBVIOUS
  <2> HIDE DEF step
  <2> QED  BY <1>8, <2>1
<1> QED  BY <1>7, <1>9, <1>10, <1>11, <1>12, <1>13 DEF F, keep

\* A task without a setscene variant is among the done when all that needs it is.
Closed(done) == \A t \in Tasks \ Setscene : Revdeps(t) \subseteq done => t \in done

\* The walk of scenequeue_updatecounters() only adds tasks, and ends when there is
\* nothing to add.
LEMMA DoneWalkIs ==
  ASSUME BuildOK, NEW done \in SUBSET Tasks, NEW ts \in SUBSET Tasks
  PROVE  /\ DoneWalk(done, ts) \subseteq Tasks
         /\ done \union ts \subseteq DoneWalk(done, ts)
         /\ Closed(done) => Closed(DoneWalk(done, ts))
<1> DEFINE W == [done : SUBSET Tasks, next : SUBSET Tasks]
           new(w) == {d \in UNION {Depends(t) : t \in w.next} :
                        d \notin Setscene \union w.done /\ Revdeps(d) \subseteq w.done}
           step(w) == [done |-> w.done \union new(w), next |-> new(w)]
           a == [done |-> done \union ts, next |-> ts]
           e(g) == [n \in Nat |-> IF n = 0 THEN a ELSE step(g[n - 1])]
           walk == CHOOSE g : g = e(g)
           h == [w \in W |-> step(w)]
<1>1. DoneWalk(done, ts) = walk[Cardinality(Tasks)].done
  BY DEF DoneWalk
<1>2. a \in W /\ \A w \in W : step(w) \in W
  <2>1. ASSUME NEW w \in W PROVE new(w) \subseteq Tasks
    BY DEF BuildOK, Depends
  <2> QED  BY <2>1
<1>3. h \in [W -> W] /\ \A w \in W : h[w] = step(w)
  <2> HIDE DEF step, W
  <2> QED  BY <1>2
<1>4. \A n \in Nat : walk[n] = IF n = 0 THEN a ELSE step(walk[n - 1])
  <2> HIDE DEF a, step, h, W
  <2>1. PICK f \in [Nat -> W] : \A n \in Nat : f[n] = IF n = 0 THEN a ELSE h[f[n - 1]]
    <3> HIDE DEF e
    <3> QED  BY <1>2, <1>3, Recursion
  <2>2. f = e(f)
    <3>1. \A n \in Nat : n # 0 => f[n - 1] \in W
      OBVIOUS
    <3> QED  BY <1>3, <2>1, <3>1
  <2>3. walk = e(walk)
    <3> HIDE DEF e
    <3> QED  BY <2>2
  <2> HIDE DEF walk
  <2> QED  BY <2>3
<1> HIDE DEF walk, e
<1>5. \A n \in Nat : walk[n] \in W /\ walk[n + 1] = h[walk[n]]
  <2> HIDE DEF a, step, h, W
  <2>1. walk[0] = a /\ \A n \in Nat \ {0} : walk[n - 1] \in W => walk[n] = h[walk[n - 1]]
    BY <1>3, <1>4
  <2> QED  BY <1>2, <1>3, <2>1, Unfold
<1> DEFINE E == {n \in Nat : done \union ts \subseteq walk[n].done}
<1>6. 0 \in E
  <2>1. walk[0] = a
    <3> HIDE DEF a, step
    <3> QED  BY <1>4
  <2> QED  BY <2>1
<1>7. \A n \in Nat : n \in E => n + 1 \in E
  <2> SUFFICES ASSUME NEW n \in Nat, n \in E PROVE n + 1 \in E
    OBVIOUS
  <2>1. walk[n + 1].done = walk[n].done \union new(walk[n])
    <3>1. walk[n + 1] = step(walk[n])
      <4> HIDE DEF step, h, W
      <4> QED  BY <1>3, <1>5
    <3> HIDE DEF new
    <3> QED  BY <3>1
  <2> HIDE DEF new
  <2> QED  BY <2>1
<1>8. \A n \in Nat : n \in E
  <2> HIDE DEF E
  <2> QED  BY <1>6, <1>7, Induct
<1>9. Cardinality(Tasks) \in Nat
  BY TasksAssumption, FS_CardinalityType
<1>10. \A n \in Nat : walk[n] \in W /\ walk[n + 1] = step(walk[n])
  <2> HIDE DEF step, h, W
  <2> QED  BY <1>3, <1>5
<1>11. walk[0] = a
  <2> HIDE DEF a, step
  <2> QED  BY <1>4
<1> DEFINE f == [n \in Nat |-> walk[n].done]
<1>12. f \in [Nat -> SUBSET Tasks]
  <2> HIDE DEF step
  <2> QED  BY <1>10
<1> HIDE DEF h
<1>13. ASSUME NEW n \in Nat
       PROVE  /\ walk[n + 1].done = walk[n].done \union new(walk[n])
              /\ walk[n + 1].next = new(walk[n])
  <2>1. walk[n + 1] = step(walk[n])
    <3> HIDE DEF step
    <3> QED  BY <1>10
  <2> HIDE DEF new
  <2> QED  BY <2>1
<1>14. \A n \in Nat : f[n] = walk[n].done /\ f[n + 1] = walk[n + 1].done
                     /\ f[(n + 1) + 1] = walk[(n + 1) + 1].done
  OBVIOUS
<1> HIDE DEF step, a, f
<1>15. ASSUME NEW n \in Nat, f[n + 1] = f[n] PROVE walk[n + 1].next = {}
  <2>1. new(walk[n]) \intersect walk[n].done = {}
    OBVIOUS
  <2> HIDE DEF new
  <2> QED  BY <1>13, <1>14, <1>15, <2>1
<1>16. ASSUME NEW n \in Nat, f[n + 1] = f[n] PROVE f[(n + 1) + 1] = f[n + 1]
  <2>1. walk[n + 1].next = {}
    BY <1>15, <1>16
  <2>2. new(walk[n + 1]) = {}
    BY <2>1
  <2> HIDE DEF new
  <2>3. walk[(n + 1) + 1].done = walk[n + 1].done \union new(walk[n + 1])
    BY <1>13
  <2> QED  BY <1>14, <2>2, <2>3
<1>17. \A n \in Nat : f[n] \subseteq f[n + 1]
  <2> HIDE DEF new
  <2> QED  BY <1>13, <1>14
<1>18. f[Cardinality(Tasks) + 1] = f[Cardinality(Tasks)]
  BY <1>12, <1>16, <1>17, TasksAssumption, Chain
<1> DEFINE Owed(n) == \A t \in Tasks \ Setscene :
                        Revdeps(t) \subseteq walk[n].done /\ t \notin walk[n].done =>
                          Revdeps(t) \intersect walk[n].next # {}
           L == {n \in Nat : Owed(n)}
<1>19. Closed(done) => 0 \in L
  <2>1. walk[0].done = done \union ts /\ walk[0].next = ts
    BY <1>11 DEF a
  <2> QED  BY <2>1 DEF Closed
<1>20. ASSUME NEW n \in Nat, n \in L PROVE n + 1 \in L
  <2> SUFFICES ASSUME NEW t \in Tasks \ Setscene, Revdeps(t) \subseteq walk[n + 1].done,
                      t \notin walk[n + 1].done, Revdeps(t) \intersect walk[n + 1].next = {}
               PROVE  FALSE
    OBVIOUS
  <2>1. Revdeps(t) \subseteq walk[n].done /\ t \notin walk[n].done
    <3> HIDE DEF new
    <3> QED  BY <1>13
  <2>2. PICK r \in Revdeps(t) : r \in walk[n].next
    BY <1>20, <2>1
  <2>3. t \in new(walk[n])
    BY <2>1, <2>2 DEF Revdeps
  <2> HIDE DEF new
  <2> QED  BY <1>13, <2>3
<1>21. ASSUME Closed(done) PROVE Closed(DoneWalk(done, ts))
  <2>1. \A n \in Nat : n \in L
    <3> HIDE DEF L
    <3> QED  BY <1>19, <1>20, <1>21, Induct
  <2>2. Owed(Cardinality(Tasks) + 1) /\ walk[Cardinality(Tasks) + 1].next = {}
    BY <1>9, <1>15, <1>18, <2>1
  <2>3. walk[Cardinality(Tasks) + 1].done = walk[Cardinality(Tasks)].done
    BY <1>9, <1>14, <1>18
  <2> QED  BY <1>1, <2>2, <2>3 DEF Closed
<1> QED  BY <1>1, <1>5, <1>8, <1>9, <1>21

\* The steps that leave the tasks' dependencies and progress alone, or only
\* mark more tasks complete or more of the ready ones buildable.
LEMMA OnlyReady ==
  ASSUME DependenciesFirst, UNCHANGED rqdata,
         runq_complete \subseteq runq_complete',
         runq_buildable \subseteq runq_buildable',
         \A t \in runq_buildable' \ runq_buildable : Depends(t)' \subseteq runq_complete',
         runq_running' \subseteq runq_buildable'
  PROVE  DependenciesFirst'
<1>1. ASSUME NEW t \in runq_buildable'
      PROVE  Depends(t)' \subseteq runq_complete'
  <2>1. CASE t \in runq_buildable
    <3>1. Depends(t)' = Depends(t)
      BY DEF Depends
    <3>2. QED
      BY <2>1, <3>1 DEF DependenciesFirst
  <2>2. QED
    BY <2>1
<1>2. QED
  BY <1>1 DEF DependenciesFirst

\* task_completeoutright() makes a task buildable only when its last
\* dependency is complete.
LEMMA CompleteOutrightReady ==
  ASSUME NEW t, NEW buildable, CompleteOutright(t, buildable), UNCHANGED rqdata
  PROVE  /\ runq_complete \subseteq runq_complete'
         /\ buildable \subseteq runq_buildable'
         /\ \A r \in runq_buildable' \ buildable : Depends(r)' \subseteq runq_complete'
<1>1. \A r : Depends(r)' = Depends(r)
  BY DEF Depends
<1>2. QED
  BY <1>1 DEF CompleteOutright

\* Steps that change nothing of what the invariant is about.
LEMMA Elsewhere ==
  ASSUME DependenciesFirst,
         UNCHANGED <<rqdata, runq_buildable, runq_running, runq_complete>>
  PROVE  DependenciesFirst'
BY OnlyReady DEF DependenciesFirst

\* No step starts a task too early, or takes back what another one needs.
LEMMA DependenciesNext ==
  ASSUME DependenciesFirst, [Next]_vars PROVE DependenciesFirst'
<1> USE DependenciesFirst DEF Quiet, runqVars
<1>1. CASE SceneInit
  BY <1>1, Elsewhere DEF SceneInit
<1>2. CASE SceneStart
  <2>1. UNCHANGED <<rqdata, runq_running, runq_complete>>
    BY <1>2 DEF SceneStart
  <2>2. \A t : Depends(t)' = Depends(t)
    BY <2>1 DEF Depends
  <2>3. PICK roots \in SUBSET {t \in Tasks : Depends(t) = {}} :
          runq_buildable' = runq_buildable \union roots
    <3>1. (IF Setscene = {} THEN {t \in Tasks : Depends(t) = {}}
           ELSE {t \in Tasks : Depends(t) = {}} \intersect (sqdata.unskippable \ Setscene))
            \in SUBSET {t \in Tasks : Depends(t) = {}}
      OBVIOUS
    <3>2. QED
      BY <1>2, <3>1 DEF SceneStart
  <2>4. \A t \in runq_buildable' \ runq_buildable : Depends(t)' \subseteq runq_complete'
    BY <2>2, <2>3
  <2>5. QED
    BY <2>1, <2>3, <2>4, OnlyReady DEF DependenciesFirst
<1>3. CASE Finish \/ BuildDone \/ Shutdown \/ ForceShutdown
  BY <1>3, Elsewhere DEF Finish, BuildDone, Shutdown, ForceShutdown
<1>4. CASE ReadEnd \/ Migrate \/ TaskWait \/ ForceDeferred \/ QueueEmpty \/ Ended
  BY <1>4, Elsewhere DEF ReadEnd, Migrate, TaskWait, ForceDeferred, QueueEmpty, Ended, vars
<1>5. CASE HoldOffStep
  <2>1. UNCHANGED <<rqdata, runq_running, runq_complete>> /\ UpdateHoldOff
    BY <1>5 DEF HoldOffStep
  <2>2. \A t : Depends(t)' = Depends(t)
    BY <2>1 DEF Depends
  <2>3. CASE holdoff_need_update
    BY <2>1, <2>2, <2>3, OnlyReady DEF UpdateHoldOff, DependenciesFirst
  <2>4. CASE ~holdoff_need_update
    BY <2>1, <2>4, Elsewhere DEF UpdateHoldOff
  <2>5. QED
    BY <2>3, <2>4
<1>6. ASSUME NEW t \in Tasks, WorkerReport(t)
      PROVE  DependenciesFirst'
  <2>1. CASE TaskComplete(t)
    <3>1. CompleteOutright(t, runq_buildable) /\ UNCHANGED <<rqdata, runq_running>>
      BY <2>1 DEF TaskComplete
    <3>2. QED
      BY <3>1, CompleteOutrightReady, OnlyReady DEF DependenciesFirst
  <2>2. CASE TaskFail(t) \/ SceneComplete(t) \/ SceneFail(t)
    BY <2>2, Elsewhere DEF TaskFail, SceneComplete, SceneFail
  <2>3. CASE \E h \in Hashes : HashReport(t, h)
    BY <2>3, Elsewhere DEF HashReport
  <2>4. QED
    BY <1>6, <2>1, <2>2, <2>3 DEF WorkerReport
<1>7. ASSUME NEW n \in Tasks, SceneStep(n)
      PROVE  DependenciesFirst'
  BY <1>7, Elsewhere DEF SceneStep, SceneNotNeeded, SceneHardDefer, SceneReject, SceneRun
<1>8. ASSUME NEW t \in Tasks, TaskStep(t)
      PROVE  DependenciesFirst'
  <2>1. t \in runq_buildable /\ UNCHANGED rqdata /\ runq_running' = runq_running \union {t}
    BY <1>8 DEF TaskStep, TaskSkip, TaskNoExec, TaskRun, NextTasks
  <2>2. runq_buildable \union {t} = runq_buildable
    BY <2>1
  <2>3. CASE TaskSkip(t) \/ TaskNoExec(t)
    <3>1. CompleteOutright(t, runq_buildable)
      BY <2>2, <2>3 DEF TaskSkip, TaskNoExec
    <3>2. QED
      BY <2>1, <3>1, CompleteOutrightReady, OnlyReady DEF DependenciesFirst
  <2>4. CASE TaskRun(t)
    BY <2>1, <2>4, OnlyReady DEF TaskRun, DependenciesFirst
  <2>5. QED
    BY <1>8, <2>3, <2>4 DEF TaskStep
<1>9. CASE UNCHANGED vars
  BY <1>9, Elsewhere DEF vars
<1>10. QED
  BY <1>1, <1>2, <1>3, <1>4, <1>5, <1>6, <1>7, <1>8, <1>9 DEF Next

\* A task is started only after all it depends on is complete: the invariant
\* of the scheduler is inductive as it stands.
THEOREM DependenciesComeFirst == Spec => []DependenciesFirst
<1>1. Init => DependenciesFirst
  BY DEF Init, DependenciesFirst
<1>2. QED
  BY <1>1, DependenciesNext, PTL DEF Spec

\* StampCurrentDeep is a recursion down the dependencies: it satisfies its
\* equation, so that a task it holds of has a stamp.
LEMMA DeepHasStamp ==
  ASSUME BuildOK, NEW t \in Tasks, StampCurrentDeep[t]
  PROVE  StampCurrent(t)
<1> DEFINE Same(x, d) == rqdata.pn[d] = rqdata.pn[x]
           Now(x, C) == /\ StampCurrent(x)
                        /\ \A d \in Depends(x) : Same(x, d) => d \in C \/ d \in sstamp \ stamp
           h == [C \in TaskSets |-> {x \in Tasks : Now(x, C)}]
           e(f) == [x \in Tasks |-> /\ StampCurrent(x)
                                    /\ \A d \in Depends(x) :
                                         rqdata.pn[d] = rqdata.pn[x] =>
                                             f[d] \/ d \in sstamp \ stamp]
           cur == CHOOSE f : f = e(f)
<1>1. StampCurrentDeep = cur
  BY DEF StampCurrentDeep
<1>2. {} \in TaskSets /\ h \in [TaskSets -> TaskSets]
  BY DEF TaskSets
<1>3. PICK c \in [Nat -> TaskSets] : \A n \in Nat : c[n] = IF n = 0 THEN {} ELSE h[c[n - 1]]
  <2> HIDE DEF h
  <2> QED  BY <1>2, Recursion
<1>4. \A n \in Nat : c[n + 1] = {x \in Tasks : Now(x, c[n])}
  <2> SUFFICES ASSUME NEW n \in Nat PROVE c[n + 1] = {x \in Tasks : Now(x, c[n])}
    OBVIOUS
  <2>1. n + 1 \in Nat /\ n + 1 # 0 /\ (n + 1) - 1 = n
    OBVIOUS
  <2>2. c[n + 1] = h[c[n]]
    <3> HIDE DEF h
    <3> QED  BY <1>3, <2>1
  <2> HIDE DEF Now
  <2> QED  BY <2>2
<1>5. \A x \in Tasks : x \in Nat /\ \A d \in Depends(x) : d \in Tasks /\ d < x
  BY TasksAssumption DEF BuildOK, Depends
\* From step x + 1 on x is in all of them or in none.
<1> DEFINE E == {n \in Nat : \A x \in Tasks : x < n => (x \in c[n + 1] <=> x \in c[n])}
<1>6. 0 \in E
  BY <1>5
<1>7. ASSUME NEW n \in Nat, n \in E PROVE n + 1 \in E
  <2>1. ASSUME NEW x \in Tasks, x < n + 1 PROVE x \in c[(n + 1) + 1] <=> x \in c[n + 1]
    <3>1. \A d \in Depends(x) : d \in c[n + 1] <=> d \in c[n]
      BY <1>5, <1>7, <2>1
    <3>2. Now(x, c[n + 1]) <=> Now(x, c[n])
      BY <3>1
    <3>3. n + 1 \in Nat
      OBVIOUS
    <3> HIDE DEF Now
    <3> QED  BY <1>4, <3>2, <3>3
  <2> QED  BY <2>1
<1>8. \A n \in Nat : n \in E
  <2> HIDE DEF E
  <2> QED  BY <1>6, <1>7, Induct
<1> DEFINE f == [x \in Tasks |-> x \in c[x + 1]]
<1>9. ASSUME NEW x \in Tasks, NEW d \in Tasks, d < x PROVE d \in c[x] <=> d \in c[d + 1]
  <2> DEFINE D == {n \in Nat : d < n => (d \in c[n] <=> d \in c[d + 1])}
  <2>1. 0 \in D
    BY <1>5
  <2>2. ASSUME NEW n \in Nat, n \in D PROVE n + 1 \in D
    <3>1. CASE d < n
      BY <1>8, <2>2, <3>1
    <3>2. CASE ~(d < n)
      <4>1. d < n + 1 => d = n
        BY <1>5, <3>2
      <4> QED  BY <4>1
    <3> QED  BY <3>1, <3>2
  <2>3. \A n \in Nat : n \in D
    <3> HIDE DEF D
    <3> QED  BY <2>1, <2>2, Induct
  <2> QED  BY <1>5, <1>9, <2>3
<1>10. ASSUME NEW x \in Tasks
       PROVE  f[x] <=> /\ StampCurrent(x)
                       /\ \A d \in Depends(x) :
                            rqdata.pn[d] = rqdata.pn[x] => f[d] \/ d \in sstamp \ stamp
  <2>1. \A d \in Depends(x) : f[d] <=> d \in c[x]
    BY <1>5, <1>9
  <2>2. f[x] <=> Now(x, c[x])
    <3> HIDE DEF Now
    <3> QED  BY <1>4, <1>5
  <2> HIDE DEF f
  <2> QED  BY <2>1, <2>2
<1>11. f = e(f)
  <2> DEFINE B(x) == /\ StampCurrent(x)
                     /\ \A d \in Depends(x) :
                          rqdata.pn[d] = rqdata.pn[x] => f[d] \/ d \in sstamp \ stamp
  <2>1. ASSUME NEW x \in Tasks PROVE (x \in c[x + 1]) = B(x)
    <3>1. f[x] <=> x \in c[x + 1]
      OBVIOUS
    <3> HIDE DEF f
    <3>2. x \in c[x + 1] <=> B(x)
      BY <1>10, <3>1
    <3>3. B(x) \in BOOLEAN
      OBVIOUS
    <3> HIDE DEF B
    <3> QED  BY <3>2, <3>3
  <2>2. e(f) = [x \in Tasks |-> B(x)]
    <3> HIDE DEF f
    <3> QED  OBVIOUS
  <2> HIDE DEF B
  <2>3. [x \in Tasks |-> x \in c[x + 1]] = [x \in Tasks |-> B(x)]
    BY <2>1, Zenon
  <2> HIDE DEF e
  <2> QED  BY <2>2, <2>3
<1>12. cur = e(cur)
  <2> HIDE DEF e
  <2> QED  BY <1>11
<1> HIDE DEF cur
<1>13. cur[t] => StampCurrent(t)
  BY <1>12
<1> QED  BY <1>1, <1>13

\* The bookkeeping of the setscene tasks.
SceneSet ==
  [buildable : SUBSET Setscene, running : SUBSET Setscene, covered : SUBSET Setscene,
   notcovered : SUBSET Setscene, done : SUBSET Tasks, harddeferred : SUBSET Setscene]

\* The collapsed graph is about the build's tasks.
SqTyped ==
  /\ \A s \in Setscene : SqRevdeps(s) \subseteq Setscene /\ SqCovered(s) \subseteq Tasks
  /\ sqdata.unskippable \subseteq Tasks
  /\ \A x \in DOMAIN sqdata.hashes : sqdata.hashes[x] \in Setscene

\* It is there when the build has started, which it does before anything else.
SqOK ==
  /\ state = "SCENE_INIT" => pc = "loop"
  /\ state # "SCENE_INIT" => sqdata # <<>>
  /\ sqdata # <<>> => SqTyped

\* What BuildsAssumption says of the build at hand.
LEMMA IsBuild ==
  ASSUME rqdata \in Builds
  PROVE  /\ BuildOK /\ Setscene \subseteq Tasks
         /\ rqdata.hash \in [Tasks -> Hashes]
         /\ rqdata.stamp \subseteq Tasks /\ rqdata.sstamp \subseteq Setscene \ rqdata.stamp
         /\ rqdata.noexec \subseteq Tasks /\ rqdata.limited \subseteq Tasks
         /\ rqdata.halt \in BOOLEAN
BY BuildAssumption DEF BuildsAssumption, BuildOK, Setscene

\* The bookkeeping of the state is typed.
LEMMA SceneTyped ==
  ASSUME TypeOK
  PROVE  Scene \in SceneSet
BY DEF TypeOK, Scene, SceneSet

\* scenequeue_updatecounters(): only tasks whose dependents are handled become
\* buildable, and no mark is taken back.
LEMMA CountedIs ==
  ASSUME BuildOK, SqTyped, NEW q \in SceneSet, NEW ts \in SUBSET Setscene
  PROVE  /\ Counted(q, ts) \in SceneSet
         /\ Counted(q, ts).covered = q.covered
         /\ Counted(q, ts).notcovered = q.notcovered
         /\ Counted(q, ts).running = q.running
         /\ q.buildable \subseteq Counted(q, ts).buildable
         /\ \A d \in Counted(q, ts).buildable \ q.buildable :
              SqRevdeps(d) \subseteq q.covered \union q.notcovered
         /\ Counted(q, ts).harddeferred \subseteq q.harddeferred
         /\ q.done \union ts \subseteq Counted(q, ts).done
<1> DEFINE handled == q.covered \union q.notcovered
           b == q.buildable \union {d \in UNION {SqDeps(t) : t \in ts} :
               SqRevdeps(d) \subseteq handled}
           w == DoneWalk(q.done, ts)
           hd == IF \E t \in ts : HardDependents(t) # {}
                 THEN {d \in q.harddeferred : ~(rqdata.hard[d] \subseteq handled)}
                 ELSE q.harddeferred
           c == Counted(q, ts)
<1>1. c = [q EXCEPT !.buildable = b, !.done = w, !.harddeferred = hd]
  BY DEF Counted
<1>2. /\ q.buildable \subseteq Setscene /\ q.running \subseteq Setscene
      /\ q.covered \subseteq Setscene /\ q.notcovered \subseteq Setscene
      /\ q.done \subseteq Tasks /\ q.harddeferred \subseteq Setscene
  BY DEF SceneSet
<1>3. b \subseteq Setscene
  BY <1>2 DEF SqDeps
<1>4. w \subseteq Tasks /\ q.done \union ts \subseteq w
  <2>1. ts \in SUBSET Tasks /\ q.done \in SUBSET Tasks
    BY <1>2 DEF BuildOK, Setscene
  <2> QED  BY <2>1, DoneWalkIs
<1>5. hd \subseteq q.harddeferred
  OBVIOUS
<1>6. \A d \in b \ q.buildable : SqRevdeps(d) \subseteq handled
  OBVIOUS
<1>7. /\ c.buildable = b /\ c.running = q.running /\ c.covered = q.covered
      /\ c.notcovered = q.notcovered /\ c.done = w /\ c.harddeferred = hd
  <2> HIDE DEF b, w, hd, c
  <2> QED  BY <1>1 DEF SceneSet
<1>8. c \in SceneSet
  <2> HIDE DEF b, w, hd, c
  <2> QED  BY <1>1, <1>2, <1>3, <1>4, <1>5 DEF SceneSet
<1> HIDE DEF b, w, hd, c
<1>9. \A d \in c.buildable \ q.buildable : SqRevdeps(d) \subseteq handled
  <2> HIDE DEF handled
  <2> QED  BY <1>6, <1>7
<1>10. q.buildable \subseteq b
  BY DEF b
<1> QED  BY <1>4, <1>5, <1>7, <1>8, <1>9, <1>10 DEF c

\* sq_task_skip(): the tasks are covered and count as started.
LEMMA SkippedIs ==
  ASSUME BuildOK, SqTyped, NEW q \in SceneSet, NEW ts \in SUBSET Setscene
  PROVE  /\ SkippedScene(q, ts) \in SceneSet
         /\ SkippedScene(q, ts).covered = q.covered \union ts
         /\ SkippedScene(q, ts).notcovered = q.notcovered
         /\ SkippedScene(q, ts).running = q.running \union ts
         /\ q.buildable \union ts \subseteq SkippedScene(q, ts).buildable
         /\ \A d \in SkippedScene(q, ts).buildable \ (q.buildable \union ts) :
              SqRevdeps(d) \subseteq q.covered \union ts \union q.notcovered
         /\ SkippedScene(q, ts).harddeferred \subseteq q.harddeferred
         /\ q.done \union ts \subseteq SkippedScene(q, ts).done
<1> DEFINE q1 == [q EXCEPT !.running = @ \union ts, !.buildable = @ \union ts]
           q2 == [q1 EXCEPT !.covered = @ \union ts]
<1>1. SkippedScene(q, ts) = Counted(q2, ts)
  BY DEF SkippedScene, CompletedScene
<1>2. /\ q2 \in SceneSet
      /\ q2.covered = q.covered \union ts /\ q2.notcovered = q.notcovered
      /\ q2.running = q.running \union ts /\ q2.buildable = q.buildable \union ts
      /\ q2.harddeferred = q.harddeferred /\ q2.done = q.done
  BY DEF SceneSet
<1> HIDE DEF q2
<1> QED  BY <1>1, <1>2, CountedIs

\* sq_task_completeoutright(): the tasks are covered.
LEMMA CompletedIs ==
  ASSUME BuildOK, SqTyped, NEW q \in SceneSet, NEW ts \in SUBSET Setscene
  PROVE  /\ CompletedScene(q, ts) \in SceneSet
         /\ CompletedScene(q, ts).covered = q.covered \union ts
         /\ CompletedScene(q, ts).notcovered = q.notcovered
         /\ CompletedScene(q, ts).running = q.running
         /\ q.buildable \subseteq CompletedScene(q, ts).buildable
         /\ \A d \in CompletedScene(q, ts).buildable \ q.buildable :
              SqRevdeps(d) \subseteq q.covered \union ts \union q.notcovered
         /\ CompletedScene(q, ts).harddeferred \subseteq q.harddeferred
<1> DEFINE q2 == [q EXCEPT !.covered = @ \union ts]
<1>1. CompletedScene(q, ts) = Counted(q2, ts)
  BY DEF CompletedScene
<1>2. /\ q2 \in SceneSet
      /\ q2.covered = q.covered \union ts /\ q2.notcovered = q.notcovered
      /\ q2.running = q.running /\ q2.buildable = q.buildable
      /\ q2.harddeferred = q.harddeferred
  BY DEF SceneSet
<1> HIDE DEF q2
<1> QED  BY <1>1, <1>2, CountedIs

\* How failing tasks are marked.
Marked(f, q, all, run) ==
  /\ f.covered = q.covered /\ f.notcovered = q.notcovered \union all
  /\ f.running = q.running \union run

\* sq_task_failoutright(): the tasks and what cannot do without them are not
\* covered, and count as started.
LEMMA FailedOutrightIs ==
  ASSUME BuildOK, SqTyped, NEW q \in SceneSet, NEW ts \in SUBSET Setscene, NEW stamped
  PROVE  /\ FailedOutright(q, ts, stamped) \in SceneSet
         /\ Marked(FailedOutright(q, ts, stamped), q, FailsWith(q, ts, stamped),
                   FailsWith(q, ts, stamped))
         /\ q.buildable \union FailsWith(q, ts, stamped) \subseteq FailedOutright(q, ts,
             stamped).buildable
         /\ \A d \in FailedOutright(q, ts,
             stamped).buildable \ (q.buildable \union FailsWith(q, ts, stamped)) :
                 SqRevdeps(d) \subseteq q.covered \union q.notcovered \union FailsWith(q, ts,
                     stamped)
         /\ FailedOutright(q, ts, stamped).harddeferred \subseteq q.harddeferred
<1> DEFINE all == FailsWith(q, ts, stamped)
           q2 == [q EXCEPT !.notcovered = @ \union all,
                           !.running = @ \union all, !.buildable = @ \union all]
<1>1. FailedOutright(q, ts, stamped) = Counted(q2, all)
  BY DEF FailedOutright
<1>2. all \in SUBSET Setscene
  BY FailsWithIs
<1> HIDE DEF all
<1>3. /\ q2 \in SceneSet
      /\ q2.covered = q.covered /\ q2.notcovered = q.notcovered \union all
      /\ q2.running = q.running \union all /\ q2.buildable = q.buildable \union all
      /\ q2.harddeferred = q.harddeferred
  BY <1>2 DEF SceneSet
<1> HIDE DEF q2
<1>4. /\ Counted(q2, all) \in SceneSet
      /\ Counted(q2, all).covered = q2.covered /\ Counted(q2, all).notcovered = q2.notcovered
      /\ Counted(q2, all).running = q2.running
      /\ q2.buildable \subseteq Counted(q2, all).buildable
      /\ \A d \in Counted(q2, all).buildable \ q2.buildable :
              SqRevdeps(d) \subseteq q2.covered \union q2.notcovered
      /\ Counted(q2, all).harddeferred \subseteq q2.harddeferred
  BY <1>2, <1>3, CountedIs
<1>5. Marked(Counted(q2, all), q, all, all)
  BY <1>3, <1>4 DEF Marked
<1> QED  BY <1>1, <1>3, <1>4, <1>5 DEF all

\* sq_task_fail(): the same for one that ran.
LEMMA FailedIs ==
  ASSUME BuildOK, SqTyped, NEW q \in SceneSet, NEW t \in Setscene, NEW stamped
  PROVE  /\ FailedScene(q, t, stamped) \in SceneSet
         /\ Marked(FailedScene(q, t, stamped), q, FailsWith(q, {t}, stamped),
                   FailsWith(q, {t}, stamped) \ {t})
         /\ q.buildable \union (FailsWith(q, {t}, stamped) \ {t}) \subseteq FailedScene(q, t,
             stamped).buildable
         /\ \A d \in FailedScene(q, t, stamped).buildable \ (q.buildable \union (FailsWith(q,
             {t}, stamped) \ {t})) :
                 SqRevdeps(d) \subseteq q.covered \union q.notcovered \union FailsWith(q,
                     {t}, stamped)
         /\ FailedScene(q, t, stamped).harddeferred \subseteq q.harddeferred
<1> DEFINE all == FailsWith(q, {t}, stamped)
           q2 == [q EXCEPT !.notcovered = @ \union all,
                       !.running = @ \union (all \ {t}), !.buildable = @ \union (all \ {t})]
<1>1. FailedScene(q, t, stamped) = Counted(q2, all)
  BY DEF FailedScene
<1>2. all \in SUBSET Setscene
  BY FailsWithIs
<1> HIDE DEF all
<1>3. /\ q2 \in SceneSet
      /\ q2.covered = q.covered /\ q2.notcovered = q.notcovered \union all
      /\ q2.running = q.running \union (all \ {t}) /\ q2.buildable = q.buildable \union (all \ {t})
      /\ q2.harddeferred = q.harddeferred
  BY <1>2 DEF SceneSet
<1> HIDE DEF q2
<1>4. /\ Counted(q2, all) \in SceneSet
      /\ Counted(q2, all).covered = q2.covered /\ Counted(q2, all).notcovered = q2.notcovered
      /\ Counted(q2, all).running = q2.running
      /\ q2.buildable \subseteq Counted(q2, all).buildable
      /\ \A d \in Counted(q2, all).buildable \ q2.buildable :
              SqRevdeps(d) \subseteq q2.covered \union q2.notcovered
      /\ Counted(q2, all).harddeferred \subseteq q2.harddeferred
  BY <1>2, <1>3, CountedIs
<1>5. Marked(Counted(q2, all), q, all, all \ {t})
  BY <1>3, <1>4 DEF Marked
<1> QED  BY <1>1, <1>3, <1>4, <1>5 DEF all

\* The first setscene task of each index is one.
LEMMA FirstIs ==
  ASSUME BuildOK
  PROVE  \A x \in DOMAIN FirstWithHash : FirstWithHash[x] \in Setscene
<1> SUFFICES ASSUME NEW t \in Setscene PROVE FirstWithHash[HashIndex(t, hash)] \in Setscene
  BY DEF FirstWithHash
<1> DEFINE x == HashIndex(t, hash)
           S == {u \in Setscene : HashIndex(u, hash) = x}
<1>1. S \in SUBSET Nat /\ S # {}
  BY TasksAssumption DEF BuildOK, Setscene
<1>2. \E m \in S : \A k \in S : m <= k
  <2> HIDE DEF S
  <2> QED  BY <1>1, Least
<1>3. \E m \in Setscene : HashIndex(m, hash) = x /\
        \A u \in Setscene : HashIndex(u, hash) = x => m <= u
  BY <1>2
<1>4. FirstWithHash[x] = CHOOSE m \in Setscene : HashIndex(m, hash) = x /\
        \A u \in Setscene : HashIndex(u, hash) = x => m <= u
  BY DEF FirstWithHash
<1> HIDE DEF x
<1> QED  BY <1>3, <1>4 DEF x

\* The types, with those of the collapsed graph.
TypeInv == TypeOK /\ SqOK

\* What task_completeoutright() does to the setscene part.
LEMMA CompleteOutrightIs ==
  ASSUME TypeOK, SqTyped, UNCHANGED rqdata, NEW t \in Tasks, NEW buildable \in SUBSET Tasks,
         CompleteOutright(t, buildable)
  PROVE  /\ runq_complete' = runq_complete \union {t}
         /\ runq_buildable' \in SUBSET Tasks
         /\ \E stamped \in SUBSET Setscene :
              /\ sq_buildable \union stamped \subseteq sq_buildable'
              /\ \A d \in sq_buildable' \ (sq_buildable \union stamped) :
                   SqRevdeps(d) \subseteq
                       scenequeue_covered \union stamped \union scenequeue_notcovered
              /\ stamped \subseteq SceneStamped /\ stamped \subseteq DOMAIN sq_deferred
              /\ sq_running' = sq_running \union stamped
              /\ scenequeue_covered' = scenequeue_covered \union stamped
              /\ scenequeue_notcovered' = scenequeue_notcovered
              /\ holdoff_need_update' = (holdoff_need_update \/ stamped # {})
              /\ sq_harddep_deferred' \subseteq sq_harddep_deferred
         /\ sq_buildable' \subseteq Setscene
         /\ tasks_scenequeue_done' \in SUBSET Tasks
         /\ valid' \in SUBSET Setscene /\ outrightfail' \in SUBSET Setscene
         /\ DOMAIN sq_deferred' \subseteq DOMAIN sq_deferred
         /\ \A u \in DOMAIN sq_deferred' : sq_deferred'[u] \in Setscene
         /\ holdoff_need_update' \in BOOLEAN
<1> DEFINE waiting == {u \in DOMAIN sq_deferred : sq_deferred[u] = t}
           first == CHOOSE u \in waiting : \A w \in waiting : u <= w
           deferred == [u \in DOMAIN sq_deferred \ {first} |->
                          IF u \in waiting THEN first ELSE sq_deferred[u]]
           present == {first} \intersect SceneStamped
           skipped == SkippedScene(Scene, present)
<1>1. BuildOK /\ Setscene \subseteq Tasks
  BY IsBuild DEF TypeOK
<1>2. /\ runq_complete' = runq_complete \union {t}
      /\ runq_buildable' = buildable \union
           {r \in Revdeps(t) : r \notin runq_running /\ Depends(r) \subseteq runq_complete'}
  BY DEF CompleteOutright
<1>3. runq_buildable' \in SUBSET Tasks
  BY <1>2 DEF Revdeps
<1>4. Scene \in SceneSet
  BY SceneTyped
<1>5. CASE waiting = {}
  <2>1. UNCHANGED <<sq_deferred, validVars, sqVars>>
    BY <1>5 DEF CompleteOutright
  <2>2. /\ sq_buildable \union {} \subseteq sq_buildable'
        /\ \A d \in sq_buildable' \ (sq_buildable \union {}) :
                   SqRevdeps(d) \subseteq scenequeue_covered \union {} \union scenequeue_notcovered
        /\ sq_running' = sq_running \union {}
        /\ scenequeue_covered' = scenequeue_covered \union {}
        /\ scenequeue_notcovered' = scenequeue_notcovered
        /\ holdoff_need_update' = (holdoff_need_update \/ {} # {})
        /\ sq_harddep_deferred' \subseteq sq_harddep_deferred
    BY <2>1 DEF sqVars, TypeOK
  <2>3. /\ sq_buildable' \subseteq Setscene
         /\ tasks_scenequeue_done' \in SUBSET Tasks
         /\ valid' \in SUBSET Setscene /\ outrightfail' \in SUBSET Setscene
         /\ DOMAIN sq_deferred' \subseteq DOMAIN sq_deferred
         /\ \A u \in DOMAIN sq_deferred' : sq_deferred'[u] \in Setscene
         /\ holdoff_need_update' \in BOOLEAN
    BY <2>1 DEF sqVars, validVars, TypeOK
  <2> DEFINE none == {}
  <2>4. /\ none \in SUBSET Setscene /\ none \subseteq SceneStamped
        /\ none \subseteq DOMAIN sq_deferred
    OBVIOUS
  <2>5. /\ sq_buildable \union none \subseteq sq_buildable'
        /\ \A d \in sq_buildable' \ (sq_buildable \union none) :
                   SqRevdeps(d) \subseteq
                       scenequeue_covered \union none \union scenequeue_notcovered
        /\ sq_running' = sq_running \union none
        /\ scenequeue_covered' = scenequeue_covered \union none
        /\ scenequeue_notcovered' = scenequeue_notcovered
        /\ holdoff_need_update' = (holdoff_need_update \/ none # {})
        /\ sq_harddep_deferred' \subseteq sq_harddep_deferred
    BY <2>2
  <2> HIDE DEF waiting, none
  <2> QED  BY <1>2, <1>3, <2>3, <2>4, <2>5
<1>6. CASE waiting # {}
  <2>1. /\ sq_deferred' = deferred
        /\ UpdateValid({first}, present, skipped, DOMAIN deferred)
        /\ SceneBecomes(skipped)
        /\ holdoff_need_update' = (holdoff_need_update \/ present # {})
    BY <1>6 DEF CompleteOutright
  <2>2. first \in waiting
    <3>1. waiting \in SUBSET Nat
      BY <1>1, TasksAssumption DEF TypeOK
    <3>2. \E u \in waiting : \A w \in waiting : u <= w
      <4> HIDE DEF waiting
      <4> QED  BY <1>6, <3>1, Least
    <3> HIDE DEF waiting
    <3> QED  BY <3>2
  <2>3. first \in Setscene
    <3> HIDE DEF first
    <3> QED  BY <2>2 DEF TypeOK
  <2> HIDE DEF first
  <2>4. /\ present \in SUBSET Setscene /\ present \subseteq SceneStamped
        /\ present \subseteq DOMAIN sq_deferred
    BY <2>2, <2>3
  <2>5. /\ skipped \in SceneSet
        /\ skipped.covered = scenequeue_covered \union present
        /\ skipped.notcovered = scenequeue_notcovered
        /\ skipped.running = sq_running \union present
        /\ sq_buildable \union present \subseteq skipped.buildable
        /\ \A d \in skipped.buildable \ (sq_buildable \union present) :
              SqRevdeps(d) \subseteq scenequeue_covered \union present \union scenequeue_notcovered
        /\ skipped.harddeferred \subseteq sq_harddep_deferred
    <3>1. /\ Scene.covered = scenequeue_covered /\ Scene.notcovered = scenequeue_notcovered
          /\ Scene.running = sq_running /\ Scene.buildable = sq_buildable
          /\ Scene.harddeferred = sq_harddep_deferred
      BY DEF Scene
    <3> HIDE DEF present
    <3> QED  BY <1>1, <1>4, <2>4, <3>1, SkippedIs
  <2>6. /\ DOMAIN deferred \subseteq DOMAIN sq_deferred
        /\ \A u \in DOMAIN deferred : deferred[u] \in Setscene
    BY <2>3 DEF TypeOK
  <2>7. valid' \in SUBSET Setscene /\ outrightfail' \in SUBSET Setscene
    BY <2>1, <2>3 DEF UpdateValid, TypeOK
  <2> HIDE DEF deferred, skipped, present, waiting
  <2>8. /\ sq_buildable' = skipped.buildable /\ sq_running' = skipped.running
        /\ scenequeue_covered' = skipped.covered
        /\ scenequeue_notcovered' = skipped.notcovered
        /\ tasks_scenequeue_done' = skipped.done
        /\ sq_harddep_deferred' = skipped.harddeferred
    BY <2>1 DEF SceneBecomes
  <2>9. skipped.buildable \subseteq Setscene /\ skipped.done \in SUBSET Tasks
    BY <2>5 DEF SceneSet
  <2>10. holdoff_need_update' \in BOOLEAN
    BY <2>1 DEF TypeOK
  <2>11. /\ sq_buildable \union present \subseteq sq_buildable'
         /\ \A d \in sq_buildable' \ (sq_buildable \union present) :
                   SqRevdeps(d) \subseteq
                       scenequeue_covered \union present \union scenequeue_notcovered
         /\ present \subseteq SceneStamped /\ present \subseteq DOMAIN sq_deferred
         /\ sq_running' = sq_running \union present
         /\ scenequeue_covered' = scenequeue_covered \union present
         /\ scenequeue_notcovered' = scenequeue_notcovered
         /\ sq_harddep_deferred' \subseteq sq_harddep_deferred
    BY <2>4, <2>5, <2>8
  <2> QED  BY <1>2, <1>3, <2>1, <2>4, <2>6, <2>7, <2>8, <2>9, <2>10, <2>11
<1> HIDE DEF waiting
<1> QED  BY <1>5, <1>6

\* The reset of migrated tasks removes their marks and adds none.
LEMMA ResetIs ==
  ASSUME TypeOK, NEW ts
  PROVE  /\ Reset(ts) \in SceneSet
         /\ Reset(ts).covered = scenequeue_covered \ ts
         /\ Reset(ts).notcovered = scenequeue_notcovered \ ts
         /\ Reset(ts).running = sq_running \ ts
         /\ Reset(ts).buildable = sq_buildable \ ts
         /\ Reset(ts).harddeferred = sq_harddep_deferred
         /\ Reset(ts).done \subseteq tasks_scenequeue_done
<1> DEFINE undone == ts \union {d \in UNION {SqCovered(t) : t \in ts} :
                             d \notin runq_complete \union sqdata.unskippable}
<1>1. Reset(ts) = [Scene EXCEPT !.done = @ \ undone, !.running = @ \ ts, !.covered = @ \ ts,
                   !.notcovered = @ \ ts, !.buildable = @ \ ts]
  BY DEF Reset
<1> HIDE DEF undone
<1>2. Scene \in SceneSet
  BY SceneTyped
<1>3. /\ Scene.covered = scenequeue_covered /\ Scene.notcovered = scenequeue_notcovered
      /\ Scene.running = sq_running /\ Scene.buildable = sq_buildable
      /\ Scene.harddeferred = sq_harddep_deferred /\ Scene.done = tasks_scenequeue_done
  BY DEF Scene
<1> DEFINE S == Scene
<1> HIDE DEF S
<1>4. /\ S \in SceneSet
      /\ Reset(ts) = [S EXCEPT !.done = @ \ undone, !.running = @ \ ts, !.covered = @ \ ts,
                   !.notcovered = @ \ ts, !.buildable = @ \ ts]
  BY <1>1, <1>2 DEF S
<1>5. Reset(ts) \in SceneSet
  <2>1. /\ S.buildable \ ts \in SUBSET Setscene /\ S.running \ ts \in SUBSET Setscene
        /\ S.covered \ ts \in SUBSET Setscene /\ S.notcovered \ ts \in SUBSET Setscene
        /\ S.done \ undone \in SUBSET Tasks
    BY <1>4 DEF SceneSet
  <2> QED  BY <1>4, <2>1 DEF SceneSet
<1>6. /\ Reset(ts).covered = S.covered \ ts
      /\ Reset(ts).notcovered = S.notcovered \ ts
      /\ Reset(ts).running = S.running \ ts
      /\ Reset(ts).buildable = S.buildable \ ts
      /\ Reset(ts).harddeferred = S.harddeferred
      /\ Reset(ts).done \subseteq S.done
  BY <1>4 DEF SceneSet
<1> QED  BY <1>3, <1>5, <1>6 DEF S

\* The setscene tasks whose hash changed, those that are moved to the setscene
\* queue again, and those that wait.
Late(pending) == {t \in pending : TooLate(t)}
Waits(pending) == {t \in pending \ Late(pending) : Blocked(t)}
Moved(pending) == pending \ (Late(pending) \union Waits(pending))
Wrong(pending) == {t \in Moved(pending) : SkippedUnder(t) # {}}

\* Some of them were moved when one turned out to have skipped a task.
MovedWrong(pending) ==
  \E t \in Wrong(pending), before \in SUBSET (Moved(pending) \ Wrong(pending)) :
    /\ failed_tids' = failed_tids \union {t} /\ state' = "CLEAN_UP"
    /\ scenequeue_covered' = scenequeue_covered \ before
    /\ scenequeue_notcovered' = scenequeue_notcovered \ before
    /\ sq_running' = sq_running \ before /\ sq_buildable' = sq_buildable \ before
    /\ sq_harddep_deferred' = sq_harddep_deferred
    /\ pending_migrations' = Waits(pending) \union (Moved(pending) \ (before \union {t}))
    /\ scenequeue_notneeded' = scenequeue_notneeded \ before
    /\ outrightfail' = outrightfail \ before
    /\ tasks_scenequeue_done' \subseteq tasks_scenequeue_done
    /\ UNCHANGED <<sq_deferred, sq_needed_harddeps, valid, sqdone, holdoff_need_update>>

\* All of them are moved: those with a stamp are skipped, and those that need
\* one that is not covered fail.
MovedAll(pending, touched, stamped, failed) ==
  LET moved == Moved(pending)
      hardfail == {t \in moved : rqdata.hard[t] \intersect (scenequeue_notcovered \ moved) # {}}
      covered == (scenequeue_covered \ moved) \union stamped
      notcovered == (scenequeue_notcovered \ moved) \union failed
  IN /\ moved # {} => touched
     /\ stamped \subseteq moved /\ stamped \subseteq SceneStamped'
     /\ hardfail \subseteq failed
     /\ \A x \in failed : x \in hardfail \/ x \notin covered \union (scenequeue_notcovered \ moved)
     /\ \A x \in failed : x \in hardfail \/ \E t \in failed : x \in HardDependents(t)
     /\ \A x \in failed : HardDependents(x) \subseteq covered \union notcovered \union SceneStamped'
     /\ scenequeue_covered' = covered /\ scenequeue_notcovered' = notcovered
     /\ sq_running' = (sq_running \ moved) \union stamped \union failed
     /\ \A t \in sq_buildable' :
          \/ t \in (sq_buildable \ moved) \union stamped \union failed
          \/ SqRevdeps(t) = {}
          \/ SqRevdeps(t) \subseteq covered \union notcovered
     /\ sq_buildable' \subseteq Setscene /\ sq_harddep_deferred' \subseteq sq_harddep_deferred
     /\ tasks_scenequeue_done' \subseteq Tasks
     /\ pending_migrations' = Waits(pending)
     /\ scenequeue_notneeded' = scenequeue_notneeded \ moved
     /\ DOMAIN sq_deferred' \subseteq DOMAIN sq_deferred \union moved
     /\ \A u \in DOMAIN sq_deferred' : sq_deferred'[u] \in Setscene
     /\ valid' \subseteq Setscene /\ outrightfail' \subseteq Setscene
     /\ sq_needed_harddeps' \subseteq sq_needed_harddeps
     /\ holdoff_need_update' = (holdoff_need_update \/ touched)
     /\ sqdone' \in BOOLEAN
     /\ UNCHANGED <<state, failed_tids>>

\* Unhandled among a set and not waiting for an answer.
LEMMA MovedSets ==
  ASSUME TypeOK, NEW pending \in SUBSET Setscene
  PROVE  /\ Moved(pending) \subseteq pending /\ Waits(pending) \subseteq pending
         /\ Wrong(pending) \subseteq Moved(pending)
         /\ \A t \in Moved(pending) \union Waits(pending) : t \notin runq_running \union sq_live
         /\ \A t \in Moved(pending) : SqCovered(t) \intersect (runq_running \ runq_complete) = {}
BY DEF Moved, Waits, Late, Wrong, TooLate, Blocked, Unfinished

\* A reported hash is a hash.
LEMMA ReportedHashIs ==
  ASSUME TypeOK
  PROVE  /\ DOMAIN ReportedHash \subseteq Tasks
         /\ \A t \in DOMAIN ReportedHash : ReportedHash[t] \in Hashes
<1> DEFINE D == {u \in Tasks : \E r \in TakenReports :
                          u = r[1] \/ (u \in DOMAIN sq_deferred /\ sq_deferred[u] = r[1])}
           P(t, r) == t = r[1] \/ (t \in DOMAIN sq_deferred /\ sq_deferred[t] = r[1])
<1>1. TakenReports \subseteq Tasks \X Hashes
  BY DEF TakenReports, TypeOK
<1>2. ReportedHash = [t \in D |-> (CHOOSE r \in TakenReports : P(t, r))[2]]
  BY DEF ReportedHash
<1>3. ASSUME NEW t \in D PROVE (CHOOSE r \in TakenReports : P(t, r)) \in TakenReports
  <2>1. \E r \in TakenReports : P(t, r)
    OBVIOUS
  <2> HIDE DEF P
  <2> QED  BY <2>1
<1> HIDE DEF P
<1>4. \A t \in D : ReportedHash[t] \in Hashes
  <2> HIDE DEF D
  <2> QED  BY <1>1, <1>2, <1>3
<1>5. DOMAIN ReportedHash = D /\ D \subseteq Tasks
  BY <1>2
<1> HIDE DEF D
<1> QED  BY <1>4, <1>5

\* process_possible_migrations() seen from the setscene tasks.
LEMMA MigrateIs ==
  ASSUME TypeOK, SqTyped, Migrate
  PROVE  /\ hash' \in [Tasks -> Hashes]
         /\ updated_taskhash_queue' \subseteq updated_taskhash_queue
         /\ stamp' \subseteq stamp /\ sstamp' \subseteq sstamp
         /\ \E pending \in SUBSET Setscene, touched \in BOOLEAN, stamped \in SUBSET Setscene,
               failed \in SUBSET Setscene :
              /\ pending_migrations \subseteq pending
              /\ \A p \in pending : p \in pending_migrations \/ p \notin scenequeue_covered
              /\ MovedWrong(pending) \/ MovedAll(pending, touched, stamped, failed)
<1>1. /\ BuildOK /\ Setscene \subseteq Tasks /\ UNCHANGED rqdata
      /\ pending_migrations \subseteq Setscene
  BY IsBuild DEF TypeOK, Migrate, Quiet
<1> DEFINE given == ReportedHash
<1>2. \E changed \in SUBSET Above(DOMAIN given) :
        /\ MayChange(changed, given)
        /\ \E to \in [changed -> Hashes] :
             MigrateStep(given, changed,
                    [t \in Tasks |-> IF t \in changed THEN to[t]
                                     ELSE IF t \in DOMAIN given THEN given[t] ELSE hash[t]])
  BY DEF Migrate
<1>20. PICK changed \in SUBSET Above(DOMAIN given) :
        /\ MayChange(changed, given)
        /\ \E to \in [changed -> Hashes] :
             MigrateStep(given, changed,
                    [t \in Tasks |-> IF t \in changed THEN to[t]
                                     ELSE IF t \in DOMAIN given THEN given[t] ELSE hash[t]])
  BY <1>2
<1>21. PICK to \in [changed -> Hashes] :
        MigrateStep(given, changed,
                    [t \in Tasks |-> IF t \in changed THEN to[t]
                                     ELSE IF t \in DOMAIN given THEN given[t] ELSE hash[t]])
  BY <1>20
<1>22. \A t \in changed : t \notin scenequeue_covered
  BY <1>20 DEF MayChange
<1> DEFINE new == [t \in Tasks |-> IF t \in changed THEN to[t]
                                   ELSE IF t \in DOMAIN given THEN given[t] ELSE hash[t]]
<1>3. new \in [Tasks -> Hashes]
  <2>1. \A t \in DOMAIN given : given[t] \in Hashes
    BY ReportedHashIs
  <2> HIDE DEF given
  <2> QED  BY <2>1 DEF TypeOK
<1> HIDE DEF given, new
<1>4. MigrateStep(given, changed, new)
  BY <1>21 DEF given, new
<1> DEFINE pending == pending_migrations \union (changed \intersect Setscene)
           late == {t \in pending : TooLate(t)}
           blocked == {t \in pending \ late : Blocked(t)}
           moved == pending \ (late \union blocked)
           wrong == {t \in moved : SkippedUnder(t) # {}}
           q == Reset(moved)
           hardfail == {t \in moved : rqdata.hard[t] \intersect q.notcovered # {}}
           ready == {t \in moved : SqRevdeps(t) = {} \/
                  (t \notin hardfail /\ SqRevdeps(t) \subseteq q.covered \union q.notcovered)}
           twin(t) == LET x == HashIndex(t, new)
                      IN IF x \in DOMAIN sqdata.hashes THEN sqdata.hashes[x] ELSE t
           again == {t \in moved : twin(t) # t}
           deferred == [t \in DOMAIN sq_deferred \union again |->
                          IF t \in again THEN twin(t) ELSE sq_deferred[t]]
           stamped == moved \intersect SceneStamped'
           q1 == [q EXCEPT !.buildable = @ \union ready]
           skipped == SkippedScene(q1, stamped)
           failed == FailedOutright(skipped, hardfail, SceneStamped')
           all == FailsWith(skipped, hardfail, SceneStamped')
           touched == changed \union moved # {}
<1>5. /\ Late(pending) = late /\ Waits(pending) = blocked
      /\ Moved(pending) = moved /\ Wrong(pending) = wrong
  BY DEF Late, Waits, Moved, Wrong
<1>6. /\ hash' = new
      /\ updated_taskhash_queue' \subseteq updated_taskhash_queue
      /\ stamp' \subseteq stamp /\ sstamp' \subseteq sstamp
  <2> HIDE DEF pending, late, blocked, moved, wrong, q, hardfail, ready, twin, again, deferred,
               stamped, skipped, failed, all, touched, q1
  <2> QED  BY <1>4 DEF MigrateStep
<1>7. pending \in SUBSET Setscene /\ moved \subseteq pending
  BY <1>1
<1>8. CASE wrong # {}
  <2>1. \E t \in wrong, before \in SUBSET (moved \ wrong) :
               /\ failed_tids' = failed_tids \union {t}
               /\ state' = "CLEAN_UP"
               /\ SceneBecomes([Reset(before) EXCEPT !.done = @ \ {t}])
               /\ pending_migrations' = blocked \union (moved \ (before \union {t}))
               /\ scenequeue_notneeded' = scenequeue_notneeded \ before
               /\ outrightfail' = outrightfail \ before
               /\ UNCHANGED <<sq_deferred, sq_needed_harddeps, valid, sqdone, holdoff_need_update>>
    BY <1>4, <1>8 DEF MigrateStep
  <2> HIDE DEF pending, late, blocked, moved, wrong, q, hardfail, ready, twin, again, deferred,
               stamped, skipped, failed, all, touched, q1
  <2>2. PICK t \in wrong, before \in SUBSET (moved \ wrong) :
               /\ failed_tids' = failed_tids \union {t}
               /\ state' = "CLEAN_UP"
               /\ SceneBecomes([Reset(before) EXCEPT !.done = @ \ {t}])
               /\ pending_migrations' = blocked \union (moved \ (before \union {t}))
               /\ scenequeue_notneeded' = scenequeue_notneeded \ before
               /\ outrightfail' = outrightfail \ before
               /\ UNCHANGED <<sq_deferred, sq_needed_harddeps, valid, sqdone, holdoff_need_update>>
    BY <2>1
  <2> DEFINE r == Reset(before)
  <2>3. /\ r \in SceneSet
        /\ r.covered = scenequeue_covered \ before
        /\ r.notcovered = scenequeue_notcovered \ before
        /\ r.running = sq_running \ before
        /\ r.buildable = sq_buildable \ before
        /\ r.harddeferred = sq_harddep_deferred
        /\ r.done \subseteq tasks_scenequeue_done
    BY ResetIs
  <2> HIDE DEF r
  <2>4. SceneBecomes([r EXCEPT !.done = @ \ {t}])
    BY <2>2 DEF r
  <2>5. /\ scenequeue_covered' = r.covered /\ scenequeue_notcovered' = r.notcovered
        /\ sq_running' = r.running /\ sq_buildable' = r.buildable
        /\ sq_harddep_deferred' = r.harddeferred /\ tasks_scenequeue_done' \subseteq r.done
    BY <2>3, <2>4 DEF SceneBecomes, SceneSet
  <2>6. MovedWrong(pending)
    BY <1>5, <2>2, <2>3, <2>5 DEF MovedWrong
  <2>7. /\ pending_migrations \subseteq pending
        /\ \A p \in pending : p \in pending_migrations \/ p \notin scenequeue_covered
    BY <1>22 DEF pending
  <2> QED  BY <1>3, <1>6, <1>7, <2>6, <2>7
<1>9. CASE wrong = {}
  <2>1. /\ pending_migrations' = blocked
        /\ scenequeue_notneeded' = scenequeue_notneeded \ moved
        /\ sq_deferred' = deferred
        /\ UpdateValid(moved, stamped, skipped, DOMAIN deferred)
        /\ SceneBecomes([failed EXCEPT !.harddeferred = IF touched THEN {} ELSE @])
        /\ sq_needed_harddeps' = IF touched THEN {} ELSE sq_needed_harddeps
        /\ sqdone' = (sqdone /\ moved = {})
        /\ holdoff_need_update' = (holdoff_need_update \/ touched)
        /\ UNCHANGED <<state, failed_tids>>
    BY <1>4, <1>9 DEF MigrateStep
  <2>2. /\ q \in SceneSet
        /\ q.covered = scenequeue_covered \ moved
        /\ q.notcovered = scenequeue_notcovered \ moved
        /\ q.running = sq_running \ moved
        /\ q.buildable = sq_buildable \ moved
        /\ q.harddeferred = sq_harddep_deferred
    <3> HIDE DEF moved
    <3> QED  BY ResetIs
  <2>3. ready \subseteq Setscene /\ hardfail \in SUBSET Setscene /\ hardfail \subseteq moved
        /\ stamped \in SUBSET Setscene /\ stamped \subseteq moved /\ stamped \subseteq SceneStamped'
        /\ again \subseteq moved
    <3> HIDE DEF pending, late, blocked, q, moved, twin
    <3> QED  BY <1>7
  <2>4. \A t \in ready : SqRevdeps(t) = {} \/ SqRevdeps(t) \subseteq q.covered \union q.notcovered
    <3> HIDE DEF q, moved, hardfail
    <3> QED  OBVIOUS
  <2>5. hardfail = {t \in moved : rqdata.hard[t] \intersect (scenequeue_notcovered \ moved) # {}}
    <3> HIDE DEF q, moved
    <3> QED  BY <2>2
  <2>6. \A t \in again : twin(t) \in Setscene
    <3>1. again \subseteq Setscene
      <4> HIDE DEF moved, twin, again, pending
      <4> QED  BY <1>7, <2>3
    <3>2. ASSUME NEW t \in Setscene PROVE twin(t) \in Setscene
      <4> HIDE DEF moved, again, pending
      <4> QED  BY DEF SqTyped
    <3> HIDE DEF again, twin
    <3> QED  BY <3>1, <3>2
  <2>7. /\ DOMAIN deferred \subseteq DOMAIN sq_deferred \union moved
        /\ \A u \in DOMAIN deferred : deferred[u] \in Setscene
    <3> HIDE DEF again, twin, moved
    <3> QED  BY <2>3, <2>6 DEF TypeOK
  <2> HIDE DEF late, blocked, moved, wrong, q, hardfail, ready, twin, again, deferred,
               stamped, skipped, touched, q1, pending
  <2>8. /\ q1 \in SceneSet
        /\ q1.covered = q.covered /\ q1.notcovered = q.notcovered /\ q1.running = q.running
        /\ q1.buildable = q.buildable \union ready /\ q1.harddeferred = q.harddeferred
    BY <2>2, <2>3 DEF q1, SceneSet
  <2>9. /\ skipped \in SceneSet
        /\ skipped.covered = q1.covered \union stamped
        /\ skipped.notcovered = q1.notcovered
        /\ skipped.running = q1.running \union stamped
        /\ \A d \in skipped.buildable \ (q1.buildable \union stamped) :
              SqRevdeps(d) \subseteq q1.covered \union stamped \union q1.notcovered
        /\ skipped.harddeferred \subseteq q1.harddeferred
    BY <1>1, <2>3, <2>8, SkippedIs DEF skipped
  <2> HIDE DEF all, failed
  <2>10. /\ failed \in SceneSet
         /\ failed.covered = skipped.covered /\ failed.notcovered = skipped.notcovered \union all
         /\ failed.running = skipped.running \union all
         /\ \A d \in failed.buildable \ (skipped.buildable \union all) :
                 SqRevdeps(d) \subseteq skipped.covered \union skipped.notcovered \union all
         /\ failed.harddeferred \subseteq skipped.harddeferred
    BY <1>1, <2>3, <2>9, FailedOutrightIs DEF failed, all, Marked
  <2>11. /\ hardfail \subseteq all /\ all \subseteq Setscene
         /\ \A t \in all : HardDependents(t) \subseteq
                all \union (skipped.covered \union skipped.notcovered) \union SceneStamped'
         /\ \A x \in all : x \in hardfail \/ x \notin
             (skipped.covered \union skipped.notcovered) \union SceneStamped'
         /\ \A x \in all : x \in hardfail \/ \E t \in all : x \in HardDependents(t)
    BY <1>1, <2>3, FailsWithIs DEF all
  <2> DEFINE z == [failed EXCEPT !.harddeferred = IF touched THEN {} ELSE @]
  <2>12. /\ z.covered = failed.covered /\ z.notcovered = failed.notcovered
         /\ z.running = failed.running /\ z.buildable = failed.buildable
         /\ z.done = failed.done /\ z.harddeferred \subseteq failed.harddeferred
    BY <2>10 DEF SceneSet
  <2>13. SceneBecomes(z)
    BY <2>1
  <2> HIDE DEF z
  <2> DEFINE covered == (scenequeue_covered \ moved) \union stamped
             notcovered == (scenequeue_notcovered \ moved) \union all
  <2>14. /\ scenequeue_covered' = covered /\ scenequeue_notcovered' = notcovered
         /\ skipped.covered = covered /\ skipped.notcovered = scenequeue_notcovered \ moved
         /\ sq_running' = (sq_running \ moved) \union stamped \union all
         /\ sq_harddep_deferred' \subseteq sq_harddep_deferred
         /\ sq_buildable' = failed.buildable /\ tasks_scenequeue_done' = failed.done
    BY <2>2, <2>8, <2>9, <2>10, <2>12, <2>13 DEF SceneBecomes
  <2>15. ASSUME NEW t \in sq_buildable'
         PROVE  \/ t \in (sq_buildable \ moved) \union stamped \union all
                \/ SqRevdeps(t) = {}
                \/ SqRevdeps(t) \subseteq covered \union notcovered
    BY <2>2, <2>4, <2>8, <2>9, <2>10, <2>14
  <2>16. sq_buildable' \subseteq Setscene /\ tasks_scenequeue_done' \subseteq Tasks
    BY <2>10, <2>14 DEF SceneSet
  <2>17. valid' \subseteq Setscene /\ outrightfail' \subseteq Setscene
    BY <1>7, <2>1 DEF UpdateValid, TypeOK
  <2>18. sq_needed_harddeps' \subseteq sq_needed_harddeps /\ sqdone' \in BOOLEAN
    BY <2>1 DEF TypeOK
  <2>19. /\ holdoff_need_update' = (holdoff_need_update \/ touched)
         /\ moved # {} => touched
         /\ touched \in BOOLEAN
    BY <2>1 DEF touched
  <2>20. /\ \A x \in all : HardDependents(x) \subseteq
             covered \union notcovered \union SceneStamped'
         /\ \A x \in all : x \in hardfail \/ x \notin covered \union (scenequeue_notcovered \ moved)
    BY <2>11, <2>14
  <2>21. MovedAll(pending, touched, stamped, all)
    <3>1. UNCHANGED <<state, failed_tids>> /\ pending_migrations' = blocked
          /\ scenequeue_notneeded' = scenequeue_notneeded \ moved
      BY <2>1
    <3>2. /\ DOMAIN sq_deferred' \subseteq DOMAIN sq_deferred \union moved
          /\ \A u \in DOMAIN sq_deferred' : sq_deferred'[u] \in Setscene
      BY <2>1, <2>7
    <3>3. hardfail = {t \in Moved(pending) :
              rqdata.hard[t] \intersect (scenequeue_notcovered \ Moved(pending)) # {}}
      BY <1>5, <2>5
    <3> QED  BY <1>5, <2>3, <2>11, <2>14, <2>15, <2>16, <2>17, <2>18, <2>19, <2>20, <3>1, <3>2, <3>3
             DEF MovedAll
  <2>22. /\ pending_migrations \subseteq pending
         /\ \A p \in pending : p \in pending_migrations \/ p \notin scenequeue_covered
    BY <1>22 DEF pending
  <2>23. /\ pending \in SUBSET Setscene /\ touched \in BOOLEAN
         /\ stamped \in SUBSET Setscene /\ all \in SUBSET Setscene
    BY <1>7, <2>3, <2>11, <2>19
  <2> QED  BY <1>3, <1>6, <2>21, <2>22, <2>23
<1> QED  BY <1>8, <1>9

\* Initially nothing is marked.
LEMMA TypeInit == Init => TypeInv
<1> SUFFICES ASSUME Init PROVE TypeInv
  OBVIOUS
<1>1. /\ hash \in [Tasks -> Hashes] /\ stamp \in SUBSET Tasks /\ sstamp \in SUBSET Setscene
  BY IsBuild DEF Init
<1>2. DOMAIN sq_deferred = {}
  BY DEF Init
<1>5. rqdata \in Builds /\ rehashes \in 0..MaxRehash /\ interrupted \in 0..2
  BY BoundsAssumption DEF Init
<1>6. holdoff_need_update \in BOOLEAN /\ sqdone \in BOOLEAN
  BY DEF Init
<1>7. /\ state \in {"SCENE_INIT", "RUNNING", "CLEAN_UP", "COMPLETE", "FAILED"}
      /\ pc \in {"loop", "read", "migrate", "setscene", "holdoff", "task", "wait", "done"}
  BY DEF Init
<1>3. TypeOK
  BY <1>1, <1>2, <1>5, <1>6, <1>7 DEF Init, TypeOK
<1>4. SqOK
  BY DEF Init, SqOK
<1> QED  BY <1>3, <1>4 DEF TypeInv

\* A setscene task's bookkeeping is typed after a step that sets it from a record.
LEMMA BecomesTyped ==
  ASSUME UNCHANGED rqdata, NEW q \in SceneSet, SceneBecomes(q)
  PROVE  /\ sq_buildable' \in SUBSET Setscene' /\ sq_running' \in SUBSET Setscene'
         /\ scenequeue_covered' \in SUBSET Setscene' /\ scenequeue_notcovered' \in SUBSET Setscene'
         /\ tasks_scenequeue_done' \in SUBSET Tasks /\ sq_harddep_deferred' \in SUBSET Setscene'
BY DEF SceneBecomes, SceneSet, Setscene

\* The graph's types stay as long as the graph does.
LEMMA SqStays ==
  ASSUME SqOK, UNCHANGED <<rqdata, sqdata>>, state' = "SCENE_INIT" =>
             state = "SCENE_INIT" /\ pc' = "loop",
         state = "SCENE_INIT" => sqdata # <<>>
  PROVE  SqOK'
<1>1. Setscene' = Setscene
  BY DEF Setscene
<1>2. SqTyped' <=> SqTyped
  BY <1>1 DEF SqTyped, SqRevdeps, SqCovered
<1> QED  BY <1>2 DEF SqOK

\* The collapsed graph is typed.
LEMMA TypeSceneInit == ASSUME TypeInv, SceneInit PROVE TypeInv'
<1>1. BuildOK /\ Setscene \subseteq Tasks /\ rqdata' = rqdata /\ Setscene' = Setscene
  BY IsBuild DEF TypeInv, TypeOK, SceneInit, Setscene
<1>2. DOMAIN sq_deferred' \subseteq Setscene /\ \A t \in DOMAIN sq_deferred' :
          sq_deferred'[t] \in Setscene
  <2> DEFINE first == FirstWithHash
             second == {t \in Setscene : first[HashIndex(t, hash)] # t}
  <2>1. sq_deferred' = [t \in second |-> first[HashIndex(t, hash)]]
    BY DEF SceneInit, SceneQueue
  <2>2. DOMAIN first = {HashIndex(t, hash) : t \in Setscene}
    BY DEF FirstWithHash
  <2> HIDE DEF first
  <2>3. \A t \in Setscene : first[HashIndex(t, hash)] \in Setscene
    BY <1>1, <2>2, FirstIs DEF first
  <2> QED  BY <2>1, <2>3
<1>3. TypeOK'
  BY <1>1, <1>2 DEF TypeInv, TypeOK, SceneInit, diskVars, workVars, runqVars, sqVars,
                 hardVars, validVars, coverVars, hashVars
<1>4. SqTyped'
  <2> DEFINE g == CollapsedGraph
             rev == [s \in Setscene |-> {r \in Setscene : <<s, r>> \in g.squash}]
             cov == [s \in Setscene |-> {t \in Tasks : <<s, t>> \in g.collated}]
  <2>1. sqdata' = [sq_revdeps |-> rev, sq_covered_tasks |-> cov,
                   unskippable |-> Unskippable, hashes |-> FirstWithHash]
    BY DEF SceneInit, SceneQueue
  <2>2. \A s \in Setscene : rev[s] \subseteq Setscene /\ cov[s] \subseteq Tasks
    OBVIOUS
  <2> HIDE DEF rev, cov
  <2>3. /\ sqdata'.sq_revdeps = rev /\ sqdata'.sq_covered_tasks = cov
        /\ sqdata'.unskippable = Unskippable /\ sqdata'.hashes = FirstWithHash
    BY <2>1
  <2> QED  BY <1>1, <2>2, <2>3, FirstIs, UnskippableIs DEF SqTyped, SqRevdeps, SqCovered
<1>5. SqOK'
  <2>1. state' = "SCENE_INIT" /\ pc' = "loop"
    BY DEF SceneInit
  <2> QED  BY <1>4, <2>1 DEF SqOK
<1> QED  BY <1>3, <1>5 DEF TypeInv

\* The start skips tasks with a stamp only.
LEMMA TypeSceneStart == ASSUME TypeInv, SceneStart PROVE TypeInv'
<1> DEFINE roots == {t \in Tasks : Depends(t) = {}}
           q == [Scene EXCEPT !.buildable = {s \in Setscene : SqRevdeps(s) = {}},
                              !.done = sqdata.unskippable \ Setscene]
           skipped == SkippedScene(q, SceneStamped)
<1>1. /\ BuildOK /\ Setscene \subseteq Tasks /\ rqdata' = rqdata /\ Setscene' = Setscene /\ SqTyped
      /\ TypeOK
  BY IsBuild DEF TypeInv, TypeOK, SqOK, SceneStart, Setscene
<1>2. /\ state' = "RUNNING" /\ state = "SCENE_INIT" /\ sqdata # <<>>
      /\ UpdateValid(Setscene, SceneStamped, skipped, DOMAIN sq_deferred)
      /\ SceneBecomes(skipped)
      /\ runq_buildable' = runq_buildable \union
             (IF Setscene = {} THEN roots ELSE roots \intersect (sqdata.unskippable \ Setscene))
      /\ tasks_notcovered' = IF Setscene = {} THEN Tasks ELSE {}
      /\ sqdone' = (Setscene = {})
      /\ holdoff_need_update' = TRUE
      /\ UNCHANGED <<rqdata, sqdata, pc, interrupted, sq_deferred, diskVars, workVars,
                 runq_running, runq_complete, runq_tasksrun, failed_tids, hardVars,
                 tasks_covered, holdoff_tasks, hashVars>>
  BY DEF SceneStart
<1>3. q \in SceneSet
  BY <1>1, SceneTyped DEF SqTyped, SceneSet
<1>4. SceneStamped \in SUBSET Setscene
  BY DEF SceneStamped
<1>5. skipped \in SceneSet
  <2> HIDE DEF q
  <2> QED  BY <1>1, <1>3, <1>4, SkippedIs
<1> HIDE DEF skipped
<1>6. /\ sq_buildable' \in SUBSET Setscene' /\ sq_running' \in SUBSET Setscene'
         /\ scenequeue_covered' \in SUBSET Setscene' /\ scenequeue_notcovered' \in SUBSET Setscene'
         /\ tasks_scenequeue_done' \in SUBSET Tasks /\ sq_harddep_deferred' \in SUBSET Setscene'
  BY <1>1, <1>2, <1>5, BecomesTyped
<1>7. valid' \in SUBSET Setscene' /\ outrightfail' \in SUBSET Setscene'
  BY <1>1, <1>2, <1>4 DEF UpdateValid, TypeOK
<1>8. runq_buildable' \in SUBSET Tasks /\ tasks_notcovered' \in SUBSET Tasks
  BY <1>1, <1>2 DEF TypeOK
<1>9. sqdone' \in BOOLEAN
  BY <1>2
<1>10. UNCHANGED <<hash, stamp, sstamp, pc, active, runq_running, runq_complete, runq_tasksrun,
         failed_tids, tasks_covered, holdoff_tasks, sq_live, sq_needed_harddeps,
         pending_migrations, sq_deferred, scenequeue_notneeded, updated_taskhash_queue,
         rehashes, interrupted>> /\ holdoff_need_update' = TRUE /\ state' = "RUNNING"
  BY <1>2 DEF diskVars, workVars, hardVars, hashVars
<1>11. TypeOK'
  BY <1>1, <1>6, <1>7, <1>8, <1>9, <1>10 DEF TypeOK
<1>12. SqOK'
  BY <1>2, SqStays DEF TypeInv
<1> QED  BY <1>11, <1>12 DEF TypeInv

\* The steps that change neither a task nor a setscene task.
LEMMA TypeQuiet ==
  ASSUME TypeInv,
         Finish \/ BuildDone \/ Shutdown \/ ForceShutdown \/ ReadEnd \/ TaskWait \/ QueueEmpty
         \/ ForceDeferred \/ Ended \/ UNCHANGED vars
  PROVE  TypeInv'
<1>1. rqdata' = rqdata /\ sqdata' = sqdata /\ Setscene' = Setscene
  BY DEF Finish, BuildDone, Shutdown, ForceShutdown, ReadEnd, TaskWait, QueueEmpty,
         ForceDeferred, Ended, vars, Quiet, Setscene
<1>2. UNCHANGED <<diskVars, runqVars, sqVars, hardVars, validVars, coverVars, hashVars>>
  BY DEF Finish, BuildDone, Shutdown, ForceShutdown, ReadEnd, TaskWait, QueueEmpty,
         ForceDeferred, Ended, vars
<1>3. active' \subseteq active /\ sq_live' \subseteq sq_live
  BY DEF Finish, BuildDone, Shutdown, ForceShutdown, ReadEnd, TaskWait, QueueEmpty,
         ForceDeferred, Ended, vars, workVars
<1>4. DOMAIN sq_deferred' \subseteq DOMAIN sq_deferred
      /\ \A t \in DOMAIN sq_deferred' : sq_deferred'[t] = sq_deferred[t]
  BY DEF Finish, BuildDone, Shutdown, ForceShutdown, ReadEnd, TaskWait, QueueEmpty,
         ForceDeferred, Ended, vars, Undeferred
<1>5. /\ state' \in {"SCENE_INIT", "RUNNING", "CLEAN_UP", "COMPLETE", "FAILED"}
      /\ state' = "SCENE_INIT" => state = "SCENE_INIT" /\ pc' = pc /\ sqdata' = sqdata
      /\ state = "SCENE_INIT" => state' = "SCENE_INIT"
  BY DEF Finish, BuildDone, Shutdown, ForceShutdown, ReadEnd, TaskWait, QueueEmpty,
         ForceDeferred, Ended, vars, TypeInv, TypeOK, Finished, PassStarts, SqOK
<1>6. /\ pc' \in {"loop", "read", "migrate", "setscene", "holdoff", "task", "wait", "done"}
      /\ interrupted' \in 0..2
  BY DEF Finish, BuildDone, Shutdown, ForceShutdown, ReadEnd, TaskWait, QueueEmpty,
         ForceDeferred, Ended, vars, TypeInv, TypeOK, Quiet
<1>7. TypeOK'
  BY <1>1, <1>2, <1>3, <1>4, <1>5, <1>6 DEF TypeInv, TypeOK, diskVars, runqVars, sqVars,
     hardVars,
     validVars, coverVars, hashVars
<1>8. SqOK'
  <2>1. SqTyped' <=> SqTyped
    BY <1>1 DEF SqTyped, SqRevdeps, SqCovered
  <2> QED  BY <1>1, <1>5, <2>1 DEF TypeInv, SqOK
<1> QED  BY <1>7, <1>8 DEF TypeInv

\* What the setscene part is after scenequeue_updatecounters().
LEMMA TypeScene ==
  ASSUME TypeInv, SqTyped, NEW t \in Tasks,
         SceneComplete(t) \/ SceneFail(t) \/ SceneNotNeeded(t) \/ SceneReject(t)
  PROVE  TypeInv'
<1>1. /\ BuildOK /\ Setscene \subseteq Tasks /\ rqdata' = rqdata /\ Setscene' = Setscene
      /\ sqdata' = sqdata /\ Scene \in SceneSet /\ TypeOK
  BY IsBuild, SceneTyped
     DEF TypeInv, TypeOK, SceneComplete, SceneFail, SceneNotNeeded, SceneReject, Setscene, Quiet
<1>2. t \in Setscene
  BY DEF SceneComplete, SceneFail, SceneNotNeeded, SceneReject, SceneCandidates, TypeInv,
     TypeOK
<1>3. \E q \in SceneSet : SceneBecomes(q)
  <2>1. CASE SceneComplete(t)
    <3>1. CompletedScene(Scene, {t}) \in SceneSet
      BY <1>1, <1>2, CompletedIs
    <3> QED  BY <2>1, <3>1 DEF SceneComplete
  <2>2. CASE SceneFail(t)
    <3>1. FailedScene(Scene, t, SceneStamped) \in SceneSet
      BY <1>1, <1>2, FailedIs
    <3> QED  BY <2>2, <3>1 DEF SceneFail
  <2>3. CASE SceneNotNeeded(t)
    <3>1. SkippedScene(Scene, {t}) \in SceneSet
      BY <1>1, <1>2, SkippedIs
    <3> QED  BY <2>3, <3>1 DEF SceneNotNeeded
  <2>4. CASE SceneReject(t)
    <3>1. FailedOutright(Scene, {t}, SceneStamped) \in SceneSet
      BY <1>1, <1>2, FailedOutrightIs
    <3> QED  BY <2>4, <3>1 DEF SceneReject
  <2> QED  BY <2>1, <2>2, <2>3, <2>4
<1>4. /\ sq_buildable' \in SUBSET Setscene' /\ sq_running' \in SUBSET Setscene'
         /\ scenequeue_covered' \in SUBSET Setscene' /\ scenequeue_notcovered' \in SUBSET Setscene'
         /\ tasks_scenequeue_done' \in SUBSET Tasks /\ sq_harddep_deferred' \in SUBSET Setscene'
  BY <1>1, <1>3, BecomesTyped
<1>5. /\ sq_live' \in SUBSET Setscene /\ active' = active
      /\ sstamp' \in SUBSET Setscene /\ stamp' \in SUBSET Tasks
      /\ holdoff_need_update' \in BOOLEAN
      /\ scenequeue_notneeded' \in SUBSET Setscene
      /\ sq_needed_harddeps' = sq_needed_harddeps
  BY <1>1, <1>2 DEF SceneComplete, SceneFail, SceneNotNeeded, SceneReject, TypeOK, diskVars,
     workVars, hardVars
<1>6. DOMAIN sq_deferred' \subseteq DOMAIN sq_deferred
      /\ \A u \in DOMAIN sq_deferred' : sq_deferred'[u] = sq_deferred[u]
  BY DEF SceneComplete, SceneFail, SceneNotNeeded, SceneReject, Undeferred
<1>7. /\ pc' \in {"loop", "read", "migrate", "setscene", "holdoff", "task", "wait", "done"}
      /\ interrupted' = interrupted /\ state' = state
      /\ state = "SCENE_INIT" => FALSE
  BY <1>1, <1>2 DEF SceneComplete, SceneFail, SceneNotNeeded, SceneReject, AfterRead,
     Quiet, Reading,
     PassStarts, TypeInv, SqOK
<1>8. UNCHANGED <<runqVars, validVars, coverVars, hashVars>>
  BY DEF SceneComplete, SceneFail, SceneNotNeeded, SceneReject
<1>9. TypeOK'
  BY <1>1, <1>4, <1>5, <1>6, <1>7, <1>8 DEF TypeOK, runqVars, validVars, coverVars, hashVars
<1>10. SqOK'
  BY <1>1, <1>7, SqStays DEF TypeInv
<1> QED  BY <1>9, <1>10 DEF TypeInv

\* The ends and the skips of real tasks.
LEMMA TypeOutright ==
  ASSUME TypeInv, SqTyped, NEW t \in Tasks, TaskComplete(t) \/ TaskSkip(t) \/ TaskNoExec(t)
  PROVE  TypeInv'
<1>1. /\ BuildOK /\ Setscene \subseteq Tasks /\ rqdata' = rqdata /\ Setscene' = Setscene
      /\ sqdata' = sqdata /\ TypeOK
  BY IsBuild DEF TypeInv, TypeOK, TaskComplete, TaskSkip, TaskNoExec, Setscene, Quiet
<1>2. \E buildable \in SUBSET Tasks : CompleteOutright(t, buildable)
  BY DEF TaskComplete, TaskSkip, TaskNoExec, TypeInv, TypeOK
<1>3. PICK buildable \in SUBSET Tasks : CompleteOutright(t, buildable)
  BY <1>2
<1>4. /\ runq_complete' = runq_complete \union {t} /\ runq_buildable' \in SUBSET Tasks
      /\ sq_buildable' \subseteq Setscene /\ tasks_scenequeue_done' \in SUBSET Tasks
      /\ valid' \in SUBSET Setscene /\ outrightfail' \in SUBSET Setscene
      /\ DOMAIN sq_deferred' \subseteq DOMAIN sq_deferred
      /\ \A u \in DOMAIN sq_deferred' : sq_deferred'[u] \in Setscene
      /\ holdoff_need_update' \in BOOLEAN
  BY <1>1, <1>3, CompleteOutrightIs
<1>11. \E stamped \in SUBSET Setscene :
              /\ sq_running' = sq_running \union stamped
              /\ scenequeue_covered' = scenequeue_covered \union stamped
              /\ scenequeue_notcovered' = scenequeue_notcovered
              /\ sq_harddep_deferred' \subseteq sq_harddep_deferred
  BY <1>1, <1>3, CompleteOutrightIs
<1>5. /\ sq_live' = sq_live /\ active' \subseteq active
      /\ sstamp' \in SUBSET Setscene /\ stamp' \in SUBSET Tasks
      /\ runq_running' \in SUBSET Tasks /\ runq_tasksrun' \in SUBSET Tasks
      /\ failed_tids' = failed_tids
  BY <1>1 DEF TaskComplete, TaskSkip, TaskNoExec, TypeOK, diskVars, workVars, Stamped
<1>7. /\ pc' \in {"loop", "read", "migrate", "setscene", "holdoff", "task", "wait", "done"}
      /\ interrupted' = interrupted /\ state' = state
      /\ state = "SCENE_INIT" => FALSE
  BY <1>1 DEF TaskComplete, TaskSkip, TaskNoExec, AfterRead, Quiet, Reading,
     PassStarts, TypeInv, SqOK
<1>8. UNCHANGED <<hardVars, coverVars, hashVars>>
  BY DEF TaskComplete, TaskSkip, TaskNoExec
<1>12. /\ sq_running \subseteq Setscene /\ scenequeue_covered \subseteq Setscene
       /\ scenequeue_notcovered \subseteq Setscene /\ sq_harddep_deferred \subseteq Setscene
       /\ runq_complete \subseteq Tasks /\ DOMAIN sq_deferred \subseteq Setscene
  BY <1>1 DEF TypeOK
<1>6. /\ sq_running' \in SUBSET Setscene /\ scenequeue_covered' \in SUBSET Setscene
      /\ scenequeue_notcovered' \in SUBSET Setscene /\ sq_harddep_deferred' \in SUBSET Setscene
  BY <1>11, <1>12
<1>14. /\ runq_complete' \in SUBSET Tasks /\ sq_buildable' \in SUBSET Setscene
       /\ DOMAIN sq_deferred' \in SUBSET Setscene
  BY <1>4, <1>12
<1>9. TypeOK'
  BY <1>1, <1>5, <1>4, <1>6, <1>14, <1>7, <1>8 DEF TypeOK, hardVars, coverVars, hashVars
<1>10. SqOK'
  BY <1>1, <1>7, SqStays DEF TypeInv
<1> QED  BY <1>9, <1>10 DEF TypeInv

\* The other steps of the tasks.
LEMMA TypeTask ==
  ASSUME TypeInv, SqTyped, NEW t \in Tasks,
         TaskRun(t) \/ TaskFail(t) \/ (\E h \in Hashes : HashReport(t, h))
           \/ SceneRun(t) \/ SceneHardDefer(t)
  PROVE  TypeInv'
<1>1. /\ BuildOK /\ Setscene \subseteq Tasks /\ rqdata' = rqdata /\ Setscene' = Setscene
      /\ sqdata' = sqdata /\ TypeOK
  BY IsBuild DEF TypeInv, TypeOK, TaskRun, TaskFail, HashReport, SceneRun, SceneHardDefer,
     Setscene, Quiet
<1>2. SceneRun(t) \/ SceneHardDefer(t) => t \in Setscene /\ rqdata.hard[t] \subseteq Setscene
  BY <1>1 DEF SceneRun, SceneHardDefer, SceneCandidates, BuildOK, Setscene
<1>3. /\ UNCHANGED <<diskVars, scenequeue_covered, scenequeue_notcovered, tasks_scenequeue_done,
            runq_complete, runq_buildable, runq_tasksrun, holdoff_need_update,
                scenequeue_notneeded, validVars, coverVars,
            hash, pending_migrations, interrupted>>
      /\ state' \in {state, "CLEAN_UP"} /\ (state = "SCENE_INIT" => FALSE)
  BY <1>1 DEF TaskRun, TaskFail, HashReport, SceneRun, SceneHardDefer, sqVars, hardVars,
     runqVars,
     hashVars, Quiet, TypeInv, SqOK, Reading, PassStarts
<1>4. /\ sq_live' \in SUBSET Setscene /\ active' \in SUBSET Tasks
      /\ runq_running' \in SUBSET Tasks /\ failed_tids' \in SUBSET Tasks
      /\ sq_buildable' \in SUBSET Setscene /\ sq_running' \in SUBSET Setscene
      /\ sq_harddep_deferred' \in SUBSET Setscene /\ sq_needed_harddeps' \in SUBSET Setscene
  BY <1>1, <1>2 DEF TaskRun, TaskFail, HashReport, SceneRun, SceneHardDefer, sqVars,
     hardVars, runqVars,
     workVars, TypeOK
<1>5. DOMAIN sq_deferred' \subseteq DOMAIN sq_deferred
      /\ \A u \in DOMAIN sq_deferred' : sq_deferred'[u] = sq_deferred[u]
  BY DEF TaskRun, TaskFail, HashReport, SceneRun, SceneHardDefer, Undeferred
<1>6. updated_taskhash_queue' \in SUBSET (Tasks \X Hashes) /\ rehashes' \in 0..MaxRehash
  BY <1>1, BoundsAssumption DEF TaskRun, TaskFail, HashReport, SceneRun, SceneHardDefer,
     hashVars, TypeOK
<1>7. pc' \in {"loop", "read", "migrate", "setscene", "holdoff", "task", "wait", "done"}
  BY <1>1 DEF TaskRun, TaskFail, HashReport, SceneRun, SceneHardDefer, AfterRead
<1>8. state' \in {"SCENE_INIT", "RUNNING", "CLEAN_UP", "COMPLETE", "FAILED"}
  BY <1>1, <1>3 DEF TypeOK
<1>9. TypeOK'
  BY <1>1, <1>3, <1>4, <1>5, <1>6, <1>7, <1>8 DEF TypeOK, diskVars, validVars, coverVars
<1>10. SqOK'
  BY <1>1, <1>3, SqStays DEF TypeInv
<1> QED  BY <1>9, <1>10 DEF TypeInv

\* update_holdofftasks() computes sets of tasks.
LEMMA TypeHoldOff == ASSUME TypeInv, SqTyped, HoldOffStep PROVE TypeInv'
<1>1. /\ BuildOK /\ Setscene \subseteq Tasks /\ rqdata' = rqdata /\ Setscene' = Setscene
      /\ sqdata' = sqdata /\ TypeOK
  BY IsBuild DEF TypeInv, TypeOK, HoldOffStep, Setscene, Quiet
<1>2. Covered \subseteq Tasks /\ NotCovered \subseteq Tasks /\ HoldOff \subseteq Tasks
  BY <1>1 DEF Covered, NotCovered, HoldOff, TypeOK, SqTyped
<1>3. UpdateHoldOff
  BY DEF HoldOffStep
<1>4. /\ tasks_covered' \in SUBSET Tasks /\ tasks_notcovered' \in SUBSET Tasks
      /\ runq_buildable' \in SUBSET Tasks /\ holdoff_tasks' \in SUBSET Tasks
      /\ holdoff_need_update' \in BOOLEAN
  BY <1>1, <1>2, <1>3 DEF UpdateHoldOff, TypeOK
<1>5. /\ state' \in {state, "FAILED"} /\ pc' \in {"loop", "task"} /\ sqdone' \in BOOLEAN
      /\ state = "SCENE_INIT" => FALSE
  <2>1. \/ state' = "FAILED" /\ pc' = "loop" /\ UNCHANGED sqdone
        \/ sqdone' = TRUE /\ pc' = "task" /\ UNCHANGED state
        \/ pc' = "task" /\ UNCHANGED <<sqdone, state>>
    BY DEF HoldOffStep
  <2>2. pc # "loop"
    BY DEF HoldOffStep
  <2> QED  BY <1>1, <2>1, <2>2 DEF TypeOK, TypeInv, SqOK
<1>6. UNCHANGED <<sq_deferred, diskVars, workVars, runq_running, runq_complete, runq_tasksrun,
                 failed_tids, sq_buildable, sq_running, scenequeue_covered,
                 scenequeue_notcovered, tasks_scenequeue_done, sq_harddep_deferred, hardVars,
                 validVars, hashVars, interrupted>>
  BY DEF HoldOffStep, Quiet
<1>9. TypeOK'
  BY <1>1, <1>4, <1>5, <1>6 DEF TypeOK, diskVars, workVars, hardVars, validVars, hashVars
<1>10. SqOK'
  BY <1>1, <1>5, SqStays DEF TypeInv
<1> QED  BY <1>9, <1>10 DEF TypeInv

\* A migration keeps the types.
LEMMA TypeMigrate == ASSUME TypeInv, SqTyped, Migrate PROVE TypeInv'
<1>1. /\ BuildOK /\ Setscene \subseteq Tasks /\ rqdata' = rqdata /\ Setscene' = Setscene
      /\ sqdata' = sqdata /\ TypeOK
  BY IsBuild DEF TypeInv, TypeOK, Migrate, Setscene, Quiet
<1>2. /\ UNCHANGED <<workVars, runq_buildable, runq_running, runq_complete, runq_tasksrun,
                 tasks_covered, tasks_notcovered, holdoff_tasks, rehashes, interrupted>>
      /\ pc' = "setscene" /\ state # "SCENE_INIT"
  BY DEF Migrate, Quiet, TypeInv, SqOK
<1>3. /\ hash' \in [Tasks -> Hashes] /\ updated_taskhash_queue' \subseteq updated_taskhash_queue
      /\ stamp' \subseteq stamp /\ sstamp' \subseteq sstamp
  BY <1>1, MigrateIs
<1>4. PICK pending \in SUBSET Setscene, touched \in BOOLEAN, stamped \in SUBSET Setscene,
               failed \in SUBSET Setscene :
              MovedWrong(pending) \/ MovedAll(pending, touched, stamped, failed)
  BY <1>1, MigrateIs
<1>5. Moved(pending) \subseteq Setscene /\ Waits(pending) \subseteq
          Setscene /\ Wrong(pending) \subseteq Setscene
  BY <1>1, MovedSets
<1>6. CASE MovedWrong(pending)
  <2>1. TypeOK'
    BY <1>1, <1>2, <1>3, <1>5, <1>6 DEF TypeOK, MovedWrong, workVars
  <2>2. SqOK'
    BY <1>1, <1>2, <1>6, SqStays DEF TypeInv, MovedWrong
  <2> QED  BY <2>1, <2>2 DEF TypeInv
<1>7. CASE MovedAll(pending, touched, stamped, failed)
  <2>3. /\ scenequeue_covered' \in SUBSET Setscene /\ scenequeue_notcovered' \in SUBSET Setscene
        /\ sq_running' \in SUBSET Setscene /\ sq_buildable' \in SUBSET Setscene
        /\ sq_harddep_deferred' \in SUBSET Setscene /\ tasks_scenequeue_done' \in SUBSET Tasks
        /\ pending_migrations' \in SUBSET Setscene /\ scenequeue_notneeded' \in SUBSET Setscene
        /\ DOMAIN sq_deferred' \in SUBSET Setscene
        /\ \A u \in DOMAIN sq_deferred' : sq_deferred'[u] \in Setscene
        /\ valid' \in SUBSET Setscene /\ outrightfail' \in SUBSET Setscene
        /\ sq_needed_harddeps' \in SUBSET Setscene
        /\ holdoff_need_update' \in BOOLEAN /\ sqdone' \in BOOLEAN
        /\ UNCHANGED <<state, failed_tids>>
    BY <1>1, <1>5, <1>7 DEF TypeOK, MovedAll
  <2>1. TypeOK'
    BY <1>1, <1>2, <1>3, <2>3 DEF TypeOK, workVars
  <2>2. SqOK'
    BY <1>1, <1>2, <2>3, SqStays DEF TypeInv
  <2> QED  BY <2>1, <2>2 DEF TypeInv
<1> QED  BY <1>4, <1>6, <1>7

\* Every step keeps the types.
LEMMA TypeNext == ASSUME TypeInv, [Next]_vars PROVE TypeInv'
<1>1. CASE SceneInit
  BY <1>1, TypeSceneInit
<1>2. CASE SceneStart
  BY <1>2, TypeSceneStart
<1>3. CASE Finish \/ BuildDone \/ Shutdown \/ ForceShutdown \/ ReadEnd \/ TaskWait \/ QueueEmpty
         \/ ForceDeferred \/ Ended \/ UNCHANGED vars
  BY <1>3, TypeQuiet
<1>4. CASE Migrate
  <2>1. SqTyped
    BY <1>4 DEF Migrate, TypeInv, SqOK
  <2> QED  BY <1>4, <2>1, TypeMigrate
<1>5. CASE HoldOffStep
  <2>1. SqTyped
    BY <1>5 DEF HoldOffStep, TypeInv, SqOK
  <2> QED  BY <1>5, <2>1, TypeHoldOff
<1>6. ASSUME NEW t \in Tasks, WorkerReport(t) \/ SceneStep(t) \/ TaskStep(t)
      PROVE  TypeInv'
  <2>1. state # "SCENE_INIT"
    BY <1>6 DEF WorkerReport, SceneStep, TaskStep, TaskComplete, TaskFail, SceneComplete,
       SceneFail,
       HashReport, SceneNotNeeded, SceneHardDefer, SceneReject, SceneRun, TaskSkip,
           TaskNoExec, TaskRun,
       Reading, PassStarts, TypeInv, SqOK
  <2>2. SqTyped
    BY <2>1 DEF TypeInv, SqOK
  <2>3. \/ SceneComplete(t) \/ SceneFail(t) \/ SceneNotNeeded(t) \/ SceneReject(t)
        \/ TaskComplete(t) \/ TaskSkip(t) \/ TaskNoExec(t)
        \/ TaskRun(t) \/ TaskFail(t) \/ (\E h \in Hashes : HashReport(t, h))
           \/ SceneRun(t) \/ SceneHardDefer(t)
    BY <1>6 DEF WorkerReport, SceneStep, TaskStep
  <2> QED  BY <2>2, <2>3, TypeScene, TypeOutright, TypeTask
<1> QED  BY <1>1, <1>2, <1>3, <1>4, <1>5, <1>6 DEF Next

\* Every variable keeps its type, through all that the setscene bookkeeping does
\* in one record.
THEOREM RunQueueTypes == Spec => []TypeOK
<1>1. Init => TypeInv
  BY TypeInit
<1>2. TypeInv /\ [Next]_vars => TypeInv'
  BY TypeNext
<1>3. TypeInv => TypeOK
  BY DEF TypeInv
<1> QED  BY <1>1, <1>2, <1>3, PTL DEF Spec

\* No setscene task is among those that it cannot do without.
HardAcyclic ==
  \E rank \in [Setscene -> Nat] : \A s \in Setscene : \A h \in rqdata.hard[s] : rank[h] < rank[s]
\* The setscene tasks that need another have no stamp of an earlier build.
HardUnstamped == \A s \in Setscene \intersect rqdata.stamp : rqdata.hard[s] = {}
\* The setscene tasks that are decided.
Handled == scenequeue_covered \union scenequeue_notcovered

\* Setscene tasks may still be moved back to the queue.
Going == state = "RUNNING" \/ pc \in {"read", "migrate"}
\* The setscene task t runs or may still be started.
Startable(t) == Going \/ t \in sq_live \/ (pc = "setscene" /\ t \in sq_buildable)

\* Neither t's real task nor one it covers has been started, or is at work.
Untouched(t) == t \notin runq_running /\ SqCovered(t) \intersect (runq_running \ runq_complete) = {}
\* The real task of t, and of what t covers, waits.
HeldOff(t) == t \in holdoff_tasks /\ SqCovered(t) \ runq_complete \subseteq holdoff_tasks

\* While an open setscene task may start, nothing it stands for has begun;
OpenUntouched == \A t \in Setscene \ Handled : Startable(t) => Untouched(t)
\* and once update_holdofftasks() has seen it, nothing of it can begin.
OpenHeldOff == ~holdoff_need_update => \A t \in Setscene \ Handled : Startable(t) => HeldOff(t)

\* The real tasks and the setscene tasks at work.
LiveInv ==
  /\ active \subseteq runq_running \ runq_complete /\ runq_complete \subseteq runq_running
  /\ sq_live \union Handled \subseteq sq_running /\ sq_live \intersect Handled = {}
  /\ DOMAIN sq_deferred \intersect sq_live = {}
  /\ state = "SCENE_INIT" =>
      runq_running = {} /\ Handled = {} /\ sq_live = {} /\ pending_migrations = {}
  /\ pc = "task" => ~holdoff_need_update

\* A setscene task that waits to be moved is not covered, or moves no more.
WaitingLost ==
  Going => \A p \in pending_migrations :
    p \in runq_running \/ p \in scenequeue_notcovered \ scenequeue_covered

\* What a setscene task that runs cannot do without is covered, and an open one
\* has not lost any of it: only a task that has a stamp is spared when what it
\* needs fails, and of the tasks with hard dependencies those have been started.
FreshInv ==
  /\ \A d \in sq_live : rqdata.hard[d] \subseteq scenequeue_covered
  /\ WaitingLost
  /\ \A s \in stamp \intersect Setscene : rqdata.hard[s] = {} \/ s \in runq_running
  /\ state # "SCENE_INIT" => sstamp \union (rqdata.noexec \intersect Setscene) \subseteq
      scenequeue_covered
  /\ \A d \in Setscene \ Handled :
       Startable(d) => rqdata.hard[d] \intersect scenequeue_notcovered = {}
  /\ \A d \in DOMAIN sq_deferred \intersect scenequeue_notcovered : rqdata.hard[d] # {}

\* The inductive invariant behind NoDoubleWork.
WorkInv == LiveInv /\ OpenUntouched /\ OpenHeldOff /\ FreshInv

\* Which setscene tasks have a stamp.
LEMMA StampedHave ==
  BuildOK => \A t \in SceneStamped :
      t \in Setscene /\ t \in rqdata.noexec \union sstamp \union stamp
<1> SUFFICES ASSUME BuildOK, NEW t \in SceneStamped
             PROVE  t \in Setscene /\ t \in rqdata.noexec \union sstamp \union stamp
  OBVIOUS
<1>1. t \in Setscene /\ t \in Tasks
  BY DEF SceneStamped, BuildOK, Setscene
<1>2. StampCurrentDeep[t] => t \in stamp
  BY <1>1, DeepHasStamp DEF StampCurrent
<1> QED  BY <1>1, <1>2 DEF SceneStamped

\* The same of the next state.
LEMMA StampedHaveNext ==
  (BuildOK => \A t \in SceneStamped :
      t \in Setscene /\ t \in rqdata.noexec \union sstamp \union stamp)'
BY StampedHave, PTL

\* A task can be started after a step only if it could before.
LEMMA StaysStartable ==
  ASSUME Going' => Going, sq_live' \subseteq sq_live, pc' = "setscene" =>
             Going \/ (pc = "setscene" /\ sq_buildable' \subseteq sq_buildable)
  PROVE  \A t : Startable(t)' => Startable(t)
BY DEF Startable

\* Steps that start nothing.
LEMMA WorkKept ==
  ASSUME WorkInv, UNCHANGED <<rqdata, sqdata, runq_running>>,
         state # "SCENE_INIT", state' # "SCENE_INIT",
         \A t : Startable(t)' => Startable(t), Going' => Going,
         active' \subseteq active, active' \intersect runq_complete' = {},
         runq_complete \subseteq runq_complete', runq_complete' \subseteq runq_running,
         sq_live' \subseteq sq_live, Handled \subseteq Handled', sq_running \subseteq sq_running',
         Handled' \subseteq sq_running', sq_live' \intersect Handled' = {},
         DOMAIN sq_deferred' \subseteq DOMAIN sq_deferred,
         pc' = "task" => ~holdoff_need_update',
         ~holdoff_need_update' => ~holdoff_need_update /\ holdoff_tasks' = holdoff_tasks
  PROVE  LiveInv' /\ OpenUntouched' /\ OpenHeldOff'
<1>1. Setscene' = Setscene /\ \A t : SqCovered(t)' = SqCovered(t)
  BY DEF Setscene, SqCovered
<1>2. LiveInv'
  BY DEF WorkInv, LiveInv
<1>3. OpenUntouched'
  <2> SUFFICES ASSUME NEW t \in Setscene \ Handled', Startable(t)'
               PROVE  Untouched(t)'
    BY <1>1 DEF OpenUntouched
  <2>1. t \in Setscene \ Handled /\ Startable(t)
    OBVIOUS
  <2> QED  BY <1>1, <2>1 DEF WorkInv, OpenUntouched, Untouched
<1>4. OpenHeldOff'
  <2> SUFFICES ASSUME NEW t \in Setscene \ Handled', Startable(t)', ~holdoff_need_update'
               PROVE  HeldOff(t)'
    BY <1>1 DEF OpenHeldOff
  <2>1. t \in Setscene \ Handled /\ Startable(t) /\ ~holdoff_need_update
    OBVIOUS
  <2> QED  BY <1>1, <2>1 DEF WorkInv, OpenHeldOff, HeldOff
<1> QED  BY <1>2, <1>3, <1>4

\* Steps that take nothing from what a setscene task cannot do without.
LEMMA FreshKept ==
  ASSUME FreshInv, UNCHANGED <<rqdata, sqdata, runq_running, pending_migrations>>,
         state # "SCENE_INIT",
         \A t : Startable(t)' => Startable(t), Going' => Going,
         sq_live' \subseteq sq_live, scenequeue_covered \subseteq scenequeue_covered',
         scenequeue_notcovered \subseteq scenequeue_notcovered',
         Going' => \A p \in pending_migrations : p \in runq_running \/ p \notin
             scenequeue_covered' \ scenequeue_covered,
         stamp' \subseteq stamp \union runq_running, sstamp' \subseteq
             sstamp \union scenequeue_covered',
         DOMAIN sq_deferred' \subseteq DOMAIN sq_deferred,
         \A d \in DOMAIN sq_deferred' \intersect (scenequeue_notcovered' \ scenequeue_notcovered) :
            rqdata.hard[d] # {},
         \A d \in Setscene \ Handled' : Startable(d)' =>
            rqdata.hard[d] \intersect (scenequeue_notcovered' \ scenequeue_notcovered) = {}
  PROVE  FreshInv'
<1>1. Setscene' = Setscene
  BY DEF Setscene
<1>2. \A d \in sq_live' : rqdata'.hard[d] \subseteq scenequeue_covered'
  BY DEF FreshInv
<1>3. WaitingLost'
  BY DEF FreshInv, WaitingLost
<1>4. \A s \in stamp' \intersect Setscene' : rqdata'.hard[s] = {} \/ s \in runq_running'
  BY <1>1 DEF FreshInv
<1>5. sstamp' \union (rqdata'.noexec \intersect Setscene') \subseteq scenequeue_covered'
  BY <1>1 DEF FreshInv
<1>6. \A d \in Setscene' \ Handled' :
       Startable(d)' => rqdata'.hard[d] \intersect scenequeue_notcovered' = {}
  BY <1>1 DEF FreshInv, Handled
<1>7. \A d \in DOMAIN sq_deferred' \intersect scenequeue_notcovered' : rqdata'.hard[d] # {}
  BY DEF FreshInv
<1> QED  BY <1>2, <1>3, <1>4, <1>5, <1>6, <1>7 DEF FreshInv

\* What the end of a setscene task and the decision about one do: the task is
\* covered, or it and what cannot do without it is not covered.
LEMMA SceneEffect ==
  ASSUME TypeInv, WorkInv, NEW t \in Tasks,
         SceneComplete(t) \/ SceneFail(t) \/ SceneNotNeeded(t) \/ SceneReject(t)
  PROVE  /\ t \in Setscene \ Handled
         /\ SceneComplete(t) \/ SceneNotNeeded(t) =>
              /\ scenequeue_covered' = scenequeue_covered \union {t}
              /\ scenequeue_notcovered' = scenequeue_notcovered
              /\ sq_running \subseteq sq_running' /\ t \in sq_running'
         /\ SceneFail(t) \/ SceneReject(t) =>
              /\ scenequeue_covered' = scenequeue_covered
              /\ scenequeue_notcovered' = scenequeue_notcovered \union FailsWith(Scene, {t},
                  SceneStamped)
              /\ sq_running \union FailsWith(Scene, {t}, SceneStamped) \subseteq sq_running'
<1>1. /\ BuildOK /\ SqTyped /\ Scene \in SceneSet
      /\ Scene.covered = scenequeue_covered /\ Scene.notcovered = scenequeue_notcovered
      /\ Scene.running = sq_running
  BY IsBuild, SceneTyped
     DEF TypeInv, TypeOK, SqOK, SceneComplete, SceneFail, SceneNotNeeded, SceneReject, Reading,
         PassStarts, Scene
<1>2. t \in Setscene
  BY DEF SceneComplete, SceneFail, SceneNotNeeded, SceneReject, SceneCandidates, TypeInv,
     TypeOK
<1>3. t \in sq_live \/ t \notin sq_running
  BY DEF SceneComplete, SceneFail, SceneNotNeeded, SceneReject, SceneCandidates
<1>4. t \notin Handled
  BY <1>3 DEF WorkInv, LiveInv
<1>5. ASSUME SceneComplete(t) \/ SceneNotNeeded(t)
      PROVE  /\ scenequeue_covered' = scenequeue_covered \union {t}
             /\ scenequeue_notcovered' = scenequeue_notcovered
             /\ sq_running \subseteq sq_running' /\ t \in sq_running'
  <2>1. CASE SceneComplete(t)
    <3>1. /\ CompletedScene(Scene, {t}).covered = Scene.covered \union {t}
          /\ CompletedScene(Scene, {t}).notcovered = Scene.notcovered
          /\ CompletedScene(Scene, {t}).running = Scene.running
      BY <1>1, <1>2, CompletedIs
    <3> QED  BY <1>1, <2>1, <3>1 DEF SceneComplete, SceneBecomes, WorkInv, LiveInv
  <2>2. CASE SceneNotNeeded(t)
    <3>1. /\ SkippedScene(Scene, {t}).covered = Scene.covered \union {t}
          /\ SkippedScene(Scene, {t}).notcovered = Scene.notcovered
          /\ SkippedScene(Scene, {t}).running = Scene.running \union {t}
      BY <1>1, <1>2, SkippedIs
    <3> QED  BY <1>1, <2>2, <3>1 DEF SceneNotNeeded, SceneBecomes
  <2> QED  BY <1>5, <2>1, <2>2
<1> DEFINE all == FailsWith(Scene, {t}, SceneStamped)
<1>6. ASSUME SceneFail(t) \/ SceneReject(t)
      PROVE  /\ scenequeue_covered' = scenequeue_covered
             /\ scenequeue_notcovered' = scenequeue_notcovered \union all
             /\ sq_running \union all \subseteq sq_running'
  <2>1. t \in all
    BY <1>1, <1>2, FailsWithIs
  <2>2. CASE SceneFail(t)
    <3> DEFINE f == FailedScene(Scene, t, SceneStamped)
    <3>1. Marked(f, Scene, all, all \ {t})
      BY <1>1, <1>2, FailedIs
    <3>2. SceneBecomes(f) /\ t \in sq_running
      BY <2>2 DEF SceneFail, WorkInv, LiveInv
    <3> HIDE DEF f, all
    <3> QED  BY <1>1, <2>1, <3>1, <3>2 DEF SceneBecomes, Marked
  <2>3. CASE SceneReject(t)
    <3> DEFINE f == FailedOutright(Scene, {t}, SceneStamped)
    <3>1. Marked(f, Scene, all, all)
      <4> DEFINE ts == {t}
      <4>1. ts \in SUBSET Setscene
        BY <1>2
      <4> HIDE DEF ts
      <4>2. Marked(FailedOutright(Scene, ts, SceneStamped), Scene, FailsWith(Scene, ts,
                SceneStamped),
                   FailsWith(Scene, ts, SceneStamped))
        BY <1>1, <4>1, FailedOutrightIs
      <4> QED  BY <4>2 DEF ts
    <3>2. SceneBecomes(f)
      BY <2>3 DEF SceneReject
    <3> HIDE DEF f, all
    <3> QED  BY <1>1, <3>1, <3>2 DEF SceneBecomes, Marked
  <2> QED  BY <1>6, <2>2, <2>3
<1> QED  BY <1>2, <1>4, <1>5, <1>6

\* What the step of a real task does to the setscene part: skipped are at most
\* deferred tasks with a stamp.
LEMMA TaskEffect ==
  ASSUME TypeInv, NEW t \in Tasks, TaskStep(t) \/ TaskComplete(t)
  PROVE  /\ DOMAIN sq_deferred' \subseteq DOMAIN sq_deferred
         /\ TaskRun(t) => runq_complete' = runq_complete
         /\ TaskSkip(t) \/ TaskNoExec(t) \/ TaskComplete(t) =>
             runq_complete' = runq_complete \union {t}
         /\ \E stamped \in SUBSET Setscene :
              /\ stamped \subseteq SceneStamped /\ stamped \subseteq DOMAIN sq_deferred
              /\ sq_running' = sq_running \union stamped
              /\ scenequeue_covered' = scenequeue_covered \union stamped
              /\ scenequeue_notcovered' = scenequeue_notcovered
              /\ holdoff_need_update' = (holdoff_need_update \/ stamped # {})
<1>1. /\ TypeOK /\ SqTyped /\ UNCHANGED rqdata
      /\ runq_buildable \in SUBSET Tasks /\ runq_buildable \union {t} \in SUBSET Tasks
  BY DEF TaskStep, TaskSkip, TaskNoExec, TaskRun, TaskComplete, Reading, PassStarts, Quiet,
     TypeInv,
     TypeOK, SqOK
<1>2. ASSUME TaskSkip(t) \/ TaskNoExec(t) \/ TaskComplete(t)
      PROVE  /\ DOMAIN sq_deferred' \subseteq DOMAIN sq_deferred
             /\ runq_complete' = runq_complete \union {t}
             /\ \E stamped \in SUBSET Setscene :
                  /\ stamped \subseteq SceneStamped /\ stamped \subseteq DOMAIN sq_deferred
                  /\ sq_running' = sq_running \union stamped
                  /\ scenequeue_covered' = scenequeue_covered \union stamped
                  /\ scenequeue_notcovered' = scenequeue_notcovered
                  /\ holdoff_need_update' = (holdoff_need_update \/ stamped # {})
  <2>1. \E buildable \in SUBSET Tasks : CompleteOutright(t, buildable)
    BY <1>1, <1>2 DEF TaskSkip, TaskNoExec, TaskComplete
  <2>2. PICK buildable \in SUBSET Tasks : CompleteOutright(t, buildable)
    BY <2>1
  <2>3. /\ DOMAIN sq_deferred' \subseteq DOMAIN sq_deferred
        /\ runq_complete' = runq_complete \union {t}
    BY <1>1, <2>2, CompleteOutrightIs
  <2>4. \E stamped \in SUBSET Setscene :
          /\ stamped \subseteq SceneStamped /\ stamped \subseteq DOMAIN sq_deferred
          /\ sq_running' = sq_running \union stamped
          /\ scenequeue_covered' = scenequeue_covered \union stamped
          /\ scenequeue_notcovered' = scenequeue_notcovered
          /\ holdoff_need_update' = (holdoff_need_update \/ stamped # {})
    BY <1>1, <2>2, CompleteOutrightIs
  <2> QED  BY <2>3, <2>4
<1>3. ASSUME TaskRun(t)
      PROVE  /\ UNCHANGED <<sq_deferred, runq_complete>>
             /\ \E stamped \in SUBSET Setscene :
                  /\ stamped \subseteq SceneStamped /\ stamped \subseteq DOMAIN sq_deferred
                  /\ sq_running' = sq_running \union stamped
                  /\ scenequeue_covered' = scenequeue_covered \union stamped
                  /\ scenequeue_notcovered' = scenequeue_notcovered
                  /\ holdoff_need_update' = (holdoff_need_update \/ stamped # {})
  <2> DEFINE none == {}
  <2>1. /\ none \in SUBSET Setscene /\ none \subseteq SceneStamped
        /\ none \subseteq DOMAIN sq_deferred
        /\ sq_running' = sq_running \union none
        /\ scenequeue_covered' = scenequeue_covered \union none
        /\ scenequeue_notcovered' = scenequeue_notcovered
        /\ holdoff_need_update' = (holdoff_need_update \/ none # {})
    BY <1>1, <1>3 DEF TaskRun, sqVars, TypeOK
  <2>2. UNCHANGED <<sq_deferred, runq_complete>>
    BY <1>3 DEF TaskRun
  <2> HIDE DEF none
  <2> QED  BY <2>1, <2>2
<1> QED  BY <1>2, <1>3 DEF TaskStep

\* The steps of finish(), of the cooker and of a call that starts nothing.
LEMMA WorkQuiet ==
  ASSUME TypeInv, WorkInv,
         Finish \/ BuildDone \/ Shutdown \/ ForceShutdown \/ ReadEnd \/ TaskWait \/ QueueEmpty
         \/ ForceDeferred
  PROVE  WorkInv'
<1> FreshInv
  BY DEF WorkInv
<1>1. /\ UNCHANGED <<rqdata, sqdata, runqVars, sqVars, hardVars, validVars, coverVars,
          hashVars, diskVars>>
      /\ active' \subseteq active /\ sq_live' \subseteq sq_live
      /\ DOMAIN sq_deferred' \subseteq DOMAIN sq_deferred
      /\ pc' # "task" /\ state # "SCENE_INIT" /\ state' # "SCENE_INIT"
  BY DEF Finish, BuildDone, Shutdown, ForceShutdown, ReadEnd, TaskWait, QueueEmpty,
         ForceDeferred, Quiet, workVars, Undeferred, Finished, PassStarts, TypeInv, SqOK
<1>2. /\ Going' => Going
      /\ pc' = "setscene" => Going
  BY DEF Finish, BuildDone, Shutdown, ForceShutdown, ReadEnd, TaskWait, QueueEmpty,
         ForceDeferred, Finished, PassStarts, Going
<1>3. Handled' = Handled /\ Setscene' = Setscene
  BY <1>1 DEF Handled, sqVars, Setscene
<1>4. \A t : Startable(t)' => Startable(t)
  BY <1>1, <1>2, StaysStartable
<1>5. LiveInv' /\ OpenUntouched' /\ OpenHeldOff'
  BY <1>1, <1>2, <1>3, <1>4, WorkKept DEF runqVars, sqVars, coverVars, WorkInv, LiveInv
<1>6. FreshInv'
  BY <1>1, <1>2, <1>3, <1>4, FreshKept DEF runqVars, sqVars, diskVars, hashVars
<1> QED  BY <1>5, <1>6 DEF WorkInv

\* The ends of real tasks.
LEMMA WorkTaskEnds ==
  ASSUME TypeInv, WorkInv, NEW t \in Tasks,
         TaskComplete(t) \/ TaskFail(t) \/ (\E h \in Hashes : HashReport(t, h))
  PROVE  WorkInv'
<1> FreshInv
  BY DEF WorkInv
<1>1. /\ TypeOK /\ BuildOK /\ state # "SCENE_INIT" /\ SqTyped /\ t \in active
      /\ UNCHANGED <<rqdata, sqdata, runq_running, sq_live, pending_migrations, coverVars>>
      /\ pc' # "task" /\ state' \in {state, "CLEAN_UP"} /\ pc' # "setscene"
      /\ active' \subseteq active
  BY IsBuild DEF TypeInv, TypeOK, SqOK, TaskComplete, TaskFail, HashReport, Reading,
     PassStarts,
     Quiet, hashVars, AfterRead, workVars, runqVars
<1>2. Going' => Going
  BY <1>1 DEF TaskComplete, TaskFail, HashReport, Reading, PassStarts, AfterRead, Going
<1>4. \A u : Startable(u)' => Startable(u)
  BY <1>1, <1>2, StaysStartable
<1>6. CASE TaskComplete(t)
  <2>1. /\ runq_complete' = runq_complete \union {t} /\ active' = active \ {t}
        /\ \A x \in DOMAIN sq_deferred' : x \in DOMAIN sq_deferred
    BY <1>6, TaskEffect DEF TaskComplete
  <2>3. PICK stamped \in SUBSET Setscene :
              /\ stamped \subseteq SceneStamped /\ stamped \subseteq DOMAIN sq_deferred
              /\ sq_running' = sq_running \union stamped
              /\ scenequeue_covered' = scenequeue_covered \union stamped
              /\ scenequeue_notcovered' = scenequeue_notcovered
              /\ holdoff_need_update' = (holdoff_need_update \/ stamped # {})
    BY <1>6, TaskEffect
  <2>4. /\ Handled' = Handled \union stamped
        /\ stamped \intersect sq_live = {}
    BY <2>3 DEF WorkInv, LiveInv, Handled
  <2>5. LiveInv' /\ OpenUntouched' /\ OpenHeldOff'
    BY <1>1, <1>2, <1>4, <2>1, <2>3, <2>4, WorkKept DEF coverVars, WorkInv, LiveInv
  <2>6. FreshInv'
    <3>1. /\ stamp' \subseteq stamp \union runq_running /\ sstamp' \subseteq sstamp
      BY <1>1, <1>6 DEF TaskComplete, Stamped, WorkInv, LiveInv
    <3>2. ASSUME Going, NEW p \in pending_migrations, p \in scenequeue_covered' \ scenequeue_covered
          PROVE  p \in runq_running
      <4>1. p \in SceneStamped /\ p \in DOMAIN sq_deferred
        BY <2>3, <3>2
      <4>2. p \in stamp \intersect Setscene
        BY <1>1, <3>2, <4>1, StampedHave DEF FreshInv
      <4> QED  BY <3>2, <4>1, <4>2 DEF FreshInv, WaitingLost
    <3>3. DOMAIN sq_deferred' \subseteq DOMAIN sq_deferred
      BY <2>1
    <3> QED  BY <1>1, <1>2, <1>4, <2>3, <3>1, <3>2, <3>3, FreshKept
  <2> QED  BY <2>5, <2>6 DEF WorkInv
<1>7. CASE TaskFail(t) \/ (\E h \in Hashes : HashReport(t, h))
  <2>1. UNCHANGED <<sqVars, stamp, sstamp, runq_complete, sq_deferred>>
    BY <1>7 DEF TaskFail, HashReport, runqVars, diskVars
  <2>2. Handled' = Handled
    BY <2>1 DEF Handled, sqVars
  <2>3. LiveInv' /\ OpenUntouched' /\ OpenHeldOff'
    BY <1>1, <1>2, <1>4, <2>1, <2>2, WorkKept DEF coverVars, sqVars, WorkInv, LiveInv
  <2>4. FreshInv'
    BY <1>1, <1>2, <1>4, <2>1, FreshKept DEF sqVars
  <2> QED  BY <2>3, <2>4 DEF WorkInv
<1> QED  BY <1>6, <1>7

\* The tasks that fail with ts, none of which is at work, run neither.
LEMMA FailsNotLive ==
  ASSUME BuildOK, WorkInv, NEW q, q.covered = scenequeue_covered,
             q.notcovered = scenequeue_notcovered,
         NEW ts \in SUBSET Setscene, ts \intersect scenequeue_covered = {}, NEW stamped
  PROVE  (FailsWith(q, ts, stamped) \ ts) \intersect sq_live = {}
<1> SUFFICES ASSUME NEW x \in FailsWith(q, ts, stamped), x \notin ts, x \in sq_live PROVE FALSE
  OBVIOUS
<1>1. PICK y \in FailsWith(q, ts, stamped) : x \in HardDependents(y)
  BY FailsWithIs
<1>2. y \in ts \/ y \notin scenequeue_covered
  BY FailsWithIs
<1>3. y \in rqdata.hard[x]
  BY <1>1 DEF HardDependents
<1> QED  BY <1>2, <1>3 DEF WorkInv, FreshInv

\* What has lost something it cannot do without is itself handled.
LEMMA FailsClosed ==
  ASSUME BuildOK, WorkInv, state # "SCENE_INIT",
         NEW q, q.covered = scenequeue_covered, q.notcovered = scenequeue_notcovered,
         NEW ts \in SUBSET Setscene,
         NEW d \in Setscene, Startable(d), d \notin Handled \union FailsWith(q, ts, SceneStamped)
  PROVE  rqdata.hard[d] \intersect FailsWith(q, ts, SceneStamped) = {}
<1> DEFINE all == FailsWith(q, ts, SceneStamped)
<1> SUFFICES ASSUME NEW t \in all, t \in rqdata.hard[d] PROVE FALSE
  OBVIOUS
<1>1. d \in HardDependents(t)
  BY DEF HardDependents
<1>2. d \in SceneStamped
  <2>1. HardDependents(t) \subseteq all \union (q.covered \union q.notcovered) \union SceneStamped
    BY FailsWithIs
  <2> HIDE DEF all
  <2> QED  BY <1>1, <2>1 DEF Handled, all
<1>3. d \in stamp
  BY <1>2, StampedHave DEF WorkInv, FreshInv, Handled
<1>4. d \notin runq_running
  BY DEF WorkInv, OpenUntouched, Untouched
<1> QED  BY <1>3, <1>4 DEF WorkInv, FreshInv

\* The ends of setscene tasks, and those that are not run.
LEMMA WorkScene ==
  ASSUME TypeInv, WorkInv, NEW t \in Tasks,
         SceneComplete(t) \/ SceneFail(t) \/ SceneNotNeeded(t) \/ SceneReject(t)
  PROVE  WorkInv'
<1> FreshInv
  BY DEF WorkInv
<1>1. /\ BuildOK /\ Setscene \subseteq Tasks /\ UNCHANGED <<rqdata, sqdata>> /\ Setscene' = Setscene
      /\ Scene \in SceneSet /\ TypeOK /\ state # "SCENE_INIT" /\ SqTyped
      /\ Scene.covered = scenequeue_covered /\ Scene.notcovered = scenequeue_notcovered
      /\ Scene.running = sq_running
  BY IsBuild, SceneTyped
     DEF TypeInv, TypeOK, SqOK, SceneComplete, SceneFail, SceneNotNeeded, SceneReject,
             Setscene, Quiet,
         Reading, PassStarts, Scene
<1>2. t \in Setscene
  BY DEF SceneComplete, SceneFail, SceneNotNeeded, SceneReject, SceneCandidates, TypeInv,
     TypeOK
<1>3. /\ UNCHANGED <<active, runqVars, coverVars, hashVars, state>>
      /\ sq_live' \subseteq sq_live /\ holdoff_need_update' = TRUE
      /\ DOMAIN sq_deferred' \subseteq DOMAIN sq_deferred
      /\ pc' # "task" /\ pc' # "setscene"
  BY DEF SceneComplete, SceneFail, SceneNotNeeded, SceneReject, AfterRead, workVars,
     Undeferred
<1>4. Going' => Going
  BY <1>1 DEF SceneComplete, SceneFail, SceneNotNeeded, SceneReject, Reading, PassStarts,
     AfterRead, Going
<1>5. \A u : Startable(u)' => Startable(u)
  BY <1>3, <1>4, StaysStartable
<1>7. \/ t \in sq_live /\ sq_live' = sq_live \ {t}
      \/ t \notin sq_running /\ sq_live' = sq_live
  BY DEF SceneComplete, SceneFail, SceneNotNeeded, SceneReject, SceneCandidates, workVars
<1>8. /\ t \notin Handled /\ t \notin sq_live'
  BY <1>7 DEF WorkInv, LiveInv
<1>9. stamp' \subseteq stamp /\ sstamp' \subseteq sstamp \union {t}
      /\ (SceneFail(t) \/ SceneNotNeeded(t) \/ SceneReject(t) => sstamp' = sstamp)
  BY DEF SceneComplete, SceneFail, SceneNotNeeded, SceneReject, diskVars
<1>10. CASE SceneComplete(t) \/ SceneNotNeeded(t)
  <2>1. /\ scenequeue_covered' = scenequeue_covered \union {t}
        /\ scenequeue_notcovered' = scenequeue_notcovered
        /\ sq_running \subseteq sq_running' /\ t \in sq_running'
    BY <1>10, SceneEffect
  <2>2. Handled' = Handled \union {t}
    BY <2>1 DEF Handled
  <2>3. LiveInv' /\ OpenUntouched' /\ OpenHeldOff'
    BY <1>1, <1>3, <1>4, <1>5, <1>8, <2>1, <2>2, WorkKept DEF runqVars, coverVars, WorkInv,
       LiveInv
  <2>4. FreshInv'
    <3>1. ASSUME Going', NEW p \in pending_migrations, p = t PROVE p \in runq_running
      BY <1>4, <1>8, <3>1 DEF FreshInv, WaitingLost, Handled
    <3> QED  BY <1>1, <1>3, <1>4, <1>5, <1>9, <2>1, <3>1, FreshKept DEF runqVars, hashVars
  <2> QED  BY <2>3, <2>4 DEF WorkInv
<1>11. CASE SceneFail(t) \/ SceneReject(t)
  <2> DEFINE all == FailsWith(Scene, {t}, SceneStamped)
  <2>1. /\ scenequeue_covered' = scenequeue_covered
        /\ scenequeue_notcovered' = scenequeue_notcovered \union all
        /\ sq_running \union all \subseteq sq_running'
    BY <1>11, SceneEffect
  <2>2. Handled' = Handled \union all
    BY <2>1 DEF Handled
  <2>3. (all \ {t}) \intersect sq_live = {}
    BY <1>1, <1>2, <1>8, FailsNotLive DEF Handled
  <2>4. all \subseteq sq_running'
    BY <2>1
  <2> HIDE DEF all
  <2>5. LiveInv' /\ OpenUntouched' /\ OpenHeldOff'
    BY <1>1, <1>3, <1>4, <1>5, <1>8, <2>1, <2>2, <2>3, <2>4, WorkKept DEF runqVars,
       coverVars, WorkInv, LiveInv
  <2>6. FreshInv'
    <3>1. ASSUME NEW d \in Setscene \ Handled', Startable(d)'
          PROVE  rqdata.hard[d] \intersect all = {}
      BY <1>1, <1>2, <1>5, <2>2, <3>1, FailsClosed DEF all
    <3>2. ASSUME NEW d \in DOMAIN sq_deferred', d \in all PROVE rqdata.hard[d] # {}
      <4>1. t \notin DOMAIN sq_deferred'
        BY <1>11 DEF SceneFail, SceneReject, Undeferred, WorkInv, LiveInv
      <4>2. d # t
        BY <3>2, <4>1
      <4>3. \E y \in FailsWith(Scene, {t}, SceneStamped) : d \in HardDependents(y)
        BY <1>1, <1>2, <3>2, <4>2, FailsWithIs DEF all
      <4> QED  BY <4>3 DEF HardDependents
    <3> QED  BY <1>1, <1>3, <1>4, <1>5, <1>9, <1>11, <2>1, <3>1, <3>2,
            FreshKept DEF runqVars, hashVars
  <2> QED  BY <2>5, <2>6 DEF WorkInv
<1> QED  BY <1>10, <1>11

\* A setscene task is put off.
LEMMA WorkHardDefer ==
  ASSUME TypeInv, WorkInv, NEW t \in Tasks, SceneHardDefer(t)
  PROVE  WorkInv'
<1> FreshInv
  BY DEF WorkInv
<1>1. /\ UNCHANGED <<rqdata, sqdata, state, sq_deferred, diskVars, workVars, runqVars, sq_running,
                 scenequeue_covered, scenequeue_notcovered,
                 holdoff_need_update, coverVars, hashVars>>
      /\ state # "SCENE_INIT" /\ Setscene' = Setscene /\ Handled' = Handled
      /\ pc = "setscene" /\ pc' \in {"setscene", "loop"}
      /\ pc' = "setscene" => sq_buildable' \subseteq sq_buildable
  BY DEF SceneHardDefer, Quiet, TypeInv, SqOK, Setscene, Handled
<1>2. Going' => Going
  BY <1>1 DEF Going
<1>3. \A u : Startable(u)' => Startable(u)
  BY <1>1, <1>2, StaysStartable DEF workVars
<1>4. LiveInv' /\ OpenUntouched' /\ OpenHeldOff'
  BY <1>1, <1>2, <1>3, WorkKept DEF workVars, runqVars, coverVars, WorkInv, LiveInv
<1>5. FreshInv'
  BY <1>1, <1>2, <1>3, FreshKept DEF workVars, runqVars, diskVars, hashVars
<1> QED  BY <1>4, <1>5 DEF WorkInv

\* A setscene task that starts: what it covers is held off.
LEMMA WorkSceneRun ==
  ASSUME TypeInv, WorkInv, NEW n \in Tasks, SceneRun(n)
  PROVE  WorkInv'
<1> FreshInv
  BY DEF WorkInv
<1>1. /\ UNCHANGED <<rqdata, sqdata, state, diskVars, active, runqVars, sq_buildable,
          scenequeue_covered,
                 scenequeue_notcovered, holdoff_need_update, hardVars, coverVars, hashVars>>
      /\ sq_running' = sq_running \union {n} /\ sq_live' = sq_live \union {n}
      /\ state # "SCENE_INIT" /\ Setscene' = Setscene /\ Handled' = Handled
      /\ pc = "setscene" /\ pc' \in {"loop", "holdoff"}
      /\ n \in Setscene /\ n \in sq_buildable /\ n \notin sq_running
      /\ HardDepsHandled(n)
  BY DEF SceneRun, SceneCandidates, Quiet, TypeInv, SqOK, Setscene, Handled
<1>2. n \notin Handled /\ Startable(n)
  BY <1>1 DEF WorkInv, LiveInv, Startable
<1>3. \A u : Startable(u)' => Startable(u)
  BY <1>1, <1>2 DEF Startable, Going
<1>4. \A t : SqCovered(t)' = SqCovered(t)
  BY <1>1 DEF SqCovered
<1>5. LiveInv'
  <2>1. DOMAIN sq_deferred' = DOMAIN sq_deferred \ {n}
    BY DEF SceneRun, Undeferred
  <2> QED  BY <1>1, <1>2, <2>1 DEF WorkInv, LiveInv, runqVars
<1>6. OpenUntouched'
  BY <1>1, <1>3, <1>4 DEF WorkInv, OpenUntouched, Untouched, runqVars
<1>7. OpenHeldOff'
  BY <1>1, <1>3, <1>4 DEF WorkInv, OpenHeldOff, HeldOff, runqVars, coverVars
<1>8. FreshInv'
  <2>1. rqdata.hard[n] \subseteq scenequeue_covered
    BY <1>1, <1>2 DEF HardDepsHandled, FreshInv
  <2>2. \A d \in sq_live' : rqdata'.hard[d] \subseteq scenequeue_covered'
    BY <1>1, <2>1 DEF FreshInv
  <2>3. Going' => Going
    BY <1>1 DEF Going
  <2>4. WaitingLost'
    BY <1>1, <2>3 DEF FreshInv, WaitingLost, runqVars, hashVars
  <2>5. DOMAIN sq_deferred' \subseteq DOMAIN sq_deferred
    BY DEF SceneRun, Undeferred
  <2>6. \A d \in DOMAIN sq_deferred' \intersect scenequeue_notcovered' : rqdata'.hard[d] # {}
    BY <1>1, <2>5 DEF FreshInv
  <2> QED  BY <1>1, <1>3, <2>2, <2>4, <2>6 DEF FreshInv, diskVars, runqVars
<1> QED  BY <1>5, <1>6, <1>7, <1>8 DEF WorkInv

\* update_holdofftasks() holds off what is open and what it covers.
LEMMA WorkHoldOff ==
  ASSUME TypeInv, WorkInv, HoldOffStep
  PROVE  WorkInv'
<1> FreshInv
  BY DEF WorkInv
<1>1. /\ UNCHANGED <<rqdata, sqdata, sq_deferred, diskVars, workVars, runq_running, runq_complete,
                 sq_buildable, sq_running, scenequeue_covered,
                 scenequeue_notcovered, hashVars>>
      /\ Setscene' = Setscene /\ Handled' = Handled /\ UpdateHoldOff
      /\ state # "SCENE_INIT" /\ state' \in {state, "FAILED"} /\ pc' \in {"loop", "task"}
  BY DEF HoldOffStep, Quiet, TypeInv, SqOK, Setscene, Handled
<1>2. Going' => Going
  BY <1>1 DEF Going
<1>3. \A u : Startable(u)' => Startable(u)
  BY <1>1, <1>2 DEF Startable, workVars
<1>4. \A t : SqCovered(t)' = SqCovered(t)
  BY <1>1 DEF SqCovered
<1>5. holdoff_need_update' = FALSE
  BY <1>1 DEF UpdateHoldOff, TypeInv, TypeOK
<1>6. LiveInv'
  BY <1>1, <1>5 DEF WorkInv, LiveInv, workVars
<1>7. OpenUntouched'
  BY <1>1, <1>3, <1>4 DEF WorkInv, OpenUntouched, Untouched
<1>8. OpenHeldOff'
  <2>1. CASE holdoff_need_update
    <3>1. holdoff_tasks' = HoldOff
      BY <1>1, <2>1 DEF UpdateHoldOff
    <3>2. \A t \in Setscene \ Handled :
              t \in HoldOff /\ SqCovered(t) \ runq_complete \subseteq HoldOff
      BY DEF HoldOff, Handled
    <3> QED  BY <1>1, <1>4, <3>1, <3>2 DEF OpenHeldOff, HeldOff
  <2>2. CASE ~holdoff_need_update
    <3>1. holdoff_tasks' = holdoff_tasks
      BY <1>1, <2>2 DEF UpdateHoldOff
    <3> QED  BY <1>1, <1>3, <1>4, <2>2, <3>1 DEF WorkInv, OpenHeldOff, HeldOff
  <2> QED  BY <2>1, <2>2
<1>9. FreshInv'
  BY <1>1, <1>2, <1>3, FreshKept DEF workVars, diskVars, hashVars
<1> QED  BY <1>6, <1>7, <1>8, <1>9 DEF WorkInv

\* A task that starts is not held off for a setscene task.
LEMMA WorkTaskStarts ==
  ASSUME TypeInv, WorkInv, NEW t \in Tasks, TaskStep(t)
  PROVE  WorkInv'
<1> FreshInv
  BY DEF WorkInv
<1>1. /\ UNCHANGED <<rqdata, sqdata, state, sq_live, coverVars, hashVars>>
      /\ runq_running' = runq_running \union {t}
      /\ state # "SCENE_INIT" /\ Setscene' = Setscene
      /\ pc = "task" /\ pc' \in {"loop", "wait"}
      /\ t \notin runq_running /\ t \notin holdoff_tasks /\ ~holdoff_need_update
      /\ TypeOK /\ BuildOK /\ SqTyped
  BY IsBuild DEF TaskStep, TaskSkip, TaskNoExec, TaskRun, NextTasks, Quiet, TypeInv,
     TypeOK, SqOK, Setscene,
     workVars, WorkInv, LiveInv
<1>3. PICK stamped \in SUBSET Setscene :
              /\ stamped \subseteq SceneStamped /\ stamped \subseteq DOMAIN sq_deferred
              /\ sq_running' = sq_running \union stamped
              /\ scenequeue_covered' = scenequeue_covered \union stamped
              /\ scenequeue_notcovered' = scenequeue_notcovered
              /\ holdoff_need_update' = (holdoff_need_update \/ stamped # {})
  BY TaskEffect
<1>4. /\ Handled' = Handled \union stamped /\ stamped \intersect sq_live = {}
  BY <1>3 DEF WorkInv, LiveInv, Handled
<1>5. Going' => Going
  BY <1>1 DEF Going
<1>6. \A u : Startable(u)' => Startable(u)
  BY <1>1, <1>5 DEF Startable
<1>7. \A u : SqCovered(u)' = SqCovered(u)
  BY <1>1 DEF SqCovered
<1>8. /\ active' \subseteq active \union {t}
      /\ runq_complete' \in {runq_complete, runq_complete \union {t}}
      /\ (t \notin active \/ runq_complete' = runq_complete)
      /\ runq_complete' # runq_complete => active' = active
      /\ DOMAIN sq_deferred' \subseteq DOMAIN sq_deferred
  BY <1>1, TaskEffect DEF TaskStep, TaskSkip, TaskNoExec, TaskRun, workVars, WorkInv,
     LiveInv
<1>9. LiveInv'
  BY <1>1, <1>3, <1>4, <1>8 DEF WorkInv, LiveInv
<1>10. OpenUntouched'
  <2> SUFFICES ASSUME NEW s \in Setscene \ Handled', Startable(s)'
               PROVE  Untouched(s)'
    BY <1>1 DEF OpenUntouched
  <2>1. s \in Setscene \ Handled /\ Startable(s)
    BY <1>4, <1>6
  <2>2. Untouched(s) /\ HeldOff(s)
    BY <1>1, <2>1 DEF WorkInv, OpenUntouched, OpenHeldOff
  <2> QED  BY <1>1, <1>7, <1>8, <2>2 DEF Untouched, HeldOff
<1>11. OpenHeldOff'
  BY <1>1, <1>4, <1>6, <1>7, <1>8 DEF WorkInv, OpenHeldOff, HeldOff, coverVars
<1>12. FreshInv'
  <2>1. \A s \in stamp' \intersect Setscene' : rqdata'.hard[s] = {} \/ s \in runq_running'
    BY <1>1 DEF TaskStep, TaskSkip, TaskNoExec, TaskRun, diskVars, Stamped, FreshInv
  <2>2. sstamp' \subseteq sstamp
    BY DEF TaskStep, TaskSkip, TaskNoExec, TaskRun, diskVars
  <2>3. ASSUME Going, NEW p \in pending_migrations, p \notin runq_running
        PROVE  p \in scenequeue_notcovered' \ scenequeue_covered'
    <3>1. p \in scenequeue_notcovered \ scenequeue_covered
      BY <2>3 DEF FreshInv, WaitingLost
    <3>2. p \notin stamped
      <4>1. p \in SceneStamped => p \in stamp \intersect Setscene
        BY <1>1, <3>1, StampedHave DEF FreshInv
      <4> QED  BY <1>3, <2>3, <3>1, <4>1 DEF FreshInv
    <3> QED  BY <1>3, <3>1, <3>2
  <2>4. WaitingLost'
    BY <1>1, <1>5, <2>3 DEF hashVars, WaitingLost
  <2>5. \A d \in Setscene' \ Handled' :
          Startable(d)' => rqdata'.hard[d] \intersect scenequeue_notcovered' = {}
    BY <1>1, <1>3, <1>4, <1>6 DEF FreshInv
  <2>6. \A d \in sq_live' : rqdata'.hard[d] \subseteq scenequeue_covered'
    BY <1>1, <1>3 DEF FreshInv
  <2>7. sstamp' \union (rqdata'.noexec \intersect Setscene') \subseteq scenequeue_covered'
    BY <1>1, <1>3, <2>2 DEF FreshInv
  <2>8. \A d \in DOMAIN sq_deferred' \intersect scenequeue_notcovered' : rqdata'.hard[d] # {}
    BY <1>1, <1>3, <1>8 DEF FreshInv
  <2> QED  BY <2>1, <2>4, <2>5, <2>6, <2>7, <2>8 DEF FreshInv
<1> QED  BY <1>9, <1>10, <1>11, <1>12 DEF WorkInv

\* Nothing is at work initially.
LEMMA WorkInit ==
  ASSUME Init, HardUnstamped
  PROVE  WorkInv
<1>1. ~Going /\ \A t : ~Startable(t)
  BY DEF Init, Going, Startable
<1>2. LiveInv
  BY DEF Init, LiveInv, Handled
<1>3. OpenUntouched /\ OpenHeldOff
  BY <1>1 DEF OpenUntouched, OpenHeldOff
<1>4. FreshInv
  BY <1>1 DEF Init, FreshInv, WaitingLost, HardUnstamped, Setscene
<1> QED  BY <1>2, <1>3, <1>4 DEF WorkInv

\* At the start the setscene tasks with a stamp are covered.
LEMMA StartEffect ==
  ASSUME TypeInv, WorkInv, SceneStart
  PROVE  /\ scenequeue_covered' = SceneStamped /\ scenequeue_notcovered' = {}
         /\ SceneStamped \subseteq sq_running'
<1> DEFINE q == [Scene EXCEPT !.buildable = {s \in Setscene : SqRevdeps(s) = {}},
                              !.done = sqdata.unskippable \ Setscene]
           skipped == SkippedScene(q, SceneStamped)
<1>1. /\ SceneBecomes(skipped) /\ SqTyped /\ BuildOK /\ TypeOK /\ Setscene \subseteq Tasks
      /\ Setscene' = Setscene /\ Handled = {}
  BY IsBuild DEF SceneStart, TypeInv, TypeOK, SqOK, Setscene, WorkInv, LiveInv
<1>2. /\ q \in SceneSet /\ q.covered = scenequeue_covered /\ q.notcovered = scenequeue_notcovered
      /\ q.running = sq_running
  <2>1. Scene \in SceneSet /\ Scene.covered = scenequeue_covered
        /\ Scene.notcovered = scenequeue_notcovered /\ Scene.running = sq_running
    BY <1>1, SceneTyped DEF Scene
  <2>2. {s \in Setscene : SqRevdeps(s) = {}} \subseteq
            Setscene /\ sqdata.unskippable \ Setscene \subseteq Tasks
    BY <1>1 DEF SqTyped
  <2> DEFINE S == Scene
  <2> HIDE DEF S
  <2>3. /\ S \in SceneSet
        /\ q = [S EXCEPT !.buildable = {s \in Setscene : SqRevdeps(s) = {}},
                              !.done = sqdata.unskippable \ Setscene]
    BY <2>1 DEF S
  <2>4. q \in SceneSet /\ q.covered = S.covered /\ q.notcovered = S.notcovered /\ q.running = S.running
    BY <2>2, <2>3 DEF SceneSet
  <2> QED  BY <2>1, <2>4 DEF S
<1>3. SceneStamped \in SUBSET Setscene
  BY DEF SceneStamped
<1> HIDE DEF q
<1>4. /\ skipped.covered = q.covered \union SceneStamped /\ skipped.notcovered = q.notcovered
      /\ skipped.running = q.running \union SceneStamped
  BY <1>1, <1>2, <1>3, SkippedIs
<1> HIDE DEF skipped
<1>5. /\ scenequeue_covered' = SceneStamped /\ scenequeue_notcovered' = {}
      /\ SceneStamped \subseteq sq_running'
  BY <1>1, <1>2, <1>4 DEF SceneBecomes, Handled
<1> QED  BY <1>5

\* The preparation starts nothing.
LEMMA WorkStart ==
  ASSUME TypeInv, WorkInv, SceneInit \/ SceneStart
  PROVE  WorkInv'
<1>1. /\ TypeOK /\ BuildOK /\ Setscene \subseteq Tasks /\ state = "SCENE_INIT" /\ pc' = "loop"
      /\ UNCHANGED <<rqdata, active, sq_live, stamp, sstamp, runq_running, runq_complete,
          pending_migrations>>
      /\ Setscene' = Setscene
      /\ runq_running = {} /\ Handled = {} /\ sq_live = {} /\ pending_migrations = {}
  BY IsBuild DEF TypeInv, TypeOK, SceneInit, SceneStart, Setscene, WorkInv, LiveInv,
     workVars, diskVars,
     runqVars, hashVars
<1>3. CASE SceneInit
  <2>1. UNCHANGED <<sqVars, state, pc>>
    BY <1>3 DEF SceneInit
  <2>2. Handled' = Handled
    BY <2>1 DEF Handled, sqVars
  <2>3. ~Going' /\ \A t : ~Startable(t)'
    BY <1>1, <2>1 DEF Going, Startable
  <2>4. LiveInv'
    BY <1>1, <2>1, <2>2 DEF WorkInv, LiveInv, sqVars
  <2>5. OpenUntouched' /\ OpenHeldOff'
    BY <2>3 DEF OpenUntouched, OpenHeldOff
  <2>6. FreshInv'
    BY <1>1, <1>3, <2>1, <2>2, <2>3 DEF WorkInv, FreshInv, WaitingLost, sqVars, SceneInit, Handled
  <2> QED  BY <2>4, <2>5, <2>6 DEF WorkInv
<1>4. CASE SceneStart
  <2>1. state' = "RUNNING" /\ holdoff_need_update' = TRUE
    BY <1>4 DEF SceneStart
  <2>5. /\ scenequeue_covered' = SceneStamped /\ scenequeue_notcovered' = {}
        /\ SceneStamped \subseteq sq_running'
    BY <1>4, StartEffect
  <2>6. LiveInv'
    BY <1>1, <1>4, <2>1, <2>5 DEF WorkInv, LiveInv, Handled, SceneStart
  <2>7. OpenUntouched' /\ OpenHeldOff'
    BY <1>1, <2>1 DEF OpenUntouched, OpenHeldOff, Untouched
  <2>8. FreshInv'
    <3>1. sstamp \subseteq SceneStamped /\ rqdata.noexec \intersect Setscene \subseteq SceneStamped
      BY <1>1 DEF SceneStamped, TypeOK
    <3> QED  BY <1>1, <2>5, <3>1 DEF WorkInv, FreshInv, WaitingLost
  <2> QED  BY <2>6, <2>7, <2>8 DEF WorkInv
<1> QED  BY <1>3, <1>4

\* Nothing that is open, or that a task at work was covered by, is moved.
LEMMA WorkMigrate ==
  ASSUME TypeInv, WorkInv, Migrate
  PROVE  WorkInv'
<1> FreshInv
  BY DEF WorkInv
<1>1. /\ TypeOK /\ BuildOK /\ BuildOK' /\ SqTyped /\ state # "SCENE_INIT" /\ Going
      /\ UNCHANGED <<rqdata, sqdata, active, sq_live, runq_buildable, runq_running, runq_complete,
                 runq_tasksrun, holdoff_tasks>>
      /\ Setscene' = Setscene /\ pc' = "setscene"
      /\ \A t : SqCovered(t)' = SqCovered(t)
  BY IsBuild DEF Migrate, Quiet, workVars, TypeInv, TypeOK, SqOK, Going, Setscene,
     SqCovered, BuildOK
<1>3. stamp' \subseteq stamp /\ sstamp' \subseteq sstamp
  BY <1>1, MigrateIs
<1>4. PICK pending \in SUBSET Setscene, touched \in BOOLEAN, stamped \in SUBSET Setscene,
               failed \in SUBSET Setscene :
              /\ pending_migrations \subseteq pending
              /\ \A p \in pending : p \in pending_migrations \/ p \notin scenequeue_covered
              /\ MovedWrong(pending) \/ MovedAll(pending, touched, stamped, failed)
  BY <1>1, MigrateIs
<1> DEFINE moved == Moved(pending)
           waits == Waits(pending)
<1>5. /\ moved \subseteq pending /\ waits \subseteq pending /\ moved \intersect waits = {}
      /\ \A t \in moved \union waits : t \notin runq_running \union sq_live
      /\ \A t \in moved : SqCovered(t) \intersect (runq_running \ runq_complete) = {}
      /\ \A t \in waits : SqCovered(t) \intersect (runq_running \ runq_complete) # {}
      /\ Wrong(pending) \subseteq moved
  BY DEF Moved, Waits, Late, TooLate, Blocked, Unfinished, Wrong
<1>6. ASSUME NEW p \in moved \union waits
      PROVE  p \notin scenequeue_covered
  BY <1>1, <1>4, <1>5, <1>6 DEF FreshInv, WaitingLost
<1>7. ASSUME NEW p \in waits PROVE p \in Handled
  <2>1. p \in Setscene /\ Startable(p) /\ ~Untouched(p)
    BY <1>1, <1>4, <1>5 DEF Startable, Untouched
  <2> QED  BY <2>1 DEF WorkInv, OpenUntouched
<1>8. ASSUME NEW t \in Setscene, t \notin Handled \/ t \in moved
      PROVE  Untouched(t)
  <2>1. CASE t \in moved
    BY <1>5, <2>1 DEF Untouched
  <2>2. CASE t \notin Handled
    BY <1>1, <2>2 DEF WorkInv, OpenUntouched, Startable
  <2> QED  BY <1>8, <2>1, <2>2
<1> HIDE DEF moved, waits
<1>9. CASE MovedWrong(pending)
  <2>1. PICK t \in Wrong(pending), before \in SUBSET moved :
          /\ state' = "CLEAN_UP"
          /\ scenequeue_covered' = scenequeue_covered \ before
          /\ scenequeue_notcovered' = scenequeue_notcovered \ before
          /\ sq_running' = sq_running \ before /\ sq_buildable' = sq_buildable \ before
          /\ pending_migrations' = waits \union (moved \ (before \union {t}))
          /\ UNCHANGED <<sq_deferred, holdoff_need_update>>
    BY <1>9 DEF MovedWrong, moved, waits
  <2>2. Handled' = Handled \ before /\ ~Going'
    BY <1>1, <2>1 DEF Handled, Going
  <2>3. before \intersect sq_live = {}
    BY <1>5
  <2>4. ASSUME NEW s \in Setscene \ Handled', Startable(s)'
        PROVE  s \notin Handled /\ Startable(s)
    <3>1. s \in sq_live \/ s \in sq_buildable \ before
      BY <1>1, <2>1, <2>2, <2>4 DEF Startable
    <3> QED  BY <1>1, <2>2, <2>3, <2>4, <3>1 DEF Startable
  <2>5. LiveInv'
    BY <1>1, <2>1, <2>2, <2>3 DEF WorkInv, LiveInv
  <2>6. OpenUntouched'
    BY <1>1, <2>4 DEF WorkInv, OpenUntouched, Untouched
  <2>7. OpenHeldOff'
    BY <1>1, <2>1, <2>4 DEF WorkInv, OpenHeldOff, HeldOff
  <2>8. FreshInv'
    <3>1. scenequeue_covered' = scenequeue_covered
      BY <1>6, <2>1
    <3>2. \A d \in Setscene' \ Handled' :
            Startable(d)' => rqdata'.hard[d] \intersect scenequeue_notcovered' = {}
      BY <1>1, <2>1, <2>4 DEF FreshInv
    <3>3. \A d \in DOMAIN sq_deferred' \intersect scenequeue_notcovered' : rqdata'.hard[d] # {}
      BY <1>1, <2>1 DEF FreshInv
    <3> QED  BY <1>1, <1>3, <2>2, <3>1, <3>2, <3>3 DEF FreshInv, WaitingLost
  <2> QED  BY <2>5, <2>6, <2>7, <2>8 DEF WorkInv
<1>10. CASE MovedAll(pending, touched, stamped, failed)
  <2> DEFINE hardfail == {t \in moved :
                 rqdata.hard[t] \intersect (scenequeue_notcovered \ moved) # {}}
  <2>1. /\ moved # {} => touched
        /\ stamped \subseteq moved /\ stamped \subseteq SceneStamped'
        /\ hardfail \subseteq failed
        /\ \A x \in failed : x \in hardfail \/ x \notin
            ((scenequeue_covered \ moved) \union stamped) \union (scenequeue_notcovered \ moved)
        /\ \A x \in failed : x \in hardfail \/ \E t \in failed : x \in HardDependents(t)
        /\ scenequeue_covered' = (scenequeue_covered \ moved) \union stamped
        /\ scenequeue_notcovered' = (scenequeue_notcovered \ moved) \union failed
        /\ sq_running' = (sq_running \ moved) \union stamped \union failed
        /\ pending_migrations' = waits
        /\ DOMAIN sq_deferred' \subseteq DOMAIN sq_deferred \union moved
        /\ holdoff_need_update' = (holdoff_need_update \/ touched)
        /\ state' = state
    BY <1>10 DEF MovedAll, moved, waits
  <2>2. \A x \in failed : HardDependents(x) \subseteq
            scenequeue_covered' \union scenequeue_notcovered' \union SceneStamped'
    BY <1>10 DEF MovedAll, moved
  <2>3. Handled' = (Handled \ moved) \union stamped \union failed
    BY <2>1 DEF Handled
  <2>4. failed \intersect sq_live = {}
    <3> SUFFICES ASSUME NEW x \in failed, x \in sq_live PROVE FALSE
      OBVIOUS
    <3>1. x \notin moved
      BY <1>5
    <3>2. PICK y \in failed : x \in HardDependents(y)
      BY <2>1, <3>1
    <3>3. y \in scenequeue_covered
      BY <3>2 DEF HardDependents, FreshInv
    <3>4. y \notin moved
      BY <1>6, <3>3
    <3> QED  BY <2>1, <3>3, <3>4
  <2>5. moved \intersect sq_live = {}
    BY <1>5
  <2> HIDE DEF hardfail
  <2>6. LiveInv'
    BY <1>1, <2>1, <2>3, <2>4, <2>5 DEF WorkInv, LiveInv
  <2>7. OpenUntouched'
    <3> SUFFICES ASSUME NEW s \in Setscene \ Handled' PROVE Untouched(s)'
      BY <1>1 DEF OpenUntouched
    <3>1. Untouched(s)
      BY <1>8, <2>3
    <3> QED  BY <1>1, <3>1 DEF Untouched
  <2>8. OpenHeldOff'
    <3> SUFFICES ASSUME ~holdoff_need_update', NEW s \in Setscene \ Handled' PROVE HeldOff(s)'
      BY <1>1 DEF OpenHeldOff
    <3>1. moved = {} /\ ~holdoff_need_update
      BY <2>1
    <3>2. s \in Setscene \ Handled /\ Startable(s)
      BY <1>1, <2>3, <3>1 DEF Startable
    <3> QED  BY <1>1, <3>1, <3>2 DEF WorkInv, OpenHeldOff, HeldOff
  <2>9. FreshInv'
    <3>1. scenequeue_covered \subseteq scenequeue_covered'
      BY <1>6, <2>1
    <3>2. sstamp' \union (rqdata'.noexec \intersect Setscene') \subseteq scenequeue_covered'
      BY <1>1, <1>3, <3>1 DEF FreshInv
    <3>0. stamped \intersect waits = {}
      BY <1>5, <2>1
    <3>3. ASSUME NEW p \in waits
          PROVE  p \in scenequeue_notcovered' \ scenequeue_covered'
      BY <1>5, <1>6, <1>7, <2>1, <3>0 DEF Handled, moved, waits
    <3>4. ASSUME NEW d \in Setscene \ Handled', NEW t \in rqdata.hard[d],
                               t \in scenequeue_notcovered'
          PROVE  FALSE
      <4>1. CASE t \in failed
        <5>1. d \in HardDependents(t)
          BY <3>4 DEF HardDependents
        <5>2. d \in SceneStamped'
          BY <2>2, <3>4, <4>1, <5>1 DEF Handled
        <5>3. d \in stamp'
          BY <1>1, <3>2, <3>4, <5>2, StampedHaveNext DEF Handled
        <5>4. d \in runq_running
          BY <1>3, <3>4, <5>3 DEF FreshInv
        <5>5. Untouched(d)
          BY <1>8, <2>3, <3>4
        <5> QED  BY <5>4, <5>5 DEF Untouched
      <4>2. CASE t \in scenequeue_notcovered \ moved
        <5>1. CASE d \in moved
          BY <2>1, <2>3, <3>4, <4>2, <5>1 DEF hardfail
        <5>2. CASE d \notin moved
          <6>1. d \notin Handled /\ Startable(d)
            BY <1>1, <2>3, <3>4, <5>2 DEF Startable
          <6> QED  BY <3>4, <4>2, <6>1 DEF FreshInv
        <5> QED  BY <5>1, <5>2
      <4> QED  BY <2>1, <3>4, <4>1, <4>2
    <3>5. \A s \in stamp' \intersect Setscene' : rqdata'.hard[s] = {} \/ s \in runq_running'
      BY <1>1, <1>3 DEF FreshInv
    <3>6. \A d \in sq_live' : rqdata'.hard[d] \subseteq scenequeue_covered'
      BY <1>1, <3>1 DEF FreshInv
    <3>7. \A d \in DOMAIN sq_deferred' \intersect scenequeue_notcovered' : rqdata'.hard[d] # {}
      <4>1. \A x \in failed : rqdata.hard[x] # {}
        BY <2>1 DEF hardfail, HardDependents
      <4> QED  BY <1>1, <2>1, <4>1 DEF FreshInv
    <3> QED  BY <1>1, <2>1, <3>2, <3>3, <3>4, <3>5, <3>6, <3>7 DEF FreshInv, WaitingLost
  <2> QED  BY <2>6, <2>7, <2>8, <2>9 DEF WorkInv
<1> QED  BY <1>4, <1>9, <1>10

\* Every step keeps it.
LEMMA WorkNext == ASSUME TypeInv, WorkInv, [Next]_vars PROVE WorkInv'
<1>1. CASE SceneInit \/ SceneStart
  BY <1>1, WorkStart
<1>2. CASE Finish \/ BuildDone \/ Shutdown \/ ForceShutdown \/ ReadEnd \/ TaskWait \/ QueueEmpty
         \/ ForceDeferred
  BY <1>2, WorkQuiet
<1>3. CASE UNCHANGED vars
  BY <1>3 DEF vars, workVars, diskVars, runqVars, sqVars, hardVars, validVars, coverVars,
     hashVars,
     WorkInv, LiveInv, OpenUntouched, OpenHeldOff, FreshInv, WaitingLost, Startable, Going, Untouched,
     HeldOff, Handled, Setscene, SqCovered
<1>4. CASE Migrate
  BY <1>4, WorkMigrate
<1>5. CASE HoldOffStep
  BY <1>5, WorkHoldOff
<1>6. ASSUME NEW t \in Tasks, WorkerReport(t) \/ SceneStep(t) \/ TaskStep(t)
      PROVE  WorkInv'
  <2>1. \/ SceneComplete(t) \/ SceneFail(t) \/ SceneNotNeeded(t) \/ SceneReject(t)
        \/ TaskComplete(t) \/ TaskFail(t) \/ (\E h \in Hashes : HashReport(t, h))
        \/ SceneRun(t) \/ SceneHardDefer(t) \/ TaskStep(t)
    BY <1>6 DEF WorkerReport, SceneStep
  <2> QED  BY <2>1, WorkScene, WorkTaskEnds, WorkSceneRun, WorkHardDefer, WorkTaskStarts
<1> QED  BY <1>1, <1>2, <1>3, <1>4, <1>5, <1>6 DEF Next, Ended

\* With the invariant, a setscene task at work is open: the task and what it
\* covers are untouched.
LEMMA WorkApart == ASSUME TypeInv, WorkInv PROVE NoDoubleWork
<1> SUFFICES ASSUME NEW n \in sq_live PROVE n \notin active /\ SqCovered(n) \intersect active = {}
  BY DEF NoDoubleWork, NotBothWays, CoveredIdle
<1>1. n \in Setscene \ Handled /\ Startable(n)
  BY DEF TypeInv, TypeOK, WorkInv, LiveInv, Startable
<1> QED  BY <1>1 DEF WorkInv, OpenUntouched, Untouched, LiveInv

\* A task and its setscene variant, or a setscene task and what it covers, are
\* never at work together.  The hypothesis: no setscene task that needs another is
\* stamped by an earlier build.
THEOREM WorkIsNotDoubled ==
  ASSUME \A b \in Builds : \A s \in b.setscene \intersect b.stamp : b.hard[s] = {}
  PROVE  Spec => []NoDoubleWork
<1>1. Init => TypeInv /\ WorkInv
  <2> SUFFICES ASSUME Init PROVE WorkInv
    BY TypeInit
  <2>1. HardUnstamped
    BY DEF Init, HardUnstamped, Setscene
  <2> QED  BY <2>1, WorkInit
<1>2. (TypeInv /\ WorkInv) /\ [Next]_vars => (TypeInv /\ WorkInv)'
  BY TypeNext, WorkNext
<1>3. TypeInv /\ WorkInv => NoDoubleWork
  BY WorkApart
<1> QED  BY <1>1, <1>2, <1>3, PTL DEF Spec

\* The collapsed graph while it is built.
Graphs ==
  [points : SUBSET Tasks, endpoints : SUBSET (Tasks \X Setscene),
   newpoints : SUBSET (Tasks \ Setscene), newendpoints : SUBSET (Tasks \X Setscene),
   collated : SUBSET (Setscene \X (Tasks \ Setscene)), squash : SUBSET (Tasks \X Setscene),
   revdeps : SUBSET (Tasks \X (Tasks \ Setscene))]

\* d is needed by s, or by a task that s covers.
From(g, s, d) == d \in Depends(s) \/ \E y \in Tasks : <<s, y>> \in g.collated /\ d \in Depends(y)

\* Nothing is collected that does not come from a setscene task.
GraphSound(g) ==
  /\ \A s \in Setscene, x \in Tasks : <<s, x>> \in g.collated => From(g, s, x)
  /\ \A s \in Setscene, d \in Tasks :
       <<d, s>> \in g.squash \union g.endpoints \union g.newendpoints => From(g, s, d)

\* What s and the tasks it covers need is collected, or waits at its point.
GraphComplete(g) ==
  \A s \in Setscene :
    /\ \A d \in Depends(s) :
         \/ IF d \in Setscene THEN <<d, s>> \in g.squash ELSE <<s, d>> \in g.collated
         \/ d \in g.points /\ <<d, s>> \in g.endpoints
    /\ \A x \in Tasks : <<s, x>> \in g.collated =>
         \A d \in Depends(x) :
           <<d, s>> \in g.squash \/ (d \notin Setscene /\ <<s, d>> \in g.collated)

\* A point is to be processed, waits for one above it, or has been processed and has
\* nothing new.
GraphGoesOn(g) ==
  /\ \A d, r \in Tasks : <<d, r>> \in g.revdeps => d \in Depends(r)
  /\ \A r \in Tasks \ Setscene :
       \/ r \in g.points \union g.newpoints
       \/ \E u \in Tasks : <<r, u>> \in g.revdeps
       \/ \A d \in Tasks : <<d, r>> \notin g.revdeps /\ <<r, d>> \notin g.squash

\* The loop invariant of build_scenequeue_data().
GraphInv(g) == g \in Graphs /\ GraphSound(g) /\ GraphComplete(g) /\ GraphGoesOn(g)

\* A point keeps the invariant.
LEMMA PointKeeps ==
  ASSUME BuildOK, NEW g, GraphInv(g), NEW p \in g.points
  PROVE  LET k == ProcessPoint([g EXCEPT !.points = @ \ {p}], p)
         IN /\ GraphInv(k) /\ k.points = g.points \ {p}
            /\ \A d \in k.newpoints : d \in g.newpoints \/ d \in Depends(p)
<1> DEFINE g1 == [g EXCEPT !.points = @ \ {p}]
           k == ProcessPoint(g1, p)
           tasks == {s \in Setscene : <<p, s>> \in g.endpoints \union g.squash}
           left == g.revdeps \ {<<d, p>> : d \in Depends(p)}
           fresh == {d \in Depends(p) \ Setscene : ~\E r \in Tasks : <<d, r>> \in left}
<1>1. /\ p \in Tasks /\ Setscene \subseteq Tasks
      /\ \A t \in Tasks : Depends(t) \subseteq Tasks /\ t \notin Depends(t)
  BY TasksAssumption DEF GraphInv, Graphs, BuildOK, Depends, Setscene
<1>2. /\ g.points \subseteq Tasks /\ g.endpoints \subseteq Tasks \X Setscene
      /\ g.newpoints \subseteq Tasks \ Setscene /\ g.newendpoints \subseteq Tasks \X Setscene
      /\ g.collated \subseteq Setscene \X (Tasks \ Setscene)
      /\ g.squash \subseteq Tasks \X Setscene
      /\ g.revdeps \subseteq Tasks \X (Tasks \ Setscene)
  BY DEF GraphInv, Graphs
<1>3. CASE p \in Setscene
  <2>1. k = [g1 EXCEPT !.squash = @ \union ({p} \X tasks)]
    BY <1>3 DEF ProcessPoint, GraphInv, Graphs
  <2>2. /\ k.points = g.points \ {p} /\ k.endpoints = g.endpoints /\ k.newpoints = g.newpoints
        /\ k.newendpoints = g.newendpoints /\ k.collated = g.collated
        /\ k.squash = g.squash \union ({p} \X tasks) /\ k.revdeps = g.revdeps
    BY <2>1 DEF GraphInv, Graphs
  <2>3. k \in Graphs
    <3> DEFINE pts == g.points \ {p}
               sq == g.squash \union ({p} \X tasks)
    <3>1. k = [g EXCEPT !.points = pts, !.squash = sq]
      BY <2>1 DEF GraphInv, Graphs
    <3>2. pts \in SUBSET Tasks /\ sq \in SUBSET (Tasks \X Setscene)
      BY <1>1, <1>2
    <3>3. g \in Graphs
      BY DEF GraphInv
    <3> HIDE DEF k, pts, sq
    <3> QED  BY <3>1, <3>2, <3>3 DEF Graphs
  <2> HIDE DEF k
  <2>4. GraphSound(k)
    BY <2>2 DEF GraphInv, GraphSound, From
  <2>5. GraphComplete(k)
    BY <1>1, <1>3, <2>2 DEF GraphInv, GraphComplete
  <2>6. GraphGoesOn(k)
    BY <1>1, <1>3, <2>2 DEF GraphInv, GraphGoesOn
  <2> QED  BY <2>2, <2>3, <2>4, <2>5, <2>6 DEF GraphInv, k
<1>4. CASE p \notin Setscene
  <2>1. k = [g1 EXCEPT
              !.collated = @ \union (tasks \X {p}),
              !.squash = (@ \ ({p} \X Setscene)) \union (Depends(p) \X tasks),
              !.revdeps = left,
              !.newpoints = @ \union fresh,
              !.newendpoints = (@ \ (fresh \X Setscene)) \union
                 (fresh \X {s \in Setscene : <<p, s>> \in g.endpoints})]
    BY <1>4 DEF ProcessPoint, GraphInv, Graphs
  <2>2. /\ k.points = g.points \ {p} /\ k.endpoints = g.endpoints
        /\ k.newpoints = g.newpoints \union fresh
        /\ k.newendpoints = (g.newendpoints \ (fresh \X Setscene)) \union
                 (fresh \X {s \in Setscene : <<p, s>> \in g.endpoints})
        /\ k.collated = g.collated \union (tasks \X {p})
        /\ k.squash = (g.squash \ ({p} \X Setscene)) \union (Depends(p) \X tasks)
        /\ k.revdeps = left
    BY <2>1 DEF GraphInv, Graphs
  <2>3. k \in Graphs
    <3> DEFINE pts == g.points \ {p}
               co == g.collated \union (tasks \X {p})
               sq == (g.squash \ ({p} \X Setscene)) \union (Depends(p) \X tasks)
               np == g.newpoints \union fresh
               ne == (g.newendpoints \ (fresh \X Setscene)) \union
                 (fresh \X {s \in Setscene : <<p, s>> \in g.endpoints})
    <3>1. k = [g EXCEPT !.points = pts, !.collated = co, !.squash = sq, !.revdeps = left,
                        !.newpoints = np, !.newendpoints = ne]
      BY <2>1 DEF GraphInv, Graphs
    <3>2. /\ pts \in SUBSET Tasks /\ co \in SUBSET (Setscene \X (Tasks \ Setscene))
          /\ left \in SUBSET (Tasks \X (Tasks \ Setscene))
      BY <1>1, <1>2, <1>4
    <3>3. sq \in SUBSET (Tasks \X Setscene)
      BY <1>1, <1>2
    <3>4. np \in SUBSET (Tasks \ Setscene) /\ ne \in SUBSET (Tasks \X Setscene)
      BY <1>1, <1>2
    <3>5. g \in Graphs
      BY DEF GraphInv
    <3> HIDE DEF k, pts, sq, co, np, ne, left
    <3> QED  BY <3>1, <3>2, <3>3, <3>4, <3>5 DEF Graphs
  <2> HIDE DEF k
  <2>4. GraphSound(k)
    BY <1>1, <2>2 DEF GraphInv, GraphSound, From
  <2>5. GraphComplete(k)
    BY <1>1, <1>4, <2>2 DEF GraphInv, GraphComplete
  <2>6. GraphGoesOn(k)
    <3>1. \A d, r \in Tasks : <<d, r>> \in k.revdeps => d \in Depends(r)
      BY <2>2 DEF GraphInv, GraphGoesOn
    <3>2. ASSUME NEW r \in Tasks \ Setscene
          PROVE  \/ r \in k.points \union k.newpoints
                 \/ \E u \in Tasks : <<r, u>> \in k.revdeps
                 \/ \A d \in Tasks : <<d, r>> \notin k.revdeps /\ <<r, d>> \notin k.squash
      <4>1. CASE r = p
        <5>1. \A d \in Tasks : <<d, r>> \notin k.revdeps
          BY <2>2, <4>1 DEF GraphInv, GraphGoesOn
        <5>2. \A d \in Tasks : <<r, d>> \notin k.squash
          BY <1>1, <1>2, <2>2, <4>1
        <5> QED  BY <5>1, <5>2
      <4>2. CASE r # p /\ r \in Depends(p)
        <5>1. r \in fresh \/ \E u \in Tasks : <<r, u>> \in left
          BY <4>2
        <5> HIDE DEF left, fresh
        <5> QED  BY <2>2, <5>1
      <4>3. CASE r # p /\ r \notin Depends(p)
        <5>1. \A u : <<r, u>> \in left <=> <<r, u>> \in g.revdeps
          BY <4>3
        <5>2. \A d \in Tasks : <<d, r>> \in left => <<d, r>> \in g.revdeps
          OBVIOUS
        <5>3. \A d \in Tasks : <<r, d>> \in k.squash => <<r, d>> \in g.squash
          BY <2>2, <4>3
        <5>4. \/ r \in g.points \union g.newpoints
              \/ \E u \in Tasks : <<r, u>> \in g.revdeps
              \/ \A d \in Tasks : <<d, r>> \notin g.revdeps /\ <<r, d>> \notin g.squash
          BY DEF GraphInv, GraphGoesOn
        <5> HIDE DEF left, fresh
        <5> QED  BY <2>2, <4>3, <5>1, <5>2, <5>3, <5>4
      <4> QED  BY <4>1, <4>2, <4>3
    <3> QED  BY <3>1, <3>2 DEF GraphGoesOn
  <2> QED  BY <2>2, <2>3, <2>4, <2>5, <2>6 DEF GraphInv, k
<1> QED  BY <1>3, <1>4

\* A bound of the steps that are left: k rounds are over, n steps in all, and
\* what is processed in a round has been seen from k tasks above it.
Higher(p) == Cardinality({t \in Tasks : t > p})
Bounded(g, n, k) ==
  /\ n + Cardinality(g.points) <= k * (Cardinality(Tasks) + 1) + Cardinality(Tasks)
  /\ \A p \in g.points : Higher(p) >= k
  /\ \A p \in g.newpoints : Higher(p) >= k + 1

\* After n steps the loop invariant holds, and the bound for some round.
GraphAt(g, n) == GraphInv(g) /\ \E k \in Nat : Bounded(g, n, k)

\* Cardinalities of sets of tasks.
LEMMA TaskSizes ==
  /\ Cardinality(Tasks) \in Nat
  /\ \A S \in SUBSET Tasks :
       IsFiniteSet(S) /\ Cardinality(S) \in Nat /\ Cardinality(S) <= Cardinality(Tasks)
  /\ \A p \in Tasks : Higher(p) \in Nat /\ Higher(p) < Cardinality(Tasks)
<1>1. /\ Cardinality(Tasks) \in Nat
      /\ \A S \in SUBSET Tasks :
           IsFiniteSet(S) /\ Cardinality(S) \in Nat /\ Cardinality(S) <= Cardinality(Tasks)
           /\ (Cardinality(S) = Cardinality(Tasks) => S = Tasks)
  BY TasksAssumption, FS_Subset, FS_CardinalityType
<1>2. ASSUME NEW p \in Tasks PROVE Higher(p) \in Nat /\ Higher(p) < Cardinality(Tasks)
  <2> DEFINE S == {t \in Tasks : t > p}
  <2>1. S \in SUBSET Tasks /\ p \notin S
    BY TasksAssumption
  <2> HIDE DEF S
  <2>2. Cardinality(S) # Cardinality(Tasks)
    BY <1>1, <2>1
  <2> QED  BY <1>1, <2>1, <2>2 DEF Higher, S
<1> QED  BY <1>1, <1>2

\* A dependency has more tasks above it.
LEMMA HigherGrows ==
  ASSUME NEW p \in Tasks, NEW d \in Tasks, d < p
  PROVE  Higher(d) >= Higher(p) + 1
<1> DEFINE S == {t \in Tasks : t > p}
           D == {t \in Tasks : t > d}
<1>1. S \union {p} \subseteq D /\ p \notin S /\ D \in SUBSET Tasks /\ S \in SUBSET Tasks
      /\ S \union {p} \in SUBSET Tasks
  <2>1. p \in Nat /\ d \in Nat /\ \A t \in Tasks : t \in Nat
    BY TasksAssumption
  <2>2. \A t \in Tasks : t > p => t > d
    BY <2>1
  <2>3. ~(p > p) /\ p > d
    BY <2>1
  <2> QED  BY <2>2, <2>3
<1> HIDE DEF S, D
<1>2. Cardinality(S \union {p}) = Cardinality(S) + 1
  BY <1>1, TaskSizes, FS_AddElement
<1>3. Cardinality(S \union {p}) <= Cardinality(D)
  BY <1>1, TaskSizes, FS_Subset
<1>4. Cardinality(S) \in Nat /\ Cardinality(D) \in Nat
  BY <1>1, TaskSizes
<1> QED  BY <1>2, <1>3, <1>4 DEF Higher, S, D

\* A step of the loop keeps the invariant and uses up one step of the bound.
LEMMA EndpointsStep ==
  ASSUME BuildOK, NEW g, NEW n \in Nat, GraphAt(g, n)
  PROVE  GraphAt(ProcessEndpoints(g), n + 1)
<1>1. PICK k \in Nat : Bounded(g, n, k)
  BY DEF GraphAt
<1>2. /\ GraphInv(g) /\ g.points \in SUBSET Tasks /\ g.newpoints \in SUBSET Tasks
      /\ Setscene \subseteq Tasks
  BY DEF GraphAt, GraphInv, Graphs, BuildOK, Setscene
<1> DEFINE N == Cardinality(Tasks)
<1>3. N \in Nat /\ k * (N + 1) \in Nat /\ (k + 1) * (N + 1) = k * (N + 1) + N + 1
  BY TaskSizes
<1>4. CASE g.points = {}
  <2> DEFINE h == [g EXCEPT !.points = g.newpoints, !.endpoints = g.newendpoints,
                            !.newpoints = {}, !.newendpoints = {}]
  <2>1. ProcessEndpoints(g) = h
    BY <1>4 DEF ProcessEndpoints
  <2>2. /\ h.points = g.newpoints /\ h.endpoints = g.newendpoints
        /\ h.newpoints = {} /\ h.newendpoints = {} /\ h.collated = g.collated
        /\ h.squash = g.squash /\ h.revdeps = g.revdeps
    BY <1>2 DEF GraphInv, Graphs
  <2>3. h \in Graphs
    BY <1>2 DEF GraphInv, Graphs
  <2> HIDE DEF h
  <2>4. GraphInv(h)
    <3>1. GraphSound(h)
      BY <1>2, <2>2 DEF GraphInv, GraphSound, From
    <3>2. GraphComplete(h)
      BY <1>2, <1>4, <2>2 DEF GraphInv, GraphComplete
    <3>3. GraphGoesOn(h)
      BY <1>2, <1>4, <2>2 DEF GraphInv, GraphGoesOn
    <3> QED  BY <2>3, <3>1, <3>2, <3>3 DEF GraphInv
  <2>5. Bounded(h, n + 1, k + 1)
    <3>1. Cardinality(g.points) = 0
      BY <1>4, FS_EmptySet
    <3>2. n <= k * (N + 1) + N
      BY <1>1, <1>3, <3>1 DEF Bounded
    <3>3. Cardinality(g.newpoints) \in Nat /\ Cardinality(g.newpoints) <= N
      BY <1>2, TaskSizes
    <3> HIDE DEF N
    <3>4. (n + 1) + Cardinality(g.newpoints) <= (k + 1) * (N + 1) + N
      BY <1>3, <3>2, <3>3
    <3> QED  BY <1>1, <2>2, <3>4 DEF Bounded, N
  <2>6. k + 1 \in Nat
    OBVIOUS
  <2> QED  BY <2>1, <2>4, <2>5, <2>6 DEF GraphAt
<1>5. CASE g.points # {}
  <2> DEFINE p == CHOOSE p \in g.points : \A q \in g.points : p <= q
             h == ProcessPoint([g EXCEPT !.points = @ \ {p}], p)
  <2>1. p \in g.points
    <3>1. g.points \in SUBSET Nat
      BY <1>2, TasksAssumption
    <3>2. \E m \in g.points : \A q \in g.points : m <= q
      BY <1>5, <3>1, Least
    <3> QED  BY <3>2
  <2>2. ProcessEndpoints(g) = h
    BY <1>5 DEF ProcessEndpoints
  <2> HIDE DEF p
  <2>3. /\ GraphInv(h) /\ h.points = g.points \ {p}
        /\ \A d \in h.newpoints : d \in g.newpoints \/ d \in Depends(p)
    BY <1>2, <2>1, PointKeeps
  <2>4. Bounded(h, n + 1, k)
    <3>1. /\ Cardinality(g.points \ {p}) = Cardinality(g.points) - 1
          /\ Cardinality(g.points) \in Nat
      BY <1>2, <2>1, TaskSizes, FS_RemoveElement
    <3>4. n + Cardinality(g.points) <= k * (N + 1) + N
      BY <1>1 DEF Bounded
    <3>2. (n + 1) + Cardinality(h.points) <= k * (N + 1) + N
      <4> DEFINE c == Cardinality(g.points)
                 top == k * (N + 1)
      <4>1. Cardinality(h.points) = c - 1 /\ c \in Nat /\ n + c <= top + N
        BY <2>3, <3>1, <3>4
      <4>2. top \in Nat /\ N \in Nat
        BY <1>3
      <4> HIDE DEF N, c, top, h
      <4>3. (n + 1) + (c - 1) <= top + N
        BY <4>1, <4>2
      <4> QED  BY <4>1, <4>3 DEF top
    <3>3. ASSUME NEW d \in Depends(p) PROVE Higher(d) >= k + 1
      <4>1. d \in Tasks /\ d < p /\ p \in Tasks
        BY <1>2, <2>1 DEF BuildOK, Depends
      <4>2. Higher(d) >= Higher(p) + 1 /\ Higher(p) >= k
        BY <1>1, <2>1, <4>1, HigherGrows DEF Bounded
      <4>3. Higher(d) \in Nat /\ Higher(p) \in Nat
        BY <4>1, TaskSizes
      <4> QED  BY <4>2, <4>3
    <3> QED  BY <1>1, <2>3, <3>2, <3>3 DEF Bounded
  <2> HIDE DEF h
  <2> QED  BY <2>2, <2>3, <2>4 DEF GraphAt
<1> QED  BY <1>4, <1>5

\* A set of tasks has a greatest one: the one with the fewest tasks above it.
LEMMA Greatest ==
  ASSUME NEW S \in SUBSET Tasks, S # {}
  PROVE  \E m \in S : \A k \in S : k <= m
<1> DEFINE H == {Higher(x) : x \in S}
<1>1. H \in SUBSET Nat /\ H # {}
  BY TaskSizes
<1>2. \E y \in H : \A z \in H : y <= z
  <2> HIDE DEF H
  <2> QED  BY <1>1, Least
<1>3. PICK m \in S : \A k \in S : Higher(m) <= Higher(k)
  BY <1>2
<1>4. ASSUME NEW k \in S PROVE k <= m
  <2>1. k \in Nat /\ m \in Nat /\ k \in Tasks /\ m \in Tasks
    BY TasksAssumption
  <2>2. CASE m < k
    <3>1. Higher(m) >= Higher(k) + 1
      BY <2>1, <2>2, HigherGrows
    <3>2. Higher(m) \in Nat /\ Higher(k) \in Nat /\ Higher(m) <= Higher(k)
      BY <1>3, <2>1, TaskSizes
    <3> QED  BY <3>1, <3>2
  <2> QED  BY <2>1, <2>2
<1> QED  BY <1>4

\* The graph that process_endpoints() starts from satisfies the invariant.
LEMMA StartIs ==
  ASSUME BuildOK, NEW g,
         g = [points |-> {t \in Tasks : \/ Revdeps(t) \intersect Setscene # {}
                                        \/ Revdeps(t) = {} /\ t \notin Setscene},
              endpoints |-> {e \in Tasks \X Setscene : e[1] \in Depends(e[2])},
              newpoints |-> {}, newendpoints |-> {}, collated |-> {}, squash |-> {},
              revdeps |-> {e \in Tasks \X (Tasks \ Setscene) : e[1] \in Depends(e[2])}]
  PROVE  GraphAt(g, 0)
<1>1. /\ g.points = {t \in Tasks : \/ Revdeps(t) \intersect Setscene # {}
                                   \/ Revdeps(t) = {} /\ t \notin Setscene}
      /\ g.endpoints = {e \in Tasks \X Setscene : e[1] \in Depends(e[2])}
      /\ g.newpoints = {} /\ g.newendpoints = {} /\ g.collated = {} /\ g.squash = {}
      /\ g.revdeps = {e \in Tasks \X (Tasks \ Setscene) : e[1] \in Depends(e[2])}
  OBVIOUS
<1>2. g \in Graphs
  BY DEF Graphs
<1>3. Setscene \subseteq Tasks /\ \A t \in Tasks : Depends(t) \subseteq Tasks
  BY DEF BuildOK, Setscene, Depends
<1>4. GraphSound(g)
  BY <1>1 DEF GraphSound, From
<1>5. GraphComplete(g)
  <2>1. ASSUME NEW s \in Setscene, NEW d \in Depends(s)
        PROVE  d \in g.points /\ <<d, s>> \in g.endpoints
    <3>1. d \in Tasks /\ s \in Tasks /\ s \in Revdeps(d)
      BY <1>3 DEF Revdeps
    <3>2. d \in g.points
      BY <1>1, <3>1
    <3>3. <<d, s>> \in g.endpoints
      BY <1>1, <3>1
    <3> QED  BY <3>2, <3>3
  <2> QED  BY <1>1, <2>1 DEF GraphComplete
<1>6. GraphGoesOn(g)
  <2>1. ASSUME NEW d \in Tasks, NEW r \in Tasks, <<d, r>> \in g.revdeps
        PROVE  d \in Depends(r)
    BY <1>1, <2>1
  <2>2. ASSUME NEW r \in Tasks \ Setscene
        PROVE  r \in g.points \/ \E u \in Tasks : <<r, u>> \in g.revdeps
    <3>1. CASE Revdeps(r) \subseteq Setscene
      BY <1>1, <3>1
    <3>2. CASE ~(Revdeps(r) \subseteq Setscene)
      <4>1. PICK u \in Revdeps(r) : u \notin Setscene
        BY <3>2
      <4>2. u \in Tasks \ Setscene /\ r \in Depends(u)
        BY <4>1 DEF Revdeps
      <4>3. <<r, u>> \in g.revdeps
        BY <1>1, <4>2
      <4> QED  BY <4>2, <4>3
    <3> QED  BY <3>1, <3>2
  <2> QED  BY <2>1, <2>2 DEF GraphGoesOn
<1>7. Bounded(g, 0, 0)
  <2>1. g.points \in SUBSET Tasks
    BY <1>1
  <2>2. 0 + Cardinality(g.points) <= 0 * (Cardinality(Tasks) + 1) + Cardinality(Tasks)
    BY <2>1, TaskSizes
  <2>3. \A p \in g.points : Higher(p) >= 0
    BY <2>1, TaskSizes
  <2> QED  BY <1>1, <2>2, <2>3 DEF Bounded
<1> QED  BY <1>2, <1>4, <1>5, <1>6, <1>7 DEF GraphAt, GraphInv

\* The number of steps build_scenequeue_data() is given here is enough for its
\* loop: nothing is left to process, and the rows of squash are those of
\* setscene tasks.
LEMMA CollapsedIs ==
  ASSUME BuildOK
  PROVE  /\ GraphInv(CollapsedGraph)
         /\ CollapsedGraph.points = {}
         /\ \A r \in Tasks \ Setscene : \A d \in Tasks : <<r, d>> \notin CollapsedGraph.squash
<1> DEFINE start == [points |-> {t \in Tasks : \/ Revdeps(t) \intersect Setscene # {}
                                               \/ Revdeps(t) = {} /\ t \notin Setscene},
                     endpoints |-> {e \in Tasks \X Setscene : e[1] \in Depends(e[2])},
                     newpoints |-> {}, newendpoints |-> {}, collated |-> {}, squash |-> {},
                     revdeps |-> {e \in Tasks \X (Tasks \ Setscene) : e[1] \in Depends(e[2])}]
           e0(f) == [n \in Nat |-> IF n = 0 THEN start
                                   ELSE LET g == f[n - 1] IN ProcessEndpoints(g)]
           round == CHOOSE f : f = e0(f)
           N == Cardinality(Tasks)
           V == {g \in Graphs : \E n \in Nat : GraphAt(g, n)}
           h == [g \in V |-> ProcessEndpoints(g)]
<1>1. CollapsedGraph = round[(N + 1) * (N + 1)]
  BY DEF CollapsedGraph
<1>2. GraphAt(start, 0)
  BY StartIs
<1> HIDE DEF start
<1>3. start \in V
  BY <1>2 DEF GraphAt, GraphInv
<1>4. \A g, n : GraphAt(g, n) => g \in Graphs
  BY DEF GraphAt, GraphInv
<1>5. h \in [V -> V]
  <2>1. ASSUME NEW g \in V PROVE ProcessEndpoints(g) \in V
    <3>1. PICK n \in Nat : GraphAt(g, n)
      OBVIOUS
    <3>2. GraphAt(ProcessEndpoints(g), n + 1)
      BY <3>1, EndpointsStep
    <3>3. n + 1 \in Nat
      OBVIOUS
    <3> QED  BY <1>4, <3>2, <3>3
  <2> HIDE DEF V
  <2> QED  BY <2>1
<1>6. \A n \in Nat : round[n] = IF n = 0 THEN start ELSE ProcessEndpoints(round[n - 1])
  <2> HIDE DEF h, V
  <2>1. PICK f \in [Nat -> V] : \A n \in Nat : f[n] = IF n = 0 THEN start ELSE h[f[n - 1]]
    <3> HIDE DEF e0
    <3> QED  BY <1>3, <1>5, Recursion
  <2>2. \A g \in V : h[g] = ProcessEndpoints(g)
    BY DEF h
  <2>3. f = e0(f)
    <3>1. \A n \in Nat : n # 0 => f[n - 1] \in V
      OBVIOUS
    <3> HIDE DEF h
    <3>2. \A n \in Nat : f[n] = IF n = 0 THEN start ELSE ProcessEndpoints(f[n - 1])
      BY <2>1, <2>2, <3>1
    <3> QED  BY <3>2
  <2>4. round = e0(round)
    <3> HIDE DEF e0
    <3> QED  BY <2>3
  <2> HIDE DEF round
  <2> QED  BY <2>4
<1> HIDE DEF round, e0
<1>7. \A n \in Nat : GraphAt(round[n], n)
  <2> DEFINE E == {n \in Nat : GraphAt(round[n], n)}
  <2>1. 0 \in E
    BY <1>2, <1>6
  <2>2. ASSUME NEW n \in Nat, n \in E PROVE n + 1 \in E
    <3>1. n + 1 \in Nat /\ n + 1 # 0 /\ (n + 1) - 1 = n
      OBVIOUS
    <3>2. round[n + 1] = ProcessEndpoints(round[n])
      BY <1>6, <3>1
    <3>3. GraphAt(ProcessEndpoints(round[n]), n + 1)
      BY <2>2, EndpointsStep
    <3> QED  BY <3>1, <3>2, <3>3
  <2> HIDE DEF E
  <2>3. \A n \in Nat : n \in E
    BY <2>1, <2>2, Induct
  <2> QED  BY <2>3 DEF E
<1> DEFINE g == CollapsedGraph
           last == (N + 1) * (N + 1)
<1>8. N \in Nat /\ last \in Nat /\ last = N * (N + 1) + N + 1 /\ N * (N + 1) \in Nat
  BY TaskSizes
<1>9. GraphAt(g, last)
  <2> HIDE DEF last
  <2> QED  BY <1>1, <1>7, <1>8 DEF last
<1> HIDE DEF g, round
<1>10. PICK k \in Nat : Bounded(g, last, k)
  BY <1>9 DEF GraphAt
<1>11. /\ GraphInv(g) /\ g.points \in SUBSET Tasks /\ g.newpoints \in SUBSET Tasks
       /\ Setscene \subseteq Tasks
  BY <1>9 DEF GraphAt, GraphInv, Graphs, BuildOK, Setscene
<1>12. k > N
  <2>1. last + Cardinality(g.points) <= k * (N + 1) + N /\ Cardinality(g.points) \in Nat
    BY <1>10, <1>11, TaskSizes DEF Bounded
  <2> HIDE DEF N, last
  <2>2. CASE k <= N
    <3>1. PICK j \in Nat : N = k + j
      <4>1. N - k \in Nat /\ N = k + (N - k)
        BY <1>8, <2>2
      <4> QED  BY <4>1
    <3>2. N * (N + 1) = k * (N + 1) + j * (N + 1)
      BY <1>8, <3>1
    <3>3. j * (N + 1) \in Nat /\ k * (N + 1) \in Nat
      BY <1>8
    <3> QED  BY <1>8, <2>1, <3>2, <3>3
  <2> QED  BY <1>8, <2>2
<1>13. g.points = {} /\ g.newpoints = {}
  <2>1. \A p \in Tasks : Higher(p) \in Nat /\ Higher(p) < N
    BY TaskSizes
  <2> HIDE DEF N
  <2>2. \A p \in Tasks : ~(Higher(p) >= k) /\ ~(Higher(p) >= k + 1)
    BY <1>8, <1>12, <2>1
  <2> QED  BY <1>10, <1>11, <2>2 DEF Bounded
<1>14. \A d, r \in Tasks : <<d, r>> \notin g.revdeps
  <2> DEFINE R == {r \in Tasks : \E d \in Tasks : <<d, r>> \in g.revdeps}
  <2>1. ASSUME R # {} PROVE FALSE
    <3>1. R \in SUBSET Tasks
      OBVIOUS
    <3>2. PICK r \in R : \A q \in R : q <= r
      <4> HIDE DEF R
      <4> QED  BY <2>1, <3>1, Greatest
    <3>3. r \in Tasks \ Setscene
      BY <1>11 DEF GraphInv, Graphs
    <3>4. PICK u \in Tasks : <<r, u>> \in g.revdeps
      BY <1>11, <1>13, <3>3 DEF GraphInv, GraphGoesOn
    <3>5. r \in Depends(u)
      BY <1>11, <3>3, <3>4 DEF GraphInv, GraphGoesOn
    <3>6. u \in R
      BY <3>3, <3>4
    <3>7. u <= r /\ r < u
      BY <3>2, <3>5, <3>6 DEF BuildOK, Depends
    <3> QED  BY <3>3, <3>4, <3>7, TasksAssumption
  <2> QED  BY <2>1
<1>15. \A r \in Tasks \ Setscene : \A d \in Tasks : <<r, d>> \notin g.squash
  BY <1>11, <1>13, <1>14 DEF GraphInv, GraphGoesOn
<1> QED  BY <1>11, <1>13, <1>15 DEF g

\* What build_scenequeue_data() collects for a setscene task is what lies below it.
LEMMA CollapsedReaches ==
  ASSUME BuildOK, NEW s \in Setscene
  PROVE  /\ {d \in Setscene : <<d, s>> \in CollapsedGraph.squash} = Below(s) \intersect Setscene
         /\ {t \in Tasks : <<s, t>> \in CollapsedGraph.collated} = Below(s) \ Setscene
<1> DEFINE g == CollapsedGraph
           D == {d \in Setscene : <<d, s>> \in g.squash}
           C == {t \in Tasks : <<s, t>> \in g.collated}
           T == D \union C
<1>1. /\ GraphInv(g) /\ g.points = {}
      /\ \A r \in Tasks \ Setscene : \A d \in Tasks : <<r, d>> \notin g.squash
  BY CollapsedIs
<1> HIDE DEF g
<1>2. Setscene \subseteq Tasks /\ s \in Tasks /\ \A t \in Tasks : Depends(t) \subseteq Tasks
  BY DEF BuildOK, Setscene, Depends
<1>3. C \intersect Setscene = {} /\ D \subseteq Setscene
  BY <1>1 DEF GraphInv, Graphs
<1>4. Depends(s) \subseteq T
  <2>1. ASSUME NEW d \in Depends(s) PROVE d \in T
    <3>1. IF d \in Setscene THEN <<d, s>> \in g.squash ELSE <<s, d>> \in g.collated
      BY <1>1 DEF GraphInv, GraphComplete
    <3> QED  BY <1>2, <3>1
  <2> QED  BY <2>1
<1>5. \A t \in T \ Setscene : Depends(t) \subseteq T
  <2>1. ASSUME NEW t \in C, NEW d \in Depends(t) PROVE d \in T
    <3>1. <<d, s>> \in g.squash \/ (d \notin Setscene /\ <<s, d>> \in g.collated)
      BY <1>1 DEF GraphInv, GraphComplete
    <3> QED  BY <1>1, <1>2, <3>1
  <2> QED  BY <1>3, <2>1
<1> DEFINE B == Below(s)
<1>6. B \subseteq T
  <2> HIDE DEF T
  <2> QED  BY <1>2, <1>4, <1>5, BelowIs
<1>7. Depends(s) \subseteq B /\ \A t \in B \ Setscene : Depends(t) \subseteq B
  BY <1>2, BelowIs
<1>8. T \subseteq Tasks
  BY <1>2
<1>9. \A d \in T : d \in Depends(s) \/ \E y \in C : d \in Depends(y)
  <2>1. ASSUME NEW d \in T PROVE From(g, s, d)
    BY <1>1, <1>8 DEF GraphInv, GraphSound
  <2> QED  BY <2>1 DEF From
<1> HIDE DEF B
<1>10. T \subseteq B
  <2>1. ASSUME T \ B # {} PROVE FALSE
    <3>1. PICK b \in T \ B : \A x \in T \ B : x <= b
      <4> HIDE DEF T
      <4> QED  BY <1>8, <2>1, Greatest
    <3>2. PICK y \in C : b \in Depends(y)
      BY <1>7, <1>9, <3>1
    <3>3. y \in T /\ y \notin Setscene /\ y \in Tasks /\ b \in Tasks
      BY <1>3, <1>8
    <3>4. b < y /\ y \in Nat /\ b \in Nat
      BY <3>2, <3>3, TasksAssumption DEF BuildOK, Depends
    <3>5. y \in B
      BY <3>1, <3>3, <3>4
    <3> QED  BY <1>7, <3>1, <3>2, <3>3, <3>5
  <2> QED  BY <2>1
<1>11. D = B \intersect Setscene /\ C = B \ Setscene
  BY <1>3, <1>6, <1>10
<1> QED  BY <1>11 DEF B, D, C, g

\* The graph that the build works with is the reachability relation, and
\* what it counts as unskippable is what the targets and end points need.
Collapsed ==
  sqdata # <<>> =>
    /\ sqdata.unskippable = Unskippable
    /\ \A s \in Setscene : /\ SqDeps(s) = Below(s) \intersect Setscene
                           /\ SqCovered(s) = Below(s) \ Setscene

\* build_scenequeue_data() makes it so.
LEMMA CollapsedInit ==
  ASSUME TypeInv, SceneInit PROVE Collapsed'
<1>1. BuildOK /\ rqdata' = rqdata /\ Setscene' = Setscene /\ Setscene \subseteq Tasks
  BY IsBuild DEF TypeInv, TypeOK, SceneInit, Setscene, BuildOK
<1>2. Unskippable' = Unskippable /\ \A s \in Setscene : Below(s)' = Below(s)
  BY <1>1 DEF Below, Depends, Setscene, Unskippable, CantSkip, Revdeps
<1>3. /\ sqdata'.sq_revdeps
           = [s \in Setscene |-> {r \in Setscene : <<s, r>> \in CollapsedGraph.squash}]
      /\ sqdata'.sq_covered_tasks
           = [s \in Setscene |-> {t \in Tasks : <<s, t>> \in CollapsedGraph.collated}]
      /\ sqdata'.unskippable = Unskippable
  BY DEF SceneInit, SceneQueue
<1>4. ASSUME NEW s \in Setscene
      PROVE  /\ SqDeps(s)' = {d \in Setscene : <<d, s>> \in CollapsedGraph.squash}
             /\ SqCovered(s)' = {t \in Tasks : <<s, t>> \in CollapsedGraph.collated}
  BY <1>1, <1>3 DEF SqDeps, SqRevdeps, SqCovered
<1>5. ASSUME NEW s \in Setscene
      PROVE  /\ SqDeps(s)' = Below(s) \intersect Setscene
             /\ SqCovered(s)' = Below(s) \ Setscene
  BY <1>1, <1>4, CollapsedReaches
<1> QED  BY <1>1, <1>2, <1>3, <1>5 DEF Collapsed

\* No other step changes the build or the graph.
LEMMA GraphKept ==
  ASSUME [Next]_vars, ~SceneInit PROVE UNCHANGED <<rqdata, sqdata>>
<1>1. CASE SceneStart \/ UNCHANGED vars
  BY <1>1 DEF SceneStart, vars
<1>2. CASE Finish \/ BuildDone \/ Shutdown \/ ForceShutdown \/ ReadEnd \/ TaskWait \/ QueueEmpty
           \/ ForceDeferred \/ HoldOffStep \/ Migrate
  BY <1>2 DEF Finish, BuildDone, Shutdown, ForceShutdown, ReadEnd, TaskWait, QueueEmpty,
     ForceDeferred, HoldOffStep, Migrate, Quiet
<1>3. ASSUME NEW t \in Tasks, WorkerReport(t) \/ SceneStep(t) \/ TaskStep(t)
      PROVE  UNCHANGED <<rqdata, sqdata>>
  BY <1>3 DEF WorkerReport, SceneStep, TaskStep, TaskComplete, TaskFail, HashReport,
     SceneComplete,
     SceneFail, SceneNotNeeded, SceneHardDefer, SceneReject, SceneRun, TaskSkip, TaskNoExec,
         TaskRun,
     Quiet
<1> QED  BY <1>1, <1>2, <1>3 DEF Next, Ended

\* So it is in every state.
LEMMA CollapsedNext ==
  ASSUME TypeInv, Collapsed, [Next]_vars PROVE Collapsed'
<1>1. CASE SceneInit
  BY <1>1, CollapsedInit
<1>2. CASE ~SceneInit
  <2>1. UNCHANGED <<rqdata, sqdata>>
    BY <1>2, GraphKept
  <2>2. /\ Setscene' = Setscene /\ Unskippable' = Unskippable
        /\ \A s \in Setscene : Below(s)' = Below(s)
    BY <2>1 DEF Below, Depends, Setscene, Unskippable, CantSkip, Revdeps
  <2>3. \A s \in Setscene : SqDeps(s)' = SqDeps(s) /\ SqCovered(s)' = SqCovered(s)
    BY <2>1, <2>2 DEF SqDeps, SqRevdeps, SqCovered
  <2> QED  BY <2>1, <2>2, <2>3 DEF Collapsed
<1> QED  BY <1>1, <1>2

\* The invariants that every build keeps.
GraphOfTasks == TypeInv /\ Collapsed

\* They hold of every state.
LEMMA GraphOfTasksHolds == Spec => []GraphOfTasks
<1>1. Init => GraphOfTasks
  BY TypeInit DEF Init, Collapsed, GraphOfTasks
<1>2. GraphOfTasks /\ [Next]_vars => GraphOfTasks'
  BY TypeNext, CollapsedNext DEF GraphOfTasks
<1> QED  BY <1>1, <1>2, PTL DEF Spec

\* build_scenequeue_data() gives every setscene task what lies below it, for every
\* graph of tasks.
THEOREM CollapsedGraphIsReachability == Spec => []CollapsedIsReachable
<1>1. GraphOfTasks => CollapsedIsReachable
  BY DEF GraphOfTasks, Collapsed, CollapsedIsReachable
<1> QED  BY <1>1, GraphOfTasksHolds, PTL

\* What the graph says of the setscene tasks and of what they cover.
LEMMA GraphSays ==
  ASSUME GraphOfTasks, sqdata # <<>>
  PROVE  /\ \A s \in Setscene :
             SqCovered(s) \intersect Setscene = {} /\ SqCovered(s) \subseteq Tasks
         /\ \A t \in sqdata.unskippable \ Setscene : Depends(t) \subseteq sqdata.unskippable
         /\ CantSkip \subseteq sqdata.unskippable
         /\ \A s \in Setscene : Depends(s) \subseteq SqDeps(s) \union SqCovered(s)
         /\ \A s \in Setscene, t \in Tasks :
              t \in SqCovered(s) => Depends(t) \subseteq SqDeps(s) \union SqCovered(s)
         /\ \A s \in Setscene, T \in SUBSET Tasks :
              Depends(s) \subseteq T /\ (\A t \in T : Depends(t) \subseteq T) =>
                  SqCovered(s) \subseteq T
<1>1. /\ BuildOK /\ Setscene \subseteq Tasks
      /\ sqdata.unskippable = Unskippable
      /\ \A s \in Setscene :
          SqDeps(s) = Below(s) \intersect Setscene /\ SqCovered(s) = Below(s) \ Setscene
  BY IsBuild DEF GraphOfTasks, Collapsed, TypeInv, TypeOK
<1>2. /\ CantSkip \subseteq Unskippable
      /\ \A t \in Unskippable \ Setscene : Depends(t) \subseteq Unskippable
  BY <1>1, UnskippableIs
<1>3. ASSUME NEW s \in Setscene
      PROVE  /\ Below(s) \subseteq Tasks /\ Depends(s) \subseteq Below(s)
             /\ \A t \in Below(s) \ Setscene : Depends(t) \subseteq Below(s)
  BY <1>1, BelowIs
<1>4. ASSUME NEW s \in Setscene, NEW T \in SUBSET Tasks,
             Depends(s) \subseteq T, \A t \in T : Depends(t) \subseteq T
      PROVE  Below(s) \subseteq T
  BY <1>1, <1>4, BelowIs
<1> QED  BY <1>1, <1>2, <1>3, <1>4

\* Below a setscene task whose real task has started everything is complete.
LEMMA StartedCoversComplete ==
  ASSUME GraphOfTasks, DependenciesFirst, sqdata # <<>>, runq_complete \subseteq runq_running,
         NEW s \in Setscene, s \in runq_running
  PROVE  SqCovered(s) \subseteq runq_complete
<1>1. Depends(s) \subseteq runq_complete /\ \A t \in runq_complete :
          Depends(t) \subseteq runq_complete
  BY DEF DependenciesFirst
<1>2. runq_complete \in SUBSET Tasks
  BY DEF GraphOfTasks, TypeInv, TypeOK
<1> QED  BY <1>1, <1>2, GraphSays

\* A setscene task that is both covered and not covered has run for real by
\* then.
BothStarted == scenequeue_covered \intersect scenequeue_notcovered \subseteq runq_running

\* The complete tasks that have not run.
Unrun == runq_complete \ runq_tasksrun
\* Nothing needs d but what is covered.
Given(d) ==
  d \notin sqdata.unskippable /\ \A s \in Setscene : d \in SqCovered(s) => s \in scenequeue_covered

\* A task that was completed without having run is not needed.
UnrunIsGiven ==
  /\ Unrun \intersect Setscene \subseteq scenequeue_covered
  /\ \A d \in Unrun \ Setscene : Given(d)

\* So is what counts as covered, unless it is held off.
CoveredIsGiven ==
  /\ tasks_covered \intersect Setscene \subseteq scenequeue_covered
  /\ \A d \in tasks_covered \ Setscene :
       /\ d \notin sqdata.unskippable
       /\ \A s \in Setscene : d \in SqCovered(s) =>
            s \in scenequeue_covered \/ d \in runq_complete \union holdoff_tasks

\* t has to run: the targets or end points need it, or a setscene task that is
\* not covered is it or needs it.
Real(t) ==
  \/ t \in sqdata.unskippable \ Setscene
  \/ t \in Setscene \ scenequeue_covered
  \/ \E s \in Setscene \ scenequeue_covered : t \in SqCovered(s)

\* What the scheduler takes as not covered has to run.
NotCoveredIsReal ==
  ~holdoff_need_update => \A t \in tasks_notcovered \ runq_running : Real(t)

\* A setscene task that was left out as unneeded is below covered ones only.
UnneededIsGiven ==
  \A d \in scenequeue_notneeded :
    d \notin sqdata.unskippable /\ SqRevdeps(d) \subseteq scenequeue_covered

\* Nothing has begun before the start.
NotBegun ==
  state = "SCENE_INIT" =>
    /\ tasks_covered = {} /\ scenequeue_notneeded = {} /\ runq_complete = {} /\ active = {}
    /\ holdoff_need_update /\ sq_live = {}

\* The inductive invariant behind InputsThere.
InputsInv ==
  /\ BothStarted /\ UnrunIsGiven /\ CoveredIsGiven /\ NotCoveredIsReal
  /\ UnneededIsGiven /\ NotBegun /\ InputsThere

\* d can be left to what was put in place for it.
Fits(d) == IF d \in Setscene THEN d \in scenequeue_covered ELSE Given(d)
\* t finds all its inputs.
Fed(t) == Depends(t) \subseteq runq_tasksrun \union (scenequeue_covered \ scenequeue_notneeded)

\* Steps that take no cover away.
LEMMA InputsKept ==
  ASSUME WorkInv, InputsInv, UNCHANGED <<rqdata, sqdata>>, state' # "SCENE_INIT",
         \A t \in active' \ active : Fed(t),
         \A d \in Unrun' \ Unrun : Fits(d),
         runq_running \subseteq runq_running',
         runq_complete \subseteq runq_complete',
         runq_tasksrun \subseteq runq_tasksrun',
         scenequeue_covered \subseteq scenequeue_covered',
         BothStarted',
         \A d \in scenequeue_notneeded' \ scenequeue_notneeded :
           /\ d \notin scenequeue_covered
           /\ d \notin sqdata.unskippable /\ SqRevdeps(d) \subseteq scenequeue_covered',
         UNCHANGED <<tasks_covered, tasks_notcovered, holdoff_tasks>>,
         ~holdoff_need_update' => ~holdoff_need_update /\ scenequeue_covered' = scenequeue_covered
  PROVE  InputsInv'
<1>1. /\ Setscene' = Setscene /\ \A s : SqCovered(s)' = SqCovered(s)
      /\ \A s : SqRevdeps(s)' = SqRevdeps(s) /\ \A t : Depends(t)' = Depends(t)
  BY DEF Setscene, SqCovered, SqRevdeps, Depends
<1>2. UnrunIsGiven'
  <2>1. ASSUME NEW d \in Unrun'
        PROVE  IF d \in Setscene THEN d \in scenequeue_covered ELSE Given(d)
    BY <2>1 DEF InputsInv, UnrunIsGiven, Fits
  <2> QED  BY <1>1, <2>1 DEF UnrunIsGiven, Given
<1>3. CoveredIsGiven'
  BY <1>1 DEF InputsInv, CoveredIsGiven
<1>4. NotCoveredIsReal'
  BY <1>1 DEF InputsInv, NotCoveredIsReal, Real
<1>5. UnneededIsGiven'
  BY <1>1 DEF InputsInv, UnneededIsGiven
<1>6. InputsThere'
  <2>1. ASSUME NEW t \in active' PROVE Fed(t)
    BY DEF InputsInv, InputsThere, Fed
  <2> QED  BY <1>1, <2>1 DEF InputsThere, Fed
<1> QED  BY <1>2, <1>3, <1>4, <1>5, <1>6 DEF InputsInv, NotBegun

\* A task that comes to be both covered and not covered has run for real.
LEMMA CoverKept ==
  ASSUME InputsInv, runq_running \subseteq runq_running',
         scenequeue_covered' \intersect scenequeue_notcovered'
           \subseteq (scenequeue_covered \intersect scenequeue_notcovered) \union runq_running
  PROVE  BothStarted'
BY DEF InputsInv, BothStarted

\* A deferred task that is found to have a stamp is covered, or it was not
\* covered and has run for real.
LEMMA StampedStarted ==
  ASSUME TypeInv, WorkInv, InputsInv, state # "SCENE_INIT",
         NEW stamped, stamped \subseteq SceneStamped, stamped \subseteq DOMAIN sq_deferred
  PROVE  stamped \intersect scenequeue_notcovered \subseteq scenequeue_covered \union runq_running
<1>1. \A t \in SceneStamped : t \in Setscene /\ t \in rqdata.noexec \union sstamp \union stamp
  BY IsBuild, StampedHave DEF TypeInv, TypeOK
<1>2. FreshInv
  BY DEF WorkInv
<1> QED  BY <1>1, <1>2 DEF FreshInv

\* It holds initially.
LEMMA InputsInit == Init => InputsInv
BY DEF Init, InputsInv, BothStarted, UnrunIsGiven, CoveredIsGiven,
   NotCoveredIsReal,
   UnneededIsGiven, NotBegun, InputsThere, Unrun, Going

\* The preparation covers what has a stamp.
LEMMA InputsStart ==
  ASSUME TypeInv, WorkInv, InputsInv, SceneInit \/ SceneStart
  PROVE  InputsInv'
<1>1. /\ UNCHANGED <<runq_complete, runq_running, runq_tasksrun, active, sq_live, tasks_covered,
                    scenequeue_notneeded, pending_migrations>>
      /\ runq_running = {} /\ tasks_covered = {} /\ scenequeue_notneeded = {} /\ runq_complete = {}
      /\ active = {} /\ sq_live = {} /\ pending_migrations = {} /\ Handled = {}
      /\ holdoff_need_update' = TRUE
  BY DEF SceneInit, SceneStart, WorkInv, LiveInv, InputsInv, NotBegun, runqVars, workVars,
     hardVars,
     coverVars, validVars, sqVars, hashVars
<1>2. Unrun' = {}
  BY <1>1 DEF Unrun
<1>3. scenequeue_notcovered' = {}
  <2>1. CASE SceneInit
    BY <1>1, <2>1 DEF SceneInit, sqVars, Handled
  <2>2. CASE SceneStart
    BY <2>2, StartEffect
  <2> QED  BY <2>1, <2>2
<1> QED  BY <1>1, <1>2, <1>3 DEF InputsInv, BothStarted, UnrunIsGiven, CoveredIsGiven,
   NotCoveredIsReal, UnneededIsGiven, NotBegun, InputsThere

\* The steps of finish(), of the cooker and of a call that starts nothing.
LEMMA InputsQuiet ==
  ASSUME TypeInv, WorkInv, InputsInv,
         Finish \/ BuildDone \/ Shutdown \/ ForceShutdown \/ ReadEnd \/ TaskWait \/ QueueEmpty
         \/ ForceDeferred
  PROVE  InputsInv'
<1>1. /\ UNCHANGED <<rqdata, sqdata, runqVars, sqVars, hardVars, coverVars, hashVars>>
      /\ active' \subseteq active /\ DOMAIN sq_deferred' \subseteq DOMAIN sq_deferred
      /\ state # "SCENE_INIT" /\ state' # "SCENE_INIT"
  BY DEF Finish, BuildDone, Shutdown, ForceShutdown, ReadEnd, TaskWait, QueueEmpty,
         ForceDeferred, Quiet, workVars, Undeferred, Finished, PassStarts, TypeInv, SqOK
<1>3. BothStarted'
  BY <1>1, CoverKept DEF runqVars, sqVars, hashVars, InputsInv, BothStarted
<1> QED  BY <1>1, <1>3, InputsKept DEF runqVars, sqVars, hardVars, coverVars, Unrun

\* Steps in which a deferred task may be found to have a stamp.
LEMMA InputsStamped ==
  ASSUME TypeInv, WorkInv, InputsInv, state # "SCENE_INIT", NEW t \in Tasks,
         TaskStep(t) \/ TaskComplete(t)
  PROVE  /\ scenequeue_covered \subseteq scenequeue_covered'
         /\ BothStarted'
         /\ ~holdoff_need_update' =>
             ~holdoff_need_update /\ scenequeue_covered' = scenequeue_covered
<1>1. /\ UNCHANGED <<rqdata, pending_migrations, state>> /\ runq_running \subseteq runq_running'
      /\ DOMAIN sq_deferred' \subseteq DOMAIN sq_deferred
  BY TaskEffect DEF TaskStep, TaskSkip, TaskNoExec, TaskRun, TaskComplete, hashVars, Quiet
<1>3. PICK stamped \in SUBSET Setscene :
        /\ stamped \subseteq SceneStamped /\ stamped \subseteq DOMAIN sq_deferred
        /\ sq_running' = sq_running \union stamped
        /\ scenequeue_covered' = scenequeue_covered \union stamped
        /\ scenequeue_notcovered' = scenequeue_notcovered
        /\ holdoff_need_update' = (holdoff_need_update \/ stamped # {})
  BY TaskEffect
<1>4. stamped \intersect scenequeue_notcovered \subseteq scenequeue_covered \union runq_running
  BY <1>3, StampedStarted
<1>5. BothStarted'
  <2>1. scenequeue_covered' \intersect scenequeue_notcovered'
           \subseteq (scenequeue_covered \intersect scenequeue_notcovered) \union runq_running
    BY <1>3, <1>4
  <2> QED  BY <1>1, <2>1, CoverKept
<1>6. ~holdoff_need_update' => ~holdoff_need_update /\ scenequeue_covered' = scenequeue_covered
  BY <1>3
<1> QED  BY <1>3, <1>5, <1>6

\* A real task that ends has run.
LEMMA InputsTaskEnds ==
  ASSUME TypeInv, WorkInv, InputsInv, NEW t \in Tasks,
         TaskComplete(t) \/ TaskFail(t) \/ (\E h \in Hashes : HashReport(t, h))
  PROVE  InputsInv'
<1>1. /\ UNCHANGED <<rqdata, sqdata, runq_running, pending_migrations, hardVars, coverVars>>
      /\ state # "SCENE_INIT" /\ state' # "SCENE_INIT" /\ active' \subseteq active
  BY DEF TypeInv, SqOK, TaskComplete, TaskFail, HashReport, Reading, PassStarts,
     Quiet, hashVars, workVars, runqVars
<1>2. CASE TaskComplete(t)
  <2>1. /\ runq_complete' = runq_complete \union {t} /\ runq_tasksrun' = runq_tasksrun \union {t}
    BY <1>2, TaskEffect DEF TaskComplete
  <2>2. Unrun' \subseteq Unrun
    BY <2>1 DEF Unrun
  <2>3. /\ scenequeue_covered \subseteq scenequeue_covered'
        /\ BothStarted'
        /\ ~holdoff_need_update' => ~holdoff_need_update /\ scenequeue_covered' = scenequeue_covered
    BY <1>1, <1>2, InputsStamped
  <2> QED  BY <1>1, <2>1, <2>2, <2>3, InputsKept DEF coverVars, hardVars
<1>3. CASE TaskFail(t) \/ (\E h \in Hashes : HashReport(t, h))
  <2>1. UNCHANGED <<sqVars, runq_complete, runq_tasksrun, sq_deferred>>
    BY <1>3 DEF TaskFail, HashReport, runqVars, diskVars
  <2>3. BothStarted'
    BY <1>1, <2>1, CoverKept DEF sqVars, InputsInv, BothStarted
  <2> QED  BY <1>1, <2>1, <2>3, InputsKept DEF coverVars, hardVars, sqVars, Unrun
<1> QED  BY <1>2, <1>3

\* The end of a setscene task, or its being left out, takes no cover away.
LEMMA InputsScene ==
  ASSUME TypeInv, WorkInv, InputsInv, NEW t \in Tasks,
         SceneComplete(t) \/ SceneFail(t) \/ SceneNotNeeded(t) \/ SceneReject(t)
  PROVE  InputsInv'
<1> DEFINE all == FailsWith(Scene, {t}, SceneStamped)
<1>1. /\ UNCHANGED <<rqdata, sqdata, runqVars, active, coverVars, hashVars, state>>
      /\ state # "SCENE_INIT" /\ holdoff_need_update' = TRUE
      /\ DOMAIN sq_deferred' \subseteq DOMAIN sq_deferred
  BY DEF SceneComplete, SceneFail, SceneNotNeeded, SceneReject, Quiet, Reading, PassStarts,
     TypeInv,
     SqOK, Undeferred, workVars
<1>3. t \in Setscene \ Handled
  BY SceneEffect
<1>4. CASE SceneComplete(t) \/ SceneNotNeeded(t)
  <2>1. /\ scenequeue_covered' = scenequeue_covered \union {t}
        /\ scenequeue_notcovered' = scenequeue_notcovered
    BY <1>4, SceneEffect
  <2>2. BothStarted'
    BY <1>1, <1>3, <2>1, CoverKept DEF Handled, runqVars, hashVars, InputsInv,
       BothStarted
  <2>3. \A d \in scenequeue_notneeded' \ scenequeue_notneeded :
           /\ d \notin scenequeue_covered
           /\ d \notin sqdata.unskippable /\ SqRevdeps(d) \subseteq scenequeue_covered'
    BY <1>3, <1>4, <2>1 DEF SceneComplete, SceneNotNeeded, hardVars, Handled
  <2>4. Unrun' = Unrun
    BY <1>1 DEF Unrun, runqVars
  <2> QED  BY <1>1, <2>1, <2>2, <2>3, <2>4, InputsKept DEF runqVars, coverVars
<1>5. CASE SceneFail(t) \/ SceneReject(t)
  <2>1. /\ scenequeue_covered' = scenequeue_covered
        /\ scenequeue_notcovered' = scenequeue_notcovered \union all
    BY <1>5, SceneEffect
  <2>2. /\ all \subseteq Setscene
        /\ \A x \in all : x \in {t} \/ x \notin scenequeue_covered \union scenequeue_notcovered
    <3>1. BuildOK /\ {t} \in SUBSET Setscene
      BY <1>3, IsBuild DEF TypeInv, TypeOK
    <3>2. Scene.covered = scenequeue_covered /\ Scene.notcovered = scenequeue_notcovered
      BY DEF Scene
    <3>3. \A x \in all : x \in {t} \/ x \notin Scene.covered \union Scene.notcovered
      BY <3>1, FailsWithIs
    <3>4. all \subseteq Setscene
      BY <3>1, FailsWithIs
    <3> QED  BY <3>2, <3>3, <3>4
  <2> HIDE DEF all
  <2>4. scenequeue_covered' \intersect scenequeue_notcovered'
           \subseteq (scenequeue_covered \intersect scenequeue_notcovered) \union runq_running
    BY <1>3, <2>1, <2>2 DEF Handled
  <2>5. BothStarted'
    BY <1>1, <2>4, CoverKept DEF runqVars, hashVars
  <2>6. scenequeue_notneeded' = scenequeue_notneeded
    BY <1>5 DEF SceneFail, SceneReject, hardVars
  <2>7. Unrun' = Unrun
    BY <1>1 DEF Unrun, runqVars
  <2> QED  BY <1>1, <2>1, <2>5, <2>6, <2>7, InputsKept DEF runqVars, coverVars
<1> QED  BY <1>4, <1>5

\* A setscene task that starts or is put off changes no cover.
LEMMA InputsScenePass ==
  ASSUME TypeInv, WorkInv, InputsInv, NEW t \in Tasks, SceneHardDefer(t) \/ SceneRun(t)
  PROVE  InputsInv'
<1>1. /\ UNCHANGED <<rqdata, sqdata, state, active, runqVars, scenequeue_covered,
          scenequeue_notcovered,
                 scenequeue_notneeded, holdoff_need_update, coverVars, hashVars>>
      /\ state # "SCENE_INIT" /\ DOMAIN sq_deferred' \subseteq DOMAIN sq_deferred
  BY DEF SceneHardDefer, SceneRun, Quiet, TypeInv, SqOK, workVars, hardVars, Undeferred
<1>3. BothStarted'
  BY <1>1, CoverKept DEF runqVars, hashVars, InputsInv, BothStarted
<1>4. Unrun' = Unrun
  BY <1>1 DEF Unrun, runqVars
<1> QED  BY <1>1, <1>3, <1>4, InputsKept DEF runqVars, coverVars

\* A task that has to run finds its inputs: each of its dependencies has run, or
\* is a setscene task that is covered and needed.
LEMMA RealIsFed ==
  ASSUME GraphOfTasks, DependenciesFirst, InputsInv, sqdata # <<>>,
         NEW t \in Tasks, t \in runq_buildable, Real(t)
  PROVE  Fed(t)
<1> SUFFICES ASSUME NEW d \in Depends(t), d \notin runq_tasksrun
             PROVE  d \in scenequeue_covered \ scenequeue_notneeded
  BY DEF Fed
<1>1. d \in Unrun
  BY DEF DependenciesFirst, Unrun
<1>2. PICK S \in SUBSET Setscene :
        /\ S \intersect scenequeue_covered = {}
        /\ \/ d \in sqdata.unskippable
           \/ \E s \in S : d \in SqDeps(s) \union SqCovered(s)
  <2> DEFINE S == Setscene \ scenequeue_covered
  <2>1. \/ d \in sqdata.unskippable
        \/ \E s \in S : d \in SqDeps(s) \union SqCovered(s)
    BY GraphSays DEF Real
  <2> QED  BY <2>1
<1>3. CASE d \in Setscene
  <2>1. d \in scenequeue_covered
    BY <1>1, <1>3 DEF InputsInv, UnrunIsGiven
  <2>2. ASSUME d \in scenequeue_notneeded PROVE FALSE
    <3>1. d \notin sqdata.unskippable /\ SqRevdeps(d) \subseteq scenequeue_covered
      BY <2>2 DEF InputsInv, UnneededIsGiven
    <3>2. PICK s \in S : d \in SqDeps(s) \union SqCovered(s)
      BY <1>2, <3>1
    <3>3. s \in SqRevdeps(d)
      BY <1>3, <3>2, GraphSays DEF SqDeps
    <3> QED  BY <1>2, <3>1, <3>2, <3>3
  <2> QED  BY <2>1, <2>2
<1>4. CASE d \notin Setscene
  <2>1. Given(d)
    BY <1>1, <1>4 DEF InputsInv, UnrunIsGiven
  <2>2. PICK s \in S : d \in SqDeps(s) \union SqCovered(s)
    BY <1>2, <2>1 DEF Given
  <2>3. d \in SqCovered(s)
    BY <1>4, <2>2 DEF SqDeps
  <2> QED  BY <1>2, <2>1, <2>2, <2>3 DEF Given
<1> QED  BY <1>3, <1>4

\* A task that starts has to run, and one that is skipped is given.
LEMMA InputsTaskStarts ==
  ASSUME GraphOfTasks, DependenciesFirst, WorkInv, InputsInv, NEW t \in Tasks, TaskStep(t)
  PROVE  InputsInv'
<1>1. /\ UNCHANGED <<rqdata, sqdata, state, coverVars, hardVars>>
      /\ runq_running' = runq_running \union {t} /\ runq_complete \subseteq runq_running
      /\ state # "SCENE_INIT" /\ sqdata # <<>> /\ TypeInv
      /\ t \notin runq_running /\ t \notin holdoff_tasks /\ ~holdoff_need_update
      /\ t \in tasks_covered \union tasks_notcovered /\ t \in runq_buildable
  BY DEF TaskStep, TaskSkip, TaskNoExec, TaskRun, NextTasks, Quiet, GraphOfTasks, TypeInv,
     SqOK, WorkInv,
     LiveInv
<1>2. /\ scenequeue_covered \subseteq scenequeue_covered'
      /\ BothStarted'
      /\ ~holdoff_need_update' => ~holdoff_need_update /\ scenequeue_covered' = scenequeue_covered
  BY <1>1, InputsStamped
<1>3. /\ TaskRun(t) => runq_complete' = runq_complete
      /\ TaskSkip(t) \/ TaskNoExec(t) => runq_complete' = runq_complete \union {t}
  BY <1>1, TaskEffect
<1>4. /\ runq_complete \subseteq runq_complete' /\ runq_tasksrun \subseteq runq_tasksrun'
      /\ \A d \in Unrun' \ Unrun : Fits(d)
  <2>1. CASE TaskSkip(t) /\ t \in tasks_covered
    <3>1. runq_tasksrun' = runq_tasksrun /\ runq_complete' = runq_complete \union {t}
      BY <1>3, <2>1 DEF TaskSkip
    <3>2. Fits(t)
      BY <1>1, <2>1 DEF InputsInv, CoveredIsGiven, Fits, Given
    <3> QED  BY <3>1, <3>2 DEF Unrun
  <2>2. CASE TaskNoExec(t) \/ (TaskSkip(t) /\ t \notin tasks_covered)
    <3>1. runq_tasksrun' = runq_tasksrun \union {t} /\ runq_complete' = runq_complete \union {t}
      BY <1>3, <2>2 DEF TaskSkip, TaskNoExec
    <3> QED  BY <3>1 DEF Unrun
  <2>3. CASE TaskRun(t)
    BY <2>3 DEF TaskRun, Unrun
  <2> QED  BY <2>1, <2>2, <2>3 DEF TaskStep
<1>5. \A u \in active' \ active : Fed(u)
  <2>1. CASE TaskRun(t)
    <3>1. Real(t)
      BY <1>1, <2>1 DEF TaskRun, InputsInv, NotCoveredIsReal
    <3>2. Fed(t)
      BY <1>1, <3>1, RealIsFed
    <3> QED  BY <2>1, <3>2 DEF TaskRun
  <2>2. CASE TaskSkip(t) \/ TaskNoExec(t)
    BY <2>2 DEF TaskSkip, TaskNoExec, workVars
  <2> QED  BY <2>1, <2>2 DEF TaskStep
<1> QED  BY <1>1, <1>2, <1>4, <1>5, InputsKept DEF coverVars, hardVars

\* update_holdofftasks(): what it counts as covered is given, and what it counts
\* as not covered has to run.
LEMMA InputsHoldOff ==
  ASSUME GraphOfTasks, DependenciesFirst, WorkInv, InputsInv, HoldOffStep
  PROVE  InputsInv'
<1>1. /\ UNCHANGED <<rqdata, sqdata, sq_deferred, workVars, runq_running, runq_complete,
          runq_tasksrun,
                 scenequeue_covered, scenequeue_notcovered, hardVars, hashVars>>
      /\ Setscene' = Setscene /\ UpdateHoldOff
      /\ state # "SCENE_INIT" /\ state' # "SCENE_INIT" /\ sqdata # <<>>
      /\ runq_complete \subseteq runq_running
  BY DEF HoldOffStep, Quiet, GraphOfTasks, TypeInv, SqOK, Setscene, WorkInv, LiveInv
<1>3. BothStarted'
  BY <1>1, CoverKept DEF hashVars, InputsInv, BothStarted
<1>4. /\ \A s : SqCovered(s)' = SqCovered(s) /\ SqRevdeps(s)' = SqRevdeps(s)
      /\ \A t : Depends(t)' = Depends(t)
  BY <1>1 DEF SqCovered, SqRevdeps, Depends
<1>5. UnrunIsGiven' /\ UnneededIsGiven' /\ InputsThere' /\ NotBegun'
  BY <1>1, <1>4 DEF InputsInv, UnrunIsGiven, Unrun, Given, UnneededIsGiven, InputsThere,
     NotBegun,
     workVars, hardVars
<1>6. CASE ~holdoff_need_update
  <2>1. UNCHANGED <<tasks_covered, tasks_notcovered, holdoff_tasks, holdoff_need_update>>
    BY <1>1, <1>6 DEF UpdateHoldOff
  <2>2. CoveredIsGiven' /\ NotCoveredIsReal'
    BY <1>1, <1>4, <2>1 DEF InputsInv, CoveredIsGiven, NotCoveredIsReal, Real
  <2> QED  BY <1>3, <1>5, <2>2 DEF InputsInv
<1>7. CASE holdoff_need_update
  <2>1. tasks_covered' = Covered /\ tasks_notcovered' = NotCovered /\ holdoff_tasks' = HoldOff
    BY <1>1, <1>7 DEF UpdateHoldOff
  <2>2. Covered \intersect Setscene \subseteq scenequeue_covered
    BY <1>1, GraphSays DEF Covered, GraphOfTasks, TypeInv, TypeOK
  <2>3. ASSUME NEW d \in Covered \ Setscene
        PROVE  /\ d \notin sqdata.unskippable
               /\ \A s \in Setscene : d \in SqCovered(s) =>
                    s \in scenequeue_covered \/ d \in runq_complete \union HoldOff
    <3>1. d \in tasks_scenequeue_done /\ d \notin NotCovered
      BY DEF Covered
    <3>2. /\ d \notin sqdata.unskippable
          /\ \A s \in scenequeue_notcovered : d \notin SqCovered(s)
      BY <3>1 DEF NotCovered
    <3> QED  BY <3>2 DEF HoldOff
  <2>4. ASSUME NEW t \in NotCovered, t \notin runq_running
        PROVE  Real(t)
    <3>1. CASE t \in scenequeue_notcovered
      BY <2>4, <3>1 DEF Real, InputsInv, BothStarted, GraphOfTasks, TypeInv, TypeOK
    <3>2. CASE t \in CantSkip \union (sqdata.unskippable \ Setscene)
      BY <1>1, <3>2, GraphSays DEF Real, CantSkip
    <3>3. CASE \E s \in scenequeue_notcovered : t \in SqCovered(s)
      <4>1. PICK s \in scenequeue_notcovered : t \in SqCovered(s)
        BY <3>3
      <4>2. s \in Setscene
        BY DEF GraphOfTasks, TypeInv, TypeOK
      <4>3. s \notin runq_running
        BY <1>1, <2>4, <4>1, <4>2, StartedCoversComplete
      <4>4. s \notin scenequeue_covered
        BY <4>3 DEF InputsInv, BothStarted
      <4> QED  BY <4>1, <4>2, <4>4 DEF Real
    <3> QED  BY <3>1, <3>2, <3>3 DEF NotCovered
  <2>5. CoveredIsGiven'
    BY <1>1, <1>4, <2>1, <2>2, <2>3 DEF CoveredIsGiven
  <2>6. NotCoveredIsReal'
    BY <1>1, <1>4, <2>1, <2>4 DEF NotCoveredIsReal, Real
  <2> QED  BY <1>3, <1>5, <2>5, <2>6 DEF InputsInv
<1> QED  BY <1>6, <1>7

\* process_possible_migrations(): what is moved or waits was not covered, and
\* nothing that it covers has been skipped.
LEMMA MovedNotCovered ==
  ASSUME GraphOfTasks, WorkInv, InputsInv, Going, sqdata # <<>>, NEW pending \in SUBSET Setscene,
         \A p \in pending : p \in pending_migrations \/ p \notin scenequeue_covered
  PROVE  /\ (Moved(pending) \union Waits(pending)) \intersect scenequeue_covered = {}
         /\ Waits(pending) \subseteq scenequeue_notcovered
         /\ Wrong(pending) = {}
<1> DEFINE moved == Moved(pending)
           waits == Waits(pending)
<1>1. /\ moved \subseteq pending /\ waits \subseteq pending
      /\ \A t \in moved \union waits : t \notin runq_running
      /\ \A t \in waits : SqCovered(t) \intersect (runq_running \ runq_complete) # {}
      /\ \A t \in Wrong(pending) : t \in moved /\ SqCovered(t) \intersect Unrun # {}
  BY DEF Moved, Waits, Late, TooLate, Blocked, Unfinished, Wrong, SkippedUnder, Unrun
<1> HIDE DEF moved, waits
<1>2. (moved \union waits) \intersect scenequeue_covered = {}
  BY <1>1 DEF WorkInv, FreshInv, WaitingLost
<1>3. waits \subseteq scenequeue_notcovered
  <2> SUFFICES ASSUME NEW p \in waits PROVE p \in scenequeue_notcovered
    OBVIOUS
  <2>1. p \in Setscene /\ Startable(p) /\ ~Untouched(p)
    BY <1>1 DEF Startable, Untouched
  <2> QED  BY <1>2, <2>1 DEF WorkInv, OpenUntouched, Handled
<1>4. Wrong(pending) = {}
  <2> SUFFICES ASSUME NEW t \in Wrong(pending) PROVE FALSE
    OBVIOUS
  <2>1. PICK d \in SqCovered(t) : d \in Unrun
    BY <1>1
  <2>2. t \in Setscene /\ t \notin scenequeue_covered /\ d \notin Setscene
    BY <1>1, <1>2, GraphSays
  <2> QED  BY <2>1, <2>2 DEF InputsInv, UnrunIsGiven, Given
<1> QED  BY <1>2, <1>3, <1>4 DEF moved, waits

\* So no cover is lost.
LEMMA InputsMigrate ==
  ASSUME GraphOfTasks, WorkInv, InputsInv, Migrate
  PROVE  InputsInv'
<1>1. /\ TypeOK /\ BuildOK /\ BuildOK' /\ SqTyped /\ state # "SCENE_INIT" /\ Going
      /\ UNCHANGED <<rqdata, sqdata, active, runq_running, runq_complete, runq_tasksrun,
                     tasks_covered, tasks_notcovered, holdoff_tasks>>
      /\ Setscene' = Setscene /\ sqdata # <<>>
  BY IsBuild DEF Migrate, Quiet, workVars, GraphOfTasks, TypeInv, TypeOK, SqOK, Going,
     Setscene, BuildOK
<1>2. Unrun' = Unrun
  BY <1>1 DEF Unrun
<1>3. stamp' \subseteq stamp /\ sstamp' \subseteq sstamp
  BY <1>1, MigrateIs
<1>4. PICK pending \in SUBSET Setscene, touched \in BOOLEAN, stamped \in SUBSET Setscene,
               failed \in SUBSET Setscene :
              /\ pending_migrations \subseteq pending
              /\ \A p \in pending : p \in pending_migrations \/ p \notin scenequeue_covered
              /\ MovedWrong(pending) \/ MovedAll(pending, touched, stamped, failed)
  BY <1>1, MigrateIs
<1> DEFINE moved == Moved(pending)
           waits == Waits(pending)
<1>5. /\ moved \subseteq pending /\ moved \intersect waits = {}
      /\ \A t \in moved : t \notin runq_running
  BY DEF Moved, Waits, Late, TooLate
<1>6. /\ (moved \union waits) \intersect scenequeue_covered = {}
      /\ waits \subseteq scenequeue_notcovered /\ Wrong(pending) = {}
  BY <1>1, <1>4, MovedNotCovered
<1> HIDE DEF moved, waits
<1>7. ~MovedWrong(pending)
  BY <1>6 DEF MovedWrong
<1>8. CASE MovedAll(pending, touched, stamped, failed)
  <2> DEFINE hardfail == {t \in moved :
                 rqdata.hard[t] \intersect (scenequeue_notcovered \ moved) # {}}
             covered == (scenequeue_covered \ moved) \union stamped
  <2>1. /\ moved # {} => touched
        /\ stamped \subseteq moved /\ stamped \subseteq SceneStamped'
        /\ \A x \in failed : x \in hardfail \/ x \notin covered
        /\ \A x \in failed : x \in hardfail \/ \E t \in failed : x \in HardDependents(t)
        /\ scenequeue_covered' = covered
        /\ scenequeue_notcovered' = (scenequeue_notcovered \ moved) \union failed
        /\ scenequeue_notneeded' = scenequeue_notneeded \ moved
        /\ pending_migrations' = waits
        /\ DOMAIN sq_deferred' \subseteq DOMAIN sq_deferred \union moved
        /\ holdoff_need_update' = (holdoff_need_update \/ touched)
        /\ state' = state
    BY <1>8 DEF MovedAll, moved, waits
  <2>2. covered = scenequeue_covered \union stamped
    BY <1>6
  <2>3. hardfail \intersect stamped = {}
    <3> SUFFICES ASSUME NEW x \in stamped, rqdata.hard[x] # {} PROVE FALSE
      OBVIOUS
    <3>1. x \in Setscene' /\ x \in rqdata'.noexec \union sstamp' \union stamp'
      BY <1>1, <2>1, StampedHaveNext
    <3>2. x \in moved /\ x \notin runq_running /\ x \notin scenequeue_covered
      BY <1>5, <1>6, <2>1
    <3> QED  BY <1>1, <1>3, <3>1, <3>2 DEF WorkInv, FreshInv
  <2>5. failed \intersect scenequeue_covered' = {}
    BY <1>6, <2>1, <2>2, <2>3
  <2> HIDE DEF hardfail, covered
  <2>6. BothStarted'
    <3>1. scenequeue_covered' \intersect scenequeue_notcovered' \subseteq runq_running
      BY <2>1, <2>2, <2>5 DEF InputsInv, BothStarted
    <3> QED  BY <1>1, <3>1 DEF BothStarted
  <2>8. /\ scenequeue_covered \subseteq scenequeue_covered'
        /\ ~holdoff_need_update' => ~holdoff_need_update /\ scenequeue_covered' = scenequeue_covered
    BY <2>1, <2>2
  <2> QED  BY <1>1, <1>2, <2>1, <2>6, <2>8, InputsKept
<1> QED  BY <1>4, <1>7, <1>8

\* Every step keeps it.
LEMMA InputsNext ==
  ASSUME GraphOfTasks, DependenciesFirst, WorkInv, InputsInv, [Next]_vars
  PROVE  InputsInv'
<1> TypeInv
  BY DEF GraphOfTasks
<1>1. CASE SceneInit \/ SceneStart
  BY <1>1, InputsStart
<1>2. CASE Finish \/ BuildDone \/ Shutdown \/ ForceShutdown \/ ReadEnd \/ TaskWait \/ QueueEmpty
         \/ ForceDeferred
  BY <1>2, InputsQuiet
<1>3. CASE UNCHANGED vars
  BY <1>3 DEF vars, workVars, diskVars, runqVars, sqVars, hardVars, validVars, coverVars,
     hashVars,
     InputsInv, BothStarted, UnrunIsGiven, CoveredIsGiven, NotCoveredIsReal,
     UnneededIsGiven, NotBegun, InputsThere, Unrun, Given, Real, Going, Setscene, SqCovered,
     SqRevdeps, Depends
<1>4. CASE Migrate
  BY <1>4, InputsMigrate
<1>5. CASE HoldOffStep
  BY <1>5, InputsHoldOff
<1>6. ASSUME NEW t \in Tasks, WorkerReport(t) \/ SceneStep(t) \/ TaskStep(t)
      PROVE  InputsInv'
  <2>1. \/ SceneComplete(t) \/ SceneFail(t) \/ SceneNotNeeded(t) \/ SceneReject(t)
        \/ TaskComplete(t) \/ TaskFail(t) \/ (\E h \in Hashes : HashReport(t, h))
        \/ SceneRun(t) \/ SceneHardDefer(t) \/ TaskStep(t)
    BY <1>6 DEF WorkerReport, SceneStep
  <2> QED  BY <2>1, InputsScene, InputsTaskEnds, InputsScenePass, InputsTaskStarts
<1> QED  BY <1>1, <1>2, <1>3, <1>4, <1>5, <1>6 DEF Next, Ended

\* The invariants together.
FedInv == GraphOfTasks /\ DependenciesFirst /\ WorkInv /\ InputsInv

\* They hold initially.
LEMMA FedInvInit ==
  ASSUME Init, HardUnstamped
  PROVE  FedInv
<1>1. GraphOfTasks
  BY TypeInit DEF Init, Collapsed, GraphOfTasks
<1>2. DependenciesFirst
  BY DEF Init, DependenciesFirst
<1> QED  BY <1>1, <1>2, TypeInit, WorkInit, InputsInit DEF FedInv

\* Every step keeps them.
LEMMA FedInvNext == ASSUME FedInv, [Next]_vars PROVE FedInv'
<1>1. TypeInv' /\ Collapsed'
  BY TypeNext, CollapsedNext DEF FedInv, GraphOfTasks
<1>2. DependenciesFirst'
  BY DependenciesNext DEF FedInv
<1>3. WorkInv' /\ InputsInv'
  BY WorkNext, InputsNext DEF FedInv, GraphOfTasks
<1> QED  BY <1>1, <1>2, <1>3 DEF FedInv, GraphOfTasks

\* A task that runs for real finds what it needs: each dependency has run, or
\* a setscene task stands for it.
THEOREM InputsAreThere ==
  ASSUME \A b \in Builds : \A s \in b.setscene \intersect b.stamp : b.hard[s] = {}
  PROVE  Spec => []InputsThere
<1>1. Init => FedInv
  BY FedInvInit DEF Init, HardUnstamped, Setscene
<1>2. FedInv /\ [Next]_vars => FedInv'
  BY FedInvNext
<1>3. FedInv => InputsThere
  BY DEF FedInv, InputsInv
<1> QED  BY <1>1, <1>2, <1>3, PTL DEF Spec

\* No setscene task is moved to the queue again after a task that it covers was
\* skipped: "marked as completed but now needing to rerun? Halting build." never
\* ends a build.
THEOREM NothingToRerun ==
  ASSUME \A b \in Builds : \A s \in b.setscene \intersect b.stamp : b.hard[s] = {}
  PROVE  Spec => [][Migrate => state' = state /\ failed_tids' = failed_tids]_vars
<1>1. Init => FedInv
  BY FedInvInit DEF Init, HardUnstamped, Setscene
<1>2. FedInv /\ [Next]_vars => FedInv'
  BY FedInvNext
<1>3. FedInv /\ [Next]_vars => [Migrate => state' = state /\ failed_tids' = failed_tids]_vars
  <2> SUFFICES ASSUME FedInv, Migrate PROVE state' = state /\ failed_tids' = failed_tids
    OBVIOUS
  <2>1. /\ TypeOK /\ SqTyped /\ Going /\ sqdata # <<>>
    BY DEF Migrate, FedInv, GraphOfTasks, TypeInv, SqOK, Going
  <2>2. PICK pending \in SUBSET Setscene, touched \in BOOLEAN, stamped \in SUBSET Setscene,
                 failed \in SUBSET Setscene :
                /\ \A p \in pending : p \in pending_migrations \/ p \notin scenequeue_covered
                /\ MovedWrong(pending) \/ MovedAll(pending, touched, stamped, failed)
    BY <2>1, MigrateIs
  <2>3. Wrong(pending) = {}
    BY <2>1, <2>2, MovedNotCovered DEF FedInv
  <2>4. MovedAll(pending, touched, stamped, failed)
    BY <2>2, <2>3 DEF MovedWrong
  <2> QED  BY <2>4 DEF MovedAll
<1> QED  BY <1>1, <1>2, <1>3, PTL DEF Spec

\* Only a migration takes a cover away.
LEMMA CoverGrows ==
  ASSUME TypeInv, [Next]_vars, ~Migrate PROVE scenequeue_covered \subseteq scenequeue_covered'
<1>1. CASE SceneStart
  <2> DEFINE q == [Scene EXCEPT !.buildable = {s \in Setscene : SqRevdeps(s) = {}},
                                !.done = sqdata.unskippable \ Setscene]
             skipped == SkippedScene(q, SceneStamped)
  <2>1. SceneBecomes(skipped) /\ SqTyped /\ BuildOK /\ TypeOK /\ Setscene \subseteq Tasks
    BY <1>1, IsBuild DEF SceneStart, TypeInv, TypeOK, SqOK
  <2>2. q \in SceneSet /\ q.covered = scenequeue_covered
    <3>1. Scene \in SceneSet /\ Scene.covered = scenequeue_covered
      BY <2>1, SceneTyped DEF Scene
    <3>2. {s \in Setscene : SqRevdeps(s) = {}} \subseteq
              Setscene /\ sqdata.unskippable \ Setscene \subseteq Tasks
      BY <2>1 DEF SqTyped
    <3> DEFINE S == Scene
    <3> HIDE DEF S
    <3>3. /\ S \in SceneSet
          /\ q = [S EXCEPT !.buildable = {s \in Setscene : SqRevdeps(s) = {}},
                           !.done = sqdata.unskippable \ Setscene]
      BY <3>1 DEF S
    <3>4. q \in SceneSet /\ q.covered = S.covered
      BY <3>2, <3>3 DEF SceneSet
    <3> QED  BY <3>1, <3>4 DEF S
  <2>3. SceneStamped \in SUBSET Setscene
    BY DEF SceneStamped
  <2> HIDE DEF q
  <2>4. skipped.covered = q.covered \union SceneStamped
    BY <2>1, <2>2, <2>3, SkippedIs
  <2> HIDE DEF skipped
  <2> QED  BY <2>1, <2>2, <2>4 DEF SceneBecomes
<1>2. ASSUME NEW t \in Tasks,
             SceneComplete(t) \/ SceneFail(t) \/ SceneNotNeeded(t) \/ SceneReject(t)
      PROVE  scenequeue_covered \subseteq scenequeue_covered'
  <2>1. /\ BuildOK /\ SqTyped /\ Scene \in SceneSet /\ Scene.covered = scenequeue_covered
    BY <1>2, IsBuild, SceneTyped
       DEF TypeInv, TypeOK, SqOK, SceneComplete, SceneFail, SceneNotNeeded, SceneReject, Reading,
           PassStarts, Scene
  <2>2. t \in Setscene
    BY <1>2 DEF SceneComplete, SceneFail, SceneNotNeeded, SceneReject, SceneCandidates,
       TypeInv, TypeOK
  <2>3. CASE SceneComplete(t)
    BY <2>1, <2>2, <2>3, CompletedIs DEF SceneComplete, SceneBecomes
  <2>4. CASE SceneNotNeeded(t)
    BY <2>1, <2>2, <2>4, SkippedIs DEF SceneNotNeeded, SceneBecomes
  <2>5. CASE SceneFail(t)
    <3> DEFINE f == FailedScene(Scene, t, SceneStamped)
               all == FailsWith(Scene, {t}, SceneStamped)
    <3>1. Marked(f, Scene, all, all \ {t})
      BY <2>1, <2>2, FailedIs
    <3>2. SceneBecomes(f)
      BY <2>5 DEF SceneFail
    <3> HIDE DEF f, all
    <3> QED  BY <2>1, <3>1, <3>2 DEF SceneBecomes, Marked
  <2>6. CASE SceneReject(t)
    <3> DEFINE f == FailedOutright(Scene, {t}, SceneStamped)
               all == FailsWith(Scene, {t}, SceneStamped)
    <3>1. Marked(f, Scene, all, all)
      BY <2>1, <2>2, FailedOutrightIs
    <3>2. SceneBecomes(f)
      BY <2>6 DEF SceneReject
    <3> HIDE DEF f, all
    <3> QED  BY <2>1, <3>1, <3>2 DEF SceneBecomes, Marked
  <2> QED  BY <1>2, <2>3, <2>4, <2>5, <2>6
<1>3. ASSUME NEW t \in Tasks, TaskStep(t) \/ TaskComplete(t)
      PROVE  scenequeue_covered \subseteq scenequeue_covered'
  BY <1>3, TaskEffect
<1>4. ASSUME NEW t \in Tasks,
             SceneRun(t) \/ SceneHardDefer(t) \/ TaskFail(t) \/ (\E h \in Hashes : HashReport(t, h))
      PROVE  UNCHANGED scenequeue_covered
  BY <1>4 DEF SceneRun, SceneHardDefer, TaskFail, HashReport, sqVars
<1>5. CASE \/ SceneInit \/ Finish \/ BuildDone \/ Shutdown \/ ForceShutdown \/ ReadEnd \/ HoldOffStep
           \/ TaskWait \/ ForceDeferred \/ QueueEmpty \/ UNCHANGED vars
  BY <1>5 DEF SceneInit, Finish, BuildDone, Shutdown, ForceShutdown, ReadEnd, HoldOffStep,
     TaskWait,
     ForceDeferred, QueueEmpty, vars, sqVars
<1> QED  BY <1>1, <1>2, <1>3, <1>4, <1>5 DEF Next, WorkerReport, SceneStep, Ended

\* What a build needs to keep for its success to be true: the requested tasks are not
\* left out, and while nothing has failed the skipped ones stay covered.
KeptInv ==
  /\ active \union runq_complete \subseteq runq_running
  /\ scenequeue_notneeded \intersect rqdata.targets = {}
  /\ (tasks_covered \union Unrun) \intersect CantSkip = {}
  /\ failed_tids = {} =>
       /\ Unrun \intersect Setscene \subseteq scenequeue_covered
       /\ ~holdoff_need_update => tasks_covered \intersect Setscene \subseteq scenequeue_covered

\* What a build that ends relies on.
EndInv ==
  /\ state = "CLEAN_UP" /\ interrupted = 0 => failed_tids # {}
  /\ state = "COMPLETE" => pc \in {"loop", "done"}
  /\ pc = "task" => ~holdoff_need_update
  /\ CompleteIsComplete

\* Steps that lose no cover, or fail.
LEMMA KeptKept ==
  ASSUME KeptInv, UNCHANGED <<rqdata, tasks_covered>>,
         failed_tids \subseteq failed_tids',
         active' \union runq_complete' \subseteq runq_running',
         (scenequeue_notneeded' \ scenequeue_notneeded) \intersect rqdata.targets = {},
         \A d \in Unrun' \ Unrun :
           d \notin CantSkip /\ (failed_tids = {} /\ d \in Setscene => d \in scenequeue_covered'),
         failed_tids' = {} =>
           /\ Unrun \intersect scenequeue_covered \subseteq scenequeue_covered'
           /\ ~holdoff_need_update' =>
                ~holdoff_need_update /\ scenequeue_covered \subseteq scenequeue_covered'
  PROVE  KeptInv'
<1>1. CantSkip' = CantSkip /\ Setscene' = Setscene
  BY DEF CantSkip, Setscene
<1> DEFINE U == Unrun
<1>2. Unrun = U
  OBVIOUS
<1> HIDE DEF U
<1>3. /\ (tasks_covered' \union Unrun') \intersect CantSkip' = {}
  BY <1>1, <1>2 DEF KeptInv
<1>4. failed_tids' = {} => Unrun' \intersect Setscene' \subseteq scenequeue_covered'
  BY <1>1, <1>2 DEF KeptInv
<1> QED  BY <1>1, <1>3, <1>4 DEF KeptInv

\* The preparation completes nothing.
LEMMA KeptStart ==
  ASSUME TypeInv, KeptInv, SceneInit \/ SceneStart
  PROVE  KeptInv'
<1>1. /\ UNCHANGED <<rqdata, tasks_covered, failed_tids, active, runq_complete, runq_running,
                     runq_tasksrun, scenequeue_notneeded>>
      /\ SceneInit => UNCHANGED holdoff_need_update
      /\ SceneStart => holdoff_need_update'
  BY DEF SceneInit, SceneStart, coverVars, runqVars, workVars, hardVars, sqVars
<1>2. scenequeue_covered \subseteq scenequeue_covered'
  <2>1. ~Migrate
    BY DEF SceneInit, SceneStart, Migrate
  <2> QED  BY <2>1, CoverGrows DEF Next
<1>3. Unrun' = Unrun
  BY <1>1 DEF Unrun
<1> QED  BY <1>1, <1>2, <1>3, KeptKept DEF KeptInv

\* The steps of finish(), of the cooker and of a call that starts nothing.
LEMMA KeptQuiet ==
  ASSUME KeptInv,
         Finish \/ BuildDone \/ Shutdown \/ ForceShutdown \/ ReadEnd \/ TaskWait \/ QueueEmpty
         \/ ForceDeferred
  PROVE  KeptInv'
<1>1. /\ UNCHANGED <<rqdata, runqVars, sqVars, hardVars, coverVars>> /\ active' \subseteq active
  BY DEF Finish, BuildDone, Shutdown, ForceShutdown, ReadEnd, TaskWait, QueueEmpty,
     ForceDeferred,
     Quiet, workVars
<1>2. Unrun' = Unrun
  BY <1>1 DEF Unrun, runqVars
<1> QED  BY <1>1, <1>2, KeptKept DEF KeptInv, runqVars, sqVars, hardVars, coverVars

\* A task is skipped only when it counts as covered, which a target without
\* setscene variant never does.
LEMMA KeptTask ==
  ASSUME TypeInv, KeptInv, EndInv, NEW t \in Tasks,
         TaskStep(t) \/ TaskComplete(t) \/ TaskFail(t) \/ (\E h \in Hashes : HashReport(t, h))
  PROVE  KeptInv'
<1>1. /\ UNCHANGED <<rqdata, tasks_covered, scenequeue_notneeded>> /\ failed_tids \subseteq
          failed_tids'
      /\ TaskStep(t) => ~holdoff_need_update /\ UNCHANGED failed_tids
  BY DEF TaskStep, TaskSkip, TaskNoExec, TaskRun, TaskComplete, TaskFail, HashReport,
     Quiet, coverVars,
     hardVars, runqVars, EndInv
<1>2. /\ scenequeue_covered \subseteq scenequeue_covered'
      /\ ~holdoff_need_update' => ~holdoff_need_update
  <2>1. CASE TaskStep(t) \/ TaskComplete(t)
    BY <2>1, TaskEffect
  <2>2. CASE TaskFail(t) \/ (\E h \in Hashes : HashReport(t, h))
    BY <2>2 DEF TaskFail, HashReport, sqVars
  <2> QED  BY <2>1, <2>2
<1>3. /\ active' \union runq_complete' \subseteq runq_running'
      /\ \A d \in Unrun' \ Unrun : d = t /\ TaskStep(t) /\ t \in tasks_covered
  <2>1. CASE TaskSkip(t)
    <3>1. runq_complete' = runq_complete \union {t}
      BY <2>1, TaskEffect DEF TaskStep
    <3> QED  BY <2>1, <3>1 DEF TaskStep, TaskSkip, KeptInv, Unrun, workVars
  <2>2. CASE TaskNoExec(t)
    <3>1. runq_complete' = runq_complete \union {t}
      BY <2>2, TaskEffect DEF TaskStep
    <3> QED  BY <2>2, <3>1 DEF TaskNoExec, KeptInv, Unrun, workVars
  <2>3. CASE TaskRun(t)
    BY <2>3 DEF TaskRun, KeptInv, Unrun
  <2>4. CASE TaskComplete(t)
    <3>1. runq_complete' = runq_complete \union {t}
      BY <2>4, TaskEffect
    <3> QED  BY <2>4, <3>1 DEF TaskComplete, KeptInv, Unrun
  <2>5. CASE TaskFail(t) \/ (\E h \in Hashes : HashReport(t, h))
    BY <2>5 DEF TaskFail, HashReport, KeptInv, Unrun, runqVars, workVars
  <2> QED  BY <2>1, <2>2, <2>3, <2>4, <2>5 DEF TaskStep
<1>4. \A d \in Unrun' \ Unrun :
        d \notin CantSkip /\ (failed_tids = {} /\ d \in Setscene => d \in scenequeue_covered')
  BY <1>1, <1>2, <1>3 DEF KeptInv
<1> QED  BY <1>1, <1>2, <1>3, <1>4, KeptKept

\* Only a setscene task that is not a target is left out.
LEMMA KeptScene ==
  ASSUME TypeInv, KeptInv, NEW t \in Tasks,
         \/ SceneComplete(t) \/ SceneFail(t) \/ SceneNotNeeded(t) \/ SceneReject(t)
         \/ SceneRun(t) \/ SceneHardDefer(t)
  PROVE  KeptInv'
<1>1. UNCHANGED <<rqdata, tasks_covered, runqVars, active>>
  BY DEF SceneComplete, SceneFail, SceneNotNeeded, SceneReject, SceneRun, SceneHardDefer,
     Quiet,
     coverVars, workVars
<1>4. ~holdoff_need_update' => ~holdoff_need_update
  BY DEF SceneComplete, SceneFail, SceneNotNeeded, SceneReject, SceneRun, SceneHardDefer
<1>5. (scenequeue_notneeded' \ scenequeue_notneeded) \intersect rqdata.targets = {}
  <2>1. CASE SceneNotNeeded(t)
    BY <2>1 DEF SceneNotNeeded
  <2>2. CASE ~SceneNotNeeded(t)
    BY <2>2 DEF SceneComplete, SceneFail, SceneReject, SceneRun, SceneHardDefer, hardVars
  <2> QED  BY <2>1, <2>2
<1>2. scenequeue_covered \subseteq scenequeue_covered'
  <2>1. ~Migrate
    BY DEF SceneComplete, SceneFail, SceneNotNeeded, SceneReject, SceneRun, SceneHardDefer,
       Migrate,
       Reading, PassStarts
  <2> QED  BY <2>1, CoverGrows DEF Next, WorkerReport, SceneStep
<1>3. Unrun' = Unrun
  BY <1>1 DEF Unrun, runqVars
<1> QED  BY <1>1, <1>2, <1>3, <1>4, <1>5, KeptKept DEF KeptInv, runqVars

\* A migration that loses what a skipped task relied on is an error.
LEMMA KeptMigrate ==
  ASSUME TypeInv, KeptInv, Migrate PROVE KeptInv'
<1>1. /\ TypeOK /\ SqTyped
      /\ UNCHANGED <<rqdata, tasks_covered, active, runq_running, runq_complete, runq_tasksrun>>
  BY DEF Migrate, Quiet, workVars, TypeInv, SqOK
<1>2. PICK pending \in SUBSET Setscene, touched \in BOOLEAN, stamped \in SUBSET Setscene,
               failed \in SUBSET Setscene :
          MovedWrong(pending) \/ MovedAll(pending, touched, stamped, failed)
  BY <1>1, MigrateIs
<1> DEFINE moved == Moved(pending)
<1>3. moved \intersect runq_running = {}
  BY DEF Moved, Late, TooLate
<1>4. Unrun' = Unrun
  BY <1>1 DEF Unrun
<1> HIDE DEF moved
<1>5. CASE MovedWrong(pending)
  <2>1. scenequeue_notneeded' \subseteq scenequeue_notneeded /\ failed_tids \subseteq failed_tids'
        /\ failed_tids' # {}
    BY <1>5 DEF MovedWrong
  <2> QED  BY <1>1, <1>4, <2>1, KeptKept DEF KeptInv
<1>6. CASE MovedAll(pending, touched, stamped, failed)
  <2>1. /\ moved # {} => touched
        /\ scenequeue_covered' = (scenequeue_covered \ moved) \union stamped
        /\ scenequeue_notneeded' \subseteq scenequeue_notneeded
        /\ failed_tids' = failed_tids
        /\ holdoff_need_update' = (holdoff_need_update \/ touched)
    BY <1>6 DEF MovedAll, moved
  <2>2. Unrun \intersect scenequeue_covered \subseteq scenequeue_covered'
    BY <1>3, <2>1 DEF Unrun, KeptInv
  <2>3. ~holdoff_need_update' =>
           ~holdoff_need_update /\ scenequeue_covered \subseteq scenequeue_covered'
    BY <2>1
  <2> QED  BY <1>1, <1>4, <2>1, <2>2, <2>3, KeptKept DEF KeptInv
<1> QED  BY <1>2, <1>5, <1>6

\* update_holdofftasks(): a target without setscene variant is not covered.
LEMMA KeptHoldOff ==
  ASSUME GraphOfTasks, KeptInv, HoldOffStep PROVE KeptInv'
<1>1. /\ UNCHANGED <<rqdata, sqdata, active, runq_running, runq_complete, runq_tasksrun,
                 scenequeue_covered, scenequeue_notneeded, failed_tids>>
      /\ Setscene' = Setscene /\ CantSkip' = CantSkip /\ UpdateHoldOff /\ sqdata # <<>>
  BY DEF HoldOffStep, Quiet, GraphOfTasks, TypeInv, SqOK, Setscene, CantSkip, workVars,
     hardVars
<1>2. Unrun' = Unrun
  BY <1>1 DEF Unrun
<1>3. CASE ~holdoff_need_update
  <2>1. UNCHANGED <<tasks_covered, holdoff_need_update>>
    BY <1>1, <1>3 DEF UpdateHoldOff
  <2> QED  BY <1>1, <1>2, <2>1, KeptKept DEF KeptInv
<1>4. CASE holdoff_need_update
  <2>1. tasks_covered' = Covered
    BY <1>1, <1>4 DEF UpdateHoldOff
  <2>2. Covered \intersect CantSkip = {}
    BY DEF Covered, NotCovered
  <2>3. Covered \intersect Setscene \subseteq scenequeue_covered
    BY <1>1, GraphSays DEF Covered, GraphOfTasks, TypeInv, TypeOK
  <2> QED  BY <1>1, <1>2, <2>1, <2>2, <2>3 DEF KeptInv
<1> QED  BY <1>3, <1>4

\* Every step keeps what the end relies on.
LEMMA EndNext ==
  ASSUME TypeInv, KeptInv, EndInv, [Next]_vars PROVE EndInv'
<1>1. CASE UNCHANGED vars
  BY <1>1 DEF vars, runqVars, sqVars, hardVars, EndInv, CompleteIsComplete
<1>2. CASE QueueEmpty
  <2>1. /\ UNCHANGED <<rqdata, interrupted, failed_tids, runq_complete, runq_tasksrun,
            scenequeue_covered,
                   scenequeue_notneeded, holdoff_need_update>>
        /\ state' \in {"FAILED", "COMPLETE"} /\ pc' = "loop"
    BY <1>2 DEF QueueEmpty, Quiet, runqVars, sqVars, hardVars
  <2>2. ASSUME state' = "COMPLETE"
        PROVE  /\ Tasks \subseteq runq_complete
               /\ rqdata.targets \subseteq
                   runq_tasksrun \union (scenequeue_covered \ scenequeue_notneeded)
    <3>1. failed_tids = {} /\ Tasks \subseteq runq_complete
      BY <1>2, <2>2 DEF QueueEmpty
    <3>2. rqdata.targets \subseteq Tasks
      BY IsBuild DEF TypeInv, TypeOK, BuildOK
    <3>3. ASSUME NEW t \in rqdata.targets, t \notin runq_tasksrun
          PROVE  t \in scenequeue_covered \ scenequeue_notneeded
      <4>1. t \in Unrun
        BY <3>1, <3>2, <3>3 DEF Unrun
      <4>2. t \in Setscene
        BY <4>1 DEF KeptInv, CantSkip
      <4> QED  BY <3>1, <4>1, <4>2 DEF KeptInv
    <3> QED  BY <3>1, <3>3
  <2> QED  BY <2>1, <2>2 DEF EndInv, CompleteIsComplete
<1>3. CASE \/ SceneInit \/ SceneStart \/ Finish \/ BuildDone \/ Shutdown \/ ForceShutdown \/ ReadEnd
           \/ Migrate \/ HoldOffStep \/ TaskWait \/ ForceDeferred
  <2>1. CASE SceneInit \/ SceneStart
    BY <2>1 DEF SceneInit, SceneStart, EndInv, CompleteIsComplete
  <2>2. CASE Finish \/ Shutdown \/ ForceShutdown
    BY <2>2 DEF Finish, Shutdown, ForceShutdown, Finished, EndInv, CompleteIsComplete,
       Quiet, runqVars,
       sqVars, hardVars
  <2>3. CASE BuildDone
    BY <2>3 DEF BuildDone, EndInv, CompleteIsComplete, Quiet, runqVars, sqVars, hardVars
  <2>4. CASE ReadEnd \/ TaskWait \/ ForceDeferred
    BY <2>4 DEF ReadEnd, PassStarts, TaskWait, ForceDeferred, EndInv, CompleteIsComplete,
       Quiet, runqVars
  <2>5. CASE Migrate
    <3>1. TypeOK /\ SqTyped /\ state # "COMPLETE" /\ pc' = "setscene" /\ UNCHANGED interrupted
      BY <2>5 DEF Migrate, Quiet, TypeInv, SqOK, EndInv
    <3>2. PICK pending \in SUBSET Setscene, touched \in BOOLEAN, stamped \in SUBSET Setscene,
                   failed \in SUBSET Setscene :
              MovedWrong(pending) \/ MovedAll(pending, touched, stamped, failed)
      BY <2>5, <3>1, MigrateIs
    <3>3. (state' = "CLEAN_UP" /\ failed_tids' # {}) \/ (state' = state /\ failed_tids' = failed_tids)
      BY <3>2 DEF MovedWrong, MovedAll
    <3> QED  BY <3>1, <3>3 DEF EndInv, CompleteIsComplete
  <2>6. CASE HoldOffStep
    <3>1. /\ UNCHANGED <<interrupted, failed_tids>> /\ state # "COMPLETE" /\ UpdateHoldOff
          /\ state' = state \/ state' = "FAILED"
      BY <2>6 DEF HoldOffStep, Quiet, EndInv
    <3>2. ~holdoff_need_update'
      BY <3>1 DEF UpdateHoldOff, TypeInv, TypeOK
    <3> QED  BY <3>1, <3>2 DEF EndInv, CompleteIsComplete
  <2> QED  BY <1>3, <2>1, <2>2, <2>3, <2>4, <2>5, <2>6
<1>4. ASSUME NEW t \in Tasks, WorkerReport(t) \/ SceneStep(t) \/ TaskStep(t)
      PROVE  EndInv'
  <2>1. /\ UNCHANGED interrupted /\ pc' # "task" /\ state # "COMPLETE"
        /\ failed_tids \subseteq failed_tids'
        /\ state' = state \/ (state' = "CLEAN_UP" /\ failed_tids' # {})
    <3>1. CASE WorkerReport(t)
      BY <3>1 DEF WorkerReport, TaskComplete, TaskFail, SceneComplete, SceneFail,
         HashReport, Quiet,
         AfterRead, Reading, PassStarts, runqVars, EndInv
    <3>2. CASE SceneStep(t)
      BY <3>2 DEF SceneStep, SceneNotNeeded, SceneHardDefer, SceneReject, SceneRun, Quiet,
         runqVars,
         EndInv
    <3>3. CASE TaskStep(t)
      BY <3>3 DEF TaskStep, TaskSkip, TaskNoExec, TaskRun, Quiet, EndInv
    <3> QED  BY <1>4, <3>1, <3>2, <3>3
  <2> QED  BY <2>1 DEF EndInv, CompleteIsComplete
<1> QED  BY <1>1, <1>2, <1>3, <1>4 DEF Next, Ended

\* Every step keeps the cover.
LEMMA KeptNext ==
  ASSUME GraphOfTasks, KeptInv, EndInv, [Next]_vars PROVE KeptInv'
<1> TypeInv
  BY DEF GraphOfTasks
<1>1. CASE UNCHANGED vars
  BY <1>1 DEF vars, workVars, runqVars, sqVars, hardVars, coverVars, KeptInv, Unrun,
     CantSkip, Setscene
<1>2. CASE SceneInit \/ SceneStart
  BY <1>2, KeptStart
<1>3. CASE Finish \/ BuildDone \/ Shutdown \/ ForceShutdown \/ ReadEnd \/ TaskWait \/ QueueEmpty
         \/ ForceDeferred
  BY <1>3, KeptQuiet
<1>4. CASE Migrate
  BY <1>4, KeptMigrate
<1>5. CASE HoldOffStep
  BY <1>5, KeptHoldOff
<1>6. ASSUME NEW t \in Tasks, WorkerReport(t) \/ SceneStep(t) \/ TaskStep(t)
      PROVE  KeptInv'
  BY <1>6, KeptTask, KeptScene DEF WorkerReport, SceneStep
<1> QED  BY <1>1, <1>2, <1>3, <1>4, <1>5, <1>6 DEF Next, Ended

\* The invariants together.
SuccessInv == GraphOfTasks /\ KeptInv /\ EndInv

\* They hold of every state.
LEMMA SuccessInvHolds == Spec => []SuccessInv
<1>1. Init => SuccessInv
  <2> SUFFICES ASSUME Init PROVE SuccessInv
    OBVIOUS
  <2>1. GraphOfTasks
    BY TypeInit DEF Init, Collapsed, GraphOfTasks
  <2>2. KeptInv /\ EndInv
    BY DEF Init, KeptInv, EndInv, CompleteIsComplete, Unrun
  <2> QED  BY <2>1, <2>2 DEF SuccessInv
<1>2. SuccessInv /\ [Next]_vars => SuccessInv'
  <2> SUFFICES ASSUME SuccessInv, [Next]_vars PROVE SuccessInv'
    OBVIOUS
  <2>1. TypeInv' /\ Collapsed'
    BY TypeNext, CollapsedNext DEF SuccessInv, GraphOfTasks
  <2>2. KeptInv' /\ EndInv'
    BY KeptNext, EndNext DEF SuccessInv, GraphOfTasks
  <2> QED  BY <2>1, <2>2 DEF SuccessInv, GraphOfTasks
<1> QED  BY <1>1, <1>2, PTL DEF Spec

\* A build that reports success has finished every task, and what was asked for
\* has run or is there: for every build, hard dependencies and stamps included.
THEOREM SuccessIsComplete == Spec => []CompleteIsComplete
<1>1. SuccessInv => CompleteIsComplete
  BY DEF SuccessInv, EndInv
<1> QED  BY <1>1, SuccessInvHolds, PTL

\* The bookkeeping of the setscene tasks is in order but for x: what is handled has
\* been started, and is done; a task whose dependents are handled may start; and one
\* that was put off waits for one that is not handled.
OrderlyBut(q, x) ==
  /\ q.covered \union q.notcovered \subseteq q.running \intersect q.buildable
  /\ \A n \in Setscene \ (q.covered \union q.notcovered \union x) :
       SqRevdeps(n) \subseteq q.covered \union q.notcovered => n \in q.buildable
  /\ q.covered \union q.notcovered \union (sqdata.unskippable \ Setscene) \subseteq q.done
  /\ Closed(q.done)
  /\ \A n \in q.harddeferred : ~(rqdata.hard[n] \subseteq q.covered \union q.notcovered)

Orderly(q) == OrderlyBut(q, {})

\* scenequeue_updatecounters() restores the order once tasks are marked.
LEMMA CountedOrderly ==
  ASSUME BuildOK, SqTyped, NEW x, NEW p, OrderlyBut(p, x), NEW q \in SceneSet,
         NEW ts \in SUBSET Setscene,
         q.covered \union q.notcovered = p.covered \union p.notcovered \union ts,
         p.running \subseteq q.running, p.buildable \subseteq q.buildable,
         ts \subseteq q.running \intersect q.buildable, q.done = p.done,
         q.harddeferred = p.harddeferred
  PROVE  OrderlyBut(Counted(q, ts), x \ ts)
<1> DEFINE handled == q.covered \union q.notcovered
           b == q.buildable \union {d \in UNION {SqDeps(t) : t \in ts} :
               SqRevdeps(d) \subseteq handled}
           hd == IF \E t \in ts : HardDependents(t) # {}
                 THEN {d \in q.harddeferred : ~(rqdata.hard[d] \subseteq handled)}
                 ELSE q.harddeferred
           c == Counted(q, ts)
<1>1. /\ c.covered = q.covered /\ c.notcovered = q.notcovered /\ c.running = q.running
      /\ c.buildable = b /\ c.done = DoneWalk(q.done, ts) /\ c.harddeferred = hd
  <2> DEFINE w == DoneWalk(q.done, ts)
  <2>1. c = [q EXCEPT !.buildable = b, !.done = w, !.harddeferred = hd]
    BY DEF Counted
  <2> HIDE DEF b, w, hd, c
  <2>2. /\ c.covered = q.covered /\ c.notcovered = q.notcovered /\ c.running = q.running
        /\ c.buildable = b /\ c.done = w /\ c.harddeferred = hd
    BY <2>1 DEF SceneSet
  <2> QED  BY <2>2 DEF w
<1> HIDE DEF c
<1>2. \A n \in Setscene \ (handled \union (x \ ts)) : SqRevdeps(n) \subseteq handled => n \in b
  <2> SUFFICES ASSUME NEW n \in Setscene \ (handled \union (x \ ts)), SqRevdeps(n) \subseteq handled
               PROVE  n \in b
    OBVIOUS
  <2>1. CASE SqRevdeps(n) \intersect ts = {}
    <3>1. n \in Setscene \ (p.covered \union p.notcovered \union x)
          /\ SqRevdeps(n) \subseteq p.covered \union p.notcovered
      BY <2>1
    <3> QED  BY <3>1 DEF OrderlyBut
  <2>2. CASE SqRevdeps(n) \intersect ts # {}
    <3>1. PICK t \in ts : n \in SqDeps(t)
      BY <2>2 DEF SqDeps
    <3>2. n \in UNION {SqDeps(u) : u \in ts}
      BY <3>1
    <3> QED  BY <3>2
  <2> QED  BY <2>1, <2>2
<1>3. handled \subseteq q.running \intersect b
  BY DEF OrderlyBut
<1>4. /\ handled \union (sqdata.unskippable \ Setscene) \subseteq DoneWalk(q.done, ts)
      /\ Closed(DoneWalk(q.done, ts))
  <2>1. q.done \in SUBSET Tasks /\ ts \in SUBSET Tasks
    BY DEF SceneSet, BuildOK, Setscene
  <2>2. q.done \union ts \subseteq DoneWalk(q.done, ts) /\ Closed(DoneWalk(q.done, ts))
    BY <2>1, DoneWalkIs DEF OrderlyBut
  <2> QED  BY <2>2 DEF OrderlyBut
<1>5. \A n \in hd : ~(rqdata.hard[n] \subseteq handled)
  <2>1. CASE \E t \in ts : HardDependents(t) # {}
    BY <2>1
  <2>2. CASE \A t \in ts : HardDependents(t) = {}
    <3> SUFFICES ASSUME NEW n \in q.harddeferred, rqdata.hard[n] \subseteq handled PROVE FALSE
      BY <2>2
    <3>1. n \in Setscene
      BY DEF SceneSet
    <3>2. rqdata.hard[n] \intersect ts = {}
      BY <2>2, <3>1 DEF HardDependents
    <3>3. rqdata.hard[n] \subseteq p.covered \union p.notcovered
      BY <3>2
    <3> QED  BY <3>3 DEF OrderlyBut
  <2> QED  BY <2>1, <2>2
<1> HIDE DEF b, hd
<1>6. OrderlyBut(c, x \ ts)
  BY <1>1, <1>2, <1>3, <1>4, <1>5 DEF OrderlyBut
<1> QED  BY <1>6 DEF c

\* sq_task_skip() keeps the order.
LEMMA SkippedOrderly ==
  ASSUME BuildOK, SqTyped, NEW x, NEW q \in SceneSet, OrderlyBut(q, x), NEW ts \in SUBSET Setscene
  PROVE  OrderlyBut(SkippedScene(q, ts), x \ ts)
<1> DEFINE q1 == [q EXCEPT !.running = @ \union ts, !.buildable = @ \union ts]
           q2 == [q1 EXCEPT !.covered = @ \union ts]
<1>1. SkippedScene(q, ts) = Counted(q2, ts)
  BY DEF SkippedScene, CompletedScene
<1>2. /\ q2 \in SceneSet
      /\ q2.covered = q.covered \union ts /\ q2.notcovered = q.notcovered
      /\ q2.running = q.running \union ts /\ q2.buildable = q.buildable \union ts
      /\ q2.done = q.done /\ q2.harddeferred = q.harddeferred
  BY DEF SceneSet
<1> HIDE DEF q2
<1>3. OrderlyBut(Counted(q2, ts), x \ ts)
  BY <1>2, CountedOrderly
<1> QED  BY <1>1, <1>3

\* The same of an order without exceptions.
LEMMA SkippedInOrder ==
  ASSUME BuildOK, SqTyped, NEW q \in SceneSet, Orderly(q), NEW ts \in SUBSET Setscene
  PROVE  Orderly(SkippedScene(q, ts))
<1>1. OrderlyBut(SkippedScene(q, ts), {} \ ts)
  BY SkippedOrderly DEF Orderly
<1> QED  BY <1>1 DEF Orderly

\* sq_task_completeoutright() keeps it.
LEMMA CompletedOrderly ==
  ASSUME BuildOK, SqTyped, NEW q \in SceneSet, Orderly(q), NEW ts \in SUBSET Setscene,
         ts \subseteq q.running \intersect q.buildable
  PROVE  Orderly(CompletedScene(q, ts))
<1> DEFINE q2 == [q EXCEPT !.covered = @ \union ts]
<1>1. CompletedScene(q, ts) = Counted(q2, ts)
  BY DEF CompletedScene
<1>2. /\ q2 \in SceneSet
      /\ q2.covered = q.covered \union ts /\ q2.notcovered = q.notcovered
      /\ q2.running = q.running /\ q2.buildable = q.buildable /\ q2.done = q.done
      /\ q2.harddeferred = q.harddeferred
  BY DEF SceneSet
<1> HIDE DEF q2
<1>3. OrderlyBut(Counted(q2, ts), {} \ ts)
  BY <1>2, CountedOrderly DEF Orderly
<1> QED  BY <1>1, <1>3 DEF Orderly

\* sq_task_failoutright() keeps it, and restores it for the tasks that fail.
LEMMA FailedOutrightOrderly ==
  ASSUME BuildOK, SqTyped, NEW q \in SceneSet, NEW ts \in SUBSET Setscene, NEW stamped,
         NEW x, x \subseteq ts, OrderlyBut(q, x)
  PROVE  Orderly(FailedOutright(q, ts, stamped))
<1> DEFINE all == FailsWith(q, ts, stamped)
           q2 == [q EXCEPT !.notcovered = @ \union all, !.running = @ \union all,
                           !.buildable = @ \union all]
<1>1. FailedOutright(q, ts, stamped) = Counted(q2, all)
  BY DEF FailedOutright
<1>2. all \in SUBSET Setscene /\ ts \subseteq all
  BY FailsWithIs
<1> HIDE DEF all
<1>3. /\ q2 \in SceneSet
      /\ q2.covered = q.covered /\ q2.notcovered = q.notcovered \union all
      /\ q2.running = q.running \union all /\ q2.buildable = q.buildable \union all
      /\ q2.done = q.done /\ q2.harddeferred = q.harddeferred
  BY <1>2 DEF SceneSet
<1> HIDE DEF q2
<1>4. OrderlyBut(Counted(q2, all), x \ all)
  BY <1>2, <1>3, CountedOrderly
<1>5. x \ all = {}
  BY <1>2
<1> QED  BY <1>1, <1>4, <1>5 DEF Orderly

\* sq_task_fail() keeps it.
LEMMA FailedOrderly ==
  ASSUME BuildOK, SqTyped, NEW q \in SceneSet, Orderly(q), NEW t \in Setscene,
         t \in q.running \intersect q.buildable, NEW stamped
  PROVE  Orderly(FailedScene(q, t, stamped))
<1> DEFINE all == FailsWith(q, {t}, stamped)
           q2 == [q EXCEPT !.notcovered = @ \union all, !.running = @ \union (all \ {t}),
                           !.buildable = @ \union (all \ {t})]
<1>1. FailedScene(q, t, stamped) = Counted(q2, all)
  BY DEF FailedScene
<1>2. all \in SUBSET Setscene
  BY FailsWithIs
<1> HIDE DEF all
<1>3. /\ q2 \in SceneSet
      /\ q2.covered = q.covered /\ q2.notcovered = q.notcovered \union all
      /\ q2.running = q.running \union (all \ {t}) /\ q2.buildable = q.buildable \union (all \ {t})
      /\ q2.done = q.done /\ q2.harddeferred = q.harddeferred
  BY <1>2 DEF SceneSet
<1> HIDE DEF q2
<1>4. all \subseteq q2.running \intersect q2.buildable
  BY <1>3
<1>5. OrderlyBut(Counted(q2, all), {} \ all)
  BY <1>2, <1>3, <1>4, CountedOrderly DEF Orderly
<1> QED  BY <1>1, <1>5 DEF Orderly

\* The tasks that others were put off for may be started.
NeededInv ==
  /\ state = "SCENE_INIT" => sq_harddep_deferred = {} /\ sq_needed_harddeps = {}
  /\ \A n \in sq_harddep_deferred : rqdata.hard[n] \subseteq sq_needed_harddeps
  /\ sq_needed_harddeps \subseteq sq_buildable

\* The bookkeeping is in order once the build has started; what is started
\* runs, until the workers are torn down, or is handled; and the setscene part
\* ends with every setscene task handled.
QueueInv ==
  /\ state # "SCENE_INIT" => Orderly(Scene)
  /\ pc # "done" => sq_running \subseteq sq_live \union Handled
  /\ sq_live \subseteq sq_buildable
  /\ NeededInv
  /\ sqdone => Setscene \subseteq Handled

\* NeededInv is kept while nothing is put off.
LEMMA NeededKept ==
  ASSUME NeededInv, UNCHANGED <<rqdata, sq_needed_harddeps>>, sq_buildable \subseteq sq_buildable',
         sq_harddep_deferred' \subseteq sq_harddep_deferred,
         state' = "SCENE_INIT" => state = "SCENE_INIT"
  PROVE  NeededInv'
BY DEF NeededInv

\* The order does not depend on the rest of the state.
LEMMA OrderlyKept ==
  ASSUME Orderly(Scene), UNCHANGED <<rqdata, sqdata, sqVars>> PROVE Orderly(Scene)'
BY DEF Orderly, OrderlyBut, Scene, sqVars, Closed, Setscene, SqRevdeps, Revdeps, Depends

\* It holds of the state after a step that sets the bookkeeping from a record.
LEMMA BecomesOrderly ==
  ASSUME UNCHANGED <<rqdata, sqdata>>, NEW q, Orderly(q), SceneBecomes(q) PROVE Orderly(Scene)'
BY DEF Orderly, OrderlyBut, Scene, SceneBecomes, Closed, Setscene, SqRevdeps, Revdeps, Depends

\* task_completeoutright() keeps it.
LEMMA OutrightOrderly ==
  ASSUME TypeOK, SqTyped, Orderly(Scene), UNCHANGED <<rqdata, sqdata>>,
         NEW t, NEW buildable, CompleteOutright(t, buildable)
  PROVE  Orderly(Scene)'
<1> DEFINE waiting == {u \in DOMAIN sq_deferred : sq_deferred[u] = t}
           first == CHOOSE u \in waiting : \A w \in waiting : u <= w
           present == {first} \intersect SceneStamped
<1>1. CASE waiting = {}
  <2>1. UNCHANGED sqVars
    BY <1>1 DEF CompleteOutright
  <2> QED  BY <2>1, OrderlyKept
<1>2. CASE waiting # {}
  <2>1. SceneBecomes(SkippedScene(Scene, present))
    BY <1>2 DEF CompleteOutright
  <2>2. present \in SUBSET Setscene
    BY DEF SceneStamped
  <2> HIDE DEF present
  <2>3. Orderly(SkippedScene(Scene, present))
    BY <2>2, SkippedInOrder, SceneTyped, IsBuild DEF TypeOK
  <2> QED  BY <2>1, <2>3, BecomesOrderly
<1> QED  BY <1>1, <1>2

\* The preparation puts the bookkeeping in order.
LEMMA QueueStart ==
  ASSUME GraphOfTasks, WorkInv, QueueInv, SceneInit \/ SceneStart PROVE QueueInv'
<1>1. CASE SceneInit
  <2>1. /\ UNCHANGED <<rqdata, state, pc, workVars, sqVars, coverVars, hardVars>>
        /\ state = "SCENE_INIT"
    BY <1>1 DEF SceneInit
  <2> QED  BY <2>1 DEF QueueInv, NeededInv, workVars, sqVars, coverVars, hardVars, Handled, Setscene
<1>2. CASE SceneStart
  <2> DEFINE q == [Scene EXCEPT !.buildable = {s \in Setscene : SqRevdeps(s) = {}},
                                !.done = sqdata.unskippable \ Setscene]
             skipped == SkippedScene(q, SceneStamped)
  <2>1. /\ SceneBecomes(skipped) /\ SqTyped /\ BuildOK /\ TypeOK /\ Setscene \subseteq Tasks
        /\ state = "SCENE_INIT" /\ state' # "SCENE_INIT" /\ sq_needed_harddeps' = sq_needed_harddeps
        /\ UNCHANGED <<rqdata, sqdata, pc,
            sq_live>> /\ Setscene' = Setscene /\ Handled = {} /\ sq_live = {}
        /\ sqdata.unskippable = Unskippable /\ pc = "loop" /\ (sqdone' => Setscene = {})
    BY <1>2, IsBuild DEF SceneStart, GraphOfTasks, Collapsed, TypeInv, TypeOK, SqOK,
       Setscene, WorkInv,
       LiveInv, workVars, hardVars
  <2>2. /\ q \in SceneSet /\ q.covered = {} /\ q.notcovered = {} /\ q.running = {}
        /\ q.harddeferred = {}
        /\ q.buildable = {s \in Setscene : SqRevdeps(s) = {}} /\ q.done = Unskippable \ Setscene
    <3>1. /\ Scene \in SceneSet /\ Scene.covered = {} /\ Scene.notcovered = {} /\ Scene.running = {}
          /\ Scene.harddeferred = {}
      BY <2>1, SceneTyped DEF Scene, Handled, QueueInv, NeededInv
    <3>2. {s \in Setscene : SqRevdeps(s) = {}} \subseteq
              Setscene /\ Unskippable \ Setscene \subseteq Tasks
      BY <2>1 DEF SqTyped
    <3> DEFINE S == Scene
               b == {s \in Setscene : SqRevdeps(s) = {}}
               u == Unskippable \ Setscene
    <3>3. S \in SceneSet /\ q = [S EXCEPT !.buildable = b, !.done = u]
      BY <2>1, <3>1
    <3> HIDE DEF S, b, u, q
    <3>4. /\ q \in SceneSet /\ q.covered = S.covered /\ q.notcovered = S.notcovered
          /\ q.running = S.running /\ q.harddeferred = S.harddeferred
          /\ q.buildable = b /\ q.done = u
      BY <3>2, <3>3 DEF SceneSet, b, u
    <3> QED  BY <3>1, <3>4 DEF S, b, u
  <2>3. Closed(Unskippable \ Setscene)
    <3> SUFFICES ASSUME NEW t \in Tasks \ Setscene, Revdeps(t) \subseteq Unskippable \ Setscene
                 PROVE  t \in Unskippable
      BY DEF Closed
    <3>1. CASE Revdeps(t) = {}
      BY <2>1, <3>1, UnskippableIs
    <3>2. CASE Revdeps(t) # {}
      <4>1. PICK r \in Unskippable \ Setscene : t \in Depends(r)
        BY <3>2 DEF Revdeps
      <4> QED  BY <2>1, <4>1, UnskippableIs
    <3> QED  BY <3>1, <3>2
  <2> HIDE DEF q
  <2>4. Orderly(q)
    BY <2>1, <2>2, <2>3 DEF Orderly, OrderlyBut
  <2>5. SceneStamped \in SUBSET Setscene
    BY DEF SceneStamped
  <2>6. Orderly(skipped)
    BY <2>1, <2>2, <2>4, <2>5, SkippedInOrder
  <2>7. /\ skipped.covered = SceneStamped /\ skipped.notcovered = {}
        /\ skipped.running = SceneStamped /\ skipped.harddeferred \subseteq {}
    <3>1. /\ skipped.covered = q.covered \union SceneStamped /\ skipped.notcovered = q.notcovered
          /\ skipped.running = q.running \union SceneStamped
          /\ skipped.harddeferred \subseteq q.harddeferred
      BY <2>1, <2>2, <2>5, SkippedIs
    <3> HIDE DEF skipped
    <3> QED  BY <2>2, <3>1
  <2> HIDE DEF skipped
  <2>8. Orderly(Scene)'
    BY <2>1, <2>6, BecomesOrderly
  <2>9. /\ sq_running' = SceneStamped /\ Handled' = SceneStamped /\ sq_harddep_deferred' = {}
    BY <2>1, <2>7 DEF SceneBecomes, Handled
  <2>10. NeededInv'
    BY <2>1, <2>9 DEF QueueInv, NeededInv
  <2> QED  BY <2>1, <2>8, <2>9, <2>10 DEF QueueInv
<1> QED  BY <1>1, <1>2

\* The steps of finish(), of the cooker and of a call that starts nothing.
LEMMA QueueQuiet ==
  ASSUME TypeInv, QueueInv,
         Finish \/ BuildDone \/ Shutdown \/ ForceShutdown \/ ReadEnd \/ TaskWait \/ QueueEmpty
         \/ ForceDeferred
  PROVE  QueueInv'
<1>1. /\ UNCHANGED <<rqdata, sqdata, sqVars, coverVars, hardVars>> /\ state # "SCENE_INIT"
      /\ state' # "SCENE_INIT"
      /\ sq_live' \subseteq sq_live /\ (pc' # "done" => pc # "done" /\ sq_live' = sq_live)
  BY DEF Finish, BuildDone, Shutdown, ForceShutdown, ReadEnd, TaskWait, QueueEmpty,
     ForceDeferred, Finished,
     Quiet, workVars, PassStarts, TypeInv, SqOK
<1>2. Orderly(Scene)'
  BY <1>1, OrderlyKept DEF QueueInv
<1>3. NeededInv'
  BY <1>1, NeededKept DEF QueueInv, sqVars, hardVars
<1> QED  BY <1>1, <1>2, <1>3 DEF QueueInv, sqVars, coverVars, Handled, Setscene

\* The steps of real tasks.
LEMMA QueueTask ==
  ASSUME TypeInv, QueueInv, NEW t \in Tasks,
         TaskStep(t) \/ TaskComplete(t) \/ TaskFail(t) \/ (\E h \in Hashes : HashReport(t, h))
  PROVE  QueueInv'
<1>1. /\ UNCHANGED <<rqdata, sqdata, sq_live, sqdone, sq_needed_harddeps>>
      /\ state # "SCENE_INIT" /\ state' # "SCENE_INIT" /\ pc # "done"
  BY DEF TaskStep, TaskSkip, TaskNoExec, TaskRun, TaskComplete, TaskFail, HashReport,
     Quiet, coverVars, hardVars,
     workVars, Reading, PassStarts, TypeInv, SqOK
<1>2. CASE TaskSkip(t) \/ TaskNoExec(t) \/ TaskComplete(t)
  <2>1. \E buildable \in SUBSET Tasks : CompleteOutright(t, buildable)
    BY <1>2 DEF TaskSkip, TaskNoExec, TaskComplete, TypeInv, TypeOK
  <2>2. PICK buildable \in SUBSET Tasks : CompleteOutright(t, buildable)
    BY <2>1
  <2>3. TypeOK /\ SqTyped
    BY <1>1 DEF TypeInv, SqOK
  <2>4. Orderly(Scene)'
    BY <1>1, <2>2, <2>3, OutrightOrderly DEF QueueInv
  <2>5. sq_buildable \subseteq sq_buildable' /\ sq_harddep_deferred' \subseteq sq_harddep_deferred
    BY <1>1, <2>2, <2>3, CompleteOutrightIs
  <2>6. PICK stamped \in SUBSET Setscene :
              /\ sq_running' = sq_running \union stamped
              /\ scenequeue_covered' = scenequeue_covered \union stamped
              /\ scenequeue_notcovered' = scenequeue_notcovered
    BY <1>2, TaskEffect DEF TaskStep
  <2>7. Handled' = Handled \union stamped /\ Setscene' = Setscene
    BY <1>1, <2>6 DEF Handled, Setscene
  <2>8. NeededInv'
    BY <1>1, <2>5, NeededKept DEF QueueInv
  <2> QED  BY <1>1, <2>4, <2>5, <2>6, <2>7, <2>8 DEF QueueInv
<1>3. CASE TaskRun(t) \/ TaskFail(t) \/ (\E h \in Hashes : HashReport(t, h))
  <2>1. UNCHANGED sqVars
    BY <1>3 DEF TaskRun, TaskFail, HashReport
  <2>2. Orderly(Scene)'
    BY <1>1, <2>1, OrderlyKept DEF QueueInv
  <2>3. NeededInv'
    BY <1>1, <2>1, NeededKept DEF QueueInv, sqVars
  <2> QED  BY <1>1, <2>1, <2>2, <2>3 DEF QueueInv, sqVars, Handled, Setscene
<1> QED  BY <1>2, <1>3 DEF TaskStep

\* The steps of setscene tasks.
LEMMA QueueScene ==
  ASSUME TypeInv, WorkInv, QueueInv, NEW t \in Tasks,
         \/ SceneComplete(t) \/ SceneFail(t) \/ SceneNotNeeded(t) \/ SceneReject(t)
         \/ SceneRun(t) \/ SceneHardDefer(t)
  PROVE  QueueInv'
<1>1. /\ UNCHANGED <<rqdata, sqdata, sqdone>> /\ pc # "done"
      /\ state # "SCENE_INIT" /\ state' # "SCENE_INIT"
      /\ Setscene' = Setscene /\ BuildOK /\ TypeOK /\ SqTyped
      /\ Scene \in SceneSet /\ Scene.covered = scenequeue_covered /\ Scene.notcovered = scenequeue_notcovered
      /\ Scene.running = sq_running /\ Scene.buildable = sq_buildable
      /\ Scene.harddeferred = sq_harddep_deferred
  BY IsBuild, SceneTyped
     DEF SceneComplete, SceneFail, SceneNotNeeded, SceneReject, SceneRun, SceneHardDefer,
             Quiet, coverVars,
     Reading, PassStarts, TypeInv, TypeOK, SqOK, Scene, Setscene, QueueInv
<1>2. /\ t \in Setscene
      /\ (SceneComplete(t) \/ SceneFail(t) \/ SceneNotNeeded(t) \/ SceneReject(t) \/ SceneRun(t))
         => sq_needed_harddeps' = sq_needed_harddeps
  BY DEF SceneComplete, SceneFail, SceneNotNeeded, SceneReject, SceneRun, SceneHardDefer,
     SceneCandidates, hardVars, TypeInv, TypeOK
<1>3. Orderly(Scene)
  BY <1>1 DEF QueueInv
<1>4. CASE SceneComplete(t)
  <2> DEFINE c == CompletedScene(Scene, {t})
  <2>1. t \in Scene.running \intersect Scene.buildable
    BY <1>1, <1>4 DEF SceneComplete, QueueInv, WorkInv, LiveInv
  <2>2. Orderly(c)
    BY <1>1, <1>2, <1>3, <2>1, CompletedOrderly
  <2>3. /\ c.covered = scenequeue_covered \union {t} /\ c.notcovered = scenequeue_notcovered
        /\ c.running = sq_running /\ sq_buildable \subseteq
            c.buildable /\ c.harddeferred \subseteq sq_harddep_deferred
    BY <1>1, <1>2, CompletedIs
  <2>4. SceneBecomes(c) /\ sq_live' = sq_live \ {t}
    BY <1>4 DEF SceneComplete
  <2> HIDE DEF c
  <2>5. Orderly(Scene)'
    BY <1>1, <2>2, <2>4, BecomesOrderly
  <2>6. sq_buildable \subseteq sq_buildable' /\ sq_harddep_deferred' \subseteq sq_harddep_deferred
    BY <1>1, <2>3, <2>4 DEF SceneBecomes
  <2>7. NeededInv'
    BY <1>1, <1>2, <1>4, <2>6, NeededKept DEF QueueInv
  <2> QED  BY <1>1, <2>3, <2>4, <2>5, <2>7 DEF QueueInv, SceneBecomes, Handled
<1>5. CASE SceneNotNeeded(t)
  <2> DEFINE c == SkippedScene(Scene, {t})
  <2>2. Orderly(c)
    BY <1>1, <1>2, <1>3, SkippedInOrder
  <2>3. /\ c.covered = scenequeue_covered \union {t} /\ c.notcovered = scenequeue_notcovered
        /\ c.running = sq_running \union {t} /\ sq_buildable \subseteq c.buildable
        /\ c.harddeferred \subseteq sq_harddep_deferred
    BY <1>1, <1>2, SkippedIs
  <2>4. SceneBecomes(c) /\ sq_live' = sq_live
    BY <1>5 DEF SceneNotNeeded, workVars
  <2> HIDE DEF c
  <2>5. Orderly(Scene)'
    BY <1>1, <2>2, <2>4, BecomesOrderly
  <2>6. sq_buildable \subseteq sq_buildable' /\ sq_harddep_deferred' \subseteq sq_harddep_deferred
    BY <1>1, <2>3, <2>4 DEF SceneBecomes
  <2>7. NeededInv'
    BY <1>1, <1>2, <1>5, <2>6, NeededKept DEF QueueInv
  <2> QED  BY <1>1, <2>3, <2>4, <2>5, <2>7 DEF QueueInv, SceneBecomes, Handled
<1>6. CASE SceneFail(t)
  <2> DEFINE c == FailedScene(Scene, t, SceneStamped)
             all == FailsWith(Scene, {t}, SceneStamped)
  <2>1. t \in Scene.running \intersect Scene.buildable
    BY <1>1, <1>6 DEF SceneFail, QueueInv, WorkInv, LiveInv
  <2>2. Orderly(c)
    BY <1>1, <1>2, <1>3, <2>1, FailedOrderly
  <2>3. /\ Marked(c, Scene, all, all \ {t})
        /\ sq_buildable \subseteq c.buildable /\ c.harddeferred \subseteq sq_harddep_deferred
    BY <1>1, <1>2, FailedIs
  <2>4. SceneBecomes(c) /\ sq_live' = sq_live \ {t}
    BY <1>6 DEF SceneFail
  <2>5. t \in all
    BY <1>1, <1>2, FailsWithIs
  <2> HIDE DEF c, all
  <2>6. Orderly(Scene)'
    BY <1>1, <2>2, <2>4, BecomesOrderly
  <2>7. Handled' = Handled \union all /\ sq_running' = sq_running \union (all \ {t})
    BY <1>1, <2>3, <2>4 DEF SceneBecomes, Marked, Handled
  <2>8. sq_buildable \subseteq sq_buildable' /\ sq_harddep_deferred' \subseteq sq_harddep_deferred
    BY <1>1, <2>3, <2>4 DEF SceneBecomes
  <2>9. NeededInv'
    BY <1>1, <1>2, <1>6, <2>8, NeededKept DEF QueueInv
  <2> QED  BY <1>1, <2>3, <2>4, <2>5, <2>6, <2>7, <2>9 DEF QueueInv, SceneBecomes
<1>7. CASE SceneReject(t)
  <2> DEFINE c == FailedOutright(Scene, {t}, SceneStamped)
             all == FailsWith(Scene, {t}, SceneStamped)
  <2>2. Orderly(c)
    <3>1. {t} \in SUBSET Setscene /\ {} \subseteq {t} /\ OrderlyBut(Scene, {})
      BY <1>2, <1>3 DEF Orderly
    <3> QED  BY <1>1, <3>1, FailedOutrightOrderly
  <2>3. /\ Marked(c, Scene, all, all)
        /\ sq_buildable \subseteq c.buildable /\ c.harddeferred \subseteq sq_harddep_deferred
    <3>1. {t} \in SUBSET Setscene
      BY <1>2
    <3>2. /\ Marked(c, Scene, all, all) /\ Scene.buildable \union all \subseteq c.buildable
          /\ c.harddeferred \subseteq Scene.harddeferred
      BY <1>1, <3>1, FailedOutrightIs
    <3> HIDE DEF c, all
    <3> QED  BY <1>1, <3>2
  <2>4. SceneBecomes(c) /\ sq_live' = sq_live
    BY <1>7 DEF SceneReject, workVars
  <2> HIDE DEF c, all
  <2>6. Orderly(Scene)'
    BY <1>1, <2>2, <2>4, BecomesOrderly
  <2>7. Handled' = Handled \union all /\ sq_running' = sq_running \union all
    BY <1>1, <2>3, <2>4 DEF SceneBecomes, Marked, Handled
  <2>8. sq_buildable \subseteq sq_buildable' /\ sq_harddep_deferred' \subseteq sq_harddep_deferred
    BY <1>1, <2>3, <2>4 DEF SceneBecomes
  <2>9. NeededInv'
    BY <1>1, <1>2, <1>7, <2>8, NeededKept DEF QueueInv
  <2> QED  BY <1>1, <2>3, <2>4, <2>6, <2>7, <2>9 DEF QueueInv, SceneBecomes
<1>8. CASE SceneRun(t)
  <2>1. /\ UNCHANGED <<sq_buildable, scenequeue_covered, scenequeue_notcovered,
            tasks_scenequeue_done,
                       sq_harddep_deferred>>
        /\ sq_running' = sq_running \union {t} /\ sq_live' = sq_live \union {t} /\ t \in sq_buildable
    BY <1>8 DEF SceneRun, SceneCandidates
  <2>2. Orderly(Scene)'
    BY <1>1, <1>3, <2>1 DEF Orderly, OrderlyBut, Scene, Closed, Setscene, SqRevdeps, Revdeps, Depends
  <2>3. NeededInv'
    BY <1>1, <1>2, <1>8, <2>1, NeededKept DEF QueueInv
  <2> QED  BY <1>1, <2>1, <2>2, <2>3 DEF QueueInv, Handled
<1>9. CASE SceneHardDefer(t)
  <2>1. /\ UNCHANGED <<sq_live, sq_running, scenequeue_covered, scenequeue_notcovered,
                       tasks_scenequeue_done>>
        /\ sq_buildable' = sq_buildable \union (rqdata.hard[t] \ sq_needed_harddeps)
        /\ sq_needed_harddeps' = sq_needed_harddeps \union rqdata.hard[t]
        /\ sq_harddep_deferred' = sq_harddep_deferred \union {t}
        /\ ~(rqdata.hard[t] \subseteq Handled) /\ Handled' = Handled
    BY <1>9 DEF SceneHardDefer, HardDepsHandled, Handled, workVars
  <2>2. Orderly(Scene)'
    BY <1>1, <1>3, <2>1 DEF Orderly, OrderlyBut, Scene, Closed, Setscene, SqRevdeps, Revdeps, Depends,
       Handled
  <2>3. NeededInv'
    BY <1>1, <2>1 DEF QueueInv, NeededInv
  <2> QED  BY <1>1, <2>1, <2>2, <2>3 DEF QueueInv
<1> QED  BY <1>4, <1>5, <1>6, <1>7, <1>8, <1>9

\* What a setscene task covers is needed by the task or by something it covers.
LEMMA CoveredFrom ==
  ASSUME GraphOfTasks, sqdata # <<>>, NEW m \in Setscene, NEW t \in SqCovered(m)
  PROVE  t \in Depends(m) \/ \E u \in SqCovered(m) : t \in Depends(u)
<1>1. /\ BuildOK /\ Setscene \subseteq Tasks
      /\ SqCovered(m) = Below(m) \ Setscene
  BY IsBuild DEF GraphOfTasks, Collapsed, TypeInv, TypeOK
<1> SUFFICES ASSUME t \notin Depends(m), \A u \in SqCovered(m) : t \notin Depends(u)
             PROVE  FALSE
  OBVIOUS
<1> DEFINE T == Below(m) \ {t}
<1>2. /\ Below(m) \subseteq Tasks /\ Depends(m) \subseteq Below(m)
      /\ \A u \in Below(m) \ Setscene : Depends(u) \subseteq Below(m)
  BY <1>1, BelowIs
<1>3. Depends(m) \subseteq T
  BY <1>2
<1>4. \A u \in T \ Setscene : u \in Tasks => Depends(u) \subseteq T
  BY <1>1, <1>2
<1>5. Below(m) \subseteq T
  <2> HIDE DEF T
  <2> QED  BY <1>1, <1>3, <1>4, BelowIs
<1> QED  BY <1>1, <1>5

\* What the reset of ts takes from the tasks that are done.
Undone(ts) ==
  ts \union {d \in UNION {SqCovered(t) : t \in ts} : d \notin
      runq_complete \union sqdata.unskippable}

\* The tasks that are done after the reset of ts.
LEMMA ResetDone ==
  ASSUME TypeOK, NEW ts PROVE Reset(ts).done = tasks_scenequeue_done \ Undone(ts)
<1> DEFINE S == Scene
           undone == Undone(ts)
<1>1. Reset(ts) = [S EXCEPT !.done = @ \ undone, !.running = @ \ ts, !.covered = @ \ ts,
                   !.notcovered = @ \ ts, !.buildable = @ \ ts]
  BY DEF Reset, Undone
<1>2. S \in SceneSet /\ S.done = tasks_scenequeue_done
  BY SceneTyped DEF Scene
<1> HIDE DEF undone, S
<1>3. Reset(ts).done = S.done \ undone
  BY <1>1, <1>2 DEF SceneSet
<1> QED  BY <1>2, <1>3 DEF undone

\* q is the bookkeeping after the reset of ts: of them, all that may be started again
\* are buildable, but for x.
IsReset(q, ts, x) ==
  /\ q.covered = scenequeue_covered \ ts /\ q.notcovered = scenequeue_notcovered \ ts
  /\ q.running = sq_running \ ts /\ sq_buildable \ ts \subseteq q.buildable
  /\ \A n \in ts \ x : SqRevdeps(n) \subseteq q.covered \union q.notcovered => n \in q.buildable
  /\ q.done = tasks_scenequeue_done \ Undone(ts) /\ q.harddeferred = sq_harddep_deferred

\* The reset keeps the order but for x.
LEMMA ResetOrderly ==
  ASSUME GraphOfTasks, DependenciesFirst, runq_complete \subseteq runq_running, sqdata # <<>>,
         Orderly(Scene), NEW ts \in SUBSET Setscene, NEW x, NEW q, IsReset(q, ts, x)
  PROVE  OrderlyBut(q, x)
<1>1. /\ BuildOK /\ Setscene \subseteq Tasks
      /\ Scene.covered = scenequeue_covered /\ Scene.notcovered = scenequeue_notcovered
      /\ Scene.running = sq_running /\ Scene.buildable = sq_buildable
      /\ Scene.done = tasks_scenequeue_done /\ Scene.harddeferred = sq_harddep_deferred
  BY IsBuild DEF GraphOfTasks, TypeInv, TypeOK, Scene
<1>2. q.covered \union q.notcovered = Handled \ ts
  BY DEF Handled, IsReset
<1>3. /\ Handled \subseteq sq_running \intersect sq_buildable
      /\ \A n \in Setscene \ Handled : SqRevdeps(n) \subseteq Handled => n \in sq_buildable
      /\ Handled \union (sqdata.unskippable \ Setscene) \subseteq tasks_scenequeue_done
      /\ Closed(tasks_scenequeue_done)
      /\ \A n \in sq_harddep_deferred : ~(rqdata.hard[n] \subseteq Handled)
  BY <1>1 DEF Orderly, OrderlyBut, Handled
<1>4. Handled \ ts \subseteq q.running \intersect q.buildable
  BY <1>3 DEF IsReset
<1>5. \A n \in Setscene \ ((Handled \ ts) \union x) :
        SqRevdeps(n) \subseteq Handled \ ts => n \in q.buildable
  BY <1>2, <1>3 DEF IsReset
<1>6. (Handled \ ts) \union (sqdata.unskippable \ Setscene) \subseteq q.done
  <2>1. Handled \subseteq Setscene
    BY DEF Handled, GraphOfTasks, TypeInv, TypeOK
  <2>2. \A s \in ts : SqCovered(s) \intersect Setscene = {}
    BY GraphSays
  <2>3. \A d \in Undone(ts) : d \in ts \/ (d \notin Setscene /\ d \notin sqdata.unskippable)
    BY <2>2 DEF Undone
  <2> QED  BY <1>3, <2>1, <2>3 DEF IsReset
<1>7. Closed(q.done)
  <2> SUFFICES ASSUME NEW t \in Tasks \ Setscene, Revdeps(t) \subseteq q.done, t \notin q.done
               PROVE  FALSE
    BY DEF Closed
  <2>1. t \in Undone(ts)
    BY <1>3 DEF Closed, IsReset
  <2>2. t \notin runq_complete \union sqdata.unskippable /\ \E m \in ts : t \in SqCovered(m)
    BY <2>1 DEF Undone
  <2>3. PICK m \in ts : t \in SqCovered(m)
    BY <2>2
  <2>4. CASE t \in Depends(m)
    <3>1. m \in Revdeps(t) /\ m \in Undone(ts)
      BY <1>1, <2>4 DEF Revdeps, Undone
    <3> QED  BY <3>1 DEF IsReset
  <2>5. CASE \E u \in SqCovered(m) : t \in Depends(u)
    <3>1. PICK u \in SqCovered(m) : t \in Depends(u)
      BY <2>5
    <3>2. u \in Tasks \ Setscene
      BY GraphSays
    <3>3. u \in q.done
      BY <3>1, <3>2 DEF Revdeps
    <3>4. u \in runq_complete \union sqdata.unskippable
      BY <3>3 DEF Undone, IsReset
    <3>5. u \notin runq_complete
      BY <2>2, <3>1 DEF DependenciesFirst
    <3>6. u \notin sqdata.unskippable
      BY <2>2, <3>1, <3>2, GraphSays
    <3> QED  BY <3>4, <3>5, <3>6
  <2> QED  BY <2>3, <2>4, <2>5, CoveredFrom
<1>8. \A n \in q.harddeferred : ~(rqdata.hard[n] \subseteq Handled \ ts)
  BY <1>3 DEF IsReset
<1> QED  BY <1>2, <1>4, <1>5, <1>6, <1>7, <1>8 DEF OrderlyBut

\* A migration: the tasks are reset, the ones with a stamp are skipped, and the ones
\* that cannot do without one that is not covered fail.
LEMMA MigrateOrderly ==
  ASSUME FedInv, QueueInv, Migrate
  PROVE  /\ Orderly(Scene)'
         /\ sq_running' \subseteq sq_running \union Handled'
         /\ NeededInv'
         /\ sqdone' => sqdone /\ Handled \subseteq Handled'
         /\ sq_running' \intersect (Handled \ Handled') = {}
         /\ sq_live \subseteq sq_buildable'
         /\ UNCHANGED <<state, failed_tids>>
         /\ ~holdoff_need_update' => ~holdoff_need_update /\ Handled' = Handled
         /\ \A r \in updated_taskhash_queue' : Unfinished(r[1])
<1>1. /\ BuildOK /\ Setscene \subseteq Tasks /\ UNCHANGED <<rqdata, sqdata>> /\ TypeOK
      /\ pending_migrations \subseteq Setscene /\ Going /\ state # "SCENE_INIT" /\ sqdata # <<>>
      /\ GraphOfTasks /\ DependenciesFirst /\ WorkInv /\ InputsInv /\ SqTyped
      /\ runq_complete \subseteq runq_running
  BY IsBuild DEF FedInv, GraphOfTasks, TypeInv, TypeOK, SqOK, Migrate, Quiet, Going,
     WorkInv, LiveInv
<1> DEFINE given == ReportedHash
<1>2. \E changed \in SUBSET Above(DOMAIN given) :
        /\ MayChange(changed, given)
        /\ \E to \in [changed -> Hashes] :
             MigrateStep(given, changed,
                    [t \in Tasks |-> IF t \in changed THEN to[t]
                                     ELSE IF t \in DOMAIN given THEN given[t] ELSE hash[t]])
  BY DEF Migrate
<1>20. PICK changed \in SUBSET Above(DOMAIN given) :
        /\ MayChange(changed, given)
        /\ \E to \in [changed -> Hashes] :
             MigrateStep(given, changed,
                    [t \in Tasks |-> IF t \in changed THEN to[t]
                                     ELSE IF t \in DOMAIN given THEN given[t] ELSE hash[t]])
  BY <1>2
<1>21. PICK to \in [changed -> Hashes] :
        MigrateStep(given, changed,
                    [t \in Tasks |-> IF t \in changed THEN to[t]
                                     ELSE IF t \in DOMAIN given THEN given[t] ELSE hash[t]])
  BY <1>20
<1>22. \A t \in changed : t \notin scenequeue_covered
  BY <1>20 DEF MayChange
<1> DEFINE new == [t \in Tasks |-> IF t \in changed THEN to[t]
                                   ELSE IF t \in DOMAIN given THEN given[t] ELSE hash[t]]
<1> HIDE DEF given, new
<1>4. MigrateStep(given, changed, new)
  BY <1>21 DEF given, new
<1> DEFINE pending == pending_migrations \union (changed \intersect Setscene)
           late == {t \in pending : TooLate(t)}
           blocked == {t \in pending \ late : Blocked(t)}
           moved == pending \ (late \union blocked)
           wrong == {t \in moved : SkippedUnder(t) # {}}
           q == Reset(moved)
           hardfail == {t \in moved : rqdata.hard[t] \intersect q.notcovered # {}}
           ready == {t \in moved : SqRevdeps(t) = {} \/
                  (t \notin hardfail /\ SqRevdeps(t) \subseteq q.covered \union q.notcovered)}
           stamped == moved \intersect SceneStamped'
           q1 == [q EXCEPT !.buildable = @ \union ready]
           skipped == SkippedScene(q1, stamped)
           failed == FailedOutright(skipped, hardfail, SceneStamped')
           all == FailsWith(skipped, hardfail, SceneStamped')
           touched == changed \union moved # {}
<1>5. Moved(pending) = moved /\ Wrong(pending) = wrong
  BY DEF Late, Waits, Moved, Wrong
<1>6. wrong = {}
  <2>1. \A p \in pending : p \in pending_migrations \/ p \notin scenequeue_covered
    BY <1>22
  <2>2. pending \in SUBSET Setscene
    BY <1>1
  <2> HIDE DEF pending
  <2>3. Wrong(pending) = {}
    BY <1>1, <2>1, <2>2, MovedNotCovered
  <2> HIDE DEF wrong
  <2> QED  BY <1>5, <2>3
<1>7. /\ moved \in SUBSET Setscene /\ stamped \in SUBSET Setscene /\ stamped \subseteq moved
      /\ moved \intersect sq_live = {}
  BY <1>1 DEF TooLate
<1>8. /\ SceneBecomes([failed EXCEPT !.harddeferred = IF touched THEN {} ELSE @])
      /\ sq_needed_harddeps' = IF touched THEN {} ELSE sq_needed_harddeps
      /\ sqdone' = (sqdone /\ moved = {})
      /\ UNCHANGED <<state, failed_tids>>
      /\ holdoff_need_update' = (holdoff_need_update \/ touched)
      /\ updated_taskhash_queue' = {r \in updated_taskhash_queue : Unfinished(r[1])}
      /\ moved # {} => touched
  BY <1>4, <1>6 DEF MigrateStep
<1>9. /\ q \in SceneSet
      /\ q.covered = scenequeue_covered \ moved
      /\ q.notcovered = scenequeue_notcovered \ moved
      /\ q.running = sq_running \ moved
      /\ q.buildable = sq_buildable \ moved
      /\ q.harddeferred = sq_harddep_deferred
      /\ q.done = tasks_scenequeue_done \ Undone(moved)
  <2> HIDE DEF moved
  <2> QED  BY <1>1, ResetIs, ResetDone
<1>10. hardfail \subseteq moved
  <2> HIDE DEF moved, q
  <2> QED  OBVIOUS
<1>11. /\ ready \subseteq moved
       /\ \A t \in moved \ hardfail :
            SqRevdeps(t) \subseteq q.covered \union q.notcovered => t \in ready
  <2> HIDE DEF moved, q, hardfail
  <2> QED  OBVIOUS
<1> HIDE DEF late, blocked, moved, wrong, q, hardfail, ready,
             stamped, skipped, touched, q1, pending
<1>12. /\ q1 \in SceneSet
       /\ q1.covered = q.covered /\ q1.notcovered = q.notcovered /\ q1.running = q.running
       /\ q1.buildable = q.buildable \union ready /\ q1.harddeferred = q.harddeferred
       /\ q1.done = q.done
  BY <1>7, <1>9, <1>11 DEF q1, SceneSet
<1>13. OrderlyBut(q1, hardfail)
  <2>1. Orderly(Scene)
    BY <1>1 DEF QueueInv
  <2>2. /\ q1.covered = scenequeue_covered \ moved /\ q1.notcovered = scenequeue_notcovered \ moved
        /\ q1.running = sq_running \ moved /\ sq_buildable \ moved \subseteq q1.buildable
        /\ \A n \in moved \ hardfail :
             SqRevdeps(n) \subseteq q1.covered \union q1.notcovered => n \in q1.buildable
        /\ q1.done = tasks_scenequeue_done \ Undone(moved)
        /\ q1.harddeferred = sq_harddep_deferred
    BY <1>9, <1>11, <1>12
  <2>3. IsReset(q1, moved, hardfail)
    BY <2>2 DEF IsReset
  <2> QED  BY <1>1, <1>7, <2>1, <2>3, ResetOrderly
<1>14. /\ OrderlyBut(skipped, hardfail \ stamped) /\ skipped \in SceneSet
       /\ skipped.covered = q1.covered \union stamped
       /\ skipped.notcovered = q1.notcovered
       /\ skipped.running = q1.running \union stamped
       /\ q1.buildable \subseteq skipped.buildable
       /\ skipped.harddeferred \subseteq q1.harddeferred
  BY <1>1, <1>7, <1>12, <1>13, SkippedIs, SkippedOrderly DEF skipped
<1> HIDE DEF all, failed
<1>15. hardfail \in SUBSET Setscene
  BY <1>7, <1>10
<1>16. moved = {} => all = {}
  <2>1. hardfail = {} => all = {}
    BY <1>1, <1>15, FailsWithIs DEF all
  <2> QED  BY <1>10, <2>1
<1>17. /\ Orderly(failed) /\ failed \in SceneSet
       /\ failed.covered = skipped.covered /\ failed.notcovered = skipped.notcovered \union all
       /\ failed.running = skipped.running \union all
       /\ skipped.buildable \subseteq failed.buildable
       /\ failed.harddeferred \subseteq skipped.harddeferred
  <2>1. /\ failed \in SceneSet /\ Marked(failed, skipped, all, all)
        /\ skipped.buildable \union all \subseteq failed.buildable
        /\ failed.harddeferred \subseteq skipped.harddeferred
    BY <1>1, <1>14, <1>15, FailedOutrightIs DEF failed, all
  <2>2. Orderly(failed)
    <3>1. hardfail \ stamped \subseteq hardfail
      OBVIOUS
    <3> QED  BY <1>1, <1>14, <1>15, <3>1, FailedOutrightOrderly DEF failed
  <2> QED  BY <2>1, <2>2 DEF Marked
<1> DEFINE z == [failed EXCEPT !.harddeferred = IF touched THEN {} ELSE @]
<1>18. /\ z.covered = failed.covered /\ z.notcovered = failed.notcovered
       /\ z.running = failed.running /\ z.buildable = failed.buildable
       /\ z.done = failed.done /\ z.harddeferred \subseteq failed.harddeferred
       /\ touched => z.harddeferred = {}
  BY <1>17 DEF SceneSet
<1>19. SceneBecomes(z)
  BY <1>8
<1> HIDE DEF z
<1>25. Orderly(z)
  BY <1>17, <1>18 DEF Orderly, OrderlyBut
<1>26. Orderly(Scene)'
  BY <1>1, <1>19, <1>25, BecomesOrderly
<1>27. /\ Handled' = (Handled \ moved) \union stamped \union all
       /\ sq_running' = (sq_running \ moved) \union stamped \union all
       /\ sq_harddep_deferred' \subseteq sq_harddep_deferred
       /\ touched => sq_harddep_deferred' = {}
       /\ sq_buildable \ moved \subseteq sq_buildable'
  BY <1>9, <1>12, <1>14, <1>17, <1>18, <1>19 DEF SceneBecomes, Handled
<1>28. sq_live \subseteq sq_buildable'
  BY <1>7, <1>27 DEF QueueInv
<1>29. ~holdoff_need_update' => ~holdoff_need_update /\ Handled' = Handled
  BY <1>7, <1>8, <1>16, <1>27
<1>30. NeededInv'
  <2>1. CASE touched
    BY <1>1, <1>8, <1>27, <2>1 DEF NeededInv
  <2>2. CASE ~touched
    <3>1. sq_buildable \subseteq sq_buildable' /\ sq_needed_harddeps' = sq_needed_harddeps
      BY <1>8, <1>27, <2>2
    <3> QED  BY <1>1, <1>8, <1>27, <3>1, NeededKept DEF QueueInv
  <2> QED  BY <2>1, <2>2
<1> QED  BY <1>7, <1>8, <1>26, <1>27, <1>28, <1>29, <1>30

\* A migration keeps the bookkeeping in order.
LEMMA QueueMigrate ==
  ASSUME FedInv, QueueInv, Migrate PROVE QueueInv'
<1>1. /\ UNCHANGED <<rqdata, sq_live>> /\ Setscene' = Setscene
      /\ state # "SCENE_INIT" /\ pc # "done"
  BY DEF Migrate, Quiet, workVars, FedInv, GraphOfTasks, TypeInv, SqOK, Setscene
<1>2. /\ Orderly(Scene)'
      /\ sq_running' \subseteq sq_running \union Handled'
      /\ NeededInv'
      /\ sqdone' => sqdone /\ Handled \subseteq Handled'
      /\ sq_running' \intersect (Handled \ Handled') = {}
      /\ sq_live \subseteq sq_buildable'
  BY MigrateOrderly
<1> QED  BY <1>1, <1>2 DEF QueueInv

\* The setscene part ends only when every setscene task is handled.
LEMMA QueueHoldOff ==
  ASSUME TypeInv, QueueInv, HoldOffStep PROVE QueueInv'
<1>1. /\ UNCHANGED <<rqdata, sqdata, sq_live, sq_buildable, sq_running, scenequeue_covered,
                     scenequeue_notcovered, tasks_scenequeue_done, sq_harddep_deferred,
                     sq_needed_harddeps>>
      /\ state # "SCENE_INIT" /\ state' # "SCENE_INIT" /\ pc # "done" /\ pc' # "done"
      /\ sqdone' => sqdone \/ ~SceneErrors(tasks_covered', tasks_notcovered',
          runq_buildable', holdoff_tasks')
  BY DEF HoldOffStep, Quiet, workVars, hardVars, TypeInv, SqOK
<1>2. sqdone' => sqdone \/ Setscene \subseteq Handled
  BY <1>1 DEF SceneErrors, Handled
<1>3. Orderly(Scene)'
  BY <1>1 DEF QueueInv, Orderly, OrderlyBut, Scene, Closed, Setscene, SqRevdeps, Revdeps, Depends
<1>4. NeededInv'
  BY <1>1, NeededKept DEF QueueInv
<1> QED  BY <1>1, <1>2, <1>3, <1>4 DEF QueueInv, Handled, Setscene

\* Every step keeps the bookkeeping in order.
LEMMA QueueNext ==
  ASSUME FedInv, QueueInv, [Next]_vars PROVE QueueInv'
<1>1. TypeInv /\ WorkInv /\ GraphOfTasks
  BY DEF FedInv, GraphOfTasks
<1>2. CASE SceneInit \/ SceneStart
  BY <1>1, <1>2, QueueStart
<1>3. CASE Finish \/ BuildDone \/ Shutdown \/ ForceShutdown \/ ReadEnd \/ TaskWait \/ QueueEmpty
         \/ ForceDeferred
  BY <1>1, <1>3, QueueQuiet
<1>4. CASE Migrate
  BY <1>4, QueueMigrate
<1>5. CASE HoldOffStep
  BY <1>1, <1>5, QueueHoldOff
<1>6. ASSUME NEW t \in Tasks, WorkerReport(t) \/ SceneStep(t) \/ TaskStep(t) PROVE QueueInv'
  BY <1>1, <1>6, QueueTask, QueueScene DEF WorkerReport, SceneStep
<1>7. CASE Ended \/ UNCHANGED vars
  <2>1. UNCHANGED vars
    BY <1>7 DEF Ended
  <2> QED  BY <2>1 DEF vars, QueueInv, NeededInv, hardVars, Orderly, OrderlyBut, Scene, Closed,
              Setscene, SqRevdeps, Revdeps,
          Depends, Handled,
              sqVars, workVars, coverVars
<1> QED  BY <1>2, <1>3, <1>4, <1>5, <1>6, <1>7 DEF Next

\* What lies below a setscene task is smaller.
LEMMA BelowSmaller ==
  ASSUME BuildOK, NEW s \in Tasks PROVE \A t \in Below(s) : t < s
<1> DEFINE T == {t \in Tasks : t < s}
<1>1. \A t \in Tasks : t \in Nat /\ \A d \in Depends(t) : d \in Tasks /\ d < t
  BY TasksAssumption DEF BuildOK, Depends
<1>2. Depends(s) \subseteq T /\ \A t \in T : Depends(t) \subseteq T
  BY <1>1
<1> HIDE DEF T
<1>3. Below(s) \subseteq T
  BY <1>2, BelowIs
<1> QED  BY <1>3 DEF T

\* The greatest setscene task that is open has no open one above it.
LEMMA OpenMayStart ==
  ASSUME GraphOfTasks, sqdata # <<>>, ~(Setscene \subseteq Handled)
  PROVE  \E n \in Setscene \ Handled : SqRevdeps(n) \subseteq Handled
<1>1. BuildOK /\ Setscene \subseteq Tasks /\ SqTyped
  BY IsBuild DEF GraphOfTasks, TypeInv, TypeOK, SqOK
<1>2. Setscene \ Handled \in SUBSET Tasks /\ Setscene \ Handled # {}
  BY <1>1
<1>3. PICK n \in Setscene \ Handled : \A k \in Setscene \ Handled : k <= n
  BY <1>2, Greatest
<1>4. ASSUME NEW r \in SqRevdeps(n) PROVE r \in Handled
  <2>1. r \in Setscene
    BY <1>1 DEF SqTyped
  <2>2. n \in SqDeps(r)
    BY DEF SqDeps
  <2>3. n \in Below(r)
    BY <2>1, <2>2 DEF GraphOfTasks, Collapsed
  <2>4. n < r
    BY <1>1, <2>1, <2>3, BelowSmaller
  <2>5. n \in Nat /\ r \in Nat
    BY <1>1, <2>1, TasksAssumption
  <2> QED  BY <1>3, <2>1, <2>4, <2>5
<1> QED  BY <1>4

\* When every setscene task is handled every task is done,
LEMMA SettledDone ==
  ASSUME GraphOfTasks, Orderly(Scene), Setscene \subseteq Handled
  PROVE  Tasks \subseteq tasks_scenequeue_done
<1>1. /\ BuildOK /\ Setscene \subseteq tasks_scenequeue_done /\ Closed(tasks_scenequeue_done)
  BY IsBuild DEF GraphOfTasks, TypeInv, TypeOK, Orderly, OrderlyBut, Scene, Handled
<1> SUFFICES ASSUME Tasks \ tasks_scenequeue_done # {} PROVE FALSE
  OBVIOUS
<1>2. PICK m \in Tasks \ tasks_scenequeue_done : \A k \in Tasks \ tasks_scenequeue_done : k <= m
  BY Greatest
<1>3. ASSUME NEW r \in Revdeps(m) PROVE r \in tasks_scenequeue_done
  <2>1. r \in Tasks /\ m < r /\ m \in Nat /\ r \in Nat
    BY <1>1, TasksAssumption DEF Revdeps, Depends, BuildOK
  <2> QED  BY <1>2, <2>1
<1> QED  BY <1>1, <1>2, <1>3 DEF Closed

\* and update_holdofftasks() finds it covered or not covered.
LEMMA SettledCovered ==
  ASSUME GraphOfTasks, sqdata # <<>>, Orderly(Scene), Setscene \subseteq Handled
  PROVE  Tasks \subseteq Covered \union NotCovered
<1> DEFINE Owned(t) == \/ t \in Setscene \/ t \in sqdata.unskippable
                       \/ \E s \in Setscene : t \in SqCovered(s)
           S == {t \in Tasks : ~Owned(t)}
<1>1. /\ BuildOK /\ Setscene \subseteq Tasks /\ sqdata.unskippable = Unskippable
  BY IsBuild DEF GraphOfTasks, TypeInv, TypeOK, Collapsed
<1>2. ASSUME S # {} PROVE FALSE
  <2>1. PICK m \in S : \A k \in S : k <= m
    <3>1. S \in SUBSET Tasks
      OBVIOUS
    <3> HIDE DEF S
    <3> QED  BY <1>2, <3>1, Greatest
  <2>2. CASE Revdeps(m) = {}
    BY <1>1, <2>2, UnskippableIs
  <2>3. CASE Revdeps(m) # {}
    <3>1. PICK r \in Revdeps(m) : TRUE
      BY <2>3
    <3>2. r \in Tasks /\ m \in Depends(r) /\ m < r /\ m \in Nat /\ r \in Nat
      BY <1>1, TasksAssumption DEF Revdeps, Depends, BuildOK
    <3>3. Owned(r)
      <4>1. ~(r <= m)
        BY <3>2
      <4> HIDE DEF Owned
      <4> QED  BY <2>1, <3>2, <4>1
    <3>4. m \notin Setscene /\ m \notin sqdata.unskippable /\ \A s \in Setscene :
              m \notin SqCovered(s)
      OBVIOUS
    <3>5. \A s : SqDeps(s) \subseteq Setscene
      BY DEF SqDeps
    <3> HIDE DEF S
    <3>6. r \notin Setscene
      BY <3>2, <3>4, <3>5, GraphSays
    <3>7. ~(r \in sqdata.unskippable)
      BY <3>2, <3>4, <3>6, GraphSays
    <3>8. ~\E s \in Setscene : r \in SqCovered(s)
      BY <3>2, <3>4, <3>5, GraphSays
    <3> QED  BY <3>3, <3>6, <3>7, <3>8
  <2> QED  BY <2>2, <2>3
<1>3. Tasks \subseteq tasks_scenequeue_done
  BY SettledDone
<1> SUFFICES ASSUME NEW t \in Tasks, t \notin NotCovered PROVE t \in Covered
  OBVIOUS
<1>4. Owned(t)
  BY <1>2
<1>5. t \notin scenequeue_notcovered /\ ~(t \in sqdata.unskippable \ Setscene)
      /\ \A s \in scenequeue_notcovered : t \notin SqCovered(s)
  BY <1>3 DEF NotCovered
<1>6. CASE t \in Setscene
  BY <1>3, <1>5, <1>6 DEF Covered, Handled
<1>7. CASE \E s \in Setscene : t \in SqCovered(s)
  <2>1. PICK s \in Setscene : t \in SqCovered(s)
    BY <1>7
  <2>2. s \in scenequeue_covered
    BY <1>5, <2>1 DEF Handled
  <2>3. t \in UNION {SqCovered(u) : u \in scenequeue_covered}
    BY <2>1, <2>2
  <2> QED  BY <1>3, <2>3 DEF Covered
<1> QED  BY <1>4, <1>5, <1>6, <1>7

\* Above(ts) is closed under the tasks that need one of it.
LEMMA AboveIs ==
  ASSUME NEW ts \in SUBSET Tasks
  PROVE  /\ Above(ts) \subseteq Tasks
         /\ \A t \in ts \union Above(ts) : Revdeps(t) \subseteq Above(ts)
<1> DEFINE a == UNION {Revdeps(t) : t \in ts}
           step(g) == g \union UNION {Revdeps(t) : t \in g}
           e(g) == [n \in Nat |-> IF n = 0 THEN a ELSE step(g[n - 1])]
           up == CHOOSE g : g = e(g)
           h == [g \in TaskSets |-> step(g)]
<1>1. Above(ts) = up[Cardinality(Tasks)]
  BY DEF Above
<1>2. a \in TaskSets /\ h \in [TaskSets -> TaskSets]
  BY DEF TaskSets, Revdeps
<1>3. \A g \in TaskSets : h[g] = step(g)
  OBVIOUS
<1>4. \A n \in Nat : up[n] = IF n = 0 THEN a ELSE step(up[n - 1])
  <2> HIDE DEF a, step, h
  <2>1. PICK f \in [Nat -> TaskSets] : \A n \in Nat : f[n] = IF n = 0 THEN a ELSE h[f[n - 1]]
    <3> HIDE DEF e
    <3> QED  BY <1>2, Recursion
  <2>2. f = e(f)
    <3>1. \A n \in Nat : n # 0 => f[n - 1] \in TaskSets
      OBVIOUS
    <3> QED  BY <1>3, <2>1, <3>1
  <2>3. up = e(up)
    <3> HIDE DEF e
    <3> QED  BY <2>2
  <2> HIDE DEF up
  <2> QED  BY <2>3
<1>5. \A g \in TaskSets : g \subseteq h[g]
  OBVIOUS
<1> HIDE DEF up, e
<1> DEFINE r == up[Cardinality(Tasks)]
<1>6. r \in TaskSets /\ a \subseteq r /\ h[r] = r
  <2> HIDE DEF a, step, h
  <2>1. up[0] = a /\ \A n \in Nat \ {0} : up[n - 1] \in TaskSets => up[n] = h[up[n - 1]]
    BY <1>3, <1>4
  <2> QED  BY <1>2, <1>5, <2>1, Closure
<1>7. Above(ts) \in TaskSets /\ a \subseteq Above(ts) /\ step(Above(ts)) = Above(ts)
  BY <1>1, <1>3, <1>6
<1>8. \A t \in ts : Revdeps(t) \subseteq a
  OBVIOUS
<1>9. \A t \in Above(ts) : Revdeps(t) \subseteq step(Above(ts))
  OBVIOUS
<1> HIDE DEF a, step
<1> QED  BY <1>7, <1>8, <1>9 DEF TaskSets

\* What update_holdofftasks() has seen is so, until it has to look again: what is
\* open is held off, and with nothing open nothing is held off and every task is
\* covered or not covered.  A task that is either is buildable when its
\* dependencies are complete.
CurrentInv ==
  /\ ~holdoff_need_update =>
       /\ Setscene \ Handled \subseteq holdoff_tasks
       /\ Setscene \subseteq Handled =>
            holdoff_tasks = {} /\ Tasks \subseteq tasks_covered \union tasks_notcovered
  /\ \A t \in tasks_covered \union tasks_notcovered :
       Depends(t) \subseteq runq_complete => t \in runq_buildable

\* Within a call: the real tasks' turn comes only when no setscene task can be
\* started or one runs; a report that stays in the queue is of a task at work.
PassInv ==
  /\ pc = "task" => SceneCandidates = {} \/ sq_live # {}
  /\ pc = "holdoff" => sq_live # {}
  /\ pc \in {"setscene", "holdoff", "task"} => \A r \in updated_taskhash_queue : Unfinished(r[1])

\* A task that was started runs, is complete or has failed, and the scheduler stops
\* for a cause.
RunInv ==
  /\ pc # "done" => runq_running = runq_complete \union active \union failed_tids
  /\ state = "CLEAN_UP" => interrupted # 0 \/ (rqdata.halt /\ failed_tids # {})
  /\ state = "FAILED" => pc \in {"loop", "done"}

\* One task at most has the limited name, or the first failure ends the build.
FewLimited == rqdata.halt \/ \A t, u \in rqdata.limited : t = u

\* Steps in which update_holdofftasks() need not look again change nothing of what
\* it has seen.
LEMMA CurrentKept ==
  ASSUME CurrentInv, UNCHANGED <<rqdata, tasks_covered, tasks_notcovered, holdoff_tasks>>,
         ~holdoff_need_update' => ~holdoff_need_update /\ Handled' = Handled,
         \A t \in tasks_covered \union tasks_notcovered :
           Depends(t) \subseteq runq_complete' => t \in runq_buildable'
  PROVE  CurrentInv'
BY DEF CurrentInv, Setscene, Depends

\* The steps of real tasks.
LEMMA CurrentTask ==
  ASSUME TypeInv, DependenciesFirst, CurrentInv, NEW t \in Tasks,
         TaskStep(t) \/ TaskComplete(t) \/ TaskFail(t) \/ (\E h \in Hashes : HashReport(t, h))
  PROVE  CurrentInv'
<1>1. UNCHANGED <<rqdata, tasks_covered, tasks_notcovered, holdoff_tasks>>
  BY DEF TaskStep, TaskSkip, TaskNoExec, TaskRun, TaskComplete, TaskFail, HashReport,
     Quiet, coverVars
<1>2. CASE TaskSkip(t) \/ TaskNoExec(t) \/ TaskComplete(t)
  <2>1. PICK stamped \in SUBSET Setscene :
              /\ scenequeue_covered' = scenequeue_covered \union stamped
              /\ scenequeue_notcovered' = scenequeue_notcovered
              /\ holdoff_need_update' = (holdoff_need_update \/ stamped # {})
    BY <1>2, TaskEffect DEF TaskStep
  <2>2. ~holdoff_need_update' => ~holdoff_need_update /\ Handled' = Handled
    BY <2>1 DEF Handled
  <2>4. ASSUME NEW u \in tasks_covered \union tasks_notcovered, Depends(u) \subseteq runq_complete'
        PROVE  u \in runq_buildable'
    <3>1. \E b : runq_buildable \subseteq b /\ CompleteOutright(t, b)
      BY <1>2 DEF TaskSkip, TaskNoExec, TaskComplete
    <3>2. PICK b : runq_buildable \subseteq b /\ CompleteOutright(t, b)
      BY <3>1
    <3>3. /\ runq_complete' = runq_complete \union {t}
          /\ runq_buildable' = b \union {r \in Revdeps(t) : r \notin runq_running
                                                            /\ Depends(r) \subseteq runq_complete'}
      BY <3>2 DEF CompleteOutright
    <3>4. CASE Depends(u) \subseteq runq_complete
      BY <3>2, <3>3, <3>4 DEF CurrentInv
    <3>5. CASE u \in runq_running
      BY <3>2, <3>3, <3>5 DEF DependenciesFirst
    <3>6. CASE t \in Depends(u) /\ u \notin runq_running
      <4>1. u \in Revdeps(t)
        BY <3>6 DEF Revdeps, TypeInv, TypeOK
      <4> QED  BY <2>4, <3>3, <3>6, <4>1
    <3> QED  BY <2>4, <3>3, <3>4, <3>5, <3>6
  <2> QED  BY <1>1, <2>2, <2>4, CurrentKept
<1>3. CASE TaskRun(t) \/ TaskFail(t) \/ (\E h \in Hashes : HashReport(t, h))
  <2>1. UNCHANGED <<sqVars, runq_buildable, runq_complete>>
    BY <1>3 DEF TaskRun, TaskFail, HashReport, runqVars
  <2> QED  BY <1>1, <2>1, CurrentKept DEF CurrentInv, sqVars, Handled
<1> QED  BY <1>2, <1>3 DEF TaskStep

\* The steps of setscene tasks: when one is handled, update_holdofftasks() has to look
\* again.
LEMMA CurrentScene ==
  ASSUME CurrentInv, NEW t \in Tasks,
         \/ SceneComplete(t) \/ SceneFail(t) \/ SceneNotNeeded(t) \/ SceneReject(t)
         \/ SceneRun(t) \/ SceneHardDefer(t)
  PROVE  CurrentInv'
<1>1. /\ UNCHANGED <<rqdata, tasks_covered, tasks_notcovered, holdoff_tasks, runq_buildable,
          runq_complete>>
      /\ holdoff_need_update' \/ UNCHANGED <<scenequeue_covered, scenequeue_notcovered,
          holdoff_need_update>>
  BY DEF SceneComplete, SceneFail, SceneNotNeeded, SceneReject, SceneRun, SceneHardDefer,
     Quiet, coverVars,
         runqVars
<1> QED  BY <1>1, CurrentKept DEF CurrentInv, Handled

\* The preparation: without setscene tasks every task is to run.
LEMMA CurrentStart ==
  ASSUME TypeInv, CurrentInv, WorkInv, InputsInv, SceneInit \/ SceneStart PROVE CurrentInv'
<1>1. CASE SceneInit
  <2>1. UNCHANGED <<rqdata, runqVars, sqVars, coverVars>>
    BY <1>1 DEF SceneInit
  <2> QED  BY <2>1, CurrentKept DEF CurrentInv, runqVars, sqVars, coverVars, Handled
<1>2. CASE SceneStart
  <2>1. /\ UNCHANGED <<rqdata, tasks_covered, runq_complete>> /\ holdoff_need_update'
        /\ runq_complete = {} /\ tasks_covered = {}
        /\ tasks_notcovered' = {} \/ {t \in Tasks : Depends(t) = {}} \subseteq runq_buildable'
        /\ tasks_notcovered' \subseteq Tasks
    BY <1>2 DEF SceneStart, WorkInv, LiveInv, InputsInv, NotBegun
  <2> QED  BY <2>1 DEF CurrentInv, Depends
<1> QED  BY <1>1, <1>2

\* A migration that moves a task makes it look again.
LEMMA CurrentMigrate ==
  ASSUME FedInv, QueueInv, CurrentInv, Migrate PROVE CurrentInv'
<1>1. UNCHANGED <<rqdata, tasks_covered, tasks_notcovered, holdoff_tasks, runq_buildable,
          runq_complete>>
  BY DEF Migrate, Quiet
<1>2. ~holdoff_need_update' => ~holdoff_need_update /\ Handled' = Handled
  BY MigrateOrderly
<1> QED  BY <1>1, <1>2, CurrentKept DEF CurrentInv

\* update_holdofftasks().
LEMMA CurrentHoldOff ==
  ASSUME GraphOfTasks, QueueInv, CurrentInv, HoldOffStep PROVE CurrentInv'
<1>1. /\ UNCHANGED <<rqdata, sqdata, scenequeue_covered, scenequeue_notcovered, runq_complete>>
      /\ Setscene' = Setscene /\ Handled' = Handled /\ UpdateHoldOff /\ sqdata # <<>> /\ Orderly(Scene)
      /\ \A t : Depends(t)' = Depends(t)
  BY DEF HoldOffStep, Quiet, GraphOfTasks, TypeInv, SqOK, Setscene, Handled, QueueInv,
     Depends
<1>2. CASE ~holdoff_need_update
  <2>1. UNCHANGED <<tasks_covered, tasks_notcovered, runq_buildable, holdoff_tasks,
            holdoff_need_update>>
    BY <1>1, <1>2 DEF UpdateHoldOff
  <2> QED  BY <1>1, <2>1, CurrentKept DEF CurrentInv
<1>3. CASE holdoff_need_update
  <2>1. /\ tasks_covered' = Covered /\ tasks_notcovered' = NotCovered /\ holdoff_tasks' = HoldOff
        /\ runq_buildable' = runq_buildable \union
             {t \in Covered \union NotCovered : Depends(t) \subseteq runq_complete}
    BY <1>1, <1>3 DEF UpdateHoldOff
  <2>2. Setscene \ Handled \subseteq HoldOff
    BY DEF HoldOff, Handled
  <2>3. Setscene \subseteq Handled => HoldOff = {}
    BY DEF HoldOff, Handled
  <2>4. Setscene \subseteq Handled => Tasks \subseteq Covered \union NotCovered
    BY <1>1, SettledCovered
  <2>5. \A t \in Covered \union NotCovered : Depends(t) \subseteq runq_complete =>
            t \in runq_buildable'
    BY <2>1
  <2> HIDE DEF Covered, NotCovered, HoldOff
  <2> QED  BY <1>1, <2>1, <2>2, <2>3, <2>4, <2>5 DEF CurrentInv
<1> QED  BY <1>2, <1>3

\* Every step keeps it.
LEMMA CurrentNext ==
  ASSUME FedInv, QueueInv, CurrentInv, [Next]_vars PROVE CurrentInv'
<1>1. TypeInv /\ WorkInv /\ GraphOfTasks /\ InputsInv /\ DependenciesFirst
  BY DEF FedInv, GraphOfTasks
<1>2. CASE SceneInit \/ SceneStart
  BY <1>1, <1>2, CurrentStart
<1>3. CASE Finish \/ BuildDone \/ Shutdown \/ ForceShutdown \/ ReadEnd \/ TaskWait \/ QueueEmpty
         \/ ForceDeferred \/ Ended \/ UNCHANGED vars
  <2>1. UNCHANGED <<rqdata, sqVars, coverVars, runqVars>>
    BY <1>3 DEF Finish, BuildDone, Shutdown, ForceShutdown, ReadEnd, TaskWait, QueueEmpty,
       ForceDeferred,
                Ended, vars, Quiet
  <2> QED  BY <2>1, CurrentKept DEF CurrentInv, sqVars, coverVars, runqVars, Handled
<1>4. CASE Migrate
  BY <1>4, CurrentMigrate
<1>5. CASE HoldOffStep
  BY <1>1, <1>5, CurrentHoldOff
<1>6. ASSUME NEW t \in Tasks, WorkerReport(t) \/ SceneStep(t) \/ TaskStep(t) PROVE CurrentInv'
  BY <1>1, <1>6, CurrentTask, CurrentScene DEF WorkerReport, SceneStep
<1> QED  BY <1>2, <1>3, <1>4, <1>5, <1>6 DEF Next

\* Every step keeps what holds within a call.
LEMMA PassNext ==
  ASSUME FedInv, QueueInv, PassInv, [Next]_vars PROVE PassInv'
<1>1. CASE SceneInit \/ SceneStart \/ Finish \/ BuildDone \/ Shutdown \/ ForceShutdown
           \/ TaskWait \/ QueueEmpty \/ ForceDeferred
  <2>1. pc' \notin {"task", "holdoff", "setscene"}
    BY <1>1 DEF SceneInit, SceneStart, Finish, BuildDone, Shutdown, ForceShutdown, TaskWait,
                QueueEmpty, ForceDeferred
  <2> QED  BY <2>1 DEF PassInv
<1>2. CASE ReadEnd
  <2>1. pc' = "migrate" \/ (pc' = "setscene" /\ updated_taskhash_queue' = {})
    BY <1>2 DEF ReadEnd, hashVars
  <2> QED  BY <2>1 DEF PassInv
<1>3. CASE Migrate
  <2>1. pc' = "setscene" /\ UNCHANGED <<runq_running, runq_complete>>
    BY <1>3 DEF Migrate
  <2>2. \A r \in updated_taskhash_queue' : Unfinished(r[1])
    BY <1>3, MigrateOrderly
  <2> QED  BY <2>1, <2>2 DEF PassInv, Unfinished
<1>4. CASE HoldOffStep
  <2>1. /\ pc' \in {"loop", "task"} /\ (pc = "holdoff" \/ (pc = "setscene" /\ SceneCandidates = {}))
        /\ UNCHANGED <<rqdata, sq_deferred, workVars, runq_running, runq_complete,
            sq_buildable, sq_running,
                       sq_harddep_deferred, updated_taskhash_queue>>
        /\ sqdone' = sqdone \/ sqdone' = TRUE
    BY <1>4 DEF HoldOffStep, Quiet, hashVars
  <2>2. SceneCandidates = {} => SceneCandidates' = {}
    BY <2>1 DEF SceneCandidates, CanStart, RoomAfter, workVars, Setscene
  <2> QED  BY <2>1, <2>2 DEF PassInv, Unfinished, workVars
<1>5. ASSUME NEW t \in Tasks, WorkerReport(t) \/ TaskStep(t) PROVE PassInv'
  <2>1. pc' \in {"loop", "read", "wait"}
    BY <1>5 DEF WorkerReport, TaskStep, TaskComplete, TaskFail, SceneComplete, SceneFail,
       HashReport,
                TaskSkip, TaskNoExec, TaskRun, AfterRead
  <2> QED  BY <2>1 DEF PassInv
<1>6. ASSUME NEW t \in Tasks, SceneStep(t) PROVE PassInv'
  <2>1. /\ pc = "setscene" /\ pc' \in {"loop", "setscene", "holdoff"}
        /\ UNCHANGED <<updated_taskhash_queue, runq_running, runq_complete>>
        /\ pc' = "holdoff" => sq_live' # {}
    BY <1>6 DEF SceneStep, SceneNotNeeded, SceneHardDefer, SceneReject, SceneRun, hashVars,
       runqVars
  <2> QED  BY <2>1 DEF PassInv, Unfinished
<1>7. CASE Ended \/ UNCHANGED vars
  BY <1>7 DEF Ended, vars, PassInv, SceneCandidates, CanStart, RoomAfter, workVars,
     Setscene, Unfinished,
              sqVars, coverVars, hashVars, runqVars
<1> QED  BY <1>1, <1>2, <1>3, <1>4, <1>5, <1>6, <1>7 DEF Next

\* At the end of the setscene part nothing is missing.
LEMMA NoErrorsAtHoldOff ==
  ASSUME FedInv, QueueInv, CurrentInv, CurrentInv', HoldOffStep
  PROVE  UNCHANGED state
<1> SUFFICES ASSUME sq_deferred = <<>>, updated_taskhash_queue = {}, holdoff_tasks' = {},
                    SceneErrors(tasks_covered', tasks_notcovered', runq_buildable', holdoff_tasks')
             PROVE  FALSE
  BY DEF HoldOffStep
<1>1. /\ UNCHANGED <<rqdata, scenequeue_covered, scenequeue_notcovered, runq_complete>>
      /\ Setscene' = Setscene /\ Handled' = Handled /\ UpdateHoldOff /\ Orderly(Scene)
      /\ GraphOfTasks /\ sqdata # <<>> /\ ~holdoff_need_update'
      /\ \A t : Depends(t)' = Depends(t)
  BY DEF HoldOffStep, Quiet, GraphOfTasks, TypeInv, SqOK, Setscene, Handled, QueueInv,
     Depends,
         FedInv, UpdateHoldOff
<1>2. Setscene \subseteq Handled /\ Tasks \subseteq tasks_covered' \union tasks_notcovered'
  BY <1>1 DEF CurrentInv
<1>3. {t \in Tasks : Depends(t) = {}} \subseteq runq_buildable'
  BY <1>1, <1>2 DEF CurrentInv
<1>4. Tasks \subseteq tasks_scenequeue_done
  BY <1>1, <1>2, SettledDone
<1>5. Setscene \subseteq sq_buildable \intersect sq_running
  BY <1>1, <1>2 DEF Orderly, OrderlyBut, Scene, Handled
<1> QED  BY <1>2, <1>3, <1>4, <1>5 DEF SceneErrors, Handled

\* When nothing can be started and nothing runs, every setscene task is handled and
\* every task is covered or not covered; what is buildable was started, or waits for
\* the failed task of the limited name.
LEMMA QueueIsEmpty ==
  ASSUME FedInv, QueueInv, CurrentInv, PassInv, RunInv, HardAcyclic,
         pc = "task", NextTasks = {}, active \union sq_live = {}, sq_deferred = <<>>
  PROVE  /\ Setscene \subseteq Handled /\ holdoff_tasks = {}
         /\ Tasks \subseteq tasks_covered \union tasks_notcovered
         /\ runq_running = runq_complete \union failed_tids
         /\ \A t \in runq_buildable : t \in runq_running \/
              (t \in rqdata.limited /\ \E u \in rqdata.limited : u \in runq_running)
         /\ failed_tids = {} => updated_taskhash_queue = {} /\ runq_buildable \subseteq runq_running
<1>1. /\ GraphOfTasks /\ TypeOK /\ state # "SCENE_INIT" /\ sqdata # <<>> /\ ~holdoff_need_update
      /\ Orderly(Scene)
  BY DEF FedInv, GraphOfTasks, TypeInv, SqOK, WorkInv, LiveInv, QueueInv
<1>2. CanStart
  <2>1. Cardinality(active) = 0 /\ Cardinality(sq_live) = 0
    BY FS_EmptySet
  <2> QED  BY <2>1, NumberAssumption DEF CanStart, RoomAfter
<1>3. Setscene \subseteq Handled
  <2> SUFFICES ASSUME ~(Setscene \subseteq Handled) PROVE FALSE
    OBVIOUS
  <2>1. PICK n \in Setscene \ Handled : SqRevdeps(n) \subseteq Handled
    BY <1>1, OpenMayStart
  <2>2. n \in sq_buildable
    BY <1>1, <2>1 DEF Orderly, OrderlyBut, Scene, Handled
  <2>3. PICK rank \in [Setscene -> Nat] :
          \A d \in Setscene : \A h \in rqdata.hard[d] : rank[h] < rank[d]
    BY DEF HardAcyclic
  <2> DEFINE open == (Setscene \ Handled) \intersect sq_buildable
             ranks == {rank[d] : d \in open}
  <2>4. PICK m \in open : \A d \in open : rank[m] <= rank[d]
    <3>1. ranks \in SUBSET Nat /\ ranks # {}
      BY <2>1, <2>2
    <3>2. PICK least \in ranks : \A k \in ranks : least <= k
      <4> HIDE DEF ranks
      <4> QED  BY <3>1, Least
    <3> QED  BY <3>2
  <2>5. m \notin sq_harddep_deferred
    <3> SUFFICES ASSUME m \in sq_harddep_deferred PROVE FALSE
      OBVIOUS
    <3>1. PICK h \in rqdata.hard[m] : h \notin Handled
      BY <1>1 DEF Orderly, OrderlyBut, Scene, Handled
    <3>2. h \in sq_buildable
      BY DEF QueueInv, NeededInv
    <3>3. h \in Setscene
      BY <1>1, <3>2 DEF TypeOK
    <3>4. rank[h] < rank[m] /\ rank[m] <= rank[h] /\ rank[h] \in Nat /\ rank[m] \in Nat
      BY <2>3, <2>4, <3>1, <3>2, <3>3
    <3> QED  BY <3>4
  <2>6. m \notin sq_running /\ ~sqdone
    BY <2>1, <2>4 DEF QueueInv
  <2>7. m \in SceneCandidates
    BY <1>2, <2>4, <2>5, <2>6 DEF SceneCandidates
  <2> QED  BY <2>7 DEF PassInv
<1>4. holdoff_tasks = {} /\ Tasks \subseteq tasks_covered \union tasks_notcovered
  BY <1>1, <1>3 DEF CurrentInv
<1>5. runq_running = runq_complete \union failed_tids
  BY DEF RunInv
<1>6. ASSUME NEW t \in runq_buildable
      PROVE  \/ t \in runq_running
             \/ t \in rqdata.limited /\ \E u \in rqdata.limited : u \in runq_running \ runq_complete
  BY <1>1, <1>2, <1>4 DEF NextTasks, Unfinished, TypeOK
<1>7. failed_tids = {} => updated_taskhash_queue = {} /\ runq_buildable \subseteq runq_running
  BY <1>5, <1>6 DEF PassInv, Unfinished
<1> QED  BY <1>3, <1>4, <1>5, <1>6, <1>7

\* The end of the queue: without a failure every task is complete and the sanity
\* checks find nothing,
LEMMA EmptyIsComplete ==
  ASSUME FedInv, QueueInv, CurrentInv, PassInv, RunInv, HardAcyclic, QueueEmpty, failed_tids = {}
  PROVE  state' = "COMPLETE"
<1>1. /\ Setscene \subseteq Handled /\ holdoff_tasks = {}
      /\ Tasks \subseteq tasks_covered \union tasks_notcovered
      /\ runq_running = runq_complete
      /\ updated_taskhash_queue = {} /\ runq_buildable \subseteq runq_running
      /\ sq_deferred = <<>>
  BY QueueIsEmpty DEF QueueEmpty
<1>2. /\ BuildOK /\ TypeOK /\ GraphOfTasks /\ Orderly(Scene) /\ DependenciesFirst /\ sqdata # <<>>
  BY IsBuild DEF FedInv, GraphOfTasks, TypeInv, TypeOK, SqOK, QueueInv, QueueEmpty
<1>3. Tasks \subseteq runq_complete
  <2> SUFFICES ASSUME Tasks \ runq_complete # {} PROVE FALSE
    OBVIOUS
  <2>1. Tasks \ runq_complete \in SUBSET Nat
    BY TasksAssumption
  <2>2. PICK m \in Tasks \ runq_complete : \A k \in Tasks \ runq_complete : m <= k
    BY <2>1, Least
  <2>3. ASSUME NEW d \in Depends(m) PROVE d \in runq_complete
    <3>1. d \in Tasks /\ d < m /\ d \in Nat /\ m \in Nat
      BY <1>2, TasksAssumption DEF BuildOK, Depends
    <3> QED  BY <2>2, <3>1
  <2>4. m \in runq_buildable
    BY <1>1, <2>3 DEF CurrentInv
  <2> QED  BY <1>1, <2>4
<1>4. Tasks \subseteq runq_buildable \intersect runq_running \intersect runq_complete
  BY <1>1, <1>2, <1>3 DEF DependenciesFirst
<1>5. Tasks \subseteq tasks_scenequeue_done
  BY <1>1, <1>2, SettledDone
<1>6. Setscene \subseteq sq_buildable \intersect sq_running
  BY <1>1, <1>2 DEF Orderly, OrderlyBut, Scene, Handled
<1>7. ~SceneErrors(tasks_covered, tasks_notcovered, runq_buildable, holdoff_tasks)
  BY <1>1, <1>4, <1>5, <1>6 DEF SceneErrors, Handled
<1> QED  BY <1>4, <1>7 DEF QueueEmpty

\* and with failures what is not complete has failed or depends on what has.
LEMMA EmptyIsMost ==
  ASSUME FedInv, QueueInv, CurrentInv, PassInv, RunInv, HardAcyclic, FewLimited, QueueEmpty,
         ~rqdata.halt
  PROVE  Tasks = runq_complete \union failed_tids \union Above(failed_tids)
<1>1. /\ Tasks \subseteq tasks_covered \union tasks_notcovered
      /\ runq_running = runq_complete \union failed_tids
      /\ \A t \in runq_buildable : t \in runq_running \/
           (t \in rqdata.limited /\ \E u \in rqdata.limited : u \in runq_running)
  BY QueueIsEmpty DEF QueueEmpty
<1>2. runq_buildable \subseteq runq_complete \union failed_tids
  BY <1>1 DEF FewLimited
<1>3. /\ BuildOK /\ failed_tids \in SUBSET Tasks /\ runq_complete \subseteq Tasks
  BY IsBuild DEF FedInv, GraphOfTasks, TypeInv, TypeOK
<1>4. /\ Above(failed_tids) \subseteq Tasks
      /\ \A t \in failed_tids \union Above(failed_tids) : Revdeps(t) \subseteq Above(failed_tids)
  BY <1>3, AboveIs
<1> DEFINE A == Above(failed_tids)
<1> HIDE DEF A
<1> DEFINE S == Tasks \ (runq_complete \union failed_tids \union A)
<1>5. S = {}
  <2> SUFFICES ASSUME S # {} PROVE FALSE
    OBVIOUS
  <2>1. S \in SUBSET Nat
    BY TasksAssumption
  <2>2. PICK m \in S : \A k \in S : m <= k
    BY <2>1, Least
  <2>3. ASSUME NEW d \in Depends(m) PROVE d \in runq_complete
    <3>1. d \in Tasks /\ d < m /\ d \in Nat /\ m \in Nat
      BY <1>3, TasksAssumption DEF BuildOK, Depends
    <3>2. d \in runq_complete \union failed_tids \union A
      BY <2>2, <3>1
    <3>3. m \in Revdeps(d)
      BY DEF Revdeps
    <3>4. d \notin failed_tids \union A
      BY <1>4, <3>3 DEF A
    <3> QED  BY <3>2, <3>4
  <2>4. m \in runq_buildable
    BY <1>1, <2>3 DEF CurrentInv
  <2> QED  BY <1>2, <2>4
<1> QED  BY <1>3, <1>4, <1>5 DEF A

\* The invariants behind the verdict.
VerdictInv ==
  /\ FedInv /\ SuccessInv /\ QueueInv /\ CurrentInv /\ PassInv /\ RunInv
  /\ HardAcyclic /\ FewLimited
  /\ FailureHasCause /\ AsMuchAsPossible

\* Every step keeps what is known of the tasks that were started.
LEMMA RunNext ==
  ASSUME FedInv, SuccessInv, QueueInv, CurrentInv, CurrentInv', RunInv, [Next]_vars
  PROVE  RunInv'
<1>2. CASE SceneInit \/ SceneStart \/ Finish \/ Shutdown \/ ForceShutdown \/ ReadEnd \/ TaskWait
           \/ QueueEmpty \/ ForceDeferred
  <2>1. /\ UNCHANGED <<rqdata, active, runq_running, runq_complete, failed_tids>>
        /\ pc # "done" /\ pc' # "done"
        /\ state' = "CLEAN_UP" =>
            interrupted' # 0 \/ (state = "CLEAN_UP" /\ interrupted' = interrupted)
        /\ state' = "FAILED" => pc' = "loop"
    BY <1>2 DEF SceneInit, SceneStart, Finish, Shutdown, ForceShutdown, ReadEnd, TaskWait,
            QueueEmpty, ForceDeferred, Quiet, workVars, runqVars, PassStarts, Finished, RunInv
  <2> QED  BY <2>1 DEF RunInv
<1>3. CASE BuildDone
  <2>1. pc' = "done" /\ state' # "CLEAN_UP"
    BY <1>3 DEF BuildDone
  <2> QED  BY <2>1 DEF RunInv
<1>4. CASE Migrate
  <2>1. /\ UNCHANGED <<rqdata, active, runq_running, runq_complete, interrupted>>
        /\ pc = "migrate" /\ pc' = "setscene"
    BY <1>4 DEF Migrate, Quiet, workVars
  <2>2. UNCHANGED <<state, failed_tids>>
    BY <1>4, MigrateOrderly
  <2> QED  BY <2>1, <2>2 DEF RunInv
<1>5. CASE HoldOffStep
  <2>1. /\ UNCHANGED <<rqdata, active, runq_running, runq_complete, interrupted, failed_tids>>
        /\ pc \in {"setscene", "holdoff"} /\ pc' \in {"loop", "task"}
    BY <1>5 DEF HoldOffStep, Quiet, workVars
  <2>2. UNCHANGED state
    BY <1>5, NoErrorsAtHoldOff
  <2> QED  BY <2>1, <2>2 DEF RunInv
<1>6. ASSUME NEW t \in Tasks, WorkerReport(t) \/ SceneStep(t) \/ TaskStep(t) PROVE RunInv'
  <2>1. CASE TaskSkip(t) \/ TaskNoExec(t) \/ TaskComplete(t)
    <3>1. /\ UNCHANGED <<rqdata, interrupted, failed_tids, state>>
          /\ pc \notin {"done"} /\ pc' # "done" /\ (state # "FAILED" \/ pc = "loop")
      BY <2>1 DEF TaskSkip, TaskNoExec, TaskComplete, Quiet, AfterRead, Reading,
         PassStarts, RunInv
    <3>2. \E b : CompleteOutright(t, b)
      BY <2>1 DEF TaskSkip, TaskNoExec, TaskComplete
    <3>3. runq_complete' = runq_complete \union {t}
      BY <3>2 DEF CompleteOutright
    <3>4. runq_running' \union active' \union {t} = runq_running \union active \union {t}
          /\ (runq_running' = runq_running \union {t} \/ (t \in active /\ runq_running' = runq_running))
          /\ (active' = active \/ active' = active \ {t})
      BY <2>1 DEF TaskSkip, TaskNoExec, TaskComplete, workVars
    <3> QED  BY <2>1, <3>1, <3>3, <3>4 DEF RunInv, TaskSkip, TaskNoExec, TaskComplete,
            Reading, PassStarts
  <2>2. CASE TaskRun(t)
    <3>1. /\ UNCHANGED <<rqdata, interrupted, failed_tids, state, runq_complete>> /\ pc = "task"
          /\ runq_running' = runq_running \union {t} /\ active' = active \union {t}
      BY <2>2 DEF TaskRun, Quiet
    <3> QED  BY <3>1 DEF RunInv
  <2>3. CASE TaskFail(t)
    <3>1. /\ UNCHANGED <<rqdata, interrupted, runq_complete, runq_running>> /\ pc # "done"
          /\ t \in active /\ active' = active \ {t} /\ failed_tids' = failed_tids \union {t}
          /\ state' = state \/ (rqdata.halt /\ state' = "CLEAN_UP")
          /\ state' # "FAILED"
      BY <2>3 DEF TaskFail, Quiet, Reading, PassStarts, RunInv
    <3> QED  BY <3>1 DEF RunInv
  <2>4. CASE \/ SceneComplete(t) \/ SceneFail(t) \/ (\E h \in Hashes : HashReport(t,
                 h)) \/ SceneStep(t)
    <3>1. /\ UNCHANGED <<rqdata, interrupted, runqVars, active, state>> /\ pc # "done"
          /\ state' # "FAILED"
      BY <2>4 DEF SceneComplete, SceneFail, HashReport, SceneStep, SceneNotNeeded,
         SceneHardDefer, SceneReject,
              SceneRun, Quiet, Reading, PassStarts, workVars, RunInv
    <3> QED  BY <3>1 DEF RunInv, runqVars
  <2> QED  BY <1>6, <2>1, <2>2, <2>3, <2>4 DEF WorkerReport, TaskStep
<1>7. CASE Ended \/ UNCHANGED vars
  BY <1>7 DEF Ended, vars, RunInv, workVars, runqVars
<1> QED  BY <1>2, <1>3, <1>4, <1>5, <1>6, <1>7 DEF Next

\* A build that has failed does nothing more.
LEMMA FailedIsFinal ==
  ASSUME RunInv, state = "FAILED", [Next]_vars
  PROVE  UNCHANGED <<rqdata, state, interrupted, runqVars>>
<1>1. pc \in {"loop", "done"}
  BY DEF RunInv
<1>2. CASE \/ SceneInit \/ SceneStart \/ Finish \/ BuildDone \/ Shutdown \/ ForceShutdown
           \/ ReadEnd \/ Migrate \/ HoldOffStep \/ TaskWait \/ ForceDeferred \/ QueueEmpty
  BY <1>1, <1>2 DEF SceneInit, SceneStart, Finish, BuildDone, Shutdown, ForceShutdown,
     ReadEnd, Migrate,
          HoldOffStep, TaskWait, ForceDeferred, QueueEmpty, Quiet, PassStarts
<1>3. ASSUME NEW t \in Tasks, WorkerReport(t) \/ SceneStep(t) \/ TaskStep(t) PROVE FALSE
  BY <1>1, <1>3
     DEF WorkerReport, SceneStep, TaskStep, TaskComplete, TaskFail, SceneComplete, SceneFail,
             HashReport,
         TaskSkip, TaskNoExec, TaskRun, SceneNotNeeded, SceneHardDefer, SceneReject, SceneRun,
         Reading, PassStarts
<1>4. CASE Ended \/ UNCHANGED vars
  BY <1>4 DEF Ended, vars
<1> QED  BY <1>2, <1>3, <1>4 DEF Next

\* A build fails with a failed task, and with -k when nothing else can be built.
LEMMA VerdictTrue ==
  ASSUME VerdictInv, CurrentInv', [Next]_vars PROVE FailureHasCause' /\ AsMuchAsPossible'
<1>1. CASE state = "FAILED"
  <2>1. UNCHANGED <<rqdata, state, interrupted, runqVars>>
    BY <1>1, FailedIsFinal DEF VerdictInv
  <2>2. Above(failed_tids)' = Above(failed_tids)
    BY <2>1 DEF Above, Revdeps, Depends, runqVars
  <2> QED  BY <2>1, <2>2 DEF VerdictInv, FailureHasCause, AsMuchAsPossible, runqVars
<1>2. CASE state # "FAILED" /\ state' = "FAILED"
  <2>1. ~HoldOffStep
    BY <1>2, NoErrorsAtHoldOff DEF VerdictInv
  <2>2. Finish \/ ForceShutdown \/ QueueEmpty
    <3>1. CASE SceneInit \/ SceneStart \/ BuildDone \/ Shutdown \/ ReadEnd \/ TaskWait \/ ForceDeferred
               \/ Ended \/ UNCHANGED vars
      BY <1>2, <3>1 DEF SceneInit, SceneStart, BuildDone, Shutdown, ReadEnd, TaskWait,
         ForceDeferred, Ended, vars
    <3>2. CASE Migrate
      BY <1>2, <3>2, MigrateOrderly DEF VerdictInv
    <3>3. ASSUME NEW t \in Tasks, WorkerReport(t) \/ SceneStep(t) \/ TaskStep(t) PROVE FALSE
      BY <1>2, <3>3
         DEF WorkerReport, SceneStep, TaskStep, TaskComplete, TaskFail, SceneComplete,
                 SceneFail, HashReport,
             TaskSkip, TaskNoExec, TaskRun, SceneNotNeeded, SceneHardDefer, SceneReject, SceneRun
    <3> QED  BY <2>1, <3>1, <3>2, <3>3 DEF Next
  <2>3. CASE Finish
    <3>1. failed_tids # {} /\ UNCHANGED <<rqdata, interrupted, failed_tids>> /\ state = "CLEAN_UP"
      BY <1>2, <2>3 DEF Finish, Finished, Quiet, runqVars
    <3> QED  BY <3>1 DEF VerdictInv, RunInv, FailureHasCause, AsMuchAsPossible
  <2>4. CASE ForceShutdown
    <3>1. failed_tids' # {} /\ interrupted' = 2
      BY <1>2, <2>4 DEF ForceShutdown, Finished, runqVars
    <3> QED  BY <3>1 DEF FailureHasCause, AsMuchAsPossible
  <2>5. CASE QueueEmpty
    <3>1. UNCHANGED <<rqdata, runqVars>>
      BY <2>5 DEF QueueEmpty, Quiet
    <3>2. failed_tids # {}
      BY <1>2, <2>5, EmptyIsComplete DEF VerdictInv
    <3>3. ~rqdata.halt => Tasks = runq_complete \union failed_tids \union Above(failed_tids)
      BY <2>5, EmptyIsMost DEF VerdictInv
    <3>4. Above(failed_tids)' = Above(failed_tids)
      BY <3>1 DEF Above, Revdeps, Depends, runqVars
    <3> QED  BY <3>1, <3>2, <3>3, <3>4 DEF FailureHasCause, AsMuchAsPossible, runqVars
  <2> QED  BY <2>2, <2>3, <2>4, <2>5
<1>3. CASE state' # "FAILED"
  BY <1>3 DEF FailureHasCause, AsMuchAsPossible
<1> QED  BY <1>1, <1>2, <1>3

\* Every step keeps the invariants.
LEMMA VerdictNext == ASSUME VerdictInv, [Next]_vars PROVE VerdictInv'
<1>1. /\ FedInv /\ SuccessInv /\ QueueInv /\ CurrentInv /\ PassInv /\ RunInv
      /\ HardAcyclic /\ FewLimited
  BY DEF VerdictInv
<1>2. FedInv' /\ SuccessInv'
  <2>1. FedInv'
    BY <1>1, FedInvNext
  <2>2. KeptInv' /\ EndInv'
    BY <1>1, KeptNext, EndNext DEF SuccessInv, GraphOfTasks
  <2> QED  BY <2>1, <2>2 DEF SuccessInv, FedInv
<1>3. CurrentInv'
  BY <1>1, CurrentNext
<1>4. QueueInv' /\ PassInv' /\ RunInv'
  BY <1>1, <1>3, QueueNext, PassNext, RunNext
<1>5. HardAcyclic' /\ FewLimited'
  <2>1. rqdata' = rqdata
    <3>1. CASE SceneInit
      BY <3>1 DEF SceneInit
    <3>2. CASE ~SceneInit
      BY <3>2, GraphKept
    <3> QED  BY <3>1, <3>2
  <2> QED  BY <1>1, <2>1 DEF HardAcyclic, FewLimited, Setscene
<1> QED  BY <1>2, <1>3, <1>4, <1>5, VerdictTrue DEF VerdictInv

\* What a build reports is so: it fails only when one of its tasks has, success is
\* the whole build, and a failure with -k has built all that it could.  The
\* hypotheses: no setscene task needs itself through others, or has a stamp of an
\* earlier build while it needs another; and with -k one task at most has the limited
\* name: RunQueueLimited.cfg shows that two are too many.
THEOREM VerdictsAreTrue ==
  ASSUME \A b \in Builds :
           /\ \E rank \in [b.setscene -> Nat] :
                \A s \in b.setscene : \A h \in b.hard[s] : rank[h] < rank[s]
           /\ \A s \in b.setscene \intersect b.stamp : b.hard[s] = {}
           /\ b.halt \/ \A t, u \in b.limited : t = u
  PROVE  Spec => []VerdictIsTrue
<1>1. Init => VerdictInv
  <2> SUFFICES ASSUME Init PROVE VerdictInv
    OBVIOUS
  <2>1. HardUnstamped /\ HardAcyclic /\ FewLimited
    BY DEF Init, HardUnstamped, HardAcyclic, FewLimited, Setscene
  <2>2. FedInv
    BY <2>1, FedInvInit
  <2>3. SuccessInv
    BY <2>2 DEF SuccessInv, FedInv, Init, KeptInv, EndInv, Unrun, CompleteIsComplete
  <2>4. QueueInv /\ CurrentInv /\ PassInv /\ RunInv /\ FailureHasCause /\ AsMuchAsPossible
    BY DEF Init, QueueInv, NeededInv, CurrentInv, PassInv, RunInv, FailureHasCause, AsMuchAsPossible,
       Handled
  <2> QED  BY <2>1, <2>2, <2>3, <2>4 DEF VerdictInv
<1>2. VerdictInv => VerdictIsTrue
  BY DEF VerdictInv, SuccessInv, EndInv, VerdictIsTrue
<1> QED  BY <1>1, <1>2, VerdictNext, PTL DEF Spec
=============================================================================
