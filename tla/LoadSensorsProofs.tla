-------------------------- MODULE LoadSensorsProofs --------------------------
(***************************************************************************)
(* Proofs about the sensors of the loads (LoadSensors), for every set of   *)
(* pids, period, interval and step of the clock; about those of the        *)
(* frequencies (PStates, as PS), for every number of CPUs and every kind   *)
(* of file; and about the upload without BOINC (Upload, as U), for all     *)
(* names, ids and configs.  The loads are sums over processes: the facts   *)
(* about SumFunction come first.                                           *)
(***************************************************************************)
EXTENDS MCLoadSensors, FiniteSetTheorems, SequenceTheorems, WellFoundedInduction, TLAPS

----------------------------------------------------------------------------
\* A set of numbers has a least one.
LEMMA Least ==
  ASSUME NEW S, S \subseteq Nat, S # {}
  PROVE  \E x \in S : \A y \in S : x <= y
<1>1. \E x \in S : \A y \in S : ~(<<y, x>> \in OpToRel(<, Nat))
  BY WFMin, NatLessThanWellFounded, Zenon
<1>2. \A x, y \in S : ~(<<y, x>> \in OpToRel(<, Nat)) => ~(y < x)
  BY DEF OpToRel
<1>3. \A x, y \in S : ~(y < x) => x <= y
  OBVIOUS
<1>4. QED
  BY <1>1, <1>2, <1>3, Zenon

\* The first element that SumFunction takes of a set, and its recursion over the
\* subsets of S.
First(s) == CHOOSE x \in s : TRUE
Step(f, S, g) ==
  [s \in SUBSET S |-> IF s = {} THEN 0 ELSE f[First(s)] + g[s \ {First(s)}]]
Iter(f, S) == CHOOSE g : g = Step(f, S, g)

LEMMA SumIs ==
  ASSUME NEW f
  PROVE  SumFunction(f) = Iter(f, DOMAIN f)[DOMAIN f]
BY Zenon DEF SumFunction, SumFunctionOnSet, FoldFunctionOnSet, MapThenFoldSet, Iter, Step, First

\* The subsets of a finite set.
LEMMA Subsets ==
  ASSUME NEW S, IsFiniteSet(S), NEW s \in SUBSET S
  PROVE  /\ IsFiniteSet(s) /\ Cardinality(s) \in Nat /\ Cardinality(s) <= Cardinality(S)
         /\ s = {} <=> Cardinality(s) = 0
         /\ \A x \in s : s \ {x} \in SUBSET S /\ Cardinality(s \ {x}) = Cardinality(s) - 1
         /\ s # {} => First(s) \in s
<1>1. /\ IsFiniteSet(s) /\ Cardinality(s) <= Cardinality(S)
  BY FS_Subset
<1>2. Cardinality(s) \in Nat /\ (s = {} <=> Cardinality(s) = 0)
  BY <1>1, FS_CardinalityType, FS_EmptySet
<1>3. \A x \in s : Cardinality(s \ {x}) = Cardinality(s) - 1
  BY <1>1, FS_RemoveElement
<1>4. s # {} => First(s) \in s
  BY DEF First
<1>5. QED
  BY <1>1, <1>2, <1>3, <1>4

\* The recursion has a solution.
LEMMA IterExists ==
  ASSUME NEW f, NEW S, IsFiniteSet(S)
  PROVE  \E g : g = Step(f, S, g)
<1> DEFINE Body(g, s) == IF s = {} THEN 0 ELSE f[First(s)] + g[s \ {First(s)}]
           Solves(g, n) == \A s \in SUBSET S : Cardinality(s) <= n => g[s] = Body(g, s)
           Open == {n \in Nat : ~\E g : Solves(g, n)}
<1>1. \E g : Solves(g, 0)
  <2>1. \A s \in SUBSET S : Cardinality(s) <= 0 => s = {}
    BY Subsets
  <2>2. Solves([s \in SUBSET S |-> 0], 0)
    BY <2>1
  <2>3. QED
    BY <2>2
<1>2. ASSUME NEW n \in Nat, NEW g, Solves(g, n)
      PROVE  \E k : Solves(k, n + 1)
  <2> DEFINE k == [s \in SUBSET S |-> IF Cardinality(s) <= n THEN g[s] ELSE Body(g, s)]
  <2>1. ASSUME NEW s \in SUBSET S, Cardinality(s) <= n + 1
        PROVE  k[s] = Body(k, s)
    <3>1. k[s] = Body(g, s)
      BY <1>2
    <3>2. CASE s = {}
      BY <3>1, <3>2
    <3>3. CASE s # {}
      <4>1. First(s) \in s /\ s \ {First(s)} \in SUBSET S /\ Cardinality(s \ {First(s)}) <= n
        BY <2>1, <3>3, Subsets
      <4>2. k[s \ {First(s)}] = g[s \ {First(s)}]
        BY <4>1
      <4>3. QED
        BY <3>1, <3>3, <4>2
    <3>4. QED
      BY <3>2, <3>3
  <2> HIDE DEF k
  <2>2. Solves(k, n + 1)
    BY <2>1
  <2>3. QED
    BY <2>2
<1>3. \A n \in Nat : \E g : Solves(g, n)
  <2> HIDE DEF Solves
  <2> SUFFICES ASSUME Open # {}
               PROVE  FALSE
    OBVIOUS
  <2>1. PICK n \in Open : \A m \in Open : n <= m
    BY Least
  <2>2. n # 0 /\ n \in Nat
    BY <1>1, <2>1
  <2>3. n - 1 \in Nat /\ n - 1 \notin Open /\ (n - 1) + 1 = n
    BY <2>1, <2>2
  <2>4. PICK g : Solves(g, n - 1)
    BY <2>3
  <2>5. \E k : Solves(k, n)
    BY <1>2, <2>3, <2>4
  <2>6. QED
    BY <2>1, <2>5
<1>4. Cardinality(S) \in Nat
  BY FS_CardinalityType
<1>5. PICK g : Solves(g, Cardinality(S))
  BY <1>3, <1>4
<1>6. \A s \in SUBSET S : g[s] = Body(g, s)
  BY <1>5, Subsets
<1> DEFINE k == [s \in SUBSET S |-> g[s]]
<1>7. ASSUME NEW s \in SUBSET S
      PROVE  k[s] = Body(k, s)
  BY <1>6, Subsets
<1>8. k = [s \in SUBSET S |-> Body(k, s)]
  <2>1. \A s \in SUBSET S : k[s] = Body(k, s)
    BY <1>7
  <2> HIDE DEF Body
  <2>2. k = [s \in SUBSET S |-> k[s]]
    OBVIOUS
  <2> HIDE DEF k
  <2>3. QED
    BY <2>1, <2>2
<1>9. k = Step(f, S, k)
  BY <1>8 DEF Step
<1>10. QED
  BY <1>9, Zenon

LEMMA IterIs ==
  ASSUME NEW f, NEW S, IsFiniteSet(S), NEW s \in SUBSET S
  PROVE  Iter(f, S)[s] = IF s = {} THEN 0
                         ELSE f[First(s)] + Iter(f, S)[s \ {First(s)}]
<1>1. Iter(f, S) = Step(f, S, Iter(f, S))
  BY IterExists, Zenon DEF Iter
<1>2. Step(f, S, Iter(f, S))[s] = IF s = {} THEN 0
                                  ELSE f[First(s)] + Iter(f, S)[s \ {First(s)}]
  BY DEF Step
<1>3. QED
  BY <1>1, <1>2, Zenon

LEMMA IterType ==
  ASSUME NEW S, IsFiniteSet(S), NEW f \in [S -> Int], NEW s \in SUBSET S
  PROVE  Iter(f, S)[s] \in Int
<1> DEFINE It(t) == Iter(f, S)[t]
           Bad == {n \in Nat : \E t \in SUBSET S : Cardinality(t) = n /\ It(t) \notin Int}
<1>1. \A t \in SUBSET S : It(t) = IF t = {} THEN 0 ELSE f[First(t)] + It(t \ {First(t)})
  BY IterIs
<1> HIDE DEF It
<1>2. SUFFICES ASSUME It(s) \notin Int
               PROVE  FALSE
  BY DEF It
<1>3. Cardinality(s) \in Bad
  BY <1>2, Subsets
<1>4. PICK n \in Bad : \A m \in Bad : n <= m
  BY <1>3, Least
<1>5. PICK t \in SUBSET S : Cardinality(t) = n /\ It(t) \notin Int
  BY <1>4
<1>6. t # {} /\ First(t) \in t /\ It(t \ {First(t)}) \notin Int
  BY <1>1, <1>5, Subsets
<1>7. Cardinality(t \ {First(t)}) = n - 1 /\ n - 1 \in Nat /\ t \ {First(t)} \in SUBSET S
  BY <1>5, <1>6, Subsets
<1>8. n - 1 \in Bad
  BY <1>6, <1>7
<1>9. QED
  BY <1>4, <1>8

\* Any element may be taken first.
LEMMA IterAny ==
  ASSUME NEW S, IsFiniteSet(S), NEW f \in [S -> Int], NEW s \in SUBSET S, NEW x \in s
  PROVE  Iter(f, S)[s] = f[x] + Iter(f, S)[s \ {x}]
<1> DEFINE It(t) == Iter(f, S)[t]
           Wrong(t) == \E y \in t : It(t) # f[y] + It(t \ {y})
           Bad == {n \in Nat : \E t \in SUBSET S : Cardinality(t) = n /\ Wrong(t)}
<1>1. ASSUME NEW t \in SUBSET S
      PROVE  It(t) = IF t = {} THEN 0 ELSE f[First(t)] + It(t \ {First(t)})
  BY IterIs
<1>2. \A t \in SUBSET S : It(t) \in Int
  BY IterType
<1>3. SUFFICES ASSUME Wrong(s)
               PROVE  FALSE
  OBVIOUS
<1> HIDE DEF It
<1>4. Cardinality(s) \in Bad
  BY <1>3, Subsets
<1>5. PICK n \in Bad : \A m \in Bad : n <= m
  BY <1>4, Least
<1>6. PICK t \in SUBSET S : Cardinality(t) = n /\ Wrong(t)
  BY <1>5
<1>7. PICK y \in t : It(t) # f[y] + It(t \ {y})
  BY <1>6
<1> DEFINE z == First(t)
           ty == t \ {y}
           tz == t \ {z}
<1>8. z \in t /\ It(t) = f[z] + It(tz)
  BY <1>1, <1>7, Subsets
<1>9. /\ ty \in SUBSET S /\ tz \in SUBSET S /\ n - 1 \in Nat /\ n \in Nat
      /\ Cardinality(ty) = n - 1 /\ Cardinality(tz) = n - 1
  BY <1>6, <1>7, <1>8, Subsets
<1>10. y # z
  BY <1>7, <1>8
<1>11. n - 1 \notin Bad
  BY <1>5, <1>9
<1>12. ~Wrong(ty) /\ ~Wrong(tz)
  BY <1>9, <1>11
<1>13. It(ty) = f[z] + It(ty \ {z}) /\ It(tz) = f[y] + It(tz \ {y})
  BY <1>7, <1>8, <1>10, <1>12
<1>14. ty \ {z} = tz \ {y} /\ ty \ {z} \in SUBSET S
  BY <1>9
<1>15. f[y] \in Int /\ f[z] \in Int /\ It(ty \ {z}) \in Int
  BY <1>2, <1>7, <1>8, <1>14, <1>6
<1> HIDE DEF z, ty, tz
<1>16. It(t) = f[y] + It(ty)
  <2>1. It(ty \ {z}) = It(tz \ {y})
    BY <1>14
  <2>2. It(t) = f[z] + (f[y] + It(ty \ {z})) /\ It(ty) = f[z] + It(ty \ {z})
    BY <1>8, <1>13, <2>1
  <2>3. QED
    BY <1>15, <2>2
<1>17. QED
  BY <1>7, <1>16 DEF ty

\* A sum of less is less.
LEMMA IterLess ==
  ASSUME NEW S, IsFiniteSet(S), NEW f \in [S -> Int], NEW s \in SUBSET S,
         NEW T, IsFiniteSet(T), NEW g \in [T -> Int], NEW t \in SUBSET T,
         t \subseteq s, \A x \in t : g[x] <= f[x], \A x \in s \ t : f[x] >= 0
  PROVE  Iter(g, T)[t] <= Iter(f, S)[s]
<1> DEFINE F(u) == Iter(f, S)[u]
           G(u) == Iter(g, T)[u]
           Less(u, v) == /\ v \subseteq u /\ \A x \in v : g[x] <= f[x]
                         /\ \A x \in u \ v : f[x] >= 0
           Wrong(u, v) == Less(u, v) /\ ~(G(v) <= F(u))
           Bad == {n \in Nat : \E u \in SUBSET S, v \in SUBSET T :
                                  Cardinality(u) = n /\ Wrong(u, v)}
<1>1. /\ F({}) = 0 /\ G({}) = 0
      /\ \A u \in SUBSET S : F(u) \in Int /\ \A x \in u : F(u) = f[x] + F(u \ {x})
      /\ \A v \in SUBSET T : G(v) \in Int /\ \A x \in v : G(v) = g[x] + G(v \ {x})
  <2>1. F({}) = 0
    BY IterIs, Zenon
  <2>2. G({}) = 0
    BY IterIs, Zenon
  <2>3. \A u \in SUBSET S : F(u) \in Int /\ \A x \in u : F(u) = f[x] + F(u \ {x})
    BY IterType, IterAny
  <2>4. \A v \in SUBSET T : G(v) \in Int /\ \A x \in v : G(v) = g[x] + G(v \ {x})
    BY IterType, IterAny
  <2>5. QED
    BY <2>1, <2>2, <2>3, <2>4
<1>2. SUFFICES ASSUME Wrong(s, t)
               PROVE  FALSE
  OBVIOUS
<1> HIDE DEF F, G
<1>3. Cardinality(s) \in Bad
  BY <1>2, Subsets
<1>4. PICK n \in Bad : \A m \in Bad : n <= m
  BY <1>3, Least
<1>5. PICK u \in SUBSET S, v \in SUBSET T : Cardinality(u) = n /\ Wrong(u, v)
  BY <1>4
<1>6. u # {}
  <2> SUFFICES ASSUME u = {}
               PROVE  G(v) <= F(u)
    BY <1>5
  <2>1. v = {}
    BY <1>5
  <2>2. G({}) <= F({})
    BY <1>1
  <2>3. QED
    BY <2>1, <2>2
<1>7. PICK x \in u : TRUE
  BY <1>6
<1>8. /\ u \ {x} \in SUBSET S /\ v \ {x} \in SUBSET T /\ n - 1 \in Nat
      /\ Cardinality(u \ {x}) = n - 1 /\ f[x] \in Int
  BY <1>5, <1>7, Subsets
<1>9. n - 1 \notin Bad
  BY <1>4, <1>8
<1>10. ~Wrong(u \ {x}, v \ {x})
  BY <1>8, <1>9
<1>11. Less(u \ {x}, v \ {x})
  BY <1>5
<1>12. G(v \ {x}) <= F(u \ {x})
  BY <1>10, <1>11
<1>13. F(u) = f[x] + F(u \ {x}) /\ F(u) \in Int /\ F(u \ {x}) \in Int /\ G(v \ {x}) \in Int
  BY <1>1, <1>7, <1>8
<1>14. CASE x \in v
  <2>1. G(v) = g[x] + G(v \ {x}) /\ g[x] \in Int /\ g[x] <= f[x]
    BY <1>1, <1>5, <1>14
  <2>2. QED
    BY <1>5, <1>8, <1>12, <1>13, <2>1
<1>15. CASE x \notin v
  <2>1. v \ {x} = v /\ f[x] >= 0
    BY <1>5, <1>7, <1>15
  <2>2. G(v) <= F(u \ {x}) /\ G(v) \in Int
    BY <1>12, <1>13, <2>1
  <2>3. G(v) <= F(u)
    BY <1>8, <1>13, <2>1, <2>2
  <2>4. QED
    BY <1>5, <2>3
<1>16. QED
  BY <1>14, <1>15

LEMMA SumType ==
  ASSUME NEW S, IsFiniteSet(S), NEW f \in [S -> Int]
  PROVE  SumFunction(f) \in Int
<1>1. SumFunction(f) = Iter(f, S)[S]
  BY SumIs
<1>2. QED
  BY <1>1, IterType

LEMMA SumLess ==
  ASSUME NEW S, IsFiniteSet(S), NEW f \in [S -> Int],
         NEW T, T \subseteq S, NEW g \in [T -> Int],
         \A x \in T : g[x] <= f[x], \A x \in S \ T : f[x] >= 0
  PROVE  SumFunction(g) <= SumFunction(f)
<1>1. SumFunction(f) = Iter(f, S)[S] /\ SumFunction(g) = Iter(g, T)[T]
  BY SumIs
<1>2. IsFiniteSet(T)
  BY FS_Subset
<1>3. Iter(g, T)[T] <= Iter(f, S)[S]
  BY <1>2, IterLess
<1>4. QED
  BY <1>1, <1>3

\* One more in one place.
LEMMA SumUp ==
  ASSUME NEW S, IsFiniteSet(S), NEW f \in [S -> Int], NEW g \in [S -> Int],
         NEW p \in S, g[p] = f[p] + 1, \A x \in S : x # p => g[x] = f[x]
  PROVE  SumFunction(g) <= SumFunction(f) + 1
<1>1. SumFunction(f) = Iter(f, S)[S] /\ SumFunction(g) = Iter(g, S)[S]
  BY SumIs
<1>2. Iter(f, S)[S] = f[p] + Iter(f, S)[S \ {p}] /\ Iter(g, S)[S] = g[p] + Iter(g, S)[S \ {p}]
  BY IterAny
<1>3. Iter(g, S)[S \ {p}] <= Iter(f, S)[S \ {p}]
  <2>1. \A x \in S \ {p} : g[x] <= f[x]
    OBVIOUS
  <2>2. S \ {p} \in SUBSET S /\ \A x \in (S \ {p}) \ (S \ {p}) : f[x] >= 0
    OBVIOUS
  <2>3. QED
    BY <2>1, <2>2, IterLess
<1>4. Iter(f, S)[S \ {p}] \in Int /\ Iter(g, S)[S \ {p}] \in Int
  BY IterType
<1>5. QED
  BY <1>1, <1>2, <1>3, <1>4

\* A part is no more than the whole.
LEMMA SumOver ==
  ASSUME NEW S, IsFiniteSet(S), NEW f \in [S -> Int], \A x \in S : f[x] >= 0, NEW p \in S
  PROVE  f[p] <= SumFunction(f)
<1>1. SumFunction(f) = f[p] + Iter(f, S)[S \ {p}]
  <2>1. SumFunction(f) = Iter(f, S)[S]
    BY SumIs
  <2>2. Iter(f, S)[S] = f[p] + Iter(f, S)[S \ {p}]
    BY IterAny
  <2>3. QED
    BY <2>1, <2>2
<1>2. Iter(f, S)[{}] <= Iter(f, S)[S \ {p}]
  <2>1. {} \in SUBSET S /\ S \ {p} \in SUBSET S /\ {} \subseteq S \ {p}
    OBVIOUS
  <2>2. \A x \in {} : f[x] <= f[x]
    OBVIOUS
  <2>3. QED
    BY <2>1, <2>2, IterLess
<1>3. Iter(f, S)[{}] = 0 /\ Iter(f, S)[S \ {p}] \in Int
  <2>1. Iter(f, S)[{}] = 0
    BY IterIs, Zenon
  <2>2. QED
    BY <2>1, IterType
<1>4. QED
  BY <1>1, <1>2, <1>3

LEMMA IterMore ==
  ASSUME NEW f, NEW S, IsFiniteSet(S)
  PROVE  \A s \in SUBSET S : s # {} =>
           Iter(f, S)[s] = f[First(s)] + Iter(f, S)[s \ {First(s)}]
<1>1. Iter(f, S) = Step(f, S, Iter(f, S))
  BY IterExists, Zenon DEF Iter
<1>2. \A s \in SUBSET S : s # {} =>
        Step(f, S, Iter(f, S))[s] = f[First(s)] + Iter(f, S)[s \ {First(s)}]
  BY DEF Step
<1>3. QED
  BY <1>1, <1>2, Zenon

LEMMA SumZero ==
  ASSUME NEW S, IsFiniteSet(S), NEW f \in [S -> Int], \A x \in S : f[x] = 0
  PROVE  SumFunction(f) = 0
<1> DEFINE It(t) == Iter(f, S)[t]
           Bad == {n \in Nat : \E t \in SUBSET S : Cardinality(t) = n /\ It(t) # 0}
<1>1. /\ It({}) = 0
      /\ \A t \in SUBSET S : t # {} => It(t) = f[First(t)] + It(t \ {First(t)})
  <2>1. It({}) = 0
    BY IterIs, Zenon
  <2>2. \A t \in SUBSET S : t # {} =>
          Iter(f, S)[t] = f[First(t)] + Iter(f, S)[t \ {First(t)}]
    BY IterMore
  <2>3. QED
    BY <2>1, <2>2, Zenon
<1> HIDE DEF It
<1>2. It(S) = 0
  <2> SUFFICES ASSUME It(S) # 0
               PROVE  FALSE
    OBVIOUS
  <2>1. Cardinality(S) \in Bad
    BY Subsets
  <2>2. PICK n \in Bad : \A m \in Bad : n <= m
    BY <2>1, Least
  <2>3. PICK t \in SUBSET S : Cardinality(t) = n /\ It(t) # 0
    BY <2>2
  <2>4. t # {} /\ First(t) \in t
    BY <1>1, <2>3, Subsets, Zenon
  <2>5. /\ t \ {First(t)} \in SUBSET S /\ Cardinality(t \ {First(t)}) = n - 1
        /\ n - 1 \in Nat
    BY <2>3, <2>4, Subsets
  <2>6. It(t \ {First(t)}) = 0
    <3>1. n - 1 \notin Bad
      BY <2>2, <2>5
    <3>2. QED
      BY <2>5, <3>1
  <2>7. It(t) = 0
    BY <1>1, <2>3, <2>4, <2>6
  <2>8. QED
    BY <2>3, <2>7
<1>3. QED
  BY <1>2, SumIs DEF It

----------------------------------------------------------------------------
(***************************************************************************)
(* The times of the datapoints of loads.                                   *)
(***************************************************************************)
LEMMA LA == LoadAssumption
BY TablesAssumption

\* The processes, by pid.
Processes == UNION {[P -> Process] : P \in SUBSET Pid}
Before == [proc : Processes, idle : Nat, real : Nat, time : Int, jump : BOOLEAN,
           back : Nat]

Numbers ==
  /\ real \in Nat /\ offset \in Int
  /\ m_update_time \in Nat /\ m_record_time \in Nat
  /\ m_error \in BOOLEAN /\ polled \in BOOLEAN /\ clockSet \in BOOLEAN
  /\ proc \in Processes /\ idle \in Nat /\ births \in Nat
  /\ before \in Before /\ before.real <= real

\* The wall clock was set once at most.
SetOnce == ~clockSet => before.back = 0 /\ offset \in Nat

\* The time of the last update is that of the last datapoint, or none was due so far.
Recorded ==
  ~m_error => \/ m_record_time = 0 /\ m_update_time = 0
              \/ /\ m_record_time = m_update_time
                 /\ before.time = (m_record_time \div m_update_period) * m_update_period

\* The last update was no later than the half second of the last datapoint, by the wall
\* clock of then; and since then every poll found that none was due.
Silent ==
  ~m_error => /\ 2 * m_update_time <= before.real + offset + before.back
              /\ real - before.real <= 2 * m_update_period + before.back
              /\ polled => real - before.real < 2 * m_update_period + before.back

TimesInv == Numbers /\ SetOnce /\ Recorded /\ Silent /\ TimesIncrease

----------------------------------------------------------------------------
LEMMA LoadLimits ==
  /\ m_update_period \in Nat \ {0} /\ Bits \in Nat
  /\ ClockSteps \subseteq Int
BY LA DEF LoadAssumption

LEMMA SetBackIs ==
  ASSUME NEW d \in Int
  PROVE  /\ Max({0, -d}) \in Nat /\ d + Max({0, -d}) >= 0
<1>1. \E x \in {0, -d} : \A y \in {0, -d} : x >= y
  OBVIOUS
<1>2. Max({0, -d}) \in {0, -d} /\ \A y \in {0, -d} : Max({0, -d}) >= y
  BY <1>1 DEF Max
<1>3. QED
  BY <1>2

\* What ends a period later is rounded to a later time.
LEMMA RoundedLater ==
  ASSUME NEW t \in Int, NEW u \in Int, NEW p \in Nat \ {0}, t >= u + p
  PROVE  (u \div p) * p < (t \div p) * p
<1>1. u \div p \in Int /\ t \div p \in Int
  OBVIOUS
<1>2. (u \div p) * p <= u /\ u < (u \div p) * p + p
  OBVIOUS
<1>3. (t \div p) * p <= t /\ t < (t \div p) * p + p
  OBVIOUS
<1>4. (u \div p) * p < (t \div p) * p
  BY <1>1, <1>2, <1>3
<1>5. QED
  BY <1>4

----------------------------------------------------------------------------
\* What the system does between two updates, but for the clock.
SystemStep ==
  /\ UNCHANGED <<manager, clockVars, sensorVars, before, trickle>>
  /\ proc' \in Processes /\ idle' \in Nat /\ births' \in Nat
  /\ polled' \in BOOLEAN
  /\ \/ real' = real /\ polled' = polled
     \/ polled /\ ~polled' /\ real' = real + 1

LEMMA RunType ==
  ASSUME Numbers, NEW p, Run(p)
  PROVE  SystemStep /\ ~polled' /\ real' = real + 1
<1>1. proc' \in Processes /\ idle' \in Nat
  <2>1. PICK P \in SUBSET Pid : proc \in [P -> Process]
    BY DEF Numbers, Processes
  <2>2. CASE p \in DOMAIN proc
    <3>1. proc[p] \in Process /\ proc' = [proc EXCEPT ![p].used = @ + 1] /\ idle' = idle
      BY <2>1, <2>2 DEF Run
    <3>2. [proc[p] EXCEPT !.used = @ + 1] \in Process
      BY <3>1 DEF Process
    <3>3. proc' = [proc EXCEPT ![p] = [proc[p] EXCEPT !.used = @ + 1]]
      BY <3>1
    <3>4. proc' \in [P -> Process]
      BY <2>1, <2>2, <3>2, <3>3
    <3>5. QED
      BY <3>1, <3>4 DEF Numbers, Processes
  <2>3. CASE p \notin DOMAIN proc
    BY <2>3 DEF Run, Numbers
  <2>4. QED
    BY <2>2, <2>3
<1>2. QED
  BY <1>1 DEF Run, SystemStep, Numbers

LEMMA ForkType ==
  ASSUME Numbers, NEW p \in Pid, NEW u \in User, Fork(p, u)
  PROVE  SystemStep
<1>1. PICK P \in SUBSET Pid : proc \in [P -> Process]
  BY DEF Numbers, Processes
<1>2. /\ births' = births + 1
      /\ proc' = [q \in P \cup {p} |->
           IF q = p THEN [uid |-> u, born |-> births', used |-> 0] ELSE proc[q]]
  BY <1>1 DEF Fork, System
<1>3. proc' \in [P \cup {p} -> Process]
  BY <1>1, <1>2 DEF Numbers, Process
<1>4. proc' \in Processes
  BY <1>3 DEF Processes
<1>5. QED
  BY <1>4 DEF Fork, System, SystemStep, Numbers

LEMMA ExitType ==
  ASSUME Numbers, NEW p \in Pid, Exit(p)
  PROVE  SystemStep
<1>1. PICK P \in SUBSET Pid : proc \in [P -> Process]
  BY DEF Numbers, Processes
<1>2. proc' = [q \in P \ {p} |-> proc[q]]
  BY <1>1 DEF Exit, System
<1>3. proc' \in [P \ {p} -> Process]
  BY <1>1, <1>2
<1>4. proc' \in Processes
  BY <1>3 DEF Processes
<1>5. QED
  BY <1>4 DEF Exit, System, SystemStep, Numbers

LEMMA LogType ==
  ASSUME Numbers, LogInOrOut
  PROVE  SystemStep
BY DEF LogInOrOut, System, SystemStep, Numbers

\* Time goes on by half a second after a poll only.
LEMMA SystemTimes ==
  ASSUME TimesInv, SystemStep
  PROVE  TimesInv'
<1>1. /\ offset' = offset /\ clockSet' = clockSet
      /\ m_update_time' = m_update_time /\ m_record_time' = m_record_time
      /\ m_error' = m_error /\ before' = before /\ last' = last
      /\ real' \in Nat /\ real <= real' /\ proc' \in Processes /\ idle' \in Nat
      /\ births' \in Nat
  BY DEF SystemStep, clockVars, sensorVars, TimesInv, Numbers
<1>6. polled' \in BOOLEAN
  BY DEF SystemStep
<1>2. Numbers'
  BY <1>1, <1>6 DEF TimesInv, Numbers, Before
<1>3. SetOnce' /\ Recorded' /\ TimesIncrease'
  BY <1>1 DEF TimesInv, SetOnce, Recorded, TimesIncrease
<1>4. Silent'
  BY <1>1, LoadLimits DEF SystemStep, TimesInv, Numbers, Before, Silent
<1>5. QED
  BY <1>2, <1>3, <1>4 DEF TimesInv

LEMMA ClockTimes ==
  ASSUME TimesInv, NEW d \in ClockSteps, SetClock(d)
  PROVE  TimesInv'
<1>1. /\ d \in Int /\ offset' = offset + d /\ clockSet' = TRUE /\ polled
      /\ before' = [before EXCEPT !.jump = TRUE, !.back = Max({0, -d})]
      /\ before.back = 0
      /\ real' = real /\ m_update_time' = m_update_time /\ m_record_time' = m_record_time
      /\ m_error' = m_error /\ last' = last /\ polled' = polled
      /\ proc' = proc /\ idle' = idle /\ births' = births
  BY LoadLimits DEF SetClock, sensorVars, systemVars, TimesInv, SetOnce
<1>2. /\ before'.back = Max({0, -d})
      /\ before'.back \in Nat /\ d + before'.back >= 0
  BY <1>1, SetBackIs DEF TimesInv, Numbers, Before
<1>3. before' \in Before /\ before'.real = before.real /\ before'.time = before.time
  BY <1>1, <1>2 DEF TimesInv, Numbers, Before
<1>4. Numbers'
  BY <1>1, <1>2, <1>3 DEF TimesInv, Numbers
<1>5. SetOnce' /\ Recorded' /\ TimesIncrease'
  BY <1>1, <1>3 DEF TimesInv, SetOnce, Recorded, TimesIncrease
<1>6. Silent'
  BY <1>1, <1>2, <1>3, LoadLimits DEF TimesInv, Numbers, Before, Silent
<1>7. QED
  BY <1>4, <1>5, <1>6 DEF TimesInv

\* Every datapoint.
LEMMA DatapointIs ==
  ASSUME NEW ticks, NEW d, d = Datapoint(ticks)
  PROVE  /\ d.time = rounded_t /\ d.after = before.time /\ d.ticks = ticks
         /\ d.seconds = time - m_record_time /\ d.passed = real - before.real
         /\ d.used = (IF manager = "cpu" THEN idle - before.idle ELSE Used)
         /\ d.sound = (~before.jump /\ ~Reused)
BY DEF Datapoint

LEMMA VisibleType ==
  ASSUME Numbers
  PROVE  Visible \in Processes
<1>1. PICK P \in SUBSET Pid : proc \in [P -> Process]
  BY DEF Numbers, Processes
<1>2. {p \in DOMAIN proc : proc[p].uid \in Users} \in SUBSET Pid
  BY <1>1
<1>3. Visible \in [{p \in DOMAIN proc : proc[p].uid \in Users} -> Process]
  BY <1>1 DEF Visible
<1>4. QED
  BY <1>2, <1>3 DEF Processes

LEMMA UpdateTimes ==
  ASSUME TimesInv, update_sensors, UNCHANGED <<manager, real, clockVars, systemVars>>,
         polled' \in BOOLEAN
  PROVE  TimesInv'
<1>1. /\ real' = real /\ offset' = offset /\ clockSet' = clockSet
      /\ proc' = proc /\ idle' = idle /\ births' = births
  BY DEF clockVars, systemVars
<1>2. time \in Int /\ 2 * time <= real + offset /\ real + offset < 2 * time + 2
  BY DEF time, TimesInv, Numbers
<1>3. CASE ~Due
  <2>1. UNCHANGED <<sensorVars, before>>
    BY <1>3 DEF update_sensors
  <2>2. /\ m_update_time' = m_update_time /\ m_record_time' = m_record_time
        /\ m_error' = m_error /\ before' = before /\ last' = last
    BY <2>1 DEF sensorVars
  <2>3. Numbers'
    BY <1>1, <2>2 DEF TimesInv, Numbers
  <2>4. SetOnce' /\ Recorded' /\ TimesIncrease'
    BY <1>1, <2>2 DEF TimesInv, SetOnce, Recorded, TimesIncrease
  <2>5. Silent'
    BY <1>1, <1>2, <1>3, <2>2, LoadLimits DEF Due, TimesInv, Numbers, Before, Silent
  <2>6. QED
    BY <2>3, <2>4, <2>5 DEF TimesInv
<1>4. CASE Due
  <2>1. /\ m_update_time' = time /\ time >= m_update_time + m_update_period /\ ~m_error
        /\ time \in Nat
    BY <1>2, <1>4, LoadLimits DEF update_sensors, Due, TimesInv, Numbers
  <2>2. CASE Unreadable
    <3>1. /\ m_record_time' = m_record_time
          /\ m_error' = TRUE /\ before' = before /\ last' = last
      BY <2>2 DEF Unreadable
    <3>2. Numbers'
      BY <1>1, <2>1, <3>1 DEF TimesInv, Numbers
    <3>3. SetOnce' /\ Recorded' /\ TimesIncrease' /\ Silent'
      BY <1>1, <3>1 DEF TimesInv, SetOnce, Recorded, TimesIncrease, Silent
    <3>4. QED
      BY <3>2, <3>3 DEF TimesInv
  <2>3. CASE Read
    <3>1. /\ m_record_time' = time /\ m_error' = FALSE
          /\ before' = [proc |-> Visible, idle |-> idle, real |-> real, time |-> rounded_t,
                        jump |-> FALSE, back |-> 0]
          /\ last' = IF m_record_time = 0 THEN last
                     ELSE {Datapoint(IF manager = "cpu" THEN BusyTicks
                                     ELSE Gained(m_stat_history))}
      BY <2>3 DEF Read
    <3>2. rounded_t \in Int /\ rounded_t = (time \div m_update_period) * m_update_period
      BY <2>1, LoadLimits DEF rounded_t
    <3>3. before' \in Before /\ before'.real = real /\ before'.time = rounded_t
          /\ before'.back = 0
      BY <3>1, <3>2, VisibleType DEF TimesInv, Numbers, Before
    <3>4. Numbers'
      <4>1. /\ real' \in Nat /\ offset' \in Int
            /\ clockSet' \in BOOLEAN /\ proc' \in Processes /\ idle' \in Nat
            /\ births' \in Nat
        BY <1>1 DEF TimesInv, Numbers
      <4>2. before'.real <= real' /\ m_update_time' \in Nat /\ m_record_time' \in Nat
        BY <1>1, <2>1, <3>1, <3>3 DEF TimesInv, Numbers
      <4>3. QED
        BY <3>1, <3>3, <4>1, <4>2, Zenon DEF Numbers
    <3>5. SetOnce'
      BY <1>1, <3>3 DEF TimesInv, SetOnce
    <3>6. Recorded'
      BY <2>1, <3>1, <3>2, <3>3 DEF Recorded
    <3>7. Silent'
      BY <1>1, <1>2, <2>1, <3>3, LoadLimits DEF TimesInv, Numbers, Silent
    <3>8. TimesIncrease'
      <4>1. CASE m_record_time = 0
        BY <3>1, <4>1 DEF TimesInv, TimesIncrease
      <4>2. CASE m_record_time # 0
        <5>1. before.time = (m_update_time \div m_update_period) * m_update_period
          BY <2>1, <4>2 DEF TimesInv, Recorded
        <5>2. before.time < rounded_t
          BY <2>1, <3>2, <5>1, RoundedLater, LoadLimits DEF TimesInv, Numbers
        <5>3. \A d \in last' : d.after = before.time /\ d.time = rounded_t
          BY <3>1, <4>2, DatapointIs
        <5>4. QED
          BY <5>2, <5>3 DEF TimesIncrease
      <4>3. QED
        BY <4>1, <4>2
    <3>9. QED
      BY <3>4, <3>5, <3>6, <3>7, <3>8 DEF TimesInv
  <2>4. QED
    BY <1>4, <2>2, <2>3 DEF update_sensors
<1>5. QED
  BY <1>3, <1>4

LEMMA InitTimes == Init => TimesInv
<1> SUFFICES ASSUME Init
             PROVE  TimesInv
  OBVIOUS
<1>1. /\ real = 0 /\ offset \in {40, 41} /\ idle = 0 /\ births = 0
      /\ m_update_time = 0 /\ m_record_time = 0 /\ last = {}
      /\ before = [proc |-> <<>>, idle |-> 0, real |-> 0, time |-> 0,
                   jump |-> FALSE, back |-> 0]
  BY DEF Init
<1>2. polled = FALSE /\ clockSet = FALSE /\ m_error \in BOOLEAN
  BY DEF Init
<1>3. proc \in Processes
  <2>1. PICK P \in {{}} \cup {{p} : p \in Pid} :
          proc \in [P -> [uid : User, born : {0}, used : {0}]]
    BY DEF Init
  <2>2. P \in SUBSET Pid
    OBVIOUS
  <2>3. proc \in [P -> Process]
    BY <2>1 DEF Process
  <2>4. QED
    BY <2>2, <2>3 DEF Processes
<1>4. <<>> \in Processes
  <2>1. <<>> \in [{} -> Process] /\ {} \in SUBSET Pid
    OBVIOUS
  <2>2. QED
    BY <2>1, Zenon DEF Processes
<1>5. before \in Before /\ before.real = 0 /\ before.back = 0
  BY <1>1, <1>4 DEF Before
<1>6. Numbers
  <2>1. /\ real \in Nat /\ offset \in Int /\ idle \in Nat
        /\ births \in Nat /\ m_update_time \in Nat /\ m_record_time \in Nat
        /\ before.real <= real
    BY <1>1, <1>5
  <2>2. polled \in BOOLEAN /\ clockSet \in BOOLEAN
    BY <1>2
  <2>3. QED
    BY <1>2, <1>3, <1>5, <2>1, <2>2, Zenon DEF Numbers
<1>7. SetOnce /\ Recorded /\ Silent /\ TimesIncrease
  BY <1>1, <1>5, LoadLimits DEF SetOnce, Recorded, Silent, TimesIncrease
<1>8. QED
  BY <1>6, <1>7 DEF TimesInv

LEMMA NextTimes == TimesInv /\ [Next]_vars => TimesInv'
<1> SUFFICES ASSUME TimesInv, [Next]_vars
             PROVE  TimesInv'
  OBVIOUS
<1>1. CASE SystemStep
  BY <1>1, SystemTimes
<1>2. CASE UNCHANGED vars
  BY <1>2, SystemTimes DEF vars, systemVars, SystemStep, TimesInv, Numbers
<1>3. ASSUME NEW p \in Pid \cup {"idle"}, Run(p)
      PROVE  TimesInv'
  BY <1>1, <1>3, RunType DEF TimesInv
<1>4. ASSUME NEW p \in Pid, NEW u \in User, Fork(p, u)
      PROVE  TimesInv'
  BY <1>1, <1>4, ForkType DEF TimesInv
<1>5. ASSUME NEW p \in Pid, Exit(p)
      PROVE  TimesInv'
  BY <1>1, <1>5, ExitType DEF TimesInv
<1>6. CASE LogInOrOut
  BY <1>1, <1>6, LogType DEF TimesInv
<1>7. ASSUME NEW d \in ClockSteps, SetClock(d)
      PROVE  TimesInv'
  BY <1>7, ClockTimes
<1>8. CASE Update
  BY <1>8, UpdateTimes DEF Update
<1>9. CASE print_datapoints
  BY <1>9, UpdateTimes DEF print_datapoints, TimesInv, Numbers
<1>10. QED
  BY <1>2, <1>3, <1>4, <1>5, <1>6, <1>7, <1>8, <1>9 DEF Next

LEMMA TimesInvariance == Spec => []TimesInv
BY InitTimes, NextTimes, PTL DEF Spec

\* Two datapoints of one sensor never have the same rounded time, nor one before that of
\* its predecessor, for any period and however the clock is set (update_sensors).
THEOREM LoadTimes == Spec => []TimesIncrease
<1>1. TimesInv => TimesIncrease
  BY DEF TimesInv
<1> QED
  BY <1>1, TimesInvariance, PTL

\* A manager that could read /proc is silent for a period, the second in which it ends
\* and what the clock was set back since the last at most, for any period (MeasureApp::loop).
THEOREM LoadGaps == Spec => []GapsBounded
<1>1. TimesInv => GapsBounded
  BY LoadLimits DEF TimesInv, Silent, Numbers, Before, GapsBounded
<1> QED
  BY <1>1, TimesInvariance, PTL

----------------------------------------------------------------------------
(***************************************************************************)
(* What the datapoints count.                                              *)
(***************************************************************************)
\* The processes that were there at the last datapoint, and what they used since.
Alive ==
  {p \in DOMAIN proc \cap DOMAIN before.proc : before.proc[p].born = proc[p].born}
Growth == [p \in Alive |-> proc[p].used - before.proc[p].used]

\* A new process is told from all before.
Borns == /\ \A p \in DOMAIN proc : proc[p].born <= births
         /\ \A p \in DOMAIN before.proc : before.proc[p].born <= births

\* All that was used since the last datapoint is no more than the time since then.
Grown ==
  /\ IsFiniteSet(DOMAIN proc)
  /\ \A p \in Alive : Growth[p] >= 0
  /\ SumFunction(Growth) <= real - before.real
  /\ 0 <= idle - before.idle /\ idle - before.idle <= real - before.real

\* What the manager knows is what there was at its last datapoint.
Kept ==
  ~m_error /\ m_record_time # 0 =>
    /\ manager = "cpu" => m_stat = before.idle
    /\ manager # "cpu" => m_stat_history = utime(before.proc)

\* Unless the clock was set, the seconds since the last datapoint are those of the clock.
NoJump ==
  ~m_error /\ m_record_time # 0 /\ ~before.jump =>
    /\ 2 * m_record_time <= before.real + offset
    /\ before.real + offset < 2 * m_record_time + 2
    /\ real - before.real <= 2 * m_update_period
    /\ polled => real - before.real < 2 * m_update_period

UseInv == Borns /\ Grown /\ Kept /\ NoJump /\ LoadIsUse

LEMMA ProcessTypes ==
  ASSUME Numbers
  PROVE  /\ \A p \in DOMAIN proc : proc[p] \in Process /\ p \in Pid
         /\ \A p \in DOMAIN before.proc : before.proc[p] \in Process
         /\ before.jump \in BOOLEAN /\ before.idle \in Nat /\ before.real \in Nat
         /\ before.time \in Int
<1>1. PICK P \in SUBSET Pid : proc \in [P -> Process]
  BY DEF Numbers, Processes
<1>2. before.proc \in Processes
  BY DEF Numbers, Before
<1>3. PICK B \in SUBSET Pid : before.proc \in [B -> Process]
  BY <1>2 DEF Processes
<1>4. QED
  BY <1>1, <1>3 DEF Numbers, Before

LEMMA GrowthType ==
  ASSUME Numbers, Grown
  PROVE  Growth \in [Alive -> Int] /\ IsFiniteSet(Alive) /\ SumFunction(Growth) \in Int
<1>1. \A p \in Alive : proc[p].used - before.proc[p].used \in Int
  BY ProcessTypes DEF Alive, Process
<1>2. Growth \in [Alive -> Int]
  BY <1>1 DEF Growth
<1>3. IsFiniteSet(Alive)
  <2>1. Alive \subseteq DOMAIN proc
    BY DEF Alive
  <2>2. QED
    BY <2>1, FS_Subset DEF Grown
<1>4. QED
  BY <1>2, <1>3, SumType

\* Nothing but the processes changes.
Unmoved ==
  UNCHANGED <<manager, offset, sensorVars, before>>

LEMMA UnmovedUse ==
  ASSUME UseInv, Unmoved
  PROVE  Kept' /\ LoadIsUse'
<1>1. /\ manager' = manager /\ m_error' = m_error /\ m_record_time' = m_record_time
      /\ m_stat' = m_stat /\ m_stat_history' = m_stat_history /\ last' = last
      /\ before' = before
  BY DEF Unmoved, sensorVars
<1>2. Kept'
  BY <1>1 DEF UseInv, Kept, utime
<1>3. LoadIsUse'
  BY <1>1 DEF UseInv, LoadIsUse, Cpus
<1>4. QED
  BY <1>2, <1>3

\* A half second of a process, or idle.
LEMMA RunUse ==
  ASSUME Numbers, UseInv, NEW p, Run(p)
  PROVE  UseInv'
<1>1. /\ polled /\ ~polled' /\ real' = real + 1 /\ offset' = offset /\ births' = births
      /\ before' = before /\ m_error' = m_error /\ m_record_time' = m_record_time
      /\ real \in Nat /\ before.real \in Nat /\ idle \in Nat /\ before.idle \in Nat
  BY ProcessTypes DEF Run, clockVars, sensorVars, Numbers
<1>2. Unmoved
  BY DEF Run, Unmoved, clockVars
<1>3. NoJump'
  BY <1>1, LoadLimits DEF UseInv, NoJump
<1>4. CASE p \notin DOMAIN proc
  <2>1. proc' = proc /\ idle' = idle + 1
    BY <1>4 DEF Run
  <2>2. Alive' = Alive /\ Growth' = Growth
    BY <1>1, <2>1 DEF Alive, Growth
  <2>3. Borns'
    BY <1>1, <2>1 DEF UseInv, Borns
  <2>4. Grown'
    BY <1>1, <2>1, <2>2, GrowthType DEF UseInv, Grown
  <2>5. QED
    BY <1>2, <1>3, <2>3, <2>4, UnmovedUse DEF UseInv
<1>5. CASE p \in DOMAIN proc
  <2>1. proc' = [proc EXCEPT ![p].used = @ + 1] /\ idle' = idle
    BY <1>5 DEF Run
  <2>2. \A q \in DOMAIN proc : proc[q] \in Process
    BY ProcessTypes
  <2>3. /\ DOMAIN proc' = DOMAIN proc
        /\ \A q \in DOMAIN proc : proc'[q].born = proc[q].born
        /\ \A q \in DOMAIN proc : q # p => proc'[q].used = proc[q].used
        /\ proc'[p].used = proc[p].used + 1
    <3>1. DOMAIN proc' = DOMAIN proc
      BY <2>1
    <3>2. proc'[p] = [proc[p] EXCEPT !.used = @ + 1]
      BY <1>5, <2>1
    <3>3. proc'[p].born = proc[p].born /\ proc'[p].used = proc[p].used + 1
      BY <1>5, <2>2, <3>2 DEF Process
    <3>4. \A q \in DOMAIN proc : q # p => proc'[q] = proc[q]
      BY <2>1
    <3>5. QED
      BY <3>1, <3>3, <3>4
  <2>4. Borns'
    BY <1>1, <2>3 DEF UseInv, Borns
  <2>5. Alive' = Alive
    BY <1>1, <2>3 DEF Alive
  <2>6. /\ Growth \in [Alive -> Int] /\ IsFiniteSet(Alive)
        /\ SumFunction(Growth) \in Int
    BY GrowthType DEF UseInv
  <2>7. /\ \A q \in Alive : q # p => Growth'[q] = Growth[q]
        /\ p \in Alive => Growth'[p] = Growth[p] + 1
        /\ Growth' \in [Alive -> Int]
    <3>1. \A q \in Alive : Growth[q] = proc[q].used - before.proc[q].used
                           /\ proc[q].used \in Int /\ before.proc[q].used \in Int
      BY ProcessTypes DEF Growth, Alive, Process
    <3>2. Growth' = [q \in Alive |-> proc'[q].used - before.proc[q].used]
      BY <1>1, <2>5 DEF Growth
    <3>3. \A q \in Alive : q \in DOMAIN proc
      BY DEF Alive
    <3>4. \A q \in Alive : proc'[q].used \in Int
      BY <2>3, <3>1, <3>3
    <3>5. QED
      BY <2>3, <3>1, <3>2, <3>3, <3>4
  <2>8. SumFunction(Growth') <= SumFunction(Growth) + 1
    <3>1. CASE p \in Alive
      BY <2>6, <2>7, <3>1, SumUp
    <3>2. CASE p \notin Alive
      <4>1. Growth' = Growth
        BY <2>6, <2>7, <3>2
      <4>2. QED
        BY <2>6, <4>1
    <3>3. QED
      BY <3>1, <3>2
  <2>9. SumFunction(Growth') \in Int
    BY <2>6, <2>7, SumType
  <2>10. \A q \in Alive : Growth'[q] >= 0
    BY <2>6, <2>7 DEF UseInv, Grown
  <2>11. Grown'
    <3>1. IsFiniteSet(DOMAIN proc)' /\ \A q \in Alive' : Growth'[q] >= 0
      BY <2>3, <2>5, <2>10 DEF UseInv, Grown
    <3>2. SumFunction(Growth') <= real' - before'.real
      BY <1>1, <2>6, <2>8, <2>9 DEF UseInv, Grown
    <3>3. 0 <= idle' - before'.idle /\ idle' - before'.idle <= real' - before'.real
      BY <1>1, <2>1 DEF UseInv, Grown
    <3>4. QED
      BY <3>1, <3>2, <3>3 DEF Grown
  <2>12. QED
    BY <1>2, <1>3, <2>4, <2>11, UnmovedUse DEF UseInv
<1>6. QED
  BY <1>4, <1>5

\* Who ends is not counted any more, and nobody else is counted.
LEMMA FewerGrown ==
  ASSUME Numbers, Grown, before'.proc = before.proc, before'.real = before.real,
         before'.idle = before.idle, real' = real, idle' = idle,
         IsFiniteSet(DOMAIN proc)', Alive' \subseteq Alive,
         \A p \in Alive' : proc'[p].used = proc[p].used
  PROVE  Grown'
<1>1. Growth \in [Alive -> Int] /\ IsFiniteSet(Alive) /\ SumFunction(Growth) \in Int
  BY GrowthType
<1>2. Growth' = [p \in Alive' |-> Growth[p]]
  <2>1. \A p \in Alive' : proc'[p].used - before'.proc[p].used = Growth[p]
    BY DEF Growth
  <2>2. Growth' = [p \in Alive' |-> proc'[p].used - before'.proc[p].used]
    BY DEF Growth
  <2>3. QED
    BY <2>1, <2>2, Zenon
<1>3. /\ Growth' \in [Alive' -> Int] /\ IsFiniteSet(Alive')
      /\ \A p \in Alive' : Growth'[p] = Growth[p]
  BY <1>1, <1>2, FS_Subset
<1>4. \A p \in Alive : Growth[p] >= 0
  BY DEF Grown
<1>5. SumFunction(Growth') <= SumFunction(Growth)
  <2>1. \A p \in Alive' : Growth'[p] <= Growth[p]
    BY <1>1, <1>3
  <2>2. QED
    BY <1>1, <1>3, <1>4, <2>1, SumLess
<1>6. SumFunction(Growth') \in Int
  BY <1>3, SumType
<1>7. real \in Nat /\ before.real \in Nat
  BY ProcessTypes DEF Numbers
<1>8. SumFunction(Growth') <= real' - before'.real
  BY <1>1, <1>5, <1>6, <1>7 DEF Grown
<1>9. \A p \in Alive' : Growth'[p] >= 0
  BY <1>3, <1>4
<1>10. QED
  BY <1>8, <1>9 DEF Grown

LEMMA ForkUse ==
  ASSUME Numbers, UseInv, NEW p \in Pid, NEW u \in User, Fork(p, u)
  PROVE  UseInv'
<1>1. /\ real' = real /\ offset' = offset /\ births' = births + 1 /\ polled' = polled
      /\ before' = before /\ m_error' = m_error /\ m_record_time' = m_record_time
      /\ idle' = idle /\ births \in Nat /\ p \notin DOMAIN proc
      /\ proc' = [q \in DOMAIN proc \cup {p} |->
           IF q = p THEN [uid |-> u, born |-> births', used |-> 0] ELSE proc[q]]
  BY DEF Fork, System, clockVars, sensorVars, Numbers
<1>2. Unmoved
  BY DEF Fork, System, Unmoved, clockVars
<1>3. NoJump'
  BY <1>1 DEF UseInv, NoJump
<1>4. /\ DOMAIN proc' = DOMAIN proc \cup {p} /\ proc'[p].born = births + 1
      /\ \A q \in DOMAIN proc : proc'[q] = proc[q]
  BY <1>1
<1>5. /\ \A q \in DOMAIN proc : proc[q].born \in Nat
      /\ \A q \in DOMAIN before.proc : before.proc[q].born \in Nat
  BY ProcessTypes DEF Process
<1>6. Borns'
  BY <1>1, <1>4, <1>5 DEF UseInv, Borns
<1>7. IsFiniteSet(DOMAIN proc)'
  <2>1. IsFiniteSet(DOMAIN proc)
    BY DEF UseInv, Grown
  <2>2. QED
    BY <1>4, <2>1, FS_AddElement
<1>8. /\ Alive' \subseteq Alive
      /\ \A q \in Alive' : proc'[q].used = proc[q].used
  BY <1>1, <1>4, <1>5 DEF UseInv, Borns, Alive
<1>9. Grown'
  BY <1>1, <1>7, <1>8, FewerGrown DEF UseInv
<1>10. QED
  BY <1>2, <1>3, <1>6, <1>9, UnmovedUse DEF UseInv

LEMMA ExitUse ==
  ASSUME Numbers, UseInv, NEW p \in Pid, Exit(p)
  PROVE  UseInv'
<1>1. /\ real' = real /\ offset' = offset /\ births' = births /\ polled' = polled
      /\ before' = before /\ m_error' = m_error /\ m_record_time' = m_record_time
      /\ idle' = idle /\ proc' = [q \in DOMAIN proc \ {p} |-> proc[q]]
  BY DEF Exit, System, clockVars, sensorVars
<1>2. Unmoved
  BY DEF Exit, System, Unmoved, clockVars
<1>3. NoJump'
  BY <1>1 DEF UseInv, NoJump
<1>4. /\ DOMAIN proc' = DOMAIN proc \ {p}
      /\ \A q \in DOMAIN proc' : proc'[q] = proc[q]
  BY <1>1
<1>5. Borns'
  BY <1>1, <1>4 DEF UseInv, Borns
<1>6. IsFiniteSet(DOMAIN proc)'
  <2>1. IsFiniteSet(DOMAIN proc)
    BY DEF UseInv, Grown
  <2>2. QED
    BY <1>4, <2>1, FS_Subset
<1>7. /\ Alive' \subseteq Alive
      /\ \A q \in Alive' : proc'[q].used = proc[q].used
  BY <1>1, <1>4 DEF Alive
<1>8. Grown'
  BY <1>1, <1>6, <1>7, FewerGrown DEF UseInv
<1>9. QED
  BY <1>2, <1>3, <1>5, <1>8, UnmovedUse DEF UseInv

LEMMA StandUse ==
  ASSUME Numbers, UseInv, Unmoved, proc' = proc, real' = real, idle' = idle,
         births' = births, polled' = polled
  PROVE  UseInv'
<1>1. before' = before /\ m_error' = m_error /\ m_record_time' = m_record_time
      /\ offset' = offset
  BY DEF Unmoved, sensorVars
<1>2. Borns' /\ NoJump'
  BY <1>1 DEF UseInv, Borns, NoJump
<1>3. Grown'
  BY <1>1 DEF UseInv, Grown, Growth, Alive
<1>4. QED
  BY <1>2, <1>3, UnmovedUse DEF UseInv

LEMMA ClockUse ==
  ASSUME Numbers, UseInv, NEW d \in ClockSteps, SetClock(d)
  PROVE  UseInv'
<1>1. /\ real' = real /\ polled' = polled /\ manager' = manager /\ proc' = proc
      /\ idle' = idle /\ births' = births /\ m_error' = m_error
      /\ m_record_time' = m_record_time /\ m_stat' = m_stat
      /\ m_stat_history' = m_stat_history /\ last' = last
      /\ before' = [before EXCEPT !.jump = TRUE, !.back = Max({0, -d})]
  BY DEF SetClock, sensorVars, systemVars
<1>2. /\ before'.proc = before.proc /\ before'.real = before.real
      /\ before'.idle = before.idle /\ before'.jump = TRUE
  BY <1>1 DEF Numbers, Before
<1>3. Borns'
  BY <1>1, <1>2 DEF UseInv, Borns
<1>4. Alive' = Alive
  BY <1>1, <1>2 DEF Alive
<1>5. Grown'
  BY <1>1, <1>2, <1>4, FewerGrown DEF UseInv, Grown
<1>6. Kept'
  BY <1>1, <1>2 DEF UseInv, Kept, utime
<1>7. NoJump'
  BY <1>2 DEF NoJump
<1>8. LoadIsUse'
  BY <1>1 DEF UseInv, LoadIsUse, Cpus
<1>9. QED
  BY <1>3, <1>5, <1>6, <1>7, <1>8 DEF UseInv

\* No datapoint is made.
LEMMA SilentUse ==
  ASSUME TimesInv, UseInv, Unmoved, UNCHANGED <<real, systemVars>>, ~Due
  PROVE  UseInv'
<1>1. /\ before' = before /\ m_error' = m_error /\ m_record_time' = m_record_time
      /\ offset' = offset /\ real' = real /\ proc' = proc /\ idle' = idle /\ births' = births
  BY DEF Unmoved, sensorVars, systemVars
<1>2. Borns'
  BY <1>1 DEF UseInv, Borns
<1>3. Grown'
  BY <1>1 DEF UseInv, Grown, Growth, Alive
<1>4. NoJump'
  <2> SUFFICES ASSUME ~m_error, m_record_time # 0, ~before.jump
               PROVE  real - before.real < 2 * m_update_period
    BY <1>1 DEF UseInv, NoJump
  <2>1. time < m_record_time + m_update_period
    BY LoadLimits DEF Due, TimesInv, Recorded, Numbers, time
  <2>2. time \in Int /\ real + offset < 2 * time + 2
    BY DEF time, TimesInv, Numbers
  <2>3. 2 * m_record_time <= before.real + offset
    BY DEF UseInv, NoJump
  <2>4. QED
    BY <2>1, <2>2, <2>3, LoadLimits, ProcessTypes DEF TimesInv, Numbers
<1>5. QED
  BY <1>2, <1>3, <1>4, UnmovedUse DEF UseInv

LEMMA UnreadableUse ==
  ASSUME UseInv, Unreadable, UNCHANGED <<manager, real, systemVars>>
  PROVE  UseInv'
<1>1. /\ before' = before /\ m_error' = TRUE /\ last' = last /\ manager' = manager
      /\ real' = real /\ proc' = proc /\ idle' = idle /\ births' = births
  BY DEF Unreadable, systemVars
<1>2. Borns'
  BY <1>1 DEF UseInv, Borns
<1>3. Grown'
  BY <1>1 DEF UseInv, Grown, Growth, Alive
<1>4. Kept' /\ NoJump'
  BY <1>1 DEF Kept, NoJump
<1>5. LoadIsUse'
  BY <1>1 DEF UseInv, LoadIsUse, Cpus
<1>6. QED
  BY <1>2, <1>3, <1>4, <1>5 DEF UseInv

\* What a datapoint counts.
LEMMA VisibleIs ==
  ASSUME Numbers
  PROVE  /\ DOMAIN Visible \subseteq DOMAIN proc
         /\ \A p \in DOMAIN Visible : Visible[p] = proc[p]
BY DEF Visible

LEMMA MinIs ==
  ASSUME NEW x \in Int, NEW y \in Int
  PROVE  Min({x, y}) = IF x <= y THEN x ELSE y
<1>1. \E m \in {x, y} : \A n \in {x, y} : m <= n
  OBVIOUS
<1>2. Min({x, y}) \in {x, y} /\ \A n \in {x, y} : Min({x, y}) <= n
  BY <1>1 DEF Min
<1>3. QED
  BY <1>2

LEMMA MinusIs ==
  ASSUME NEW x \in Int, NEW y \in Int, 0 <= x - y, x - y <= 2 * m_update_period
  PROVE  Minus(x, y) = x - y
<1>1. Bits \in Nat /\ 2 * m_update_period < 2 ^ Bits /\ m_update_period \in Nat
  BY LA DEF LoadAssumption
<1>2. 2 ^ Bits \in Nat
  BY <1>1
<1>3. QED
  BY <1>1, <1>2 DEF Minus

\* The time of a sound datapoint.
LEMMA SoundTime ==
  ASSUME TimesInv, UseInv, Due, m_record_time # 0, ~before.jump,
         NEW passed, passed = real - before.real,
         NEW all, all = 2 * Cpus * (time - m_record_time)
  PROVE  /\ passed \in Int /\ all \in Int /\ passed - all \in -1 .. 1 /\ all >= 0
         /\ passed <= 2 * m_update_period
<1>1. time \in Int /\ 2 * time <= real + offset /\ real + offset < 2 * time + 2
  BY DEF time, TimesInv, Numbers
<1>2. /\ 2 * m_record_time <= before.real + offset
      /\ before.real + offset < 2 * m_record_time + 2
      /\ passed <= 2 * m_update_period
  BY DEF UseInv, NoJump, Due
<1>3. m_record_time = m_update_time /\ time >= m_update_time + m_update_period
  BY DEF Due, TimesInv, Recorded
<1>4. all = 2 * (time - m_record_time)
  BY <1>1, <1>3 DEF Cpus, TimesInv, Numbers
<1>5. QED
  BY <1>1, <1>2, <1>3, <1>4, LoadLimits, ProcessTypes DEF TimesInv, Numbers

LEMMA CpuUse ==
  ASSUME TimesInv, UseInv, Due, m_record_time # 0, ~before.jump, manager = "cpu",
         NEW d, d = Datapoint(BusyTicks)
  PROVE  /\ d.ticks - (d.passed - d.used) \in -1 .. 1
         /\ d.ticks < 2 * Cpus * (d.seconds + 1)
<1> DEFINE passed == real - before.real
           all == 2 * Cpus * (time - m_record_time)
           x == idle - before.idle
<1>1. /\ d.ticks = BusyTicks /\ d.passed = passed /\ d.used = x
      /\ d.seconds = time - m_record_time
  BY DatapointIs
<1>2. /\ passed \in Int /\ all \in Int /\ passed - all \in -1 .. 1 /\ all >= 0
  BY SoundTime
<1>3. x \in Int /\ 0 <= x /\ x <= passed
  BY ProcessTypes DEF TimesInv, Numbers, UseInv, Grown
<1>4. BusyTicks = all - Min({all, x})
  BY DEF BusyTicks, UseInv, Kept, Due
<1>5. Min({all, x}) = IF all <= x THEN all ELSE x
  BY <1>2, <1>3, MinIs
<1>6. 2 * Cpus * (d.seconds + 1) = all + 2
  BY <1>1 DEF Cpus, time, TimesInv, Numbers
<1> HIDE DEF passed, all, x
<1>7. QED
  BY <1>1, <1>2, <1>3, <1>4, <1>5, <1>6

LEMMA ProcessUse ==
  ASSUME TimesInv, UseInv, Due, m_record_time # 0, ~before.jump, manager # "cpu", ~Reused,
         NEW d, d = Datapoint(Gained(m_stat_history))
  PROVE  d.ticks = d.used /\ d.ticks < 2 * Cpus * (d.seconds + 1)
<1> DEFINE passed == real - before.real
           all == 2 * Cpus * (time - m_record_time)
           used == [p \in Same |-> proc[p].used - before.proc[p].used]
<1>1. /\ d.ticks = Gained(m_stat_history) /\ d.used = Used
      /\ d.seconds = time - m_record_time
  BY DatapointIs
<1>2. /\ passed \in Int /\ all \in Int /\ passed - all \in -1 .. 1 /\ all >= 0
      /\ passed <= 2 * m_update_period
  BY SoundTime
<1>3. m_stat_history = [p \in DOMAIN before.proc |-> before.proc[p].used]
  BY DEF UseInv, Kept, Due, utime
<1>4. /\ Same = DOMAIN Visible \cap DOMAIN before.proc /\ Same \subseteq Alive
      /\ \A p \in Same : Visible[p] = proc[p]
  BY VisibleIs DEF Reused, Same, Alive, TimesInv
<1>5. /\ Growth \in [Alive -> Int] /\ IsFiniteSet(Alive) /\ SumFunction(Growth) \in Int
      /\ SumFunction(Growth) <= passed
      /\ \A p \in Alive : Growth[p] >= 0
  BY GrowthType DEF TimesInv, UseInv, Grown
<1>6. used \in [Same -> Int] /\ \A p \in Same : used[p] = Growth[p]
  BY <1>4, <1>5 DEF Growth
<1>7. \A p \in Same : /\ proc[p].used \in Int /\ before.proc[p].used \in Int
                      /\ 0 <= proc[p].used - before.proc[p].used
                      /\ proc[p].used - before.proc[p].used <= 2 * m_update_period
  <2>1. \A p \in Same : proc[p].used \in Int /\ before.proc[p].used \in Int
    BY ProcessTypes DEF TimesInv, Same, Process, Visible
  <2>2. \A p \in Same : Growth[p] = proc[p].used - before.proc[p].used
    BY <1>4 DEF Growth
  <2>3. \A p \in Alive : Growth[p] \in Int /\ Growth[p] <= SumFunction(Growth)
    BY <1>5, SumOver
  <2>4. QED
    BY <1>2, <1>4, <1>5, <2>1, <2>2, <2>3, LoadLimits
<1>8. Gained(m_stat_history) = SumFunction(used)
  <2>1. \A p \in Same : Minus(utime(Visible)[p], m_stat_history[p]) =
                          proc[p].used - before.proc[p].used
    <3>1. \A p \in Same : utime(Visible)[p] = proc[p].used
                          /\ m_stat_history[p] = before.proc[p].used
      BY <1>3, <1>4 DEF utime
    <3>2. QED
      BY <1>7, <3>1, MinusIs
  <2>2. DOMAIN Visible \cap DOMAIN m_stat_history = Same
    BY <1>3, <1>4
  <2>3. Gained(m_stat_history) =
          SumFunction([p \in Same |-> Minus(utime(Visible)[p], m_stat_history[p])])
    BY <2>2, Zenon DEF Gained
  <2>4. [p \in Same |-> Minus(utime(Visible)[p], m_stat_history[p])] = used
    BY <2>1, Zenon
  <2>5. QED
    BY <2>3, <2>4, Zenon
<1>9. Used = SumFunction(used)
  BY DEF Used
<1>10. SumFunction(used) <= SumFunction(Growth) /\ SumFunction(used) \in Int
  <2>1. \A p \in Same : used[p] <= Growth[p]
    <3>1. \A p \in Same : Growth[p] \in Int
      BY <1>4, <1>5
    <3>2. \A p \in Same : used[p] = Growth[p]
      BY <1>6
    <3> HIDE DEF used
    <3>3. \A p \in Same : used[p] \in Int /\ used[p] <= Growth[p]
      BY <3>1, <3>2
    <3>4. QED
      BY <3>3
  <2>2. IsFiniteSet(Same)
    BY <1>4, <1>5, FS_Subset
  <2> HIDE DEF used
  <2>3. SumFunction(used) \in Int
    BY <1>6, <2>2, SumType
  <2>4. QED
    BY <1>4, <1>5, <1>6, <2>1, <2>3, SumLess
<1>11. 2 * Cpus * (d.seconds + 1) = all + 2
  BY <1>1 DEF Cpus, time, TimesInv, Numbers
<1> HIDE DEF passed, all, used
<1>12. QED
  BY <1>1, <1>2, <1>5, <1>8, <1>9, <1>10, <1>11

\* A datapoint is made, and the counting starts again.
LEMMA ReadUse ==
  ASSUME TimesInv, UseInv, Due, Read, UNCHANGED <<manager, real, offset, systemVars>>
  PROVE  UseInv'
<1>1. /\ manager' = manager /\ real' = real /\ offset' = offset /\ proc' = proc
      /\ idle' = idle /\ births' = births
      /\ m_record_time' = time /\ m_stat' = (IF manager = "cpu" THEN idle ELSE m_stat)
      /\ m_stat_history' = utime(Visible)
  BY DEF Read, systemVars
<1>2. before' = [proc |-> Visible, idle |-> idle, real |-> real, time |-> rounded_t,
                 jump |-> FALSE, back |-> 0]
  BY DEF Read
<1>3. /\ before'.proc = Visible /\ before'.real = real /\ before'.idle = idle
      /\ before'.jump = FALSE
  BY <1>2
<1>4. DOMAIN Visible \subseteq DOMAIN proc /\ \A p \in DOMAIN Visible : Visible[p] = proc[p]
  BY VisibleIs DEF TimesInv
<1>5. Borns'
  BY <1>1, <1>3, <1>4 DEF UseInv, Borns
<1>6. real \in Nat /\ idle \in Nat
  BY DEF TimesInv, Numbers
<1>7. Grown'
  <2>1. Alive' = DOMAIN Visible
    BY <1>1, <1>3, <1>4 DEF Alive
  <2>2. Growth' = [p \in DOMAIN Visible |-> proc[p].used - Visible[p].used]
    BY <1>1, <1>3, <2>1 DEF Growth
  <2>3. \A p \in DOMAIN Visible : proc[p].used \in Int
    BY <1>4, ProcessTypes DEF TimesInv, Process
  <2>4. Growth' \in [DOMAIN Visible -> Int] /\ \A p \in DOMAIN Visible : Growth'[p] = 0
    BY <1>4, <2>2, <2>3
  <2>5. IsFiniteSet(DOMAIN Visible) /\ IsFiniteSet(DOMAIN proc)
    BY <1>4, FS_Subset DEF UseInv, Grown
  <2>6. SumFunction(Growth') = 0
    BY <2>4, <2>5, SumZero
  <2>7. \A p \in Alive' : Growth'[p] >= 0
    BY <2>1, <2>4
  <2>8. SumFunction(Growth') <= real' - before'.real
    BY <1>1, <1>3, <1>6, <2>6
  <2>9. 0 <= idle' - before'.idle /\ idle' - before'.idle <= real' - before'.real
    BY <1>1, <1>3, <1>6
  <2>10. IsFiniteSet(DOMAIN proc)'
    BY <1>1, <2>5
  <2>11. QED
    BY <2>7, <2>8, <2>9, <2>10 DEF Grown
<1>8. Kept'
  BY <1>1, <1>3 DEF Kept, utime
<1>9. NoJump'
  <2>1. 2 * time <= real + offset /\ real + offset < 2 * time + 2
    BY DEF time, TimesInv, Numbers
  <2>2. real' - before'.real = 0 /\ before'.real + offset' = real + offset
    BY <1>1, <1>3, <1>6
  <2>3. QED
    BY <1>1, <2>1, <2>2, LoadLimits DEF NoJump
<1>10. LoadIsUse'
  <2>1. CASE m_record_time = 0
    <3>1. last' = last
      BY <2>1 DEF Read
    <3>2. QED
      BY <1>1, <3>1 DEF UseInv, LoadIsUse, Cpus
  <2>2. CASE m_record_time # 0
    <3>1. last' = {Datapoint(IF manager = "cpu" THEN BusyTicks ELSE Gained(m_stat_history))}
      BY <2>2 DEF Read
    <3>2. SUFFICES ASSUME NEW d, d \in last', d.sound
                   PROVE  /\ IF manager = "cpu"
                             THEN d.ticks - (d.passed - d.used) \in -1 .. 1
                             ELSE d.ticks = d.used
                          /\ d.ticks < 2 * Cpus * (d.seconds + 1)
      BY <1>1 DEF LoadIsUse, Cpus
    <3>3. d = Datapoint(IF manager = "cpu" THEN BusyTicks ELSE Gained(m_stat_history))
      BY <3>1, <3>2
    <3>4. ~before.jump /\ ~Reused
      BY <3>2, <3>3, DatapointIs
    <3>5. CASE manager = "cpu"
      <4>1. d = Datapoint(BusyTicks)
        BY <3>3, <3>5
      <4>2. QED
        BY <2>2, <3>4, <3>5, <4>1, CpuUse
    <3>6. CASE manager # "cpu"
      <4>1. d = Datapoint(Gained(m_stat_history))
        BY <3>3, <3>6
      <4>2. QED
        BY <2>2, <3>4, <3>6, <4>1, ProcessUse
    <3>7. QED
      BY <3>5, <3>6
  <2>3. QED
    BY <2>1, <2>2
<1>11. QED
  BY <1>5, <1>7, <1>8, <1>9, <1>10 DEF UseInv

LEMMA UpdateUse ==
  ASSUME TimesInv, UseInv, update_sensors, UNCHANGED <<manager, real, clockVars, systemVars>>,
         polled' \in BOOLEAN
  PROVE  UseInv'
<1>1. offset' = offset
  BY DEF clockVars
<1>2. CASE ~Due
  <2>1. UNCHANGED <<sensorVars, before>>
    BY <1>2 DEF update_sensors
  <2>2. QED
    BY <1>1, <1>2, <2>1, SilentUse DEF Unmoved
<1>3. CASE Due
  <2>1. Unreadable \/ Read
    BY <1>3 DEF update_sensors
  <2>2. CASE Unreadable
    BY <2>2, UnreadableUse
  <2>3. CASE Read
    BY <1>1, <1>3, <2>3, ReadUse
  <2>4. QED
    BY <2>1, <2>2, <2>3
<1>4. QED
  BY <1>2, <1>3

LEMMA InitUse == Init => UseInv
<1> SUFFICES ASSUME Init
             PROVE  UseInv
  OBVIOUS
<1>1. /\ real = 0 /\ idle = 0 /\ births = 0 /\ m_record_time = 0 /\ last = {}
      /\ before = [proc |-> <<>>, idle |-> 0, real |-> 0, time |-> 0,
                   jump |-> FALSE, back |-> 0]
  BY DEF Init
<1>2. /\ DOMAIN before.proc = {} /\ before.real = 0 /\ before.idle = 0
  BY <1>1
<1>3. PICK P \in {{}} \cup {{p} : p \in Pid} :
        proc \in [P -> [uid : User, born : {0}, used : {0}]]
  BY DEF Init
<1>4. IsFiniteSet(P)
  BY FS_EmptySet, FS_Singleton
<1>5. Borns
  BY <1>1, <1>2, <1>3 DEF Borns
<1>6. Grown
  <2>1. Alive = {}
    BY <1>2 DEF Alive
  <2>2. Growth \in [{} -> Int]
    BY <2>1 DEF Growth
  <2>3. SumFunction(Growth) = 0
    BY <2>2, SumZero, FS_EmptySet
  <2>4. IsFiniteSet(DOMAIN proc)
    BY <1>3, <1>4
  <2>5. QED
    BY <1>1, <1>2, <2>1, <2>3, <2>4 DEF Grown
<1>7. Kept /\ NoJump /\ LoadIsUse
  BY <1>1 DEF Kept, NoJump, LoadIsUse
<1>8. QED
  BY <1>5, <1>6, <1>7 DEF UseInv

LEMMA NextUse == TimesInv /\ UseInv /\ [Next]_vars => UseInv'
<1> SUFFICES ASSUME TimesInv, UseInv, [Next]_vars
             PROVE  UseInv'
  OBVIOUS
<1> USE DEF TimesInv
<1>1. CASE UNCHANGED vars
  BY <1>1, StandUse DEF vars, clockVars, systemVars, Unmoved
<1>2. ASSUME NEW p \in Pid \cup {"idle"}, Run(p)
      PROVE  UseInv'
  BY <1>2, RunUse
<1>3. ASSUME NEW p \in Pid, NEW u \in User, Fork(p, u)
      PROVE  UseInv'
  BY <1>3, ForkUse
<1>4. ASSUME NEW p \in Pid, Exit(p)
      PROVE  UseInv'
  BY <1>4, ExitUse
<1>5. CASE LogInOrOut
  BY <1>5, StandUse DEF LogInOrOut, System, clockVars, Unmoved
<1>6. ASSUME NEW d \in ClockSteps, SetClock(d)
      PROVE  UseInv'
  BY <1>6, ClockUse
<1>7. CASE Update
  BY <1>7, UpdateUse DEF Update
<1>8. CASE print_datapoints
  BY <1>8, UpdateUse DEF print_datapoints, Numbers
<1>9. QED
  BY <1>1, <1>2, <1>3, <1>4, <1>5, <1>6, <1>7, <1>8 DEF Next

\* The loads count what the processes used, for any pids, period and bounds: nothing twice
\* and nothing from before (CpuLoad, BoincCpuLoad and UsersCpuLoad::update_sensors).
THEOREM LoadCounts == Spec => []LoadIsUse
<1>1. Init => UseInv
  BY InitUse
<1>2. TimesInv /\ UseInv /\ [Next]_vars => UseInv'
  BY NextUse
<1>3. UseInv => LoadIsUse
  BY DEF UseInv
<1> QED
  BY <1>1, <1>2, <1>3, TimesInvariance, PTL DEF Spec

----------------------------------------------------------------------------
(***************************************************************************)
(* The frequencies.                                                        *)
(***************************************************************************)
\* The types of a sensor's members, and of the counters it keeps as history.
Value == [gained : Int, spent : Int, sound : BOOLEAN]
PStateSensor ==
  [m_cpu : PS!Cpu, m_frequency_index : Nat, m_frequency : PS!Frequency, m_steps : Int,
   m_collect : BOOLEAN, value : Value, spent : Int, base : Int]

\* What a sensor keeps is the counter as it was when it was read last, and its value is
\* right if the counter is still the same.
CountsOwn(pstate) ==
  /\ pstate.m_steps = pstate.spent - pstate.base
  /\ pstate.value.sound => pstate.value.gained = pstate.value.spent

\* No CPU spent more than all the time at a frequency.
SpentInTime == \A c \in PS!Cpu, f \in PS!Frequency : spent[c][f] <= pstate_time

PStatesInv ==
  /\ PS!TypeOK /\ SpentInTime
  /\ m_sensors \in Seq(PStateSensor)
  /\ \A i \in DOMAIN m_sensors : CountsOwn(m_sensors[i])

----------------------------------------------------------------------------
\* The counters are numbers.
LEMMA CountersInt ==
  ASSUME PStatesInv, NEW k \in PS!Cpu, NEW f \in PS!Frequency
  PROVE  spent[k][f] \in Int /\ base[k][f] \in Int
<1>1. /\ spent \in [PS!Cpu -> [PS!Frequency -> 0 .. MaxTime]]
      /\ base \in [PS!Cpu -> [PS!Frequency -> 0 .. MaxTime]]
  BY DEF PStatesInv, PS!TypeOK
<1>2. spent[k] \in [PS!Frequency -> 0 .. MaxTime] /\ base[k] \in [PS!Frequency -> 0 .. MaxTime]
  BY <1>1
<1>3. spent[k][f] \in 0 .. MaxTime /\ base[k][f] \in 0 .. MaxTime
  BY <1>2
<1>4. QED
  BY <1>3

\* The rows of a file that can be read are frequencies.
LEMMA RowIsFrequency ==
  ASSUME PS!PStatesAssumption, PS!TypeOK, NEW c \in PS!Cpu, time_in_state[c] # PS!Unreadable
  PROVE  /\ time_in_state[c] \in Seq(Nat)
         /\ \A i \in DOMAIN time_in_state[c] : time_in_state[c][i] \in PS!Frequency
<1>1. time_in_state[c] \in Table
  BY DEF PS!TypeOK
<1>2. time_in_state[c] \in Seq(Nat)
  BY <1>1 DEF PS!PStatesAssumption
<1>3. ASSUME NEW i \in DOMAIN time_in_state[c]
      PROVE  time_in_state[c][i] \in PS!Frequency
  <2>1. time_in_state[c][i] \in PS!Range(time_in_state[c])
    BY DEF PS!Range
  <2>2. QED
    BY <1>1, <2>1 DEF PS!Frequency
<1>4. QED
  BY <1>2, <1>3

\* A new sensor has no value yet.
LEMMA PStateSound ==
  ASSUME PS!PStatesAssumption, PStatesInv, cpu \in PS!Cpu, time_in_state[cpu] # PS!Unreadable,
         NEW i \in DOMAIN time_in_state[cpu]
  PROVE  PS!PState(i) \in PStateSensor /\ CountsOwn(PS!PState(i))
<1>1. time_in_state[cpu] \in Seq(Nat) /\ time_in_state[cpu][i] \in PS!Frequency /\ i \in Nat
  BY RowIsFrequency DEF PStatesInv
<1> DEFINE f == time_in_state[cpu][i]
<1>2. spent[cpu][f] \in Int /\ base[cpu][f] \in Int
  BY <1>1, CountersInt
<1>3. PS!NoValue \in Value /\ PS!NoValue.sound = FALSE
  BY DEF PS!NoValue, Value
<1>4. (i \in {1, Len(time_in_state[cpu])}) \in BOOLEAN
  OBVIOUS
<1>5. QED
  BY <1>1, <1>2, <1>3, <1>4 DEF PS!PState, PStateSensor, CountsOwn, PS!steps

\* A sensor that is read of its own CPU gets the right value.
LEMMA UpdatedSound ==
  ASSUME PS!PStatesAssumption, PStatesInv, NEW pstate \in PStateSensor, CountsOwn(pstate),
         pstate.m_cpu = cpu
  PROVE  PS!Updated(pstate) \in PStateSensor /\ CountsOwn(PS!Updated(pstate))
<1> DEFINE f == pstate.m_frequency
<1>1. cpu \in PS!Cpu /\ f \in PS!Frequency
  BY DEF PStateSensor
<1>2. spent[cpu][f] \in Int /\ base[cpu][f] \in Int
  BY <1>1, CountersInt
<1>3. /\ pstate.m_steps \in Int /\ pstate.spent \in Int /\ pstate.base \in Int
      /\ pstate.m_steps = pstate.spent - pstate.base
  BY DEF PStateSensor, CountsOwn
<1> DEFINE value == [gained |-> PS!steps(f) - pstate.m_steps,
                     spent |-> spent[cpu][f] - pstate.spent,
                     sound |-> base[cpu][f] = pstate.base]
<1>4. PS!Updated(pstate) =
        [pstate EXCEPT !.value = value, !.m_steps = PS!steps(f), !.spent = spent[cpu][f],
                       !.base = base[cpu][f]]
  BY DEF PS!Updated
<1> HIDE DEF f
<1>5. PS!steps(f) \in Int /\ PS!steps(f) = spent[cpu][f] - base[cpu][f]
  BY <1>2 DEF PS!steps
<1>6. value \in Value /\ (value.sound => value.gained = value.spent)
  <2>1. (base[cpu][f] = pstate.base) \in BOOLEAN
    OBVIOUS
  <2>2. value \in Value
    BY <1>2, <1>3, <1>5, <2>1 DEF Value
  <2>3. base[cpu][f] = pstate.base
          => PS!steps(f) - pstate.m_steps = spent[cpu][f] - pstate.spent
    BY <1>2, <1>3, <1>5
  <2>4. QED
    BY <2>2, <2>3
<1> HIDE DEF value
<1>7. PS!Updated(pstate) \in PStateSensor
  BY <1>2, <1>4, <1>5, <1>6 DEF PStateSensor
<1>8. CountsOwn(PS!Updated(pstate))
  BY <1>2, <1>4, <1>5, <1>6, <1>7 DEF CountsOwn, PStateSensor
<1>9. QED
  BY <1>7, <1>8

----------------------------------------------------------------------------
LEMMA InitPStates ==
  ASSUME PS!PStatesAssumption, PS!Init
  PROVE  PStatesInv
<1>1. spent \in [PS!Cpu -> [PS!Frequency -> 0 .. MaxTime]]
  BY DEF PS!Init, PS!PStatesAssumption
<1>2. PS!TypeOK
  <2>1. time_in_state \in [PS!Cpu -> Table \cup {PS!Unreadable}] /\ base = spent
    BY DEF PS!Init
  <2>2. /\ pstate_time \in 0 .. MaxTime /\ updated \in -1 .. MaxTime /\ changes \in 0 .. MaxChanges
        /\ cpu \in 0 .. m_ncpus /\ m_sensors = <<>> /\ pstate_index \in 0 .. Len(m_sensors)
    BY DEF PS!Init, PS!PStatesAssumption
  <2>3. \A i \in DOMAIN m_sensors : m_sensors[i].m_cpu \in PS!Cpu
    BY <2>2
  <2>4. pstate_error \in {"none", "unreadable", "changed"} /\ build \in BOOLEAN /\ broken \in BOOLEAN
    BY DEF PS!Init
  <2>5. base \in [PS!Cpu -> [PS!Frequency -> 0 .. MaxTime]]
    BY <1>1, <2>1
  <2>6. QED
    BY <1>1, <2>1, <2>2, <2>3, <2>4, <2>5, Zenon DEF PS!TypeOK
<1>3. SpentInTime
  BY DEF PS!Init, SpentInTime
<1>4. m_sensors = <<>>
  BY DEF PS!Init
<1>5. QED
  BY <1>2, <1>3, <1>4 DEF PStatesInv

\* A file's counters go on, and none by more than the time.
LEMMA TickInv ==
  ASSUME PS!PStatesAssumption, PStatesInv, PS!Tick
  PROVE  PStatesInv'
<1>1. PICK at \in [PS!Cpu -> PS!Frequency] :
        spent' = [c \in PS!Cpu |-> [spent[c] EXCEPT ![at[c]] = @ + 1]]
  BY DEF PS!Tick
<1>2. /\ pstate_time \in Nat /\ pstate_time < MaxTime /\ MaxTime \in Nat
      /\ pstate_time' = pstate_time + 1
  BY DEF PS!Tick, PStatesInv, PS!TypeOK, PS!PStatesAssumption
<1>3. ASSUME NEW c \in PS!Cpu
      PROVE  /\ spent'[c] \in [PS!Frequency -> 0 .. MaxTime]
             /\ \A f \in PS!Frequency : spent'[c][f] <= pstate_time'
  <2>1. spent[c] \in [PS!Frequency -> 0 .. MaxTime] /\ at[c] \in PS!Frequency
    BY DEF PStatesInv, PS!TypeOK
  <2>2. spent'[c] = [spent[c] EXCEPT ![at[c]] = @ + 1]
    BY <1>1
  <2>3. \A f \in PS!Frequency : spent[c][f] <= pstate_time
    BY DEF PStatesInv, SpentInTime
  <2>4. \A f \in PS!Frequency : spent'[c][f] = IF f = at[c] THEN spent[c][f] + 1 ELSE spent[c][f]
    BY <2>1, <2>2
  <2>5. \A f \in PS!Frequency : spent'[c][f] <= pstate_time' /\ spent'[c][f] \in 0 .. MaxTime
    BY <1>2, <2>1, <2>3, <2>4
  <2>6. spent'[c] \in [PS!Frequency -> 0 .. MaxTime]
    BY <2>1, <2>2, <2>5
  <2>7. QED
    BY <2>5, <2>6
<1>4. spent' \in [PS!Cpu -> [PS!Frequency -> 0 .. MaxTime]] /\ SpentInTime'
  BY <1>1, <1>3 DEF SpentInTime
<1>5. PS!TypeOK'
  BY <1>2, <1>4 DEF PS!Tick, PStatesInv, PS!TypeOK
<1>6. QED
  BY <1>4, <1>5 DEF PS!Tick, PStatesInv, CountsOwn

LEMMA ChangeInv ==
  ASSUME PS!PStatesAssumption, PStatesInv, NEW c \in PS!Cpu, PS!Change(c)
  PROVE  PStatesInv'
<1>1. base' \in [PS!Cpu -> [PS!Frequency -> 0 .. MaxTime]]
  BY DEF PS!Change, PStatesInv, PS!TypeOK
<1>2. time_in_state' \in [PS!Cpu -> Table \cup {PS!Unreadable}]
  BY DEF PS!Change, PStatesInv, PS!TypeOK
<1>3. changes' \in 0 .. MaxChanges
  BY DEF PS!Change, PStatesInv, PS!TypeOK, PS!PStatesAssumption
<1>4. PS!TypeOK'
  BY <1>1, <1>2, <1>3 DEF PS!Change, PStatesInv, PS!TypeOK
<1>5. QED
  BY <1>4 DEF PS!Change, PStatesInv, SpentInTime, CountsOwn

LEMMA BeginInv ==
  ASSUME PS!PStatesAssumption, PStatesInv, PS!Begin
  PROVE  PStatesInv'
<1>1. build' \in BOOLEAN
  BY DEF PS!Begin
<1>2. /\ cpu' \in 0 .. m_ncpus /\ updated' \in -1 .. MaxTime
      /\ pstate_index' \in 0 .. Len(m_sensors')
  <2>1. /\ m_ncpus \in Nat \ {0} /\ cpu \in 0 .. m_ncpus /\ Len(m_sensors) \in Nat
        /\ pstate_time \in 0 .. MaxTime /\ MaxTime \in Nat
    BY DEF PStatesInv, PS!TypeOK, PS!PStatesAssumption
  <2>2. QED
    BY <2>1 DEF PS!Begin
<1>3. PS!TypeOK'
  BY <1>1, <1>2 DEF PS!Begin, PStatesInv, PS!TypeOK, PS!kernelVars
<1>4. QED
  BY <1>3 DEF PS!Begin, PStatesInv, SpentInTime, CountsOwn, PS!kernelVars

\* The first pass appends the sensors of a file.
LEMMA BuildSound ==
  ASSUME PS!PStatesAssumption, PStatesInv, cpu \in PS!Cpu, time_in_state[cpu] # PS!Unreadable,
         m_sensors' = m_sensors \o [i \in 1 .. Len(time_in_state[cpu]) |-> PS!PState(i)]
  PROVE  /\ m_sensors' \in Seq(PStateSensor) /\ Len(m_sensors) <= Len(m_sensors')
         /\ \A i \in DOMAIN m_sensors' : CountsOwn(m_sensors'[i])
<1> DEFINE new == [i \in 1 .. Len(time_in_state[cpu]) |-> PS!PState(i)]
<1>1. time_in_state[cpu] \in Seq(Nat)
  BY RowIsFrequency DEF PStatesInv
<1>2. \A i \in 1 .. Len(time_in_state[cpu]) : PS!PState(i) \in PStateSensor /\ CountsOwn(PS!PState(i))
  BY <1>1, PStateSound
<1>3. /\ new \in Seq(PStateSensor) /\ Len(new) \in Nat
      /\ \A i \in 1 .. Len(new) : CountsOwn(new[i])
  BY <1>1, <1>2
<1>4. m_sensors \in Seq(PStateSensor) /\ \A i \in 1 .. Len(m_sensors) : CountsOwn(m_sensors[i])
  BY DEF PStatesInv
<1> HIDE DEF new
<1>5. m_sensors' = m_sensors \o new
  BY DEF new
<1>6. m_sensors' \in Seq(PStateSensor) /\ Len(m_sensors') = Len(m_sensors) + Len(new)
  BY <1>3, <1>4, <1>5, ConcatProperties
<1>7. \A i \in 1 .. Len(m_sensors') : CountsOwn(m_sensors'[i])
  BY <1>3, <1>4, <1>5, <1>6
<1>8. QED
  BY <1>3, <1>4, <1>6, <1>7

\* A later pass reads sensors of the CPU's own rows, and only those.
LEMMA ReadRowsSound ==
  ASSUME PS!PStatesAssumption, PStatesInv, cpu \in PS!Cpu, time_in_state[cpu] # PS!Unreadable, PS!ReadRows
  PROVE  /\ m_sensors' \in Seq(PStateSensor) /\ Len(m_sensors') = Len(m_sensors)
         /\ \A i \in DOMAIN m_sensors' : CountsOwn(m_sensors'[i])
         /\ pstate_index' \in 0 .. Len(m_sensors)
         /\ pstate_error' \in {pstate_error, "changed"} /\ broken' \in BOOLEAN
<1> DEFINE table == time_in_state[cpu]
           Own(i) == /\ ~(pstate_index + i > Len(m_sensors))
                     /\ PS!IsOf(m_sensors[pstate_index + i], i)
<1>1. PICK read \in 0 .. Len(table) :
        /\ \A i \in 1 .. read : Own(i)
        /\ m_sensors' = [j \in DOMAIN m_sensors |->
             IF j \in pstate_index + 1 .. pstate_index + read THEN PS!Updated(m_sensors[j])
             ELSE m_sensors[j]]
        /\ pstate_index' = pstate_index + read
        /\ broken' \in BOOLEAN
        /\ pstate_error' \in {pstate_error, "changed"}
  BY DEF PS!ReadRows
<1>2. table \in Seq(Nat) /\ read \in Nat
  BY RowIsFrequency DEF PStatesInv
<1>3. /\ m_sensors \in Seq(PStateSensor) /\ Len(m_sensors) \in Nat
      /\ pstate_index \in 0 .. Len(m_sensors)
      /\ \A i \in DOMAIN m_sensors : CountsOwn(m_sensors[i])
  BY DEF PStatesInv, PS!TypeOK
<1>4. pstate_index' \in 0 .. Len(m_sensors)
  <2>1. CASE read = 0
    BY <1>1, <1>3, <2>1
  <2>2. CASE read # 0
    <3>1. Own(read)
      BY <1>1, <1>2, <2>2
    <3>2. QED
      BY <1>1, <1>2, <1>3, <3>1
  <2>3. QED
    BY <2>1, <2>2
<1>5. ASSUME NEW j \in DOMAIN m_sensors
      PROVE  m_sensors'[j] \in PStateSensor /\ CountsOwn(m_sensors'[j])
  <2>1. CASE j \in pstate_index + 1 .. pstate_index + read
    <3>1. j - pstate_index \in 1 .. read /\ pstate_index + (j - pstate_index) = j
      BY <1>2, <1>3, <2>1
    <3>2. PS!IsOf(m_sensors[j], j - pstate_index)
      BY <1>1, <3>1
    <3>3. m_sensors[j].m_cpu = cpu
      BY <3>2 DEF PS!IsOf
    <3>4. m_sensors[j] \in PStateSensor /\ CountsOwn(m_sensors[j])
      BY <1>3
    <3>5. QED
      BY <1>1, <2>1, <3>3, <3>4, UpdatedSound
  <2>2. CASE j \notin pstate_index + 1 .. pstate_index + read
    BY <1>1, <1>3, <2>2
  <2>3. QED
    BY <2>1, <2>2
<1>6. m_sensors' \in Seq(PStateSensor) /\ Len(m_sensors') = Len(m_sensors)
  BY <1>1, <1>3, <1>5
<1>7. QED
  BY <1>1, <1>3, <1>4, <1>5, <1>6

LEMMA UpdateInv ==
  ASSUME PS!PStatesAssumption, PStatesInv, PS!update_sensors
  PROVE  PStatesInv'
<1>1. cpu \in PS!Cpu /\ cpu' \in 0 .. m_ncpus
  BY DEF PS!update_sensors, PStatesInv, PS!TypeOK, PS!PStatesAssumption, PS!Cpu
<1>2. /\ m_sensors' \in Seq(PStateSensor)
      /\ \A i \in DOMAIN m_sensors' : CountsOwn(m_sensors'[i])
      /\ pstate_index' \in 0 .. Len(m_sensors') /\ broken' \in BOOLEAN
      /\ pstate_error' \in {"none", "unreadable", "changed"}
  <2>1. CASE /\ time_in_state[cpu] = PS!Unreadable
             /\ pstate_error' = "unreadable" /\ UNCHANGED <<m_sensors, pstate_index, broken>>
    BY <2>1 DEF PStatesInv, PS!TypeOK
  <2>2. CASE /\ time_in_state[cpu] # PS!Unreadable
             /\ m_sensors' = m_sensors \o [i \in 1 .. Len(time_in_state[cpu]) |-> PS!PState(i)]
             /\ UNCHANGED <<pstate_index, pstate_error, broken>>
    <3>1. /\ m_sensors' \in Seq(PStateSensor) /\ Len(m_sensors) <= Len(m_sensors')
          /\ \A i \in DOMAIN m_sensors' : CountsOwn(m_sensors'[i])
      BY <1>1, <2>2, BuildSound
    <3>2. /\ pstate_index \in 0 .. Len(m_sensors)
          /\ Len(m_sensors) \in Nat /\ Len(m_sensors') \in Nat
          /\ broken \in BOOLEAN /\ pstate_error \in {"none", "unreadable", "changed"}
      BY <3>1 DEF PStatesInv, PS!TypeOK
    <3>3. pstate_index' = pstate_index /\ pstate_error' = pstate_error /\ broken' = broken
      BY <2>2
    <3>4. QED
      BY <3>1, <3>2, <3>3
  <2>3. CASE time_in_state[cpu] # PS!Unreadable /\ PS!ReadRows
    <3>1. /\ m_sensors' \in Seq(PStateSensor) /\ Len(m_sensors') = Len(m_sensors)
          /\ \A i \in DOMAIN m_sensors' : CountsOwn(m_sensors'[i])
          /\ pstate_index' \in 0 .. Len(m_sensors)
          /\ pstate_error' \in {pstate_error, "changed"} /\ broken' \in BOOLEAN
      BY <1>1, <2>3, ReadRowsSound
    <3>2. pstate_error \in {"none", "unreadable", "changed"}
      BY DEF PStatesInv, PS!TypeOK
    <3>3. QED
      BY <3>1, <3>2
  <2>4. QED
    BY <2>1, <2>2, <2>3 DEF PS!update_sensors
<1>3. PS!TypeOK'
  <2>1. \A i \in DOMAIN m_sensors' : m_sensors'[i].m_cpu \in PS!Cpu
    <3>1. \A i \in DOMAIN m_sensors' : m_sensors'[i] \in PStateSensor
      BY <1>2
    <3>2. QED
      BY <3>1 DEF PStateSensor
  <2>2. QED
    BY <1>1, <1>2, <2>1 DEF PS!update_sensors, PStatesInv, PS!TypeOK, PS!kernelVars
<1>4. QED
  BY <1>2, <1>3 DEF PS!update_sensors, PStatesInv, SpentInTime, PS!kernelVars, CountsOwn

LEMMA NextPStates ==
  ASSUME PS!PStatesAssumption, PStatesInv, [PS!Next]_(PS!vars)
  PROVE  PStatesInv'
<1>1. CASE PS!Tick
  BY <1>1, TickInv
<1>2. CASE PS!Begin
  BY <1>2, BeginInv
<1>3. CASE PS!update_sensors
  BY <1>3, UpdateInv
<1>4. CASE \E c \in PS!Cpu : PS!Change(c)
  BY <1>4, ChangeInv
<1>5. CASE UNCHANGED PS!vars
  BY <1>5 DEF PS!vars, PStatesInv, PS!TypeOK, SpentInTime, CountsOwn
<1>6. QED
  BY <1>1, <1>2, <1>3, <1>4, <1>5 DEF PS!Next

LEMMA PStatesInvariance ==
  ASSUME PS!PStatesAssumption
  PROVE  PS!Spec => []PStatesInv
<1>1. PS!Init => PStatesInv
  BY InitPStates
<1>2. PStatesInv /\ [PS!Next]_(PS!vars) => PStatesInv'
  BY NextPStates
<1>3. QED
  BY <1>1, <1>2, PTL DEF PS!Spec

----------------------------------------------------------------------------
(***************************************************************************)
(* The theorems.                                                           *)
(***************************************************************************)
\* The state is always of its type (PStates.cpp): the index never leaves the list but
\* by one, where the model ends, and no CPU spends more than the time that passed.
THEOREM PStatesTypeCorrect == PS!Spec => []PS!TypeOK
<1>1. PStatesInv => PS!TypeOK
  BY DEF PStatesInv
<1>2. PS!Spec => []PStatesInv
  BY PStatesInvariance, TablesAssumption
<1>3. QED
  BY <1>1, <1>2, PTL

\* The value of a sensor is the time that its own CPU spent at its own frequency since
\* it was read last, whatever files come, go and change between and within the
\* passes (PStates.cpp, update_sensors), for every number of CPUs.
THEOREM ValueOfOwnState == PS!Spec => []TimeOfOwnState
<1>1. PStatesInv => TimeOfOwnState
  BY DEF PStatesInv, TimeOfOwnState, PS!TimeOfOwnState, CountsOwn
<1>2. PS!Spec => []PStatesInv
  BY PStatesInvariance, TablesAssumption
<1>3. QED
  BY <1>1, <1>2, PTL

----------------------------------------------------------------------------
(***************************************************************************)
(* The upload without BOINC (Upload, as U), for any names, ids, configs    *)
(* and messages.  Load folds the entries of the config into the table: the *)
(* places of the last ones come off first.                                 *)
(***************************************************************************)
\* The fold over the subsets of the places S.
LoadStep(map, entries, S, g) ==
  [s \in SUBSET S |->
     IF s = {} THEN map
     ELSE U!Assigned(g[s \ {U!Max(s)}], entries[U!Max(s)])]
LoadIter(map, entries, S) == CHOOSE g : g = LoadStep(map, entries, S, g)

LEMMA LoadIs ==
  U!Load = LoadIter(DatastreamIndexMap, U!Taken, DOMAIN U!Taken)[DOMAIN U!Taken]
BY Zenon DEF U!Load, U!FoldLeft, U!MapThenFoldSet, LoadStep, LoadIter

\* What it comes to: the last entry of a name counts, and if there is none, what the
\* table said.
Named(entries, s, name) == {j \in s : entries[j].name = name}
After(map, entries, s) ==
  [name \in DOMAIN map \cup {entries[j].name : j \in s} |->
     IF Named(entries, s, name) = {} THEN map[name]
     ELSE entries[U!Max(Named(entries, s, name))].id]

\* The greatest of a set of places.
LEMMA Greatest ==
  ASSUME NEW n \in Nat, NEW s, s \subseteq 1 .. n, s # {}
  PROVE  /\ U!Max(s) \in s
         /\ \A y \in s : y <= U!Max(s)
<1> DEFINE D == {d \in Nat : n - d \in s}
<1>1. PICK x0 \in s : TRUE
  OBVIOUS
<1>2. D \subseteq Nat /\ \A y \in s : y \in Int /\ n - y \in D
  OBVIOUS
<1>3. D # {}
  BY <1>1, <1>2
<1>4. PICK d \in D : \A e \in D : d <= e
  BY <1>2, <1>3, Least
<1>5. PICK x \in s : \A y \in s : x >= y
  <2>1. d \in Int /\ n - d \in s /\ \A y \in s : d <= n - y
    BY <1>2, <1>4
  <2>2. \A y \in s : n - d >= y
    BY <1>2, <2>1
  <2>3. QED
    BY <2>1, <2>2
<1>6. U!Max(s) \in s /\ \A y \in s : U!Max(s) >= y
  BY <1>5 DEF U!Max
<1>7. QED
  BY <1>6

LEMMA GreatestIs ==
  ASSUME NEW n \in Nat, NEW s, s \subseteq 1 .. n, NEW x \in s, \A y \in s : y <= x
  PROVE  U!Max(s) = x
<1> DEFINE m == U!Max(s)
<1>1. m \in s /\ \A y \in s : y <= m
  BY Greatest
<1> HIDE DEF m
<1>2. m \in Int /\ x \in Int /\ x <= m /\ m <= x
  BY <1>1
<1>3. m = x
  BY <1>2
<1>4. QED
  BY <1>3 DEF m

\* The entry of the greatest place is the last one assigned.
LEMMA AfterLast ==
  ASSUME NEW n \in Nat, NEW map, NEW entries, NEW s, s \subseteq 1 .. n, s # {}
  PROVE  After(map, entries, s)
           = U!Assigned(After(map, entries, s \ {U!Max(s)}), entries[U!Max(s)])
<1> DEFINE x == U!Max(s)
           t == s \ {x}
           old == After(map, entries, t)
           D == DOMAIN map \cup {entries[j].name : j \in s}
<1>1. x \in s /\ \A y \in s : y <= x
  BY Greatest
<1> HIDE DEF x
<1>2. /\ DOMAIN old = DOMAIN map \cup {entries[j].name : j \in t}
      /\ DOMAIN old \cup {entries[x].name} = D
  BY <1>1 DEF After
<1>3. ASSUME NEW name \in D
      PROVE  (IF Named(entries, s, name) = {} THEN map[name]
              ELSE entries[U!Max(Named(entries, s, name))].id)
             = IF name = entries[x].name THEN entries[x].id ELSE old[name]
  <2>1. CASE name = entries[x].name
    <3>1. /\ Named(entries, s, name) \subseteq 1 .. n /\ x \in Named(entries, s, name)
          /\ \A y \in Named(entries, s, name) : y <= x
      BY <1>1, <2>1 DEF Named
    <3>2. U!Max(Named(entries, s, name)) = x
      BY <3>1, GreatestIs
    <3>3. QED
      BY <2>1, <3>1, <3>2
  <2>2. CASE name # entries[x].name
    <3>1. Named(entries, s, name) = Named(entries, t, name)
      BY <2>2 DEF Named
    <3>2. name \in DOMAIN old
      BY <1>2, <2>2
    <3>3. old[name] = IF Named(entries, t, name) = {} THEN map[name]
                      ELSE entries[U!Max(Named(entries, t, name))].id
      BY <1>2, <3>2 DEF After
    <3>4. QED
      BY <2>2, <3>1, <3>3
  <2>3. QED
    BY <2>1, <2>2
<1> HIDE DEF old, t
<1>4. After(map, entries, s)
        = [name \in D |-> IF Named(entries, s, name) = {} THEN map[name]
                          ELSE entries[U!Max(Named(entries, s, name))].id]
  BY DEF After
<1>5. U!Assigned(old, entries[x])
        = [name \in D |-> IF name = entries[x].name THEN entries[x].id ELSE old[name]]
  BY <1>2 DEF U!Assigned
<1>6. After(map, entries, s) = U!Assigned(old, entries[x])
  <2> HIDE DEF D
  <2>1. QED
    BY <1>3, <1>4, <1>5
<1>7. QED
  BY <1>6 DEF old, t, x

\* The fold has a solution, ...
LEMMA LoadIterExists ==
  ASSUME NEW n \in Nat, NEW map, map = [name \in DOMAIN map |-> map[name]], NEW entries
  PROVE  \E g : g = LoadStep(map, entries, 1 .. n, g)
<1> DEFINE g == [s \in SUBSET (1 .. n) |-> After(map, entries, s)]
<1>1. ASSUME NEW s \in SUBSET (1 .. n)
      PROVE  After(map, entries, s)
               = IF s = {} THEN map
                 ELSE U!Assigned(g[s \ {U!Max(s)}], entries[U!Max(s)])
  <2>1. CASE s = {}
    <3>1. After(map, entries, {}) = [name \in DOMAIN map |-> map[name]]
      BY DEF After, Named
    <3>2. QED
      BY <2>1, <3>1
  <2>2. CASE s # {}
    <3>1. g[s \ {U!Max(s)}] = After(map, entries, s \ {U!Max(s)})
      OBVIOUS
    <3>2. QED
      BY <2>2, <3>1, AfterLast
  <2>3. QED
    BY <2>1, <2>2
<1>2. g = [s \in SUBSET (1 .. n) |->
             IF s = {} THEN map
             ELSE U!Assigned(g[s \ {U!Max(s)}], entries[U!Max(s)])]
  BY <1>1
<1>3. g = LoadStep(map, entries, 1 .. n, g)
  BY <1>2 DEF LoadStep
<1>4. QED
  BY <1>3, Zenon

\* ... and no other one.
LEMMA LoadIterIs ==
  ASSUME NEW n \in Nat, NEW map, map = [name \in DOMAIN map |-> map[name]], NEW entries
  PROVE  LoadIter(map, entries, 1 .. n)[1 .. n] = After(map, entries, 1 .. n)
<1> DEFINE g == LoadIter(map, entries, 1 .. n)
           Bad == {k \in 0 .. n : g[1 .. k] # After(map, entries, 1 .. k)}
<1>1. g = LoadStep(map, entries, 1 .. n, g)
  BY LoadIterExists, Zenon DEF LoadIter
<1>2. ASSUME NEW s \in SUBSET (1 .. n)
      PROVE  g[s] = IF s = {} THEN map
                    ELSE U!Assigned(g[s \ {U!Max(s)}], entries[U!Max(s)])
  <2> HIDE DEF g
  <2>1. LoadStep(map, entries, 1 .. n, g)[s]
          = IF s = {} THEN map ELSE U!Assigned(g[s \ {U!Max(s)}], entries[U!Max(s)])
    BY DEF LoadStep
  <2>2. QED
    BY <1>1, <2>1, Zenon
<1>3. SUFFICES ASSUME n \in Bad
               PROVE  FALSE
  OBVIOUS
<1> HIDE DEF g
<1>4. PICK k \in Bad : \A m \in Bad : k <= m
  <2>1. Bad \subseteq Nat /\ Bad # {}
    BY <1>3
  <2> HIDE DEF Bad
  <2>2. QED
    BY <2>1, Least
<1>5. k # 0
  <2>1. 1 .. 0 = {}
    OBVIOUS
  <2>2. g[{}] = map
    BY <1>2
  <2>3. After(map, entries, {}) = [name \in DOMAIN map |-> map[name]]
    BY DEF After, Named
  <2>4. QED
    BY <1>4, <2>1, <2>2, <2>3
<1>6. /\ 1 .. k \in SUBSET (1 .. n) /\ 1 .. k # {}
      /\ (1 .. k) \ {k} = 1 .. (k - 1) /\ k - 1 \in 0 .. n /\ k - 1 \notin Bad
  BY <1>4, <1>5
<1>7. U!Max(1 .. k) = k
  <2>1. k \in Nat /\ k \in 1 .. k /\ \A y \in 1 .. k : y <= k
    BY <1>4, <1>5
  <2>2. QED
    BY <2>1, GreatestIs
<1>8. g[1 .. (k - 1)] = After(map, entries, 1 .. (k - 1))
  BY <1>6
<1>9. g[1 .. k] = U!Assigned(After(map, entries, 1 .. (k - 1)), entries[k])
  BY <1>2, <1>6, <1>7, <1>8
<1>10. After(map, entries, 1 .. k)
         = U!Assigned(After(map, entries, 1 .. (k - 1)), entries[k])
  <2>1. After(map, entries, 1 .. k)
          = U!Assigned(After(map, entries, (1 .. k) \ {U!Max(1 .. k)}),
                       entries[U!Max(1 .. k)])
    <3>1. \A s \in SUBSET (1 .. n) : s # {} =>
            After(map, entries, s)
              = U!Assigned(After(map, entries, s \ {U!Max(s)}), entries[U!Max(s)])
      BY AfterLast
    <3>2. QED
      BY <1>6, <3>1, Zenon
  <2>2. QED
    BY <1>6, <1>7, <2>1
<1>11. QED
  BY <1>4, <1>9, <1>10


----------------------------------------------------------------------------
\* The table knows the names that any config gave, each under an id given to it.
TableInv ==
  /\ DatastreamIndexMap = [name \in DOMAIN DatastreamIndexMap |-> DatastreamIndexMap[name]]
  /\ \A name \in DOMAIN DatastreamIndexMap : <<name, DatastreamIndexMap[name]>> \in given
  /\ \A pair \in given : pair[1] \in DOMAIN DatastreamIndexMap

\* OwnId of the sensors of a file and of what was loaded for them.
EachOwn(sensors, datastreams, pairs) ==
  \A i \in DOMAIN sensors :
    LET s == sensors[i]
        named == {j \in DOMAIN datastreams : datastreams[j].name = s.name}
    IN /\ U!idIsValid(s) => <<s.name, s.datastream_id>> \in pairs
       /\ U!BadEntry \notin U!ToSet(datastreams) /\ named # {}
            => s.datastream_id = datastreams[U!Max(named)].id
       /\ ~U!idIsValid(s) => \A id \in Id : <<s.name, id>> \notin pairs
OwnInv == EachOwn(saved, loaded.datastreams, loaded.given)

UploadInv ==
  /\ config \in U!Configs
  /\ \A pair \in given : pair[2] \in Id
  /\ TableInv
  /\ OwnInv

\* The entries that Load takes.
LEMMA TakenIs ==
  ASSUME config \in U!Configs
  PROVE  \E n \in Nat :
           /\ DOMAIN U!Taken = 1 .. n
           /\ \A j \in 1 .. n : U!Taken[j] \in U!Entry
           /\ U!BadEntry \notin U!ToSet(config) => U!Taken = config
<1> DEFINE bad == {i \in DOMAIN config : config[i] = U!BadEntry}
<1>1. PICK m \in 0 .. MaxEntries : config \in [1 .. m -> U!Entry \cup {U!BadEntry}]
  BY DEF U!Configs, U!BoundedSeq, U!SeqOf
<1>2. U!Taken = IF bad = {} THEN config ELSE SubSeq(config, 1, U!Min(bad) - 1)
  BY DEF U!Taken
<1>3. MaxEntries \in Nat /\ m \in Nat
  BY TablesAssumption DEF U!UploadAssumption
<1>4. U!BadEntry \notin U!ToSet(config) => bad = {}
  BY DEF U!ToSet
<1>5. CASE bad = {}
  <2>1. \A j \in 1 .. m : config[j] \in U!Entry
    BY <1>1, <1>5
  <2>2. QED
    BY <1>1, <1>2, <1>3, <1>5, <2>1
<1>6. CASE bad # {}
  <2>1. bad \subseteq Nat
    BY <1>1
  <2>2. PICK x \in bad : \A y \in bad : x <= y
    BY <1>6, <2>1, Least
  <2>3. U!Min(bad) \in bad /\ \A y \in bad : U!Min(bad) <= y
    BY <2>2 DEF U!Min
  <2> DEFINE z == U!Min(bad)
             k == z - 1
  <2>4. k \in Nat /\ k < m /\ \A j \in 1 .. k : j \in 1 .. m /\ j \notin bad
    <3>1. z \in bad /\ \A y \in bad : z <= y
      BY <2>3
    <3>2. bad \subseteq 1 .. m
      BY <1>1
    <3> HIDE DEF bad, z
    <3>3. QED
      BY <1>3, <3>1, <3>2
  <2> HIDE DEF k
  <2>5. \A j \in 1 .. k : config[j] \in U!Entry
    BY <1>1, <2>4
  <2>6. SubSeq(config, 1, k) = [j \in 1 .. k |-> config[j]]
    <3>1. SubSeq(config, 1, k) = [j \in 1 .. (1 + k - 1) |-> config[1 + j - 1]]
      BY <2>4
    <3>2. QED
      BY <2>4, <3>1
  <2>7. U!Taken = [j \in 1 .. k |-> config[j]]
    BY <1>2, <1>6, <2>6 DEF k, z
  <2>8. QED
    BY <1>4, <1>6, <2>4, <2>5, <2>7
<1>7. QED
  BY <1>5, <1>6

\* The table after the entries taken, whose ids are naturals.
LEMMA LoadedIs ==
  ASSUME config \in U!Configs, TableInv
  PROVE  /\ U!Load = After(DatastreamIndexMap, U!Taken, DOMAIN U!Taken)
         /\ \A j \in DOMAIN U!Taken : U!Taken[j] \in U!Entry
<1>1. PICK n \in Nat :
        DOMAIN U!Taken = 1 .. n /\ \A j \in 1 .. n : U!Taken[j] \in U!Entry
  BY TakenIs
<1>2. LoadIter(DatastreamIndexMap, U!Taken, 1 .. n)[1 .. n]
        = After(DatastreamIndexMap, U!Taken, 1 .. n)
  <2>1. DatastreamIndexMap
          = [name \in DOMAIN DatastreamIndexMap |-> DatastreamIndexMap[name]]
    BY DEF TableInv
  <2>2. QED
    BY <2>1, LoadIterIs, Zenon
<1>3. QED
  BY <1>1, <1>2, LoadIs

\* A table that was read anew knows the names given, too, and the last entry of a name
\* that was taken is the one it has.
LEMMA TableKept ==
  ASSUME config \in U!Configs, TableInv, DatastreamIndexMap' = U!Load,
         given' = given \cup {<<e.name, e.id>> : e \in U!ToSet(U!Taken)}
  PROVE  /\ TableInv'
         /\ \A name : Named(U!Taken, DOMAIN U!Taken, name) # {} =>
              /\ name \in DOMAIN DatastreamIndexMap'
              /\ DatastreamIndexMap'[name]
                   = U!Taken[U!Max(Named(U!Taken, DOMAIN U!Taken, name))].id
<1> DEFINE taken == U!Taken
           old == DatastreamIndexMap
           D == DOMAIN old \cup {taken[j].name : j \in DOMAIN taken}
           newest(name) == U!Max(Named(taken, DOMAIN taken, name))
<1>1. PICK n \in Nat : DOMAIN taken = 1 .. n /\ \A j \in 1 .. n : taken[j] \in U!Entry
  BY TakenIs
<1>2. DatastreamIndexMap'
        = [name \in D |-> IF Named(taken, DOMAIN taken, name) = {} THEN old[name]
                          ELSE taken[newest(name)].id]
  BY LoadedIs DEF After
<1>3. \A pair : pair \in given' <=>
        \/ pair \in given
        \/ \E j \in DOMAIN taken : pair = <<taken[j].name, taken[j].id>>
  BY DEF U!ToSet
<1>4. \A name : Named(taken, DOMAIN taken, name) # {} =>
        /\ newest(name) \in DOMAIN taken /\ taken[newest(name)].name = name /\ name \in D
  <2> TAKE name
  <2> HAVE Named(taken, DOMAIN taken, name) # {}
  <2>1. Named(taken, DOMAIN taken, name) \subseteq 1 .. n
    BY <1>1 DEF Named
  <2>2. newest(name) \in Named(taken, DOMAIN taken, name)
    BY <2>1, Greatest
  <2> HIDE DEF newest
  <2>3. QED
    BY <2>2 DEF Named
<1>5. \A name \in D : Named(taken, DOMAIN taken, name) = {} => name \in DOMAIN old
  BY DEF Named
<1> HIDE DEF taken, newest, D
<1>6. DOMAIN DatastreamIndexMap' = D
  BY <1>2
<1>7. \A name : Named(taken, DOMAIN taken, name) # {} =>
        name \in DOMAIN DatastreamIndexMap' /\ DatastreamIndexMap'[name] = taken[newest(name)].id
  BY <1>2, <1>4
<1>8. ASSUME NEW name \in D
      PROVE  <<name, DatastreamIndexMap'[name]>> \in given'
  <2>1. CASE Named(taken, DOMAIN taken, name) = {}
    BY <1>2, <1>3, <1>5, <1>8, <2>1 DEF TableInv
  <2>2. CASE Named(taken, DOMAIN taken, name) # {}
    BY <1>3, <1>4, <1>7, <2>2
  <2>3. QED
    BY <2>1, <2>2
<1>9. ASSUME NEW pair \in given'
      PROVE  pair[1] \in D
  <2>1. CASE pair \in given
    BY <2>1 DEF TableInv, D
  <2>2. CASE \E j \in DOMAIN taken : pair = <<taken[j].name, taken[j].id>>
    BY <2>2 DEF D
  <2>3. QED
    BY <1>3, <1>9, <2>1, <2>2
<1>10. DatastreamIndexMap' = [name \in DOMAIN DatastreamIndexMap' |-> DatastreamIndexMap'[name]]
  BY <1>2
<1>11. TableInv'
  BY <1>6, <1>8, <1>9, <1>10 DEF TableInv
<1>12. QED
  BY <1>7, <1>11 DEF taken, newest

\* A sensor of the file has its name and what the table says of it.
LEMMA SensorIs ==
  ASSUME NEW names, NEW map, NEW i \in DOMAIN names
  PROVE  LET s == U!Sensors(names, map)[i]
         IN /\ s.name = names[i]
            /\ s.datastream_id = IF names[i] \in DOMAIN map THEN map[names[i]] ELSE -1
<1>1. U!Sensors(names, map)[i] = U!change_datastream_id(U!SensorData(names[i], i), map)
  BY DEF U!Sensors
<1>2. QED
  BY <1>1 DEF U!change_datastream_id, U!SensorData, U!unknown_osd_id

\* What is written is right.
LEMMA WrittenIs ==
  ASSUME UploadInv, NEW names, DatastreamIndexMap' = U!Load,
         given' = given \cup {<<e.name, e.id>> : e \in U!ToSet(U!Taken)},
         \A pair \in given' : pair[2] \in Id,
         saved' = U!Sensors(names, DatastreamIndexMap'),
         loaded' = [datastreams |-> config, given |-> given']
  PROVE  OwnInv'
<1> DEFINE map == DatastreamIndexMap'
<1>0. /\ config \in U!Configs /\ TableInv /\ TableInv'
      /\ \A name : Named(U!Taken, DOMAIN U!Taken, name) # {} =>
           /\ name \in DOMAIN map
           /\ map[name] = U!Taken[U!Max(Named(U!Taken, DOMAIN U!Taken, name))].id
  BY TableKept DEF UploadInv
<1>1. SUFFICES ASSUME NEW i \in DOMAIN saved'
               PROVE  /\ U!idIsValid(saved'[i]) =>
                           <<saved'[i].name, saved'[i].datastream_id>> \in given'
                      /\ LET named == {j \in DOMAIN config : config[j].name = saved'[i].name}
                         IN U!BadEntry \notin U!ToSet(config) /\ named # {} =>
                              saved'[i].datastream_id = config[U!Max(named)].id
                      /\ ~U!idIsValid(saved'[i]) =>
                           \A id \in Id : <<saved'[i].name, id>> \notin given'
  <2>1. loaded'.datastreams = config /\ loaded'.given = given'
    OBVIOUS
  <2>2. OwnInv' <=> EachOwn(saved', config, given')
    BY <2>1 DEF OwnInv
  <2>3. QED
    BY <2>2, Zenon DEF EachOwn
<1> DEFINE name == saved'[i].name
           id == saved'[i].datastream_id
<1>2. /\ i \in DOMAIN names
      /\ id = IF name \in DOMAIN map THEN map[name] ELSE -1
  BY SensorIs DEF U!Sensors
<1>3. U!idIsValid(saved'[i]) <=> id > -1
  BY DEF U!idIsValid, U!unknown_osd_id
<1> HIDE DEF name, id, map
<1>4. \A n \in DOMAIN map : <<n, map[n]>> \in given' /\ map[n] \in Nat
  <2>1. Id \subseteq Nat
    BY TablesAssumption DEF U!UploadAssumption
  <2>2. \A n \in DOMAIN map : <<n, map[n]>> \in given'
    BY <1>0 DEF TableInv, map
  <2>3. QED
    BY <2>1, <2>2
<1>5. name \in DOMAIN map <=> U!idIsValid(saved'[i])
  <2>1. CASE name \in DOMAIN map
    <3>1. id \in Nat
      BY <1>2, <1>4, <2>1
    <3>2. QED
      BY <1>3, <2>1, <3>1
  <2>2. CASE name \notin DOMAIN map
    BY <1>2, <1>3, <2>2
  <2>3. QED
    BY <2>1, <2>2
<1>6. U!idIsValid(saved'[i]) => <<name, id>> \in given'
  BY <1>2, <1>4, <1>5
<1>7. ASSUME U!BadEntry \notin U!ToSet(config),
             {j \in DOMAIN config : config[j].name = name} # {}
      PROVE  id = config[U!Max({j \in DOMAIN config : config[j].name = name})].id
  <2>1. U!Taken = config
    BY <1>0, <1>7, TakenIs
  <2>2. Named(config, DOMAIN config, name) = {j \in DOMAIN config : config[j].name = name}
    BY DEF Named
  <2>3. QED
    BY <1>0, <1>2, <1>7, <2>1, <2>2 DEF map
<1>8. ~U!idIsValid(saved'[i]) => \A n \in Id : <<name, n>> \notin given'
  <2>1. \A pair \in given' : pair[1] \in DOMAIN map
    BY <1>0 DEF TableInv, map
  <2>2. QED
    BY <1>5, <2>1
<1>9. QED
  BY <1>6, <1>7, <1>8 DEF name, id

LEMMA UploadStep ==
  ASSUME UploadInv, [U!Next]_(U!vars)
  PROVE  UploadInv'
<1>1. CASE U!Edit
  <2>1. config' \in U!Configs
    BY <1>1 DEF U!Edit
  <2>2. UNCHANGED <<DatastreamIndexMap, saved, loaded, given>>
    BY <1>1 DEF U!Edit
  <2>3. OwnInv'
    BY <2>2 DEF UploadInv, OwnInv
  <2>4. QED
    BY <2>1, <2>2, <2>3 DEF UploadInv, TableInv
<1>2. ASSUME NEW names, U!send_trickle_up(names)
      PROVE  UploadInv'
  <2>1. /\ DatastreamIndexMap' = U!Load /\ config' = config
        /\ given' = given \cup {<<e.name, e.id>> : e \in U!ToSet(U!Taken)}
        /\ \/ /\ saved' = U!Sensors(names, DatastreamIndexMap')
              /\ loaded' = [datastreams |-> config, given |-> given']
           \/ UNCHANGED <<saved, loaded>>
    BY <1>2 DEF U!send_trickle_up, U!SaveToFile
  <2>2. config \in U!Configs /\ TableInv
    BY DEF UploadInv
  <2>3. TableInv'
    BY <2>1, <2>2, TableKept
  <2>4. \A pair \in given' : pair[2] \in Id
    <3>1. \A j \in DOMAIN U!Taken : U!Taken[j].id \in Id
      BY <2>2, LoadedIs DEF U!Entry
    <3>2. \A pair \in given' : pair \in given \/ \E j \in DOMAIN U!Taken : pair[2] = U!Taken[j].id
      BY <2>1 DEF U!ToSet
    <3>3. QED
      BY <3>1, <3>2 DEF UploadInv
  <2>5. OwnInv'
    <3>1. CASE UNCHANGED <<saved, loaded>>
      BY <3>1 DEF UploadInv, OwnInv
    <3>2. CASE /\ saved' = U!Sensors(names, DatastreamIndexMap')
               /\ loaded' = [datastreams |-> config, given |-> given']
      BY <2>1, <2>4, <3>2, WrittenIs
    <3>3. QED
      BY <2>1, <3>1, <3>2
  <2>6. QED
    BY <2>1, <2>2, <2>3, <2>4, <2>5 DEF UploadInv
<1>3. CASE UNCHANGED U!vars
  <2>1. UNCHANGED <<config, DatastreamIndexMap, saved, loaded, given>>
    BY <1>3 DEF U!vars
  <2>2. OwnInv'
    BY <2>1 DEF UploadInv, OwnInv
  <2>3. QED
    BY <2>1, <2>2 DEF UploadInv, TableInv
<1>4. QED
  BY <1>1, <1>2, <1>3 DEF U!Next

LEMMA UploadInit ==
  ASSUME U!Init
  PROVE  UploadInv
<1>1. DatastreamIndexMap = [name \in {} |-> 0] /\ given = {} /\ config \in U!Configs /\ saved = <<>>
  BY DEF U!Init
<1>2. TableInv
  BY <1>1 DEF TableInv
<1>3. OwnInv
  BY <1>1 DEF OwnInv, EachOwn
<1>4. QED
  BY <1>1, <1>2, <1>3 DEF UploadInv

\* Every sensor of the file has the last id of its own name, or one that it had once,
\* and none only if no config ever gave it one, for any names, ids, lengths of the
\* config, edits of it and messages (standalone_trickle_up.cpp, Config::Load).
THEOREM EachItsOwn == U!Spec => []OwnId
<1>1. UploadInv => OwnId
  BY DEF UploadInv, OwnInv, EachOwn, OwnId, U!OwnId
<1>2. QED
  BY <1>1, UploadInit, UploadStep, PTL DEF U!Spec
=============================================================================
