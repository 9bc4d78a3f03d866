------------------------ MODULE Convergence_proofs ------------------------
(***************************************************************************)
(* Proofs about Convergence: whatever the rates, the figures and the       *)
(* distances are, a responsiveness is latched or reported only if it was   *)
(* measured, and reported if one was; and if the tolerance is small enough *)
(* for the moving average distance, no figure is declared stable while     *)
(* interval 0 is in the window.                                            *)
(***************************************************************************)
EXTENDS Convergence, FiniteSetTheorems, WellFoundedInduction, TLAPS

(***************************************************************************)
(* The figures a test holds are measured ones; there is a newest one as    *)
(* soon as there is any.                                                   *)
(***************************************************************************)
IInv ==
  /\ pc \in {"running", "done"}
  /\ rpm \subseteq measured /\ lastRpm \subseteq measured
  /\ lastRpm = {} <=> measured = {}
  /\ pc = "done" => (rpm = {} <=> measured = {})

-----------------------------------------------------------------------------
(***************************************************************************)
(* The sample of an interval is its figure, or zero.                       *)
(***************************************************************************)
LEMMA MaxOfFigure ==
  ASSUME NEW r \in Nat
  PROVE  Max({r} \union {0}) = r /\ Max({} \union {0}) = 0
BY DEF Max

(***************************************************************************)
(* Nothing settles at zero: a deviation is never below a tolerance of a    *)
(* value that is zero, so an interval without a figure latches nothing.    *)
(***************************************************************************)
LEMMA ZeroNeverSettles ==
  ASSUME NEW series, NEW i
  PROVE  ~Settled(series, i, 0)
BY DEF Settled, StdBelow

(***************************************************************************)
(* An interval keeps them so: one without a figure counts as zero, which   *)
(* never settles.                                                          *)
(***************************************************************************)
LEMMA IntervalKeeps ==
  ASSUME IInv, NEW bytes, NEW current \in {{}} \union {{r} : r \in Rpm},
         OnInterval(bytes, current), UNCHANGED pc
  PROVE  IInv'
<1>1. /\ pc = "running"
      /\ measured' = measured \union current
      /\ lastRpm' = IF current = {} THEN lastRpm ELSE current
      /\ \/ rpm' = {Max(current \union {0})}
            /\ Settled(rpms', interval, Max(current \union {0}))
         \/ UNCHANGED rpm
  BY DEF OnInterval, Newest
<1>2. CASE current = {}
  <2>1. Max(current \union {0}) = 0
    BY <1>2, MaxOfFigure
  <2>2. UNCHANGED rpm
    BY <1>1, <2>1, ZeroNeverSettles
  <2> QED
    BY <1>1, <1>2, <2>2 DEF IInv
<1>3. CASE current # {}
  <2>1. PICK r \in Rpm : current = {r}
    BY <1>3
  <2>2. Max(current \union {0}) = r
    BY <2>1, MaxOfFigure, ConvergenceAssumption
  <2>3. rpm' \subseteq measured'
    BY <1>1, <2>1, <2>2 DEF IInv
  <2> QED
    BY <1>1, <1>3, <2>3 DEF IInv
<1> QED
  BY <1>2, <1>3

(***************************************************************************)
(* The invariant holds throughout.                                         *)
(***************************************************************************)
THEOREM FiguresAreMeasured == Spec => []IInv
<1>1. Init => IInv
  BY DEF Init, IInv
<1>2. IInv /\ [Next]_vars => IInv'
  <2> SUFFICES ASSUME IInv, [Next]_vars PROVE IInv'
    OBVIOUS
  <2>1. CASE Tick
    BY <2>1, IntervalKeeps DEF Tick
  <2>2. CASE Finish
    BY <2>2 DEF Finish, Report, Reported, IInv
  <2>3. CASE UNCHANGED vars
    BY <2>3 DEF vars, IInv
  <2> QED
    BY <2>1, <2>2, <2>3 DEF Next
<1> QED
  BY <1>1, <1>2, PTL DEF Spec

(***************************************************************************)
(* For any rates, figures, tolerance and moving average distance: what is  *)
(* latched as the stable responsiveness was measured, and is no zero that  *)
(* stands for an interval without probes.                                  *)
(***************************************************************************)
THEOREM LatchedIsMeasured == Spec => []LatchedWasMeasured
<1>1. IInv => LatchedWasMeasured
  BY DEF IInv, LatchedWasMeasured
<1> QED
  BY <1>1, FiguresAreMeasured, PTL

(***************************************************************************)
(* A finished test reports a figure exactly if some interval measured one. *)
(***************************************************************************)
THEOREM ReportedIfMeasured == Spec => []MeasuredIsReported
<1>1. IInv => MeasuredIsReported
  BY DEF IInv, MeasuredIsReported
<1> QED
  BY <1>1, FiguresAreMeasured, PTL

-----------------------------------------------------------------------------
(* The sum of a sequence, and how far figures of which one is zero spread. *)

(***************************************************************************)
(* A set of naturals has a least element.                                  *)
(***************************************************************************)
LEMMA LeastOf ==
  ASSUME NEW T, T \subseteq Nat, T # {}
  PROVE  \E n \in T : \A k \in T : n <= k
<1>1. PICK n \in T : \A k \in T : ~(<< k, n >> \in OpToRel(<, Nat))
  BY NatLessThanWellFounded, WFMin
<1>2. \A k \in T : ~(k < n)
  BY <1>1 DEF OpToRel
<1>3. \A k \in T : k \in Nat /\ n \in Nat
  BY <1>1
<1>4. \A k \in T : n <= k
  BY <1>2, <1>3
<1> QED
  BY <1>1, <1>4

(***************************************************************************)
(* Total, unfolded: the sum over a set of positions takes one of them, in  *)
(* no particular order, and goes on with the others.                       *)
(***************************************************************************)
Taken(s) == CHOOSE x \in s : TRUE

SumOver(v) ==
  CHOOSE g : g = [s \in SUBSET (DOMAIN v) |->
                    IF s = {} THEN 0 ELSE v[Taken(s)] + g[s \ {Taken(s)}]]

LEMMA TotalIsSum ==
  ASSUME NEW v
  PROVE  Total(v) = SumOver(v)[DOMAIN v]
BY DEF Total, FoldSeq, FoldFunction, FoldFunctionOnSet, MapThenFoldSet,
       SumOver, Taken

(***************************************************************************)
(* A sum over the sets of at most n positions.                             *)
(***************************************************************************)
SmallSets(D, n) == {s \in SUBSET D : Cardinality(s) <= n}

IsSum(g, v, D, n) ==
  /\ g \in [SmallSets(D, n) -> Int]
  /\ \A s \in SmallSets(D, n) :
       g[s] = IF s = {} THEN 0 ELSE v[Taken(s)] + g[s \ {Taken(s)}]

(***************************************************************************)
(* A finite set without one of its elements is smaller by one.             *)
(***************************************************************************)
LEMMA TakenOut ==
  ASSUME NEW D, IsFiniteSet(D), NEW s \in SUBSET D, s # {}
  PROVE  /\ Taken(s) \in s /\ s \ {Taken(s)} \in SUBSET D
         /\ Cardinality(s) \in Nat \ {0} /\ IsFiniteSet(s)
         /\ \A x \in s : Cardinality(s \ {x}) = Cardinality(s) - 1
<1>1. Taken(s) \in s
  BY DEF Taken
<1>2. IsFiniteSet(s)
  BY FS_Subset
<1>3. Cardinality(s) \in Nat /\ Cardinality(s) # 0
  BY <1>2, FS_CardinalityType, FS_EmptySet
<1>4. \A x \in s : Cardinality(s \ {x}) = Cardinality(s) - 1
  BY <1>2, FS_RemoveElement
<1> QED
  BY <1>1, <1>2, <1>3, <1>4

(***************************************************************************)
(* There is such a sum for every bound on the number of positions, by      *)
(* least counterexample: the sums over n - 1 positions give those over n.  *)
(***************************************************************************)
LEMMA SumsExist ==
  ASSUME NEW D, IsFiniteSet(D), NEW v \in [D -> Int]
  PROVE  \A n \in Nat : \E g : IsSum(g, v, D, n)
<1> DEFINE bad == {n \in Nat : ~ \E g : IsSum(g, v, D, n)}
<1> SUFFICES bad = {}
  OBVIOUS
<1> SUFFICES ASSUME bad # {} PROVE FALSE
  OBVIOUS
<1>1. PICK n \in bad : \A k \in bad : n <= k
  <2>1. bad \subseteq Nat
    OBVIOUS
  <2> HIDE DEF bad
  <2> QED
    BY <2>1, LeastOf
<1>2. n \in Nat /\ ~ \E g : IsSum(g, v, D, n)
  OBVIOUS
<1>3. CASE n = 0
  <2> DEFINE g == [s \in SmallSets(D, 0) |-> 0]
  <2>1. \A s \in SmallSets(D, 0) : s = {}
    <3> SUFFICES ASSUME NEW s \in SmallSets(D, 0), s # {} PROVE FALSE
      OBVIOUS
    <3>1. s \in SUBSET D /\ Cardinality(s) <= 0
      BY DEF SmallSets
    <3> QED
      BY <3>1, TakenOut
  <2>2. IsSum(g, v, D, 0)
    BY <2>1 DEF IsSum
  <2> QED
    BY <1>2, <1>3, <2>2
<1>4. CASE n # 0
  <2>1. n - 1 \in Nat /\ ~(n <= n - 1)
    BY <1>2, <1>4
  <2>2. PICK f : IsSum(f, v, D, n - 1)
    BY <1>1, <2>1
  <2> DEFINE g == [s \in SmallSets(D, n) |->
                     IF s = {} THEN 0 ELSE v[Taken(s)] + f[s \ {Taken(s)}]]
  <2>3. ASSUME NEW s \in SmallSets(D, n), s # {}
        PROVE  /\ s \ {Taken(s)} \in SmallSets(D, n - 1)
               /\ v[Taken(s)] \in Int /\ f[s \ {Taken(s)}] \in Int
    <3>1. s \in SUBSET D /\ Cardinality(s) <= n
      BY DEF SmallSets
    <3>2. /\ Taken(s) \in s /\ s \ {Taken(s)} \in SUBSET D
          /\ Cardinality(s) \in Nat \ {0}
          /\ Cardinality(s \ {Taken(s)}) = Cardinality(s) - 1
      BY <2>3, <3>1, TakenOut
    <3>3. Cardinality(s \ {Taken(s)}) <= n - 1
      BY <1>2, <3>1, <3>2
    <3>4. s \ {Taken(s)} \in SmallSets(D, n - 1)
      BY <3>2, <3>3 DEF SmallSets
    <3> QED
      BY <2>2, <3>1, <3>2, <3>4 DEF IsSum
  <2>4. g \in [SmallSets(D, n) -> Int]
    <3>1. \A s \in SmallSets(D, n) : s # {} =>
            v[Taken(s)] + f[s \ {Taken(s)}] \in Int
      <4> SUFFICES ASSUME NEW s \in SmallSets(D, n), s # {}
                   PROVE  v[Taken(s)] + f[s \ {Taken(s)}] \in Int
        OBVIOUS
      <4>1. v[Taken(s)] \in Int /\ f[s \ {Taken(s)}] \in Int
        BY <2>3
      <4> QED
        BY <4>1
    <3> QED
      BY <3>1
  <2>5. ASSUME NEW s \in SmallSets(D, n - 1) PROVE s \in SmallSets(D, n) /\ g[s] = f[s]
    <3>1. s \in SUBSET D /\ Cardinality(s) <= n - 1
      BY DEF SmallSets
    <3>2. Cardinality(s) <= n
      <4>1. Cardinality(s) \in Int
        BY <3>1, FS_Subset, FS_CardinalityType
      <4> QED
        BY <1>2, <3>1, <4>1
    <3>3. s \in SmallSets(D, n)
      BY <3>1, <3>2 DEF SmallSets
    <3> QED
      BY <2>2, <3>3 DEF IsSum
  <2>6. \A s \in SmallSets(D, n) :
          g[s] = IF s = {} THEN 0 ELSE v[Taken(s)] + g[s \ {Taken(s)}]
    BY <2>3, <2>5
  <2>7. IsSum(g, v, D, n)
    BY <2>4, <2>6 DEF IsSum
  <2> QED
    BY <1>2, <2>7
<1> QED
  BY <1>3, <1>4

(***************************************************************************)
(* So the function Total takes is one, and unfolds as it says.             *)
(***************************************************************************)
LEMMA SumUnfolds ==
  ASSUME NEW D, IsFiniteSet(D), NEW v \in [D -> Int]
  PROVE  \A s \in SUBSET D :
           SumOver(v)[s] = IF s = {} THEN 0
                           ELSE v[Taken(s)] + SumOver(v)[s \ {Taken(s)}]
<1>1. Cardinality(D) \in Nat
  BY FS_CardinalityType
<1>2. PICK g : IsSum(g, v, D, Cardinality(D))
  BY <1>1, SumsExist
<1>3. SmallSets(D, Cardinality(D)) = SUBSET D
  BY FS_Subset DEF SmallSets
<1>4. g = [s \in SUBSET D |-> IF s = {} THEN 0 ELSE v[Taken(s)] + g[s \ {Taken(s)}]]
  BY <1>2, <1>3 DEF IsSum
<1>5. DOMAIN v = D
  OBVIOUS
<1> DEFINE h == SumOver(v)
<1>6. h = [s \in SUBSET D |-> IF s = {} THEN 0 ELSE v[Taken(s)] + h[s \ {Taken(s)}]]
  BY <1>4, <1>5 DEF SumOver
<1> HIDE DEF h
<1>7. \A s \in SUBSET D : h[s] = IF s = {} THEN 0 ELSE v[Taken(s)] + h[s \ {Taken(s)}]
  BY <1>6, Zenon
<1> QED
  BY <1>7 DEF h

(***************************************************************************)
(* Induction over the subsets of a finite set: what holds of a set if it   *)
(* holds of the set without any one element holds of all.                  *)
(***************************************************************************)
LEMMA BySize ==
  ASSUME NEW D, IsFiniteSet(D), NEW G,
         \A s \in SUBSET D : (\A x \in s : s \ {x} \in G) => s \in G
  PROVE  \A s \in SUBSET D : s \in G
<1> DEFINE sizes == {Cardinality(s) : s \in {t \in SUBSET D : t \notin G}}
<1>1. \A s \in SUBSET D : Cardinality(s) \in Nat
  BY FS_Subset, FS_CardinalityType
<1> SUFFICES ASSUME NEW u \in SUBSET D, u \notin G PROVE FALSE
  OBVIOUS
<1>2. sizes \subseteq Nat /\ sizes # {}
  BY <1>1
<1>3. PICK n \in sizes : \A k \in sizes : n <= k
  <2> HIDE DEF sizes
  <2> QED
    BY <1>2, LeastOf
<1>4. PICK s \in SUBSET D : s \notin G /\ n = Cardinality(s)
  OBVIOUS
<1>5. PICK x \in s : s \ {x} \notin G
  BY <1>4
<1>6. Cardinality(s \ {x}) = Cardinality(s) - 1 /\ s \ {x} \in SUBSET D
  BY <1>5, TakenOut
<1>7. Cardinality(s \ {x}) \in sizes
  BY <1>5, <1>6
<1> HIDE DEF sizes
<1>8. Cardinality(s) <= Cardinality(s) - 1
  BY <1>3, <1>4, <1>6, <1>7
<1> QED
  BY <1>1, <1>8

(***************************************************************************)
(* Sums of integers are integers.                                          *)
(***************************************************************************)
LEMMA SumIsInt ==
  ASSUME NEW D, IsFiniteSet(D), NEW v \in [D -> Int]
  PROVE  \A s \in SUBSET D : SumOver(v)[s] \in Int
<1> DEFINE h == SumOver(v)
           G == {s \in SUBSET D : h[s] \in Int}
<1>1. \A s \in SUBSET D :
        h[s] = IF s = {} THEN 0 ELSE v[Taken(s)] + h[s \ {Taken(s)}]
  BY SumUnfolds
<1> HIDE DEF h
<1>2. ASSUME NEW s \in SUBSET D, \A x \in s : s \ {x} \in G
      PROVE  s \in G
  <2>1. CASE s = {}
    <3>1. h[s] = 0
      BY <1>1, <2>1
    <3> QED
      BY <3>1
  <2>2. CASE s # {}
    <3>1. Taken(s) \in s /\ h[s] = v[Taken(s)] + h[s \ {Taken(s)}]
      BY <1>1, <2>2, TakenOut
    <3>2. h[s \ {Taken(s)}] \in Int /\ v[Taken(s)] \in Int
      BY <1>2, <3>1
    <3>3. h[s] \in Int
      BY <3>1, <3>2
    <3> QED
      BY <3>3
  <2> QED
    BY <2>1, <2>2
<1>3. \A s \in SUBSET D : s \in G
  <2> HIDE DEF G
  <2> QED
    BY <1>2, BySize
<1> QED
  BY <1>3 DEF h

(***************************************************************************)
(* The order in which a sum takes its positions does not matter.           *)
(***************************************************************************)
LEMMA SumTakesAny ==
  ASSUME NEW D, IsFiniteSet(D), NEW v \in [D -> Int]
  PROVE  /\ SumOver(v)[{}] = 0
         /\ \A s \in SUBSET D :
              \A y \in s : SumOver(v)[s] = v[y] + SumOver(v)[s \ {y}]
<1> DEFINE h == SumOver(v)
           G == {s \in SUBSET D : \A y \in s : h[s] = v[y] + h[s \ {y}]}
<1>1. \A s \in SUBSET D :
        h[s] = IF s = {} THEN 0 ELSE v[Taken(s)] + h[s \ {Taken(s)}]
  BY SumUnfolds
<1>2. \A s \in SUBSET D : h[s] \in Int
  BY SumIsInt
<1> HIDE DEF h
<1>3. ASSUME NEW s \in SUBSET D, \A x \in s : s \ {x} \in G
      PROVE  s \in G
  <2> SUFFICES ASSUME NEW y \in s PROVE h[s] = v[y] + h[s \ {y}]
    OBVIOUS
  <2>1. PICK x \in s : h[s] = v[x] + h[s \ {x}]
    <3>1. Taken(s) \in s /\ h[s] = v[Taken(s)] + h[s \ {Taken(s)}]
      BY <1>1, TakenOut
    <3> QED
      BY <3>1
  <2>2. CASE y = x
    BY <2>1, <2>2
  <2>3. CASE y # x
    <3> DEFINE r == (s \ {x}) \ {y}
    <3>1. s \ {x} \in G /\ s \ {y} \in G /\ y \in s \ {x} /\ x \in s \ {y}
      BY <1>3, <2>3
    <3>2. h[s \ {x}] = v[y] + h[r]
      BY <3>1
    <3>3. (s \ {y}) \ {x} = r
      OBVIOUS
    <3>4. h[s \ {y}] = v[x] + h[r]
      BY <3>1, <3>3
    <3>5. h[r] \in Int /\ v[x] \in Int /\ v[y] \in Int
      BY <1>2
    <3> HIDE DEF r
    <3> QED
      BY <2>1, <3>2, <3>4, <3>5
  <2> QED
    BY <2>2, <2>3
<1>4. \A s \in SUBSET D : s \in G
  <2> HIDE DEF G
  <2> QED
    BY <1>3, BySize
<1>5. h[{}] = 0
  BY <1>1
<1> QED
  BY <1>4, <1>5 DEF h

(***************************************************************************)
(* What is used of a sum.                                                  *)
(***************************************************************************)
LEMMA SumFacts ==
  ASSUME NEW D, IsFiniteSet(D)
  PROVE  \A v \in [D -> Int] :
           /\ SumOver(v)[{}] = 0
           /\ \A s \in SUBSET D : SumOver(v)[s] \in Int
           /\ \A s \in SUBSET D :
                \A y \in s : SumOver(v)[s] = v[y] + SumOver(v)[s \ {y}]
<1> SUFFICES ASSUME NEW v \in [D -> Int]
             PROVE  /\ SumOver(v)[{}] = 0
                    /\ \A s \in SUBSET D : SumOver(v)[s] \in Int
                    /\ \A s \in SUBSET D :
                         \A y \in s : SumOver(v)[s] = v[y] + SumOver(v)[s \ {y}]
  OBVIOUS
<1>1. \A s \in SUBSET D : SumOver(v)[s] \in Int
  BY SumIsInt
<1>2. /\ SumOver(v)[{}] = 0
      /\ \A s \in SUBSET D :
           \A y \in s : SumOver(v)[s] = v[y] + SumOver(v)[s \ {y}]
  BY SumTakesAny
<1> QED
  BY <1>1, <1>2, Zenon

(***************************************************************************)
(* The arithmetic of a deviation: m numbers with sum t and squares q.      *)
(***************************************************************************)
LEMMA Discriminant ==
  ASSUME NEW m \in Nat, NEW q \in Int, NEW t \in Int, NEW x \in Int,
         m * q >= t * t, m = 0 => q = 0 /\ t = 0
  PROVE  4 * q - 4 * (t * x) + m * (x * x) >= 0
<1>1. CASE m = 0
  BY <1>1
<1>2. CASE m # 0
  <2> DEFINE e == 4 * q - 4 * (t * x) + m * (x * x)
             r == 2 * t - m * x
  <2>1. m * e = 4 * (m * q - t * t) + r * r
    OBVIOUS
  <2>2. r * r >= 0
    <3>1. r \in Int
      OBVIOUS
    <3> HIDE DEF r
    <3> QED
      BY <3>1
  <2>3. e \in Int /\ r * r \in Int /\ m * q \in Int /\ t * t \in Int
    OBVIOUS
  <2> HIDE DEF e, r
  <2>4. m * e >= 0
    BY <2>1, <2>2, <2>3
  <2>5. e >= 0
    BY <1>2, <2>3, <2>4
  <2> QED
    BY <2>5 DEF e
<1> QED
  BY <1>1, <1>2

Squares(v) == [i \in DOMAIN v |-> v[i] * v[i]]

(***************************************************************************)
(* The squares of integers are integers.                                   *)
(***************************************************************************)
LEMMA SquaresType ==
  ASSUME NEW D, NEW v \in [D -> Int]
  PROVE  /\ Squares(v) \in [D -> Int]
         /\ \A i \in D : Squares(v)[i] = v[i] * v[i]
<1>1. \A i \in D : v[i] * v[i] \in Int
  <2> SUFFICES ASSUME NEW i \in D PROVE v[i] * v[i] \in Int
    OBVIOUS
  <2>1. v[i] \in Int
    OBVIOUS
  <2> QED
    BY <2>1
<1> QED
  BY <1>1 DEF Squares

(***************************************************************************)
(* One more number keeps the square of the sum within the number of terms  *)
(* times the squares.                                                      *)
(***************************************************************************)
LEMMA OneMore ==
  ASSUME NEW m \in Nat, NEW q \in Int, NEW t \in Int, NEW x \in Int,
         m * q >= t * t, m = 0 => q = 0 /\ t = 0
  PROVE  (m + 1) * (x * x + q) >= (x + t) * (x + t)
<1> DEFINE y == 2 * x
<1>1. 4 * q - 4 * (t * y) + m * (y * y) >= 0
  <2>1. y \in Int
    OBVIOUS
  <2> HIDE DEF y
  <2> QED
    BY <2>1, Discriminant
<1>2. 4 * ((m + 1) * (x * x + q) - (x + t) * (x + t))
        = 4 * (m * q - t * t) + (4 * q - 4 * (t * y) + m * (y * y))
  OBVIOUS
<1>3. m * q - t * t >= 0
  OBVIOUS
<1> DEFINE e == (m + 1) * (x * x + q) - (x + t) * (x + t)
           f == m * q - t * t
           g == 4 * q - 4 * (t * y) + m * (y * y)
<1>4. e \in Int /\ f \in Int /\ g \in Int /\ 4 * e = 4 * f + g /\ f >= 0 /\ g >= 0
  BY <1>1, <1>2, <1>3
<1>5. e >= 0
  <2> HIDE DEF e, f, g
  <2> QED
    BY <1>4
<1> QED
  BY <1>5

(***************************************************************************)
(* The square of a sum is at most the number of its terms times the sum of *)
(* their squares.                                                          *)
(***************************************************************************)
LEMMA SquareOfSum ==
  ASSUME NEW D, IsFiniteSet(D), NEW v \in [D -> Int]
  PROVE  \A s \in SUBSET D :
           Cardinality(s) * SumOver(Squares(v))[s]
             >= SumOver(v)[s] * SumOver(v)[s]
<1>0. \A u \in [D -> Int] :
         /\ SumOver(u)[{}] = 0
         /\ \A s \in SUBSET D : SumOver(u)[s] \in Int
         /\ \A s \in SUBSET D :
              \A y \in s : SumOver(u)[s] = u[y] + SumOver(u)[s \ {y}]
  BY SumFacts
<1> DEFINE h == SumOver(v)
           w == Squares(v)
           k == SumOver(w)
           G == {s \in SUBSET D : Cardinality(s) * k[s] >= h[s] * h[s]}
<1>1. w \in [D -> Int] /\ \A i \in D : w[i] = v[i] * v[i]
  BY SquaresType
<1>2. /\ h[{}] = 0 /\ \A s \in SUBSET D : h[s] \in Int
      /\ \A s \in SUBSET D : \A y \in s : h[s] = v[y] + h[s \ {y}]
  BY <1>0
<1> HIDE DEF w, h
<1>3. /\ k[{}] = 0 /\ \A s \in SUBSET D : k[s] \in Int
      /\ \A s \in SUBSET D : \A y \in s : k[s] = w[y] + k[s \ {y}]
  BY <1>0, <1>1
<1> HIDE DEF k
<1>4. ASSUME NEW s \in SUBSET D, \A x \in s : s \ {x} \in G
      PROVE  s \in G
  <2>1. CASE s = {}
    <3>1. h[s] = 0 /\ k[s] = 0 /\ Cardinality(s) = 0
      BY <1>2, <1>3, <2>1, FS_EmptySet
    <3> QED
      BY <3>1
  <2>2. CASE s # {}
    <3> DEFINE r == s \ {Taken(s)}
               m == Cardinality(r)
               x == v[Taken(s)]
    <3>1. /\ Taken(s) \in s /\ r \in SUBSET D /\ r \in G
          /\ Cardinality(s) = m + 1 /\ m \in Nat
      BY <1>4, <2>2, TakenOut
    <3>2. h[s] = x + h[r] /\ k[s] = x * x + k[r] /\ x \in Int
      BY <1>1, <1>2, <1>3, <3>1
    <3>3. h[r] \in Int /\ k[r] \in Int /\ m * k[r] >= h[r] * h[r]
      BY <1>2, <1>3, <3>1
    <3>4. m = 0 => k[r] = 0 /\ h[r] = 0
      <4>1. m = 0 => r = {}
        BY <3>1, FS_Subset, FS_EmptySet
      <4> QED
        BY <1>2, <1>3, <4>1
    <3> HIDE DEF r, m, x
    <3>5. (m + 1) * (x * x + k[r]) >= (x + h[r]) * (x + h[r])
      BY <3>1, <3>2, <3>3, <3>4, OneMore
    <3>6. Cardinality(s) * k[s] >= h[s] * h[s]
      BY <3>1, <3>2, <3>5
    <3> QED
      BY <3>6
  <2> QED
    BY <2>1, <2>2
<1>5. \A s \in SUBSET D : s \in G
  <2> HIDE DEF G
  <2> QED
    BY <1>4, BySize
<1> QED
  BY <1>5 DEF h, k, w

(***************************************************************************)
(* Numbers of which one is zero and another is c spread by at least half   *)
(* of c, squared, each.                                                    *)
(***************************************************************************)
LEMMA Spread ==
  ASSUME NEW D, IsFiniteSet(D), NEW v \in [D -> Int],
         NEW a \in D, NEW b \in D, a # b, v[a] = 0
  PROVE  LET n == Cardinality(D)
             sum == SumOver(v)[D]
             squares == SumOver(Squares(v))[D]
         IN  2 * (n * squares - sum * sum) >= n * (v[b] * v[b])
<1>0. \A u \in [D -> Int] :
         /\ SumOver(u)[{}] = 0
         /\ \A s \in SUBSET D : SumOver(u)[s] \in Int
         /\ \A s \in SUBSET D :
              \A y \in s : SumOver(u)[s] = u[y] + SumOver(u)[s \ {y}]
  BY SumFacts, ZenonT(40)
<1> DEFINE w == Squares(v)
           r == (D \ {a}) \ {b}
           m == Cardinality(r)
           q == SumOver(w)[r]
           t == SumOver(v)[r]
           c == v[b]
<1>1. w \in [D -> Int] /\ \A i \in D : w[i] = v[i] * v[i]
  BY SquaresType
<1>2. /\ Cardinality(D \ {a}) = Cardinality(D) - 1
      /\ IsFiniteSet(D \ {a}) /\ IsFiniteSet(r)
      /\ m = Cardinality(D \ {a}) - 1
      /\ m \in Nat /\ Cardinality(D) \in Nat
  BY FS_RemoveElement, FS_CardinalityType
<1>3. Cardinality(D) = m + 2
  BY <1>2
<1>4. /\ t \in Int /\ SumOver(v)[D] = 0 + SumOver(v)[D \ {a}]
      /\ SumOver(v)[D \ {a}] = c + t /\ c \in Int
  <2>1. D \in SUBSET D /\ D \ {a} \in SUBSET D /\ r \in SUBSET D /\ b \in D \ {a}
    OBVIOUS
  <2>2. /\ \A s \in SUBSET D : SumOver(v)[s] \in Int
        /\ \A s \in SUBSET D :
             \A y \in s : SumOver(v)[s] = v[y] + SumOver(v)[s \ {y}]
    BY <1>0
  <2> HIDE DEF r
  <2>3. t \in Int /\ SumOver(v)[D] = v[a] + SumOver(v)[D \ {a}]
    BY <2>1, <2>2
  <2>4. SumOver(v)[D \ {a}] = v[b] + SumOver(v)[(D \ {a}) \ {b}]
    BY <2>1, <2>2
  <2> QED
    BY <2>3, <2>4 DEF r
<1> HIDE DEF w
<1>5. /\ q \in Int /\ SumOver(w)[D] = 0 + SumOver(w)[D \ {a}]
      /\ SumOver(w)[D \ {a}] = c * c + q
  <2>1. D \in SUBSET D /\ D \ {a} \in SUBSET D /\ r \in SUBSET D /\ b \in D \ {a}
    OBVIOUS
  <2>2. w[a] = 0 /\ w[b] = c * c
    BY <1>1
  <2>3. /\ \A s \in SUBSET D : SumOver(w)[s] \in Int
        /\ \A s \in SUBSET D :
             \A y \in s : SumOver(w)[s] = w[y] + SumOver(w)[s \ {y}]
    BY <1>0, <1>1
  <2> HIDE DEF r
  <2>4. q \in Int /\ SumOver(w)[D] = w[a] + SumOver(w)[D \ {a}]
    BY <2>1, <2>3
  <2>5. SumOver(w)[D \ {a}] = w[b] + SumOver(w)[(D \ {a}) \ {b}]
    BY <2>1, <2>3
  <2> QED
    BY <2>2, <2>4, <2>5 DEF r
<1>6. m * q >= t * t
  BY SquareOfSum DEF w
<1>7. m = 0 => q = 0 /\ t = 0
  <2>1. m = 0 => r = {}
    BY <1>2, FS_EmptySet
  <2>2. SumOver(v)[{}] = 0 /\ SumOver(w)[{}] = 0
    BY <1>0, <1>1
  <2> QED
    BY <2>1, <2>2
<1> HIDE DEF r, m, q, t, c
<1>8. c \in Int /\ m \in Nat /\ q \in Int /\ t \in Int
  BY <1>2, <1>4, <1>5
<1>9. 4 * q - 4 * (t * c) + m * (c * c) >= 0
  BY <1>6, <1>7, <1>8, Discriminant
<1>10. 2 * ((m + 2) * (c * c + q) - (c + t) * (c + t)) - (m + 2) * (c * c)
         = 2 * (m * q - t * t) + (4 * q - 4 * (t * c) + m * (c * c))
  BY <1>8
<1>11. 2 * ((m + 2) * (c * c + q) - (c + t) * (c + t)) >= (m + 2) * (c * c)
  <2> DEFINE x == 2 * ((m + 2) * (c * c + q) - (c + t) * (c + t))
             y == (m + 2) * (c * c)
             f == m * q - t * t
             g == 4 * q - 4 * (t * c) + m * (c * c)
  <2>1. /\ x \in Int /\ y \in Int /\ f \in Int /\ g \in Int
        /\ x - y = 2 * f + g /\ f >= 0 /\ g >= 0
    BY <1>6, <1>8, <1>9, <1>10
  <2>2. x >= y
    <3> HIDE DEF x, y, f, g
    <3> QED
      BY <2>1
  <2> QED
    BY <2>2
<1>12. SumOver(v)[D] = c + t /\ SumOver(Squares(v))[D] = c * c + q
  BY <1>4, <1>5, <1>8 DEF w
<1> QED
  BY <1>3, <1>11, <1>12 DEF c


(***************************************************************************)
(* A tolerance small enough for the distance: 2 (MAD + 1) (TolNum/TolDen)^2*)
(* is at most 1.                                                           *)
(***************************************************************************)
SmallTolerance == 2 * ((MAD + 1) * (TolNum * TolNum)) <= TolDen * TolDen

(***************************************************************************)
(* There are n positions from 1 to n.                                      *)
(***************************************************************************)
LEMMA FirstFew ==
  ASSUME NEW n \in Nat
  PROVE  IsFiniteSet(1..n) /\ Cardinality(1..n) = n
<1>1. 1 \in Int /\ n \in Int
  OBVIOUS
<1>2. /\ IsFiniteSet(1..n)
      /\ Cardinality(1..n) = IF 1 > n THEN 0 ELSE n - 1 + 1
  BY <1>1, FS_Interval
<1> QED
  BY <1>2

(***************************************************************************)
(* Multiplying by a natural keeps the order.                               *)
(***************************************************************************)
LEMMA TimesNat ==
  ASSUME NEW x \in Int, NEW y \in Int, NEW z \in Nat, x <= y
  PROVE  x * z <= y * z
<1>1. (y - x) * z >= 0
  <2> DEFINE d == y - x
  <2>1. d \in Nat
    OBVIOUS
  <2> HIDE DEF d
  <2>2. d * z \in Nat
    BY <2>1
  <2> QED
    BY <2>2 DEF d
<1>2. (y - x) * z = y * z - x * z
  OBVIOUS
<1> QED
  BY <1>1, <1>2

(***************************************************************************)
(* The tolerance of n figures, if they spread by half of c each.           *)
(***************************************************************************)
LEMMA Apart ==
  ASSUME NEW M \in Nat, NEW num \in Nat, NEW den \in Nat,
         2 * ((M + 1) * (num * num)) <= den * den,
         NEW n \in Nat, n <= M + 1, NEW c \in Int, NEW x \in Int,
         2 * x >= n * (c * c)
  PROVE  num * num * c * c * n * n <= den * den * x
<1> DEFINE t == num * num
           e == den * den
           d == c * c
<1>1. t \in Nat /\ e \in Nat /\ d \in Nat
  OBVIOUS
<1>2. num * num * c * c * n * n = (t * d) * (n * n)
  OBVIOUS
<1>3. den * den * x = e * x
  OBVIOUS
<1>4. 2 * ((M + 1) * t) <= e /\ n * d <= 2 * x
  OBVIOUS
<1> HIDE DEF t, e, d
<1>5. n * t <= (M + 1) * t
  BY <1>1, TimesNat
<1>6. 2 * (n * t) <= e
  <2> DEFINE u == n * t
             w == (M + 1) * t
  <2>1. u \in Int /\ w \in Int /\ u <= w /\ 2 * w <= e
    BY <1>1, <1>4, <1>5
  <2> HIDE DEF u, w
  <2>2. 2 * u <= e
    BY <1>1, <2>1
  <2> QED
    BY <2>2 DEF u
<1>7. (2 * (n * t)) * (n * d) <= e * (n * d)
  <2>1. n * d \in Nat /\ 2 * (n * t) \in Int
    BY <1>1
  <2> QED
    BY <1>1, <1>6, <2>1, TimesNat
<1>8. (n * d) * e <= (2 * x) * e
  <2>1. n * d \in Int /\ 2 * x \in Int
    BY <1>1
  <2> QED
    BY <1>1, <1>4, <2>1, TimesNat
<1>9. /\ (2 * (n * t)) * (n * d) = 2 * ((t * d) * (n * n))
      /\ e * (n * d) = (n * d) * e
      /\ (2 * x) * e = 2 * (e * x)
      /\ (t * d) * (n * n) \in Int /\ e * x \in Int /\ (n * d) * e \in Int
  BY <1>1
<1>10. (t * d) * (n * n) <= e * x
  <2> DEFINE p == (t * d) * (n * n)
             r == e * x
             s == (n * d) * e
  <2>1. p \in Int /\ r \in Int /\ s \in Int /\ 2 * p <= s /\ s <= 2 * r
    BY <1>7, <1>8, <1>9
  <2> HIDE DEF p, r, s
  <2>2. p <= r
    BY <2>1
  <2> QED
    BY <2>2 DEF p, r
<1> QED
  BY <1>2, <1>3, <1>10

(***************************************************************************)
(* Figures one of which is zero never deviate by less than a small enough  *)
(* tolerance from another one of them.                                     *)
(***************************************************************************)
LEMMA ZeroKeepsApart ==
  ASSUME SmallTolerance, NEW values \in Seq(Int),
         Len(values) \in 2..(MAD + 1), values[Len(values)] = 0
  PROVE  ~StdBelow(values, values[1], TolNum, TolDen)
<1> DEFINE n == Len(values)
           c == values[1]
           squares == Total(Squares(values))
           sum == Total(values)
<1>1. /\ n \in Nat /\ n <= MAD + 1 /\ 1 \in 1..n /\ n \in 1..n /\ 1 # n
      /\ values \in [1..n -> Int] /\ c \in Int
      /\ DOMAIN values = 1..n /\ MAD \in Nat
  BY ConvergenceAssumption
<1>2. IsFiniteSet(1..n) /\ Cardinality(1..n) = n
  BY <1>1, FirstFew
<1>3. DOMAIN Squares(values) = 1..n
  BY <1>1 DEF Squares
<1>4. sum = SumOver(values)[1..n]
  BY <1>1, TotalIsSum
<1>5. squares = SumOver(Squares(values))[1..n]
  BY <1>3, TotalIsSum
<1>6. values[n] = 0
  OBVIOUS
<1> HIDE DEF n, c, squares, sum
<1>7. sum \in Int /\ squares \in Int
  <2>1. Squares(values) \in [1..n -> Int]
    BY <1>1, SquaresType
  <2> QED
    BY <1>1, <1>2, <1>4, <1>5, <2>1, SumFacts
<1>8. 2 * (n * squares - sum * sum) >= n * (c * c)
  BY <1>1, <1>2, <1>4, <1>5, <1>6, Spread DEF c
<1>9. n * squares - sum * sum \in Int
  BY <1>1, <1>7
<1>10. TolNum \in Nat /\ TolDen \in Nat /\ n * (c * c) \in Int
  BY <1>1, ConvergenceAssumption
<1>11. TolNum * TolNum * c * c * n * n
         <= TolDen * TolDen * (n * squares - sum * sum)
  <2> DEFINE x == n * squares - sum * sum
  <2> HIDE DEF x
  <2>1. x \in Int /\ 2 * x >= n * (c * c)
    BY <1>8, <1>9 DEF x
  <2>2. TolNum * TolNum * c * c * n * n <= TolDen * TolDen * x
    BY <1>1, <1>10, <2>1, Apart DEF SmallTolerance
  <2> QED
    BY <2>2 DEF x
<1>12. StdBelow(values, c, TolNum, TolDen) =>
         TolDen * TolDen * (n * squares - sum * sum)
           < TolNum * TolNum * c * c * n * n
  BY DEF StdBelow, Squares, n, squares, sum
<1>13. ~StdBelow(values, c, TolNum, TolDen)
  <2> DEFINE p == TolNum * TolNum * c * c * n * n
             r == TolDen * TolDen * (n * squares - sum * sum)
  <2>1. p \in Int /\ r \in Int /\ p <= r
    BY <1>1, <1>9, <1>10, <1>11
  <2>2. StdBelow(values, c, TolNum, TolDen) => r < p
    BY <1>12
  <2> HIDE DEF p, r
  <2> QED
    BY <2>1, <2>2
<1> QED
  BY <1>13 DEF c

-----------------------------------------------------------------------------
Figures == [at : Nat, value : Int]

(***************************************************************************)
(* A series of one figure for each of the first n intervals, the first of  *)
(* them zero.                                                              *)
(***************************************************************************)
OnePerInterval(series, n) ==
  /\ series \in Seq(Figures) /\ Len(series) = n
  /\ \A k \in 1..n : series[k].at = k - 1
  /\ n > 0 => series[1].value = 0

(***************************************************************************)
(* Inserting past the end appends.                                         *)
(***************************************************************************)
LEMMA AppendedLast ==
  ASSUME NEW S, NEW s \in Seq(S), NEW e \in S
  PROVE  InsertAt(s, Len(s) + 1, e) = Append(s, e)
<1> DEFINE n == Len(s)
           new == InsertAt(s, n + 1, e)
<1>1. n \in Nat
  OBVIOUS
<1>2. SubSeq(s, 1, n + 1 - 1) = s /\ SubSeq(s, n + 1, n) = << >>
  <2>1. n + 1 - 1 = n
    BY <1>1
  <2>2. SubSeq(s, 1, n) = s
    OBVIOUS
  <2>3. SubSeq(s, n + 1, n) = << >>
    BY <1>1
  <2> QED
    BY <2>1, <2>2, <2>3
<1>3. new = (s \o << e >>) \o << >>
  <2>1. new = SubSeq(s, 1, n + 1 - 1) \o << e >> \o SubSeq(s, n + 1, n)
    BY DEF InsertAt
  <2> HIDE DEF new, n
  <2> QED
    BY <1>2, <2>1, Zenon
<1>4. s \o << e >> \in Seq(S) /\ s \o << e >> = Append(s, e)
  OBVIOUS
<1>5. Append(s, e) \o << >> = Append(s, e)
  BY <1>4
<1> QED
  BY <1>3, <1>4, <1>5

(***************************************************************************)
(* An interval's figure joins the series at its end.                       *)
(***************************************************************************)
LEMMA AddedAtEnd ==
  ASSUME NEW n \in Nat, NEW series, OnePerInterval(series, n),
         NEW v \in Int, n = 0 => v = 0,
         NEW new \in Added(series, Sample(n, v))
  PROVE  OnePerInterval(new, n + 1) /\ new[n + 1].value = v
<1> DEFINE s == Sample(n, v)
<1>1. s \in Figures /\ s.at = n /\ s.value = v
  BY DEF Sample, Figures
<1>2. /\ series \in Seq(Figures) /\ Len(series) = n /\ DOMAIN series = 1..n
      /\ \A k \in 1..n : series[k].at = k - 1
  BY DEF OnePerInterval
<1> HIDE DEF s
<1>3. {i \in DOMAIN series : series[i].at = n} = {}
  BY <1>2
<1>4. Before(series, n) = n
  <2>1. {i \in DOMAIN series : series[i].at < n} = 1..n
    BY <1>2
  <2> QED
    BY <2>1, FirstFew DEF Before
<1>5. Slots(series, n) = {n + 1}
  BY <1>3, <1>4 DEF Slots
<1>6. new = InsertAt(series, n + 1, s)
  BY <1>1, <1>5 DEF Added, s
<1>7. new = Append(series, s)
  BY <1>1, <1>2, <1>6, AppendedLast
<1>8. /\ new \in Seq(Figures) /\ Len(new) = n + 1 /\ new[n + 1] = s
      /\ \A k \in 1..n : new[k] = series[k]
  BY <1>1, <1>2, <1>7
<1>9. \A k \in 1..(n + 1) : new[k].at = k - 1
  <2> SUFFICES ASSUME NEW k \in 1..(n + 1) PROVE new[k].at = k - 1
    OBVIOUS
  <2>1. CASE k = n + 1
    BY <1>1, <1>8, <2>1
  <2>2. CASE k # n + 1
    <3>1. k \in 1..n
      BY <2>2
    <3> QED
      BY <1>2, <1>8, <3>1
  <2> QED
    BY <2>1, <2>2
<1>10. new[1].value = 0
  <2>1. CASE n = 0
    BY <1>1, <1>8, <2>1
  <2>2. CASE n # 0
    <3>1. 1 \in 1..n /\ n > 0
      BY <2>2
    <3> QED
      BY <1>8, <3>1 DEF OnePerInterval
  <2> QED
    BY <2>1, <2>2
<1> QED
  BY <1>1, <1>8, <1>9, <1>10 DEF OnePerInterval

(***************************************************************************)
(* Up to interval MAD the window holds the whole series, newest first.     *)
(***************************************************************************)
LEMMA WholeWindow ==
  ASSUME NEW i \in 0..MAD, NEW series, OnePerInterval(series, i + 1)
  PROVE  Window(series, i - MAD, i) = Reverse(series)
<1>1. i \in Nat /\ MAD \in Nat /\ i <= MAD
  BY ConvergenceAssumption
<1> DEFINE n == i + 1
           T == {k \in 1..Len(series) : series[k].at <= i}
           U == {k \in 1..Len(series) : series[k].at < i - MAD}
<1>2. /\ series \in Seq(Figures) /\ Len(series) = n
      /\ \A k \in 1..n : series[k].at = k - 1
  BY DEF OnePerInterval
<1>3. WindowEnd(series, i) = n
  <2>1. T = 1..n
    BY <1>1, <1>2
  <2>2. WindowEnd(series, i) = IF T # {} THEN Max(T) ELSE 0
    BY DEF WindowEnd, SelectLastInSeq
  <2>3. Max(1..n) = n
    <3>1. n \in 1..n /\ \A y \in 1..n : n >= y
      BY <1>1
    <3>2. \A x \in 1..n : (\A y \in 1..n : x >= y) => x = n
      BY <3>1
    <3> HIDE DEF n
    <3> QED
      BY <3>1, <3>2 DEF Max
  <2>4. n \in T
    BY <1>1, <2>1
  <2> HIDE DEF T
  <2> QED
    BY <2>1, <2>2, <2>3, <2>4
<1>4. SubSeq(series, 1, n) = series
  BY <1>2
<1>5. SelectLastInSeq(series, LAMBDA s : s.at < i - MAD) = 0
  <2>1. U = {}
    BY <1>1, <1>2
  <2>2. SelectLastInSeq(series, LAMBDA s : s.at < i - MAD)
          = IF U # {} THEN Max(U) ELSE 0
    BY DEF SelectLastInSeq
  <2> HIDE DEF U
  <2> QED
    BY <2>1, <2>2
<1> HIDE DEF n
<1>6. Window(series, i - MAD, i)
        = Reverse(SubSeq(series,
                    SelectLastInSeq(SubSeq(series, 1, n),
                                    LAMBDA s : s.at < i - MAD) + 1, n))
  BY <1>3 DEF Window
<1>7. SubSeq(series, 0 + 1, n) = series
  BY <1>4
<1> QED
  BY <1>4, <1>5, <1>6, <1>7, Zenon

(***************************************************************************)
(* No figure settles in an interval up to MAD.                             *)
(***************************************************************************)
LEMMA UnsettledInRamp ==
  ASSUME SmallTolerance, NEW i \in 0..MAD, NEW series,
         OnePerInterval(series, i + 1)
  PROVE  ~Settled(series, i, series[i + 1].value)
<1> DEFINE n == i + 1
           values == Recent(series, i)
<1>1. /\ i \in Nat /\ MAD \in Nat /\ n \in Nat /\ n <= MAD + 1 /\ n >= 1
      /\ 1 \in 1..n /\ n \in 1..n /\ (n - 1) + 1 = n /\ (n - n) + 1 = 1
  BY ConvergenceAssumption
<1>2. /\ series \in Seq(Figures) /\ Len(series) = n
      /\ \A k \in 1..n : series[k] \in Figures
      /\ series[1].value = 0
  BY <1>1 DEF OnePerInterval
<1>3. values = Values(Reverse(series))
  BY WholeWindow DEF Recent
<1> HIDE DEF n, values
<1>4. Reverse(series) = [k \in 1..n |-> series[(n - k) + 1]]
  BY <1>2 DEF Reverse
<1>5. values = [k \in 1..n |-> series[(n - k) + 1].value]
  BY <1>3, <1>4 DEF Values
<1>6. \A k \in 1..n : (n - k) + 1 \in 1..n
  BY <1>1
<1>7. \A k \in 1..n : series[(n - k) + 1].value \in Int
  BY <1>2, <1>6 DEF Figures
<1>8. values \in Seq(Int) /\ Len(values) = n
  BY <1>1, <1>5, <1>7
<1>9. values[1] = series[n].value /\ values[n] = 0
  <2>1. values[1] = series[(n - 1) + 1].value /\ values[n] = series[(n - n) + 1].value
    BY <1>1, <1>5
  <2> QED
    BY <1>1, <1>2, <2>1
<1>10. CASE n = 1
  BY <1>2, <1>10, ZeroNeverSettles DEF n
<1>11. CASE n # 1
  <2>1. Len(values) \in 2..(MAD + 1)
    BY <1>1, <1>8, <1>11
  <2>2. ~StdBelow(values, values[1], TolNum, TolDen)
    BY <1>8, <1>9, <2>1, ZeroKeepsApart
  <2> QED
    BY <1>9, <2>2 DEF Settled, values, n
<1> QED
  BY <1>10, <1>11


(***************************************************************************)
(* Each interval adds one figure to either series, and none has settled    *)
(* while interval 0 is in the window.                                      *)
(***************************************************************************)
RampInv ==
  /\ interval \in Nat
  /\ moved \in Seq(Int) /\ Len(moved) = interval
  /\ OnePerInterval(goodputs, interval) /\ OnePerInterval(rpms, interval)
  /\ NotStableInRamp

(***************************************************************************)
(* Bytes are counted from the start of the test, so interval 0 shows none. *)
(***************************************************************************)
LEMMA GoodputOfInterval ==
  ASSUME RampInv, NEW bytes \in Nat, interval = 0 => bytes = 0,
         moved' = Append(moved, MovedBy(moved, interval - 1) + bytes)
  PROVE  /\ moved' \in Seq(Int) /\ Len(moved') = interval + 1
         /\ Goodput(moved', interval) \in Int
         /\ interval = 0 => Goodput(moved', interval) = 0
<1>1. interval \in Nat /\ moved \in Seq(Int) /\ Len(moved) = interval
  BY DEF RampInv
<1>2. /\ MovedBy(moved, interval - 1) \in Int
      /\ interval = 0 => MovedBy(moved, interval - 1) = 0
  <2>1. CASE interval = 0
    BY <2>1 DEF MovedBy
  <2>2. CASE interval # 0
    <3>1. ~(interval - 1 < 0) /\ (interval - 1) + 1 = interval
      BY <1>1, <2>2
    <3>2. MovedBy(moved, interval - 1) = moved[interval]
      BY <3>1 DEF MovedBy
    <3>3. interval \in 1..Len(moved)
      BY <1>1, <2>2
    <3> QED
      BY <1>1, <2>2, <3>2, <3>3
  <2> QED
    BY <2>1, <2>2
<1> DEFINE x == MovedBy(moved, interval - 1) + bytes
<1>3. x \in Int /\ (interval = 0 => x = 0)
  BY <1>2
<1> HIDE DEF x
<1>4. /\ moved' \in Seq(Int) /\ Len(moved') = interval + 1
      /\ moved'[interval + 1] = x
  BY <1>1, <1>3 DEF x
<1>5. MovedBy(moved', interval) = x
  BY <1>1, <1>4 DEF MovedBy
<1>6. /\ MovedBy(moved', interval - GoodputSpan) \in Int
      /\ interval = 0 => MovedBy(moved', interval - GoodputSpan) = 0
  <2>1. CASE interval - GoodputSpan < 0
    BY <2>1 DEF MovedBy
  <2>2. CASE ~(interval - GoodputSpan < 0)
    <3>1. /\ interval # 0
          /\ (interval - GoodputSpan) + 1 \in 1..(interval + 1)
      BY <1>1, <2>2 DEF GoodputSpan
    <3>2. moved'[(interval - GoodputSpan) + 1] \in Int
      BY <1>4, <3>1
    <3> QED
      BY <2>2, <3>1, <3>2 DEF MovedBy
  <2> QED
    BY <2>1, <2>2
<1> QED
  BY <1>3, <1>4, <1>5, <1>6 DEF Goodput

(***************************************************************************)
(* An interval keeps the invariant: up to MAD its figure is the newest in  *)
(* a window whose oldest is zero.                                          *)
(***************************************************************************)
LEMMA IntervalKeepsRamp ==
  ASSUME SmallTolerance, RampInv,
         NEW bytes \in Rate \union {0},
         NEW current \in {{}} \union {{r} : r \in Rpm},
         OnInterval(bytes, current), interval' = interval + 1
  PROVE  RampInv'
<1> DEFINE goodput == Goodput(moved', interval)
           figure == Max(current \union {0})
<1>1. /\ interval \in Nat /\ bytes \in Nat /\ MAD \in Nat
      /\ OnePerInterval(goodputs, interval) /\ OnePerInterval(rpms, interval)
  BY ConvergenceAssumption DEF RampInv
<1>2. /\ interval = 0 => bytes = 0 /\ current = {}
      /\ moved' = Append(moved, MovedBy(moved, interval - 1) + bytes)
      /\ goodputs' \in Added(goodputs, Sample(interval, goodput))
      /\ rpms' \in Added(rpms, Sample(interval, figure))
      /\ goodputSaturated' => goodputSaturated \/ Settled(goodputs', interval, goodput)
      /\ rpmSaturated' => rpmSaturated \/ Settled(rpms', interval, figure)
  BY DEF OnInterval, AsSample
<1>3. figure \in Int /\ (interval = 0 => figure = 0)
  <2>1. CASE current = {}
    <3>1. figure = 0
      BY <2>1, MaxOfFigure
    <3> QED
      BY <3>1
  <2>2. CASE current # {}
    <3>1. PICK r \in Rpm : current = {r}
      BY <2>2
    <3>2. r \in Nat /\ figure = r
      BY <3>1, MaxOfFigure, ConvergenceAssumption
    <3> QED
      BY <1>2, <2>2, <3>2
  <2> QED
    BY <2>1, <2>2
<1>4. /\ moved' \in Seq(Int) /\ Len(moved') = interval + 1
      /\ goodput \in Int /\ (interval = 0 => goodput = 0)
  BY <1>1, <1>2, GoodputOfInterval
<1> HIDE DEF goodput, figure
<1>5. /\ OnePerInterval(goodputs', interval + 1)
      /\ goodputs'[interval + 1].value = goodput
  BY <1>1, <1>2, <1>4, AddedAtEnd
<1>6. /\ OnePerInterval(rpms', interval + 1)
      /\ rpms'[interval + 1].value = figure
  BY <1>1, <1>2, <1>3, AddedAtEnd
<1>7. ASSUME interval <= MAD
      PROVE  ~goodputSaturated' /\ ~rpmSaturated'
  <2>1. interval \in 0..MAD
    BY <1>1, <1>7
  <2>2. ~goodputSaturated /\ ~rpmSaturated
    BY <1>1, <1>7 DEF RampInv, NotStableInRamp
  <2>3. ~Settled(goodputs', interval, goodput)
    BY <1>5, <2>1, UnsettledInRamp
  <2>4. ~Settled(rpms', interval, figure)
    BY <1>6, <2>1, UnsettledInRamp
  <2> QED
    BY <1>2, <2>2, <2>3, <2>4
<1>8. goodputSaturated' \/ rpmSaturated' => interval' > MAD + 1
  <2>1. CASE interval <= MAD
    BY <1>7, <2>1
  <2>2. CASE ~(interval <= MAD)
    BY <1>1, <2>2
  <2> QED
    BY <2>1, <2>2
<1> QED
  BY <1>1, <1>4, <1>5, <1>6, <1>8 DEF RampInv, NotStableInRamp

(***************************************************************************)
(* For any rates, figures and moving average distance, and any tolerance   *)
(* small enough for the distance (the default is 5% for a distance of 4,   *)
(* where up to 31% would do): no figure is declared stable in the ramp,    *)
(* for as long as the window reaches back to interval 0.                   *)
(***************************************************************************)
THEOREM RampIsNeverStable == SmallTolerance => (Spec => []NotStableInRamp)
<1> SUFFICES ASSUME SmallTolerance PROVE Spec => []NotStableInRamp
  OBVIOUS
<1>1. Init => RampInv
  <2> SUFFICES ASSUME Init PROVE RampInv
    OBVIOUS
  <2>1. OnePerInterval(<< >>, 0)
    BY DEF OnePerInterval
  <2> QED
    BY <2>1 DEF Init, RampInv, NotStableInRamp
<1>2. RampInv /\ [Next]_vars => RampInv'
  <2> SUFFICES ASSUME RampInv, [Next]_vars PROVE RampInv'
    OBVIOUS
  <2>1. CASE Tick
    BY <2>1, IntervalKeepsRamp DEF Tick
  <2>2. CASE Finish
    BY <2>2 DEF Finish, RampInv, NotStableInRamp
  <2>3. CASE UNCHANGED vars
    BY <2>3 DEF vars, RampInv, NotStableInRamp
  <2> QED
    BY <2>1, <2>2, <2>3 DEF Next
<1>3. RampInv => NotStableInRamp
  BY DEF RampInv
<1> QED
  BY <1>1, <1>2, <1>3, PTL DEF Spec
=============================================================================
