------------------------- MODULE ServStatus_proofs -------------------------
(***************************************************************************)
(* Theorems about ServStatus: for any number of workers, however they      *)
(* start, end and are killed, the sums in shared memory are the sums of    *)
(* what the workers published.                                             *)
(*                                                                         *)
(* The sums of the model are folds.  The first part shows what a sum over  *)
(* a finite set does when one worker comes, goes or changes.  It uses      *)
(* induction over finite sets in the form of sets of sets, because the     *)
(* provers cannot instantiate a theorem about an operator P(_).            *)
(***************************************************************************)
EXTENDS ServStatus, FiniteSetTheorems, TLAPS

-----------------------------------------------------------------------------
(* Induction over the subsets of a finite set. *)

\* A set of subsets that has every subset whose smaller neighbours it has, has all.
LEMMA SubsetInduction ==
  ASSUME NEW W, IsFiniteSet(W), NEW X \in SUBSET SUBSET W, {} \in X,
         \A T \in SUBSET W : T # {} /\ (\A x \in T : T \ {x} \in X) => T \in X
  PROVE  X = SUBSET W
<1> DEFINE Y == (SUBSET W) \ X
           N == {Cardinality(T) : T \in Y}
<1>1. SUFFICES ASSUME Y # {}
               PROVE  FALSE
  OBVIOUS
<1>2. \A T \in SUBSET W : IsFiniteSet(T) /\ Cardinality(T) \in Nat
  BY FS_Subset, FS_CardinalityType
<1>3. N \subseteq Nat /\ N # {}
  BY <1>1, <1>2
<1>4. PICK n \in N : \A m \in N : ~ (<<m, n>> \in OpToRel(<, Nat))
  <2> DEFINE R == OpToRel(<, Nat)
  <2>1. IsWellFoundedOn(R, Nat)
    BY NatLessThanWellFounded
  <2> HIDE DEF N, R
  <2>2. \E n \in N : \A m \in N : ~ (<<m, n>> \in R)
    <3>1. \A A, B, C : IsWellFoundedOn(A, B) /\ C \subseteq B /\ C # {} =>
                         \E n \in C : \A m \in C : ~ (<<m, n>> \in A)
      BY WFMin, Zenon
    <3> QED  BY <1>3, <2>1, <3>1, Zenon
  <2> QED  BY <2>2 DEF R
<1>5. PICK T \in Y : Cardinality(T) = n
  BY <1>4
<1>6. T \in SUBSET W /\ T \notin X /\ T # {}
  BY <1>5
<1>7. PICK x \in T : T \ {x} \notin X
  BY <1>6
<1>8. Cardinality(T \ {x}) = n - 1 /\ T \ {x} \in Y
  <2>1. Cardinality(T \ {x}) = Cardinality(T) - 1
    BY <1>2, <1>6, <1>7, FS_RemoveElement
  <2> QED  BY <1>5, <1>6, <1>7, <2>1
<1>9. n - 1 \in N /\ n \in Nat /\ n - 1 \in Nat
  <2>1. n - 1 \in N
    BY <1>8
  <2> QED  BY <1>3, <1>4, <2>1
<1>10. <<n - 1, n>> \in OpToRel(<, Nat)
  BY <1>9 DEF OpToRel
<1> QED  BY <1>4, <1>9, <1>10

\* The same, for what adding an element keeps.
LEMMA AddingInduction ==
  ASSUME NEW W, IsFiniteSet(W), NEW X \in SUBSET SUBSET W, {} \in X,
         \A T \in X : \A x \in W \ T : T \cup {x} \in X
  PROVE  X = SUBSET W
<1>1. ASSUME NEW T \in SUBSET W, T # {}, \A x \in T : T \ {x} \in X
      PROVE  T \in X
  <2>1. PICK x \in T : T \ {x} \in X
    BY <1>1
  <2>2. (T \ {x}) \cup {x} = T /\ x \in W \ (T \ {x})
    BY <2>1
  <2> QED  BY <2>1, <2>2
<1> QED  BY <1>1, SubsetInduction

-----------------------------------------------------------------------------
(* Sums. *)

Pick(s) == CHOOSE x \in s : TRUE

\* h sums g over the subsets of W.
Additive(h, g, W) ==
  /\ h \in [SUBSET W -> Int] /\ h[{}] = 0
  /\ \A T \in SUBSET W, x \in W : x \notin T => h[T \cup {x}] = h[T] + g[x]

\* One element more.
LEMMA AdditiveStep ==
  ASSUME NEW W, NEW g \in [W -> Int], NEW S \in SUBSET W, NEW x \in W \ S,
         NEW h, Additive(h, g, S)
  PROVE  \E k : Additive(k, g, S \cup {x})
<1> DEFINE R == S \cup {x}
           k == [T \in SUBSET R |-> IF x \in T THEN h[T \ {x}] + g[x] ELSE h[T]]
<1>1. h \in [SUBSET S -> Int] /\ h[{}] = 0
      /\ \A T \in SUBSET S, y \in S : y \notin T => h[T \cup {y}] = h[T] + g[y]
  BY DEF Additive
<1>2. \A T \in SUBSET R : T \ {x} \in SUBSET S /\ (x \notin T => T \in SUBSET S)
  OBVIOUS
<1>3. k \in [SUBSET R -> Int]
  BY <1>1, <1>2
<1>4. k[{}] = 0
  BY <1>1
<1>5. ASSUME NEW T \in SUBSET R, NEW y \in R, y \notin T
      PROVE  k[T \cup {y}] = k[T] + g[y]
  <2>1. T \cup {y} \in SUBSET R
    BY <1>5
  <2>2. CASE y = x
    <3>1. (T \cup {y}) \ {x} = T /\ T \in SUBSET S
      BY <1>2, <1>5, <2>2
    <3> QED  BY <1>5, <2>1, <2>2, <3>1
  <2>3. CASE y # x /\ x \in T
    <3>1. (T \cup {y}) \ {x} = (T \ {x}) \cup {y} /\ y \in S /\ y \notin T \ {x}
      BY <1>5, <2>3
    <3>2. h[(T \ {x}) \cup {y}] = h[T \ {x}] + g[y]
      BY <1>1, <1>2, <3>1
    <3>3. h[T \ {x}] \in Int /\ g[y] \in Int
      <4>1. T \ {x} \in SUBSET S /\ y \in W
        BY <1>2, <3>1
      <4> QED  BY <1>1, <4>1
    <3>4. k[T \cup {y}] = h[(T \ {x}) \cup {y}] + g[x] /\ k[T] = h[T \ {x}] + g[x]
      BY <2>1, <2>3, <3>1
    <3> QED  BY <3>2, <3>3, <3>4
  <2>4. CASE y # x /\ x \notin T
    <3>1. y \in S /\ T \in SUBSET S /\ x \notin T \cup {y}
      BY <1>2, <2>4
    <3> QED  BY <1>1, <1>5, <2>1, <2>4, <3>1
  <2> QED  BY <2>2, <2>3, <2>4
<1> HIDE DEF k
<1>6. Additive(k, g, R)
  BY <1>3, <1>4, <1>5 DEF Additive
<1> QED  BY <1>6

LEMMA AdditiveExists ==
  ASSUME NEW W, IsFiniteSet(W), NEW g \in [W -> Int]
  PROVE  \E h : Additive(h, g, W)
<1> DEFINE X == {S \in SUBSET W : \E h : Additive(h, g, S)}
<1>1. {} \in X
  <2> DEFINE z == [S \in SUBSET {} |-> 0]
  <2>1. Additive(z, g, {})
    BY DEF Additive
  <2> QED  BY <2>1
<1>2. ASSUME NEW S \in X, NEW x \in W \ S
      PROVE  S \cup {x} \in X
  <2>1. PICK h : Additive(h, g, S)
    BY <1>2
  <2>2. \E k : Additive(k, g, S \cup {x})
    BY <1>2, <2>1, AdditiveStep
  <2> QED  BY <1>2, <2>2
<1>3. X \in SUBSET SUBSET W
  OBVIOUS
<1> HIDE DEF X
<1>4. X = SUBSET W
  BY <1>1, <1>2, <1>3, AddingInduction
<1> QED  BY <1>4 DEF X

\* The fold takes one element after another.
Unrolls(f, g, S) ==
  f = [s \in SUBSET S |-> IF s = {} THEN 0 ELSE g[Pick(s)] + f[s \ {Pick(s)}]]

LEMMA FoldUnrolls ==
  ASSUME NEW g, NEW S, NEW k, Unrolls(k, g, S)
  PROVE  \E f : SumFunctionOnSet(g, S) = f[S] /\ Unrolls(f, g, S)
<1> DEFINE f == CHOOSE it : it = [s \in SUBSET S |->
                  IF s = {} THEN 0 ELSE g[Pick(s)] + it[s \ {Pick(s)}]]
<1>1. Unrolls(f, g, S)
  BY DEF Unrolls
<1>2. SumFunctionOnSet(g, S) = f[S]
  BY DEF SumFunctionOnSet, FoldFunctionOnSet, MapThenFoldSet, Pick
<1> HIDE DEF f
<1> QED  BY <1>1, <1>2

\* In whatever order it takes them, it finds the sum.
LEMMA FoldIsSum ==
  ASSUME NEW W, IsFiniteSet(W), NEW g \in [W -> Int], NEW h, Additive(h, g, W),
         NEW S \in SUBSET W
  PROVE  SumFunctionOnSet(g, S) = h[S]
<1> DEFINE k == [s \in SUBSET S |-> h[s]]
<1>1. IsFiniteSet(S) /\ SUBSET S \subseteq SUBSET W
  BY FS_Subset
<1>2. h \in [SUBSET W -> Int] /\ h[{}] = 0
      /\ \A T \in SUBSET W, x \in W : x \notin T => h[T \cup {x}] = h[T] + g[x]
  BY DEF Additive
<1>3. ASSUME NEW T \in SUBSET S, T # {}
      PROVE  Pick(T) \in T /\ h[T] = g[Pick(T)] + h[T \ {Pick(T)}]
  <2>1. Pick(T) \in T
    BY <1>3 DEF Pick
  <2>2. PICK x \in T : x = Pick(T)
    BY <2>1
  <2>3. T \ {x} \in SUBSET W /\ x \in W /\ (T \ {x}) \cup {x} = T
    OBVIOUS
  <2>4. h[T] = h[T \ {x}] + g[x] /\ h[T \ {x}] \in Int /\ g[x] \in Int
    BY <1>2, <2>3
  <2> QED  BY <2>2, <2>4
<1>4. Unrolls(k, g, S)
  <2>1. \A s \in SUBSET S :
          k[s] = IF s = {} THEN 0 ELSE g[Pick(s)] + k[s \ {Pick(s)}]
    <3>1. TAKE s \in SUBSET S
    <3>2. CASE s = {}
      BY <1>2, <3>2
    <3>3. CASE s # {}
      <4>1. s \ {Pick(s)} \in SUBSET S
        OBVIOUS
      <4> QED  BY <1>3, <3>3, <4>1
    <3> QED  BY <3>2, <3>3
  <2> QED  BY <2>1 DEF Unrolls
<1> HIDE DEF k
<1>5. PICK f : SumFunctionOnSet(g, S) = f[S] /\ Unrolls(f, g, S)
  BY <1>4, FoldUnrolls
<1> DEFINE X == {T \in SUBSET S : f[T] = h[T]}
<1>6. {} \in X
  BY <1>2, <1>5 DEF Unrolls
<1>7. ASSUME NEW T \in SUBSET S, T # {}, \A x \in T : T \ {x} \in X
      PROVE  T \in X
  <2>1. f[T] = g[Pick(T)] + f[T \ {Pick(T)}]
    BY <1>5, <1>7 DEF Unrolls
  <2>2. f[T \ {Pick(T)}] = h[T \ {Pick(T)}]
    BY <1>3, <1>7
  <2> QED  BY <1>3, <1>7, <2>1, <2>2
<1>8. X \in SUBSET SUBSET S
  OBVIOUS
<1> HIDE DEF X
<1>9. X = SUBSET S
  BY <1>1, <1>6, <1>7, <1>8, SubsetInduction
<1>10. S \in X
  BY <1>9
<1> QED  BY <1>5, <1>10 DEF X

\* What a sum over a finite set is: nothing of nothing, and one element more adds
\* what it counts.
LEMMA SumGrows ==
  ASSUME NEW W, IsFiniteSet(W), NEW g \in [W -> Int], NEW S \in SUBSET W
  PROVE  /\ SumFunctionOnSet(g, S) \in Int
         /\ SumFunctionOnSet(g, {}) = 0
         /\ \A x \in W \ S :
              SumFunctionOnSet(g, S \cup {x}) = SumFunctionOnSet(g, S) + g[x]
<1>1. PICK h : Additive(h, g, W)
  BY AdditiveExists
<1>2. h \in [SUBSET W -> Int] /\ h[{}] = 0
      /\ \A T \in SUBSET W, x \in W : x \notin T => h[T \cup {x}] = h[T] + g[x]
  BY <1>1 DEF Additive
<1>3. \A T \in SUBSET W : SumFunctionOnSet(g, T) = h[T]
  BY <1>1, FoldIsSum
<1>4. \A x \in W \ S : S \cup {x} \in SUBSET W
  OBVIOUS
<1> QED  BY <1>2, <1>3, <1>4

LEMMA SumShrinks ==
  ASSUME NEW W, IsFiniteSet(W), NEW g \in [W -> Int], NEW S \in SUBSET W, NEW x \in S
  PROVE  SumFunctionOnSet(g, S \ {x}) = SumFunctionOnSet(g, S) - g[x]
<1> DEFINE T == S \ {x}
<1>1. T \in SUBSET W /\ T \cup {x} = S /\ x \in W \ T /\ g[x] \in Int
  OBVIOUS
<1> HIDE DEF T
<1>2. SumFunctionOnSet(g, T) \in Int
      /\ SumFunctionOnSet(g, S) = SumFunctionOnSet(g, T) + g[x]
  <2>1. SumFunctionOnSet(g, T) \in Int
        /\ SumFunctionOnSet(g, T \cup {x}) = SumFunctionOnSet(g, T) + g[x]
    BY <1>1, SumGrows
  <2> QED  BY <1>1, <2>1, Zenon
<1>3. SumFunctionOnSet(g, T) = SumFunctionOnSet(g, S) - g[x]
  BY <1>1, <1>2
<1> QED  BY <1>3 DEF T

\* Functions that agree on a set have the same sum over it.
LEMMA SumSame ==
  ASSUME NEW W, IsFiniteSet(W), NEW g \in [W -> Int], NEW f \in [W -> Int],
         NEW S \in SUBSET W, \A w \in S : f[w] = g[w]
  PROVE  SumFunctionOnSet(f, S) = SumFunctionOnSet(g, S)
<1> DEFINE X == {T \in SUBSET S : SumFunctionOnSet(f, T) = SumFunctionOnSet(g, T)}
<1>1. {} \in X
  BY SumGrows
<1>2. ASSUME NEW T \in X, NEW x \in S \ T
      PROVE  T \cup {x} \in X
  <2>1. T \in SUBSET W /\ x \in W \ T /\ T \cup {x} \in SUBSET S /\ f[x] = g[x]
    BY <1>2
  <2>2. SumFunctionOnSet(f, T \cup {x}) = SumFunctionOnSet(f, T) + f[x]
    BY <2>1, SumGrows
  <2>3. SumFunctionOnSet(g, T \cup {x}) = SumFunctionOnSet(g, T) + g[x]
    BY <2>1, SumGrows
  <2> QED  BY <1>2, <2>1, <2>2, <2>3
<1>3. X \in SUBSET SUBSET S /\ IsFiniteSet(S)
  BY FS_Subset
<1> HIDE DEF X
<1>4. X = SUBSET S
  BY <1>1, <1>2, <1>3, AddingInduction
<1>5. S \in X
  BY <1>4
<1> QED  BY <1>5 DEF X

\* One element counts something else.
LEMMA SumChanges ==
  ASSUME NEW W, IsFiniteSet(W), NEW g \in [W -> Int], NEW f \in [W -> Int],
         NEW S \in SUBSET W, NEW x \in S, \A w \in S : w # x => f[w] = g[w]
  PROVE  SumFunctionOnSet(f, S) = SumFunctionOnSet(g, S) + f[x] - g[x]
<1> DEFINE T == S \ {x}
<1>1. T \in SUBSET W /\ (\A w \in T : f[w] = g[w]) /\ g[x] \in Int /\ f[x] \in Int
  OBVIOUS
<1>2. SumFunctionOnSet(f, T) = SumFunctionOnSet(f, S) - f[x]
  BY SumShrinks
<1>3. SumFunctionOnSet(g, T) = SumFunctionOnSet(g, S) - g[x]
  BY SumShrinks
<1> HIDE DEF T
<1>4. SumFunctionOnSet(f, T) = SumFunctionOnSet(g, T)
  BY <1>1, SumSame
<1>5. SumFunctionOnSet(f, S) \in Int /\ SumFunctionOnSet(g, S) \in Int
  BY SumGrows
<1> QED  BY <1>1, <1>2, <1>3, <1>4, <1>5

-----------------------------------------------------------------------------
(* The counters of the workers. *)

\* What the invariant says of types.
Typed ==
  /\ up \subseteq Workers /\ due \subseteq up
  /\ serv \in [Workers -> Counts] /\ tmp \in [Workers -> Counts]
  /\ shm \in Counts /\ gone \in Counts
  /\ now \in [Workers -> Slot]
  /\ starts \in 0..MaxStarts /\ accepted \in 0..MaxEvents
  /\ asked \in [Workers -> [Slot -> 0..MaxAsked]]

\* A process that does not run has counted and published nothing.
Idle == \A w \in Workers \ up : serv[w] = Zero /\ tmp[w] = Zero

IInv == Typed /\ Idle /\ GaugeIsSum /\ RingIsSum /\ TotalIsSum

LEMMA CountsFacts ==
  /\ Zero \in Counts /\ Zero.gauge = 0 /\ Zero.total = 0 /\ \A i \in Slot : Zero.sec[i] = 0
  /\ \A c \in Counts : /\ c.gauge \in Int /\ c.total \in Int /\ c.sec \in [Slot -> Int]
                       /\ \A i \in Slot : c.sec[i] \in Int
  BY DEF Zero, Counts

\* The three sums are over functions to the integers.
LEMMA CounterFunctions ==
  ASSUME NEW a \in [Workers -> Counts]
  PROVE  /\ Gauges(a) \in [Workers -> Int] /\ Totals(a) \in [Workers -> Int]
         /\ \A w \in Workers : Gauges(a)[w] = a[w].gauge /\ Totals(a)[w] = a[w].total
         /\ \A i \in Slot : /\ Second(a, i) \in [Workers -> Int]
                            /\ \A w \in Workers : Second(a, i)[w] = a[w].sec[i]
<1>1. \A w \in Workers : a[w] \in Counts
  OBVIOUS
<1>2. \A w \in Workers : /\ a[w].gauge \in Int /\ a[w].total \in Int
                         /\ \A i \in Slot : a[w].sec[i] \in Int
  BY <1>1, CountsFacts
<1> QED  BY <1>2 DEF Gauges, Totals, Second

LEMMA SumsAreInts ==
  ASSUME NEW a \in [Workers -> Counts], NEW S \in SUBSET Workers
  PROVE  /\ SumFunctionOnSet(Gauges(a), S) \in Int
         /\ SumFunctionOnSet(Totals(a), S) \in Int
         /\ \A i \in Slot : SumFunctionOnSet(Second(a, i), S) \in Int
  BY CounterFunctions, WorkersAssumption, SumGrows DEF WorkersAssumption

\* One worker counts something else.
LEMMA WorkerChanges ==
  ASSUME NEW a \in [Workers -> Counts], NEW b \in [Workers -> Counts],
         NEW S \in SUBSET Workers, NEW w \in S, \A v \in S : v # w => b[v] = a[v]
  PROVE  /\ SumFunctionOnSet(Gauges(b), S) =
              SumFunctionOnSet(Gauges(a), S) + b[w].gauge - a[w].gauge
         /\ SumFunctionOnSet(Totals(b), S) =
              SumFunctionOnSet(Totals(a), S) + b[w].total - a[w].total
         /\ \A i \in Slot :
              SumFunctionOnSet(Second(b, i), S) =
                SumFunctionOnSet(Second(a, i), S) + b[w].sec[i] - a[w].sec[i]
<1>0. IsFiniteSet(Workers) /\ w \in Workers
  BY WorkersAssumption DEF WorkersAssumption
<1>1. SumFunctionOnSet(Gauges(b), S) =
        SumFunctionOnSet(Gauges(a), S) + b[w].gauge - a[w].gauge
  <2> DEFINE f == Gauges(b)
             g == Gauges(a)
  <2>1. /\ f \in [Workers -> Int] /\ g \in [Workers -> Int]
        /\ \A v \in Workers : f[v] = b[v].gauge /\ g[v] = a[v].gauge
    BY CounterFunctions
  <2>2. \A v \in S : v # w => f[v] = g[v]
    BY <2>1
  <2> HIDE DEF f, g
  <2>3. SumFunctionOnSet(f, S) = SumFunctionOnSet(g, S) + f[w] - g[w]
    BY <1>0, <2>1, <2>2, SumChanges
  <2> QED  BY <1>0, <2>1, <2>3 DEF f, g
<1>2. SumFunctionOnSet(Totals(b), S) =
        SumFunctionOnSet(Totals(a), S) + b[w].total - a[w].total
  <2> DEFINE f == Totals(b)
             g == Totals(a)
  <2>1. /\ f \in [Workers -> Int] /\ g \in [Workers -> Int]
        /\ \A v \in Workers : f[v] = b[v].total /\ g[v] = a[v].total
    BY CounterFunctions
  <2>2. \A v \in S : v # w => f[v] = g[v]
    BY <2>1
  <2> HIDE DEF f, g
  <2>3. SumFunctionOnSet(f, S) = SumFunctionOnSet(g, S) + f[w] - g[w]
    BY <1>0, <2>1, <2>2, SumChanges
  <2> QED  BY <1>0, <2>1, <2>3 DEF f, g
<1>3. ASSUME NEW i \in Slot
      PROVE  SumFunctionOnSet(Second(b, i), S) =
               SumFunctionOnSet(Second(a, i), S) + b[w].sec[i] - a[w].sec[i]
  <2> DEFINE f == Second(b, i)
             g == Second(a, i)
  <2>1. /\ f \in [Workers -> Int] /\ g \in [Workers -> Int]
        /\ \A v \in Workers : f[v] = b[v].sec[i] /\ g[v] = a[v].sec[i]
    BY CounterFunctions
  <2>2. \A v \in S : v # w => f[v] = g[v]
    BY <2>1
  <2> HIDE DEF f, g
  <2>3. SumFunctionOnSet(f, S) = SumFunctionOnSet(g, S) + f[w] - g[w]
    BY <1>0, <2>1, <2>2, SumChanges
  <2> QED  BY <1>0, <2>1, <2>3 DEF f, g
<1> QED  BY <1>1, <1>2, <1>3

\* One worker ends, or starts having counted nothing.
LEMMA WorkerEnds ==
  ASSUME NEW a \in [Workers -> Counts], NEW b \in [Workers -> Counts],
         NEW S \in SUBSET Workers, NEW w \in S, \A v \in S : v # w => b[v] = a[v]
  PROVE  /\ SumFunctionOnSet(Gauges(b), S \ {w}) =
              SumFunctionOnSet(Gauges(a), S) - a[w].gauge
         /\ SumFunctionOnSet(Totals(b), S \ {w}) =
              SumFunctionOnSet(Totals(a), S) - a[w].total
         /\ \A i \in Slot :
              SumFunctionOnSet(Second(b, i), S \ {w}) =
                SumFunctionOnSet(Second(a, i), S) - a[w].sec[i]
<1> DEFINE T == S \ {w}
<1>1. /\ IsFiniteSet(Workers) /\ w \in Workers /\ T \in SUBSET Workers
      /\ \A v \in T : b[v] = a[v] /\ v \in Workers
  BY WorkersAssumption DEF WorkersAssumption
<1>2. /\ SumFunctionOnSet(Gauges(a), T) = SumFunctionOnSet(Gauges(a), S) - a[w].gauge
      /\ SumFunctionOnSet(Totals(a), T) = SumFunctionOnSet(Totals(a), S) - a[w].total
  BY <1>1, CounterFunctions, SumShrinks
<1>3. \A i \in Slot : SumFunctionOnSet(Second(a, i), T) =
                        SumFunctionOnSet(Second(a, i), S) - a[w].sec[i]
  BY <1>1, CounterFunctions, SumShrinks
<1> HIDE DEF T
<1>4. SumFunctionOnSet(Gauges(b), T) = SumFunctionOnSet(Gauges(a), T)
  <2>1. \A v \in T : Gauges(b)[v] = Gauges(a)[v]
    BY <1>1, CounterFunctions
  <2> QED  BY <1>1, <2>1, CounterFunctions, SumSame
<1>5. SumFunctionOnSet(Totals(b), T) = SumFunctionOnSet(Totals(a), T)
  <2>1. \A v \in T : Totals(b)[v] = Totals(a)[v]
    BY <1>1, CounterFunctions
  <2> QED  BY <1>1, <2>1, CounterFunctions, SumSame
<1>6. ASSUME NEW i \in Slot
      PROVE  SumFunctionOnSet(Second(b, i), T) = SumFunctionOnSet(Second(a, i), T)
  <2> DEFINE f == Second(b, i)
             g == Second(a, i)
  <2>1. /\ f \in [Workers -> Int] /\ g \in [Workers -> Int]
        /\ \A v \in Workers : f[v] = b[v].sec[i] /\ g[v] = a[v].sec[i]
    BY CounterFunctions
  <2>2. \A v \in T : f[v] = g[v]
    BY <1>1, <2>1
  <2> HIDE DEF f, g
  <2>3. SumFunctionOnSet(f, T) = SumFunctionOnSet(g, T)
    BY <1>1, <2>1, <2>2, SumSame
  <2> QED  BY <2>3 DEF f, g
<1> QED  BY <1>2, <1>3, <1>4, <1>5, <1>6 DEF T

LEMMA WorkerStarts ==
  ASSUME NEW a \in [Workers -> Counts], NEW S \in SUBSET Workers,
         NEW w \in Workers \ S, a[w] = Zero
  PROVE  /\ SumFunctionOnSet(Gauges(a), S \cup {w}) = SumFunctionOnSet(Gauges(a), S)
         /\ SumFunctionOnSet(Totals(a), S \cup {w}) = SumFunctionOnSet(Totals(a), S)
         /\ \A i \in Slot : SumFunctionOnSet(Second(a, i), S \cup {w}) =
                              SumFunctionOnSet(Second(a, i), S)
<1>1. IsFiniteSet(Workers)
  BY WorkersAssumption DEF WorkersAssumption
<1>2. /\ Gauges(a)[w] = 0 /\ Totals(a)[w] = 0 /\ \A i \in Slot : Second(a, i)[w] = 0
  <2>1. /\ Gauges(a)[w] = Zero.gauge /\ Totals(a)[w] = Zero.total
        /\ \A i \in Slot : Second(a, i)[w] = Zero.sec[i]
    BY CounterFunctions
  <2>2. Zero.gauge = 0 /\ Zero.total = 0 /\ \A i \in Slot : Zero.sec[i] = 0
    BY CountsFacts
  <2> QED  BY <2>1, <2>2
<1>3. /\ SumFunctionOnSet(Gauges(a), S \cup {w}) = SumFunctionOnSet(Gauges(a), S) + 0
      /\ SumFunctionOnSet(Totals(a), S \cup {w}) = SumFunctionOnSet(Totals(a), S) + 0
  BY <1>1, <1>2, CounterFunctions, SumGrows
<1>4. \A i \in Slot : SumFunctionOnSet(Second(a, i), S \cup {w}) =
                        SumFunctionOnSet(Second(a, i), S) + 0
  BY <1>1, <1>2, CounterFunctions, SumGrows
<1>5. /\ SumFunctionOnSet(Gauges(a), S) \in Int
      /\ SumFunctionOnSet(Totals(a), S) \in Int
      /\ \A i \in Slot : SumFunctionOnSet(Second(a, i), S) \in Int
  BY SumsAreInts
<1>6. \A i \in Slot : SumFunctionOnSet(Second(a, i), S \cup {w}) =
                        SumFunctionOnSet(Second(a, i), S)
  <2>1. TAKE i \in Slot
  <2>2. PICK x \in Int : x = SumFunctionOnSet(Second(a, i), S)
    BY <1>5
  <2>3. x + 0 = x
    BY <2>2
  <2> QED  BY <1>4, <2>2, <2>3
<1>7. SumFunctionOnSet(Gauges(a), S \cup {w}) = SumFunctionOnSet(Gauges(a), S)
  BY <1>3, <1>5
<1>8. SumFunctionOnSet(Totals(a), S \cup {w}) = SumFunctionOnSet(Totals(a), S)
  BY <1>3, <1>5
<1> QED  BY <1>6, <1>7, <1>8

-----------------------------------------------------------------------------
(* What sync_serv_status computes. *)

LEMMA ClearedFacts ==
  ASSUME now \in [Workers -> Slot], NEW w \in Workers, NEW s \in Counts
  PROVE  /\ Cleared(w, s) \in Counts
         /\ Cleared(w, s).gauge = s.gauge /\ Cleared(w, s).total = s.total
         /\ \A i \in Slot : Cleared(w, s).sec[i] = IF i = now[w] THEN 0 ELSE s.sec[i]
<1> DEFINE c == [s.sec EXCEPT ![now[w]] = 0]
<1>1. s.sec \in [Slot -> Int] /\ now[w] \in Slot /\ 0 \in Int
  BY CountsFacts
<1>2. /\ c \in [Slot -> Int]
      /\ \A i \in Slot : c[i] = IF i = now[w] THEN 0 ELSE s.sec[i]
  <2> HIDE DEF Slot
  <2> QED  BY <1>1
<1>3. Cleared(w, s) = [s EXCEPT !.sec = c]
  BY DEF Cleared
<1> HIDE DEF c
<1> QED  BY <1>2, <1>3 DEF Counts

LEMMA KeptFacts ==
  ASSUME now \in [Workers -> Slot], NEW w \in Workers, NEW s \in Counts
  PROVE  /\ Kept(w, s) \in Counts
         /\ Kept(w, s).gauge = s.gauge /\ Kept(w, s).total = 0
         /\ \A i \in Slot : Kept(w, s).sec[i] = IF i = now[w] THEN 0 ELSE s.sec[i]
<1> DEFINE c == Cleared(w, s)
<1>1. /\ c \in Counts /\ c.gauge = s.gauge
      /\ \A i \in Slot : c.sec[i] = IF i = now[w] THEN 0 ELSE s.sec[i]
  BY ClearedFacts
<1>2. Kept(w, s) = [c EXCEPT !.total = 0] /\ 0 \in Int
  BY DEF Kept
<1> HIDE DEF c
<1> QED  BY <1>1, <1>2 DEF Counts

LEMMA SumsFacts ==
  ASSUME Typed, NEW w \in Workers, NEW s \in Counts
  PROVE  /\ Sums(w, s) \in Counts
         /\ Sums(w, s).gauge = shm.gauge + s.gauge - tmp[w].gauge
         /\ Sums(w, s).total = shm.total + s.total
         /\ \A i \in Slot :
              Sums(w, s).sec[i] = shm.sec[i] + Kept(w, s).sec[i] - tmp[w].sec[i]
<1> DEFINE c == Cleared(w, s)
           g == shm.gauge + s.gauge - tmp[w].gauge
           t == shm.total + s.total
           r == [i \in Slot |-> shm.sec[i] + c.sec[i] - tmp[w].sec[i]]
<1>1. shm \in Counts /\ tmp[w] \in Counts /\ now \in [Workers -> Slot]
  BY DEF Typed
<1>2. /\ c \in Counts
      /\ \A i \in Slot : c.sec[i] = IF i = now[w] THEN 0 ELSE s.sec[i]
  BY <1>1, ClearedFacts
<1>3. \A i \in Slot : Kept(w, s).sec[i] = IF i = now[w] THEN 0 ELSE s.sec[i]
  BY <1>1, KeptFacts
<1>4. Sums(w, s) = [gauge |-> g, total |-> t, sec |-> r]
  BY DEF Sums
<1> HIDE DEF c
<1>5. g \in Int /\ t \in Int
  BY <1>1, CountsFacts
<1>6. \A i \in Slot : shm.sec[i] \in Int /\ c.sec[i] \in Int /\ tmp[w].sec[i] \in Int
  BY <1>1, <1>2, CountsFacts
<1>7. r \in [Slot -> Int]
  BY <1>6
<1>8. \A i \in Slot : r[i] = shm.sec[i] + Kept(w, s).sec[i] - tmp[w].sec[i]
  BY <1>2, <1>3
<1> HIDE DEF r, g, t
<1>9. Sums(w, s) \in Counts /\ Sums(w, s).gauge = g /\ Sums(w, s).total = t
      /\ Sums(w, s).sec = r
  BY <1>4, <1>5, <1>7 DEF Counts
<1> QED  BY <1>8, <1>9 DEF g, t

-----------------------------------------------------------------------------
(* Each action keeps the types, and a process that does not run at nothing. *)

LEMMA TypedFacts ==
  ASSUME Typed, NEW w \in Workers
  PROVE  /\ serv[w] \in Counts /\ tmp[w] \in Counts /\ now[w] \in Slot
         /\ asked[w] \in [Slot -> 0..MaxAsked] /\ 0 \in 0..MaxAsked
         /\ MaxAsked \in Nat /\ MaxEvents \in Nat /\ MaxStarts \in Nat
         /\ accepted \in Nat /\ starts \in Nat
<1>1. MaxAsked \in Nat /\ MaxEvents \in Nat /\ MaxStarts \in Nat
  BY BoundsAssumption DEF BoundsAssumption
<1> QED  BY <1>1 DEF Typed

LEMMA ServTyped ==
  ASSUME NEW w \in Workers, Typed, Connect(w) \/ Leave(w) \/ Request(w)
  PROVE  Typed' /\ \A v \in Workers : v # w => serv'[v] = serv[v]
<1>1. /\ serv[w] \in Counts /\ now[w] \in Slot /\ MaxEvents \in Nat /\ accepted \in Nat
      /\ UNCHANGED <<up, due, tmp, now, shm, starts, gone>>
  BY TypedFacts DEF Connect, Leave, Request
<1>2. serv \in [Workers -> Counts] /\ serv[w].gauge \in Int /\ serv[w].total \in Int
      /\ serv[w].sec \in [Slot -> Int]
  BY <1>1, CountsFacts DEF Typed
<1>3. \E c \in Counts : serv' = [serv EXCEPT ![w] = c]
  <2>1. CASE Connect(w)
    <3> DEFINE c == [serv[w] EXCEPT !.gauge = @ + 1, !.total = @ + 1]
    <3>1. c \in Counts
      <4>1. serv[w].gauge + 1 \in Int /\ serv[w].total + 1 \in Int
        BY <1>2
      <4> QED  BY <1>1, <4>1 DEF Counts
    <3>2. serv' = [serv EXCEPT ![w] = c]
      BY <2>1 DEF Connect
    <3> QED  BY <3>1, <3>2
  <2>2. CASE Leave(w)
    <3> DEFINE c == [serv[w] EXCEPT !.gauge = @ - 1]
    <3>1. c \in Counts
      BY <1>1, <1>2 DEF Counts
    <3>2. serv' = [serv EXCEPT ![w] = c]
      BY <2>2 DEF Leave
    <3> QED  BY <3>1, <3>2
  <2>3. CASE Request(w)
    <3> DEFINE d == [serv[w].sec EXCEPT ![now[w]] = @ + 1]
               c == [serv[w] EXCEPT !.sec = d]
    <3>1. d \in [Slot -> Int]
      BY <1>1, <1>2
    <3>2. c \in Counts
      <4> HIDE DEF d
      <4> QED  BY <1>1, <3>1 DEF Counts
    <3>3. serv' = [serv EXCEPT ![w] = c]
      BY <2>3 DEF Request
    <3> QED  BY <3>2, <3>3
  <2> QED  BY <2>1, <2>2, <2>3
<1>4. serv' \in [Workers -> Counts] /\ \A v \in Workers : v # w => serv'[v] = serv[v]
  BY <1>2, <1>3
<1>5. accepted' \in 0..MaxEvents
  BY <1>1 DEF Connect, Leave, Request, Typed
<1>6. asked' \in [Workers -> [Slot -> 0..MaxAsked]]
  <2>1. CASE Connect(w) \/ Leave(w)
    BY <2>1 DEF Connect, Leave, Typed
  <2>2. CASE Request(w)
    <3> DEFINE d == [asked[w] EXCEPT ![now[w]] = @ + 1]
    <3>1. asked[w] \in [Slot -> 0..MaxAsked] /\ MaxAsked \in Nat
          /\ asked \in [Workers -> [Slot -> 0..MaxAsked]]
      BY TypedFacts DEF Typed
    <3>2. asked[w][now[w]] + 1 \in 0..MaxAsked
      <4>1. asked[w][now[w]] < MaxAsked /\ asked[w][now[w]] \in 0..MaxAsked
        BY <1>1, <2>2, <3>1 DEF Request
      <4> QED  BY <3>1, <4>1
    <3>3. d \in [Slot -> 0..MaxAsked]
      <4> HIDE DEF Slot
      <4> QED  BY <1>1, <3>1, <3>2
    <3>4. asked' = [asked EXCEPT ![w] = d]
      BY <2>2 DEF Request
    <3> HIDE DEF d
    <3> QED  BY <3>1, <3>3, <3>4
  <2> QED  BY <2>1, <2>2
<1> QED  BY <1>1, <1>4, <1>5, <1>6 DEF Typed

LEMMA ClockTyped ==
  ASSUME NEW w \in Workers, Typed, Clock(w)
  PROVE  Typed'
<1>1. /\ w \in up /\ due' = due \cup {w}
      /\ UNCHANGED <<up, serv, tmp, shm, starts, accepted, gone>>
  BY DEF Clock
<1>2. PICK n \in 1..MaxJump :
        /\ now' = [now EXCEPT ![w] = (@ + n) % 5]
        /\ asked' = [asked EXCEPT ![w] =
             [i \in Slot |-> IF \E k \in 1..n : i = (now[w] + k) % 5 THEN 0 ELSE @[i]]]
  BY DEF Clock
<1>3. (now[w] + n) % 5 \in Slot
  <2>1. now[w] \in Slot /\ n \in Nat
    BY TypedFacts
  <2> QED  BY <2>1 DEF Slot
<1>4. now' \in [Workers -> Slot]
  BY <1>2, <1>3 DEF Typed
<1>5. asked' \in [Workers -> [Slot -> 0..MaxAsked]]
  <2> DEFINE d == [i \in Slot |->
                     IF \E k \in 1..n : i = (now[w] + k) % 5 THEN 0 ELSE asked[w][i]]
  <2>1. d \in [Slot -> 0..MaxAsked]
    BY TypedFacts
  <2>2. asked' = [asked EXCEPT ![w] = d]
    BY <1>2
  <2> HIDE DEF d
  <2> QED  BY <2>1, <2>2 DEF Typed
<1> QED  BY <1>1, <1>4, <1>5 DEF Typed

LEMMA SyncTyped ==
  ASSUME NEW w \in Workers, Typed, Sync(w)
  PROVE  /\ Typed' /\ w \in up
         /\ serv' = [serv EXCEPT ![w] = Kept(w, serv[w])]
         /\ tmp' = [tmp EXCEPT ![w] = Kept(w, serv[w])]
         /\ Kept(w, serv[w]) \in Counts /\ shm' = Sums(w, serv[w])
<1>1. /\ w \in up /\ due' = due \ {w} /\ shm' = Sums(w, serv[w])
      /\ serv' = [serv EXCEPT ![w] = Kept(w, serv[w])]
      /\ tmp' = [tmp EXCEPT ![w] = Kept(w, serv[w])]
      /\ UNCHANGED <<up, now, starts, accepted, asked, gone>>
  BY DEF Sync
<1>2. Kept(w, serv[w]) \in Counts /\ Sums(w, serv[w]) \in Counts
  BY TypedFacts, KeptFacts, SumsFacts DEF Typed
<1> QED  BY <1>1, <1>2 DEF Typed

\* A worker ends with left behind.
LEMMA EndedTyped ==
  ASSUME NEW w \in Workers, Typed, NEW left \in Counts, Ended(w, left),
         shm' \in Counts, w \in up
  PROVE  /\ Typed'
         /\ \A v \in Workers : v # w => serv'[v] = serv[v] /\ tmp'[v] = tmp[v]
         /\ serv'[w] = Zero /\ tmp'[w] = Zero
         /\ gone'.gauge = gone.gauge + left.gauge /\ gone'.total = gone.total + left.total
         /\ \A i \in Slot : gone'.sec[i] = gone.sec[i] + left.sec[i]
<1>1. /\ up' = up \ {w} /\ due' = due \ {w}
      /\ serv' = [serv EXCEPT ![w] = Zero] /\ tmp' = [tmp EXCEPT ![w] = Zero]
      /\ now' = [now EXCEPT ![w] = 0] /\ asked' = [asked EXCEPT ![w] = Zero.sec]
      /\ UNCHANGED <<starts, accepted>>
  BY DEF Ended
<1>2. /\ Zero \in Counts /\ 0 \in Slot /\ gone \in Counts
      /\ Zero.sec \in [Slot -> 0..MaxAsked]
  <2>1. Zero.sec = [i \in Slot |-> 0] /\ 0 \in 0..MaxAsked
    BY TypedFacts DEF Zero
  <2> QED  BY <2>1, CountsFacts DEF Slot, Typed
<1>3. serv' \in [Workers -> Counts] /\ tmp' \in [Workers -> Counts]
      /\ (\A v \in Workers : v # w => serv'[v] = serv[v] /\ tmp'[v] = tmp[v])
      /\ serv'[w] = Zero /\ tmp'[w] = Zero
  BY <1>1, <1>2 DEF Typed
<1>4. now' \in [Workers -> Slot]
  BY <1>1, <1>2 DEF Typed
<1>5. asked' \in [Workers -> [Slot -> 0..MaxAsked]]
  BY <1>1, <1>2 DEF Typed
<1>6. /\ gone' \in Counts
      /\ gone'.gauge = gone.gauge + left.gauge /\ gone'.total = gone.total + left.total
      /\ \A i \in Slot : gone'.sec[i] = gone.sec[i] + left.sec[i]
  <2> DEFINE r == [i \in Slot |-> gone.sec[i] + left.sec[i]]
             g == gone.gauge + left.gauge
             t == gone.total + left.total
  <2>1. gone' = [gauge |-> g, total |-> t, sec |-> r]
    BY DEF Ended
  <2>2. g \in Int /\ t \in Int
    BY <1>2, CountsFacts
  <2>3. \A i \in Slot : gone.sec[i] \in Int /\ left.sec[i] \in Int
    BY <1>2, CountsFacts
  <2>4. r \in [Slot -> Int] /\ \A i \in Slot : r[i] = gone.sec[i] + left.sec[i]
    BY <2>3
  <2> HIDE DEF r, g, t
  <2>5. gone' \in Counts /\ gone'.gauge = g /\ gone'.total = t /\ gone'.sec = r
    BY <2>1, <2>2, <2>4 DEF Counts
  <2> QED  BY <2>4, <2>5 DEF g, t
<1> QED  BY <1>1, <1>3, <1>4, <1>5, <1>6 DEF Typed

-----------------------------------------------------------------------------
(* Each action keeps the sums. *)

\* The sums of the running workers.
Ring(i)  == SumFunctionOnSet(Second(tmp, i), up)
Open     == SumFunctionOnSet(Gauges(tmp), up)
Waiting  == SumFunctionOnSet(Totals(serv), up)

LEMMA SumFacts ==
  ASSUME IInv
  PROVE  /\ Open \in Int /\ Waiting \in Int /\ \A i \in Slot : Ring(i) \in Int
         /\ shm.gauge = gone.gauge + Open
         /\ shm.total + Waiting + gone.total = accepted
         /\ \A i \in Slot : shm.sec[i] = gone.sec[i] + Ring(i)
         /\ shm.gauge \in Int /\ shm.total \in Int /\ gone.gauge \in Int
         /\ gone.total \in Int /\ accepted \in Int
         /\ \A i \in Slot : shm.sec[i] \in Int /\ gone.sec[i] \in Int
<1>1. Typed /\ GaugeIsSum /\ RingIsSum /\ TotalIsSum
  BY DEF IInv
<1>2. tmp \in [Workers -> Counts] /\ serv \in [Workers -> Counts] /\ up \in SUBSET Workers
      /\ shm \in Counts /\ gone \in Counts /\ accepted \in Int
  BY <1>1 DEF Typed
<1>3. Open \in Int /\ Waiting \in Int /\ \A i \in Slot : Ring(i) \in Int
  BY <1>2, SumsAreInts DEF Open, Waiting, Ring
<1>4. /\ shm.gauge = gone.gauge + Open
      /\ shm.total + Waiting + gone.total = accepted
      /\ \A i \in Slot : shm.sec[i] = gone.sec[i] + Ring(i)
  BY <1>1 DEF GaugeIsSum, RingIsSum, TotalIsSum, Open, Waiting, Ring
<1>5. /\ shm.gauge \in Int /\ shm.total \in Int /\ gone.gauge \in Int
      /\ gone.total \in Int
      /\ \A i \in Slot : shm.sec[i] \in Int /\ gone.sec[i] \in Int
  BY <1>2, CountsFacts
<1> QED  BY <1>2, <1>3, <1>4, <1>5

\* Conversely, what is to be shown of the next state.
LEMMA SumsHold ==
  ASSUME Typed', Idle',
         shm'.gauge = gone'.gauge + Open',
         shm'.total + Waiting' + gone'.total = accepted',
         \A i \in Slot : shm'.sec[i] = gone'.sec[i] + Ring(i)'
  PROVE  IInv'
  BY DEF IInv, GaugeIsSum, RingIsSum, TotalIsSum, Open, Waiting, Ring

LEMMA ServKeeps ==
  ASSUME NEW w \in Workers, IInv, Connect(w) \/ Leave(w) \/ Request(w)
  PROVE  IInv'
<1>1. Typed /\ Idle
  BY DEF IInv
<1>2. Typed' /\ \A v \in Workers : v # w => serv'[v] = serv[v]
  BY <1>1, ServTyped
<1>3. /\ w \in up /\ UNCHANGED <<up, tmp, shm, gone>>
  BY DEF Connect, Leave, Request
<1>4. Idle'
  BY <1>1, <1>2, <1>3 DEF Idle
<1>5. Open' = Open /\ \A i \in Slot : Ring(i)' = Ring(i)
  BY <1>3 DEF Open, Ring
<1>6. serv \in [Workers -> Counts] /\ serv' \in [Workers -> Counts] /\ up \in SUBSET Workers
  BY <1>1, <1>2 DEF Typed
<1>7. Waiting' = Waiting + serv'[w].total - serv[w].total
  <2>1. SumFunctionOnSet(Totals(serv'), up) =
          SumFunctionOnSet(Totals(serv), up) + serv'[w].total - serv[w].total
    BY <1>2, <1>3, <1>6, WorkerChanges
  <2> QED  BY <1>3, <2>1 DEF Waiting
<1>8. PICK d \in Int : serv'[w].total = serv[w].total + d /\ accepted' = accepted + d
  <2>1. serv[w] \in Counts /\ serv[w].total \in Int /\ accepted \in Int
    BY <1>1, <1>6, CountsFacts DEF Typed
  <2>2. CASE Connect(w)
    <3>1. serv'[w].total = serv[w].total + 1 /\ accepted' = accepted + 1
      BY <1>6, <2>1, <2>2 DEF Connect, Counts
    <3> QED  BY <3>1
  <2>3. CASE Leave(w) \/ Request(w)
    <3>1. serv'[w].total = serv[w].total /\ accepted' = accepted
      BY <1>6, <2>1, <2>3 DEF Leave, Request, Counts
    <3> QED  BY <2>1, <3>1
  <2> QED  BY <2>2, <2>3
<1>9. shm'.total + Waiting' + gone'.total = accepted'
  <2>1. PICK t \in Int : t = serv[w].total
    BY <1>6, CountsFacts
  <2>2. Waiting' = Waiting + d
    BY <1>7, <1>8, <2>1, SumFacts
  <2>3. shm.total + (Waiting + d) + gone.total = accepted + d
    BY <1>8, SumFacts
  <2> QED  BY <1>3, <1>8, <2>2, <2>3
<1> QED  BY <1>2, <1>3, <1>4, <1>5, <1>9, SumFacts, SumsHold

LEMMA ClockKeeps ==
  ASSUME NEW w \in Workers, IInv, Clock(w)
  PROVE  IInv'
<1>1. Typed' /\ UNCHANGED <<up, serv, tmp, shm, accepted, gone>>
  BY ClockTyped DEF IInv, Clock
<1> QED  BY <1>1 DEF IInv, Idle, GaugeIsSum, RingIsSum, TotalIsSum

LEMMA SyncKeeps ==
  ASSUME NEW w \in Workers, IInv, Sync(w)
  PROVE  IInv'
<1> DEFINE k == Kept(w, serv[w])
<1>1. Typed /\ Idle
  BY DEF IInv
<1>2. /\ Typed' /\ w \in up /\ k \in Counts /\ shm' = Sums(w, serv[w])
      /\ serv' = [serv EXCEPT ![w] = k] /\ tmp' = [tmp EXCEPT ![w] = k]
      /\ UNCHANGED <<up, gone, accepted>>
  BY <1>1, SyncTyped DEF Sync
<1>3. /\ serv \in [Workers -> Counts] /\ tmp \in [Workers -> Counts]
      /\ serv' \in [Workers -> Counts] /\ tmp' \in [Workers -> Counts]
      /\ up \in SUBSET Workers /\ now \in [Workers -> Slot]
  BY <1>1, <1>2 DEF Typed
<1>4. serv[w] \in Counts /\ tmp[w] \in Counts
  BY <1>3
<1>5. k.gauge = serv[w].gauge /\ k.total = 0
  BY <1>3, <1>4, KeptFacts
<1>6. /\ shm'.gauge = shm.gauge + serv[w].gauge - tmp[w].gauge
      /\ shm'.total = shm.total + serv[w].total
      /\ \A i \in Slot : shm'.sec[i] = shm.sec[i] + k.sec[i] - tmp[w].sec[i]
  BY <1>1, <1>2, <1>4, SumsFacts
<1> HIDE DEF k
<1>7. /\ serv'[w] = k /\ tmp'[w] = k
      /\ \A v \in Workers : v # w => serv'[v] = serv[v] /\ tmp'[v] = tmp[v]
  BY <1>2, <1>3
<1>8. Idle'
  BY <1>1, <1>2, <1>7 DEF Idle
<1>9. /\ Open' = Open + k.gauge - tmp[w].gauge
      /\ \A i \in Slot : Ring(i)' = Ring(i) + k.sec[i] - tmp[w].sec[i]
  <2>1. /\ SumFunctionOnSet(Gauges(tmp'), up) =
             SumFunctionOnSet(Gauges(tmp), up) + tmp'[w].gauge - tmp[w].gauge
        /\ \A i \in Slot :
             SumFunctionOnSet(Second(tmp', i), up) =
               SumFunctionOnSet(Second(tmp, i), up) + tmp'[w].sec[i] - tmp[w].sec[i]
    <3>1. w \in up /\ \A v \in up : v # w => tmp'[v] = tmp[v]
      BY <1>2, <1>3, <1>7
    <3> QED  BY <1>3, <3>1, WorkerChanges
  <2> QED  BY <1>2, <1>7, <2>1 DEF Open, Ring
<1>10. Waiting' = Waiting + k.total - serv[w].total
  <2>1. SumFunctionOnSet(Totals(serv'), up) =
          SumFunctionOnSet(Totals(serv), up) + serv'[w].total - serv[w].total
    <3>1. w \in up /\ \A v \in up : v # w => serv'[v] = serv[v]
      BY <1>2, <1>3, <1>7
    <3> QED  BY <1>3, <3>1, WorkerChanges
  <2> QED  BY <1>2, <1>7, <2>1 DEF Waiting
<1>11. shm'.gauge = gone'.gauge + Open'
  <2>1. PICK a \in Int, b \in Int : a = serv[w].gauge /\ b = tmp[w].gauge
    BY <1>4, CountsFacts
  <2>2. shm'.gauge = shm.gauge + a - b /\ Open' = Open + a - b
    BY <1>5, <1>6, <1>9, <2>1
  <2>3. shm.gauge + a - b = gone.gauge + (Open + a - b)
    BY <2>1, SumFacts
  <2> QED  BY <1>2, <2>2, <2>3
<1>12. shm'.total + Waiting' + gone'.total = accepted'
  <2>1. PICK a \in Int : a = serv[w].total
    BY <1>4, CountsFacts
  <2>2. shm'.total = shm.total + a /\ Waiting' = Waiting + 0 - a
    BY <1>5, <1>6, <1>10, <2>1
  <2>3. (shm.total + a) + (Waiting + 0 - a) + gone.total = accepted
    BY <2>1, SumFacts
  <2> QED  BY <1>2, <2>2, <2>3
<1>13. ASSUME NEW i \in Slot
       PROVE  shm'.sec[i] = gone'.sec[i] + Ring(i)'
  <2>1. PICK a \in Int, b \in Int : a = k.sec[i] /\ b = tmp[w].sec[i]
    BY <1>2, <1>4, CountsFacts
  <2>2. shm'.sec[i] = shm.sec[i] + a - b /\ Ring(i)' = Ring(i) + a - b
    BY <1>6, <1>9, <2>1
  <2>3. shm.sec[i] + a - b = gone.sec[i] + (Ring(i) + a - b)
    BY <2>1, SumFacts
  <2> QED  BY <1>2, <2>2, <2>3
<1> QED  BY <1>2, <1>8, <1>11, <1>12, <1>13, SumsHold

\* A worker that ends takes its share out of the sums, or leaves it to gone.
LEMMA EndKeeps ==
  ASSUME NEW w \in Workers, IInv, w \in up, NEW left \in Counts, Ended(w, left),
         shm' \in Counts,
         shm'.gauge = shm.gauge - tmp[w].gauge + left.gauge,
         shm'.total + left.total = shm.total + serv[w].total,
         \A i \in Slot : shm'.sec[i] = shm.sec[i] - tmp[w].sec[i] + left.sec[i]
  PROVE  IInv'
<1>1. Typed /\ Idle
  BY DEF IInv
<1>2. /\ Typed'
      /\ \A v \in Workers : v # w => serv'[v] = serv[v] /\ tmp'[v] = tmp[v]
      /\ serv'[w] = Zero /\ tmp'[w] = Zero
      /\ gone'.gauge = gone.gauge + left.gauge /\ gone'.total = gone.total + left.total
      /\ \A i \in Slot : gone'.sec[i] = gone.sec[i] + left.sec[i]
  BY <1>1, EndedTyped
<1>3. up' = up \ {w} /\ accepted' = accepted
  BY DEF Ended
<1>4. /\ serv \in [Workers -> Counts] /\ tmp \in [Workers -> Counts]
      /\ serv' \in [Workers -> Counts] /\ tmp' \in [Workers -> Counts]
      /\ up \in SUBSET Workers
  BY <1>1, <1>2 DEF Typed
<1>5. serv[w] \in Counts /\ tmp[w] \in Counts
  BY <1>4
<1>6. Idle'
  BY <1>1, <1>2, <1>3 DEF Idle
<1>7. /\ Open' = Open - tmp[w].gauge
      /\ \A i \in Slot : Ring(i)' = Ring(i) - tmp[w].sec[i]
  <2>1. \A v \in up : v # w => tmp'[v] = tmp[v]
    BY <1>2, <1>4
  <2>2. /\ SumFunctionOnSet(Gauges(tmp'), up \ {w}) =
             SumFunctionOnSet(Gauges(tmp), up) - tmp[w].gauge
        /\ \A i \in Slot :
             SumFunctionOnSet(Second(tmp', i), up \ {w}) =
               SumFunctionOnSet(Second(tmp, i), up) - tmp[w].sec[i]
    BY <1>4, <2>1, WorkerEnds
  <2> QED  BY <1>3, <2>2 DEF Open, Ring
<1>8. Waiting' = Waiting - serv[w].total
  <2>1. \A v \in up : v # w => serv'[v] = serv[v]
    BY <1>2, <1>4
  <2>2. SumFunctionOnSet(Totals(serv'), up \ {w}) =
          SumFunctionOnSet(Totals(serv), up) - serv[w].total
    BY <1>4, <2>1, WorkerEnds
  <2> QED  BY <1>3, <2>2 DEF Waiting
<1>9. shm'.gauge = gone'.gauge + Open'
  <2>1. PICK a \in Int, b \in Int : a = left.gauge /\ b = tmp[w].gauge
    BY <1>5, CountsFacts
  <2>2. PICK p \in Int, q \in Int, r \in Int :
          p = shm.gauge /\ q = Open /\ r = gone.gauge /\ p = r + q
    BY SumFacts
  <2>3. shm'.gauge = p - b + a /\ Open' = q - b /\ gone'.gauge = r + a
    BY <1>2, <1>7, <2>1, <2>2
  <2>4. p - b + a = (r + a) + (q - b)
    BY <2>2
  <2> QED  BY <2>3, <2>4
<1>10. shm'.total + Waiting' + gone'.total = accepted'
  <2>1. PICK a \in Int, b \in Int, t \in Int :
          a = left.total /\ b = serv[w].total /\ t = shm'.total
    BY <1>5, CountsFacts
  <2>2. PICK p \in Int, q \in Int, r \in Int :
          p = shm.total /\ q = Waiting /\ r = gone.total /\ p + q + r = accepted
    BY SumFacts
  <2>3. t + a = p + b
    BY <2>1, <2>2
  <2>4. t + (q - b) + (r + a) = p + q + r
    BY <2>3
  <2>5. Waiting' = q - b /\ gone'.total = r + a
    BY <1>2, <1>8, <2>1, <2>2
  <2> QED  BY <1>3, <2>1, <2>2, <2>4, <2>5
<1>11. ASSUME NEW i \in Slot
       PROVE  shm'.sec[i] = gone'.sec[i] + Ring(i)'
  <2>1. PICK a \in Int, b \in Int : a = left.sec[i] /\ b = tmp[w].sec[i]
    BY <1>5, CountsFacts
  <2>2. /\ shm'.sec[i] = shm.sec[i] - b + a /\ Ring(i)' = Ring(i) - b
        /\ gone'.sec[i] = gone.sec[i] + a
    BY <1>2, <1>7, <2>1
  <2>3. shm.sec[i] - b + a = (gone.sec[i] + a) + (Ring(i) - b)
    BY <2>1, SumFacts
  <2> QED  BY <2>2, <2>3
<1> QED  BY <1>2, <1>6, <1>9, <1>10, <1>11, SumsHold

LEMMA ExitKeeps ==
  ASSUME NEW w \in Workers, IInv, Exit(w)
  PROVE  IInv'
<1> DEFINE last == [serv[w] EXCEPT !.gauge = 0]
           k == Kept(w, last)
<1>1. Typed /\ w \in up /\ shm' = Sums(w, last) /\ Ended(w, k)
  BY DEF IInv, Exit
<1>2. serv[w] \in Counts /\ tmp[w] \in Counts /\ now \in [Workers -> Slot]
  BY <1>1, TypedFacts DEF Typed
<1>3. last \in Counts /\ last.gauge = 0 /\ last.total = serv[w].total
  <2>1. 0 \in Int
    OBVIOUS
  <2> QED  BY <1>2, <2>1 DEF Counts
<1> HIDE DEF last
<1>4. k \in Counts /\ k.gauge = 0 /\ k.total = 0
  BY <1>2, <1>3, KeptFacts
<1>5. /\ shm' \in Counts /\ shm'.gauge = shm.gauge + 0 - tmp[w].gauge
      /\ shm'.total = shm.total + serv[w].total
      /\ \A i \in Slot : shm'.sec[i] = shm.sec[i] + k.sec[i] - tmp[w].sec[i]
  BY <1>1, <1>3, SumsFacts
<1> HIDE DEF k
<1>6. shm'.gauge = shm.gauge - tmp[w].gauge + k.gauge
  <2>1. PICK a \in Int, b \in Int : a = shm.gauge /\ b = tmp[w].gauge
    BY <1>2, SumFacts, CountsFacts
  <2>2. a + 0 - b = a - b + 0
    BY <2>1
  <2> QED  BY <1>4, <1>5, <2>1, <2>2
<1>7. shm'.total + k.total = shm.total + serv[w].total
  <2>1. shm'.total \in Int
    BY <1>5, CountsFacts
  <2> QED  BY <1>4, <1>5, <2>1
<1>8. ASSUME NEW i \in Slot
      PROVE  shm'.sec[i] = shm.sec[i] - tmp[w].sec[i] + k.sec[i]
  <2>1. PICK a \in Int, b \in Int, c \in Int :
          a = shm.sec[i] /\ b = tmp[w].sec[i] /\ c = k.sec[i]
    BY <1>2, <1>4, SumFacts, CountsFacts
  <2>2. a + c - b = a - b + c
    BY <2>1
  <2> QED  BY <1>5, <2>1, <2>2
<1> QED  BY <1>1, <1>4, <1>5, <1>6, <1>7, <1>8, EndKeeps

LEMMA CrashKeeps ==
  ASSUME NEW w \in Workers, IInv, Crash(w)
  PROVE  IInv'
<1> DEFINE left == [tmp[w] EXCEPT !.total = serv[w].total]
<1>1. Typed /\ w \in up /\ shm' = shm /\ Ended(w, left)
  BY DEF IInv, Crash
<1>2. serv[w] \in Counts /\ tmp[w] \in Counts /\ shm \in Counts
  BY <1>1, TypedFacts DEF Typed
<1>3. /\ left \in Counts /\ left.gauge = tmp[w].gauge /\ left.total = serv[w].total
      /\ left.sec = tmp[w].sec
  <2>1. serv[w].total \in Int
    BY <1>2, CountsFacts
  <2> QED  BY <1>2, <2>1 DEF Counts
<1> HIDE DEF left
<1>4. shm'.gauge = shm.gauge - tmp[w].gauge + left.gauge
  <2>1. PICK a \in Int, b \in Int : a = shm.gauge /\ b = tmp[w].gauge
    BY <1>2, CountsFacts
  <2>2. a = a - b + b
    BY <2>1
  <2> QED  BY <1>1, <1>3, <2>1, <2>2
<1>5. shm'.total + left.total = shm.total + serv[w].total
  BY <1>1, <1>3
<1>6. ASSUME NEW i \in Slot
      PROVE  shm'.sec[i] = shm.sec[i] - tmp[w].sec[i] + left.sec[i]
  <2>1. PICK a \in Int, b \in Int : a = shm.sec[i] /\ b = tmp[w].sec[i]
    BY <1>2, CountsFacts
  <2>2. a = a - b + b
    BY <2>1
  <2> QED  BY <1>1, <1>3, <2>1, <2>2
<1>7. shm' \in Counts
  BY <1>1, <1>2
<1> QED  BY <1>1, <1>3, <1>4, <1>5, <1>6, <1>7, EndKeeps

LEMMA StartKeeps ==
  ASSUME NEW w \in Workers, IInv, Start(w)
  PROVE  IInv'
<1>1. /\ w \notin up /\ starts < MaxStarts /\ starts' = starts + 1
      /\ up' = up \cup {w} /\ due' = due \cup {w}
      /\ UNCHANGED <<serv, tmp, now, shm, accepted, asked, gone>>
  BY DEF Start
<1>2. Typed /\ Idle
  BY DEF IInv
<1>3. Typed'
  <2>1. starts' \in 0..MaxStarts
    BY <1>1, <1>2, TypedFacts
  <2> QED  BY <1>1, <1>2, <2>1 DEF Typed
<1>4. Idle'
  BY <1>1, <1>2 DEF Idle
<1>5. /\ tmp \in [Workers -> Counts] /\ serv \in [Workers -> Counts]
      /\ up \in SUBSET Workers /\ w \in Workers \ up /\ serv[w] = Zero /\ tmp[w] = Zero
  BY <1>1, <1>2 DEF Typed, Idle
<1>6. /\ SumFunctionOnSet(Gauges(tmp), up \cup {w}) = SumFunctionOnSet(Gauges(tmp), up)
      /\ \A i \in Slot : SumFunctionOnSet(Second(tmp, i), up \cup {w}) =
                           SumFunctionOnSet(Second(tmp, i), up)
      /\ SumFunctionOnSet(Totals(serv), up \cup {w}) = SumFunctionOnSet(Totals(serv), up)
  BY <1>5, WorkerStarts
<1>7. Open' = Open /\ Waiting' = Waiting /\ \A i \in Slot : Ring(i)' = Ring(i)
  BY <1>1, <1>6 DEF Open, Waiting, Ring
<1> QED  BY <1>1, <1>3, <1>4, <1>7, SumFacts, SumsHold

LEMMA InitIInv == Init => IInv
<1> SUFFICES ASSUME Init
             PROVE  IInv
  OBVIOUS
<1>1. /\ up = {} /\ due = {} /\ shm = Zero /\ gone = Zero /\ starts = 0 /\ accepted = 0
      /\ serv = [w \in Workers |-> Zero] /\ tmp = [w \in Workers |-> Zero]
      /\ now = [w \in Workers |-> 0] /\ asked = [w \in Workers |-> Zero.sec]
  BY DEF Init
<1>2. {MaxStarts, MaxEvents, MaxAsked} \subseteq Nat /\ IsFiniteSet(Workers)
  BY BoundsAssumption, WorkersAssumption DEF BoundsAssumption, WorkersAssumption
<1>3. Zero \in Counts /\ 0 \in Slot /\ Zero.sec \in [Slot -> 0..MaxAsked]
  <2>1. 0 \in 0..MaxAsked
    BY <1>2
  <2>2. Zero.sec \in [Slot -> 0..MaxAsked]
    BY <2>1 DEF Zero
  <2> QED  BY <2>2, CountsFacts DEF Slot
<1>4. 0 \in 0..MaxStarts /\ 0 \in 0..MaxEvents
  BY <1>2
<1>5. Typed
  BY <1>1, <1>3, <1>4 DEF Typed
<1>6. Idle
  BY <1>1 DEF Idle
<1>7. /\ SumFunctionOnSet(Gauges(tmp), {}) = 0 /\ SumFunctionOnSet(Totals(serv), {}) = 0
      /\ \A i \in Slot : SumFunctionOnSet(Second(tmp, i), {}) = 0
  <2>1. tmp \in [Workers -> Counts] /\ serv \in [Workers -> Counts]
    BY <1>5 DEF Typed
  <2>2. {} \in SUBSET Workers
    OBVIOUS
  <2> QED  BY <1>2, <2>1, <2>2, CounterFunctions, SumGrows
<1>8. GaugeIsSum /\ RingIsSum /\ TotalIsSum
  <2>1. Zero.gauge = 0 /\ Zero.total = 0 /\ \A i \in Slot : Zero.sec[i] = 0
    BY CountsFacts
  <2> QED  BY <1>1, <1>7, <2>1 DEF GaugeIsSum, RingIsSum, TotalIsSum
<1> QED  BY <1>5, <1>6, <1>8 DEF IInv

LEMMA NextIInv == IInv /\ [Next]_vars => IInv'
<1> SUFFICES ASSUME IInv, [Next]_vars
             PROVE  IInv'
  OBVIOUS
<1>1. CASE Next
  <2>1. PICK w \in Workers : \/ Connect(w) \/ Leave(w) \/ Request(w)
                             \/ Clock(w) \/ Sync(w) \/ Exit(w) \/ Crash(w) \/ Start(w)
    BY <1>1 DEF Next
  <2> QED  BY <2>1, ServKeeps, ClockKeeps, SyncKeeps, ExitKeeps, CrashKeeps, StartKeeps
<1>2. CASE UNCHANGED vars
  BY <1>2 DEF vars, IInv, Typed, Idle, GaugeIsSum, RingIsSum, TotalIsSum
<1> QED  BY <1>1, <1>2

-----------------------------------------------------------------------------
(* The rate of requests, where no turn of the event loop takes more than a  *)
(* second.  The slot of the second that begins is stale until the sync.     *)

OwnRate(w) == \A i \in Slot : (i # now[w] \/ w \notin due) =>
  serv[w].sec[i] =< asked[w][i] /\ tmp[w].sec[i] =< asked[w][i]

Rates == \A w \in up : OwnRate(w)

\* The step of one worker leaves the others' rates alone.
LEMMA OthersRates ==
  ASSUME Rates, NEW w \in Workers,
         \A v \in Workers : v # w =>
           /\ serv'[v] = serv[v] /\ tmp'[v] = tmp[v] /\ asked'[v] = asked[v]
           /\ now'[v] = now[v]
           /\ (v \in up' => v \in up) /\ (v \in due => v \in due'),
         up' \subseteq Workers, due \ {w} = due' \ {w}, w \in up' => OwnRate(w)'
  PROVE  Rates'
<1>1. ASSUME NEW v \in up', v # w
      PROVE  OwnRate(v)'
  <2>1. /\ serv'[v] = serv[v] /\ tmp'[v] = tmp[v] /\ asked'[v] = asked[v]
        /\ now'[v] = now[v] /\ v \in up /\ (v \in due' <=> v \in due)
    BY <1>1
  <2>2. OwnRate(v)
    BY <2>1 DEF Rates
  <2> QED  BY <2>1, <2>2 DEF OwnRate
<1> QED  BY <1>1 DEF Rates

LEMMA RequestRates ==
  ASSUME NEW w \in Workers, Typed, Rates, Request(w)
  PROVE  Rates'
<1> DEFINE d == [serv[w].sec EXCEPT ![now[w]] = @ + 1]
           e == [asked[w] EXCEPT ![now[w]] = @ + 1]
<1>1. /\ w \in up /\ serv' = [serv EXCEPT ![w] = [serv[w] EXCEPT !.sec = d]]
      /\ asked' = [asked EXCEPT ![w] = e]
      /\ UNCHANGED <<up, tmp, now, due, shm, starts, accepted, gone>>
  BY DEF Request
<1>2. /\ serv \in [Workers -> Counts] /\ asked \in [Workers -> [Slot -> 0..MaxAsked]]
      /\ serv[w] \in Counts /\ tmp[w] \in Counts /\ now[w] \in Slot
      /\ asked[w] \in [Slot -> 0..MaxAsked]
  BY TypedFacts DEF Typed
<1>3. /\ serv[w].sec \in [Slot -> Int]
      /\ \A i \in Slot : serv[w].sec[i] \in Int /\ tmp[w].sec[i] \in Int /\ asked[w][i] \in Int
  BY <1>2, CountsFacts
<1>4. \A i \in Slot : /\ d[i] = IF i = now[w] THEN serv[w].sec[i] + 1 ELSE serv[w].sec[i]
                      /\ e[i] = IF i = now[w] THEN asked[w][i] + 1 ELSE asked[w][i]
  <2> HIDE DEF Slot
  <2> QED  BY <1>2, <1>3
<1> HIDE DEF d, e
<1>5. serv'[w].sec = d /\ asked'[w] = e
  BY <1>1, <1>2 DEF Counts
<1>6. OwnRate(w)'
  <2>1. OwnRate(w)
    BY <1>1 DEF Rates
  <2>2. ASSUME NEW i \in Slot, i # now[w] \/ w \notin due
        PROVE  d[i] =< e[i] /\ tmp[w].sec[i] =< e[i]
    <3>1. PICK a \in Int, b \in Int, c \in Int :
            /\ a = serv[w].sec[i] /\ b = asked[w][i] /\ c = tmp[w].sec[i]
            /\ a =< b /\ c =< b
      BY <1>3, <2>1, <2>2 DEF OwnRate
    <3>2. CASE i = now[w]
      <4>1. d[i] = a + 1 /\ e[i] = b + 1
        BY <1>4, <3>1, <3>2
      <4>2. a + 1 =< b + 1 /\ c =< b + 1
        BY <3>1
      <4> QED  BY <3>1, <4>1, <4>2
    <3>3. CASE i # now[w]
      <4>1. d[i] = a /\ e[i] = b
        BY <1>4, <3>1, <3>3
      <4> QED  BY <3>1, <4>1
    <3> QED  BY <3>2, <3>3
  <2> QED  BY <1>1, <1>5, <2>2 DEF OwnRate
<1>7. \A v \in Workers : v # w => serv'[v] = serv[v] /\ asked'[v] = asked[v]
  BY <1>1, <1>2
<1> QED  BY <1>1, <1>6, <1>7, OthersRates DEF Typed

LEMMA GaugeRates ==
  ASSUME NEW w \in Workers, Typed, Rates, Connect(w) \/ Leave(w)
  PROVE  Rates'
<1>1. /\ w \in up /\ UNCHANGED <<up, tmp, now, due, shm, starts, asked, gone>>
      /\ \A v \in Workers : v # w => serv'[v] = serv[v]
  BY ServTyped DEF Connect, Leave
<1>2. serv'[w].sec = serv[w].sec
  <2>1. serv \in [Workers -> Counts] /\ serv[w] \in Counts
    BY TypedFacts DEF Typed
  <2>2. CASE Connect(w)
    BY <2>1, <2>2 DEF Connect, Counts
  <2>3. CASE Leave(w)
    BY <2>1, <2>3 DEF Leave, Counts
  <2> QED  BY <2>2, <2>3
<1>3. OwnRate(w)'
  <2>1. OwnRate(w)
    BY <1>1 DEF Rates
  <2> QED  BY <1>1, <1>2, <2>1 DEF OwnRate
<1> QED  BY <1>1, <1>3, OthersRates DEF Typed

\* The second of the clock moves by one: only the slot it reaches is stale.
LEMMA ClockRates ==
  ASSUME NEW w \in Workers, Typed, Rates, Clock(w), MaxJump =< 1
  PROVE  Rates'
<1>1. /\ w \in up /\ w \notin due /\ due' = due \cup {w}
      /\ UNCHANGED <<up, serv, tmp, shm, starts, accepted, gone>>
  BY DEF Clock
<1>2. PICK n \in 1..MaxJump :
        /\ now' = [now EXCEPT ![w] = (@ + n) % 5]
        /\ asked' = [asked EXCEPT ![w] =
             [i \in Slot |-> IF \E k \in 1..n : i = (now[w] + k) % 5 THEN 0 ELSE @[i]]]
  BY DEF Clock
<1>3. n = 1
  <2>1. MaxJump \in Nat
    BY BoundsAssumption DEF BoundsAssumption
  <2> QED  BY <2>1
<1>4. /\ now \in [Workers -> Slot] /\ asked \in [Workers -> [Slot -> 0..MaxAsked]]
      /\ now[w] \in Slot
  BY TypedFacts DEF Typed
<1>5. \A i \in Slot : i # now'[w] => asked'[w][i] = asked[w][i]
  <2>1. now'[w] = (now[w] + 1) % 5
    BY <1>2, <1>3, <1>4
  <2>2. \A i \in Slot : asked'[w][i] =
          IF \E k \in 1..1 : i = (now[w] + k) % 5 THEN 0 ELSE asked[w][i]
    BY <1>2, <1>3, <1>4
  <2>3. \A k \in 1..1 : k = 1
    OBVIOUS
  <2> QED  BY <2>1, <2>2, <2>3
<1>6. OwnRate(w)'
  <2>1. OwnRate(w)
    BY <1>1 DEF Rates
  <2> QED  BY <1>1, <1>5, <2>1 DEF OwnRate
<1>7. \A v \in Workers : v # w => now'[v] = now[v] /\ asked'[v] = asked[v]
  BY <1>2, <1>4
<1> QED  BY <1>1, <1>6, <1>7, OthersRates DEF Typed

\* A sync clears the stale slot.
LEMMA SyncRates ==
  ASSUME NEW w \in Workers, Typed, Rates, Sync(w)
  PROVE  Rates'
<1> DEFINE k == Kept(w, serv[w])
<1>1. /\ w \in up /\ due' = due \ {w} /\ UNCHANGED <<up, now, starts, accepted, asked, gone>>
  BY DEF Sync
<1>2. serv' = [serv EXCEPT ![w] = k] /\ tmp' = [tmp EXCEPT ![w] = k]
  BY SyncTyped
<1>3. /\ serv \in [Workers -> Counts] /\ tmp \in [Workers -> Counts]
      /\ now \in [Workers -> Slot] /\ serv[w] \in Counts
      /\ asked[w] \in [Slot -> 0..MaxAsked] /\ up \subseteq Workers
  BY TypedFacts DEF Typed
<1>4. \A i \in Slot : k.sec[i] = IF i = now[w] THEN 0 ELSE serv[w].sec[i]
  BY <1>3, KeptFacts
<1> HIDE DEF k
<1>5. OwnRate(w)'
  <2>1. OwnRate(w)
    BY <1>1 DEF Rates
  <2>2. ASSUME NEW i \in Slot
        PROVE  k.sec[i] =< asked[w][i]
    <3>1. CASE i = now[w]
      <4>1. asked[w][i] \in 0..MaxAsked
        BY <1>3
      <4> QED  BY <1>4, <3>1, <4>1
    <3>2. CASE i # now[w]
      BY <1>4, <2>1, <3>2 DEF OwnRate
    <3> QED  BY <3>1, <3>2
  <2>3. serv'[w] = k /\ tmp'[w] = k /\ asked'[w] = asked[w]
    BY <1>1, <1>2, <1>3
  <2> QED  BY <2>2, <2>3 DEF OwnRate
<1>6. \A v \in Workers : v # w => serv'[v] = serv[v] /\ tmp'[v] = tmp[v]
  BY <1>2, <1>3
<1> QED  BY <1>1, <1>3, <1>5, <1>6, OthersRates

LEMMA EndRates ==
  ASSUME NEW w \in Workers, Typed, Rates, Exit(w) \/ Crash(w)
  PROVE  Rates'
<1>1. PICK left : Ended(w, left)
  BY DEF Exit, Crash
<1>2. /\ up' = up \ {w} /\ due' = due \ {w}
      /\ serv' = [serv EXCEPT ![w] = Zero] /\ tmp' = [tmp EXCEPT ![w] = Zero]
      /\ now' = [now EXCEPT ![w] = 0] /\ asked' = [asked EXCEPT ![w] = Zero.sec]
  BY <1>1 DEF Ended
<1>3. /\ serv \in [Workers -> Counts] /\ tmp \in [Workers -> Counts]
      /\ now \in [Workers -> Slot] /\ asked \in [Workers -> [Slot -> 0..MaxAsked]]
      /\ up \subseteq Workers
  BY DEF Typed
<1>4. \A v \in Workers : v # w => /\ serv'[v] = serv[v] /\ tmp'[v] = tmp[v]
                                  /\ now'[v] = now[v] /\ asked'[v] = asked[v]
  BY <1>2, <1>3
<1> QED  BY <1>2, <1>3, <1>4, OthersRates

LEMMA StartRates ==
  ASSUME NEW w \in Workers, Typed, Idle, Rates, Start(w)
  PROVE  Rates'
<1>1. /\ w \notin up /\ up' = up \cup {w} /\ due' = due \cup {w}
      /\ UNCHANGED <<serv, tmp, now, shm, accepted, asked, gone>>
  BY DEF Start
<1>2. OwnRate(w)'
  <2>1. serv[w] = Zero /\ tmp[w] = Zero
    BY <1>1 DEF Idle
  <2>2. \A i \in Slot : serv[w].sec[i] = 0 /\ tmp[w].sec[i] = 0
    BY <2>1, CountsFacts
  <2>3. \A i \in Slot : asked[w][i] \in 0..MaxAsked
    BY TypedFacts
  <2>4. \A i \in Slot : 0 =< asked[w][i]
    BY <2>3
  <2> QED  BY <1>1, <2>2, <2>4 DEF OwnRate
<1> QED  BY <1>1, <1>2, OthersRates DEF Typed

LEMMA NextRates == MaxJump =< 1 /\ IInv /\ Rates /\ [Next]_vars => Rates'
<1> SUFFICES ASSUME MaxJump =< 1, IInv, Rates, [Next]_vars
             PROVE  Rates'
  OBVIOUS
<1>1. CASE Next
  <2>1. PICK w \in Workers : \/ Connect(w) \/ Leave(w) \/ Request(w)
                             \/ Clock(w) \/ Sync(w) \/ Exit(w) \/ Crash(w) \/ Start(w)
    BY <1>1 DEF Next
  <2> QED  BY <2>1, GaugeRates, RequestRates, ClockRates, SyncRates, EndRates, StartRates
              DEF IInv
<1>2. CASE UNCHANGED vars
  BY <1>2 DEF vars, Rates, OwnRate
<1> QED  BY <1>1, <1>2

-----------------------------------------------------------------------------
(* The theorems. *)

THEOREM StatusInOrder == Spec => []IInv
  BY InitIInv, NextIInv, PTL DEF Spec

\* Every counter has its type, and only workers that run have something to sync:
\* TypeOK.
THEOREM TypeCorrect == Spec => []TypeOK
<1>1. IInv => TypeOK
  BY DEF IInv, Typed, TypeOK
<1> QED  BY <1>1, StatusInOrder, PTL

\* For any number of workers that start, end and are killed at any moment, the
\* published gauge is what the running ones have published and what the killed ones
\* had: GaugeIsSum.
THEOREM GaugeAddsUp == Spec => []GaugeIsSum
<1>1. IInv => GaugeIsSum
  BY DEF IInv
<1> QED  BY <1>1, StatusInOrder, PTL

\* So is every second of the ring of requests, with what workers that ended had
\* published for it: RingIsSum.
THEOREM RingAddsUp == Spec => []RingIsSum
<1>1. IInv => RingIsSum
  BY DEF IInv
<1> QED  BY <1>1, StatusInOrder, PTL

\* No accepted connection is published twice, or forgotten by a worker that lives
\* or exits: TotalIsSum.
THEOREM TotalAddsUp == Spec => []TotalIsSum
<1>1. IInv => TotalIsSum
  BY DEF IInv
<1> QED  BY <1>1, StatusInOrder, PTL

\* If no turn of a worker's event loop takes more than a second, a worker never
\* publishes for a second more requests than it got in it, however often it is
\* started again: RateNotOver.
THEOREM RateNeverOver ==
  ASSUME MaxJump =< 1
  PROVE  Spec => []RateNotOver
<1>1. Init => Rates
  BY DEF Init, Rates
<1>2. Rates => RateNotOver
  BY DEF Rates, OwnRate, RateNotOver
<1>3. IInv /\ Rates /\ [Next]_vars => Rates'
  BY NextRates
<1> QED  BY <1>1, <1>2, <1>3, StatusInOrder, PTL DEF Spec

=============================================================================
