-------------------------- MODULE WindowingProofs ---------------------------
(***************************************************************************)
(* That windowing_t answers as it should, proved for vectors of any length *)
(* and windows of any size, from the geometry up:                          *)
(*                                                                         *)
(*   build_tree    the endpoints ascend, the elementary intervals follow   *)
(*                 one another, every level spans the same range, and what *)
(*                 the code asserts of the tree holds;                     *)
(*   the order     segments that cannot be compared touch, and of two that *)
(*                 can, compare_segments tells which is below at every x   *)
(*                 both cross: the sorted lists are monotone;              *)
(*   query         lower_bound bisects a monotone list rightly, the path   *)
(*                 to x meets a node that stores each segment above x: the *)
(*                 query finds what the vertical crosses;                  *)
(*   the window    what passes through it crosses one of three sides or    *)
(*                 ends in it, and what crosses a side meets it.           *)
(*                                                                         *)
(* IInv then says what the constructor has built and the query has found.  *)
(***************************************************************************)
EXTENDS Windowing, Inductions, SequenceTheorems, FiniteSetTheorems

-----------------------------------------------------------------------------
(* The values of recursive functions. *)

(* Recursion, from 1 on. *)
Iterates(f, v, step, n) == f[1] = v /\ \A k \in 2 .. n : f[k] = step[f[k - 1]]

LEMMA Iteration ==
  ASSUME NEW V, NEW v \in V, NEW n \in Nat \ {0}, NEW step \in [V -> V]
  PROVE  \E f \in [1 .. n -> V] : Iterates(f, v, step, n)
<1> DEFINE steps == [k \in 1 .. n - 1 |-> step]
<1>1. n - 1 \in Nat /\ steps \in [1 .. n - 1 -> [V -> V]]
  OBVIOUS
<1> HIDE DEF steps
<1>2. PICK g \in [0 .. n - 1 -> V] : Follows(g, v, steps, n - 1)
  BY <1>1, Recursion
<1> DEFINE f == [k \in 1 .. n |-> g[k - 1]]
<1>3. \A k \in 1 .. n : k - 1 \in 0 .. n - 1
  OBVIOUS
<1>4. f \in [1 .. n -> V]
  BY <1>3
<1>5. f[1] = v
  BY <1>2 DEF Follows
<1>6. ASSUME NEW k \in 2 .. n PROVE f[k] = step[f[k - 1]]
  <2>1. k \in 1 .. n /\ k - 1 \in 1 .. n /\ k - 1 \in 1 .. n - 1
    OBVIOUS
  <2>2. g[k - 1] = steps[k - 1][g[(k - 1) - 1]] /\ steps[k - 1] = step
    BY <1>2, <2>1 DEF Follows, steps
  <2> QED  BY <2>1, <2>2
<1>7. Iterates(f, v, step, n)
  BY <1>5, <1>6 DEF Iterates
<1> QED  BY <1>4, <1>7

-----------------------------------------------------------------------------
(* Numbers and ranges. *)

LEMMA LeastOfFinite ==
  ASSUME NEW S, S \subseteq Int, IsFiniteSet(S), S # {}
  PROVE  Min(S) \in S /\ \A c \in S : Min(S) <= c
<1> DEFINE HasLeast(T) == \E m \in T : \A c \in T : m <= c
           N == {k \in Nat : \A T \in SUBSET S : Cardinality(T) = k + 1 => HasLeast(T)}
<1>1. \A T \in SUBSET S : IsFiniteSet(T) /\ Cardinality(T) \in Nat
  BY FS_Subset, FS_CardinalityType
<1>2. 0 \in N
  <2> SUFFICES ASSUME NEW T \in SUBSET S, Cardinality(T) = 1 PROVE HasLeast(T)
    OBVIOUS
  <2>0. T # {} /\ IsFiniteSet(T)
    BY <1>1, FS_EmptySet
  <2>1. PICK m \in T : TRUE
    BY <2>0
  <2>2. T \ {m} = {}
    <3>1. IsFiniteSet(T \ {m}) /\ Cardinality(T \ {m}) = 0
      BY <2>0, <2>1, FS_RemoveElement
    <3> QED  BY <3>1, FS_EmptySet
  <2>3. \A c \in T : c = m
    BY <2>2
  <2> QED  BY <2>1, <2>3
<1>3. ASSUME NEW k \in Nat, k \in N PROVE k + 1 \in N
  <2> SUFFICES ASSUME NEW T \in SUBSET S, Cardinality(T) = (k + 1) + 1 PROVE HasLeast(T)
    OBVIOUS
  <2>0. T # {}
    BY FS_EmptySet
  <2>1. PICK x \in T : TRUE
    BY <2>0
  <2>2. T \ {x} \in SUBSET S /\ Cardinality(T \ {x}) = k + 1
    BY <1>1, FS_RemoveElement
  <2>3. PICK m \in T \ {x} : \A c \in T \ {x} : m <= c
    BY <1>3, <2>2
  <2>4. x \in Int /\ m \in Int /\ \A c \in T : c \in Int
    OBVIOUS
  <2>5. CASE m <= x
    BY <2>3, <2>5
  <2>6. CASE x <= m
    BY <2>3, <2>4, <2>6
  <2> QED  BY <2>4, <2>5, <2>6
<1> HIDE DEF N
<1>4. Nat \subseteq N
  BY <1>2, <1>3, Induction
<1>5. Cardinality(S) \in Nat /\ Cardinality(S) # 0
  BY <1>1, FS_EmptySet
<1>6. Cardinality(S) - 1 \in N /\ (Cardinality(S) - 1) + 1 = Cardinality(S)
  BY <1>4, <1>5
<1>7. HasLeast(S)
  BY <1>6 DEF N
<1> QED  BY <1>7 DEF Min

LEMMA Extremes ==
  ASSUME NEW a \in Int, NEW b \in Int
  PROVE  /\ Min({a, b}) = IF a <= b THEN a ELSE b
         /\ Max({a, b}) = IF a <= b THEN b ELSE a
<1>1. CASE a <= b
  BY <1>1 DEF Min, Max
<1>2. CASE b < a
  BY <1>2 DEF Min, Max
<1> QED  BY <1>1, <1>2

Segment == (Int \X Int) \X (Int \X Int)

LEMMA Ends2 ==
  ASSUME NEW s \in Segment
  PROVE  /\ s = <<s[1], s[2]>>
         /\ \A e \in {1, 2} : s[e] = <<s[e][1], s[e][2]>> /\ s[e][1] \in Int /\ s[e][2] \in Int
BY DEF Segment

LEMMA Ranges ==
  ASSUME NEW s \in Segment
  PROVE  /\ XRange(s) = IF s[1][1] <= s[2][1] THEN <<s[1][1], s[2][1]>> ELSE <<s[2][1], s[1][1]>>
         /\ YRange(s) = IF s[1][2] <= s[2][2] THEN <<s[1][2], s[2][2]>> ELSE <<s[2][2], s[1][2]>>
         /\ XRange(s) \in Int \X Int /\ XRange(s)[1] <= XRange(s)[2]
         /\ YRange(s) \in Int \X Int /\ YRange(s)[1] <= YRange(s)[2]
<1>1. /\ s[1][1] \in Int /\ s[2][1] \in Int /\ s[1][2] \in Int /\ s[2][2] \in Int
  BY DEF Segment
<1>2. /\ XRange(s) = IF s[1][1] <= s[2][1] THEN <<s[1][1], s[2][1]>> ELSE <<s[2][1], s[1][1]>>
      /\ YRange(s) = IF s[1][2] <= s[2][2] THEN <<s[1][2], s[2][2]>> ELSE <<s[2][2], s[1][2]>>
  <2>1. /\ Min({s[1][1], s[2][1]}) = IF s[1][1] <= s[2][1] THEN s[1][1] ELSE s[2][1]
        /\ Max({s[1][1], s[2][1]}) = IF s[1][1] <= s[2][1] THEN s[2][1] ELSE s[1][1]
        /\ Min({s[1][2], s[2][2]}) = IF s[1][2] <= s[2][2] THEN s[1][2] ELSE s[2][2]
        /\ Max({s[1][2], s[2][2]}) = IF s[1][2] <= s[2][2] THEN s[2][2] ELSE s[1][2]
    BY <1>1, Extremes
  <2> QED  BY <2>1 DEF XRange, YRange
<1>3. \A a, b \in Int : a <= b \/ b <= a
  OBVIOUS
<1>4. XRange(s) \in Int \X Int /\ XRange(s)[1] <= XRange(s)[2]
  BY <1>1, <1>2, <1>3
<1>5. YRange(s) \in Int \X Int /\ YRange(s)[1] <= YRange(s)[2]
  BY <1>1, <1>2, <1>3
<1> QED  BY <1>2, <1>4, <1>5

LEMMA DisjointMeans ==
  ASSUME NEW r \in Int \X Int, NEW s \in Int \X Int
  PROVE  Disjoint(r, s) <=> r[1] > r[2] \/ r[1] > s[2] \/ s[1] > r[2] \/ s[1] > s[2]
<1>1. r[1] \in Int /\ r[2] \in Int /\ s[1] \in Int /\ s[2] \in Int
  OBVIOUS
<1>2. /\ Max({r[1], s[1]}) = IF r[1] <= s[1] THEN s[1] ELSE r[1]
      /\ Min({r[2], s[2]}) = IF r[2] <= s[2] THEN r[2] ELSE s[2]
  BY <1>1, Extremes
<1> QED  BY <1>1, <1>2 DEF Disjoint

-----------------------------------------------------------------------------
(* The iteration over a set of coordinates. *)

LEMMA AscendingSteps ==
  ASSUME NEW S, S \subseteq Int, IsFiniteSet(S), S # {}
  PROVE  /\ Cardinality(S) \in Nat \ {0}
         /\ Ascending(S)[1] = Min(S)
         /\ \A k \in 1 .. Cardinality(S) - 1 :
              Ascending(S)[k + 1] = Min({c \in S : c > Ascending(S)[k]})
<1> DEFINE n == Cardinality(S)
           V == S \cup {Min({})}
           step == [v \in V |-> Min({c \in S : c > v})]
<1>1. n \in Nat \ {0}
  BY FS_CardinalityType, FS_EmptySet
<1>2. \A T \in SUBSET S : Min(T) \in V
  <2> SUFFICES ASSUME NEW T \in SUBSET S PROVE Min(T) \in V
    OBVIOUS
  <2>1. CASE T = {}
    BY <2>1
  <2>2. CASE T # {}
    BY <2>2, FS_Subset, LeastOfFinite
  <2> QED  BY <2>1, <2>2
<1>3. Min(S) \in V /\ step \in [V -> V]
  BY <1>2
<1> HIDE DEF V, n, step
<1>4. PICK e \in [1 .. n -> V] : Iterates(e, Min(S), step, n)
  BY <1>1, <1>3, Iteration
<1>5. e = [k \in 1 .. n |-> IF k = 1 THEN Min(S) ELSE Min({c \in S : c > e[k - 1]})]
  <2>1. \A k \in 1 .. n : k = 1 \/ (k # 1 /\ k \in 2 .. n /\ k - 1 \in 1 .. n)
    BY <1>1
  <2>2. \A k \in 2 .. n : step[e[k - 1]] = Min({c \in S : c > e[k - 1]})
    BY <2>1 DEF step
  <2>3. \A k \in 1 .. n : e[k] = IF k = 1 THEN Min(S) ELSE Min({c \in S : c > e[k - 1]})
    BY <1>4, <2>1, <2>2 DEF Iterates
  <2> QED  BY <1>4, <2>3
<1>6. Ascending(S) =
        [k \in 1 .. n |-> IF k = 1 THEN Min(S) ELSE Min({c \in S : c > Ascending(S)[k - 1]})]
  BY <1>5 DEF Ascending, n
<1>7. 1 \in 1 .. n /\ \A k \in 1 .. n - 1 : k + 1 \in 1 .. n /\ k + 1 # 1 /\ (k + 1) - 1 = k
  BY <1>1
<1> QED  BY <1>1, <1>6, <1>7 DEF n

(* It meets every coordinate, and each only once. *)
Sorts(e, S) ==
  /\ \A k \in 1 .. Cardinality(S) : e[k] \in S
  /\ \A k \in 1 .. Cardinality(S) - 1 :
       e[k] < e[k + 1] /\ \A c \in S : c <= e[k] \/ e[k + 1] <= c
  /\ \A c \in S : e[1] <= c /\ c <= e[Cardinality(S)]

LEMMA AscendingSorts ==
  ASSUME NEW S, S \subseteq Int, IsFiniteSet(S), S # {}
  PROVE  Sorts(Ascending(S), S)
<1> DEFINE n == Cardinality(S)
           e == Ascending(S)
           Beyond(x) == {c \in S : c > x}
           N == {k \in Nat : k + 1 <= n => e[k + 1] \in S /\ Cardinality(Beyond(e[k + 1])) = n - (k + 1)}
<1>1. /\ n \in Nat \ {0}
      /\ e[1] = Min(S)
      /\ \A k \in 1 .. n - 1 : e[k + 1] = Min(Beyond(e[k]))
  BY AscendingSteps
<1> HIDE DEF n, e
<1>2. \A x : IsFiniteSet(Beyond(x)) /\ Beyond(x) \subseteq Int
  BY FS_Subset
<1>3. \A x : Beyond(x) # {} => Min(Beyond(x)) \in Beyond(x) /\ \A c \in Beyond(x) : Min(Beyond(x)) <= c
  BY <1>2, LeastOfFinite
<1>4. Min(S) \in S /\ \A c \in S : Min(S) <= c
  BY LeastOfFinite
<1>5. 0 \in N
  <2>1. Beyond(e[1]) = S \ {Min(S)}
    <3>1. \A c \in S : c > Min(S) <=> c # Min(S)
      <4>1. Min(S) \in Int /\ \A c \in S : c \in Int /\ Min(S) <= c
        BY <1>4
      <4> QED  BY <4>1
    <3> QED  BY <1>1, <3>1
  <2>2. Cardinality(S \ {Min(S)}) = n - 1
    BY <1>4, FS_RemoveElement DEF n
  <2> QED  BY <1>1, <1>4, <2>1, <2>2
<1>6. ASSUME NEW k \in Nat, k \in N PROVE k + 1 \in N
  <2> SUFFICES ASSUME (k + 1) + 1 <= n
               PROVE  /\ e[(k + 1) + 1] \in S
                      /\ Cardinality(Beyond(e[(k + 1) + 1])) = n - ((k + 1) + 1)
    OBVIOUS
  <2> DEFINE B == Beyond(e[k + 1])    m == Min(B)
  <2>1. e[k + 1] \in S /\ Cardinality(B) = n - (k + 1)
    BY <1>1, <1>6
  <2>2. e[(k + 1) + 1] = m
    BY <1>1
  <2>3. IsFiniteSet(B) /\ B # {}
    <3>1. Cardinality(B) # 0
      BY <1>1, <2>1
    <3> QED  BY <1>2, <3>1, FS_EmptySet
  <2>4. m \in B /\ \A c \in B : m <= c
    BY <1>3, <2>3
  <2>5. Beyond(m) = B \ {m}
    <3>1. m \in Int /\ m > e[k + 1]
      BY <2>4
    <3>2. e[k + 1] \in Int
      BY <2>1
    <3>3. \A c \in S : c \in Int /\ (c > e[k + 1] => m <= c)
      BY <2>4
    <3>4. \A c \in S : c > m <=> c > e[k + 1] /\ c # m
      <4> HIDE DEF B, m
      <4> QED  BY <3>1, <3>2, <3>3
    <3> QED  BY <3>4
  <2>6. Cardinality(B \ {m}) = (n - (k + 1)) - 1
    BY <2>1, <2>3, <2>4, FS_RemoveElement
  <2> HIDE DEF B, m
  <2>7. m \in S
    BY <2>4 DEF B
  <2> QED  BY <1>1, <2>2, <2>5, <2>6, <2>7
<1> HIDE DEF N
<1>7. Nat \subseteq N
  BY <1>5, <1>6, Induction
<1>8. ASSUME NEW k \in 1 .. n PROVE e[k] \in S /\ Cardinality(Beyond(e[k])) = n - k
  <2>1. k - 1 \in N /\ (k - 1) + 1 = k /\ k <= n
    BY <1>1, <1>7
  <2> QED  BY <2>1 DEF N
<1>9. ASSUME NEW k \in 1 .. n - 1
      PROVE  e[k] < e[k + 1] /\ \A c \in S : c <= e[k] \/ e[k + 1] <= c
  <2>1. k \in 1 .. n /\ n - k # 0
    BY <1>1
  <2>2. Beyond(e[k]) # {}
    BY <1>8, <2>1, FS_EmptySet
  <2>3. e[k + 1] \in Beyond(e[k]) /\ \A c \in Beyond(e[k]) : e[k + 1] <= c
    BY <1>1, <1>3, <2>2
  <2>4. e[k] \in S /\ e[k] \in Int /\ e[k + 1] \in Int /\ \A c \in S : c \in Int
    BY <1>8, <2>1, <2>3
  <2>5. e[k] < e[k + 1]
    BY <2>3, <2>4
  <2>6. ASSUME NEW c \in S PROVE c <= e[k] \/ e[k + 1] <= c
    <3>1. c > e[k] => c \in Beyond(e[k])
      OBVIOUS
    <3> QED  BY <2>3, <2>4, <3>1
  <2> QED  BY <2>5, <2>6
<1>10. ASSUME NEW c \in S PROVE e[1] <= c /\ c <= e[n]
  <2>1. n \in 1 .. n /\ n - n = 0
    BY <1>1
  <2>2. e[n] \in S /\ Beyond(e[n]) = {}
    BY <1>2, <1>8, <2>1, FS_EmptySet
  <2>3. c \in Int /\ e[n] \in Int /\ ~ (c > e[n])
    BY <2>2
  <2> QED  BY <1>1, <1>4, <2>3
<1> QED  BY <1>8, <1>9, <1>10 DEF Sorts, n, e

-----------------------------------------------------------------------------
(* The tree: intervals that follow one another from the first coordinate to the
   last, on each level.                                                     *)

Vector(segs) == segs \in Seq(Segment) /\ segs # <<>>

LEMMA VectorElements ==
  ASSUME NEW segs, Vector(segs)
  PROVE  /\ Len(segs) \in Nat \ {0}
         /\ DOMAIN segs = 1 .. Len(segs)
         /\ \A i \in DOMAIN segs : segs[i] \in Segment
<1>1. Len(segs) \in Nat /\ DOMAIN segs = 1 .. Len(segs) /\ \A i \in 1 .. Len(segs) : segs[i] \in Segment
  BY LenProperties, ElementOfSeq DEF Vector
<1>2. Len(segs) # 0
  BY EmptySeq DEF Vector
<1> QED  BY <1>1, <1>2

LEMMA EndpointsAreFinite ==
  ASSUME NEW segs, Vector(segs)
  PROVE  /\ Endpoints(segs) \subseteq Int
         /\ IsFiniteSet(Endpoints(segs))
         /\ Endpoints(segs) # {}
         /\ \A i \in DOMAIN segs : XRange(segs[i])[1] \in Endpoints(segs) /\ XRange(segs[i])[2] \in Endpoints(segs)
<1> DEFINE P == (DOMAIN segs) \X {1, 2}
           f == [q \in P |-> XRange(segs[q[1]])[q[2]]]
<1>1. /\ Len(segs) \in Nat \ {0}
      /\ DOMAIN segs = 1 .. Len(segs)
      /\ \A i \in DOMAIN segs : segs[i] \in Segment
  BY VectorElements
<1>2. \A i \in DOMAIN segs : XRange(segs[i]) \in Int \X Int
  BY <1>1, Ranges
<1>3. \A i \in DOMAIN segs, e \in {1, 2} : <<i, e>> \in P /\ f[<<i, e>>] = XRange(segs[i])[e]
  OBVIOUS
<1>4. /\ \A q \in P : f[q] \in Endpoints(segs)
      /\ \A c \in Endpoints(segs) : \E q \in P : f[q] = c
  <2>1. ASSUME NEW q \in P PROVE f[q] \in Endpoints(segs)
    BY DEF Endpoints
  <2>2. ASSUME NEW c \in Endpoints(segs) PROVE \E q \in P : f[q] = c
    <3>1. PICK i \in DOMAIN segs, e \in {1, 2} : c = XRange(segs[i])[e]
      BY DEF Endpoints
    <3> QED  BY <1>3, <3>1
  <2> QED  BY <2>1, <2>2
<1>5. IsFiniteSet(P)
  <2>1. IsFiniteSet(DOMAIN segs)
    BY <1>1, FS_Interval
  <2>2. IsFiniteSet({1} \cup {2}) /\ {1} \cup {2} = {1, 2}
    BY FS_Singleton, FS_AddElement
  <2> QED  BY <2>1, <2>2, FS_Product
<1>6. f \in Surjection(P, Endpoints(segs))
  <2> HIDE DEF P
  <2>1. f \in [P -> Endpoints(segs)]
    BY <1>4
  <2> HIDE DEF f
  <2> QED  BY <1>4, <2>1 DEF Surjection
<1>7. IsFiniteSet(Endpoints(segs))
  BY <1>5, <1>6, FS_Surjection
<1>8. \A i \in DOMAIN segs : XRange(segs[i])[1] \in Endpoints(segs) /\ XRange(segs[i])[2] \in Endpoints(segs)
  BY DEF Endpoints
<1>9. Endpoints(segs) \subseteq Int
  BY <1>2 DEF Endpoints
<1> QED  BY <1>1, <1>7, <1>8, <1>9

First(segs) == Ascending(Endpoints(segs))[1]
Final(segs) == Ascending(Endpoints(segs))[Cardinality(Endpoints(segs))]

(* A level of nodes. Every second interval of the lowest may be empty. *)
Row(L) ==
  /\ L \in Seq(Int \X Int) /\ Len(L) \in Nat \ {0}
  /\ \A i \in 1 .. Len(L) : L[i][1] \in Int /\ L[i][2] \in Int
  /\ \A i \in 1 .. Len(L) - 1 : L[i][2] = L[i + 1][1] - 1
  /\ \A i \in 1 .. Len(L) : L[i][1] <= L[i][2] + 1 /\ (i % 2 = 1 => L[i][1] <= L[i][2])

Spans(L, lo, hi) == L[1][1] = lo /\ L[Len(L)][2] = hi

LEMMA ElementaryRow ==
  ASSUME NEW segs, Vector(segs)
  PROVE  /\ Row(Elementary(segs))
         /\ Spans(Elementary(segs), First(segs), Final(segs))
         /\ Len(Elementary(segs)) = 2 * Cardinality(Endpoints(segs)) - 1
<1> DEFINE S == Endpoints(segs)
           n == Cardinality(S)
           e == Ascending(S)
           m == 2 * n - 1
           L == Elementary(segs)
<1>1. S \subseteq Int /\ IsFiniteSet(S) /\ S # {}
  BY EndpointsAreFinite
<1>2. n \in Nat \ {0} /\ Sorts(e, S)
  BY <1>1, AscendingSorts, AscendingSteps
<1>3. \A k \in 1 .. n : e[k] \in Int
  BY <1>1, <1>2 DEF Sorts
<1>4. \A k \in 1 .. n - 1 : k \in 1 .. n /\ k + 1 \in 1 .. n /\ e[k] < e[k + 1]
  BY <1>2 DEF Sorts
<1>5. L = [j \in 1 .. m |->
            IF j % 2 = 1 THEN <<e[(j + 1) \div 2], e[(j + 1) \div 2]>>
                         ELSE <<e[j \div 2] + 1, e[j \div 2 + 1] - 1>>]
  BY DEF Elementary
<1> HIDE DEF S, e, L, n
<1>6. m \in Nat \ {0}
  BY <1>2
<1>7. ASSUME NEW j \in 1 .. m
      PROVE  \/ /\ j % 2 = 1 /\ (j + 1) \div 2 \in 1 .. n
                /\ L[j] = <<e[(j + 1) \div 2], e[(j + 1) \div 2]>>
             \/ /\ j % 2 = 0 /\ j \div 2 \in 1 .. n - 1
                /\ L[j] = <<e[j \div 2] + 1, e[j \div 2 + 1] - 1>>
  <2>1. j % 2 = 1 \/ (j % 2 = 0 /\ j % 2 # 1)
    OBVIOUS
  <2>2. j % 2 = 1 => (j + 1) \div 2 \in 1 .. n
    BY <1>2
  <2>3. j % 2 = 0 => j \div 2 \in 1 .. n - 1
    BY <1>2
  <2> QED  BY <1>5, <2>1, <2>2, <2>3
<1>8. ASSUME NEW j \in 1 .. m
      PROVE  L[j] \in Int \X Int /\ L[j][1] <= L[j][2] + 1 /\ (j % 2 = 1 => L[j][1] <= L[j][2])
  <2>1. CASE j % 2 = 1 /\ (j + 1) \div 2 \in 1 .. n /\ L[j] = <<e[(j + 1) \div 2], e[(j + 1) \div 2]>>
    <3>1. e[(j + 1) \div 2] \in Int
      BY <1>3, <2>1
    <3> QED  BY <2>1, <3>1
  <2>2. CASE j % 2 = 0 /\ j \div 2 \in 1 .. n - 1 /\ L[j] = <<e[j \div 2] + 1, e[j \div 2 + 1] - 1>>
    <3>1. e[j \div 2] \in Int /\ e[j \div 2 + 1] \in Int /\ e[j \div 2] < e[j \div 2 + 1]
      BY <1>3, <1>4, <2>2
    <3> QED  BY <2>2, <3>1
  <2> QED  BY <1>7, <2>1, <2>2
<1>9. L \in Seq(Int \X Int) /\ Len(L) = m
  <2>1. L \in [1 .. m -> Int \X Int]
    BY <1>5, <1>8
  <2> QED  BY <1>6, <2>1, SeqDef, LenProperties
<1>10. ASSUME NEW j \in 1 .. m - 1 PROVE L[j][2] = L[j + 1][1] - 1
  <2>1. j \in 1 .. m /\ j + 1 \in 1 .. m
    BY <1>6
  <2>2. CASE j % 2 = 1
    <3>1. (j + 1) % 2 = 0
      BY <2>2
    <3>2. L[j] = <<e[(j + 1) \div 2], e[(j + 1) \div 2]>>
      BY <1>7, <2>1, <2>2
    <3>3. L[j + 1] = <<e[(j + 1) \div 2] + 1, e[(j + 1) \div 2 + 1] - 1>> /\ (j + 1) \div 2 \in 1 .. n - 1
      BY <1>7, <2>1, <3>1
    <3> QED  BY <1>3, <1>4, <3>2, <3>3
  <2>3. CASE j % 2 = 0
    <3>1. (j + 1) % 2 = 1 /\ ((j + 1) + 1) \div 2 = j \div 2 + 1
      BY <2>3
    <3>2. L[j] = <<e[j \div 2] + 1, e[j \div 2 + 1] - 1>> /\ j \div 2 \in 1 .. n - 1
      BY <1>7, <2>1, <2>3
    <3>3. L[j + 1] = <<e[j \div 2 + 1], e[j \div 2 + 1]>>
      BY <1>7, <2>1, <3>1
    <3> QED  BY <1>3, <1>4, <3>2, <3>3
  <2> QED  BY <2>2, <2>3
<1>11. L[1][1] = e[1]
  <2>1. 1 \in 1 .. m
    BY <1>2
  <2>2. \A j \in Int : j = 1 => j % 2 = 1 /\ j % 2 # 0 /\ (j + 1) \div 2 = 1
    OBVIOUS
  <2> QED  BY <1>7, <2>1, <2>2
<1>12. L[m][2] = e[n]
  <2>1. m \in 1 .. m /\ m % 2 = 1 /\ (m + 1) \div 2 = n
    BY <1>2, <1>6
  <2> QED  BY <1>7, <2>1
<1>13. Row(L)
  BY <1>6, <1>8, <1>9, <1>10 DEF Row
<1> QED  BY <1>9, <1>11, <1>12, <1>13 DEF Spans, First, Final, S, n, e, L

(* A node has the interval of its children, or of its only one. *)
LEMMA Children ==
  ASSUME NEW L, Row(L), NEW i \in 1 .. (Len(L) + 1) \div 2
  PROVE  /\ 2 * i - 1 \in 1 .. Len(L) /\ (2 * i - 1) % 2 = 1
         /\ Parents(L)[i][1] = L[2 * i - 1][1] /\ Parents(L)[i] \in Int \X Int
         /\ \/ /\ 2 * i \in 1 .. Len(L) /\ 2 * i - 1 \in 1 .. Len(L) - 1
               /\ Parents(L)[i][2] = L[2 * i][2]
               /\ L[2 * i - 1][2] = L[2 * i][1] - 1
            \/ 2 * i - 1 = Len(L) /\ Parents(L)[i][2] = L[Len(L)][2]
<1> DEFINE n == Len(L)
           m == (n + 1) \div 2
           P == Parents(L)
<1>1. n \in Nat \ {0} /\ m \in Nat \ {0}
  BY DEF Row
<1>2. P = [j \in 1 .. m |-> <<L[2 * j - 1][1], IF 2 * j <= n THEN L[2 * j][2] ELSE L[2 * j - 1][2]>>]
  BY DEF Parents
<1>3. /\ \A j \in 1 .. n : L[j][1] \in Int /\ L[j][2] \in Int
      /\ \A j \in 1 .. n - 1 : L[j][2] = L[j + 1][1] - 1
      /\ \A j \in 1 .. n : L[j][1] <= L[j][2] + 1 /\ (j % 2 = 1 => L[j][1] <= L[j][2])
  BY DEF Row
<1>0. i \in 1 .. m
  OBVIOUS
<1> HIDE DEF P, n
<1>4. 2 * i - 1 \in 1 .. n /\ (2 * i - 1) % 2 = 1
  BY <1>0, <1>1
<1>5. CASE 2 * i <= n
  <2>1. 2 * i \in 1 .. n /\ 2 * i - 1 \in 1 .. n - 1 /\ (2 * i - 1) + 1 = 2 * i
    BY <1>0, <1>1, <1>5
  <2>2. P[i] = <<L[2 * i - 1][1], L[2 * i][2]>>
    BY <1>0, <1>2, <1>5
  <2>3. L[2 * i - 1][2] = L[2 * i][1] - 1
    BY <1>3, <2>1
  <2>4. L[2 * i - 1][1] \in Int /\ L[2 * i][2] \in Int
    BY <1>3, <1>4, <2>1
  <2> HIDE DEF m
  <2> QED  BY <1>0, <1>4, <2>1, <2>2, <2>3, <2>4 DEF P, n
<1>6. CASE ~ (2 * i <= n)
  <2>1. 2 * i - 1 = n
    BY <1>0, <1>1, <1>6
  <2>2. P[i] = <<L[2 * i - 1][1], L[2 * i - 1][2]>>
    BY <1>0, <1>2, <1>6
  <2>3. L[2 * i - 1][1] \in Int /\ L[2 * i - 1][2] \in Int
    BY <1>3, <1>4
  <2> HIDE DEF m
  <2> QED  BY <1>0, <1>4, <2>1, <2>2, <2>3 DEF P, n
<1> QED  BY <1>5, <1>6 DEF P, n

LEMMA ParentsRow ==
  ASSUME NEW L, Row(L), NEW lo, NEW hi, Spans(L, lo, hi)
  PROVE  /\ Row(Parents(L)) /\ Spans(Parents(L), lo, hi)
         /\ Len(Parents(L)) = (Len(L) + 1) \div 2
         /\ \A i \in 1 .. Len(Parents(L)) : Parents(L)[i][1] <= Parents(L)[i][2]
<1> DEFINE n == Len(L)
           m == (n + 1) \div 2
           P == Parents(L)
<1>1. n \in Nat \ {0} /\ m \in Nat \ {0}
  BY DEF Row
<1>2. P = [i \in 1 .. m |-> <<L[2 * i - 1][1], IF 2 * i <= n THEN L[2 * i][2] ELSE L[2 * i - 1][2]>>]
  BY DEF Parents
<1>3. /\ \A i \in 1 .. n : L[i][1] \in Int /\ L[i][2] \in Int
      /\ \A i \in 1 .. n - 1 : L[i][2] = L[i + 1][1] - 1
      /\ \A i \in 1 .. n : L[i][1] <= L[i][2] + 1 /\ (i % 2 = 1 => L[i][1] <= L[i][2])
  BY DEF Row
<1> HIDE DEF P, n
<1>4. ASSUME NEW i \in 1 .. m
      PROVE  /\ 2 * i - 1 \in 1 .. n /\ (2 * i - 1) % 2 = 1
             /\ P[i][1] = L[2 * i - 1][1] /\ P[i] \in Int \X Int
             /\ \/ /\ 2 * i \in 1 .. n /\ 2 * i - 1 \in 1 .. n - 1
                   /\ P[i][2] = L[2 * i][2]
                   /\ L[2 * i - 1][2] = L[2 * i][1] - 1
                \/ 2 * i - 1 = n /\ P[i][2] = L[n][2]
  BY Children DEF P, n
<1>5. P \in Seq(Int \X Int) /\ Len(P) = m
  <2>1. P \in [1 .. m -> Int \X Int]
    BY <1>2, <1>4
  <2> QED  BY <1>1, <2>1, SeqDef, LenProperties
<1>6. ASSUME NEW i \in 1 .. m PROVE P[i][1] <= P[i][2] /\ P[i][1] \in Int /\ P[i][2] \in Int
  <2> DEFINE k == 2 * i - 1
  <2>1. k \in 1 .. n /\ k % 2 = 1 /\ P[i][1] = L[k][1]
    BY <1>4
  <2>2. L[k][1] <= L[k][2] /\ L[k][1] \in Int /\ L[k][2] \in Int
    BY <1>3, <2>1
  <2>3. CASE 2 * i \in 1 .. n /\ P[i][2] = L[2 * i][2] /\ L[k][2] = L[2 * i][1] - 1
    <3>1. L[2 * i][1] \in Int /\ L[2 * i][2] \in Int /\ L[2 * i][1] <= L[2 * i][2] + 1
      BY <1>3, <2>3
    <3> HIDE DEF m
    <3> QED  BY <2>1, <2>2, <2>3, <3>1
  <2>4. CASE k = n /\ P[i][2] = L[n][2]
    BY <2>1, <2>2, <2>4
  <2> QED  BY <1>4, <2>3, <2>4
<1>7. ASSUME NEW i \in 1 .. m - 1 PROVE P[i][2] = P[i + 1][1] - 1
  <2>1. i \in 1 .. m /\ i + 1 \in 1 .. m /\ 2 * (i + 1) - 1 = 2 * i + 1 /\ 2 * i - 1 # n /\ 2 * i \in 1 .. n - 1
    BY <1>1
  <2>2. P[i][2] = L[2 * i][2]
    BY <1>4, <2>1
  <2>3. P[i + 1][1] = L[2 * i + 1][1]
    BY <1>4, <2>1
  <2>4. L[2 * i][2] = L[2 * i + 1][1] - 1
    BY <1>3, <2>1
  <2> QED  BY <2>2, <2>3, <2>4
<1>8. Row(P)
  <2> HIDE DEF m
  <2>1. \A i \in 1 .. m : P[i][1] <= P[i][2] + 1
    BY <1>6
  <2> QED  BY <1>1, <1>5, <1>6, <1>7, <2>1 DEF Row
<1>9. Spans(P, lo, hi)
  <2>1. P[1][1] = L[1][1]
    <3>1. 1 \in 1 .. m /\ 2 * 1 - 1 = 1
      BY <1>1
    <3> QED  BY <1>4, <3>1
  <2>2. P[m][2] = L[n][2]
    <3>1. m \in 1 .. m /\ (2 * m = n \/ 2 * m - 1 = n)
      BY <1>1
    <3> QED  BY <1>1, <1>4, <3>1
  <2> QED  BY <1>5, <2>1, <2>2 DEF Spans, n
<1> QED  BY <1>5, <1>6, <1>8, <1>9 DEF P, n

(* The levels, from the elementary intervals to the root. *)
Tower(T, lo, hi) ==
  /\ Len(T) \in Nat \ {0} /\ DOMAIN T = 1 .. Len(T)
  /\ \A k \in 1 .. Len(T) : Row(T[k]) /\ Spans(T[k], lo, hi)
  /\ \A k \in 1 .. Len(T) - 1 : T[k + 1] = Parents(T[k])
  /\ Len(T[Len(T)]) = 1

LEMMA LevelsAreTower ==
  ASSUME NEW segs, Vector(segs)
  PROVE  Tower(Levels(segs), First(segs), Final(segs)) /\ Levels(segs)[1] = Elementary(segs)
<1> DEFINE n == Cardinality(Endpoints(segs))
           lo == First(segs)
           hi == Final(segs)
           V == {L \in Seq(Int \X Int) : Row(L) /\ Spans(L, lo, hi)}
           step == [L \in V |-> Parents(L)]
           level == CHOOSE level : level = [k \in 1 .. 2 * Cardinality(Endpoints(segs)) |->
                      IF k = 1 THEN Elementary(segs) ELSE Parents(level[k - 1])]
           Tops == {k \in DOMAIN level : Len(level[k]) = 1}
           top == Min(Tops)
<1>1. n \in Nat \ {0}
  BY EndpointsAreFinite, FS_CardinalityType, FS_EmptySet
<1>2. 2 * n \in Nat \ {0}
  BY <1>1
<1>3. Elementary(segs) \in V /\ Len(Elementary(segs)) = 2 * n - 1
  BY ElementaryRow DEF Row
<1>4. ASSUME NEW L \in V
      PROVE  Parents(L) \in V /\ Len(L) \in Nat \ {0} /\ Len(Parents(L)) = (Len(L) + 1) \div 2
  BY ParentsRow DEF Row
<1>5. step \in [V -> V]
  BY <1>4
<1> HIDE DEF V, step
<1>6. PICK f \in [1 .. 2 * n -> V] : Iterates(f, Elementary(segs), step, 2 * n)
  BY <1>2, <1>3, <1>5, Iteration
<1>7. f = [k \in 1 .. 2 * n |-> IF k = 1 THEN Elementary(segs) ELSE Parents(f[k - 1])]
  <2>1. \A k \in 1 .. 2 * n : k = 1 \/ (k # 1 /\ k \in 2 .. 2 * n /\ k - 1 \in 1 .. 2 * n)
    BY <1>1
  <2>2. \A k \in 2 .. 2 * n : step[f[k - 1]] = Parents(f[k - 1])
    BY <2>1 DEF step
  <2>3. \A k \in 1 .. 2 * n : f[k] = IF k = 1 THEN Elementary(segs) ELSE Parents(f[k - 1])
    BY <1>6, <2>1, <2>2 DEF Iterates
  <2> QED  BY <1>6, <2>3
<1>8. level = [k \in 1 .. 2 * n |-> IF k = 1 THEN Elementary(segs) ELSE Parents(level[k - 1])]
  BY <1>7
<1>9. Levels(segs) = [k \in 1 .. top |-> level[k]]
  BY DEF Levels
<1> HIDE DEF level, n
<1>10. level[1] = Elementary(segs) /\ \A k \in 1 .. 2 * n - 1 : level[k + 1] = Parents(level[k])
  <2>1. 1 \in 1 .. 2 * n /\ \A k \in 1 .. 2 * n - 1 : k + 1 \in 1 .. 2 * n /\ k + 1 # 1 /\ (k + 1) - 1 = k
    BY <1>1
  <2> QED  BY <1>8, <2>1
<1> DEFINE N == {j \in Nat : j + 1 <= 2 * n =>
                   level[j + 1] \in V /\ (Len(level[j + 1]) = 1 \/ Len(level[j + 1]) <= 2 * n - (j + 1))}
<1>11. 0 \in N
  BY <1>1, <1>3, <1>10
<1>12. ASSUME NEW j \in Nat, j \in N PROVE j + 1 \in N
  <2> SUFFICES ASSUME (j + 1) + 1 <= 2 * n
               PROVE  /\ level[(j + 1) + 1] \in V
                      /\ Len(level[(j + 1) + 1]) = 1 \/ Len(level[(j + 1) + 1]) <= 2 * n - ((j + 1) + 1)
    OBVIOUS
  <2>1. level[j + 1] \in V /\ (Len(level[j + 1]) = 1 \/ Len(level[j + 1]) <= 2 * n - (j + 1))
    BY <1>1, <1>12
  <2>2. level[(j + 1) + 1] = Parents(level[j + 1])
    BY <1>1, <1>10
  <2>3. /\ Parents(level[j + 1]) \in V /\ Len(level[j + 1]) \in Nat \ {0}
        /\ Len(Parents(level[j + 1])) = (Len(level[j + 1]) + 1) \div 2
    BY <1>4, <2>1
  <2>4. ASSUME NEW l \in Nat \ {0}, l = 1 \/ l <= 2 * n - (j + 1)
        PROVE  (l + 1) \div 2 = 1 \/ (l + 1) \div 2 <= 2 * n - ((j + 1) + 1)
    BY <1>1, <2>4
  <2> QED  BY <2>1, <2>2, <2>3, <2>4
<1> HIDE DEF N
<1>13. Nat \subseteq N
  BY <1>11, <1>12, Induction
<1>14. ASSUME NEW k \in 1 .. 2 * n PROVE level[k] \in V /\ (Len(level[k]) = 1 \/ Len(level[k]) <= 2 * n - k)
  <2>1. k - 1 \in N /\ (k - 1) + 1 = k /\ k <= 2 * n
    BY <1>1, <1>13
  <2> QED  BY <2>1 DEF N
<1>15. 2 * n \in Tops
  <2>1. 2 * n \in 1 .. 2 * n /\ 2 * n - 2 * n = 0
    BY <1>1
  <2>2. Len(level[2 * n]) \in Nat \ {0}
    BY <1>4, <1>14, <2>1
  <2> QED  BY <1>8, <1>14, <2>1, <2>2
<1>16. Tops \subseteq 1 .. 2 * n
  BY <1>8
<1>17. top \in Tops
  <2>1. IsFiniteSet(1 .. 2 * n)
    BY <1>1, FS_Interval
  <2> HIDE DEF Tops
  <2>2. IsFiniteSet(Tops)
    BY <1>16, <2>1, FS_Subset
  <2>3. Tops \subseteq Int
    BY <1>16
  <2> QED  BY <1>15, <2>2, <2>3, LeastOfFinite
<1>18. top \in 1 .. 2 * n /\ Len(level[top]) = 1
  BY <1>8, <1>17
<1> DEFINE T == Levels(segs)
<1> HIDE DEF top, T
<1>19. T = [k \in 1 .. top |-> level[k]] /\ top \in Nat \ {0}
  BY <1>1, <1>9, <1>18 DEF T
<1>20. Len(T) = top /\ DOMAIN T = 1 .. top
  <2>1. DOMAIN T = 1 .. top
    BY <1>19
  <2>2. T \in [1 .. top -> V]
    BY <1>1, <1>14, <1>18, <1>19
  <2>3. T \in Seq(V)
    BY <1>19, <2>2, SeqDef
  <2> QED  BY <1>19, <2>2, <2>3, LenProperties
<1>21. \A k \in 1 .. top : T[k] = level[k] /\ Row(T[k]) /\ Spans(T[k], lo, hi)
  <2>1. \A k \in 1 .. top : k \in 1 .. 2 * n /\ T[k] = level[k]
    BY <1>1, <1>18, <1>19
  <2> QED  BY <1>14, <2>1 DEF V
<1>22. \A k \in 1 .. top - 1 : T[k + 1] = Parents(T[k])
  <2>1. \A k \in 1 .. top - 1 : k \in 1 .. top /\ k + 1 \in 1 .. top /\ k \in 1 .. 2 * n - 1
    BY <1>1, <1>18, <1>19
  <2> QED  BY <1>10, <1>21, <2>1
<1>23. 1 \in 1 .. top /\ top \in 1 .. top
  BY <1>19
<1>24. Len(T[top]) = 1 /\ T[1] = Elementary(segs)
  BY <1>10, <1>18, <1>21, <1>23
<1> QED  BY <1>19, <1>20, <1>21, <1>22, <1>24 DEF Tower, T

LEMMA NodesOf ==
  ASSUME NEW T, NEW lo, NEW hi, Tower(T, lo, hi)
  PROVE  /\ \A k \in 1 .. Len(T) : Len(T[k]) \in Nat \ {0} /\ \A i \in 1 .. Len(T[k]) : <<k, i>> \in Nodes(T)
         /\ \A n \in Nodes(T) : /\ n = <<n[1], n[2]>>
                                /\ n[1] \in 1 .. Len(T) /\ n[2] \in 1 .. Len(T[n[1]])
                                /\ Interval(T, n) = T[n[1]][n[2]]
                                /\ Interval(T, n)[1] \in Int /\ Interval(T, n)[2] \in Int
                                /\ Interval(T, n) \in Int \X Int
<1>1. DOMAIN T = 1 .. Len(T) /\ \A k \in 1 .. Len(T) : Row(T[k])
  BY DEF Tower
<1>2. \A k \in 1 .. Len(T) : Len(T[k]) \in Nat \ {0} /\ \A i \in 1 .. Len(T[k]) : <<k, i>> \in Nodes(T)
  BY <1>1 DEF Row, Nodes
<1>3. ASSUME NEW n \in Nodes(T)
      PROVE  /\ n = <<n[1], n[2]>>
             /\ n[1] \in 1 .. Len(T) /\ n[2] \in 1 .. Len(T[n[1]])
             /\ Interval(T, n) = T[n[1]][n[2]]
             /\ Interval(T, n)[1] \in Int /\ Interval(T, n)[2] \in Int
             /\ Interval(T, n) \in Int \X Int
  <2>1. PICK k \in 1 .. Len(T) : n \in {<<k, i>> : i \in 1 .. Len(T[k])}
    BY <1>1 DEF Nodes
  <2>2. PICK i \in 1 .. Len(T[k]) : n = <<k, i>>
    BY <2>1
  <2>3. Interval(T, n) = T[k][i]
    BY <2>2 DEF Interval
  <2>4. T[k] \in Seq(Int \X Int) /\ T[k][i][1] \in Int /\ T[k][i][2] \in Int
    BY <1>1, <2>1, <2>2 DEF Row
  <2>5. T[k][i] \in Int \X Int
    BY <2>2, <2>4, ElementOfSeq
  <2> QED  BY <2>1, <2>2, <2>3, <2>4, <2>5
<1> QED  BY <1>2, <1>3

LEMMA Root ==
  ASSUME NEW T, NEW lo, NEW hi, Tower(T, lo, hi)
  PROVE  /\ <<Height(T), 1>> \in Nodes(T)
         /\ Interval(T, <<Height(T), 1>>)[1] = lo
         /\ Interval(T, <<Height(T), 1>>)[2] = hi
<1>1. Len(T) \in 1 .. Len(T) /\ Len(T[Len(T)]) = 1 /\ Spans(T[Len(T)], lo, hi)
  BY DEF Tower
<1>2. T[Len(T)][1][1] = lo /\ T[Len(T)][1][2] = hi
  BY <1>1 DEF Spans
<1>3. \A i \in 1 .. Len(T[Len(T)]) : <<Len(T), i>> \in Nodes(T)
  BY <1>1, NodesOf
<1>4. 1 \in 1 .. Len(T[Len(T)])
  BY <1>1
<1> QED  BY <1>2, <1>3, <1>4 DEF Height, Interval

(* The assertions about the tree hold, whatever the segments are. *)
LEMMA TreesAreWellBuilt ==
  ASSUME NEW segs, Vector(segs)
  PROVE  WellBuilt(segs, Levels(segs))
<1> DEFINE T == Levels(segs)
           lo == First(segs)
           hi == Final(segs)
<1>1. Tower(T, lo, hi)
  BY LevelsAreTower
<1>2. \A c \in Endpoints(segs) : c \in Int /\ lo <= c /\ c <= hi
  BY EndpointsAreFinite, AscendingSorts DEF Sorts, First, Final
<1>3. \A i \in DOMAIN segs : /\ segs[i] \in Segment /\ XRange(segs[i]) \in Int \X Int
                             /\ XRange(segs[i])[1] <= XRange(segs[i])[2]
                             /\ XRange(segs[i])[1] \in Endpoints(segs) /\ XRange(segs[i])[2] \in Endpoints(segs)
  BY VectorElements, EndpointsAreFinite, Ranges
<1> HIDE DEF T, lo, hi
<1>4. ASSUME NEW k \in 1 .. Len(T) - 1
      PROVE  /\ k \in 1 .. Len(T) /\ k + 1 \in 1 .. Len(T) /\ Row(T[k]) /\ T[k + 1] = Parents(T[k])
             /\ Len(T[k + 1]) = (Len(T[k]) + 1) \div 2
             /\ \A i \in 1 .. Len(T[k + 1]) : T[k + 1][i][1] <= T[k + 1][i][2]
  <2>1. k \in 1 .. Len(T) /\ k + 1 \in 1 .. Len(T)
    BY <1>1 DEF Tower
  <2>2. Row(T[k]) /\ Spans(T[k], lo, hi) /\ T[k + 1] = Parents(T[k])
    BY <1>1, <2>1 DEF Tower
  <2> QED  BY <2>1, <2>2, ParentsRow
<1>5. ASSUME NEW n \in Nodes(T), n[1] > 1 PROVE Interval(T, n)[1] <= Interval(T, n)[2]
  <2>1. n[1] \in 1 .. Len(T) /\ n[2] \in 1 .. Len(T[n[1]]) /\ Interval(T, n) = T[n[1]][n[2]]
    BY <1>1, NodesOf
  <2>2. n[1] - 1 \in 1 .. Len(T) - 1 /\ (n[1] - 1) + 1 = n[1]
    BY <1>1, <1>5, <2>1 DEF Tower
  <2> QED  BY <1>4, <2>1, <2>2
<1>6. ASSUME NEW s \in ToSet(segs) PROVE ~Disjoint(XRange(s), Interval(T, <<Height(T), 1>>))
  <2>1. PICK i \in DOMAIN segs : s = segs[i]
    BY DEF ToSet
  <2>2. /\ Interval(T, <<Height(T), 1>>)[1] = lo /\ Interval(T, <<Height(T), 1>>)[2] = hi
        /\ Interval(T, <<Height(T), 1>>) \in Int \X Int /\ lo \in Int /\ hi \in Int
    BY <1>1, Root, NodesOf
  <2>3. /\ XRange(s) \in Int \X Int /\ XRange(s)[1] \in Int /\ XRange(s)[2] \in Int
        /\ lo <= XRange(s)[1] /\ XRange(s)[1] <= XRange(s)[2] /\ XRange(s)[2] <= hi
    BY <1>2, <1>3, <2>1
  <2> QED  BY <2>2, <2>3, DisjointMeans
<1>7. ASSUME NEW n \in Nodes(T), <<n[1] - 1, 2 * n[2]>> \in Nodes(T)
      PROVE  /\ Interval(T, <<n[1] - 1, 2 * n[2] - 1>>)[1] = Interval(T, n)[1]
             /\ Interval(T, <<n[1] - 1, 2 * n[2]>>)[2] = Interval(T, n)[2]
             /\ Interval(T, <<n[1] - 1, 2 * n[2] - 1>>)[2] = Interval(T, <<n[1] - 1, 2 * n[2]>>)[1] - 1
  <2> DEFINE k == n[1] - 1    i == n[2]    L == T[k]
  <2>1. /\ n[1] \in 1 .. Len(T) /\ i \in 1 .. Len(T[n[1]]) /\ Interval(T, n) = T[n[1]][i]
        /\ k \in 1 .. Len(T) /\ 2 * i \in 1 .. Len(L)
    BY <1>1, <1>7, NodesOf
  <2>2. k \in 1 .. Len(T) - 1 /\ k + 1 = n[1]
    BY <1>1, <2>1 DEF Tower
  <2>3. Row(L) /\ T[n[1]] = Parents(L) /\ Len(T[n[1]]) = (Len(L) + 1) \div 2
    BY <1>4, <2>2
  <2>4. 2 * i - 1 # Len(L) /\ i \in Nat
    <3>1. Len(L) \in Nat
      BY <2>3 DEF Row
    <3> HIDE DEF L
    <3> QED  BY <2>1, <3>1
  <2> HIDE DEF L, k
  <2>5. /\ Parents(L)[i][1] = L[2 * i - 1][1] /\ Parents(L)[i][2] = L[2 * i][2]
        /\ L[2 * i - 1][2] = L[2 * i][1] - 1
    BY <2>1, <2>3, <2>4, Children
  <2>6. Interval(T, <<k, 2 * i - 1>>) = L[2 * i - 1] /\ Interval(T, <<k, 2 * i>>) = L[2 * i]
    BY DEF Interval, L
  <2> QED  BY <2>1, <2>3, <2>5, <2>6 DEF k
<1>8. CheckTree(T)
  BY <1>7 DEF CheckTree
<1> QED  BY <1>5, <1>6, <1>8 DEF WellBuilt, T

-----------------------------------------------------------------------------
(* Segments, and the side of a segment that a point is on. *)

LEMMA Reversed ==
  ASSUME NEW a \in Int \X Int, NEW b \in Int \X Int, NEW p \in Int \X Int
  PROVE  Cross(a, b, p) \in Int /\ Cross(b, a, p) = - Cross(a, b, p)
<1>1. /\ a[1] \in Int /\ a[2] \in Int /\ b[1] \in Int /\ b[2] \in Int /\ p[1] \in Int /\ p[2] \in Int
  OBVIOUS
<1>2. ASSUME NEW ax \in Int, NEW ay \in Int, NEW bx \in Int, NEW by \in Int, NEW x \in Int, NEW y \in Int
      PROVE  (ax - bx) * (y - by) - (ay - by) * (x - bx) = - ((bx - ax) * (y - ay) - (by - ay) * (x - ax))
  OBVIOUS
<1>3. Cross(b, a, p) = - Cross(a, b, p)
  BY <1>1, <1>2 DEF Cross
<1>4. Cross(a, b, p) \in Int
  BY <1>1 DEF Cross
<1> QED  BY <1>3, <1>4

LEMMA Orientation ==
  ASSUME NEW s \in Segment
  PROVE  /\ Oriented(s) \in Segment
         /\ \/ Oriented(s)[1] = s[1] /\ Oriented(s)[2] = s[2]
            \/ Oriented(s)[1] = s[2] /\ Oriented(s)[2] = s[1]
         /\ XRange(s)[1] = Oriented(s)[1][1] /\ XRange(s)[2] = Oriented(s)[2][1]
         /\ Oriented(s)[1][1] <= Oriented(s)[2][1]
<1>1. /\ s = <<s[1], s[2]>> /\ s[1] \in Int \X Int /\ s[2] \in Int \X Int
      /\ s[1][1] \in Int /\ s[1][2] \in Int /\ s[2][1] \in Int /\ s[2][2] \in Int
  BY DEF Segment
<1>2. XRange(s) = IF s[1][1] <= s[2][1] THEN <<s[1][1], s[2][1]>> ELSE <<s[2][1], s[1][1]>>
  BY Ranges
<1>3. CASE LexLess(s[2], s[1])
  <2>1. Oriented(s) = <<s[2], s[1]>>
    BY <1>3 DEF Oriented
  <2>2. s[2][1] <= s[1][1]
    BY <1>1, <1>3 DEF LexLess
  <2>3. <<s[2], s[1]>> \in Segment
    BY <1>1 DEF Segment
  <2> QED  BY <1>1, <1>2, <2>1, <2>2, <2>3
<1>4. CASE ~LexLess(s[2], s[1])
  <2>1. Oriented(s) = s
    BY <1>4 DEF Oriented
  <2>2. s[1][1] <= s[2][1]
    BY <1>1, <1>4 DEF LexLess
  <2> QED  BY <1>1, <1>2, <2>1, <2>2
<1> QED  BY <1>3, <1>4

(* The average of u and v, weighted by e2 and e1, is that of w and z, weighted by
   f1 and f2: neither pair is all below the other.                          *)
Balanced(e1, e2, f1, f2, u, v, w, z) ==
  /\ e1 > 0 /\ e2 <= 0 /\ f2 > 0 /\ f1 <= 0
  /\ e1 - e2 = f2 - f1
  /\ e1 * v - e2 * u = f2 * w - f1 * z

AllBelow(u, v, w, z) == u < w /\ u < z /\ v < w /\ v < z

LEMMA BalancedMeet ==
  ASSUME NEW e1 \in Int, NEW e2 \in Int, NEW f1 \in Int, NEW f2 \in Int,
         NEW u \in Int, NEW v \in Int, NEW w \in Int, NEW z \in Int,
         Balanced(e1, e2, f1, f2, u, v, w, z)
  PROVE  ~AllBelow(u, v, w, z) /\ ~AllBelow(w, z, u, v)
<1>1. /\ e1 > 0 /\ e2 <= 0 /\ f2 > 0 /\ f1 <= 0
      /\ e1 - e2 = f2 - f1
      /\ e1 * v - e2 * u = f2 * w - f1 * z
  BY DEF Balanced
<1>2. u < w /\ u < z /\ v < w /\ v < z => FALSE
  BY <1>1
<1>3. w < u /\ w < v /\ z < u /\ z < v => FALSE
  BY <1>1
<1> QED  BY <1>2, <1>3 DEF AllBelow

(* If the ends of two segments are on different sides of each other, then the
   segments have an ordinate in common: that of the point where they meet.  *)
LEMMA CommonOrdinate ==
  ASSUME NEW a \in Int \X Int, NEW b \in Int \X Int, NEW c \in Int \X Int, NEW d \in Int \X Int,
         ~ (Cross(a, b, c) > 0 <=> Cross(a, b, d) > 0),
         ~ (Cross(c, d, a) > 0 <=> Cross(c, d, b) > 0)
  PROVE  ~AllBelow(a[2], b[2], c[2], d[2]) /\ ~AllBelow(c[2], d[2], a[2], b[2])
<1>1. /\ a[1] \in Int /\ a[2] \in Int /\ b[1] \in Int /\ b[2] \in Int
      /\ c[1] \in Int /\ c[2] \in Int /\ d[1] \in Int /\ d[2] \in Int
  OBVIOUS
<1> DEFINE c1 == Cross(a, b, c)
           c2 == Cross(a, b, d)
           d1 == Cross(c, d, a)
           d2 == Cross(c, d, b)
<1>2. c1 \in Int /\ c2 \in Int /\ d1 \in Int /\ d2 \in Int
  BY Reversed
<1>3. d1 - d2 = c2 - c1 /\ d1 * b[2] - d2 * a[2] = c2 * c[2] - c1 * d[2]
  <2>1. ASSUME NEW ax \in Int, NEW ay \in Int, NEW bx \in Int, NEW by \in Int,
               NEW cx \in Int, NEW cy \in Int, NEW dx \in Int, NEW dy \in Int
        PROVE  LET C1 == (bx - ax) * (cy - ay) - (by - ay) * (cx - ax)
                   C2 == (bx - ax) * (dy - ay) - (by - ay) * (dx - ax)
                   D1 == (dx - cx) * (ay - cy) - (dy - cy) * (ax - cx)
                   D2 == (dx - cx) * (by - cy) - (dy - cy) * (bx - cx)
               IN D1 - D2 = C2 - C1 /\ D1 * by - D2 * ay = C2 * cy - C1 * dy
    OBVIOUS
  <2> QED  BY <1>1, <2>1 DEF Cross
<1>4. ~ (c1 > 0 <=> c2 > 0) /\ ~ (d1 > 0 <=> d2 > 0)
  OBVIOUS
<1> HIDE DEF c1, c2, d1, d2
<1>5. CASE d1 > 0 /\ d2 <= 0
  <2>1. c2 > 0 /\ c1 <= 0
    BY <1>2, <1>3, <1>4, <1>5
  <2>2. Balanced(d1, d2, c1, c2, a[2], b[2], c[2], d[2])
    BY <1>3, <1>5, <2>1 DEF Balanced
  <2> QED  BY <1>1, <1>2, <2>2, BalancedMeet
<1>6. CASE d2 > 0 /\ d1 <= 0
  <2>1. c1 > 0 /\ c2 <= 0
    BY <1>2, <1>3, <1>4, <1>6
  <2>2. d2 - d1 = c1 - c2 /\ d2 * a[2] - d1 * b[2] = c1 * d[2] - c2 * c[2]
    <3> DEFINE p == d1 * b[2]    q == d2 * a[2]    x == c2 * c[2]    y == c1 * d[2]
    <3>1. p \in Int /\ q \in Int /\ x \in Int /\ y \in Int
      BY <1>1, <1>2
    <3>2. p - q = x - y
      BY <1>3
    <3> HIDE DEF p, q, x, y
    <3>3. d2 - d1 = c1 - c2 /\ q - p = y - x
      BY <1>2, <1>3, <3>1, <3>2
    <3> QED  BY <3>3 DEF p, q, x, y
  <2>3. Balanced(d2, d1, c2, c1, b[2], a[2], d[2], c[2])
    BY <1>6, <2>1, <2>2 DEF Balanced
  <2>4. ~AllBelow(b[2], a[2], d[2], c[2]) /\ ~AllBelow(d[2], c[2], b[2], a[2])
    BY <1>1, <1>2, <2>3, BalancedMeet
  <2> QED  BY <2>4 DEF AllBelow
<1> QED  BY <1>2, <1>4, <1>5, <1>6

(* compare_segments only throws for segments that touch, if they cover a common
   interval.                                                                *)
LEMMA IncomparableTouch ==
  ASSUME NEW s \in Segment, NEW t \in Segment, ~Comparable(s, t),
         ~Disjoint(XRange(s), XRange(t))
  PROVE  Touch(s, t)
<1> DEFINE o == Oriented(s)
           q == Oriented(t)
<1>1. /\ o \in Segment /\ q \in Segment
      /\ (o[1] = s[1] /\ o[2] = s[2]) \/ (o[1] = s[2] /\ o[2] = s[1])
  BY Orientation
<1>2. (q[1] = t[1] /\ q[2] = t[2]) \/ (q[1] = t[2] /\ q[2] = t[1])
  BY Orientation
<1>3. /\ ~ (Cross(o[1], o[2], q[1]) > 0 <=> Cross(o[1], o[2], q[2]) > 0)
      /\ ~ (Cross(q[1], q[2], o[1]) > 0 <=> Cross(q[1], q[2], o[2]) > 0)
  BY DEF Comparable, Sides, PointToTheLeft
<1> HIDE DEF o, q
<1>4. /\ o[1] \in Int \X Int /\ o[2] \in Int \X Int /\ q[1] \in Int \X Int /\ q[2] \in Int \X Int
      /\ s[1] \in Int \X Int /\ s[2] \in Int \X Int /\ t[1] \in Int \X Int /\ t[2] \in Int \X Int
  BY <1>1 DEF Segment
<1>5. /\ ~AllBelow(o[1][2], o[2][2], q[1][2], q[2][2])
      /\ ~AllBelow(q[1][2], q[2][2], o[1][2], o[2][2])
  BY <1>3, <1>4, CommonOrdinate
<1>6. ~Disjoint(YRange(s), YRange(t))
  <2>1. /\ s[1][2] \in Int /\ s[2][2] \in Int /\ t[1][2] \in Int /\ t[2][2] \in Int
    BY <1>4
  <2>2. /\ ~AllBelow(s[1][2], s[2][2], t[1][2], t[2][2])
        /\ ~AllBelow(t[1][2], t[2][2], s[1][2], s[2][2])
    BY <1>1, <1>2, <1>5 DEF AllBelow
  <2>3. /\ YRange(s) \in Int \X Int /\ YRange(t) \in Int \X Int
        /\ YRange(s) = IF s[1][2] <= s[2][2] THEN <<s[1][2], s[2][2]>> ELSE <<s[2][2], s[1][2]>>
        /\ YRange(t) = IF t[1][2] <= t[2][2] THEN <<t[1][2], t[2][2]>> ELSE <<t[2][2], t[1][2]>>
    BY Ranges
  <2>4. ~ (YRange(s)[1] > YRange(t)[2]) /\ ~ (YRange(t)[1] > YRange(s)[2])
    BY <2>1, <2>2, <2>3 DEF AllBelow
  <2>5. YRange(s)[1] <= YRange(s)[2] /\ YRange(t)[1] <= YRange(t)[2]
    BY Ranges
  <2> QED  BY <2>1, <2>3, <2>4, <2>5, DisjointMeans
<1>7. \A x, y \in Int : Opposite(x, y) => Opposite(y, x) /\ Opposite(-x, -y)
  BY DEF Opposite
<1>8. ASSUME NEW a \in Int \X Int, NEW b \in Int \X Int, NEW c \in Int \X Int, NEW d \in Int \X Int,
             ~ (Cross(a, b, c) > 0 <=> Cross(a, b, d) > 0)
      PROVE  /\ Opposite(Cross(a, b, c), Cross(a, b, d)) /\ Opposite(Cross(a, b, d), Cross(a, b, c))
             /\ Opposite(Cross(b, a, c), Cross(b, a, d)) /\ Opposite(Cross(b, a, d), Cross(b, a, c))
  <2>1. /\ Cross(a, b, c) \in Int /\ Cross(b, a, c) = - Cross(a, b, c)
        /\ Cross(a, b, d) \in Int /\ Cross(b, a, d) = - Cross(a, b, d)
    BY Reversed
  <2>2. Opposite(Cross(a, b, c), Cross(a, b, d))
    BY <1>8, <2>1 DEF Opposite
  <2> QED  BY <1>7, <2>1, <2>2
<1>9. Opposite(Cross(s[1], s[2], t[1]), Cross(s[1], s[2], t[2]))
  BY <1>1, <1>2, <1>3, <1>4, <1>8
<1>10. Opposite(Cross(t[1], t[2], s[1]), Cross(t[1], t[2], s[2]))
  BY <1>1, <1>2, <1>3, <1>4, <1>8
<1> QED  BY <1>6, <1>9, <1>10 DEF Touch

LEMMA ComparableToItself ==
  ASSUME NEW s \in Segment
  PROVE  Comparable(s, s)
<1> DEFINE o == Oriented(s)
<1>1. o[1] \in Int \X Int /\ o[2] \in Int \X Int
  <2>1. o \in Segment
    BY Orientation
  <2> HIDE DEF o
  <2> QED  BY <2>1 DEF Segment
<1>2. ASSUME NEW a \in Int \X Int, NEW b \in Int \X Int PROVE Cross(a, b, a) = 0 /\ Cross(a, b, b) = 0
  <2>1. a[1] \in Int /\ a[2] \in Int /\ b[1] \in Int /\ b[2] \in Int
    OBVIOUS
  <2>2. ASSUME NEW u \in Int, NEW v \in Int, NEW w \in Int, NEW z \in Int
        PROVE  (w - u) * (v - v) - (z - v) * (u - u) = 0 /\ (w - u) * (z - v) - (z - v) * (w - u) = 0
    OBVIOUS
  <2> QED  BY <2>1, <2>2 DEF Cross
<1> HIDE DEF o
<1>3. Cross(o[1], o[2], o[1]) = 0 /\ Cross(o[1], o[2], o[2]) = 0
  BY <1>1, <1>2
<1>4. Sides(s, s)[1] = Sides(s, s)[2]
  BY <1>3 DEF Sides, PointToTheLeft, o
<1> QED  BY <1>4 DEF Comparable

(* x and y swapped. *)
Mirrored(s) == <<Swapped(s[1]), Swapped(s[2])>>

LEMMA Mirror ==
  ASSUME NEW s \in Segment
  PROVE  /\ Mirrored(s) \in Segment
         /\ Mirrored(s)[1] = Swapped(s[1]) /\ Mirrored(s)[2] = Swapped(s[2])
         /\ XRange(Mirrored(s)) = YRange(s) /\ YRange(Mirrored(s)) = XRange(s)
<1>1. Mirrored(s)[1] = <<s[1][2], s[1][1]>> /\ Mirrored(s)[2] = <<s[2][2], s[2][1]>>
  BY DEF Mirrored, Swapped
<1>2. s[1][1] \in Int /\ s[2][1] \in Int /\ s[1][2] \in Int /\ s[2][2] \in Int
  BY DEF Segment
<1>3. Mirrored(s) \in Segment
  BY <1>2 DEF Segment, Mirrored, Swapped
<1>4. XRange(Mirrored(s)) = YRange(s) /\ YRange(Mirrored(s)) = XRange(s)
  BY <1>1 DEF XRange, YRange
<1> QED  BY <1>1, <1>3, <1>4 DEF Swapped

LEMMA MirrorCross ==
  ASSUME NEW a \in Int \X Int, NEW b \in Int \X Int, NEW p \in Int \X Int
  PROVE  Cross(Swapped(a), Swapped(b), Swapped(p)) = - Cross(a, b, p)
<1>1. /\ a[1] \in Int /\ a[2] \in Int /\ b[1] \in Int /\ b[2] \in Int /\ p[1] \in Int /\ p[2] \in Int
  OBVIOUS
<1>2. ASSUME NEW ax \in Int, NEW ay \in Int, NEW bx \in Int, NEW by \in Int, NEW x \in Int, NEW y \in Int
      PROVE  (by - ay) * (x - ax) - (bx - ax) * (y - ay) = - ((bx - ax) * (y - ay) - (by - ay) * (x - ax))
  OBVIOUS
<1> QED  BY <1>1, <1>2 DEF Cross, Swapped

LEMMA MirroredTouch ==
  ASSUME NEW s \in Segment, NEW t \in Segment, Touch(Mirrored(s), Mirrored(t))
  PROVE  Touch(s, t)
<1>1. \A x, y \in Int : Opposite(-x, -y) => Opposite(x, y)
  BY DEF Opposite
<1>2. s[1] \in Int \X Int /\ s[2] \in Int \X Int /\ t[1] \in Int \X Int /\ t[2] \in Int \X Int
  BY DEF Segment
<1>3. ASSUME NEW a \in Int \X Int, NEW b \in Int \X Int, NEW c \in Int \X Int, NEW d \in Int \X Int,
             Opposite(Cross(Swapped(a), Swapped(b), Swapped(c)), Cross(Swapped(a), Swapped(b), Swapped(d)))
      PROVE  Opposite(Cross(a, b, c), Cross(a, b, d))
  BY <1>1, <1>3, Reversed, MirrorCross
<1>4. /\ Opposite(Cross(Swapped(s[1]), Swapped(s[2]), Swapped(t[1])), Cross(Swapped(s[1]), Swapped(s[2]), Swapped(t[2])))
      /\ Opposite(Cross(Swapped(t[1]), Swapped(t[2]), Swapped(s[1])), Cross(Swapped(t[1]), Swapped(t[2]), Swapped(s[2])))
  BY Mirror DEF Touch
<1>5. ~Disjoint(XRange(s), XRange(t)) /\ ~Disjoint(YRange(s), YRange(t))
  BY Mirror DEF Touch
<1> QED  BY <1>2, <1>3, <1>4, <1>5 DEF Touch

LEMMA AlongVectors ==
  ASSUME Vector(segments), NEW axis \in {"x", "y"}
  PROVE  /\ Vector(Along(axis)) /\ DOMAIN Along(axis) = Indices /\ Len(Along(axis)) = Len(segments)
         /\ \A i \in Indices :
              /\ segments[i] \in Segment
              /\ Along(axis)[i] = IF axis = "x" THEN segments[i] ELSE Mirrored(segments[i])
<1>1. Len(segments) \in Nat \ {0} /\ DOMAIN segments = Indices /\ \A i \in Indices : segments[i] \in Segment
  BY VectorElements DEF Indices
<1>2. CASE axis = "x"
  BY <1>1, <1>2 DEF Along, Indices
<1>3. CASE axis = "y"
  <2>1. Along(axis) = [i \in Indices |-> Mirrored(segments[i])]
    BY <1>3 DEF Along, Mirrored
  <2>2. \A i \in Indices : Mirrored(segments[i]) \in Segment
    BY <1>1, Mirror
  <2>3. Along(axis) \in [1 .. Len(segments) -> Segment]
    BY <2>1, <2>2 DEF Indices
  <2>4. Along(axis) \in Seq(Segment)
    BY <1>1, <2>3, SeqDef
  <2>5. Len(Along(axis)) = Len(segments)
    BY <1>1, <2>3, <2>4, LenProperties
  <2>6. Along(axis) # <<>>
    BY <1>1, <2>5
  <2> QED  BY <1>1, <1>3, <2>1, <2>4, <2>5, <2>6 DEF Vector
<1> QED  BY <1>2, <1>3

(* So the constructor only fails for vectors that may fail. *)
LEMMA ThrowsForTouching ==
  ASSUME Vector(segments), NEW axis \in {"x", "y"}, MayThrow(Along(axis), Levels(Along(axis)))
  PROVE  MayFail(segments)
<1> DEFINE segs == Along(axis)
           T == Levels(segs)
<1>0. /\ Vector(segs) /\ DOMAIN segs = Indices
      /\ \A i \in Indices : /\ segments[i] \in Segment /\ segs[i] \in Segment
                            /\ segs[i] = IF axis = "x" THEN segments[i] ELSE Mirrored(segments[i])
  BY AlongVectors, Mirror
<1>1. WellBuilt(segs, T)
  BY <1>0, TreesAreWellBuilt
<1>2. PICK n \in Nodes(T) : Clash(segs, StoredAt(segs, T, n))
  BY <1>1 DEF MayThrow
<1>3. PICK i \in StoredAt(segs, T, n), j \in StoredAt(segs, T, n) : ~Comparable(segs[i], segs[j])
  BY <1>2 DEF Clash
<1>4. Interval(T, n) \in Int \X Int
  BY <1>0, LevelsAreTower, NodesOf
<1> HIDE DEF T, segs
<1>5. /\ i \in Indices /\ j \in Indices
      /\ Stores(T, XRange(segs[i]), n) /\ Stores(T, XRange(segs[j]), n)
  BY <1>0, <1>3 DEF StoredAt
<1>6. i # j
  BY <1>0, <1>3, <1>5, ComparableToItself
<1>7. ~Disjoint(XRange(segs[i]), XRange(segs[j]))
  <2> DEFINE r == XRange(segs[i])    q == XRange(segs[j])    v == Interval(T, n)
  <2>1. r \in Int \X Int /\ q \in Int \X Int /\ r[1] <= r[2] /\ q[1] <= q[2]
    BY <1>0, <1>5, Ranges
  <2>2. ~Disjoint(r, v) /\ Covers(r, v) /\ Covers(q, v)
    BY <1>5 DEF Stores
  <2> HIDE DEF r, q, v
  <2>3. v \in Int \X Int
    BY <1>4 DEF v
  <2>4. v[1] <= v[2] /\ r[1] <= v[1] /\ v[2] <= r[2] /\ q[1] <= v[1] /\ v[2] <= q[2]
    BY <2>1, <2>2, <2>3, DisjointMeans DEF Covers
  <2>5. ~Disjoint(r, q)
    BY <2>1, <2>3, <2>4, DisjointMeans
  <2> QED  BY <2>5 DEF r, q
<1>8. Touch(segs[i], segs[j])
  BY <1>0, <1>3, <1>5, <1>7, IncomparableTouch
<1>9. Touch(segments[i], segments[j])
  BY <1>0, <1>5, <1>8, MirroredTouch
<1>10. DOMAIN segments = Indices
  BY VectorElements DEF Indices
<1> QED  BY <1>5, <1>6, <1>9, <1>10 DEF MayFail

-----------------------------------------------------------------------------
(* The lists of the nodes. *)

LEMMA NodesAreFinite ==
  ASSUME NEW T, NEW lo, NEW hi, Tower(T, lo, hi)
  PROVE  IsFiniteSet(Nodes(T))
<1>1. Len(T) \in Nat /\ DOMAIN T = 1 .. Len(T) /\ \A k \in 1 .. Len(T) : Len(T[k]) \in Nat
  BY DEF Tower, Row
<1> DEFINE Row1(k) == {<<k, i>> : i \in 1 .. Len(T[k])}
<1>2. ASSUME NEW k \in 1 .. Len(T) PROVE IsFiniteSet(Row1(k))
  <2> DEFINE f == [i \in 1 .. Len(T[k]) |-> <<k, i>>]
  <2>1. IsFiniteSet(1 .. Len(T[k]))
    BY <1>1, FS_Interval
  <2>2. f \in Surjection(1 .. Len(T[k]), Row1(k))
    BY DEF Surjection
  <2> QED  BY <2>1, <2>2, FS_Surjection
<1> DEFINE R == {Row1(k) : k \in 1 .. Len(T)}
<1>3. IsFiniteSet(R)
  <2> DEFINE f == [k \in 1 .. Len(T) |-> Row1(k)]
  <2>1. IsFiniteSet(1 .. Len(T))
    BY <1>1, FS_Interval
  <2>2. f \in Surjection(1 .. Len(T), R)
    <3> HIDE DEF Row1
    <3> QED  BY DEF Surjection
  <2> QED  BY <2>1, <2>2, FS_Surjection
<1>4. \A S \in R : IsFiniteSet(S)
  BY <1>2
<1>5. IsFiniteSet(UNION R)
  <2> HIDE DEF R
  <2> QED  BY <1>3, <1>4, FS_UNION
<1>6. Nodes(T) = UNION R
  BY <1>1 DEF Nodes
<1> QED  BY <1>5, <1>6

LEMMA ListsAreSorted ==
  ASSUME NEW segs, NEW T, IsFiniteSet(Nodes(T)), NEW lists \in Lists(segs, T)
  PROVE  /\ DOMAIN lists = Nodes(T)
         /\ \A n \in Nodes(T) : lists[n] \in SortSegments(segs, StoredAt(segs, T, n))
<1> DEFINE N == Nodes(T)
           Orders(n) == SortSegments(segs, StoredAt(segs, T, n))
           O == UNION {Orders(n) : n \in N}
           W == UNION {[D -> O] : D \in SUBSET N}
           V == [SUBSET N -> SUBSET W]
           WithList(n, L) == {With(f, n, order) : f \in L, order \in Orders(n)}
           pick(s) == CHOOSE x \in s : TRUE
           Body(G, s) == IF s = {} THEN {<<>>} ELSE WithList(pick(s), G[s \ {pick(s)}])
           step == [G \in V |-> [s \in SUBSET N |-> Body(G, s)]]
           iter == CHOOSE iter : iter = [s \in SUBSET N |-> Body(iter, s)]
           c == Cardinality(N)
<1>1. Lists(segs, T) = iter[N]
  BY DEF Lists, FoldSet, MapThenFoldSet
<1>2. ASSUME NEW f, NEW n, NEW e
      PROVE  With(f, n, e) = [x \in DOMAIN f \cup {n} |-> IF x = n THEN e ELSE f[x]]
  BY DEF With
<1>3. c \in Nat /\ IsFiniteSet(N) /\ \A s \in SUBSET N : IsFiniteSet(s) /\ Cardinality(s) \in Nat /\ Cardinality(s) <= c
  BY FS_CardinalityType, FS_Subset
<1>4. \A s \in SUBSET N : s # {} => pick(s) \in s /\ pick(s) \in N /\ s \ {pick(s)} \in SUBSET N
                                    /\ Cardinality(s \ {pick(s)}) = Cardinality(s) - 1
  <2> HIDE DEF N, c
  <2>1. \A s \in SUBSET N : s # {} => pick(s) \in s
    OBVIOUS
  <2> HIDE DEF pick
  <2> QED  BY <1>3, <2>1, FS_RemoveElement
<1> HIDE DEF N, pick, c, Orders
<1>5. \A n \in N, L \in SUBSET W : WithList(n, L) \in SUBSET W
  <2> HIDE DEF W
  <2> SUFFICES ASSUME NEW n \in N, NEW L \in SUBSET W, NEW f \in L, NEW order \in Orders(n)
               PROVE  With(f, n, order) \in W
    OBVIOUS
  <2>1. PICK D \in SUBSET N : f \in [D -> O]
    BY DEF W
  <2>2. order \in O
    OBVIOUS
  <2> HIDE DEF O
  <2>3. With(f, n, order) \in [D \cup {n} -> O]
    BY <1>2, <2>1, <2>2
  <2>4. D \cup {n} \in SUBSET N
    OBVIOUS
  <2> QED  BY <2>3, <2>4 DEF W
<1>6. {<<>>} \in SUBSET W
  <2> HIDE DEF O
  <2>1. <<>> \in [{} -> O] /\ {} \in SUBSET N
    OBVIOUS
  <2> QED  BY <2>1
<1> HIDE DEF W, WithList
<1>7. step \in [V -> V]
  <2>1. ASSUME NEW G \in V, NEW s \in SUBSET N PROVE Body(G, s) \in SUBSET W
    <3>1. CASE s = {}
      BY <1>6, <3>1
    <3>2. CASE s # {}
      BY <1>4, <1>5, <3>2
    <3> QED  BY <3>1, <3>2
  <2> HIDE DEF Body
  <2> QED  BY <2>1
<1>8. \E G \in V : TRUE
  <2>1. [s \in SUBSET N |-> {<<>>}] \in V
    BY <1>6
  <2> QED  BY <2>1
<1>9. PICK G0 \in V : TRUE
  BY <1>8
<1> DEFINE steps == [k \in 1 .. c + 1 |-> step]
<1>10. steps \in [1 .. c + 1 -> [V -> V]] /\ c + 1 \in Nat
  <2> HIDE DEF step, V
  <2> QED  BY <1>3, <1>7
<1> HIDE DEF V, steps
<1>11. PICK g \in [0 .. c + 1 -> V] : Follows(g, G0, steps, c + 1)
  BY <1>9, <1>10, Recursion
<1>12. ASSUME NEW m \in 0 .. c, NEW s \in SUBSET N PROVE g[m + 1][s] = Body(g[m], s)
  <2>1. m + 1 \in 1 .. c + 1 /\ (m + 1) - 1 = m /\ m \in 0 .. c + 1
    BY <1>3
  <2>2. g[m + 1] = step[g[m]] /\ g[m] \in V
    <3>1. steps[m + 1] = step
      BY <2>1 DEF steps
    <3>2. g[m + 1] = steps[m + 1][g[(m + 1) - 1]]
      BY <1>11, <2>1 DEF Follows
    <3> HIDE DEF step
    <3> QED  BY <2>1, <3>1, <3>2
  <2> HIDE DEF Body
  <2> QED  BY <2>2
<1> DEFINE Settled == {m \in Nat : m + 1 <= c => \A s \in SUBSET N : Cardinality(s) <= m => g[m + 2][s] = g[m + 1][s]}
<1>13. 0 \in Settled
  <2> SUFFICES ASSUME 0 + 1 <= c, NEW s \in SUBSET N, Cardinality(s) <= 0 PROVE g[0 + 2][s] = g[0 + 1][s]
    OBVIOUS
  <2>1. s = {}
    BY <1>3, FS_EmptySet
  <2>2. 0 \in 0 .. c /\ 1 \in 0 .. c
    BY <1>3
  <2> HIDE DEF Body
  <2>3. g[0 + 1][s] = Body(g[0], s) /\ g[1 + 1][s] = Body(g[1], s)
    BY <1>12, <2>2
  <2>4. Body(g[0], s) = Body(g[1], s)
    BY <2>1 DEF Body
  <2>5. 0 + 2 = 1 + 1
    OBVIOUS
  <2> QED  BY <2>3, <2>4, <2>5
<1>14. ASSUME NEW m \in Nat, m \in Settled PROVE m + 1 \in Settled
  <2> SUFFICES ASSUME (m + 1) + 1 <= c, NEW s \in SUBSET N, Cardinality(s) <= m + 1
               PROVE  g[(m + 1) + 2][s] = g[(m + 1) + 1][s]
    OBVIOUS
  <2>1. g[(m + 1) + 1][s] = Body(g[m + 1], s) /\ g[(m + 2) + 1][s] = Body(g[m + 2], s)
    <3>1. m + 1 \in 0 .. c /\ m + 2 \in 0 .. c
      BY <1>3
    <3> HIDE DEF Body
    <3> QED  BY <1>12, <3>1
  <2>2. s # {} => g[m + 2][s \ {pick(s)}] = g[m + 1][s \ {pick(s)}]
    <3>1. ASSUME s # {} PROVE s \ {pick(s)} \in SUBSET N /\ Cardinality(s \ {pick(s)}) <= m
      <4>1. s \ {pick(s)} \in SUBSET N /\ Cardinality(s \ {pick(s)}) = Cardinality(s) - 1 /\ Cardinality(s) \in Nat
        BY <1>3, <1>4, <3>1
      <4> QED  BY <4>1
    <3>2. m + 1 <= c
      BY <1>3
    <3> QED  BY <1>14, <3>1, <3>2
  <2>3. Body(g[m + 1], s) = Body(g[m + 2], s)
    BY <2>2
  <2>4. (m + 1) + 2 = (m + 2) + 1
    OBVIOUS
  <2> HIDE DEF Body
  <2> QED  BY <2>1, <2>3, <2>4
<1>15. Nat \subseteq Settled
  <2> HIDE DEF Settled
  <2> QED  BY <1>13, <1>14, Induction
<1> DEFINE f == [s \in SUBSET N |-> g[c + 1][s]]
<1>16. ASSUME NEW s \in SUBSET N PROVE g[c + 1][s] = Body(f, s)
  <2>1. g[c + 1][s] = Body(g[c], s)
    <3>1. c \in 0 .. c
      BY <1>3
    <3> HIDE DEF Body
    <3> QED  BY <1>12, <3>1
  <2>2. ASSUME s # {} PROVE g[c][s \ {pick(s)}] = f[s \ {pick(s)}]
    <3>1. s \ {pick(s)} \in SUBSET N /\ Cardinality(s \ {pick(s)}) = Cardinality(s) - 1 /\ Cardinality(s) \in Nat /\ Cardinality(s) <= c
      BY <1>3, <1>4, <2>2
    <3>2. Cardinality(s) # 0
      BY <1>3, <2>2, FS_EmptySet
    <3>3. c - 1 \in Nat /\ c - 1 \in Settled /\ (c - 1) + 1 = c /\ (c - 1) + 2 = c + 1 /\ Cardinality(s \ {pick(s)}) <= c - 1
      BY <1>3, <1>15, <3>1, <3>2
    <3>4. \A t \in SUBSET N : Cardinality(t) <= c - 1 => g[(c - 1) + 2][t] = g[(c - 1) + 1][t]
      BY <1>3, <3>3
    <3> QED  BY <3>1, <3>3, <3>4
  <2> HIDE DEF f
  <2> QED  BY <2>1, <2>2
<1>17. f = [s \in SUBSET N |-> Body(f, s)]
  BY <1>16
<1>18. iter = [s \in SUBSET N |-> Body(iter, s)]
  <2> HIDE DEF f, Body
  <2> QED  BY <1>17
<1> HIDE DEF iter
<1>19. \A s \in SUBSET N : iter[s] = Body(iter, s)
  <2> HIDE DEF Body
  <2> QED  BY <1>18
<1> DEFINE Right(s) == \A h \in iter[s] : DOMAIN h = s /\ \A n \in s : h[n] \in Orders(n)
           Good == {m \in Nat : \A s \in SUBSET N : Cardinality(s) = m => Right(s)}
<1>20. 0 \in Good
  <2> SUFFICES ASSUME NEW s \in SUBSET N, Cardinality(s) = 0, NEW h \in iter[s]
               PROVE  DOMAIN h = s /\ \A n \in s : h[n] \in Orders(n)
    OBVIOUS
  <2>1. s = {}
    BY <1>3, FS_EmptySet
  <2>2. h = <<>>
    BY <1>19, <2>1
  <2> QED  BY <2>1, <2>2
<1>21. ASSUME NEW m \in Nat, m \in Good PROVE m + 1 \in Good
  <2> SUFFICES ASSUME NEW s \in SUBSET N, Cardinality(s) = m + 1, NEW h \in iter[s]
               PROVE  DOMAIN h = s /\ \A n \in s : h[n] \in Orders(n)
    OBVIOUS
  <2> DEFINE p == pick(s)    t == s \ {p}
  <2>1. s # {}
    BY FS_EmptySet
  <2>2. p \in s /\ t \in SUBSET N /\ Cardinality(t) = m
    BY <1>4, <2>1
  <2> HIDE DEF p, t
  <2>3. h \in WithList(p, iter[t])
    BY <1>19, <2>1 DEF p, t
  <2>4. PICK f1 \in iter[t], order \in Orders(p) : h = With(f1, p, order)
    BY <2>3 DEF WithList
  <2>5. Right(t)
    BY <1>21, <2>2
  <2>6. DOMAIN f1 = t /\ \A n \in t : f1[n] \in Orders(n)
    BY <2>5
  <2>7. h = [x \in t \cup {p} |-> IF x = p THEN order ELSE f1[x]] /\ t \cup {p} = s
    BY <1>2, <2>2, <2>4, <2>6 DEF t
  <2> HIDE DEF Orders
  <2>8. p \notin t
    BY DEF t
  <2> QED  BY <2>4, <2>6, <2>7, <2>8
<1>22. Nat \subseteq Good
  <2> HIDE DEF Good
  <2> QED  BY <1>20, <1>21, Induction
<1>23. Right(N)
  <2>1. c \in Good
    BY <1>3, <1>22
  <2> QED  BY <2>1 DEF c
<1> QED  BY <1>1, <1>23 DEF N, Orders

(* A list has every element, and each only once. *)
LEMMA Permutation ==
  ASSUME NEW S, IsFiniteSet(S), NEW order \in SetToSeqs(S)
  PROVE  /\ Len(order) = Cardinality(S) /\ Len(order) \in Nat /\ DOMAIN order = 1 .. Len(order)
         /\ \A k \in DOMAIN order : order[k] \in S
         /\ \A i \in S : \E k \in DOMAIN order : order[k] = i
<1> DEFINE n == Cardinality(S)
<1>1. n \in Nat
  BY FS_CardinalityType
<1>2. order \in [1 .. n -> S] /\ \A i, j \in 1 .. n : i # j => order[i] # order[j]
  BY DEF SetToSeqs
<1> HIDE DEF n
<1>3. order \in Seq(S)
  BY <1>1, <1>2, SeqDef
<1>4. Len(order) = n
  BY <1>1, <1>2, <1>3, LenProperties
<1>5. order \in Injection(1 .. n, S)
  BY <1>2 DEF Injection, IsInjective
<1>6. Cardinality(1 .. n) = n
  BY <1>1, FS_Interval
<1>7. order \in Surjection(1 .. n, S)
  BY <1>5, <1>6, FS_Injection DEF n
<1>8. \A i \in S : \E k \in 1 .. n : order[k] = i
  BY <1>7 DEF Surjection
<1> QED  BY <1>1, <1>2, <1>4, <1>8 DEF n

-----------------------------------------------------------------------------
(* The bisection. *)

Monotone(before, n) == \A i, j \in 1 .. n : i < j /\ before[j] => before[i]

Bisected(before, n, b) ==
  /\ b \in 0 .. n
  /\ Monotone(before, n) => \A k \in 1 .. n : before[k] <=> k <= b

(* What those that come before end at, if they do between a and a + len. *)
Cuts(before, n, a, len, b) ==
  /\ b \in Int /\ a <= b /\ b <= a + len
  /\ (/\ Monotone(before, n)
      /\ \A k \in 1 .. n : k <= a => before[k]
      /\ \A k \in 1 .. n : k > a + len => ~before[k])
     => \A k \in 1 .. n : before[k] <=> k <= b

LEMMA Halves ==
  ASSUME NEW before, NEW n \in Nat, NEW a \in Nat, NEW len \in Nat, NEW h \in Nat, h < len, a + len <= n,
         NEW b,
         \/ before[a + h + 1] /\ Cuts(before, n, a + h + 1, len - h - 1, b)
         \/ ~before[a + h + 1] /\ Cuts(before, n, a, h, b)
  PROVE  Cuts(before, n, a, len, b)
<1> DEFINE mid == a + h + 1
<1>1. mid \in 1 .. n /\ mid \in Int /\ mid <= a + len /\ mid > a /\ mid + (len - h - 1) = a + len /\ a + h = mid - 1
  OBVIOUS
<1>2. \/ before[mid] /\ Cuts(before, n, mid, len - h - 1, b)
      \/ ~before[mid] /\ Cuts(before, n, a, h, b)
  OBVIOUS
<1> HIDE DEF mid
<1>3. CASE before[mid] /\ Cuts(before, n, mid, len - h - 1, b)
  <2>1. /\ b \in Int /\ mid <= b /\ b <= a + len
        /\ (/\ Monotone(before, n)
            /\ \A k \in 1 .. n : k <= mid => before[k]
            /\ \A k \in 1 .. n : k > a + len => ~before[k])
           => \A k \in 1 .. n : before[k] <=> k <= b
    BY <1>1, <1>3 DEF Cuts
  <2>2. Monotone(before, n) => \A k \in 1 .. n : k <= mid => before[k]
    <3>1. \A k \in 1 .. n : k <= mid => k = mid \/ k < mid
      BY <1>1
    <3> QED  BY <1>1, <1>3, <3>1 DEF Monotone
  <2>3. a <= b
    BY <1>1, <2>1
  <2> QED  BY <2>1, <2>2, <2>3 DEF Cuts
<1>4. CASE ~before[mid] /\ Cuts(before, n, a, h, b)
  <2>1. /\ b \in Int /\ a <= b /\ b <= mid - 1
        /\ (/\ Monotone(before, n)
            /\ \A k \in 1 .. n : k <= a => before[k]
            /\ \A k \in 1 .. n : k > mid - 1 => ~before[k])
           => \A k \in 1 .. n : before[k] <=> k <= b
    BY <1>1, <1>4 DEF Cuts
  <2>2. Monotone(before, n) => \A k \in 1 .. n : k > mid - 1 => ~before[k]
    <3>1. \A k \in 1 .. n : k > mid - 1 => k = mid \/ mid < k
      BY <1>1
    <3> QED  BY <1>1, <1>4, <3>1 DEF Monotone
  <2>3. b <= a + len
    BY <1>1, <2>1
  <2> QED  BY <2>1, <2>2, <2>3 DEF Cuts
<1> QED  BY <1>2, <1>3, <1>4

LEMMA Bisection ==
  ASSUME NEW before, NEW n \in Nat, Len(before) = n
  PROVE  Bisected(before, n, LowerBound(before))
<1> DEFINE D == {r \in (0 .. n) \X (0 .. n) : r[1] + r[2] <= n}
           V == [D -> 0 .. n]
           Body(G, q) == LET first == q[1]    len == q[2]    half == len \div 2 IN
                         IF len = 0 THEN first
                         ELSE IF before[first + half + 1] THEN G[<<first + half + 1, len - half - 1>>]
                         ELSE G[<<first, half>>]
           step == [G \in V |-> [q \in D |-> Body(G, q)]]
           bound == CHOOSE bound : bound = [q \in D |-> Body(bound, q)]
<1>1. LowerBound(before) = bound[<<0, n>>]
  BY DEF LowerBound
<1>2. ASSUME NEW q \in D
      PROVE  /\ q[1] \in Nat /\ q[2] \in Nat /\ q[1] + q[2] <= n /\ q[1] \in 0 .. n /\ q[2] \in 0 .. n
             /\ q[2] # 0 => /\ <<q[1], q[2] \div 2>> \in D
                            /\ <<q[1] + q[2] \div 2 + 1, q[2] - q[2] \div 2 - 1>> \in D
                            /\ q[2] \div 2 \in Nat /\ q[2] \div 2 < q[2]
                            /\ q[2] - q[2] \div 2 - 1 \in Nat /\ q[2] - q[2] \div 2 - 1 < q[2]
  <2>1. q[1] \in Nat /\ q[2] \in Nat /\ q[1] + q[2] <= n
    OBVIOUS
  <2> DEFINE h == q[2] \div 2
  <2>2. h \in Nat /\ (q[2] # 0 => h < q[2])
    BY <2>1
  <2> HIDE DEF h
  <2>3. q[2] # 0 => /\ q[1] + h <= n /\ h <= n
                    /\ q[1] + h + 1 \in 0 .. n /\ q[2] - h - 1 \in 0 .. n
                    /\ (q[1] + h + 1) + (q[2] - h - 1) <= n
    BY <2>1, <2>2
  <2> QED  BY <2>1, <2>2, <2>3 DEF h
<1>3. step \in [V -> V]
  <2>1. ASSUME NEW G \in V, NEW q \in D PROVE Body(G, q) \in 0 .. n
    BY <1>2
  <2> HIDE DEF Body, D
  <2> QED  BY <2>1
<1> DEFINE steps == [k \in 1 .. n + 1 |-> step]
           G0 == [q \in D |-> 0]
<1>4. steps \in [1 .. n + 1 -> [V -> V]] /\ n + 1 \in Nat /\ G0 \in V
  <2>1. G0 \in V
    <3> HIDE DEF D
    <3> QED  OBVIOUS
  <2> HIDE DEF step, V, G0
  <2> QED  BY <1>3, <2>1
<1> HIDE DEF V, steps, D, G0
<1>5. PICK g \in [0 .. n + 1 -> V] : Follows(g, G0, steps, n + 1)
  BY <1>4, Recursion
<1>6. ASSUME NEW m \in 0 .. n, NEW q \in D PROVE g[m + 1][q] = Body(g[m], q)
  <2>1. m + 1 \in 1 .. n + 1 /\ (m + 1) - 1 = m /\ m \in 0 .. n + 1
    OBVIOUS
  <2>2. g[m + 1] = step[g[m]] /\ g[m] \in V
    <3>1. steps[m + 1] = step
      BY <2>1 DEF steps
    <3>2. g[m + 1] = steps[m + 1][g[(m + 1) - 1]]
      BY <1>5, <2>1 DEF Follows
    <3> HIDE DEF step
    <3> QED  BY <2>1, <3>1, <3>2
  <2> HIDE DEF Body
  <2> QED  BY <2>2
<1> DEFINE Settled == {m \in Nat : m + 1 <= n => \A q \in D : q[2] <= m => g[m + 2][q] = g[m + 1][q]}
<1>7. 0 \in Settled
  <2> SUFFICES ASSUME 0 + 1 <= n, NEW q \in D, q[2] <= 0 PROVE g[0 + 2][q] = g[0 + 1][q]
    OBVIOUS
  <2>1. q[2] = 0
    <3>1. q[2] \in Nat
      BY <1>2
    <3> QED  BY <3>1
  <2>2. 0 \in 0 .. n /\ 1 \in 0 .. n
    OBVIOUS
  <2> HIDE DEF Body
  <2>3. g[0 + 1][q] = Body(g[0], q) /\ g[1 + 1][q] = Body(g[1], q)
    BY <1>6, <2>2
  <2>4. Body(g[0], q) = Body(g[1], q)
    BY <2>1 DEF Body
  <2>5. 0 + 2 = 1 + 1
    OBVIOUS
  <2> QED  BY <2>3, <2>4, <2>5
<1>8. ASSUME NEW m \in Nat, m \in Settled PROVE m + 1 \in Settled
  <2> SUFFICES ASSUME (m + 1) + 1 <= n, NEW q \in D, q[2] <= m + 1
               PROVE  g[(m + 1) + 2][q] = g[(m + 1) + 1][q]
    OBVIOUS
  <2>1. m + 1 \in 0 .. n /\ m + 2 \in 0 .. n /\ m + 1 <= n
    OBVIOUS
  <2>2. \A p \in D : p[2] <= m => g[m + 2][p] = g[m + 1][p]
    BY <1>8, <2>1
  <2>3. Body(g[m + 1], q) = Body(g[m + 2], q)
    <3>1. CASE q[2] = 0
      BY <3>1
    <3>2. CASE q[2] # 0
      <4> DEFINE l == <<q[1], q[2] \div 2>>
                 r == <<q[1] + q[2] \div 2 + 1, q[2] - q[2] \div 2 - 1>>
      <4>1. l \in D /\ r \in D /\ l[2] \in Nat /\ l[2] < q[2] /\ r[2] \in Nat /\ r[2] < q[2] /\ q[2] \in Nat
        BY <1>2, <3>2
      <4>2. l[2] <= m /\ r[2] <= m
        <5> HIDE DEF l, r
        <5> QED  BY <4>1
      <4>3. g[m + 2][l] = g[m + 1][l] /\ g[m + 2][r] = g[m + 1][r]
        BY <2>2, <4>1, <4>2
      <4> QED  BY <3>2, <4>3
    <3> QED  BY <3>1, <3>2
  <2> HIDE DEF Body
  <2>4. g[(m + 1) + 1][q] = Body(g[m + 1], q) /\ g[(m + 2) + 1][q] = Body(g[m + 2], q)
    BY <1>6, <2>1
  <2>5. (m + 1) + 2 = (m + 2) + 1
    OBVIOUS
  <2> QED  BY <2>3, <2>4, <2>5
<1>9. Nat \subseteq Settled
  <2> HIDE DEF Settled
  <2> QED  BY <1>7, <1>8, Induction
<1> DEFINE f == [q \in D |-> g[n + 1][q]]
<1>10. ASSUME NEW q \in D PROVE g[n + 1][q] = Body(f, q)
  <2>1. g[n + 1][q] = Body(g[n], q)
    <3>1. n \in 0 .. n
      OBVIOUS
    <3> HIDE DEF Body
    <3> QED  BY <1>6, <3>1
  <2>2. CASE q[2] = 0
    BY <2>1, <2>2
  <2>3. CASE q[2] # 0
    <3> DEFINE l == <<q[1], q[2] \div 2>>
               r == <<q[1] + q[2] \div 2 + 1, q[2] - q[2] \div 2 - 1>>
    <3>1. l \in D /\ r \in D /\ l[2] \in Nat /\ l[2] < q[2] /\ r[2] \in Nat /\ r[2] < q[2] /\ q[2] \in Nat /\ q[2] <= n
      BY <1>2, <2>3
    <3>2. l[2] <= n - 1 /\ r[2] <= n - 1 /\ n - 1 \in Nat /\ (n - 1) + 1 <= n /\ (n - 1) + 2 = n + 1 /\ (n - 1) + 1 = n
      <4> HIDE DEF l, r
      <4> QED  BY <3>1
    <3>3. \A p \in D : p[2] <= n - 1 => g[(n - 1) + 2][p] = g[(n - 1) + 1][p]
      BY <1>9, <3>2
    <3>4. g[n + 1][l] = g[n][l] /\ g[n + 1][r] = g[n][r]
      <4> HIDE DEF l, r
      <4> QED  BY <3>1, <3>2, <3>3
    <3>5. f[l] = g[n][l] /\ f[r] = g[n][r]
      <4> HIDE DEF l, r
      <4> QED  BY <3>1, <3>4
    <3> HIDE DEF f
    <3> QED  BY <2>1, <2>3, <3>5
  <2> QED  BY <2>2, <2>3
<1>11. f = [q \in D |-> Body(f, q)]
  BY <1>10
<1>12. bound = [q \in D |-> Body(bound, q)]
  <2> HIDE DEF f, Body
  <2> QED  BY <1>11
<1> HIDE DEF bound
<1>13. \A q \in D : bound[q] = Body(bound, q)
  <2> HIDE DEF Body
  <2> QED  BY <1>12
<1> DEFINE Good == {m \in Nat : \A q \in D : q[2] <= m => Cuts(before, n, q[1], q[2], bound[q])}
<1>14. \A q \in D : q[2] = 0 => Cuts(before, n, q[1], q[2], bound[q])
  <2> SUFFICES ASSUME NEW q \in D, q[2] = 0 PROVE Cuts(before, n, q[1], q[2], bound[q])
    OBVIOUS
  <2> DEFINE a == q[1]
  <2>1. a \in 0 .. n
    BY <1>2
  <2>2. bound[q] = a
    BY <1>13
  <2> HIDE DEF a
  <2>3. \A k \in 1 .. n : k > a + 0 <=> ~ (k <= a)
    BY <2>1
  <2>4. Cuts(before, n, a, 0, a)
    BY <2>1, <2>3 DEF Cuts
  <2> QED  BY <2>2, <2>4 DEF a
<1>15. 0 \in Good
  <2>1. \A q \in D : q[2] \in Nat
    BY <1>2
  <2>2. \A x \in Nat : x <= 0 => x = 0
    OBVIOUS
  <2> QED  BY <1>14, <2>1, <2>2
<1>16. ASSUME NEW m \in Nat, m \in Good PROVE m + 1 \in Good
  <2> SUFFICES ASSUME NEW q \in D, q[2] <= m + 1 PROVE Cuts(before, n, q[1], q[2], bound[q])
    OBVIOUS
  <2>1. CASE q[2] = 0
    BY <1>14, <2>1
  <2>2. CASE q[2] # 0
    <3> DEFINE a == q[1]
               b == q[2]
               h == b \div 2
               l == <<a, h>>
               r == <<a + h + 1, b - h - 1>>
    <3>1. /\ l \in D /\ r \in D /\ h \in Nat /\ h < b
          /\ b - h - 1 \in Nat /\ b - h - 1 < b /\ b \in Nat /\ a \in Nat /\ a + b <= n
      BY <1>2, <2>2
    <3>2. bound[q] = IF before[a + h + 1] THEN bound[r] ELSE bound[l]
      BY <1>13, <2>2
    <3>3. l[1] = a /\ l[2] = h /\ r[1] = a + h + 1 /\ r[2] = b - h - 1 /\ b <= m + 1
      OBVIOUS
    <3> HIDE DEF l, r, h, a, b
    <3>4. l[2] <= m /\ r[2] <= m
      BY <3>1, <3>3
    <3>5. Cuts(before, n, a, h, bound[l]) /\ Cuts(before, n, a + h + 1, b - h - 1, bound[r])
      BY <1>16, <3>1, <3>3, <3>4
    <3>6. \/ before[a + h + 1] /\ Cuts(before, n, a + h + 1, b - h - 1, bound[q])
          \/ ~before[a + h + 1] /\ Cuts(before, n, a, h, bound[q])
      BY <3>2, <3>5
    <3>7. Cuts(before, n, a, b, bound[q])
      BY <3>1, <3>6, Halves
    <3> QED  BY <3>7 DEF a, b
  <2> QED  BY <2>1, <2>2
<1>17. Nat \subseteq Good
  <2> HIDE DEF Good
  <2> QED  BY <1>15, <1>16, Induction
<1>18. <<0, n>> \in D
  BY DEF D
<1>19. Cuts(before, n, 0, n, bound[<<0, n>>])
  <2>1. n \in Good
    BY <1>17
  <2> QED  BY <1>18, <2>1
<1>20. \A k \in 1 .. n : ~ (k <= 0) /\ ~ (k > 0 + n)
  OBVIOUS
<1> DEFINE b == LowerBound(before)
<1>21. Cuts(before, n, 0, n, b)
  BY <1>1, <1>19
<1> HIDE DEF Good, b
<1>22. b \in 0 .. n
  BY <1>21 DEF Cuts
<1>23. Monotone(before, n) => \A k \in 1 .. n : before[k] <=> k <= b
  BY <1>20, <1>21 DEF Cuts
<1> QED  BY <1>22, <1>23 DEF Bisected, b

LEMMA NeighboursSuffice ==
  ASSUME NEW before, NEW n \in Nat, \A k \in 1 .. n - 1 : before[k + 1] => before[k]
  PROVE  Monotone(before, n)
<1> DEFINE S == {m \in Nat : \A i, j \in 1 .. n : j = i + m /\ before[j] => before[i]}
<1>1. 0 \in S
  OBVIOUS
<1>2. ASSUME NEW m \in Nat, m \in S PROVE m + 1 \in S
  <2> SUFFICES ASSUME NEW i \in 1 .. n, NEW j \in 1 .. n, j = i + (m + 1), before[j] PROVE before[i]
    OBVIOUS
  <2>1. j - 1 \in 1 .. n - 1 /\ j - 1 \in 1 .. n /\ j - 1 = i + m /\ (j - 1) + 1 = j
    OBVIOUS
  <2>2. before[j - 1]
    BY <2>1
  <2> QED  BY <1>2, <2>1, <2>2
<1> HIDE DEF S
<1>3. Nat \subseteq S
  BY <1>1, <1>2, Induction
<1>4. ASSUME NEW i \in 1 .. n, NEW j \in 1 .. n, i < j, before[j] PROVE before[i]
  <2>1. j - i \in S /\ j = i + (j - i)
    BY <1>3, <1>4
  <2> QED  BY <1>4, <2>1 DEF S
<1> QED  BY <1>4 DEF Monotone

-----------------------------------------------------------------------------
(* The order of the segments that cover an interval. *)

LEMMA Products ==
  ASSUME NEW a \in Int, NEW b \in Int
  PROVE  /\ a * b \in Int
         /\ a >= 0 /\ b >= 0 => a * b >= 0
         /\ a >= 0 /\ b <= 0 => a * b <= 0
         /\ a > 0 /\ b > 0 => a * b > 0
         /\ a > 0 /\ a * b > 0 => b > 0
         /\ a > 0 /\ a * b >= 0 => b >= 0
<1>1. a * b \in Int
  OBVIOUS
<1>2. a >= 0 /\ b >= 0 => a * b >= 0
  OBVIOUS
<1>3. a >= 0 /\ b <= 0 => a * b <= 0
  OBVIOUS
<1>4. a > 0 /\ b > 0 => a * b > 0
  OBVIOUS
<1>5. a > 0 /\ a * b > 0 => b > 0
  OBVIOUS
<1>6. a > 0 /\ a * b >= 0 => b >= 0
  OBVIOUS
<1> QED  BY <1>1, <1>2, <1>3, <1>4, <1>5, <1>6

(* Where p is above or below a and b, and above or below the line of c and d. *)
LEMMA Affine ==
  ASSUME NEW a \in Int \X Int, NEW b \in Int \X Int, NEW c \in Int \X Int, NEW d \in Int \X Int,
         NEW p \in Int \X Int
  PROVE  (b[1] - a[1]) * Cross(c, d, p) =
           (b[1] - p[1]) * Cross(c, d, a) + (p[1] - a[1]) * Cross(c, d, b) + (d[1] - c[1]) * Cross(a, b, p)
<1>1. /\ a[1] \in Int /\ a[2] \in Int /\ b[1] \in Int /\ b[2] \in Int /\ p[1] \in Int /\ p[2] \in Int
      /\ c[1] \in Int /\ c[2] \in Int /\ d[1] \in Int /\ d[2] \in Int
  OBVIOUS
<1>2. ASSUME NEW ax \in Int, NEW ay \in Int, NEW bx \in Int, NEW by \in Int, NEW x \in Int, NEW y \in Int,
             NEW cx \in Int, NEW cy \in Int, NEW dx \in Int, NEW dy \in Int
      PROVE  (bx - ax) * ((dx - cx) * (y - cy) - (dy - cy) * (x - cx)) =
               (bx - x) * ((dx - cx) * (ay - cy) - (dy - cy) * (ax - cx))
             + (x - ax) * ((dx - cx) * (by - cy) - (dy - cy) * (bx - cx))
             + (dx - cx) * ((bx - ax) * (y - ay) - (by - ay) * (x - ax))
  OBVIOUS
<1> QED  BY <1>1, <1>2 DEF Cross

Weighs(u, v, w, z, e, f, g, h) ==
  /\ u \in Int /\ v \in Int /\ w \in Int /\ z \in Int /\ e \in Int /\ f \in Int /\ g \in Int /\ h \in Int
  /\ u > 0 /\ w >= 0 /\ e >= 0 /\ g > 0
  /\ u * v = w * z + e * f + g * h

LEMMA Weights ==
  ASSUME NEW u, NEW v, NEW w, NEW z, NEW e, NEW f, NEW g, NEW h, Weighs(u, v, w, z, e, f, g, h)
  PROVE  /\ v > 0 /\ z <= 0 /\ f <= 0 => h > 0
         /\ z > 0 /\ f > 0 /\ h > 0 => v > 0
<1>0. /\ u \in Int /\ v \in Int /\ w \in Int /\ z \in Int /\ e \in Int /\ f \in Int /\ g \in Int /\ h \in Int
      /\ u > 0 /\ w >= 0 /\ e >= 0 /\ g > 0
      /\ u * v = w * z + e * f + g * h
  BY DEF Weighs
<1>1. /\ u * v \in Int /\ w * z \in Int /\ e * f \in Int /\ g * h \in Int
      /\ u > 0 /\ v > 0 => u * v > 0
      /\ w >= 0 /\ z <= 0 => w * z <= 0
      /\ e >= 0 /\ f <= 0 => e * f <= 0
      /\ w >= 0 /\ z >= 0 => w * z >= 0
      /\ e >= 0 /\ f >= 0 => e * f >= 0
      /\ g > 0 /\ g * h > 0 => h > 0
      /\ g > 0 /\ h > 0 => g * h > 0
      /\ u > 0 /\ u * v > 0 => v > 0
  BY <1>0, Products
<1> DEFINE A == u * v    B == w * z    C == e * f    G == g * h
<1>2. /\ A \in Int /\ B \in Int /\ C \in Int /\ G \in Int
      /\ u > 0 /\ v > 0 => A > 0
      /\ w >= 0 /\ z <= 0 => B <= 0
      /\ e >= 0 /\ f <= 0 => C <= 0
      /\ w >= 0 /\ z >= 0 => B >= 0
      /\ e >= 0 /\ f >= 0 => C >= 0
      /\ g > 0 /\ G > 0 => h > 0
      /\ g > 0 /\ h > 0 => G > 0
      /\ u > 0 /\ A > 0 => v > 0
      /\ A = B + C + G
  BY <1>0, <1>1
<1> HIDE DEF A, B, C, G
<1>3. v > 0 /\ z <= 0 /\ f <= 0 => h > 0
  BY <1>0, <1>2
<1>4. z > 0 /\ f > 0 /\ h > 0 => v > 0
  BY <1>0, <1>2
<1> QED  BY <1>3, <1>4

LEMMA Above ==
  ASSUME NEW a \in Int \X Int, NEW b \in Int \X Int, NEW c \in Int \X Int, NEW d \in Int \X Int,
         NEW p \in Int \X Int,
         a[1] < b[1], a[1] <= p[1], p[1] <= b[1],
         c[1] < d[1], c[1] <= p[1], p[1] <= d[1],
         Cross(c, d, p) > 0,
         \/ Cross(c, d, a) <= 0 /\ Cross(c, d, b) <= 0
         \/ Cross(a, b, c) > 0 /\ Cross(a, b, d) > 0
  PROVE  Cross(a, b, p) > 0
<1>1. /\ a[1] \in Int /\ b[1] \in Int /\ c[1] \in Int /\ d[1] \in Int /\ p[1] \in Int
      /\ Cross(c, d, p) \in Int /\ Cross(c, d, a) \in Int /\ Cross(c, d, b) \in Int
      /\ Cross(a, b, p) \in Int /\ Cross(a, b, c) \in Int /\ Cross(a, b, d) \in Int
  BY Reversed
<1> DEFINE u == b[1] - a[1]    w == b[1] - p[1]    e == p[1] - a[1]
           v == d[1] - c[1]    y == d[1] - p[1]    f == p[1] - c[1]
<1>2. /\ u \in Int /\ u > 0 /\ w \in Int /\ w >= 0 /\ e \in Int /\ e >= 0
      /\ v \in Int /\ v > 0 /\ y \in Int /\ y >= 0 /\ f \in Int /\ f >= 0
  BY <1>1
<1>3. /\ Weighs(u, Cross(c, d, p), w, Cross(c, d, a), e, Cross(c, d, b), v, Cross(a, b, p))
      /\ Weighs(v, Cross(a, b, p), y, Cross(a, b, c), f, Cross(a, b, d), u, Cross(c, d, p))
  BY <1>1, <1>2, Affine DEF Weighs
<1> HIDE DEF u, v, w, e, y, f
<1>4. CASE Cross(c, d, a) <= 0 /\ Cross(c, d, b) <= 0
  BY <1>3, <1>4, Weights
<1>5. CASE Cross(a, b, c) > 0 /\ Cross(a, b, d) > 0
  BY <1>3, <1>5, Weights
<1> QED  BY <1>4, <1>5

(* What is below a point has what is not after it below the point, too. *)
LEMMA OrderAtPoint ==
  ASSUME NEW s \in Segment, NEW t \in Segment, NEW x \in Int, NEW y \in Int, InOrder(s, t),
         Within(XRange(s), x), XRange(s) # <<x, x>>,
         Within(XRange(t), x), XRange(t) # <<x, x>>,
         PointToTheLeft(Oriented(t), <<x, y>>)
  PROVE  PointToTheLeft(Oriented(s), <<x, y>>)
<1> DEFINE a == Oriented(s)[1]    b == Oriented(s)[2]    c == Oriented(t)[1]    d == Oriented(t)[2]
           p == <<x, y>>
<1>1. /\ Oriented(s) \in Segment /\ Oriented(t) \in Segment
      /\ XRange(s)[1] = a[1] /\ XRange(s)[2] = b[1] /\ a[1] <= b[1]
      /\ XRange(t)[1] = c[1] /\ XRange(t)[2] = d[1] /\ c[1] <= d[1]
  BY Orientation
<1>2. Cross(c, d, p) > 0
  BY DEF PointToTheLeft
<1>3. \/ ~ (Cross(c, d, a) > 0) /\ ~ (Cross(c, d, b) > 0)
      \/ Cross(a, b, c) > 0 /\ Cross(a, b, d) > 0
  BY DEF InOrder, Comparable, SegmentLess, Sides, PointToTheLeft
<1>4. XRange(s) = <<XRange(s)[1], XRange(s)[2]>> /\ XRange(t) = <<XRange(t)[1], XRange(t)[2]>>
  <2>1. XRange(s) \in Int \X Int /\ XRange(t) \in Int \X Int
    BY Ranges
  <2>2. \A r \in Int \X Int : r = <<r[1], r[2]>>
    OBVIOUS
  <2> QED  BY <2>1, <2>2
<1>5. a \in Int \X Int /\ b \in Int \X Int /\ c \in Int \X Int /\ d \in Int \X Int /\ p \in Int \X Int
  <2>1. \A u \in Segment : u[1] \in Int \X Int /\ u[2] \in Int \X Int
    BY DEF Segment
  <2> QED  BY <1>1, <2>1
<1>6. p[1] = x
  OBVIOUS
<1> HIDE DEF a, b, c, d, p
<1>7. /\ a[1] \in Int /\ b[1] \in Int /\ c[1] \in Int /\ d[1] \in Int
      /\ Cross(c, d, a) \in Int /\ Cross(c, d, b) \in Int
  BY <1>5, Reversed
<1>8. /\ a[1] <= x /\ x <= b[1] /\ c[1] <= x /\ x <= d[1]
      /\ <<a[1], b[1]>> # <<x, x>> /\ <<c[1], d[1]>> # <<x, x>>
  BY <1>1, <1>4 DEF Within
<1>9. a[1] < b[1] /\ c[1] < d[1]
  BY <1>7, <1>8
<1>10. \/ Cross(c, d, a) <= 0 /\ Cross(c, d, b) <= 0
       \/ Cross(a, b, c) > 0 /\ Cross(a, b, d) > 0
  BY <1>3, <1>7
<1>11. Cross(a, b, p) > 0
  BY <1>2, <1>5, <1>6, <1>8, <1>9, <1>10, Above
<1> QED  BY <1>11 DEF PointToTheLeft, a, b, p

(* The segments of a list cover the node's interval. *)
LEMMA StoredCover ==
  ASSUME NEW segs, Vector(segs), NEW T, NEW lo, NEW hi, Tower(T, lo, hi), NEW n \in Nodes(T)
  PROVE  /\ IsFiniteSet(StoredAt(segs, T, n))
         /\ \A i \in StoredAt(segs, T, n) :
              /\ i \in DOMAIN segs /\ segs[i] \in Segment
              /\ \A x \in Int : Within(Interval(T, n), x) => Within(XRange(segs[i]), x)
<1>1. Len(segs) \in Nat /\ DOMAIN segs = 1 .. Len(segs) /\ \A i \in DOMAIN segs : segs[i] \in Segment
  BY VectorElements
<1>2. IsFiniteSet(StoredAt(segs, T, n))
  <2>1. StoredAt(segs, T, n) \subseteq DOMAIN segs
    BY DEF StoredAt
  <2>2. IsFiniteSet(DOMAIN segs)
    BY <1>1, FS_Interval
  <2> QED  BY <2>1, <2>2, FS_Subset
<1>3. ASSUME NEW i \in StoredAt(segs, T, n), NEW x \in Int, Within(Interval(T, n), x)
      PROVE  Within(XRange(segs[i]), x)
  <2> DEFINE r == XRange(segs[i])    v == Interval(T, n)
  <2>1. Covers(r, v)
    BY DEF StoredAt, Stores
  <2>2. r \in Int \X Int /\ v \in Int \X Int
    <3>1. i \in DOMAIN segs
      BY DEF StoredAt
    <3> QED  BY <1>1, <3>1, Ranges, NodesOf
  <2>3. Within(v, x)
    BY <1>3
  <2> HIDE DEF r, v
  <2>4. Within(r, x)
    BY <2>1, <2>2, <2>3 DEF Covers, Within
  <2> QED  BY <2>4 DEF r
<1>4. \A i \in StoredAt(segs, T, n) : i \in DOMAIN segs /\ segs[i] \in Segment
  BY <1>1 DEF StoredAt
<1> QED  BY <1>2, <1>3, <1>4

LEMMA SortedIsMonotone ==
  ASSUME NEW segs, Vector(segs), NEW T, NEW lo, NEW hi, Tower(T, lo, hi), NEW n \in Nodes(T),
         NEW order \in SortSegments(segs, StoredAt(segs, T, n)),
         NEW x \in Int, NEW y \in Int, Within(Interval(T, n), x),
         \A k \in DOMAIN order : XRange(segs[order[k]]) # <<x, x>>
  PROVE  Monotone(Below(segs, order, <<x, y>>), Len(order))
<1> DEFINE S == StoredAt(segs, T, n)
           below == Below(segs, order, <<x, y>>)
<1>1. /\ Len(order) \in Nat /\ DOMAIN order = 1 .. Len(order)
      /\ \A k \in DOMAIN order : order[k] \in S
  BY StoredCover, Permutation DEF SortSegments
<1>2. ASSUME NEW k \in 1 .. Len(order) - 1 PROVE below[k + 1] => below[k]
  <2>1. k \in DOMAIN order /\ k + 1 \in DOMAIN order
    BY <1>1
  <2> DEFINE s == segs[order[k]]    t == segs[order[k + 1]]
  <2>2. InOrder(s, t)
    BY DEF SortSegments
  <2>3. s \in Segment /\ t \in Segment /\ Within(XRange(s), x) /\ Within(XRange(t), x)
    BY <1>1, <2>1, StoredCover
  <2>4. XRange(s) # <<x, x>> /\ XRange(t) # <<x, x>>
    BY <2>1
  <2>5. /\ below[k + 1] = PointToTheLeft(Oriented(t), <<x, y>>)
        /\ below[k] = PointToTheLeft(Oriented(s), <<x, y>>)
    BY <2>1 DEF Below
  <2> HIDE DEF s, t, below
  <2> QED  BY <2>2, <2>3, <2>4, <2>5, OrderAtPoint
<1> HIDE DEF below
<1> QED  BY <1>1, <1>2, NeighboursSuffice DEF below

-----------------------------------------------------------------------------
(* The way down the tree. *)

(* No segment ends inside of an elementary interval. *)
LEMMA NoEndInside ==
  ASSUME NEW segs, Vector(segs), NEW j \in 1 .. Len(Elementary(segs)), NEW c \in Endpoints(segs),
         NEW x \in Int, Within(Elementary(segs)[j], x)
  PROVE  (c <= x => c <= Elementary(segs)[j][1]) /\ (x <= c => Elementary(segs)[j][2] <= c)
<1> DEFINE S == Endpoints(segs)
           n == Cardinality(S)
           e == Ascending(S)
           m == 2 * n - 1
           L == Elementary(segs)
<1>1. S \subseteq Int /\ IsFiniteSet(S) /\ S # {}
  BY EndpointsAreFinite
<1>2. n \in Nat \ {0} /\ Sorts(e, S)
  BY <1>1, AscendingSorts, AscendingSteps
<1>3. c \in Int /\ \A k \in 1 .. n : e[k] \in Int
  BY <1>1, <1>2 DEF Sorts
<1>4. L = [i \in 1 .. m |->
            IF i % 2 = 1 THEN <<e[(i + 1) \div 2], e[(i + 1) \div 2]>>
                         ELSE <<e[i \div 2] + 1, e[i \div 2 + 1] - 1>>]
  BY DEF Elementary
<1>5. Len(L) = m
  BY ElementaryRow
<1>6. c \in S /\ Within(L[j], x) /\ j \in 1 .. m
  BY <1>5
<1> HIDE DEF S, e, L, n
<1>7. CASE j % 2 = 1
  <2> DEFINE k == (j + 1) \div 2
  <2>1. k \in 1 .. n
    BY <1>2, <1>6, <1>7
  <2>2. L[j] = <<e[k], e[k]>>
    BY <1>4, <1>6, <1>7
  <2> HIDE DEF k
  <2>3. e[k] \in Int /\ e[k] <= x /\ x <= e[k]
    BY <1>3, <1>6, <2>1, <2>2 DEF Within
  <2>4. (c <= x => c <= L[j][1]) /\ (x <= c => L[j][2] <= c)
    BY <1>3, <2>2, <2>3
  <2> QED  BY <2>4 DEF L
<1>8. CASE j % 2 = 0
  <2> DEFINE k == j \div 2
  <2>1. k \in 1 .. n - 1 /\ k \in 1 .. n /\ k + 1 \in 1 .. n
    BY <1>2, <1>6, <1>8
  <2>2. L[j] = <<e[k] + 1, e[k + 1] - 1>>
    BY <1>4, <1>6, <1>8
  <2> HIDE DEF k
  <2>3. e[k] \in Int /\ e[k + 1] \in Int /\ e[k] + 1 <= x /\ x <= e[k + 1] - 1
    BY <1>3, <1>6, <2>1, <2>2 DEF Within
  <2>4. c <= e[k] \/ e[k + 1] <= c
    BY <1>2, <1>6, <2>1 DEF Sorts, n
  <2>5. (c <= x => c <= L[j][1]) /\ (x <= c => L[j][2] <= c)
    BY <1>3, <2>2, <2>3, <2>4
  <2> QED  BY <2>5 DEF L
<1>9. j \in Int /\ (j % 2 = 0 \/ j % 2 = 1)
  BY <1>2, <1>6
<1> QED  BY <1>7, <1>8, <1>9

(* The nodes of the way, a child each of the one before, that contain x if the
   root does.                                                               *)
Walk(T, x, at) ==
  /\ \A d \in 0 .. Len(T) - 1 : at[d] \in 1 .. Len(T[Len(T) - d])
  /\ \A d \in 1 .. Len(T) - 1 : ParentOf(<<Len(T) - d, at[d]>>) = <<Len(T) - (d - 1), at[d - 1]>>

Keeps(T, x, at) ==
  \A d \in 0 .. Len(T) - 1 : Within(Interval(T, <<Len(T) - d, at[d]>>), x)

LEMMA PathWalks ==
  ASSUME NEW T, NEW lo \in Int, NEW hi \in Int, Tower(T, lo, hi), NEW x \in Int
  PROVE  \E at : /\ Walk(T, x, at) /\ (lo <= x /\ x <= hi => Keeps(T, x, at))
                 /\ Path(T, x) = {n \in {<<Len(T) - d, at[d]>> : d \in 0 .. Len(T) - 1} : Within(Interval(T, n), x)}
<1> DEFINE h == Len(T)
           V == Nat \ {0}
           Down(d, i) == LET l == 2 * i - 1 IN
                         IF Within(Interval(T, <<h - d, l>>), x) \/ l = Len(T[h - d]) THEN l ELSE l + 1
           step == [d \in 1 .. h - 1 |-> [i \in V |-> Down(d, i)]]
           at == CHOOSE at : at = [d \in 0 .. h - 1 |-> IF d = 0 THEN 1 ELSE Down(d, at[d - 1])]
<1>1. h \in Nat \ {0} /\ h - 1 \in Nat
  BY DEF Tower
<1>2. step \in [1 .. h - 1 -> [V -> V]]
  <2>1. \A d \in 1 .. h - 1, i \in V : Down(d, i) \in V
    OBVIOUS
  <2> HIDE DEF Down, V
  <2> QED  BY <2>1
<1>3. 1 \in V
  OBVIOUS
<1> HIDE DEF step, V
<1>4. PICK f \in [0 .. h - 1 -> V] : Follows(f, 1, step, h - 1)
  BY <1>1, <1>2, <1>3, Recursion
<1>5. f = [d \in 0 .. h - 1 |-> IF d = 0 THEN 1 ELSE Down(d, f[d - 1])]
  <2>1. f[0] = 1
    BY <1>4 DEF Follows
  <2>2. ASSUME NEW d \in 1 .. h - 1 PROVE f[d] = Down(d, f[d - 1])
    <3>1. d - 1 \in 0 .. h - 1
      BY <1>1
    <3>2. f[d] = step[d][f[d - 1]] /\ f[d - 1] \in V
      BY <1>4, <3>1 DEF Follows
    <3> HIDE DEF Down
    <3> QED  BY <3>2 DEF step
  <2>3. \A d \in 0 .. h - 1 : d = 0 \/ (d # 0 /\ d \in 1 .. h - 1)
    BY <1>1
  <2> HIDE DEF Down
  <2>4. \A d \in 0 .. h - 1 : f[d] = IF d = 0 THEN 1 ELSE Down(d, f[d - 1])
    BY <2>1, <2>2, <2>3
  <2> QED  BY <1>4, <2>4
<1>6. at = [d \in 0 .. h - 1 |-> IF d = 0 THEN 1 ELSE Down(d, at[d - 1])]
  <2> HIDE DEF Down
  <2> QED  BY <1>5
<1>7. Path(T, x) = {n \in {<<h - d, at[d]>> : d \in 0 .. h - 1} : Within(Interval(T, n), x)}
  BY DEF Path, Height
<1> HIDE DEF at
<1>8. at[0] = 1 /\ \A d \in 1 .. h - 1 : at[d] = Down(d, at[d - 1])
  <2>1. 0 \in 0 .. h - 1 /\ \A d \in 1 .. h - 1 : d \in 0 .. h - 1 /\ d # 0
    BY <1>1
  <2> HIDE DEF Down
  <2> QED  BY <1>6, <2>1
<1> DEFINE In(d) == at[d] \in 1 .. Len(T[h - d])
           Has(d) == lo <= x /\ x <= hi => Within(Interval(T, <<h - d, at[d]>>), x)
           N == {d \in Nat : d <= h - 1 => In(d) /\ Has(d)}
<1>9. 0 \in N
  <2>1. Len(T[h]) = 1 /\ Spans(T[h], lo, hi)
    <3>1. h \in 1 .. h
      BY <1>1
    <3> QED  BY <3>1 DEF Tower
  <2>2. Interval(T, <<h - 0, at[0]>>) = T[h][1]
    BY <1>1, <1>8 DEF Interval
  <2>3. T[h][1][1] = lo /\ T[h][1][2] = hi
    BY <2>1 DEF Spans
  <2>4. In(0)
    <3>1. h - 0 = h
      BY <1>1
    <3>2. at[0] = 1
      BY <1>8
    <3>3. Len(T[h - 0]) = 1
      BY <2>1, <3>1
    <3>4. \A u, v : u = 1 /\ v = 1 => u \in 1 .. v
      OBVIOUS
    <3> QED  BY <3>2, <3>3, <3>4
  <2> QED  BY <2>2, <2>3, <2>4 DEF Within
<1>10. ASSUME NEW d \in 1 .. h - 1, at[d - 1] \in 1 .. Len(T[h - (d - 1)])
       PROVE  /\ In(d) /\ ParentOf(<<h - d, at[d]>>) = <<h - (d - 1), at[d - 1]>>
              /\ Within(Interval(T, <<h - (d - 1), at[d - 1]>>), x) => Within(Interval(T, <<h - d, at[d]>>), x)
  <2> DEFINE i == at[d - 1]
             L == T[h - d]
             P == T[h - (d - 1)]
             l == 2 * i - 1
  <2>1. /\ h - d \in 1 .. h - 1 /\ h - d \in 1 .. h /\ h - d \in Nat /\ (h - d) + 1 = h - (d - 1)
    BY <1>1
  <2>2. Row(L) /\ P = Parents(L)
    <3>1. \A k \in 1 .. h - 1 : T[k + 1] = Parents(T[k])
      BY DEF Tower
    <3>2. \A k \in 1 .. h : Row(T[k])
      BY DEF Tower
    <3>3. T[(h - d) + 1] = Parents(T[h - d])
      BY <2>1, <3>1
    <3> QED  BY <2>1, <3>2, <3>3
  <2>3. Len(P) = (Len(L) + 1) \div 2
    <3>1. Spans(L, lo, hi)
      BY <2>1 DEF Tower
    <3> QED  BY <2>2, <3>1, ParentsRow
  <2>4. i \in 1 .. (Len(L) + 1) \div 2
    BY <1>10, <2>3
  <2>5. /\ l \in 1 .. Len(L) /\ l % 2 = 1
        /\ P[i][1] = L[l][1]
        /\ \/ 2 * i \in 1 .. Len(L) /\ l \in 1 .. Len(L) - 1 /\ P[i][2] = L[2 * i][2] /\ L[l][2] = L[2 * i][1] - 1
           \/ l = Len(L) /\ P[i][2] = L[Len(L)][2]
    <3> HIDE DEF L, P, i
    <3> QED  BY <2>2, <2>4, Children
  <2>6. Len(L) \in Nat /\ \A k \in 1 .. Len(L) : L[k][1] \in Int /\ L[k][2] \in Int
    BY <2>2 DEF Row
  <2>7. at[d] = IF Within(L[l], x) \/ l = Len(L) THEN l ELSE l + 1
    BY <1>8 DEF Interval
  <2>8. /\ Interval(T, <<h - (d - 1), at[d - 1]>>) = P[i]
        /\ Interval(T, <<h - d, at[d]>>) = L[at[d]]
    BY DEF Interval
  <2>9. ParentOf(<<h - d, at[d]>>) = <<(h - d) + 1, (at[d] + 1) \div 2>>
    BY DEF ParentOf
  <2>10. i \in Nat \ {0}
    BY <2>4, <2>6
  <2>11. (l + 1) \div 2 = i /\ ((l + 1) + 1) \div 2 = i /\ l + 1 = 2 * i
    <3> HIDE DEF i
    <3> QED  BY <2>10
  <2> HIDE DEF L, P, i, h, l
  <2>12. CASE Within(L[l], x) \/ l = Len(L)
    <3>1. at[d] = l
      BY <2>7, <2>12
    <3>2. Within(P[i], x) => Within(L[l], x)
      <4>1. CASE l = Len(L)
        <5>1. P[i][2] = L[l][2] /\ P[i][1] = L[l][1]
          BY <2>5, <2>6, <4>1
        <5> QED  BY <5>1 DEF Within
      <4> QED  BY <2>12, <4>1
    <3> QED  BY <2>1, <2>5, <2>8, <2>9, <2>11, <3>1, <3>2 DEF L, i
  <2>13. CASE ~ (Within(L[l], x) \/ l = Len(L))
    <3>1. at[d] = 2 * i /\ 2 * i \in 1 .. Len(L) /\ P[i][2] = L[2 * i][2] /\ L[l][2] = L[2 * i][1] - 1
      BY <2>5, <2>7, <2>11, <2>13
    <3>2. L[l][1] \in Int /\ L[l][2] \in Int /\ L[2 * i][1] \in Int /\ L[2 * i][2] \in Int
      BY <2>5, <2>6, <3>1
    <3>3. Within(P[i], x) => Within(L[2 * i], x)
      BY <2>5, <2>13, <3>1, <3>2 DEF Within
    <3>4. (2 * i + 1) \div 2 = i
      BY <2>10
    <3> QED  BY <2>1, <2>8, <2>9, <3>1, <3>3, <3>4 DEF L, i
  <2> QED  BY <2>12, <2>13
<1>11. ASSUME NEW d \in Nat, d \in N PROVE d + 1 \in N
  <2> SUFFICES ASSUME d + 1 <= h - 1 PROVE In(d + 1) /\ Has(d + 1)
    OBVIOUS
  <2>1. d + 1 \in 1 .. h - 1 /\ (d + 1) - 1 = d /\ d <= h - 1
    BY <1>1
  <2>2. In(d) /\ Has(d)
    BY <1>11, <2>1
  <2>3. at[(d + 1) - 1] \in 1 .. Len(T[h - ((d + 1) - 1)])
    BY <2>1, <2>2
  <2>4. In(d + 1) /\ (Within(Interval(T, <<h - ((d + 1) - 1), at[(d + 1) - 1]>>), x) => Within(Interval(T, <<h - (d + 1), at[d + 1]>>), x))
    BY <1>10, <2>1, <2>3
  <2> QED  BY <2>1, <2>2, <2>4
<1>12. Nat \subseteq N
  <2> HIDE DEF N
  <2> QED  BY <1>9, <1>11, Induction
<1>13. \A d \in 0 .. h - 1 : In(d) /\ Has(d)
  <2>1. \A d \in 0 .. h - 1 : d \in N /\ d <= h - 1
    BY <1>1, <1>12
  <2> HIDE DEF In, Has
  <2> QED  BY <2>1
<1>14. Walk(T, x, at)
  <2>1. \A d \in 1 .. h - 1 : d - 1 \in 0 .. h - 1
    BY <1>1
  <2>2. \A d \in 1 .. h - 1 : ParentOf(<<h - d, at[d]>>) = <<h - (d - 1), at[d - 1]>>
    BY <1>10, <1>13, <2>1
  <2> QED  BY <1>13, <2>2 DEF Walk
<1>15. lo <= x /\ x <= hi => Keeps(T, x, at)
  BY <1>13 DEF Keeps
<1> QED  BY <1>7, <1>14, <1>15

LEMMA AncestorsOnPath ==
  ASSUME NEW T, Len(T) \in Nat \ {0}, NEW x, NEW at, Walk(T, x, at), NEW d \in 0 .. Len(T) - 1, NEW j \in 0 .. d
  PROVE  Ancestors(T, <<Len(T) - d, at[d]>>)[j] = <<Len(T) - (d - j), at[d - j]>>
<1> DEFINE h == Len(T)
           n == <<h - d, at[d]>>
           f == [k \in 0 .. d |-> <<h - (d - k), at[d - k]>>]
           up == CHOOSE up : up = [k \in 0 .. h - n[1] |-> IF k = 0 THEN n ELSE ParentOf(up[k - 1])]
<1>1. d \in Nat /\ h \in Nat \ {0} /\ h - n[1] = d
  OBVIOUS
<1>2. f = [k \in 0 .. d |-> IF k = 0 THEN n ELSE ParentOf(f[k - 1])]
  <2>1. f[0] = n
    <3>1. d - 0 = d /\ 0 \in 0 .. d
      BY <1>1
    <3> QED  BY <3>1
  <2>2. ASSUME NEW k \in 1 .. d PROVE f[k] = ParentOf(f[k - 1])
    <3>1. k \in 0 .. d /\ k - 1 \in 0 .. d /\ d - (k - 1) \in 1 .. h - 1 /\ (d - (k - 1)) - 1 = d - k
      BY <1>1
    <3>2. ParentOf(<<h - (d - (k - 1)), at[d - (k - 1)]>>) = <<h - ((d - (k - 1)) - 1), at[(d - (k - 1)) - 1]>>
      BY <3>1 DEF Walk
    <3> QED  BY <3>1, <3>2
  <2>3. \A k \in 0 .. d : k = 0 \/ (k # 0 /\ k \in 1 .. d)
    BY <1>1
  <2> HIDE DEF n
  <2>4. \A k \in 0 .. d : f[k] = IF k = 0 THEN n ELSE ParentOf(f[k - 1])
    <3> HIDE DEF f
    <3> QED  BY <2>1, <2>2, <2>3
  <2> QED  BY <2>4
<1>3. \E g : g = [k \in 0 .. h - n[1] |-> IF k = 0 THEN n ELSE ParentOf(g[k - 1])]
  <2> HIDE DEF f, n, h
  <2> QED  BY <1>1, <1>2
<1>4. up = [k \in 0 .. h - n[1] |-> IF k = 0 THEN n ELSE ParentOf(up[k - 1])]
  <2> HIDE DEF n, h
  <2> QED  BY <1>3
<1>5. Ancestors(T, n) = up
  BY DEF Ancestors, Height
<1> HIDE DEF up
<1>6. up = [k \in 0 .. d |-> IF k = 0 THEN n ELSE ParentOf(up[k - 1])]
  <2> HIDE DEF n, h
  <2> QED  BY <1>1, <1>4
<1> DEFINE N == {k \in Nat : k <= d => up[k] = f[k]}
<1>7. 0 \in N
  <2>1. 0 \in 0 .. d
    BY <1>1
  <2> HIDE DEF f, n
  <2> QED  BY <1>2, <1>6, <2>1
<1>8. ASSUME NEW k \in Nat, k \in N PROVE k + 1 \in N
  <2> SUFFICES ASSUME k + 1 <= d PROVE up[k + 1] = f[k + 1]
    OBVIOUS
  <2>1. k + 1 \in 0 .. d /\ k + 1 # 0 /\ (k + 1) - 1 = k /\ k <= d
    BY <1>1
  <2>2. up[k] = f[k]
    BY <1>8, <2>1
  <2> HIDE DEF f, n
  <2> QED  BY <1>2, <1>6, <2>1, <2>2
<1> HIDE DEF N
<1>9. Nat \subseteq N
  BY <1>7, <1>8, Induction
<1>10. j \in N /\ j <= d
  BY <1>1, <1>9
<1> HIDE DEF f
<1>11. up[j] = f[j]
  BY <1>10 DEF N
<1> QED  BY <1>5, <1>11 DEF f

(* A segment is stored in a node of the way to any coordinate of its range. *)
LEMMA StoredOnPath ==
  ASSUME NEW segs, Vector(segs), NEW i \in DOMAIN segs, NEW x \in Int, Within(XRange(segs[i]), x)
  PROVE  \E n \in Path(Levels(segs), x) : n \in Nodes(Levels(segs)) /\ i \in StoredAt(segs, Levels(segs), n)
<1> DEFINE T == Levels(segs)
           h == Len(T)
           r == XRange(segs[i])
           lo == First(segs)
           hi == Final(segs)
<1>1. Tower(T, lo, hi) /\ T[1] = Elementary(segs)
  BY LevelsAreTower
<1>2. /\ r \in Int \X Int /\ r[1] \in Int /\ r[2] \in Int /\ r[1] <= x /\ x <= r[2] /\ r[1] <= r[2]
      /\ r[1] \in Endpoints(segs) /\ r[2] \in Endpoints(segs)
  <2>1. segs[i] \in Segment
    BY VectorElements
  <2> QED  BY <2>1, Ranges, EndpointsAreFinite DEF Within
<1>3. \A c \in Endpoints(segs) : c \in Int /\ lo <= c /\ c <= hi
  BY EndpointsAreFinite, AscendingSorts DEF Sorts, First, Final
<1>4. lo \in Int /\ hi \in Int
  <2>1. <<Height(T), 1>> \in Nodes(T) /\ Interval(T, <<Height(T), 1>>)[1] = lo /\ Interval(T, <<Height(T), 1>>)[2] = hi
    BY <1>1, Root
  <2> HIDE DEF T, lo, hi
  <2> QED  BY <1>1, <2>1, NodesOf
<1>5. lo <= x /\ x <= hi
  <2>1. lo <= r[1] /\ r[2] <= hi
    BY <1>2, <1>3
  <2> HIDE DEF lo, hi, r
  <2> QED  BY <1>2, <1>4, <2>1
<1> HIDE DEF T, lo, hi, r
<1>6. PICK at : /\ Walk(T, x, at) /\ Keeps(T, x, at)
                /\ Path(T, x) = {n \in {<<Len(T) - d, at[d]>> : d \in 0 .. Len(T) - 1} : Within(Interval(T, n), x)}
  BY <1>1, <1>4, <1>5, PathWalks
<1> DEFINE nd(d) == <<h - d, at[d]>>
           v(d) == Interval(T, nd(d))
<1>7. h \in Nat \ {0}
  BY <1>1 DEF Tower
<1>8. ASSUME NEW d \in 0 .. h - 1
      PROVE  /\ nd(d) \in Nodes(T) /\ nd(d) \in Path(T, x) /\ Within(v(d), x) /\ v(d) \in Int \X Int
             /\ v(d)[1] \in Int /\ v(d)[2] \in Int
             /\ ~Disjoint(r, v(d))
  <2>1. h - d \in 1 .. h
    BY <1>7
  <2>2. nd(d) \in Nodes(T)
    <3>1. at[d] \in 1 .. Len(T[h - d])
      BY <1>6 DEF Walk
    <3> QED  BY <1>1, <2>1, <3>1, NodesOf
  <2>3. Within(v(d), x)
    BY <1>6 DEF Keeps
  <2>4. nd(d) \in Path(T, x)
    BY <1>6, <2>3
  <2>5. v(d) \in Int \X Int /\ v(d)[1] \in Int /\ v(d)[2] \in Int
    BY <1>1, <2>2, NodesOf
  <2>6. ~Disjoint(r, v(d))
    <3> DEFINE w == v(d)
    <3>1. w \in Int \X Int /\ w[1] \in Int /\ w[2] \in Int /\ w[1] <= x /\ x <= w[2]
      BY <2>3, <2>5 DEF Within
    <3> HIDE DEF w
    <3>2. ~Disjoint(r, w)
      BY <1>2, <3>1, DisjointMeans
    <3> QED  BY <3>2 DEF w
  <2> QED  BY <2>2, <2>3, <2>4, <2>5, <2>6
<1> DEFINE S == {d \in 0 .. h - 1 : Covers(r, v(d))}
<1>9. h - 1 \in S
  <2>1. h - 1 \in 0 .. h - 1 /\ h - (h - 1) = 1
    BY <1>7
  <2>2. at[h - 1] \in 1 .. Len(T[1])
    BY <1>6, <2>1 DEF Walk
  <2>3. v(h - 1) = Elementary(segs)[at[h - 1]]
    BY <1>1, <2>1 DEF Interval
  <2>4. Within(Elementary(segs)[at[h - 1]], x) /\ at[h - 1] \in 1 .. Len(Elementary(segs))
    BY <1>1, <1>8, <2>1, <2>2, <2>3
  <2>5. r[1] <= Elementary(segs)[at[h - 1]][1] /\ Elementary(segs)[at[h - 1]][2] <= r[2]
    BY <1>2, <2>4, NoEndInside
  <2> QED  BY <2>1, <2>3, <2>5 DEF Covers
<1>10. PICK d \in S : \A e \in S : d <= e
  <2>1. S \subseteq Nat
    BY <1>7
  <2> HIDE DEF S
  <2> QED  BY <1>9, <2>1, LeastNatural
<1>11. d \in 0 .. h - 1 /\ Covers(r, v(d)) /\ d \in Nat
  BY <1>7
<1>12. ASSUME NEW j \in 1 .. d PROVE Passed(T, r, Ancestors(T, nd(d))[j])
  <2>1. j \in 0 .. d /\ d - j \in 0 .. h - 1 /\ ~ (d <= d - j)
    BY <1>7, <1>11
  <2>2. Ancestors(T, nd(d))[j] = nd(d - j)
    BY <1>6, <1>7, <1>11, <2>1, AncestorsOnPath
  <2>3. d - j \notin S
    <3> HIDE DEF S
    <3> QED  BY <1>10, <2>1
  <2>4. ~Covers(r, v(d - j))
    BY <2>1, <2>3
  <2>5. ~Disjoint(r, v(d - j))
    BY <1>8, <2>1
  <2> QED  BY <2>2, <2>4, <2>5 DEF Passed
<1>13. Height(T) - nd(d)[1] = d
  BY <1>7, <1>11 DEF Height
<1>14. Stores(T, r, nd(d))
  <2>1. ~Disjoint(r, v(d))
    BY <1>8, <1>11
  <2>2. \A j \in 1 .. Height(T) - nd(d)[1] : Passed(T, r, Ancestors(T, nd(d))[j])
    BY <1>12, <1>13
  <2> QED  BY <1>11, <2>1, <2>2 DEF Stores
<1>15. i \in StoredAt(segs, T, nd(d))
  BY <1>14 DEF StoredAt, r
<1>16. nd(d) \in Path(T, x) /\ nd(d) \in Nodes(T)
  BY <1>8, <1>11
<1> QED  BY <1>15, <1>16 DEF T

LEMMA PathContains ==
  ASSUME NEW T, NEW lo \in Int, NEW hi \in Int, Tower(T, lo, hi), NEW x \in Int, NEW m \in Path(T, x)
  PROVE  m \in Nodes(T) /\ Within(Interval(T, m), x)
<1>1. PICK at : /\ Walk(T, x, at) /\ (lo <= x /\ x <= hi => Keeps(T, x, at))
                /\ Path(T, x) = {n \in {<<Len(T) - d, at[d]>> : d \in 0 .. Len(T) - 1} : Within(Interval(T, n), x)}
  BY PathWalks
<1>2. Within(Interval(T, m), x) /\ m \in {<<Len(T) - d, at[d]>> : d \in 0 .. Len(T) - 1}
  BY <1>1
<1>3. PICK d \in 0 .. Len(T) - 1 : m = <<Len(T) - d, at[d]>>
  BY <1>2
<1>4. Len(T) - d \in 1 .. Len(T)
  BY DEF Tower
<1>5. at[d] \in 1 .. Len(T[Len(T) - d])
  BY <1>1 DEF Walk
<1> QED  BY <1>2, <1>3, <1>4, <1>5, NodesOf

-----------------------------------------------------------------------------
(* The query. *)

(* lists are those of a tree that has been built. *)
Filled(segs, T, lists) == \A n \in Nodes(T) : lists[n] \in SortSegments(segs, StoredAt(segs, T, n))

(* The vertical at x meets the segment from y[1] to below y[2]. *)
Hits(s, x, y) ==
  /\ Within(XRange(s), x)
  /\ ~PointToTheLeft(Oriented(s), <<x, y[1]>>) /\ PointToTheLeft(Oriented(s), <<x, y[2]>>)

Crossed(segs, x, y) == {i \in DOMAIN segs : Hits(segs[i], x, y)}

LEMMA Extracted ==
  ASSUME NEW segs, Vector(segs), NEW T, NEW lo, NEW hi, Tower(T, lo, hi), NEW n \in Nodes(T),
         NEW order \in SortSegments(segs, StoredAt(segs, T, n)),
         NEW x \in Int, NEW y \in Int \X Int, Within(Interval(T, n), x)
  PROVE  /\ Extract(segs, order, x, y) \subseteq StoredAt(segs, T, n)
         /\ (\A i \in DOMAIN segs : XRange(segs[i]) # <<x, x>>) =>
               Extract(segs, order, x, y) = StoredAt(segs, T, n) \cap Crossed(segs, x, y)
<1> DEFINE S == StoredAt(segs, T, n)
           B(c) == Below(segs, order, <<x, c>>)
           N == Len(order)
           lb(c) == LowerBound(B(c))
<1>1. /\ N \in Nat /\ DOMAIN order = 1 .. N
      /\ \A k \in 1 .. N : order[k] \in S
      /\ \A i \in S : \E k \in 1 .. N : order[k] = i
  BY StoredCover, Permutation DEF SortSegments
<1>2. \A i \in S : i \in DOMAIN segs /\ Within(XRange(segs[i]), x)
  BY StoredCover
<1>3. y[1] \in Int /\ y[2] \in Int
  OBVIOUS
<1>4. ASSUME NEW c \in Int
      PROVE  /\ Len(B(c)) = N
             /\ \A k \in 1 .. N : B(c)[k] = PointToTheLeft(Oriented(segs[order[k]]), <<x, c>>)
  <2>1. B(c) = [k \in 1 .. N |-> PointToTheLeft(Oriented(segs[order[k]]), <<x, c>>)]
    BY <1>1 DEF Below
  <2>2. PointToTheLeft(Oriented(segs[order[1]]), <<x, c>>) \in BOOLEAN /\ \A k \in 1 .. N : PointToTheLeft(Oriented(segs[order[k]]), <<x, c>>) \in BOOLEAN
    BY DEF PointToTheLeft
  <2>3. B(c) \in [1 .. N -> BOOLEAN]
    BY <2>1, <2>2
  <2>4. B(c) \in Seq(BOOLEAN)
    BY <1>1, <2>3, SeqDef
  <2>5. \A k \in 1 .. N : B(c)[k] = PointToTheLeft(Oriented(segs[order[k]]), <<x, c>>)
    BY <2>1
  <2> HIDE DEF B, N
  <2>6. Len(B(c)) = N
    BY <1>1, <2>3, <2>4, LenProperties
  <2> QED  BY <2>5, <2>6
<1>5. ASSUME NEW c \in Int
      PROVE  /\ lb(c) \in 0 .. N
             /\ (\A i \in DOMAIN segs : XRange(segs[i]) # <<x, x>>) =>
                   \A k \in 1 .. N : PointToTheLeft(Oriented(segs[order[k]]), <<x, c>>) <=> k <= lb(c)
  <2>1. Bisected(B(c), N, lb(c))
    BY <1>1, <1>4, Bisection
  <2>2. ASSUME \A i \in DOMAIN segs : XRange(segs[i]) # <<x, x>> PROVE Monotone(B(c), N)
    <3>1. \A k \in DOMAIN order : XRange(segs[order[k]]) # <<x, x>>
      BY <1>1, <1>2, <2>2
    <3> QED  BY <3>1, SortedIsMonotone
  <2> HIDE DEF B, N, lb
  <2> QED  BY <1>4, <2>1, <2>2 DEF Bisected
<1>6. Extract(segs, order, x, y) = {order[k] : k \in lb(y[1]) + 1 .. lb(y[2])}
  BY DEF Extract
<1> HIDE DEF B, N, lb, S
<1>10. \A p, q \in 0 .. N : \A k \in Int : k \in p + 1 .. q <=> k \in 1 .. N /\ ~ (k <= p) /\ k <= q
  BY <1>1
<1>11. lb(y[1]) \in 0 .. N /\ lb(y[2]) \in 0 .. N
  BY <1>3, <1>5
<1>7. \A k \in lb(y[1]) + 1 .. lb(y[2]) : k \in 1 .. N
  <2>1. \A k \in lb(y[1]) + 1 .. lb(y[2]) : k \in Int
    OBVIOUS
  <2> QED  BY <1>10, <1>11, <2>1
<1>8. Extract(segs, order, x, y) \subseteq S
  BY <1>1, <1>6, <1>7
<1>9. ASSUME \A i \in DOMAIN segs : XRange(segs[i]) # <<x, x>>
      PROVE  Extract(segs, order, x, y) = S \cap Crossed(segs, x, y)
  <2>1. \A k \in 1 .. N : order[k] \in Crossed(segs, x, y) <=> ~ (k <= lb(y[1])) /\ k <= lb(y[2])
    BY <1>1, <1>2, <1>3, <1>5, <1>9 DEF Crossed, Hits
  <2>2. \A k \in 1 .. N : k \in lb(y[1]) + 1 .. lb(y[2]) <=> ~ (k <= lb(y[1])) /\ k <= lb(y[2])
    <3>1. \A k \in 1 .. N : k \in Int
      OBVIOUS
    <3> QED  BY <1>10, <1>11, <3>1
  <2>3. ASSUME NEW i \in Extract(segs, order, x, y) PROVE i \in S \cap Crossed(segs, x, y)
    <3>1. PICK k \in lb(y[1]) + 1 .. lb(y[2]) : i = order[k]
      BY <1>6
    <3> QED  BY <1>1, <1>7, <2>1, <2>2, <3>1
  <2>4. ASSUME NEW i \in S \cap Crossed(segs, x, y) PROVE i \in Extract(segs, order, x, y)
    <3>1. PICK k \in 1 .. N : order[k] = i
      BY <1>1
    <3> QED  BY <1>6, <2>1, <2>2, <3>1
  <2> QED  BY <2>3, <2>4
<1> QED  BY <1>8, <1>9 DEF S

(* A query for a side that no segment lies along finds those that it crosses. *)
LEMMA QueryFinds ==
  ASSUME NEW segs, Vector(segs), NEW lists, Filled(segs, Levels(segs), lists),
         NEW x \in Int, NEW y \in Int \X Int, y[1] <= y[2]
  PROVE  LET found == QueryTree(segs, [levels |-> Levels(segs), lists |-> lists], x, y) IN
         /\ found \subseteq DOMAIN segs
         /\ (\A i \in DOMAIN segs : XRange(segs[i]) # <<x, x>>) => found = Crossed(segs, x, y)
<1> DEFINE T == Levels(segs)
           tree == [levels |-> T, lists |-> lists]
           found == QueryTree(segs, tree, x, y)
           lo == First(segs)
           hi == Final(segs)
<1>1. Tower(T, lo, hi)
  BY LevelsAreTower
<1>2. lo \in Int /\ hi \in Int
  <2>1. <<Height(T), 1>> \in Nodes(T) /\ Interval(T, <<Height(T), 1>>)[1] = lo /\ Interval(T, <<Height(T), 1>>)[2] = hi
    BY <1>1, Root
  <2> HIDE DEF T, lo, hi
  <2> QED  BY <1>1, <2>1, NodesOf
<1> HIDE DEF T, lo, hi
<1>3. ~ (y[2] < y[1])
  <2>1. y[1] \in Int /\ y[2] \in Int
    OBVIOUS
  <2> QED  BY <2>1
<1>4. found = UNION {Extract(segs, lists[n], x, y) : n \in Path(T, x)}
  BY <1>3 DEF QueryTree
<1>5. ASSUME NEW n \in Path(T, x)
      PROVE  /\ n \in Nodes(T) /\ Extract(segs, lists[n], x, y) \subseteq StoredAt(segs, T, n)
             /\ (\A i \in DOMAIN segs : XRange(segs[i]) # <<x, x>>) =>
                   Extract(segs, lists[n], x, y) = StoredAt(segs, T, n) \cap Crossed(segs, x, y)
  <2>1. n \in Nodes(T) /\ Within(Interval(T, n), x)
    BY <1>1, <1>2, PathContains
  <2>2. lists[n] \in SortSegments(segs, StoredAt(segs, T, n))
    BY <2>1 DEF Filled, T
  <2> QED  BY <1>1, <2>1, <2>2, Extracted
<1> HIDE DEF found
<1>6. found \subseteq DOMAIN segs
  <2>1. \A n \in Path(T, x) : StoredAt(segs, T, n) \subseteq DOMAIN segs
    BY DEF StoredAt
  <2> QED  BY <1>4, <1>5, <2>1
<1>7. ASSUME \A i \in DOMAIN segs : XRange(segs[i]) # <<x, x>> PROVE found = Crossed(segs, x, y)
  <2>1. ASSUME NEW i \in Crossed(segs, x, y) PROVE i \in found
    <3>1. i \in DOMAIN segs /\ Within(XRange(segs[i]), x)
      BY DEF Crossed, Hits
    <3>2. PICK n \in Path(T, x) : i \in StoredAt(segs, T, n)
      BY <3>1, StoredOnPath DEF T
    <3> QED  BY <1>4, <1>5, <1>7, <3>2
  <2>2. found \subseteq Crossed(segs, x, y)
    BY <1>4, <1>5, <1>7
  <2> QED  BY <2>1, <2>2
<1> QED  BY <1>6, <1>7 DEF found, T

-----------------------------------------------------------------------------
(* Segments and windows. *)

LEMMA CrossSigns ==
  ASSUME NEW a \in Int \X Int, NEW b \in Int \X Int, NEW x \in Int, NEW y \in Int, a[1] <= b[1]
  PROVE  LET c == Cross(a, b, <<x, y>>) IN
         /\ c \in Int
         /\ a = b => c = 0
         /\ a[2] <= b[2] /\ x < a[1] /\ y > a[2] /\ a # b => c > 0
         /\ a[2] <= b[2] /\ x >= a[1] /\ y <= a[2] => c <= 0
         /\ b[2] < a[2] /\ x <= a[1] /\ y <= a[2] => c <= 0
         /\ b[2] < a[2] /\ x > a[1] /\ y >= a[2] => c > 0
<1> DEFINE dx == b[1] - a[1]    dy == b[2] - a[2]    u == x - a[1]    v == y - a[2]
<1>1. a = <<a[1], a[2]>> /\ b = <<b[1], b[2]>> /\ a[1] \in Int /\ a[2] \in Int /\ b[1] \in Int /\ b[2] \in Int
  OBVIOUS
<1>2. dx \in Int /\ dy \in Int /\ u \in Int /\ v \in Int /\ dx >= 0 /\ - dy \in Int /\ - u \in Int
  BY <1>1
<1>3. Cross(a, b, <<x, y>>) = dx * v - dy * u
  BY DEF Cross
<1>4. /\ a[2] <= b[2] <=> dy >= 0
      /\ a # b <=> (dx # 0 \/ dy # 0)
      /\ x < a[1] <=> u < 0
      /\ x > a[1] <=> u > 0
      /\ y > a[2] <=> v > 0
      /\ y < a[2] <=> v < 0
  BY <1>1
<1> HIDE DEF dx, dy, u, v
<1>5. ASSUME NEW p \in Int, NEW q \in Int, NEW r \in Int, NEW s \in Int, p >= 0
      PROVE  /\ p * s - q * r \in Int
             /\ p = 0 /\ q = 0 => p * s - q * r = 0
             /\ q >= 0 /\ r < 0 /\ s > 0 /\ (p # 0 \/ q # 0) => p * s - q * r > 0
             /\ q >= 0 /\ r >= 0 /\ s <= 0 => p * s - q * r <= 0
             /\ q < 0 /\ r <= 0 /\ s <= 0 => p * s - q * r <= 0
             /\ q < 0 /\ r > 0 /\ s >= 0 => p * s - q * r > 0
  <2> DEFINE A == p * s    B == q * r
  <2>1. A \in Int /\ B \in Int /\ (p = 0 => A = 0) /\ (q = 0 => B = 0)
    OBVIOUS
  <2>2. /\ s >= 0 => A >= 0
        /\ s <= 0 => A <= 0
        /\ p > 0 /\ s > 0 => A > 0
    BY <1>5, Products
  <2>3. /\ q >= 0 /\ r >= 0 => B >= 0
        /\ q >= 0 /\ r <= 0 => B <= 0
    BY Products
  <2>4. q > 0 /\ r < 0 => B < 0
    OBVIOUS
  <2>5. q < 0 /\ r <= 0 => B >= 0
    OBVIOUS
  <2>6. q < 0 /\ r > 0 => B < 0
    OBVIOUS
  <2> HIDE DEF A, B
  <2>7. /\ A - B \in Int
        /\ p = 0 /\ q = 0 => A - B = 0
        /\ q >= 0 /\ r < 0 /\ s > 0 /\ (p # 0 \/ q # 0) => A - B > 0
        /\ q >= 0 /\ r >= 0 /\ s <= 0 => A - B <= 0
        /\ q < 0 /\ r <= 0 /\ s <= 0 => A - B <= 0
        /\ q < 0 /\ r > 0 /\ s >= 0 => A - B > 0
    BY <1>5, <2>1, <2>2, <2>3, <2>4, <2>5, <2>6
  <2> QED  BY <2>7 DEF A, B
<1>6. /\ dx * v - dy * u \in Int
      /\ dx = 0 /\ dy = 0 => dx * v - dy * u = 0
      /\ dy >= 0 /\ u < 0 /\ v > 0 /\ (dx # 0 \/ dy # 0) => dx * v - dy * u > 0
      /\ dy >= 0 /\ u >= 0 /\ v <= 0 => dx * v - dy * u <= 0
      /\ dy < 0 /\ u <= 0 /\ v <= 0 => dx * v - dy * u <= 0
      /\ dy < 0 /\ u > 0 /\ v >= 0 => dx * v - dy * u > 0
  BY <1>2, <1>5
<1> DEFINE c == Cross(a, b, <<x, y>>)
<1> HIDE DEF c
<1>7. c = dx * v - dy * u
  BY <1>3 DEF c
<1>8. /\ c \in Int
      /\ dx = 0 /\ dy = 0 => c = 0
      /\ dy >= 0 /\ u < 0 /\ v > 0 /\ (dx # 0 \/ dy # 0) => c > 0
      /\ dy >= 0 /\ u >= 0 /\ v <= 0 => c <= 0
      /\ dy < 0 /\ u <= 0 /\ v <= 0 => c <= 0
      /\ dy < 0 /\ u > 0 /\ v >= 0 => c > 0
  BY <1>6, <1>7
<1>9. /\ ~ (u < 0) => u >= 0
      /\ ~ (u > 0) => u <= 0
      /\ ~ (v > 0) => v <= 0
      /\ ~ (v < 0) => v >= 0
      /\ ~ (dy >= 0) => dy < 0
  BY <1>2
<1>10. /\ x >= a[1] => ~ (x < a[1])
       /\ x <= a[1] => ~ (x > a[1])
       /\ y >= a[2] => ~ (y < a[2])
       /\ y <= a[2] => ~ (y > a[2])
       /\ b[2] < a[2] => ~ (a[2] <= b[2])
  BY <1>1
<1> QED  BY <1>4, <1>8, <1>9, <1>10 DEF c

(* Which corners of a window are the furthest to the left and to the right of a
   segment from a to b.                                                     *)
LEMMA CrossOrder ==
  ASSUME NEW a \in Int \X Int, NEW b \in Int \X Int, a[1] <= b[1],
         NEW x \in Int, NEW y \in Int, NEW z \in Int, NEW w \in Int, y <= w,
         \/ a[2] <= b[2] /\ z <= x
         \/ b[2] <= a[2] /\ x <= z
  PROVE  Cross(a, b, <<x, y>>) <= Cross(a, b, <<z, w>>)
<1> DEFINE dx == b[1] - a[1]    dy == b[2] - a[2]    u == z - x    v == w - y
<1>1. a[1] \in Int /\ a[2] \in Int /\ b[1] \in Int /\ b[2] \in Int
  OBVIOUS
<1>2. /\ dx \in Int /\ dy \in Int /\ u \in Int /\ v \in Int /\ dx >= 0 /\ v >= 0
      /\ (dy >= 0 /\ u <= 0) \/ (dy <= 0 /\ u >= 0)
  <2>1. dx \in Int /\ dy \in Int /\ u \in Int /\ v \in Int /\ dx >= 0 /\ v >= 0
    BY <1>1
  <2>2. CASE a[2] <= b[2] /\ z <= x
    <3>1. dy >= 0 /\ u <= 0
      BY <1>1, <2>2
    <3> QED  BY <2>1, <3>1
  <2>3. CASE b[2] <= a[2] /\ x <= z
    <3>1. dy <= 0 /\ u >= 0
      BY <1>1, <2>3
    <3> QED  BY <2>1, <3>1
  <2> QED  BY <2>2, <2>3
<1>3. Cross(a, b, <<x, y>>) \in Int /\ Cross(a, b, <<z, w>>) \in Int
  BY <1>1, Reversed
<1>4. Cross(a, b, <<z, w>>) - Cross(a, b, <<x, y>>) = dx * v - dy * u
  <2>1. ASSUME NEW ax \in Int, NEW ay \in Int, NEW bx \in Int, NEW by \in Int
        PROVE  ((bx - ax) * (w - ay) - (by - ay) * (z - ax)) - ((bx - ax) * (y - ay) - (by - ay) * (x - ax))
                 = (bx - ax) * (w - y) - (by - ay) * (z - x)
    OBVIOUS
  <2> QED  BY <1>1, <2>1 DEF Cross
<1>5. dx * v >= 0 /\ dx * v \in Int /\ dy * u <= 0 /\ dy * u \in Int
  <2> HIDE DEF dx, dy, u, v
  <2>1. dx * v \in Int /\ dy * u \in Int
    BY <1>2
  <2>2. dx * v >= 0
    BY <1>2, Products
  <2>3. dy >= 0 /\ u <= 0 => dy * u <= 0
    BY <1>2
  <2>4. dy <= 0 /\ u >= 0 => dy * u <= 0
    BY <1>2
  <2> QED  BY <1>2, <2>1, <2>2, <2>3, <2>4
<1> DEFINE A == dx * v    B == dy * u    C == Cross(a, b, <<x, y>>)    D == Cross(a, b, <<z, w>>)
<1>6. A \in Int /\ A >= 0 /\ B \in Int /\ B <= 0 /\ C \in Int /\ D \in Int /\ D - C = A - B
  BY <1>3, <1>4, <1>5
<1> HIDE DEF A, B, C, D
<1>7. C <= D
  BY <1>6
<1> QED  BY <1>7 DEF C, D

(* From a to b through the window between x and z, y and w. *)
Passes(a, b, x, z, y, w) ==
  /\ a[1] <= b[1] /\ (a[1] = b[1] => a[2] <= b[2])
  /\ x < z /\ y < w
  /\ b[1] > x /\ a[1] < z
  /\ a[2] > y \/ b[2] > y
  /\ a[2] < w \/ b[2] < w
  /\ \E p \in {x, z}, q \in {y, w} : Cross(a, b, <<p, q>>) < 0
  /\ \E p \in {x, z}, q \in {y, w} : Cross(a, b, <<p, q>>) > 0

(* A segment that passes through a window ends there, or passes the side at x, or
   the lower or the upper side, in the direction that the query looks.      *)
LEMMA PassesASide ==
  ASSUME NEW a \in Int \X Int, NEW b \in Int \X Int,
         NEW x \in Int, NEW z \in Int, NEW y \in Int, NEW w \in Int, Passes(a, b, x, z, y, w)
  PROVE  \/ a[1] >= x /\ a[1] < z /\ a[2] >= y /\ a[2] < w
         \/ a[1] <= x /\ x <= b[1] /\ Cross(a, b, <<x, y>>) <= 0 /\ Cross(a, b, <<x, w>>) > 0
         \/ /\ a[2] <= b[2] /\ a[2] <= y /\ y <= b[2]
            /\ Cross(a, b, <<x, y>>) >= 0 /\ Cross(a, b, <<z, y>>) < 0
         \/ /\ b[2] < a[2] /\ b[2] <= w /\ w <= a[2]
            /\ Cross(a, b, <<x, w>>) <= 0 /\ Cross(a, b, <<z, w>>) > 0
<1> DEFINE C(p, q) == Cross(a, b, <<p, q>>)
<1>0. /\ a[1] <= b[1] /\ (a[1] = b[1] => a[2] <= b[2])
      /\ x < z /\ y < w
      /\ b[1] > x /\ a[1] < z
      /\ a[2] > y \/ b[2] > y
      /\ a[2] < w \/ b[2] < w
      /\ \E p \in {x, z}, q \in {y, w} : C(p, q) < 0
      /\ \E p \in {x, z}, q \in {y, w} : C(p, q) > 0
  BY DEF Passes
<1> USE <1>0
<1>1. a[1] \in Int /\ a[2] \in Int /\ b[1] \in Int /\ b[2] \in Int
  OBVIOUS
<1>2. \A p, q \in Int : C(p, q) \in Int
  BY CrossSigns
<1>3. PICK p1 \in {x, z}, q1 \in {y, w} : C(p1, q1) < 0
  OBVIOUS
<1>4. PICK p2 \in {x, z}, q2 \in {y, w} : C(p2, q2) > 0
  OBVIOUS
<1>5. /\ p1 \in Int /\ q1 \in Int /\ p2 \in Int /\ q2 \in Int
      /\ x <= p1 /\ p1 <= z /\ x <= p2 /\ p2 <= z /\ y <= q1 /\ q1 <= w /\ y <= q2 /\ q2 <= w
  OBVIOUS
<1>6. a # b
  <2>1. a = b => C(p1, q1) = 0
    BY <1>5, CrossSigns
  <2> QED  BY <1>3, <2>1
<1>7. CASE a[2] <= b[2]
  <2>1. C(z, y) <= C(p1, q1) /\ C(p2, q2) <= C(x, w)
    BY <1>5, <1>7, CrossOrder
  <2>2. C(z, y) < 0 /\ C(x, w) > 0
    BY <1>2, <1>3, <1>4, <1>5, <2>1
  <2>3. /\ x < a[1] /\ y > a[2] => C(x, y) > 0
        /\ x >= a[1] /\ y <= a[2] => C(x, y) <= 0
    BY <1>6, <1>7, CrossSigns
  <2>4. C(x, y) \in Int
    BY <1>2
  <2>5. a[2] < w /\ b[2] > y
    BY <1>1, <1>7
  <2> HIDE DEF C
  <2>6. CASE C(x, y) <= 0
    <3>1. CASE a[1] <= x
      BY <1>1, <2>2, <2>6, <3>1 DEF C
    <3>2. CASE ~ (a[1] <= x)
      <4>1. a[2] >= y
        BY <1>1, <2>3, <2>4, <2>6, <3>2
      <4> QED  BY <1>1, <2>5, <3>2, <4>1
    <3> QED  BY <3>1, <3>2
  <2>7. CASE C(x, y) > 0
    <3>1. CASE a[2] <= y
      <4>1. C(x, y) >= 0 /\ y <= b[2]
        BY <1>1, <2>4, <2>5, <2>7
      <4> QED  BY <1>7, <2>2, <3>1, <4>1 DEF C
    <3>2. CASE ~ (a[2] <= y)
      <4>1. a[1] >= x
        BY <1>1, <2>3, <2>4, <2>7, <3>2
      <4> QED  BY <1>1, <2>5, <3>2, <4>1
    <3> QED  BY <3>1, <3>2
  <2> QED  BY <2>4, <2>6, <2>7
<1>8. CASE b[2] < a[2]
  <2>1. C(x, y) <= C(p1, q1) /\ C(p2, q2) <= C(z, w)
    <3>1. b[2] <= a[2]
      BY <1>1, <1>8
    <3> QED  BY <1>5, <3>1, CrossOrder
  <2>2. C(x, y) < 0 /\ C(z, w) > 0 /\ C(x, y) <= 0
    BY <1>2, <1>3, <1>4, <1>5, <2>1
  <2>3. /\ x <= a[1] /\ w <= a[2] => C(x, w) <= 0
        /\ x > a[1] /\ w >= a[2] => C(x, w) > 0
    BY <1>8, CrossSigns
  <2>4. C(x, w) \in Int
    BY <1>2
  <2>5. a[2] > y /\ b[2] < w
    BY <1>1, <1>8
  <2> HIDE DEF C
  <2>6. CASE C(x, w) > 0
    <3>1. CASE a[1] <= x
      BY <1>1, <2>2, <2>6, <3>1 DEF C
    <3>2. CASE ~ (a[1] <= x)
      <4>1. a[2] < w
        BY <1>1, <2>3, <2>4, <2>6, <3>2
      <4> QED  BY <1>1, <2>5, <3>2, <4>1
    <3> QED  BY <3>1, <3>2
  <2>7. CASE C(x, w) <= 0
    <3>1. CASE w <= a[2]
      <4>1. b[2] <= w
        BY <1>1, <2>5
      <4> QED  BY <1>8, <2>2, <2>7, <3>1, <4>1 DEF C
    <3>2. CASE ~ (w <= a[2])
      <4>1. a[1] >= x
        BY <1>1, <2>3, <2>4, <2>7, <3>2
      <4> QED  BY <1>1, <2>5, <3>2, <4>1
    <3> QED  BY <3>1, <3>2
  <2> QED  BY <2>4, <2>6, <2>7
<1> QED  BY <1>1, <1>7, <1>8

LEMMA OrientedForward ==
  ASSUME NEW s \in Segment
  PROVE  /\ Oriented(s)[1] \in Int \X Int /\ Oriented(s)[2] \in Int \X Int
         /\ Oriented(s)[1][1] <= Oriented(s)[2][1]
         /\ Oriented(s)[1][1] = Oriented(s)[2][1] => Oriented(s)[1][2] <= Oriented(s)[2][2]
         /\ XRange(s) = <<Oriented(s)[1][1], Oriented(s)[2][1]>>
         /\ YRange(s) = IF Oriented(s)[1][2] <= Oriented(s)[2][2] THEN <<Oriented(s)[1][2], Oriented(s)[2][2]>>
                                                                  ELSE <<Oriented(s)[2][2], Oriented(s)[1][2]>>
<1> DEFINE a == Oriented(s)[1]    b == Oriented(s)[2]
<1>1. /\ Oriented(s) \in Segment
      /\ (a = s[1] /\ b = s[2]) \/ (a = s[2] /\ b = s[1])
      /\ XRange(s)[1] = a[1] /\ XRange(s)[2] = b[1] /\ a[1] <= b[1]
  BY Orientation
<1>2. a \in Int \X Int /\ b \in Int \X Int
  BY <1>1 DEF Segment
<1>3. /\ s[1][1] \in Int /\ s[1][2] \in Int /\ s[2][1] \in Int /\ s[2][2] \in Int
      /\ s = <<s[1], s[2]>>
  BY DEF Segment
<1>4. a[1] = b[1] => a[2] <= b[2]
  <2>1. CASE LexLess(s[2], s[1])
    <3>1. a = s[2] /\ b = s[1]
      BY <2>1 DEF Oriented
    <3> HIDE DEF a, b
    <3> QED  BY <1>3, <2>1, <3>1 DEF LexLess
  <2>2. CASE ~LexLess(s[2], s[1])
    <3>1. a = s[1] /\ b = s[2]
      BY <2>2 DEF Oriented
    <3> HIDE DEF a, b
    <3> QED  BY <1>3, <2>2, <3>1 DEF LexLess
  <2> QED  BY <2>1, <2>2
<1>5. XRange(s) = <<a[1], b[1]>>
  <2>1. XRange(s) \in Int \X Int
    BY Ranges
  <2>2. \A r \in Int \X Int : r = <<r[1], r[2]>>
    OBVIOUS
  <2>3. XRange(s) = <<XRange(s)[1], XRange(s)[2]>>
    BY <2>1, <2>2
  <2> QED  BY <1>1, <2>3
<1>6. YRange(s) = IF a[2] <= b[2] THEN <<a[2], b[2]>> ELSE <<b[2], a[2]>>
  <2>1. YRange(s) = IF s[1][2] <= s[2][2] THEN <<s[1][2], s[2][2]>> ELSE <<s[2][2], s[1][2]>>
    BY Ranges
  <2> HIDE DEF a, b
  <2> QED  BY <1>1, <1>3, <2>1
<1> QED  BY <1>1, <1>2, <1>4, <1>5, <1>6

(* The second tree's segments from bottom to top are the first's from left to
   right, or from right to left.                                            *)
LEMMA MirroredLeft ==
  ASSUME NEW s \in Segment, NEW x \in Int, NEW y \in Int
  PROVE  LET a == Oriented(s)[1]
             b == Oriented(s)[2]
         IN PointToTheLeft(Oriented(Mirrored(s)), <<y, x>>) <=>
              IF a[2] <= b[2] THEN Cross(a, b, <<x, y>>) < 0 ELSE Cross(a, b, <<x, y>>) > 0
<1> DEFINE a == Oriented(s)[1]    b == Oriented(s)[2]    p == <<x, y>>    m == Mirrored(s)
<1>1. /\ a \in Int \X Int /\ b \in Int \X Int /\ a[1] <= b[1] /\ (a[1] = b[1] => a[2] <= b[2])
      /\ (a = s[1] /\ b = s[2]) \/ (a = s[2] /\ b = s[1])
  BY OrientedForward, Orientation
<1>2. /\ a = s[1] /\ b = s[2] => ~LexLess(b, a)
      /\ ~ (a = s[1] /\ b = s[2]) => LexLess(a, b)
  <2>1. /\ s = <<s[1], s[2]>> /\ s[1][1] \in Int /\ s[1][2] \in Int /\ s[2][1] \in Int /\ s[2][2] \in Int
    BY DEF Segment
  <2>2. CASE LexLess(s[2], s[1])
    <3>1. a = s[2] /\ b = s[1]
      BY <2>2 DEF Oriented
    <3>2. s[1] # s[2]
      BY <2>1, <2>2 DEF LexLess
    <3> HIDE DEF a, b
    <3> QED  BY <2>2, <3>1, <3>2
  <2>3. CASE ~LexLess(s[2], s[1])
    <3>1. a = s[1] /\ b = s[2]
      BY <2>3 DEF Oriented
    <3> HIDE DEF a, b
    <3> QED  BY <2>3, <3>1
  <2> QED  BY <2>2, <2>3
<1>3. m = <<Swapped(s[1]), Swapped(s[2])>> /\ m[1] = Swapped(s[1]) /\ m[2] = Swapped(s[2])
  BY DEF Mirrored
<1>4. /\ p \in Int \X Int /\ Swapped(p) = <<y, x>>
  BY DEF Swapped
<1> HIDE DEF a, b, m, p
<1>5. /\ Swapped(a)[1] = a[2] /\ Swapped(a)[2] = a[1] /\ Swapped(b)[1] = b[2] /\ Swapped(b)[2] = b[1]
      /\ a[1] \in Int /\ a[2] \in Int /\ b[1] \in Int /\ b[2] \in Int
  BY <1>1 DEF Swapped
<1>6. /\ Cross(a, b, p) \in Int
      /\ Cross(Swapped(a), Swapped(b), Swapped(p)) = - Cross(a, b, p)
      /\ Cross(Swapped(b), Swapped(a), Swapped(p)) = Cross(a, b, p)
  <2>1. /\ Swapped(a) \in Int \X Int /\ Swapped(b) \in Int \X Int /\ Swapped(p) \in Int \X Int
    BY <1>1, <1>4 DEF Swapped
  <2>2. /\ Cross(a, b, p) \in Int /\ Cross(Swapped(a), Swapped(b), Swapped(p)) = - Cross(a, b, p)
        /\ Cross(Swapped(b), Swapped(a), Swapped(p)) = - Cross(Swapped(a), Swapped(b), Swapped(p))
    BY <1>1, <1>4, <2>1, Reversed, MirrorCross
  <2> QED  BY <2>2
<1>7. ASSUME a[2] <= b[2] PROVE Oriented(m)[1] = Swapped(a) /\ Oriented(m)[2] = Swapped(b)
  <2>1. ~LexLess(Swapped(b), Swapped(a))
    BY <1>1, <1>5, <1>7 DEF LexLess
  <2>2. CASE a = s[1] /\ b = s[2]
    BY <1>3, <2>1, <2>2 DEF Oriented
  <2>3. CASE ~ (a = s[1] /\ b = s[2])
    <3>1. LexLess(a, b) /\ a = s[2] /\ b = s[1]
      BY <1>1, <1>2, <2>3
    <3>2. LexLess(Swapped(a), Swapped(b))
      BY <1>5, <1>7, <3>1 DEF LexLess
    <3>3. Oriented(m) = <<m[2], m[1]>>
      BY <1>3, <3>1, <3>2 DEF Oriented
    <3> QED  BY <1>3, <3>1, <3>3
  <2> QED  BY <2>2, <2>3
<1>8. ASSUME ~ (a[2] <= b[2]) PROVE Oriented(m)[1] = Swapped(b) /\ Oriented(m)[2] = Swapped(a)
  <2>1. LexLess(Swapped(b), Swapped(a)) /\ ~LexLess(Swapped(a), Swapped(b))
    BY <1>5, <1>8 DEF LexLess
  <2>2. CASE a = s[1] /\ b = s[2]
    <3>1. Oriented(m) = <<m[2], m[1]>>
      BY <1>3, <2>1, <2>2 DEF Oriented
    <3> QED  BY <1>3, <2>2, <3>1
  <2>3. CASE a = s[2] /\ b = s[1]
    BY <1>3, <2>1, <2>3 DEF Oriented
  <2> QED  BY <1>1, <2>2, <2>3
<1>9. PointToTheLeft(Oriented(m), <<y, x>>) <=> IF a[2] <= b[2] THEN Cross(a, b, p) < 0 ELSE Cross(a, b, p) > 0
  <2>1. CASE a[2] <= b[2]
    <3>1. PointToTheLeft(Oriented(m), <<y, x>>) <=> - Cross(a, b, p) > 0
      BY <1>4, <1>6, <1>7, <2>1 DEF PointToTheLeft
    <3> QED  BY <1>6, <2>1, <3>1
  <2>2. CASE ~ (a[2] <= b[2])
    BY <1>4, <1>6, <1>8, <2>2 DEF PointToTheLeft
  <2> QED  BY <2>1, <2>2
<1> QED  BY <1>9 DEF a, b, m, p

Window(w) == w.x \in Int \X Int /\ w.x[1] <= w.x[2] /\ w.y \in Int \X Int /\ w.y[1] <= w.y[2]

LEMMA CornersOf ==
  ASSUME NEW w, Window(w)
  PROVE  /\ \A c \in Corners(w) : \E p \in {w.x[1], w.x[2]}, q \in {w.y[1], w.y[2]} : c = <<p, q>>
         /\ \A p \in {w.x[1], w.x[2]}, q \in {w.y[1], w.y[2]} : <<p, q>> \in Corners(w)
         /\ \A c \in Corners(w) : c \in Int \X Int
<1>1. \A r \in Int \X Int : ToSet(r) = {r[1], r[2]}
  <2> SUFFICES ASSUME NEW r \in Int \X Int PROVE ToSet(r) = {r[1], r[2]}
    OBVIOUS
  <2>1. PICK u \in Int, v \in Int : r = <<u, v>>
    OBVIOUS
  <2>2. DOMAIN r = {1, 2}
    BY <2>1
  <2> QED  BY <2>1, <2>2 DEF ToSet
<1>2. ToSet(w.x) = {w.x[1], w.x[2]} /\ ToSet(w.y) = {w.y[1], w.y[2]}
  BY <1>1 DEF Window
<1>3. Corners(w) = {<<p, q>> : p \in {w.x[1], w.x[2]}, q \in {w.y[1], w.y[2]}}
  BY <1>2 DEF Corners
<1>4. w.x[1] \in Int /\ w.x[2] \in Int /\ w.y[1] \in Int /\ w.y[2] \in Int
  BY DEF Window
<1> QED  BY <1>3, <1>4

(* What the sides of a segment say does not depend on its direction. *)
LEMMA SidesOf ==
  ASSUME NEW s \in Segment, NEW w, Window(w)
  PROVE  LET C(c) == Cross(Oriented(s)[1], Oriented(s)[2], c) IN
         /\ MeetsInterior(s, w) <=> /\ OpenOverlap(XRange(s), w.x) /\ OpenOverlap(YRange(s), w.y)
                                    /\ \E c \in Corners(w) : C(c) < 0
                                    /\ \E c \in Corners(w) : C(c) > 0
         /\ MeetsWindow(s, w) <=> /\ ~Disjoint(XRange(s), w.x) /\ ~Disjoint(YRange(s), w.y)
                                  /\ \E c \in Corners(w) : C(c) <= 0
                                  /\ \E c \in Corners(w) : C(c) >= 0
<1> DEFINE a == Oriented(s)[1]    b == Oriented(s)[2]
           K == Corners(w)
           C(c) == Cross(a, b, c)
           D(c) == Cross(s[1], s[2], c)
<1>1. /\ a \in Int \X Int /\ b \in Int \X Int
      /\ (a = s[1] /\ b = s[2]) \/ (a = s[2] /\ b = s[1])
  BY OrientedForward, Orientation
<1>2. \A c \in K : c \in Int \X Int
  BY CornersOf
<1>3. /\ MeetsInterior(s, w) <=> /\ OpenOverlap(XRange(s), w.x) /\ OpenOverlap(YRange(s), w.y)
                                 /\ \E c \in K : D(c) < 0
                                 /\ \E c \in K : D(c) > 0
      /\ MeetsWindow(s, w) <=> /\ ~Disjoint(XRange(s), w.x) /\ ~Disjoint(YRange(s), w.y)
                               /\ \E c \in K : D(c) <= 0
                               /\ \E c \in K : D(c) >= 0
  BY DEF MeetsInterior, MeetsWindow, OnSides
<1> HIDE DEF a, b, K
<1>4. \A c \in K : C(c) \in Int /\ (D(c) = C(c) \/ D(c) = - C(c))
  BY <1>1, <1>2, Reversed
<1>5. CASE a = s[1] /\ b = s[2]
  BY <1>3, <1>5 DEF a, b, K
<1>6. CASE a = s[2] /\ b = s[1]
  <2>1. \A c \in K : C(c) \in Int /\ D(c) = - C(c)
    BY <1>1, <1>2, <1>6, Reversed
  <2>2. \A c \in K : /\ D(c) < 0 <=> C(c) > 0
                     /\ D(c) > 0 <=> C(c) < 0
                     /\ D(c) <= 0 <=> C(c) >= 0
                     /\ D(c) >= 0 <=> C(c) <= 0
    BY <2>1
  <2> HIDE DEF C, D
  <2>3. /\ (\E c \in K : D(c) < 0) <=> (\E c \in K : C(c) > 0)
        /\ (\E c \in K : D(c) > 0) <=> (\E c \in K : C(c) < 0)
        /\ (\E c \in K : D(c) <= 0) <=> (\E c \in K : C(c) >= 0)
        /\ (\E c \in K : D(c) >= 0) <=> (\E c \in K : C(c) <= 0)
    BY <2>2
  <2> QED  BY <1>3, <2>3 DEF a, b, K, C
<1> QED  BY <1>1, <1>5, <1>6

-----------------------------------------------------------------------------
(* What the five queries find, and what meets a window. *)

(* A segment that passes through a window ends in it, or is found at one of three
   sides. (At the fourth there is nothing to find that is not found there.) *)
LEMMA PassingIsFound ==
  ASSUME NEW s \in Segment, NEW w, Window(w), MeetsInterior(s, w)
  PROVE  \/ EndsInside(s, w)
         \/ \E b \in {1, 2} : Hits(s, w.x[b], w.y) \/ Hits(Mirrored(s), w.y[b], w.x)
<1> DEFINE a == Oriented(s)[1]    b == Oriented(s)[2]
           x == w.x[1]    z == w.x[2]    y == w.y[1]    u == w.y[2]
           C(p, q) == Cross(a, b, <<p, q>>)
           m == Mirrored(s)
<1>1. /\ a \in Int \X Int /\ b \in Int \X Int /\ a[1] <= b[1] /\ (a[1] = b[1] => a[2] <= b[2])
      /\ (a = s[1] /\ b = s[2]) \/ (a = s[2] /\ b = s[1])
      /\ XRange(s) = <<a[1], b[1]>>
      /\ YRange(s) = IF a[2] <= b[2] THEN <<a[2], b[2]>> ELSE <<b[2], a[2]>>
  BY OrientedForward, Orientation
<1>2. x \in Int /\ z \in Int /\ y \in Int /\ u \in Int
  BY DEF Window
<1>3. /\ OpenOverlap(XRange(s), w.x) /\ OpenOverlap(YRange(s), w.y)
      /\ \E c \in Corners(w) : Cross(a, b, c) < 0
      /\ \E c \in Corners(w) : Cross(a, b, c) > 0
  BY SidesOf
<1>4. /\ \E p \in {x, z}, q \in {y, u} : C(p, q) < 0
      /\ \E p \in {x, z}, q \in {y, u} : C(p, q) > 0
  BY <1>3, CornersOf
<1>5. \A p \in Int, q \in Int : /\ C(p, q) \in Int
                                /\ PointToTheLeft(Oriented(s), <<p, q>>) <=> C(p, q) > 0
                                /\ PointToTheLeft(Oriented(m), <<q, p>>) <=> IF a[2] <= b[2] THEN C(p, q) < 0 ELSE C(p, q) > 0
  <2> SUFFICES ASSUME NEW p \in Int, NEW q \in Int
               PROVE  /\ C(p, q) \in Int
                      /\ PointToTheLeft(Oriented(s), <<p, q>>) <=> C(p, q) > 0
                      /\ PointToTheLeft(Oriented(m), <<q, p>>) <=> IF a[2] <= b[2] THEN C(p, q) < 0 ELSE C(p, q) > 0
    OBVIOUS
  <2>1. <<p, q>> \in Int \X Int
    OBVIOUS
  <2>2. C(p, q) \in Int
    BY <1>1, <2>1, Reversed
  <2>3. PointToTheLeft(Oriented(s), <<p, q>>) <=> C(p, q) > 0
    BY DEF PointToTheLeft
  <2>4. PointToTheLeft(Oriented(m), <<q, p>>) <=> IF a[2] <= b[2] THEN C(p, q) < 0 ELSE C(p, q) > 0
    BY MirroredLeft
  <2> QED  BY <2>2, <2>3, <2>4
<1>6. XRange(m) = YRange(s)
  BY Mirror
<1>7. a[1] \in Int /\ a[2] \in Int /\ b[1] \in Int /\ b[2] \in Int
  BY <1>1
<1>8. /\ x < z /\ y < u /\ b[1] > x /\ a[1] < z
      /\ a[2] > y \/ b[2] > y
      /\ a[2] < u \/ b[2] < u
  <2> HIDE DEF a, b
  <2> QED  BY <1>1, <1>2, <1>3, <1>7 DEF OpenOverlap
<1> HIDE DEF a, b, x, z, y, u, m
<1>9. \/ a[1] >= x /\ a[1] < z /\ a[2] >= y /\ a[2] < u
      \/ a[1] <= x /\ x <= b[1] /\ C(x, y) <= 0 /\ C(x, u) > 0
      \/ a[2] <= b[2] /\ a[2] <= y /\ y <= b[2] /\ C(x, y) >= 0 /\ C(z, y) < 0
      \/ b[2] < a[2] /\ b[2] <= u /\ u <= a[2] /\ C(x, u) <= 0 /\ C(z, u) > 0
  <2>1. Passes(a, b, x, z, y, u)
    BY <1>1, <1>4, <1>8 DEF Passes
  <2> QED  BY <1>1, <1>2, <2>1, PassesASide
<1>10. CASE a[1] >= x /\ a[1] < z /\ a[2] >= y /\ a[2] < u
  <2>1. Inside(a, w)
    BY <1>10 DEF Inside, x, z, y, u
  <2> QED  BY <1>1, <2>1 DEF EndsInside
<1>11. CASE a[1] <= x /\ x <= b[1] /\ C(x, y) <= 0 /\ C(x, u) > 0
  <2>1. Within(XRange(s), x)
    BY <1>1, <1>11 DEF Within
  <2>2. ~PointToTheLeft(Oriented(s), <<x, y>>) /\ PointToTheLeft(Oriented(s), <<x, u>>)
    <3>1. /\ C(x, y) \in Int
          /\ PointToTheLeft(Oriented(s), <<x, y>>) <=> C(x, y) > 0
      BY <1>2, <1>5
    <3>2. PointToTheLeft(Oriented(s), <<x, u>>) <=> C(x, u) > 0
      BY <1>2, <1>5
    <3> HIDE DEF C
    <3> QED  BY <1>11, <3>1, <3>2
  <2>3. Hits(s, w.x[1], w.y)
    BY <2>1, <2>2 DEF Hits, x, y, u
  <2> QED  BY <2>3
<1>12. CASE a[2] <= b[2] /\ a[2] <= y /\ y <= b[2] /\ C(x, y) >= 0 /\ C(z, y) < 0
  <2>1. Within(XRange(m), y)
    BY <1>1, <1>6, <1>12 DEF Within
  <2>2. ~PointToTheLeft(Oriented(m), <<y, x>>) /\ PointToTheLeft(Oriented(m), <<y, z>>)
    BY <1>2, <1>5, <1>12
  <2>3. Hits(Mirrored(s), w.y[1], w.x)
    BY <2>1, <2>2 DEF Hits, x, y, z, m
  <2> QED  BY <2>3
<1>13. CASE b[2] < a[2] /\ b[2] <= u /\ u <= a[2] /\ C(x, u) <= 0 /\ C(z, u) > 0
  <2>1. ~ (a[2] <= b[2])
    BY <1>7, <1>13
  <2>2. Within(XRange(m), u)
    BY <1>1, <1>6, <1>13, <2>1 DEF Within
  <2>3. ~PointToTheLeft(Oriented(m), <<u, x>>) /\ PointToTheLeft(Oriented(m), <<u, z>>)
    BY <1>2, <1>5, <1>13, <2>1
  <2>4. Hits(Mirrored(s), w.y[2], w.x)
    BY <2>2, <2>3 DEF Hits, x, u, z, m
  <2> QED  BY <2>4
<1> QED  BY <1>9, <1>10, <1>11, <1>12, <1>13

(* What a vertical meets is between the segment's ends. *)
LEMMA BetweenEnds ==
  ASSUME NEW a \in Int \X Int, NEW b \in Int \X Int, NEW x \in Int, NEW y \in Int,
         a[1] <= x, x <= b[1], a[1] < b[1]
  PROVE  /\ y <= a[2] /\ y <= b[2] => Cross(a, b, <<x, y>>) <= 0
         /\ y > a[2] /\ y > b[2] => Cross(a, b, <<x, y>>) > 0
<1>1. a[1] \in Int /\ a[2] \in Int /\ b[1] \in Int /\ b[2] \in Int
  OBVIOUS
<1>2. ASSUME NEW ax \in Int, NEW ay \in Int, NEW bx \in Int, NEW by \in Int
      PROVE  (bx - ax) * (y - ay) - (by - ay) * (x - ax) = (bx - x) * (y - ay) + (x - ax) * (y - by)
  OBVIOUS
<1> DEFINE u == b[1] - x    v == x - a[1]    f == y - a[2]    g == y - b[2]
<1>3. Cross(a, b, <<x, y>>) = u * f + v * g
  <2>1. Cross(a, b, <<x, y>>) = (b[1] - a[1]) * (y - a[2]) - (b[2] - a[2]) * (x - a[1])
    BY DEF Cross
  <2> QED  BY <1>1, <1>2, <2>1
<1>4. /\ u \in Int /\ v \in Int /\ f \in Int /\ g \in Int
      /\ u >= 0 /\ v >= 0 /\ (u > 0 \/ v > 0)
      /\ y <= a[2] /\ y <= b[2] => f <= 0 /\ g <= 0
      /\ y > a[2] /\ y > b[2] => f > 0 /\ g > 0
  BY <1>1
<1> HIDE DEF u, v, f, g
<1>5. /\ u * f \in Int /\ v * g \in Int
      /\ f <= 0 => u * f <= 0
      /\ g <= 0 => v * g <= 0
      /\ f >= 0 => u * f >= 0
      /\ g >= 0 => v * g >= 0
      /\ u > 0 /\ f > 0 => u * f > 0
      /\ v > 0 /\ g > 0 => v * g > 0
  BY <1>4, Products
<1> QED  BY <1>3, <1>4, <1>5

(* What a side finds meets the window, but for a segment along the side's line. *)
LEMMA FoundMeets ==
  ASSUME NEW s \in Segment, NEW w, Window(w), NEW e \in {1, 2},
         Hits(s, w.x[e], w.y), XRange(s) # <<w.x[e], w.x[e]>>
  PROVE  MeetsWindow(s, w)
<1> DEFINE a == Oriented(s)[1]    b == Oriented(s)[2]    x == w.x[e]    y == w.y[1]    u == w.y[2]
<1>1. /\ a \in Int \X Int /\ b \in Int \X Int /\ a[1] <= b[1]
      /\ XRange(s) = <<a[1], b[1]>>
      /\ YRange(s) = IF a[2] <= b[2] THEN <<a[2], b[2]>> ELSE <<b[2], a[2]>>
      /\ XRange(s) \in Int \X Int /\ YRange(s) \in Int \X Int
  BY OrientedForward, Ranges
<1>2. /\ x \in Int /\ y \in Int /\ u \in Int /\ y <= u
      /\ w.x[1] <= x /\ x <= w.x[2] /\ w.x[1] \in Int /\ w.x[2] \in Int
      /\ w.x \in Int \X Int /\ w.y \in Int \X Int
  BY DEF Window
<1>3. <<x, y>> \in Corners(w) /\ <<x, u>> \in Corners(w)
  BY CornersOf
<1>4. /\ Cross(a, b, <<x, y>>) \in Int /\ Cross(a, b, <<x, u>>) \in Int
      /\ ~ (Cross(a, b, <<x, y>>) > 0) /\ Cross(a, b, <<x, u>>) > 0
  BY <1>1, <1>2, Reversed DEF Hits, PointToTheLeft
<1>5. a[1] \in Int /\ a[2] \in Int /\ b[1] \in Int /\ b[2] \in Int
  BY <1>1
<1>6. a[1] <= x /\ x <= b[1]
  BY <1>1 DEF Hits, Within
<1> HIDE DEF a, b, x, y, u
<1>7. a[1] < b[1]
  <2>1. XRange(s) # <<x, x>>
    BY DEF x
  <2> QED  BY <1>1, <1>2, <1>5, <1>6, <2>1
<1>8. /\ ~ (u <= a[2] /\ u <= b[2])
      /\ ~ (y > a[2] /\ y > b[2])
  <2>1. u <= a[2] /\ u <= b[2] => Cross(a, b, <<x, u>>) <= 0
    BY <1>1, <1>2, <1>6, <1>7, BetweenEnds
  <2>2. y > a[2] /\ y > b[2] => Cross(a, b, <<x, y>>) > 0
    BY <1>1, <1>2, <1>6, <1>7, BetweenEnds
  <2> QED  BY <1>4, <2>1, <2>2
<1>9. ~Disjoint(XRange(s), w.x)
  BY <1>1, <1>2, <1>5, <1>6, <1>7, DisjointMeans
<1>10. ~Disjoint(YRange(s), w.y)
  <2>1. /\ YRange(s)[1] <= YRange(s)[2] /\ YRange(s)[1] \in Int /\ YRange(s)[2] \in Int
        /\ YRange(s)[1] <= u /\ y <= YRange(s)[2]
    BY <1>1, <1>2, <1>5, <1>8
  <2>2. w.y[1] = y /\ w.y[2] = u
    BY DEF y, u
  <2> QED  BY <1>1, <1>2, <2>1, <2>2, DisjointMeans
<1>11. /\ \E c \in Corners(w) : Cross(a, b, c) <= 0
       /\ \E c \in Corners(w) : Cross(a, b, c) >= 0
  <2>1. Cross(a, b, <<x, y>>) <= 0 /\ Cross(a, b, <<x, u>>) >= 0
    BY <1>4
  <2> QED  BY <1>3, <2>1
<1> QED  BY <1>9, <1>10, <1>11, SidesOf DEF a, b

(* The window as the second tree sees it. *)
Turned(w) == [x |-> w.y, y |-> w.x]

LEMMA TurnedMeets ==
  ASSUME NEW s \in Segment, NEW w, Window(w), MeetsWindow(Mirrored(s), Turned(w))
  PROVE  MeetsWindow(s, w)
<1> DEFINE m == Mirrored(s)    v == Turned(w)
<1>1. v.x = w.y /\ v.y = w.x /\ Window(v)
  BY DEF Turned, Window
<1>2. /\ m[1] = Swapped(s[1]) /\ m[2] = Swapped(s[2])
      /\ XRange(m) = YRange(s) /\ YRange(m) = XRange(s)
  BY Mirror
<1>3. ~Disjoint(XRange(s), w.x) /\ ~Disjoint(YRange(s), w.y)
  BY <1>1, <1>2 DEF MeetsWindow
<1>4. ASSUME NEW c \in Corners(v)
      PROVE  \E d \in Corners(w) : Cross(s[1], s[2], d) \in Int /\ Cross(m[1], m[2], c) = - Cross(s[1], s[2], d)
  <2>1. PICK p \in {v.x[1], v.x[2]}, q \in {v.y[1], v.y[2]} : c = <<p, q>>
    BY <1>1, CornersOf
  <2>2. <<q, p>> \in Corners(w) /\ <<q, p>> \in Int \X Int
    BY <1>1, <2>1, CornersOf
  <2>3. c = Swapped(<<q, p>>)
    BY <2>1 DEF Swapped
  <2>4. s[1] \in Int \X Int /\ s[2] \in Int \X Int
    BY DEF Segment
  <2>5. /\ Cross(s[1], s[2], <<q, p>>) \in Int
        /\ Cross(Swapped(s[1]), Swapped(s[2]), Swapped(<<q, p>>)) = - Cross(s[1], s[2], <<q, p>>)
    BY <2>2, <2>4, MirrorCross, Reversed
  <2> QED  BY <1>2, <2>2, <2>3, <2>5
<1>5. PICK c \in Corners(v), d \in Corners(v) : Cross(m[1], m[2], c) <= 0 /\ Cross(m[1], m[2], d) >= 0
  BY DEF MeetsWindow, OnSides
<1> HIDE DEF m, v
<1>6. \E f \in Corners(w) : Cross(s[1], s[2], f) >= 0
  <2>1. PICK f \in Corners(w) : Cross(s[1], s[2], f) \in Int /\ Cross(m[1], m[2], c) = - Cross(s[1], s[2], f)
    BY <1>4
  <2> QED  BY <1>5, <2>1
<1>7. \E f \in Corners(w) : Cross(s[1], s[2], f) <= 0
  <2>1. PICK f \in Corners(w) : Cross(s[1], s[2], f) \in Int /\ Cross(m[1], m[2], d) = - Cross(s[1], s[2], f)
    BY <1>4
  <2> QED  BY <1>5, <2>1
<1> QED  BY <1>3, <1>6, <1>7 DEF MeetsWindow, OnSides

(* A segment that ends in the window meets it. *)
LEMMA EndingMeets ==
  ASSUME NEW s \in Segment, NEW w, Window(w), EndsInside(s, w)
  PROVE  MeetsWindow(s, w)
<1> DEFINE a == Oriented(s)[1]    b == Oriented(s)[2]
           x == w.x[1]    z == w.x[2]    y == w.y[1]    u == w.y[2]
<1>1. /\ a \in Int \X Int /\ b \in Int \X Int /\ a[1] <= b[1]
      /\ (a = s[1] /\ b = s[2]) \/ (a = s[2] /\ b = s[1])
      /\ XRange(s) = <<a[1], b[1]>>
      /\ YRange(s) = IF a[2] <= b[2] THEN <<a[2], b[2]>> ELSE <<b[2], a[2]>>
      /\ XRange(s) \in Int \X Int /\ YRange(s) \in Int \X Int
  BY OrientedForward, Orientation, Ranges
<1>2. /\ x \in Int /\ z \in Int /\ y \in Int /\ u \in Int
      /\ w.x \in Int \X Int /\ w.y \in Int \X Int
      /\ \A p \in {x, z}, q \in {y, u} : <<p, q>> \in Corners(w)
  BY CornersOf DEF Window
<1>3. PICK e \in {1, 2} : Inside(s[e], w)
  BY DEF EndsInside
<1> DEFINE p == s[e]
<1>4. /\ p = a \/ p = b
      /\ x <= p[1] /\ p[1] < z /\ y <= p[2] /\ p[2] < u
  BY <1>1, <1>3 DEF Inside
<1> HIDE DEF a, b, x, z, y, u, p
<1>5. /\ a[1] \in Int /\ a[2] \in Int /\ b[1] \in Int /\ b[2] \in Int /\ p[1] \in Int /\ p[2] \in Int
      /\ p = <<p[1], p[2]>>
  BY <1>1, <1>4
<1>6. Cross(a, b, <<p[1], p[2]>>) = 0
  <2> DEFINE m == b[1] - a[1]    n == b[2] - a[2]
  <2>1. /\ Cross(a, b, a) = m * 0 - n * 0
        /\ Cross(a, b, b) = m * n - n * m
    BY <1>5 DEF Cross
  <2>2. m \in Int /\ n \in Int
    BY <1>5
  <2> HIDE DEF m, n
  <2>3. m * 0 - n * 0 = 0 /\ m * n - n * m = 0
    BY <2>2
  <2> QED  BY <1>4, <1>5, <2>1, <2>3
<1>7. ~Disjoint(XRange(s), w.x)
  <2>1. w.x[1] = x /\ w.x[2] = z
    BY DEF x, z
  <2>2. /\ XRange(s)[1] = a[1] /\ XRange(s)[2] = b[1] /\ a[1] <= p[1] /\ p[1] <= b[1]
    BY <1>1, <1>4, <1>5
  <2> QED  BY <1>1, <1>2, <1>4, <1>5, <2>1, <2>2, DisjointMeans
<1>8. ~Disjoint(YRange(s), w.y)
  <2>1. w.y[1] = y /\ w.y[2] = u
    BY DEF y, u
  <2>2. /\ YRange(s)[1] \in Int /\ YRange(s)[2] \in Int
        /\ YRange(s)[1] <= p[2] /\ p[2] <= YRange(s)[2]
    BY <1>1, <1>4, <1>5
  <2> QED  BY <1>1, <1>2, <1>4, <1>5, <2>1, <2>2, DisjointMeans
<1>9. /\ \E c \in Corners(w) : Cross(a, b, c) <= 0
      /\ \E c \in Corners(w) : Cross(a, b, c) >= 0
  <2>1. CASE a[2] <= b[2]
    <3>1. /\ Cross(a, b, <<z, y>>) <= Cross(a, b, <<p[1], p[2]>>)
          /\ Cross(a, b, <<p[1], p[2]>>) <= Cross(a, b, <<x, u>>)
      <4>1. p[1] <= z /\ y <= p[2]
        BY <1>2, <1>4, <1>5
      <4>2. x <= p[1] /\ p[2] <= u
        BY <1>2, <1>4, <1>5
      <4>3. Cross(a, b, <<z, y>>) <= Cross(a, b, <<p[1], p[2]>>)
        BY <1>1, <1>2, <1>5, <2>1, <4>1, CrossOrder
      <4>4. Cross(a, b, <<p[1], p[2]>>) <= Cross(a, b, <<x, u>>)
        BY <1>1, <1>2, <1>5, <2>1, <4>2, CrossOrder
      <4> QED  BY <4>3, <4>4
    <3> QED  BY <1>2, <1>6, <3>1
  <2>2. CASE ~ (a[2] <= b[2])
    <3>1. /\ Cross(a, b, <<x, y>>) <= Cross(a, b, <<p[1], p[2]>>)
          /\ Cross(a, b, <<p[1], p[2]>>) <= Cross(a, b, <<z, u>>)
      <4>1. x <= p[1] /\ y <= p[2] /\ b[2] <= a[2]
        BY <1>2, <1>4, <1>5, <2>2
      <4>2. p[1] <= z /\ p[2] <= u
        BY <1>2, <1>4, <1>5
      <4>3. Cross(a, b, <<x, y>>) <= Cross(a, b, <<p[1], p[2]>>)
        BY <1>1, <1>2, <1>5, <4>1, CrossOrder
      <4>4. Cross(a, b, <<p[1], p[2]>>) <= Cross(a, b, <<z, u>>)
        BY <1>1, <1>2, <1>5, <4>1, <4>2, CrossOrder
      <4> QED  BY <4>3, <4>4
    <3> QED  BY <1>2, <1>6, <3>1
  <2> QED  BY <2>1, <2>2
<1> QED  BY <1>7, <1>8, <1>9, SidesOf DEF a, b

-----------------------------------------------------------------------------
(* The inductive invariant: what the constructor has built, and what the query
   has found so far.                                                        *)

Hollow(axis) ==
  axis \in DOMAIN trees /\ trees[axis] = [levels |-> Levels(Along(axis)), lists |-> <<>>]

Built(axis) ==
  /\ axis \in DOMAIN trees
  /\ trees[axis].levels = Levels(Along(axis))
  /\ Filled(Along(axis), Levels(Along(axis)), trees[axis].lists)

EndsIn == {e \in Ends : Inside(Point(e), window)}

Constructed == {"ready", "sides x", "sides y", "inner", "done"}
Answering == {"sides x", "sides y", "inner", "done"}

Construction ==
  /\ phase \notin {"ranges", "threw"} => ~EqualEnds(segments)
  /\ phase \notin {"ranges", "threw", "x"} => segments # <<>>
  /\ phase = "threw" => MayFail(segments)
  /\ phase = "insert x" => Hollow("x")
  /\ phase = "insert y" => Hollow("y")
  /\ phase \in {"y", "insert y"} \cup Constructed => Built("x")
  /\ phase \in Constructed => Built("y")

Finding ==
  /\ phase \in Answering => Window(window)
  /\ phase \notin {"sides y", "inner", "done"} => res = {}
  /\ phase = "sides y" => res = Side("x")
  /\ phase = "inner" => res = Side("x") \cup Side("y")
  /\ phase = "done" => res = Side("x") \cup Side("y") \cup Inner(EndsIn) \cup extra
  /\ phase # "done" => extra = {}
  /\ extra = {} \/ \E i \in Indices : extra = {i}

IInv == TypeOK /\ Construction /\ Finding

LEMMA Vectors ==
  ASSUME TypeOK, segments # <<>>
  PROVE  Vector(segments)
BY DEF TypeOK, Vector, SegmentVectors, Segment

(* What the sides find. *)
LEMMA SidesFind ==
  ASSUME TypeOK, segments # <<>>, NEW axis \in {"x", "y"}, Built(axis), Window(window)
  PROVE  /\ Side(axis) \subseteq Indices
         /\ Clear(segments, window) =>
              /\ \A i \in Side(axis) : \E b \in {1, 2} :
                   Hits(Along(axis)[i], window[axis][b], Across(axis)) /\ XRange(Along(axis)[i]) # <<window[axis][b], window[axis][b]>>
              /\ \A i \in Indices, b \in {1, 2} :
                   Hits(Along(axis)[i], window[axis][b], Across(axis)) => i \in Side(axis)
<1> DEFINE segs == Along(axis)
           T == Levels(segs)
           lists == trees[axis].lists
           r == window[axis]
           y == Across(axis)
           tree == [levels |-> T, lists |-> lists]
           found(b) == QueryTree(segs, tree, r[b], y)
<1>1. /\ Vector(segments) /\ Vector(segs) /\ DOMAIN segs = Indices
      /\ \A i \in Indices : /\ segments[i] \in Segment /\ segs[i] \in Segment
                            /\ segs[i] = IF axis = "x" THEN segments[i] ELSE Mirrored(segments[i])
  BY Vectors, AlongVectors, Mirror
<1>2. /\ y \in Int \X Int /\ y[1] <= y[2]
      /\ \A b \in {1, 2} : r[b] \in Int
  BY DEF Window, Across
<1>3. Filled(segs, T, lists) /\ trees[axis].levels = T
  BY DEF Built
<1>4. \A b \in {1, 2} : QueryTree(Along(axis), trees[axis], window[axis][b], Across(axis)) = found(b)
  <2>1. tree.levels = trees[axis].levels /\ tree.lists = trees[axis].lists
    BY <1>3
  <2> HIDE DEF tree
  <2> QED  BY <2>1 DEF QueryTree
<1>5. Side(axis) = UNION {found(b) : b \in {1, 2}}
  BY <1>4 DEF Side
<1>6. ASSUME NEW b \in {1, 2}
      PROVE  /\ found(b) \subseteq Indices
             /\ (\A i \in Indices : XRange(segs[i]) # <<r[b], r[b]>>) => found(b) = Crossed(segs, r[b], y)
  BY <1>1, <1>2, <1>3, QueryFinds
<1>7. ASSUME Clear(segments, window), NEW b \in {1, 2}, NEW i \in Indices
      PROVE  XRange(segs[i]) # <<r[b], r[b]>>
  <2>1. XRange(segments[i]) # <<window.x[b], window.x[b]>> /\ YRange(segments[i]) # <<window.y[b], window.y[b]>>
    BY <1>1, <1>7, VectorElements DEF Clear, Indices
  <2>2. CASE axis = "x"
    BY <1>1, <2>1, <2>2
  <2>3. CASE axis = "y"
    <3>1. XRange(segs[i]) = YRange(segments[i])
      BY <1>1, <2>3, Mirror
    <3> QED  BY <2>1, <2>3, <3>1
  <2> QED  BY <2>2, <2>3
<1> HIDE DEF segs, r, y, found
<1>8. Side(axis) \subseteq Indices
  BY <1>5, <1>6
<1>9. ASSUME Clear(segments, window), NEW b \in {1, 2}
      PROVE  found(b) = {i \in Indices : Hits(segs[i], r[b], y)}
  BY <1>1, <1>6, <1>7, <1>9 DEF Crossed
<1>10. ASSUME Clear(segments, window), NEW i \in Side(axis)
       PROVE  \E b \in {1, 2} : Hits(segs[i], r[b], y) /\ XRange(segs[i]) # <<r[b], r[b]>>
  <2>1. PICK b \in {1, 2} : i \in found(b)
    BY <1>5
  <2>2. i \in Indices /\ Hits(segs[i], r[b], y)
    BY <1>9, <1>10, <2>1
  <2> QED  BY <1>7, <1>10, <2>2
<1>11. ASSUME Clear(segments, window), NEW i \in Indices, NEW b \in {1, 2}, Hits(segs[i], r[b], y)
       PROVE  i \in Side(axis)
  BY <1>5, <1>9, <1>11
<1> QED  BY <1>8, <1>10, <1>11 DEF segs, r, y

LEMMA SameSegments ==
  ASSUME UNCHANGED segments
  PROVE  Indices' = Indices /\ Ends' = Ends /\ \A axis \in {"x", "y"} : Along(axis)' = Along(axis)
<1>1. Indices' = Indices /\ Ends' = Ends
  BY DEF Indices, Ends
<1> QED  BY <1>1 DEF Along

LEMMA SameTrees ==
  ASSUME UNCHANGED <<segments, trees>>
  PROVE  \A axis \in {"x", "y"} : Built(axis)' = Built(axis)
BY SameSegments DEF Built

LEMMA SameSides ==
  ASSUME UNCHANGED <<segments, trees, window>>
  PROVE  EndsIn' = EndsIn /\ \A axis \in {"x", "y"} : Side(axis)' = Side(axis)
<1>1. EndsIn' = EndsIn
  BY SameSegments DEF EndsIn, Point
<1> QED  BY <1>1, SameSegments DEF Side, Across

-----------------------------------------------------------------------------

LEMMA Initially ==
  ASSUME Init
  PROVE  IInv
<1>1. segments \in SegmentVectors
  BY InputsAssumption DEF Init
<1>2. TypeOK
  BY <1>1 DEF Init, TypeOK, NoWindow
<1>3. Construction
  BY DEF Init, Construction, Constructed
<1>4. Finding
  BY DEF Init, Finding, Answering
<1> QED  BY <1>2, <1>3, <1>4 DEF IInv

LEMMA BuildRangesKeeps ==
  ASSUME IInv, BuildRanges
  PROVE  IInv'
<1>1. TypeOK'
  BY SameSegments DEF IInv, TypeOK, BuildRanges
<1>2. Construction'
  <2>1. phase' \in {"x", "threw"} /\ (phase' = "threw" <=> EqualEnds(segments)) /\ segments' = segments
    BY DEF BuildRanges
  <2>2. CASE phase' = "x"
    BY <2>1, <2>2 DEF Construction, Constructed
  <2>3. CASE phase' = "threw"
    BY <2>1, <2>3 DEF Construction, Constructed, MayFail, Fails
  <2> QED  BY <2>1, <2>2, <2>3
<1>3. Finding'
  BY DEF IInv, Finding, Answering, BuildRanges
<1> QED  BY <1>1, <1>2, <1>3 DEF IInv

LEMMA BuildTreeKeeps ==
  ASSUME IInv, NEW axis \in {"x", "y"}, BuildTree(axis)
  PROVE  IInv'
<1> DEFINE tree == [levels |-> Levels(Along(axis)), lists |-> <<>>]
<1>1. /\ phase = axis /\ phase \in {"x", "y"}
      /\ \/ segments = <<>> /\ phase' = "threw" /\ trees' = trees
         \/ /\ segments # <<>> /\ trees' = With(trees, axis, tree)
            /\ phase' = IF axis = "x" THEN "insert x" ELSE "insert y"
      /\ UNCHANGED <<segments, window, res, extra>>
  BY DEF BuildTree
<1> HIDE DEF tree
<1>2. segments # <<>> => /\ DOMAIN trees' = DOMAIN trees \cup {axis}
                         /\ trees'[axis] = tree
                         /\ \A k \in DOMAIN trees : k # axis => trees'[k] = trees[k]
  BY <1>1 DEF With
<1>3. TypeOK'
  <2>1. DOMAIN trees' \subseteq {"x", "y"}
    BY <1>1, <1>2 DEF IInv, TypeOK
  <2> QED  BY <1>1, <2>1, SameSegments DEF IInv, TypeOK
<1>4. Construction'
  <2>1. CASE segments = <<>>
    BY <1>1, <2>1 DEF Construction, Constructed, MayFail, Fails
  <2>2. CASE segments # <<>>
    <3>1. ~EqualEnds(segments')
      BY <1>1 DEF IInv, Construction
    <3>2. Hollow(axis)'
      BY <1>1, <1>2, <2>2, SameSegments DEF Hollow, tree
    <3>3. axis = "y" => Built("x")'
      <4>1. axis = "y" => Built("x")
        BY <1>1 DEF IInv, Construction
      <4> QED  BY <1>1, <1>2, <2>2, <4>1, SameSegments DEF Built
    <3> QED  BY <1>1, <2>2, <3>1, <3>2, <3>3 DEF Construction, Constructed
  <2> QED  BY <2>1, <2>2
<1>5. Finding'
  BY <1>1 DEF IInv, Finding, Answering
<1> QED  BY <1>3, <1>4, <1>5 DEF IInv

LEMMA HollowTrees ==
  ASSUME IInv, NEW axis \in {"x", "y"}, Inserting(axis)
  PROVE  Vector(segments) /\ Hollow(axis)
<1>1. phase = IF axis = "x" THEN "insert x" ELSE "insert y"
  BY DEF Inserting
<1>2. segments # <<>> /\ Hollow(axis)
  BY <1>1 DEF IInv, Construction
<1> QED  BY <1>2, Vectors DEF IInv

LEMMA InsertSegmentsKeeps ==
  ASSUME IInv, NEW axis \in {"x", "y"}, InsertSegments(axis)
  PROVE  IInv'
<1> DEFINE segs == Along(axis)
           T == Levels(segs)
<1>1. /\ phase = IF axis = "x" THEN "insert x" ELSE "insert y"
      /\ phase' = IF axis = "x" THEN "y" ELSE "ready"
      /\ UNCHANGED <<segments, window, res, extra>>
      /\ Inserting(axis)
  BY DEF InsertSegments, Inserting
<1>2. Vector(segments) /\ Hollow(axis)
  BY <1>1, HollowTrees
<1>3. axis \in DOMAIN trees /\ trees[axis] = [levels |-> T, lists |-> <<>>]
  BY <1>2 DEF Hollow
<1>4. PICK lists \in Lists(segs, T) : trees' = [trees EXCEPT ![axis].lists = lists]
  <2>1. trees[axis].levels = Levels(Along(axis))
    BY <1>3
  <2> QED  BY <2>1 DEF InsertSegments
<1> HIDE DEF T, segs
<1>5. /\ DOMAIN trees' = DOMAIN trees
      /\ trees'[axis].levels = T /\ trees'[axis].lists = lists
      /\ \A k \in DOMAIN trees : k # axis => trees'[k] = trees[k]
  BY <1>3, <1>4
<1>6. Filled(segs, T, lists)
  <2>1. Vector(segs)
    BY <1>2, AlongVectors DEF segs
  <2>2. IsFiniteSet(Nodes(T))
    BY <2>1, LevelsAreTower, NodesAreFinite DEF T
  <2> QED  BY <2>2, ListsAreSorted DEF Filled
<1>7. TypeOK'
  BY <1>1, <1>5, SameSegments DEF IInv, TypeOK
<1>8. Construction'
  <2>1. ~EqualEnds(segments') /\ segments' # <<>>
    BY <1>1 DEF IInv, Construction
  <2>2. Built(axis)'
    BY <1>1, <1>3, <1>5, <1>6, SameSegments DEF Built, segs, T
  <2>3. axis = "y" => Built("x")'
    <3>1. axis = "y" => Built("x")
      BY <1>1 DEF IInv, Construction
    <3> QED  BY <1>1, <1>5, <3>1, SameSegments DEF Built
  <2> QED  BY <1>1, <2>1, <2>2, <2>3 DEF Construction, Constructed
<1>9. Finding'
  BY <1>1 DEF IInv, Finding, Answering
<1> QED  BY <1>7, <1>8, <1>9 DEF IInv

LEMMA InsertThrowsKeeps ==
  ASSUME IInv, NEW axis \in {"x", "y"}, InsertThrows(axis)
  PROVE  IInv'
<1>1. /\ phase = IF axis = "x" THEN "insert x" ELSE "insert y"
      /\ phase' = "threw"
      /\ UNCHANGED <<segments, trees, window, res, extra>>
      /\ Inserting(axis) /\ MayThrow(Along(axis), trees[axis].levels)
  BY DEF InsertThrows, Inserting
<1>2. MayFail(segments)
  <2>1. Vector(segments) /\ Hollow(axis)
    BY <1>1, HollowTrees
  <2>2. trees[axis].levels = Levels(Along(axis))
    BY <2>1 DEF Hollow
  <2> QED  BY <1>1, <2>1, <2>2, ThrowsForTouching
<1>3. TypeOK'
  BY <1>1, SameSegments DEF IInv, TypeOK
<1>4. Construction'
  BY <1>1, <1>2 DEF Construction, Constructed
<1>5. Finding'
  BY <1>1 DEF IInv, Finding, Answering
<1> QED  BY <1>3, <1>4, <1>5 DEF IInv

LEMMA QueryKeeps ==
  ASSUME IInv, Query
  PROVE  IInv'
<1>1. /\ phase = "ready" /\ phase' = "sides x"
      /\ UNCHANGED <<segments, trees, res, extra>>
  BY DEF Query
<1>2. PICK x \in Windows, y \in Windows : window' = [x |-> x, y |-> y]
  BY DEF Query
<1>3. x \in Int \X Int /\ x[1] <= x[2] /\ y \in Int \X Int /\ y[1] <= y[2]
  BY InputsAssumption DEF Windows
<1>4. TypeOK'
  <2>1. window' \in [{"x", "y"} -> Int \X Int]
    BY <1>2, <1>3
  <2> QED  BY <1>1, <2>1, SameSegments DEF IInv, TypeOK
<1>5. Construction'
  BY <1>1, SameTrees DEF IInv, Construction, Constructed
<1>6. Finding'
  <2>1. Window(window')
    BY <1>2, <1>3 DEF Window
  <2> QED  BY <1>1, <2>1 DEF IInv, Finding, Answering
<1> QED  BY <1>4, <1>5, <1>6 DEF IInv

LEMMA TreesAreBuilt ==
  ASSUME IInv, phase \in Constructed
  PROVE  segments # <<>> /\ Vector(segments) /\ Built("x") /\ Built("y")
<1>1. segments # <<>> /\ Built("x") /\ Built("y")
  BY DEF IInv, Construction, Constructed
<1> QED  BY <1>1, Vectors DEF IInv

LEMMA QuerySidesKeeps ==
  ASSUME IInv, NEW axis \in {"x", "y"}, QuerySides(axis)
  PROVE  IInv'
<1>1. /\ phase = IF axis = "x" THEN "sides x" ELSE "sides y"
      /\ phase' = IF axis = "x" THEN "sides y" ELSE "inner"
      /\ res' = res \cup Side(axis)
      /\ UNCHANGED <<segments, trees, window, extra>>
  BY DEF QuerySides
<1>2. Window(window) /\ extra = {} /\ res = IF axis = "x" THEN {} ELSE Side("x")
  BY <1>1 DEF IInv, Finding, Answering
<1>3. segments # <<>> /\ Built("x") /\ Built("y")
  BY <1>1, TreesAreBuilt DEF Constructed
<1>4. Side(axis) \subseteq Indices
  BY <1>2, <1>3, SidesFind DEF IInv
<1>5. TypeOK'
  BY <1>1, <1>4, SameSegments DEF IInv, TypeOK
<1>6. Construction'
  BY <1>1, SameTrees DEF IInv, Construction, Constructed
<1>7. Finding'
  <2>1. Side("x")' = Side("x") /\ Side("y")' = Side("y")
    BY <1>1, SameSides
  <2> QED  BY <1>1, <1>2, <2>1 DEF Finding, Answering
<1> QED  BY <1>5, <1>6, <1>7 DEF IInv

LEMMA QueryInnerKeeps ==
  ASSUME IInv, QueryInner
  PROVE  IInv'
<1>1. /\ phase = "inner" /\ phase' = "done"
      /\ UNCHANGED <<segments, trees, window>>
      /\ \/ res' = res \cup Inner(EndsIn) /\ extra' = extra
         \/ \E e \in Ends : EndsIn = {} /\ res' = res \cup Inner({e}) /\ extra' = Inner({e})
  BY DEF QueryInner, EndsIn
<1>2. Window(window) /\ extra = {} /\ res = Side("x") \cup Side("y") /\ res \subseteq Indices
  BY <1>1 DEF IInv, Finding, Answering, TypeOK
<1>3. /\ \A e \in Ends : e[1] \in Indices /\ Inner({e}) = {e[1]}
      /\ Inner(EndsIn) \subseteq Indices
      /\ EndsIn = {} => Inner(EndsIn) = {}
  BY DEF Ends, Inner, EndsIn
<1>4. TypeOK'
  <2>1. res' \subseteq Indices /\ extra' \subseteq res'
    <3>1. CASE res' = res \cup Inner(EndsIn) /\ extra' = extra
      BY <1>2, <1>3, <3>1
    <3>2. ASSUME NEW e \in Ends, res' = res \cup Inner({e}), extra' = Inner({e})
          PROVE  res' \subseteq Indices /\ extra' \subseteq res'
      BY <1>2, <1>3, <3>2
    <3> QED  BY <1>1, <3>1, <3>2
  <2> QED  BY <1>1, <2>1, SameSegments DEF IInv, TypeOK
<1>5. Construction'
  BY <1>1, SameTrees DEF IInv, Construction, Constructed
<1>6. Finding'
  <2>1. Side("x")' = Side("x") /\ Side("y")' = Side("y") /\ EndsIn' = EndsIn /\ Indices' = Indices
    BY <1>1, SameSides, SameSegments
  <2>2. Inner(EndsIn)' = Inner(EndsIn)
    BY <2>1 DEF Inner
  <2>3. res' = Side("x") \cup Side("y") \cup Inner(EndsIn) \cup extra'
    BY <1>1, <1>2, <1>3
  <2>4. extra' = {} \/ \E i \in Indices : extra' = {i}
    BY <1>1, <1>2, <1>3
  <2> QED  BY <1>1, <1>2, <2>1, <2>2, <2>3, <2>4 DEF Finding, Answering
<1> QED  BY <1>4, <1>5, <1>6 DEF IInv

LEMMA ReturnKeeps ==
  ASSUME IInv, Return
  PROVE  IInv'
<1>1. /\ phase = "done" /\ phase' = "ready" /\ window' = NoWindow /\ res' = {} /\ extra' = {}
      /\ UNCHANGED <<segments, trees>>
  BY DEF Return
<1>2. TypeOK'
  BY <1>1, SameSegments DEF IInv, TypeOK, NoWindow
<1>3. Construction'
  BY <1>1, SameTrees DEF IInv, Construction, Constructed
<1>4. Finding'
  BY <1>1 DEF Finding, Answering
<1> QED  BY <1>2, <1>3, <1>4 DEF IInv

LEMMA Kept ==
  ASSUME IInv, [Next]_vars
  PROVE  IInv'
<1>1. CASE UNCHANGED vars
  <2>1. TypeOK'
    BY <1>1, SameSegments DEF vars, IInv, TypeOK
  <2>2. \A axis \in {"x", "y"} : Hollow(axis)' = Hollow(axis)
    BY <1>1, SameSegments DEF vars, Hollow
  <2>3. Construction'
    BY <1>1, <2>2, SameTrees DEF vars, IInv, Construction
  <2>4. Inner(EndsIn)' = Inner(EndsIn)
    BY <1>1, SameSides DEF vars, Inner
  <2>5. Finding'
    BY <1>1, <2>4, SameSegments, SameSides DEF vars, IInv, Finding
  <2> QED  BY <2>1, <2>3, <2>5 DEF IInv
<1>2. CASE BuildRanges
  BY <1>2, BuildRangesKeeps
<1>3. ASSUME NEW axis \in {"x", "y"}, BuildTree(axis) PROVE IInv'
  BY <1>3, BuildTreeKeeps
<1>4. ASSUME NEW axis \in {"x", "y"}, InsertSegments(axis) PROVE IInv'
  BY <1>4, InsertSegmentsKeeps
<1>5. ASSUME NEW axis \in {"x", "y"}, InsertThrows(axis) PROVE IInv'
  BY <1>5, InsertThrowsKeeps
<1>6. ASSUME NEW axis \in {"x", "y"}, QuerySides(axis) PROVE IInv'
  BY <1>6, QuerySidesKeeps
<1>7. CASE Query
  BY <1>7, QueryKeeps
<1>8. CASE QueryInner
  BY <1>8, QueryInnerKeeps
<1>9. CASE Return
  BY <1>9, ReturnKeeps
<1> QED  BY <1>1, <1>2, <1>3, <1>4, <1>5, <1>6, <1>7, <1>8, <1>9 DEF Next

(* The constructor and the query keep what each needs of the other's steps. *)
LEMMA Invariant == Spec => []IInv
<1>1. Init => IInv
  BY Initially
<1>2. IInv /\ [Next]_vars => IInv'
  BY Kept
<1> QED  BY <1>1, <1>2, PTL DEF Spec

-----------------------------------------------------------------------------
(* The theorems. *)

(* The state has its type: in particular every index that the constructor and
   the queries hand on is one of a segment.                                 *)
THEOREM TypeCorrect == Spec => []TypeOK
<1>1. IInv => TypeOK
  BY DEF IInv
<1> QED  BY <1>1, Invariant, PTL

(* windowing_t's constructor throws for equal ends and for no segments, and for
   others only if two of them touch: no assertion of build_tree, and none of
   check, fails for any vector of segments, and compare_segments throws for no
   pair without a common point.                                             *)
THEOREM ConstructorThrows == Spec => []ThrowsAsPromised
<1>1. IInv => ThrowsAsPromised
  BY DEF IInv, Construction, Constructed, ThrowsAsPromised, Fails
<1> QED  BY <1>1, Invariant, PTL

(* boost::sort, told by compare_segments, puts the segments of every node in an
   order that lower_bound may bisect at any x of the node's interval where no
   segment of the list is vertical.                                         *)
THEOREM BisectionsAreSound == Spec => []ListsAreMonotone
<1>1. IInv => ListsAreMonotone
  <2> SUFFICES ASSUME IInv, phase = "ready", NEW axis \in {"x", "y"}, NEW n \in Nodes(trees[axis].levels),
                      NEW x \in Interval(trees[axis].levels, n)[1] .. Interval(trees[axis].levels, n)[2],
                      NEW y \in Bounds,
                      \A k \in DOMAIN trees[axis].lists[n] : XRange(Along(axis)[trees[axis].lists[n][k]]) # <<x, x>>,
                      NEW a \in DOMAIN trees[axis].lists[n], NEW b \in DOMAIN trees[axis].lists[n], a < b,
                      Below(Along(axis), trees[axis].lists[n], <<x, y>>)[b]
               PROVE  Below(Along(axis), trees[axis].lists[n], <<x, y>>)[a]
    BY DEF ListsAreMonotone
  <2> DEFINE segs == Along(axis)
             T == Levels(segs)
             list == trees[axis].lists[n]
  <2>1. Vector(segments) /\ Built(axis)
    BY TreesAreBuilt DEF Constructed
  <2>2. /\ trees[axis].levels = T /\ n \in Nodes(T)
        /\ list \in SortSegments(segs, StoredAt(segs, T, n))
    BY <2>1 DEF Built, Filled
  <2>3. Vector(segs) /\ Tower(T, First(segs), Final(segs))
    BY <2>1, AlongVectors, LevelsAreTower
  <2>4. Interval(T, n)[1] \in Int /\ Interval(T, n)[2] \in Int
    BY <2>2, <2>3, NodesOf
  <2>5. x \in Int /\ y \in Int /\ Within(Interval(T, n), x)
    BY <2>2, <2>4, InputsAssumption DEF Within
  <2>6. DOMAIN list = 1 .. Len(list)
    BY <2>2, <2>3, StoredCover, Permutation DEF SortSegments
  <2> HIDE DEF segs, T, list
  <2>7. Monotone(Below(segs, list, <<x, y>>), Len(list))
    <3>1. \A k \in DOMAIN list : XRange(segs[list[k]]) # <<x, x>>
      BY DEF segs, list
    <3> QED  BY <2>2, <2>3, <2>5, <3>1, SortedIsMonotone
  <2>8. a \in 1 .. Len(list) /\ b \in 1 .. Len(list) /\ a < b /\ Below(segs, list, <<x, y>>)[b]
    BY <2>6 DEF segs, list
  <2>9. Below(segs, list, <<x, y>>)[a]
    BY <2>7, <2>8 DEF Monotone
  <2> QED  BY <2>9 DEF segs, list
<1> QED  BY <1>1, Invariant, PTL

(* What the query has found, once it has. *)
LEMMA AtTheEnd ==
  ASSUME IInv, phase = "done"
  PROVE  /\ segments # <<>> /\ Vector(segments) /\ DOMAIN segments = Indices /\ Window(window)
         /\ TypeOK /\ Built("x") /\ Built("y")
         /\ \A i \in Indices : segments[i] \in Segment
         /\ res = Side("x") \cup Side("y") \cup Inner(EndsIn) \cup extra
         /\ \A i \in Indices : i \in Inner(EndsIn) <=> EndsInside(segments[i], window)
<1>1. segments # <<>> /\ Vector(segments) /\ Built("x") /\ Built("y")
  BY TreesAreBuilt DEF Constructed
<1>2. /\ TypeOK /\ Window(window)
      /\ res = Side("x") \cup Side("y") \cup Inner(EndsIn) \cup extra
  BY DEF IInv, Finding, Answering
<1>3. DOMAIN segments = Indices /\ \A i \in Indices : segments[i] \in Segment
  BY <1>1, VectorElements DEF Indices
<1>4. ASSUME NEW i \in Indices PROVE i \in Inner(EndsIn) <=> EndsInside(segments[i], window)
  <2>1. \A e \in {1, 2} : <<i, e>> \in Ends /\ Point(<<i, e>>) = segments[i][e]
    BY DEF Ends, Point
  <2>2. ASSUME i \in Inner(EndsIn) PROVE EndsInside(segments[i], window)
    <3>1. PICK e \in EndsIn : e[1] = i
      BY <2>2 DEF Inner
    <3>2. e \in Indices \X {1, 2} /\ Inside(segments[e[1]][e[2]], window)
      BY DEF EndsIn, Ends, Point
    <3> QED  BY <3>1, <3>2 DEF EndsInside
  <2>3. ASSUME EndsInside(segments[i], window) PROVE i \in Inner(EndsIn)
    <3>1. PICK e \in {1, 2} : Inside(segments[i][e], window)
      BY <2>3 DEF EndsInside
    <3>2. <<i, e>> \in EndsIn
      BY <2>1, <3>1 DEF EndsIn
    <3>3. <<i, e>>[1] \in Inner(EndsIn)
      BY <3>2 DEF Inner
    <3> QED  BY <3>3
  <2> QED  BY <2>2, <2>3
<1> QED  BY <1>1, <1>2, <1>3, <1>4

LEMMA CompleteAtTheEnd ==
  ASSUME IInv, phase = "done"
  PROVE  Complete(segments, window, res)
<1>1. /\ segments # <<>> /\ Vector(segments) /\ DOMAIN segments = Indices /\ Window(window)
      /\ TypeOK /\ Built("x") /\ Built("y")
      /\ \A i \in Indices : segments[i] \in Segment
      /\ res = Side("x") \cup Side("y") \cup Inner(EndsIn) \cup extra
      /\ \A i \in Indices : i \in Inner(EndsIn) <=> EndsInside(segments[i], window)
  BY AtTheEnd
<1>2. ASSUME NEW i \in Indices, EndsInside(segments[i], window) PROVE i \in res
  BY <1>1, <1>2
<1>3. ASSUME NEW i \in Indices, Clear(segments, window), MeetsInterior(segments[i], window),
             ~EndsInside(segments[i], window)
      PROVE  i \in res
  <2>1. PICK b \in {1, 2} : \/ Hits(segments[i], window.x[b], window.y)
                            \/ Hits(Mirrored(segments[i]), window.y[b], window.x)
    BY <1>1, <1>3, PassingIsFound
  <2>2. CASE Hits(segments[i], window.x[b], window.y)
    <3>1. Hits(Along("x")[i], window["x"][b], Across("x"))
      BY <2>2 DEF Along, Across
    <3>2. i \in Side("x")
      BY <1>1, <1>3, <3>1, SidesFind
    <3> QED  BY <1>1, <3>2
  <2>3. CASE Hits(Mirrored(segments[i]), window.y[b], window.x)
    <3>1. Hits(Along("y")[i], window["y"][b], Across("y"))
      <4>1. Along("y")[i] = Mirrored(segments[i])
        BY <1>1, AlongVectors
      <4> QED  BY <2>3, <4>1 DEF Across
    <3>2. i \in Side("y")
      BY <1>1, <1>3, <3>1, SidesFind
    <3> QED  BY <1>1, <3>2
  <2> QED  BY <2>1, <2>2, <2>3
<1> QED  BY <1>1, <1>2, <1>3 DEF Complete

LEMMA SoundAtTheEnd ==
  ASSUME IInv, phase = "done"
  PROVE  Sound(segments, window, res \ extra)
<1>1. /\ segments # <<>> /\ Vector(segments) /\ Window(window)
      /\ TypeOK /\ Built("x") /\ Built("y")
      /\ \A i \in Indices : segments[i] \in Segment
      /\ res = Side("x") \cup Side("y") \cup Inner(EndsIn) \cup extra
      /\ res \subseteq Indices
      /\ \A i \in Indices : i \in Inner(EndsIn) <=> EndsInside(segments[i], window)
  BY AtTheEnd DEF TypeOK
<1> SUFFICES ASSUME Clear(segments, window), NEW i \in res \ extra
             PROVE  MeetsWindow(segments[i], window)
  BY DEF Sound
<1>2. i \in Indices /\ segments[i] \in Segment
  BY <1>1
<1>3. CASE i \in Side("x")
  <2>1. PICK b \in {1, 2} : /\ Hits(Along("x")[i], window["x"][b], Across("x"))
                            /\ XRange(Along("x")[i]) # <<window["x"][b], window["x"][b]>>
    BY <1>1, <1>3, SidesFind
  <2>2. Hits(segments[i], window.x[b], window.y) /\ XRange(segments[i]) # <<window.x[b], window.x[b]>>
    BY <2>1 DEF Along, Across
  <2> QED  BY <1>1, <1>2, <2>2, FoundMeets
<1>4. CASE i \in Side("y")
  <2>1. PICK b \in {1, 2} : /\ Hits(Along("y")[i], window["y"][b], Across("y"))
                            /\ XRange(Along("y")[i]) # <<window["y"][b], window["y"][b]>>
    BY <1>1, <1>4, SidesFind
  <2> DEFINE m == Mirrored(segments[i])    v == Turned(window)
  <2>2. Along("y")[i] = m /\ m \in Segment
    BY <1>1, <1>2, AlongVectors, Mirror
  <2>3. v.x = window.y /\ v.y = window.x /\ Window(v)
    BY <1>1 DEF Turned, Window
  <2>4. Hits(m, v.x[b], v.y) /\ XRange(m) # <<v.x[b], v.x[b]>>
    BY <2>1, <2>2, <2>3 DEF Across
  <2>5. MeetsWindow(m, v)
    <3> HIDE DEF m, v
    <3> QED  BY <2>2, <2>3, <2>4, FoundMeets
  <2> QED  BY <1>1, <1>2, <2>5, TurnedMeets
<1>5. CASE i \in Inner(EndsIn)
  BY <1>1, <1>2, <1>5, EndingMeets
<1> QED  BY <1>1, <1>3, <1>4, <1>5

(* No segment that ends in the window is missed; nor is one that passes through
   it, if no segment lies on the line of a side. A passing segment crosses one
   of three sides at least, and there the bisection, for which the list is in
   order, finds it in one of the nodes between the root and the leaf of x.   *)
THEOREM NoneIsMissed == Spec => []NothingMissed
<1>1. IInv => NothingMissed
  BY CompleteAtTheEnd DEF NothingMissed
<1> QED  BY <1>1, Invariant, PTL

(* Only segments that meet the window are reported, but for the range tree's
   extra one, if no segment lies on the line of a side.                     *)
THEOREM OnlyThoseThatMeet == Spec => []ReportedMeet
<1>1. IInv => ReportedMeet
  BY SoundAtTheEnd DEF ReportedMeet
<1> QED  BY <1>1, Invariant, PTL

(* What windowing_query returns is one of the answers that the viewer is modelled
   with: so the viewer's theorems hold of this windowing_t.                 *)
THEOREM AnswersAsTheViewerExpects ==
  Spec => [](phase = "done" => res \in Answers(segments, window))
<1>1. ASSUME IInv, phase = "done" PROVE res \in Answers(segments, window)
  <2>1. res \subseteq DOMAIN segments /\ extra \subseteq res
    BY <1>1, AtTheEnd DEF TypeOK
  <2>2. Cardinality(extra) <= 1
    <3>1. extra = {} \/ \E i \in Indices : extra = {i}
      BY <1>1 DEF IInv, Finding
    <3>2. \A i : Cardinality({i}) = 1
      BY FS_Singleton
    <3>3. Cardinality({}) = 0
      BY FS_EmptySet
    <3> QED  BY <3>1, <3>2, <3>3
  <2> QED  BY <1>1, <2>1, <2>2, CompleteAtTheEnd, SoundAtTheEnd DEF Answers
<1> QED  BY <1>1, Invariant, PTL

=============================================================================
