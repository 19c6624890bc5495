--------------------------- MODULE RangeTreeProofs --------------------------
(***************************************************************************)
(* The properties of RangeTree for every vector of points and every window, *)
(* from one inductive invariant: what each node has, where the pointers     *)
(* lead, and how far a query has come.                                     *)
(***************************************************************************)
EXTENDS RangeTree, Inductions, SequenceTheorems, FiniteSetTheorems

-----------------------------------------------------------------------------
(* The inductive invariant. *)

Interval(n) == n[1] + 1 .. n[2]
Inside(m, n) == n[1] <= m[1] /\ m[2] <= n[2]
Nodes == {n \in (0 .. Len(points)) \X (0 .. Len(points)) : n[1] <= n[2]}

Holds(s, i) == \E k \in 1 .. Len(s) : s[k] = i
Once(s) == \A j, k \in 1 .. Len(s) : s[j] = s[k] => j = k
YAscends(s) == \A j, k \in 1 .. Len(s) : j < k => ~YLess(s[k], s[j])

(* The root's x order. *)
XOrderOK ==
  /\ x_ordered \in [Indices -> Indices]
  /\ \A j, k \in Indices : j < k => ~XLess(x_ordered[k], x_ordered[j])
  /\ \A j, k \in Indices : x_ordered[j] = x_ordered[k] => j = k
  /\ \A i \in Indices : \E k \in Indices : x_ordered[k] = i

(* A node's y order has the points of its piece of the x order, each once. *)
Piece(n, ys) ==
  /\ ys \in Seq(Indices) /\ Len(ys) = Size(n)
  /\ YAscends(ys) /\ Once(ys)
  /\ \A i \in Indices : Holds(ys, i) <=> \E k \in Interval(n) : x_ordered[k] = i

(* Pointers from a y order to a child's: what is before them is less. *)
Exact(s, c, ptr) ==
  /\ ptr \in [0 .. Len(s) - 1 -> 0 .. Len(c)]
  /\ \A p \in 0 .. Len(s) - 1, k \in 1 .. Len(c) : YLess(c[k], s[p + 1]) <=> k <= ptr[p]

Halved(n) ==
  /\ ~IsLeaf(n) /\ Left(n) \in DOMAIN y_ordered /\ Right(n) \in DOMAIN y_ordered
  /\ \A left \in BOOLEAN : Exact(y_ordered[n], y_ordered[Child(n, left)], cascade[n][left])
  /\ \A k \in Interval(Left(n)) : XLess(x_ordered[k], node_x(n))

(* The open calls: side by side, with nothing built below them yet. *)
CallsOK ==
  /\ todo \in Seq(DOMAIN y_ordered)
  /\ \A n \in DOMAIN y_ordered : IsLeaf(n) \/ n \in DOMAIN cascade \/ Holds(todo, n)
  /\ \A j \in 1 .. Len(todo), m \in DOMAIN y_ordered : Inside(m, todo[j]) => m = todo[j]
  /\ \A j, k \in 1 .. Len(todo) : j < k => todo[j][2] <= todo[k][1]

TreeInv ==
  /\ points \in Seq(Int \X Int)
  /\ XOrderOK
  /\ DOMAIN y_ordered \subseteq Nodes /\ Root \in DOMAIN y_ordered
  /\ DOMAIN cascade \subseteq DOMAIN y_ordered
  /\ \A n \in DOMAIN y_ordered : Piece(n, y_ordered[n])
  /\ \A n \in DOMAIN cascade : Halved(n)
  /\ CallsOK

BuildInv ==
  /\ phase = "threw" => ~Distinct
  /\ phase \notin {"build", "threw"} => todo = <<>>

InX(i) == X(i) >= window.x[1] /\ X(i) < window.x[2]
InY(i) == Y(i) >= window.y[1] /\ Y(i) < window.y[2]

(* f has the points at positions K whose y is in the window, each once. *)
Answers(f, K) ==
  /\ f \in Seq(Indices) /\ Once(f)
  /\ \A i \in Indices : Holds(f, i) <=> \E k \in K : x_ordered[k] = i /\ InY(i)

(* What is in the window is at positions of n. *)
BelowNode(n) == \A k \in Indices : InX(x_ordered[k]) => k \in Interval(n)

(* The median of s is in the window, and nothing outside of s is. *)
Divided(s) ==
  /\ ~IsLeaf(s) /\ InX(node_x(s))
  /\ BelowNode(s)

(* The walk from s is at n, with f found: outside of n it is decided. *)
LeftAt(s, n, f) ==
  /\ Divided(s) /\ Inside(n, Left(s)) /\ n[1] < n[2]
  /\ \A k \in s[1] + 1 .. n[1] : X(x_ordered[k]) < window.x[1]
  /\ \A k \in n[2] + 1 .. Med(s) : X(x_ordered[k]) >= window.x[1]
  /\ Answers(f, n[2] + 1 .. Med(s))

RightAt(s, n, f) ==
  /\ Divided(s) /\ Inside(n, Right(s)) /\ n[1] < n[2]
  /\ \A k \in Med(s) + 1 .. n[1] : X(x_ordered[k]) < window.x[2]
  /\ \A k \in n[2] + 1 .. s[2] : X(x_ordered[k]) >= window.x[2]
  /\ Answers(f, {k \in s[1] + 1 .. n[1] : X(x_ordered[k]) >= window.x[1]})

DoneAt(s, f) ==
  /\ f \in Seq(Indices) /\ Once(f)
  /\ \A i \in Indices : InX(i) /\ InY(i) => Holds(f, i)
  /\ \A i \in Indices : Holds(f, i) => InY(i) /\ (InX(i) \/ IsLeaf(s))
  /\ IsLeaf(s) => \A i, j \in Indices : Holds(f, i) /\ Holds(f, j) => i = j

QueryTypeOK ==
  /\ phase \in Phases
  /\ split \in DOMAIN y_ordered /\ node \in DOMAIN y_ordered
  /\ window \in [x : {r \in Int \X Int : r[1] <= r[2]}, y : {r \in Int \X Int : r[1] <= r[2]}]
  /\ limits \in (0 .. Len(points)) \X (0 .. Len(points))
  /\ found \in Seq(Indices)
  /\ phase \in {"build", "threw", "ready", "split"} => found = <<>>

QueryInv ==
  /\ phase = "split" => BelowNode(node)
  /\ phase = "left" => LeftAt(split, node, found)
  /\ phase = "right" => RightAt(split, node, found)
  /\ phase = "done" => DoneAt(split, found)

IInv == TreeInv /\ BuildInv /\ QueryTypeOK /\ LimitsAreExact /\ QueryInv

-----------------------------------------------------------------------------
(* Bounds in an ascending order. *)

Typed == points \in Seq(Int \X Int)

LEMMA Coordinates ==
  ASSUME Typed
  PROVE  /\ Len(points) \in Nat
         /\ \A i \in Indices : X(i) \in Int /\ Y(i) \in Int
<1>1. Len(points) \in Nat /\ \A i \in 1 .. Len(points) : points[i] \in Int \X Int
  BY LenProperties, ElementOfSeq DEF Typed
<1> QED  BY <1>1 DEF Indices, X, Y

(* What is less comes before; equal bounds are the same bound. *)
IsBound(b, s, c) == b \in 0 .. Len(s) /\ \A k \in 1 .. Len(s) : Y(s[k]) < c <=> k <= b

LEMMA BoundIsUnique ==
  ASSUME NEW s, Len(s) \in Nat, NEW c, NEW a, NEW b, IsBound(a, s, c), IsBound(b, s, c)
  PROVE  a = b
<1>1. a \in Nat /\ b \in Nat /\ a <= Len(s) /\ b <= Len(s)
  BY DEF IsBound
<1>2. CASE a < b
  <2>1. b \in 1 .. Len(s) /\ b <= b /\ ~(b <= a)
    BY <1>1, <1>2
  <2> QED  BY <2>1 DEF IsBound
<1>3. CASE b < a
  <2>1. a \in 1 .. Len(s) /\ a <= a /\ ~(a <= b)
    BY <1>1, <1>3
  <2> QED  BY <2>1 DEF IsBound
<1> QED  BY <1>1, <1>2, <1>3

(* boost::lower_bound finds it. *)
LEMMA LowerBoundIsBound ==
  ASSUME Typed, NEW s \in Seq(Indices), YAscends(s), NEW c \in Int
  PROVE  IsBound(LowerBound(s, c), s, c)
<1> DEFINE n == Len(s)
           T == {k \in 1 .. n : Y(s[k]) < c}
           U == {k \in Nat : k < n => ~(Y(s[k + 1]) < c)}
<1>1. n \in Nat /\ \A k \in 1 .. n : s[k] \in Indices /\ Y(s[k]) \in Int /\ X(s[k]) \in Int
  BY Coordinates, LenProperties, ElementOfSeq
<1>2. \A j, k \in 1 .. n : j < k => Y(s[j]) <= Y(s[k])
  BY <1>1 DEF YAscends, YLess
<1> HIDE DEF n
<1>3. PICK b \in U : \A k \in U : b <= k
  <2>1. n \in U /\ U \subseteq Nat
    BY <1>1
  <2> QED  BY <2>1, LeastNatural
<1>4. b \in Nat /\ b <= n
  <2>1. n \in U
    BY <1>1
  <2> QED  BY <1>3, <2>1
<1>5. ASSUME NEW k \in 1 .. n PROVE Y(s[k]) < c <=> k <= b
  <2>1. CASE k <= b
    <3>1. k - 1 \in Nat /\ ~(b <= k - 1) /\ k - 1 < n /\ (k - 1) + 1 = k
      BY <1>1, <1>4, <2>1
    <3>2. k - 1 \notin U
      BY <1>3, <3>1
    <3> QED  BY <2>1, <3>1, <3>2
  <2>2. CASE ~(k <= b)
    <3>1. b + 1 \in 1 .. n /\ b < n /\ (b + 1 = k \/ b + 1 < k)
      BY <1>1, <1>4, <2>2
    <3>2. ~(Y(s[b + 1]) < c)
      BY <1>3, <3>1
    <3>3. Y(s[b + 1]) <= Y(s[k]) /\ Y(s[b + 1]) \in Int /\ Y(s[k]) \in Int
      BY <1>1, <1>2, <3>1
    <3> QED  BY <2>2, <3>2, <3>3
  <2> QED  BY <2>1, <2>2
<1>6. T = 1 .. b
  <2>1. \A k : k \in 1 .. b => k \in 1 .. n
    BY <1>1, <1>4
  <2>2. \A k \in 1 .. n : k <= b => k \in 1 .. b
    OBVIOUS
  <2> QED  BY <1>5, <2>1, <2>2
<1>7. Cardinality(1 .. b) = b
  BY <1>4, FS_Interval
<1>8. LowerBound(s, c) = b
  BY <1>6, <1>7 DEF LowerBound, n
<1> QED  BY <1>4, <1>5, <1>8 DEF IsBound, n

-----------------------------------------------------------------------------
(* Pointers into the children. *)

IsStop(q, p, c, i) ==
  /\ q = Len(c) \/ ~YLess(At(c, q), i)
  /\ \A k \in p .. q - 1 : YLess(At(c, k), i)

LEMMA AdvanceStops ==
  ASSUME NEW c, Len(c) \in Nat, NEW p \in 0 .. Len(c), NEW i
  PROVE  Advance(p, c, i) \in p .. Len(c) /\ IsStop(Advance(p, c, i), p, c, i)
<1> DEFINE T == {q \in p .. Len(c) : q = Len(c) \/ ~YLess(At(c, q), i)}
<1>1. p \in Nat /\ p <= Len(c)
  OBVIOUS
<1>2. T \subseteq Nat /\ Len(c) \in T
  BY <1>1
<1>3. PICK q \in T : \A k \in T : q <= k
  BY <1>2, LeastNatural
<1>4. ASSUME NEW k \in p .. q - 1 PROVE YLess(At(c, k), i)
  <2>1. q \in p .. Len(c)
    OBVIOUS
  <2>2. k \in p .. Len(c) /\ ~(q <= k) /\ k # Len(c)
    BY <1>1, <2>1
  <2>3. k \notin T
    BY <1>3, <2>2
  <2> QED  BY <2>2, <2>3
<1>5. q \in p .. Len(c) /\ IsStop(q, p, c, i)
  BY <1>4 DEF IsStop
<1>6. Advance(p, c, i) = CHOOSE r \in p .. Len(c) : IsStop(r, p, c, i)
  BY Zenon DEF Advance, IsStop
<1> QED  BY <1>5, <1>6

(* If what is before p is less, then what is before the stop, and nothing else. *)
LEMMA AdvanceIsExact ==
  ASSUME Typed, NEW c \in Seq(Indices), YAscends(c), NEW p \in 0 .. Len(c), NEW i \in Indices,
         \A k \in 1 .. p : YLess(c[k], i)
  PROVE  \A k \in 1 .. Len(c) : YLess(c[k], i) <=> k <= Advance(p, c, i)
<1> DEFINE q == Advance(p, c, i)
<1>1. /\ Len(c) \in Nat
      /\ \A k \in 1 .. Len(c) : c[k] \in Indices /\ Y(c[k]) \in Int /\ X(c[k]) \in Int
      /\ Y(i) \in Int /\ X(i) \in Int
  BY Coordinates, LenProperties, ElementOfSeq
<1>2. q \in p .. Len(c) /\ IsStop(q, p, c, i)
  BY <1>1, AdvanceStops
<1> HIDE DEF q
<1>3. p \in Nat /\ p <= Len(c) /\ q \in Nat /\ p <= q /\ q <= Len(c)
  BY <1>1, <1>2
<1>4. ASSUME NEW k \in 1 .. Len(c), k <= q PROVE YLess(c[k], i)
  <2>1. CASE k <= p
    <3>1. k \in 1 .. p
      BY <1>3, <2>1
    <3> QED  BY <3>1
  <2>2. CASE ~(k <= p)
    <3>1. k - 1 \in p .. q - 1 /\ (k - 1) + 1 = k
      BY <1>3, <1>4, <2>2
    <3> QED  BY <1>2, <3>1 DEF IsStop, At
  <2> QED  BY <2>1, <2>2
<1>5. ASSUME NEW k \in 1 .. Len(c), ~(k <= q) PROVE ~YLess(c[k], i)
  <2>1. q + 1 \in 1 .. Len(c) /\ q # Len(c) /\ (q + 1 = k \/ q + 1 < k)
    BY <1>1, <1>3, <1>5
  <2>2. ~YLess(c[q + 1], i)
    BY <1>2, <2>1 DEF IsStop, At
  <2>3. q + 1 < k => ~YLess(c[k], c[q + 1])
    BY <2>1 DEF YAscends
  <2> QED  BY <1>1, <2>1, <2>2, <2>3 DEF YLess
<1> QED  BY <1>4, <1>5 DEF q

LEMMA PointersAreExact ==
  ASSUME Typed, NEW s \in Seq(Indices), YAscends(s), NEW c \in Seq(Indices), YAscends(c)
  PROVE  Exact(s, c, Pointers(s, c))
<1> DEFINE n == Len(s)
           V == 0 .. Len(c)
           step == [k \in 1 .. n |-> [p \in V |-> Advance(p, c, s[k])]]
           IsPtr(f) == f = [k \in 0 .. n |-> IF k = 0 THEN 0 ELSE Advance(f[k - 1], c, s[k])]
           ptr == CHOOSE f : IsPtr(f)
<1>1. /\ n \in Nat /\ Len(c) \in Nat /\ 0 \in V
      /\ \A k \in 1 .. n : s[k] \in Indices /\ Y(s[k]) \in Int /\ X(s[k]) \in Int
      /\ \A k \in 1 .. Len(c) : c[k] \in Indices /\ Y(c[k]) \in Int /\ X(c[k]) \in Int
  BY Coordinates, LenProperties, ElementOfSeq
<1>2. Pointers(s, c) = [p \in 0 .. n - 1 |-> ptr[p + 1]]
  BY DEF Pointers
<1> HIDE DEF n
<1>3. \A i : \A p \in V : Advance(p, c, i) \in V
  <2>1. \A i : \A p \in V : Advance(p, c, i) \in p .. Len(c)
    BY <1>1, AdvanceStops
  <2> QED  BY <1>1, <2>1
<1>4. step \in [1 .. n -> [V -> V]]
  BY <1>3
<1>5. IsPtr(ptr)
  <2>1. PICK f \in [0 .. n -> V] : Follows(f, 0, step, n)
    <3> HIDE DEF step, V
    <3> QED  BY <1>1, <1>4, Recursion
  <2>2. ASSUME NEW k \in 0 .. n
        PROVE  f[k] = IF k = 0 THEN 0 ELSE Advance(f[k - 1], c, s[k])
    <3>1. CASE k = 0
      BY <2>1, <3>1 DEF Follows
    <3>2. CASE k # 0
      <4>1. k \in 1 .. n /\ k - 1 \in 0 .. n
        BY <1>1, <3>2
      <4>2. f[k] = step[k][f[k - 1]] /\ f[k - 1] \in V
        BY <2>1, <4>1 DEF Follows
      <4> QED  BY <3>2, <4>1, <4>2
    <3> QED  BY <3>1, <3>2
  <2>3. f = [k \in 0 .. n |-> f[k]]
    OBVIOUS
  <2>4. IsPtr(f)
    BY <2>2, <2>3, Zenon
  <2> HIDE DEF IsPtr
  <2> QED  BY <2>4
<1> HIDE DEF ptr, step
<1> DEFINE Good(k) == /\ ptr[k] \in V
                      /\ k > 0 => \A j \in 1 .. Len(c) : YLess(c[j], s[k]) <=> j <= ptr[k]
           S == {k \in Nat : k <= n => Good(k)}
<1>6. 0 \in S
  <2>1. ptr[0] = 0
    BY <1>1, <1>5
  <2> QED  BY <1>1, <2>1
<1>7. ASSUME NEW k \in Nat, k \in S PROVE k + 1 \in S
  <2> SUFFICES ASSUME k + 1 <= n PROVE Good(k + 1)
    OBVIOUS
  <2>1. Good(k) /\ k + 1 \in 1 .. n /\ k + 1 \in 0 .. n /\ k + 1 # 0 /\ (k + 1) - 1 = k
    BY <1>1, <1>7
  <2>2. ptr[k + 1] = Advance(ptr[k], c, s[k + 1])
    BY <1>5, <2>1
  <2>3. ASSUME NEW j \in 1 .. ptr[k] PROVE YLess(c[j], s[k + 1])
    <3>1. j \in 1 .. Len(c) /\ j <= ptr[k] /\ ptr[k] # 0
      BY <1>1, <2>1
    <3>2. k # 0
      <4>1. ptr[0] = 0
        BY <1>1, <1>5
      <4> QED  BY <3>1, <4>1
    <3>3. k \in 1 .. n /\ k < k + 1 /\ k > 0
      BY <1>1, <2>1, <3>2
    <3>4. YLess(c[j], s[k]) /\ ~YLess(s[k + 1], s[k])
      BY <2>1, <3>1, <3>3 DEF YAscends, n
    <3> QED  BY <1>1, <2>1, <3>1, <3>3, <3>4 DEF YLess
  <2>4. s[k + 1] \in Indices /\ ptr[k] \in 0 .. Len(c)
    BY <1>1, <2>1
  <2>5. \A j \in 1 .. Len(c) : YLess(c[j], s[k + 1]) <=> j <= Advance(ptr[k], c, s[k + 1])
    BY <2>3, <2>4, AdvanceIsExact
  <2>6. Advance(ptr[k], c, s[k + 1]) \in V
    BY <1>3, <2>1
  <2> QED  BY <2>2, <2>5, <2>6
<1> HIDE DEF S, Good
<1>8. Nat \subseteq S
  BY <1>6, <1>7, Induction
<1>9. ASSUME NEW p \in 0 .. n - 1
      PROVE  /\ ptr[p + 1] \in V
             /\ \A k \in 1 .. Len(c) : YLess(c[k], s[p + 1]) <=> k <= ptr[p + 1]
  <2>1. p + 1 \in Nat /\ p + 1 <= n /\ p + 1 > 0
    BY <1>1
  <2>2. Good(p + 1)
    BY <1>8, <2>1 DEF S
  <2> QED  BY <2>1, <2>2 DEF Good
<1> QED  BY <1>2, <1>9 DEF Exact, n

(* Which children's points are a node's. *)
LEMMA ChildHasLess ==
  ASSUME TreeInv, NEW n \in DOMAIN cascade, NEW left \in BOOLEAN
  PROVE  LET s == y_ordered[n]
             c == y_ordered[Child(n, left)]
         IN /\ Typed
            /\ s \in Seq(Indices) /\ YAscends(s) /\ Len(s) = Size(n)
            /\ c \in Seq(Indices) /\ YAscends(c) /\ Len(c) = Size(Child(n, left))
            /\ Exact(s, c, cascade[n][left])
            /\ \A k \in 1 .. Len(c) : Holds(s, c[k])
<1> DEFINE m == Child(n, left)
           s == y_ordered[n]
           c == y_ordered[m]
<1>1. Halved(n) /\ n \in Nodes /\ Piece(n, s) /\ Typed
  BY DEF TreeInv, Typed
<1>2. m \in DOMAIN y_ordered /\ Exact(s, c, cascade[n][left])
  BY <1>1 DEF Halved, Child
<1>3. Piece(m, c)
  BY <1>2 DEF TreeInv
<1>4. \A k \in Interval(m) : k \in Interval(n)
  <2>1. n[1] \in Nat /\ n[2] \in Nat /\ n[1] <= n[2] /\ ~(n[2] - n[1] <= 1)
    BY <1>1, Coordinates DEF Nodes, Halved, IsLeaf, Size
  <2>2. n[1] <= Med(n) /\ Med(n) <= n[2] /\ Med(n) \in Nat
    BY <2>1 DEF Med, Size
  <2> QED  BY <2>1, <2>2 DEF Interval, Child, Left, Right
<1> HIDE DEF m, s, c
<1>5. ASSUME NEW k \in 1 .. Len(c) PROVE Holds(s, c[k])
  <2>1. c[k] \in Indices
    BY <1>3, ElementOfSeq DEF Piece
  <2>2. Holds(c, c[k])
    BY DEF Holds
  <2>3. PICK j \in Interval(m) : x_ordered[j] = c[k]
    BY <1>3, <2>1, <2>2 DEF Piece
  <2>4. j \in Interval(n)
    BY <1>4
  <2> QED  BY <1>1, <2>1, <2>3, <2>4 DEF Piece
<1> QED  BY <1>1, <1>2, <1>3, <1>5 DEF Piece, m, s, c

(* Following a pointer from a bound leads to the bound in the child. *)
LEMMA SublimitIsBound ==
  ASSUME TreeInv, NEW n \in DOMAIN cascade, NEW left \in BOOLEAN, NEW b \in Int
  PROVE  Sublimit(n, LowerBound(y_ordered[n], b), left) = LowerBound(y_ordered[Child(n, left)], b)
<1> DEFINE s == y_ordered[n]
           c == y_ordered[Child(n, left)]
           ptr == cascade[n][left]
           p == LowerBound(s, b)
<1>1. /\ Typed
      /\ s \in Seq(Indices) /\ YAscends(s)
      /\ c \in Seq(Indices) /\ YAscends(c)
      /\ Exact(s, c, ptr)
      /\ \A k \in 1 .. Len(c) : Holds(s, c[k])
  BY ChildHasLess
<1>2. IsBound(p, s, b) /\ IsBound(LowerBound(c, b), c, b)
  BY <1>1, LowerBoundIsBound
<1>3. Sublimit(n, p, left) = IF p = Len(s) THEN Len(c) ELSE ptr[p]
  BY DEF Sublimit
<1> HIDE DEF s, c, ptr, p
<1>4. /\ Len(s) \in Nat /\ Len(c) \in Nat /\ p \in Nat /\ p <= Len(s)
      /\ \A k \in 1 .. Len(s) : s[k] \in Indices /\ Y(s[k]) \in Int /\ X(s[k]) \in Int
      /\ \A k \in 1 .. Len(c) : c[k] \in Indices /\ Y(c[k]) \in Int /\ X(c[k]) \in Int
  BY <1>1, <1>2, Coordinates, LenProperties, ElementOfSeq, SMTT(30) DEF IsBound
<1>5. CASE p = Len(s)
  <2>1. ASSUME NEW k \in 1 .. Len(c) PROVE Y(c[k]) < b
    <3>1. PICK j \in 1 .. Len(s) : s[j] = c[k]
      BY <1>1 DEF Holds
    <3>2. j <= p
      BY <1>4, <1>5
    <3> QED  BY <1>2, <3>1, <3>2 DEF IsBound
  <2>2. IsBound(Len(c), c, b)
    BY <1>4, <2>1 DEF IsBound
  <2>3. Len(c) = LowerBound(c, b)
    BY <1>2, <1>4, <2>2, BoundIsUnique
  <2>4. Sublimit(n, p, left) = LowerBound(c, b)
    BY <1>3, <1>5, <2>3
  <2> QED  BY <2>4 DEF s, c, p
<1>6. CASE p # Len(s)
  <2>1. p \in 0 .. Len(s) - 1 /\ p + 1 \in 1 .. Len(s) /\ ~(p + 1 <= p)
    BY <1>4, <1>6
  <2>2. ~(Y(s[p + 1]) < b)
    BY <1>2, <2>1 DEF IsBound
  <2>3. ptr[p] \in 0 .. Len(c) /\ \A k \in 1 .. Len(c) : YLess(c[k], s[p + 1]) <=> k <= ptr[p]
    BY <1>1, <2>1 DEF Exact
  <2>4. ASSUME NEW k \in 1 .. Len(c) PROVE Y(c[k]) < b <=> YLess(c[k], s[p + 1])
    <3>1. CASE Y(c[k]) < b
      BY <1>4, <2>1, <2>2, <3>1 DEF YLess
    <3>2. CASE YLess(c[k], s[p + 1])
      <4>1. PICK j \in 1 .. Len(s) : s[j] = c[k]
        BY <1>1 DEF Holds
      <4>2. j <= p
        <5>1. j # p + 1
          BY <1>4, <2>1, <3>2, <4>1 DEF YLess
        <5>2. ~(p + 1 < j)
          BY <1>1, <2>1, <3>2, <4>1 DEF YAscends
        <5> QED  BY <1>4, <5>1, <5>2
      <4> QED  BY <1>2, <3>2, <4>1, <4>2 DEF IsBound
    <3> QED  BY <3>1, <3>2
  <2>5. IsBound(ptr[p], c, b)
    BY <2>3, <2>4 DEF IsBound
  <2>6. ptr[p] = LowerBound(c, b)
    BY <1>2, <1>4, <2>5, BoundIsUnique
  <2>7. Sublimit(n, p, left) = LowerBound(c, b)
    BY <1>3, <1>6, <2>6
  <2> QED  BY <2>7 DEF s, c, p
<1> QED  BY <1>5, <1>6

-----------------------------------------------------------------------------
(* The y order that goes to each side. *)

(* q has those of the first k elements of s that are in G, in the order of s. *)
Filtered(q, s, k, G) ==
  /\ q \in Seq(Indices) /\ YAscends(q) /\ Once(q)
  /\ \A i \in Indices : Holds(q, i) <=> i \in G /\ \E j \in 1 .. k : s[j] = i

LEMMA NothingIsFiltered ==
  ASSUME NEW s, NEW G
  PROVE  Filtered(<<>>, s, 0, G)
<1>1. <<>> \in Seq(Indices) /\ Len(<<>>) = 0 /\ \A i : i \in 1 .. 0 => FALSE
  BY EmptySeq
<1> QED  BY <1>1 DEF Filtered, YAscends, Once, Holds

LEMMA FilteredAppend ==
  ASSUME NEW s \in Seq(Indices), YAscends(s), Once(s), NEW G, NEW q,
         NEW k \in Nat, k + 1 <= Len(s), Filtered(q, s, k, G), s[k + 1] \in G
  PROVE  Filtered(Append(q, s[k + 1]), s, k + 1, G)
<1> DEFINE e == s[k + 1]
           r == Append(q, e)
<1>1. /\ Len(s) \in Nat /\ k + 1 \in 1 .. Len(s) /\ e \in Indices
      /\ q \in Seq(Indices) /\ Len(q) \in Nat
  BY LenProperties, ElementOfSeq DEF Filtered
<1>2. /\ r \in Seq(Indices) /\ Len(r) = Len(q) + 1
      /\ \A j \in 1 .. Len(q) : r[j] = q[j]
      /\ r[Len(q) + 1] = e
  BY <1>1, AppendProperties
<1>3. \A j \in 1 .. Len(q) : \E m \in 1 .. k : s[m] = q[j]
  <2> SUFFICES ASSUME NEW j \in 1 .. Len(q) PROVE \E m \in 1 .. k : s[m] = q[j]
    OBVIOUS
  <2>1. q[j] \in Indices /\ Holds(q, q[j])
    BY <1>1, ElementOfSeq DEF Holds
  <2> QED  BY <2>1 DEF Filtered
<1>4. e = s[k + 1]
  OBVIOUS
<1> HIDE DEF e, r
<1>5. \A j \in 1 .. Len(r) : j \in 1 .. Len(q) \/ j = Len(q) + 1
  BY <1>1, <1>2
<1>6. \A m \in 1 .. k : m \in 1 .. Len(s) /\ m < k + 1 /\ m # k + 1
  BY <1>1
<1>7. \A j \in 1 .. Len(q) : ~YLess(e, q[j]) /\ e # q[j]
  BY <1>1, <1>3, <1>4, <1>6 DEF YAscends, Once
<1>8. YAscends(r)
  <2> SUFFICES ASSUME NEW i \in 1 .. Len(r), NEW j \in 1 .. Len(r), i < j
               PROVE  ~YLess(r[j], r[i])
    BY DEF YAscends
  <2>1. i \in 1 .. Len(q)
    BY <1>1, <1>5
  <2>2. CASE j \in 1 .. Len(q)
    BY <1>2, <2>1, <2>2 DEF Filtered, YAscends
  <2>3. CASE j = Len(q) + 1
    BY <1>2, <1>7, <2>1, <2>3
  <2> QED  BY <1>5, <2>2, <2>3
<1>9. Once(r)
  <2> SUFFICES ASSUME NEW i \in 1 .. Len(r), NEW j \in 1 .. Len(r), r[i] = r[j]
               PROVE  i = j
    BY DEF Once
  <2>1. CASE i \in 1 .. Len(q) /\ j \in 1 .. Len(q)
    BY <1>2, <2>1 DEF Filtered, Once
  <2>2. CASE i \in 1 .. Len(q) /\ j = Len(q) + 1
    BY <1>2, <1>7, <2>2
  <2>3. CASE i = Len(q) + 1 /\ j \in 1 .. Len(q)
    BY <1>2, <1>7, <2>3
  <2> QED  BY <1>5, <2>1, <2>2, <2>3
<1>10. ASSUME NEW i \in Indices
       PROVE  Holds(r, i) <=> i \in G /\ \E j \in 1 .. k + 1 : s[j] = i
  <2>1. Holds(r, i) <=> Holds(q, i) \/ i = e
    <3>1. 1 .. Len(q) \subseteq 1 .. Len(r) /\ Len(q) + 1 \in 1 .. Len(r)
      BY <1>1, <1>2
    <3> QED  BY <1>2, <1>5, <3>1 DEF Holds
  <2>2. (\E j \in 1 .. k + 1 : s[j] = i) <=> (\E j \in 1 .. k : s[j] = i) \/ i = e
    <3>1. 1 .. k \subseteq 1 .. k + 1 /\ k + 1 \in 1 .. k + 1
      OBVIOUS
    <3>2. \A j \in 1 .. k + 1 : j \in 1 .. k \/ j = k + 1
      OBVIOUS
    <3> QED  BY <1>4, <3>1, <3>2
  <2>3. e \in G
    BY <1>4
  <2> QED  BY <2>1, <2>2, <2>3 DEF Filtered
<1>11. Filtered(r, s, k + 1, G)
  BY <1>2, <1>8, <1>9, <1>10 DEF Filtered
<1> QED  BY <1>11 DEF r, e

LEMMA FilteredSkip ==
  ASSUME NEW s \in Seq(Indices), NEW G, NEW q,
         NEW k \in Nat, k + 1 <= Len(s), Filtered(q, s, k, G), s[k + 1] \notin G
  PROVE  Filtered(q, s, k + 1, G)
<1>1. 1 .. k \subseteq 1 .. k + 1 /\ \A j \in 1 .. k + 1 : j \in 1 .. k \/ j = k + 1
  OBVIOUS
<1> QED  BY <1>1 DEF Filtered

LEMMA YPartIsFiltered ==
  ASSUME NEW n, NEW left \in BOOLEAN, y_ordered[n] \in Seq(Indices),
         YAscends(y_ordered[n]), Once(y_ordered[n])
  PROVE  Filtered(YPart(n, left), y_ordered[n], Len(y_ordered[n]),
                  {i \in Indices : OnSide(n, left, i)})
<1> DEFINE s == y_ordered[n]
           G == {i \in Indices : OnSide(n, left, i)}
           V == Seq(Indices)
           After(q, k) == IF OnSide(n, left, s[k]) THEN Append(q, s[k]) ELSE q
           step == [k \in 1 .. Len(s) |-> [q \in V |-> After(q, k)]]
           IsPart(f) == f = [k \in 0 .. Len(s) |->
                               IF k = 0 THEN <<>>
                               ELSE IF OnSide(n, left, s[k]) THEN Append(f[k - 1], s[k]) ELSE f[k - 1]]
           part == CHOOSE f : IsPart(f)
<1>1. Len(s) \in Nat /\ <<>> \in V /\ \A k \in 1 .. Len(s) : s[k] \in Indices
  BY LenProperties, ElementOfSeq, EmptySeq
<1>2. YPart(n, left) = part[Len(s)]
  BY DEF YPart
<1>3. \A q \in V, k \in 1 .. Len(s) : After(q, k) \in V
  BY <1>1, AppendProperties
<1>0. s \in V /\ YAscends(s) /\ Once(s)
  OBVIOUS
<1> HIDE DEF s
<1>4. step \in [1 .. Len(s) -> [V -> V]]
  <2> HIDE DEF After, V
  <2> QED  BY <1>3
<1>5. IsPart(part)
  <2>1. PICK f \in [0 .. Len(s) -> V] : Follows(f, <<>>, step, Len(s))
    <3> HIDE DEF step, V
    <3> QED  BY <1>1, <1>4, Recursion
  <2>2. ASSUME NEW k \in 0 .. Len(s)
        PROVE  f[k] = IF k = 0 THEN <<>>
                      ELSE IF OnSide(n, left, s[k]) THEN Append(f[k - 1], s[k]) ELSE f[k - 1]
    <3>1. CASE k = 0
      BY <2>1, <3>1 DEF Follows
    <3>2. CASE k # 0
      <4>1. k \in 1 .. Len(s) /\ k - 1 \in 0 .. Len(s)
        BY <1>1, <3>2
      <4>2. f[k] = step[k][f[k - 1]] /\ f[k - 1] \in V
        BY <2>1, <4>1 DEF Follows
      <4>3. step[k][f[k - 1]] = After(f[k - 1], k)
        <5> HIDE DEF After, V
        <5> QED  BY <4>1, <4>2
      <4> QED  BY <3>2, <4>2, <4>3
    <3> QED  BY <3>1, <3>2
  <2>3. f = [k \in 0 .. Len(s) |-> f[k]]
    OBVIOUS
  <2>4. IsPart(f)
    BY <2>2, <2>3, Zenon
  <2> HIDE DEF IsPart
  <2> QED  BY <2>4
<1>6. /\ part[0] = <<>>
      /\ \A k \in 1 .. Len(s) : part[k] = After(part[k - 1], k)
  <2> HIDE DEF part
  <2>1. 0 \in 0 .. Len(s) /\ \A k \in 1 .. Len(s) : k \in 0 .. Len(s) /\ k # 0
    BY <1>1
  <2> QED  BY <1>5, <2>1
<1> HIDE DEF part, step, IsPart, G
<1> DEFINE S == {k \in Nat : k <= Len(s) => Filtered(part[k], s, k, G)}
<1>7. 0 \in S
  BY <1>6, NothingIsFiltered
<1>8. ASSUME NEW k \in Nat, k \in S PROVE k + 1 \in S
  <2> SUFFICES ASSUME k + 1 <= Len(s) PROVE Filtered(part[k + 1], s, k + 1, G)
    OBVIOUS
  <2>1. k <= Len(s) /\ k + 1 \in 1 .. Len(s) /\ (k + 1) - 1 = k
    BY <1>1
  <2>2. Filtered(part[k], s, k, G) /\ part[k + 1] = After(part[k], k + 1)
    BY <1>6, <1>8, <2>1
  <2>3. s[k + 1] \in G <=> OnSide(n, left, s[k + 1])
    BY <1>1, <2>1 DEF G
  <2>4. CASE OnSide(n, left, s[k + 1])
    <3>1. part[k + 1] = Append(part[k], s[k + 1]) /\ s[k + 1] \in G
      BY <2>2, <2>3, <2>4
    <3> QED  BY <1>0, <2>2, <3>1, FilteredAppend
  <2>5. CASE ~OnSide(n, left, s[k + 1])
    <3>1. part[k + 1] = part[k] /\ s[k + 1] \notin G
      BY <2>2, <2>3, <2>5
    <3> QED  BY <1>0, <2>2, <3>1, FilteredSkip
  <2> QED  BY <2>4, <2>5
<1> HIDE DEF S
<1>9. Nat \subseteq S
  BY <1>7, <1>8, Induction
<1>10. Len(s) \in S /\ Len(s) <= Len(s)
  BY <1>1, <1>9
<1>11. Filtered(part[Len(s)], s, Len(s), G)
  BY <1>10 DEF S
<1> QED  BY <1>2, <1>11 DEF s, G

-----------------------------------------------------------------------------
(* Counting. *)

Held(s) == {s[k] : k \in 1 .. Len(s)}
AtX(n) == {x_ordered[k] : k \in Interval(n)}

LEMMA ImageCount ==
  ASSUME NEW a \in Int, NEW b \in Int, a <= b + 1, NEW f,
         \A j, k \in a .. b : f[j] = f[k] => j = k
  PROVE  /\ IsFiniteSet({f[k] : k \in a .. b})
         /\ Cardinality({f[k] : k \in a .. b}) = b - a + 1
<1> DEFINE S == a .. b
           T == {f[k] : k \in S}
           g == [k \in S |-> f[k]]
<1>1. IsFiniteSet(S) /\ Cardinality(S) = b - a + 1
  <2>1. Cardinality(S) = IF a > b THEN 0 ELSE b - a + 1
    BY FS_Interval
  <2>2. b - a + 1 = IF a > b THEN 0 ELSE b - a + 1
    OBVIOUS
  <2> QED  BY <2>1, <2>2, FS_Interval
<1>2. \A j, k \in S : f[j] = f[k] => j = k
  OBVIOUS
<1> HIDE DEF S
<1>3. g \in [S -> T]
  OBVIOUS
<1>4. g \in Surjection(S, T)
  BY <1>3 DEF Surjection
<1>5. g \in Injection(S, T)
  BY <1>2, <1>3 DEF Injection, IsInjective
<1>6. IsFiniteSet(T) /\ Cardinality(T) = Cardinality(S)
  BY <1>1, <1>4, <1>5, FS_Surjection
<1> QED  BY <1>1, <1>6 DEF S

LEMMA HeldCount ==
  ASSUME NEW s, Len(s) \in Nat, Once(s)
  PROVE  IsFiniteSet(Held(s)) /\ Cardinality(Held(s)) = Len(s)
<1>1. 1 \in Int /\ Len(s) \in Int /\ 1 <= Len(s) + 1 /\ Len(s) - 1 + 1 = Len(s)
  OBVIOUS
<1>2. \A j, k \in 1 .. Len(s) : s[j] = s[k] => j = k
  BY DEF Once
<1>3. /\ IsFiniteSet({s[k] : k \in 1 .. Len(s)})
      /\ Cardinality({s[k] : k \in 1 .. Len(s)}) = Len(s) - 1 + 1
  BY <1>1, <1>2, ImageCount, ZenonT(60)
<1> QED  BY <1>1, <1>3, Zenon DEF Held

(* A node's piece has as many points as positions. *)
LEMMA PieceCount ==
  ASSUME XOrderOK, Len(points) \in Nat, NEW n \in Nodes
  PROVE  /\ IsFiniteSet(AtX(n)) /\ Cardinality(AtX(n)) = Size(n)
         /\ AtX(n) \subseteq Indices
         /\ Interval(n) \subseteq Indices
<1>1. n[1] \in Nat /\ n[2] \in Nat /\ n[1] <= n[2] /\ n[2] <= Len(points)
  BY DEF Nodes
<1>2. Interval(n) \subseteq Indices
  BY <1>1 DEF Interval, Indices
<1>3. /\ n[1] + 1 \in Int /\ n[2] \in Int /\ n[1] + 1 <= n[2] + 1
      /\ n[2] - (n[1] + 1) + 1 = n[2] - n[1]
  BY <1>1
<1>4. \A j, k \in n[1] + 1 .. n[2] : x_ordered[j] = x_ordered[k] => j = k
  BY <1>2 DEF XOrderOK, Interval
<1>5. IsFiniteSet(AtX(n)) /\ Cardinality(AtX(n)) = Size(n)
  <2> DEFINE a == n[1] + 1
             b == n[2]
  <2>1. a \in Int /\ b \in Int /\ a <= b + 1 /\ b - a + 1 = n[2] - n[1]
    BY <1>3
  <2>2. \A j, k \in a .. b : x_ordered[j] = x_ordered[k] => j = k
    BY <1>4
  <2>3. AtX(n) = {x_ordered[k] : k \in a .. b}
    BY DEF AtX, Interval
  <2> HIDE DEF a, b
  <2>4. /\ IsFiniteSet({x_ordered[k] : k \in a .. b})
        /\ Cardinality({x_ordered[k] : k \in a .. b}) = b - a + 1
    BY <2>1, <2>2, ImageCount, ZenonT(60)
  <2> QED  BY <2>1, <2>3, <2>4, Zenon DEF Size
<1>6. AtX(n) \subseteq Indices
  BY <1>2 DEF AtX, XOrderOK
<1> QED  BY <1>2, <1>5, <1>6

(* With the length of the piece, part of its points is all of them. *)
LEMMA PartFills ==
  ASSUME XOrderOK, Len(points) \in Nat, NEW n \in Nodes, NEW q \in Seq(Indices), Once(q),
         Held(q) \subseteq AtX(n) \/ AtX(n) \subseteq Held(q)
  PROVE  Len(q) = Size(n) <=> Held(q) = AtX(n)
<1>1. IsFiniteSet(Held(q)) /\ Cardinality(Held(q)) = Len(q)
  BY HeldCount, LenProperties
<1>2. IsFiniteSet(AtX(n)) /\ Cardinality(AtX(n)) = Size(n)
  BY PieceCount
<1>3. CASE Held(q) \subseteq AtX(n)
  <2>1. Cardinality(AtX(n)) = Cardinality(Held(q)) => AtX(n) = Held(q)
    BY <1>2, <1>3, FS_Subset
  <2> QED  BY <1>1, <1>2, <2>1
<1>4. CASE AtX(n) \subseteq Held(q)
  <2>1. Cardinality(Held(q)) = Cardinality(AtX(n)) => Held(q) = AtX(n)
    BY <1>1, <1>4, FS_Subset
  <2> QED  BY <1>1, <1>2, <2>1
<1> QED  BY <1>3, <1>4

LEMMA HoldsHeld ==
  ASSUME NEW q \in Seq(Indices)
  PROVE  Held(q) \subseteq Indices /\ \A i : i \in Held(q) <=> Holds(q, i)
<1>1. \A k \in 1 .. Len(q) : q[k] \in Indices
  BY ElementOfSeq
<1> QED  BY <1>1 DEF Held, Holds

-----------------------------------------------------------------------------
(* The two halves of a node. *)

LEMMA Halves ==
  ASSUME Len(points) \in Nat, NEW n \in Nodes, ~IsLeaf(n)
  PROVE  /\ n[1] \in Nat /\ Med(n) \in Nat /\ n[2] \in Nat
         /\ n[1] < Med(n) /\ Med(n) < n[2] /\ n[2] <= Len(points)
         /\ Left(n)[1] = n[1] /\ Left(n)[2] = Med(n)
         /\ Right(n)[1] = Med(n) /\ Right(n)[2] = n[2]
         /\ Left(n) \in Nodes /\ Right(n) \in Nodes
         /\ Size(Right(n)) - Size(Left(n)) \in -1 .. 1
<1>1. n[1] \in Nat /\ n[2] \in Nat /\ n[1] <= n[2] /\ n[2] <= Len(points) /\ n[2] - n[1] > 1
  BY DEF Nodes, IsLeaf, Size
<1>2. /\ Med(n) \in Nat /\ n[1] < Med(n) /\ Med(n) < n[2]
      /\ (n[2] - Med(n)) - (Med(n) - n[1]) \in -1 .. 1
  BY <1>1 DEF Med, Size
<1>3. /\ Left(n)[1] = n[1] /\ Left(n)[2] = Med(n)
      /\ Right(n)[1] = Med(n) /\ Right(n)[2] = n[2]
  BY DEF Left, Right
<1>4. Left(n) \in Nodes /\ Right(n) \in Nodes
  BY <1>1, <1>2, <1>3 DEF Nodes, Left, Right
<1> QED  BY <1>1, <1>2, <1>3, <1>4 DEF Size

LEMMA HalvesOfInterval ==
  ASSUME Len(points) \in Nat, NEW n \in Nodes, ~IsLeaf(n)
  PROVE  /\ Med(n) + 1 \in Interval(n)
         /\ Interval(n) \subseteq Indices
         /\ \A k : k \in Interval(Left(n)) <=> k \in Interval(n) /\ k <= Med(n)
         /\ \A k : k \in Interval(Right(n)) <=> k \in Interval(n) /\ ~(k <= Med(n))
<1>1. /\ n[1] \in Nat /\ Med(n) \in Nat /\ n[2] \in Nat
      /\ n[1] < Med(n) /\ Med(n) < n[2] /\ n[2] <= Len(points)
      /\ Left(n)[1] = n[1] /\ Left(n)[2] = Med(n)
      /\ Right(n)[1] = Med(n) /\ Right(n)[2] = n[2]
  BY Halves
<1> QED  BY <1>1 DEF Interval, Indices

(* The median is not less than what is before it, and less than nothing after. *)
LEMMA MedianDivides ==
  ASSUME TreeInv, NEW n \in Nodes, ~IsLeaf(n)
  PROVE  /\ node_x(n) \in Indices
         /\ \A k \in Interval(Right(n)) : ~XLess(x_ordered[k], node_x(n))
         /\ Distinct => \A k \in Interval(Left(n)) : XLess(x_ordered[k], node_x(n))
<1>1. Len(points) \in Nat /\ \A i \in Indices : X(i) \in Int /\ Y(i) \in Int
  BY Coordinates DEF TreeInv, Typed
<1>2. /\ Med(n) + 1 \in Indices /\ Med(n) \in Nat /\ Med(n) + 1 \in Nat
      /\ \A k \in Interval(Left(n)) : k \in Indices /\ k <= Med(n) /\ k < Med(n) + 1
      /\ \A k \in Interval(Right(n)) : k \in Indices /\ (k = Med(n) + 1 \/ Med(n) + 1 < k)
  <2>1. Med(n) \in Nat
    BY <1>1, Halves
  <2>2. \A k \in Indices : k \in Nat
    BY DEF Indices
  <2> QED  BY <1>1, <2>1, <2>2, HalvesOfInterval
<1>3. node_x(n) = x_ordered[Med(n) + 1]
  BY DEF node_x, At
<1>4. \A k \in Indices : x_ordered[k] \in Indices
  BY DEF TreeInv, XOrderOK
<1>5. ASSUME NEW k \in Interval(Right(n)) PROVE ~XLess(x_ordered[k], node_x(n))
  <2>1. CASE k = Med(n) + 1
    BY <1>1, <1>2, <1>3, <1>4, <2>1 DEF XLess
  <2>2. CASE Med(n) + 1 < k
    BY <1>2, <1>3, <2>2 DEF TreeInv, XOrderOK
  <2> QED  BY <1>2, <2>1, <2>2
<1>6. ASSUME Distinct, NEW k \in Interval(Left(n)) PROVE XLess(x_ordered[k], node_x(n))
  <2> DEFINE i == x_ordered[k]
             j == x_ordered[Med(n) + 1]
  <2>1. k \in Indices /\ k < Med(n) + 1 /\ k # Med(n) + 1 /\ i \in Indices /\ j \in Indices
    BY <1>2, <1>4
  <2>2. ~XLess(j, i) /\ i # j
    BY <1>2, <2>1 DEF TreeInv, XOrderOK
  <2> HIDE DEF i, j
  <2>3. points[i] # points[j]
    BY <1>6, <2>1, <2>2 DEF Distinct
  <2>4. points[i] \in Int \X Int /\ points[j] \in Int \X Int
    BY <2>1, ElementOfSeq DEF TreeInv, Indices
  <2>5. X(i) # X(j) \/ Y(i) # Y(j)
    BY <2>3, <2>4 DEF X, Y
  <2>6. XLess(i, j)
    BY <1>1, <2>1, <2>2, <2>5 DEF XLess
  <2> QED  BY <1>3, <2>6 DEF i, j
<1>7. node_x(n) \in Indices
  BY <1>2, <1>3, <1>4
<1> QED  BY <1>5, <1>6, <1>7

-----------------------------------------------------------------------------
(* What split_subset makes of a node, and what its assertions check. *)

LEMMA PieceHeld ==
  ASSUME TreeInv, NEW n \in Nodes, NEW ys \in Seq(Indices)
  PROVE  Piece(n, ys) <=> /\ Len(ys) = Size(n) /\ YAscends(ys) /\ Once(ys)
                          /\ Held(ys) = AtX(n)
<1>1. Held(ys) \subseteq Indices /\ \A i : i \in Held(ys) <=> Holds(ys, i)
  BY HoldsHeld
<1>2. Len(points) \in Nat /\ XOrderOK
  BY Coordinates DEF TreeInv, Typed
<1>3. AtX(n) \subseteq Indices
  BY <1>2, PieceCount
<1>4. \A i : i \in AtX(n) <=> \E k \in Interval(n) : x_ordered[k] = i
  BY DEF AtX
<1>5. Held(ys) = AtX(n) <=> \A i \in Indices : Holds(ys, i) <=> \E k \in Interval(n) : x_ordered[k] = i
  BY <1>1, <1>3, <1>4
<1> QED  BY <1>5 DEF Piece

LEMMA SidesOfY ==
  ASSUME TreeInv, NEW n \in DOMAIN y_ordered, NEW left \in BOOLEAN
  PROVE  /\ YPart(n, left) \in Seq(Indices)
         /\ YAscends(YPart(n, left)) /\ Once(YPart(n, left))
         /\ Held(YPart(n, left)) = {i \in AtX(n) : OnSide(n, left, i)}
<1> DEFINE q == YPart(n, left)
           s == y_ordered[n]
           G == {i \in Indices : OnSide(n, left, i)}
<1>1. n \in Nodes /\ Piece(n, s) /\ s \in Seq(Indices) /\ YAscends(s) /\ Once(s)
  BY DEF TreeInv, Piece
<1>2. Filtered(q, s, Len(s), G)
  BY <1>1, YPartIsFiltered
<1>3. Held(s) = AtX(n)
  BY <1>1, PieceHeld
<1>4. AtX(n) \subseteq Indices /\ \A i : i \in Held(s) <=> Holds(s, i)
  BY <1>1, <1>3, HoldsHeld
<1> HIDE DEF q, s
<1>5. q \in Seq(Indices) /\ YAscends(q) /\ Once(q)
  BY <1>2 DEF Filtered
<1>6. Held(q) \subseteq Indices /\ \A i : i \in Held(q) <=> Holds(q, i)
  BY <1>5, HoldsHeld
<1>7. \A i \in Indices : i \in Held(q) <=> i \in G /\ i \in AtX(n)
  BY <1>2, <1>3, <1>4, <1>6 DEF Filtered, Holds
<1>8. Held(q) = {i \in AtX(n) : OnSide(n, left, i)}
  BY <1>4, <1>6, <1>7
<1> QED  BY <1>5, <1>8 DEF q

(* The left part has points of the left half only, the right part has all of
   the right half; for distinct points there is no difference.              *)
LEMMA SidesOfX ==
  ASSUME TreeInv, NEW n \in DOMAIN y_ordered, ~IsLeaf(n)
  PROVE  /\ Held(YPart(n, TRUE)) \subseteq AtX(Left(n))
         /\ AtX(Right(n)) \subseteq Held(YPart(n, FALSE))
         /\ Held(YPart(n, TRUE)) = AtX(Left(n)) =>
              /\ \A k \in Interval(Left(n)) : XLess(x_ordered[k], node_x(n))
              /\ Held(YPart(n, FALSE)) = AtX(Right(n))
         /\ Distinct => Held(YPart(n, TRUE)) = AtX(Left(n))
<1> DEFINE M == node_x(n)
           l == Held(YPart(n, TRUE))
           r == Held(YPart(n, FALSE))
<1>1. n \in Nodes /\ Len(points) \in Nat
  BY Coordinates DEF TreeInv, Typed
<1>2. l = {i \in AtX(n) : XLess(i, M)} /\ r = {i \in AtX(n) : ~XLess(i, M)}
  BY SidesOfY DEF OnSide
<1>3. /\ \A k \in Interval(Right(n)) : ~XLess(x_ordered[k], M)
      /\ Distinct => \A k \in Interval(Left(n)) : XLess(x_ordered[k], M)
  BY <1>1, MedianDivides
<1>4. \A k : k \in Interval(n) <=> k \in Interval(Left(n)) \/ k \in Interval(Right(n))
  BY <1>1, HalvesOfInterval
<1> HIDE DEF M, l, r
<1>5. l \subseteq AtX(Left(n))
  BY <1>2, <1>3, <1>4 DEF AtX
<1>6. AtX(Right(n)) \subseteq r
  BY <1>2, <1>3, <1>4 DEF AtX
<1>7. ASSUME l = AtX(Left(n))
      PROVE  (\A k \in Interval(Left(n)) : XLess(x_ordered[k], M)) /\ r = AtX(Right(n))
  <2>1. \A k \in Interval(Left(n)) : XLess(x_ordered[k], M)
    BY <1>2, <1>7 DEF AtX
  <2>2. r \subseteq AtX(Right(n))
    BY <1>2, <1>4, <2>1 DEF AtX
  <2> QED  BY <1>6, <2>1, <2>2
<1>8. ASSUME Distinct PROVE AtX(Left(n)) \subseteq l
  BY <1>2, <1>3, <1>4, <1>8 DEF AtX
<1> QED  BY <1>5, <1>6, <1>7, <1>8 DEF M, l, r

(* check_subset comes down to the numbers of points. *)
LEMMA CheckedByLength ==
  ASSUME TreeInv, NEW n \in Nodes, NEW ys \in Seq(Indices), YAscends(ys)
  PROVE  check_subset(n, ys) <=> Len(ys) = Size(n)
<1> DEFINE xs == SubSeq(x_ordered, n[1] + 1, n[2])
<1>1. n[1] \in Nat /\ n[2] \in Nat /\ n[1] <= n[2] /\ Len(ys) \in Nat
  BY LenProperties DEF Nodes
<1>2. \A i \in n[1] + 1 .. n[2] : i \in Indices /\ x_ordered[i] \in Indices
  <2>1. Len(points) \in Nat /\ XOrderOK
    BY Coordinates DEF TreeInv, Typed
  <2>2. Interval(n) \subseteq Indices
    BY <2>1, PieceCount
  <2> QED  BY <2>1, <2>2 DEF Interval, XOrderOK
<1>3. /\ Len(xs) = IF n[1] + 1 <= n[2] THEN n[2] - (n[1] + 1) + 1 ELSE 0
      /\ \A i \in 1 .. n[2] - (n[1] + 1) + 1 : xs[i] = x_ordered[(n[1] + 1) + i - 1]
  <2>1. n[1] + 1 \in Int /\ n[2] \in Int
    BY <1>1
  <2> QED  BY <1>2, <2>1, SubSeqProperties
<1>4. /\ Len(xs) = n[2] - n[1]
      /\ \A i \in 1 .. n[2] - n[1] : xs[i] = x_ordered[n[1] + i]
  <2>1. n[2] - (n[1] + 1) + 1 = n[2] - n[1] /\ (~(n[1] + 1 <= n[2]) => n[2] - n[1] = 0)
    BY <1>1
  <2>2. \A i \in 1 .. n[2] - n[1] : (n[1] + 1) + i - 1 = n[1] + i
    BY <1>1
  <2> QED  BY <1>3, <2>1, <2>2
<1> HIDE DEF xs
<1>5. InOrder(xs, XLess)
  <2> SUFFICES ASSUME NEW k \in 1 .. (n[2] - n[1]) - 1 PROVE ~XLess(xs[k + 1], xs[k])
    BY <1>4 DEF InOrder
  <2>1. /\ k \in 1 .. n[2] - n[1] /\ k + 1 \in 1 .. n[2] - n[1]
        /\ n[1] + k \in n[1] + 1 .. n[2] /\ n[1] + (k + 1) \in n[1] + 1 .. n[2]
        /\ n[1] + k < n[1] + (k + 1)
    BY <1>1
  <2>2. /\ xs[k] = x_ordered[n[1] + k] /\ xs[k + 1] = x_ordered[n[1] + (k + 1)]
        /\ n[1] + k \in Indices /\ n[1] + (k + 1) \in Indices
    BY <1>2, <1>4, <2>1
  <2> QED  BY <2>1, <2>2 DEF TreeInv, XOrderOK
<1>6. InOrder(ys, YLess)
  <2>1. \A k \in 1 .. Len(ys) - 1 : k \in 1 .. Len(ys) /\ k + 1 \in 1 .. Len(ys) /\ k < k + 1
    BY <1>1
  <2> QED  BY <2>1 DEF InOrder, YAscends
<1>7. check_subset(n, ys) <=> /\ Len(xs) = Len(ys) /\ InOrder(xs, XLess) /\ InOrder(ys, YLess)
  BY Zenon DEF check_subset, xs
<1> QED  BY <1>4, <1>5, <1>6, <1>7 DEF Size

(* Exact pointers pass the assertions about them. *)
LEMMA ExactArePassed ==
  ASSUME NEW s, Len(s) \in Nat, NEW c, Len(c) \in Nat, NEW ptr, Exact(s, c, ptr)
  PROVE  PointsAtLeast(s, c, ptr)
<1> SUFFICES ASSUME NEW p \in 0 .. Len(s) - 1, ptr[p] < Len(c)
             PROVE  /\ ~YLess(At(c, ptr[p]), At(s, p))
                    /\ ptr[p] > 0 => YLess(At(c, ptr[p] - 1), At(s, p))
  BY DEF PointsAtLeast, Exact
<1>1. ptr[p] \in 0 .. Len(c)
  BY DEF Exact
<1>2. \A k \in 1 .. Len(c) : YLess(c[k], s[p + 1]) <=> k <= ptr[p]
  BY DEF Exact
<1> DEFINE q == ptr[p]
<1> HIDE DEF q
<1>3. q \in Nat /\ q + 1 \in 1 .. Len(c) /\ ~(q + 1 <= q)
  BY <1>1 DEF q
<1>4. q > 0 => q \in 1 .. Len(c) /\ q <= q /\ (q - 1) + 1 = q
  BY <1>3
<1>5. ~YLess(c[q + 1], s[p + 1]) /\ (q > 0 => YLess(c[q], s[p + 1]))
  BY <1>2, <1>3, <1>4 DEF q
<1> QED  BY <1>4, <1>5 DEF At, q

-----------------------------------------------------------------------------
(* What is said of points and x_ordered alone stays true while they stay. *)

LEMMA PieceStays ==
  ASSUME points' = points, x_ordered' = x_ordered,
         NEW m, NEW ys, ys = y_ordered'[m], Piece(m, ys)
  PROVE  Piece(m, y_ordered[m])'
BY DEF Piece, YAscends, Once, Holds, Interval, Size, Indices, YLess, X, Y

LEMMA HalvedStays ==
  ASSUME points' = points, x_ordered' = x_ordered,
         NEW m, ~IsLeaf(m), Left(m) \in DOMAIN y_ordered', Right(m) \in DOMAIN y_ordered',
         NEW s, s = y_ordered'[m], NEW ptrs, ptrs = cascade'[m],
         NEW c, \A left \in BOOLEAN : c[left] = y_ordered'[Child(m, left)],
         \A left \in BOOLEAN : Exact(s, c[left], ptrs[left]),
         \A k \in Interval(Left(m)) : XLess(x_ordered[k], node_x(m))
  PROVE  Halved(m)'
<1>1. ASSUME NEW left \in BOOLEAN
      PROVE  Exact(y_ordered'[m], y_ordered'[Child(m, left)], cascade'[m][left])
  <2>1. Exact(s, c[left], ptrs[left]) /\ c[left] = y_ordered'[Child(m, left)]
    OBVIOUS
  <2> QED  BY <2>1, Zenon
<1>2. \A left \in BOOLEAN : Exact(y_ordered[m], y_ordered[Child(m, left)], cascade[m][left])'
  <2> SUFFICES ASSUME NEW left \in BOOLEAN
               PROVE  Exact(y_ordered[m], y_ordered[Child(m, left)], cascade[m][left])'
    OBVIOUS
  <2> QED  BY <1>1 DEF Exact, YLess, X, Y, Child
<1>3. (\A k \in Interval(Left(m)) : XLess(x_ordered[k], node_x(m)))'
  BY DEF XLess, X, Y, node_x, At, Interval, Left, Med, Size
<1>4. (~IsLeaf(m) /\ Left(m) \in DOMAIN y_ordered /\ Right(m) \in DOMAIN y_ordered)'
  BY DEF IsLeaf, Left, Right, Med, Size
<1> QED  BY <1>2, <1>3, <1>4 DEF Halved

LEMMA HalvedKept ==
  ASSUME points' = points, x_ordered' = x_ordered, NEW m, Halved(m),
         y_ordered'[m] = y_ordered[m], cascade'[m] = cascade[m],
         \A k \in {Left(m), Right(m)} : k \in DOMAIN y_ordered' /\ y_ordered'[k] = y_ordered[k]
  PROVE  Halved(m)'
<1>1. PICK c : c = [left \in BOOLEAN |-> y_ordered[Child(m, left)]]
  OBVIOUS
<1>2. PICK s : s = y_ordered[m]
  OBVIOUS
<1>3. PICK ptrs : ptrs = cascade[m]
  OBVIOUS
<1>4. ~IsLeaf(m) /\ \A k \in Interval(Left(m)) : XLess(x_ordered[k], node_x(m))
  BY DEF Halved
<1>5. \A left \in BOOLEAN : Child(m, left) \in {Left(m), Right(m)}
  BY DEF Child
<1>6. \A left \in BOOLEAN : c[left] = y_ordered'[Child(m, left)]
  BY <1>1, <1>5
<1>7. ASSUME NEW left \in BOOLEAN PROVE Exact(s, c[left], ptrs[left])
  <2>1. c[left] = y_ordered[Child(m, left)]
    BY <1>1
  <2>2. Exact(y_ordered[m], y_ordered[Child(m, left)], cascade[m][left])
    BY DEF Halved
  <2> QED  BY <1>2, <1>3, <2>1, <2>2
<1> QED  BY <1>2, <1>3, <1>4, <1>6, <1>7, HalvedStays

LEMMA XOrderStays ==
  ASSUME points' = points, x_ordered' = x_ordered
  PROVE  (XOrderOK' <=> XOrderOK) /\ Nodes' = Nodes /\ Root' = Root
BY DEF XOrderOK, Nodes, Root, Indices, XLess, X, Y

-----------------------------------------------------------------------------
(* A step of build_tree. *)

(* The condition of BuildInner. *)
SplitPasses(n) ==
  /\ PointsAtLeast(y_ordered[n], YPart(n, TRUE), Pointers(y_ordered[n], YPart(n, TRUE)))
  /\ PointsAtLeast(y_ordered[n], YPart(n, FALSE), Pointers(y_ordered[n], YPart(n, FALSE)))
  /\ check_subset(Left(n), YPart(n, TRUE))
  /\ check_subset(Right(n), YPart(n, FALSE))
  /\ Size(Right(n)) - Size(Left(n)) \in -1 .. 1

LEMMA DistinctPass ==
  ASSUME TreeInv, Distinct, NEW n \in DOMAIN y_ordered, ~IsLeaf(n)
  PROVE  SplitPasses(n)
<1> DEFINE s == y_ordered[n]
           l == YPart(n, TRUE)
           r == YPart(n, FALSE)
<1>1. /\ Len(points) \in Nat /\ XOrderOK /\ n \in Nodes
      /\ s \in Seq(Indices) /\ YAscends(s) /\ Typed
  BY Coordinates DEF TreeInv, Typed, Piece
<1>2. /\ l \in Seq(Indices) /\ YAscends(l) /\ Once(l)
      /\ r \in Seq(Indices) /\ YAscends(r) /\ Once(r)
  BY SidesOfY
<1>3. Held(l) = AtX(Left(n)) /\ Held(r) = AtX(Right(n))
  BY SidesOfX
<1>4. /\ Left(n) \in Nodes /\ Right(n) \in Nodes
      /\ Size(Right(n)) - Size(Left(n)) \in -1 .. 1
  BY <1>1, Halves
<1> HIDE DEF s, l, r
<1>5. Len(l) = Size(Left(n)) /\ Len(r) = Size(Right(n))
  BY <1>1, <1>2, <1>3, <1>4, PartFills
<1>6. check_subset(Left(n), l) /\ check_subset(Right(n), r)
  BY <1>2, <1>4, <1>5, CheckedByLength
<1>7. Len(s) \in Nat /\ Len(l) \in Nat /\ Len(r) \in Nat
  BY <1>1, <1>2, LenProperties
<1>8. PointsAtLeast(s, l, Pointers(s, l)) /\ PointsAtLeast(s, r, Pointers(s, r))
  BY <1>1, <1>2, <1>7, PointersAreExact, ExactArePassed
<1> QED  BY <1>4, <1>6, <1>8, Zenon DEF SplitPasses, s, l, r

LEMMA PassedFill ==
  ASSUME TreeInv, NEW n \in DOMAIN y_ordered, ~IsLeaf(n), SplitPasses(n)
  PROVE  /\ Piece(Left(n), YPart(n, TRUE)) /\ Piece(Right(n), YPart(n, FALSE))
         /\ Exact(y_ordered[n], YPart(n, TRUE), Pointers(y_ordered[n], YPart(n, TRUE)))
         /\ Exact(y_ordered[n], YPart(n, FALSE), Pointers(y_ordered[n], YPart(n, FALSE)))
         /\ \A k \in Interval(Left(n)) : XLess(x_ordered[k], node_x(n))
<1> DEFINE s == y_ordered[n]
           l == YPart(n, TRUE)
           r == YPart(n, FALSE)
<1>1. /\ Len(points) \in Nat /\ XOrderOK /\ n \in Nodes
      /\ s \in Seq(Indices) /\ YAscends(s) /\ Typed
  BY Coordinates DEF TreeInv, Typed, Piece
<1>2. /\ l \in Seq(Indices) /\ YAscends(l) /\ Once(l)
      /\ r \in Seq(Indices) /\ YAscends(r) /\ Once(r)
  BY SidesOfY
<1>3. Left(n) \in Nodes /\ Right(n) \in Nodes
  BY <1>1, Halves
<1>4. Len(l) = Size(Left(n)) /\ Len(r) = Size(Right(n))
  BY <1>2, <1>3, CheckedByLength DEF SplitPasses
<1>5. Held(l) \subseteq AtX(Left(n))
  BY SidesOfX
<1>6. Held(l) = AtX(Left(n))
  <2> HIDE DEF l
  <2> QED  BY <1>1, <1>2, <1>3, <1>4, <1>5, PartFills
<1>7. /\ \A k \in Interval(Left(n)) : XLess(x_ordered[k], node_x(n))
      /\ Held(r) = AtX(Right(n))
  BY <1>6, SidesOfX
<1> HIDE DEF s, l, r
<1>8. Piece(Left(n), l) /\ Piece(Right(n), r)
  BY <1>2, <1>3, <1>4, <1>6, <1>7, PieceHeld
<1>9. Exact(s, l, Pointers(s, l)) /\ Exact(s, r, Pointers(s, r))
  BY <1>1, <1>2, PointersAreExact
<1> QED  BY <1>7, <1>8, <1>9 DEF s, l, r

(* The first open call and what is built. *)
LEMMA HeadIsBuilt ==
  ASSUME TreeInv, todo # <<>>
  PROVE  /\ Head(todo) \in DOMAIN y_ordered /\ Head(todo) = todo[1]
         /\ Len(todo) \in Nat /\ 1 \in 1 .. Len(todo)
         /\ Tail(todo) \in Seq(DOMAIN y_ordered) /\ Len(Tail(todo)) = Len(todo) - 1
         /\ \A j \in 1 .. Len(Tail(todo)) :
              /\ Tail(todo)[j] = todo[j + 1] /\ j + 1 \in 1 .. Len(todo) /\ 1 < j + 1
              /\ j + 1 # 1
<1>1. todo \in Seq(DOMAIN y_ordered)
  BY DEF TreeInv, CallsOK
<1>2. Len(todo) \in Nat \ {0}
  BY <1>1, EmptySeq
<1>3. /\ Head(todo) \in DOMAIN y_ordered
      /\ Tail(todo) \in Seq(DOMAIN y_ordered) /\ Len(Tail(todo)) = Len(todo) - 1
      /\ \A j \in 1 .. Len(Tail(todo)) : Tail(todo)[j] = todo[j + 1]
  BY <1>1, HeadTailProperties
<1>4. \A j \in 1 .. Len(todo) - 1 : j + 1 \in 1 .. Len(todo) /\ 1 < j + 1 /\ j + 1 # 1
  BY <1>2
<1>5. Head(todo) = todo[1]
  BY <1>1
<1> QED  BY <1>2, <1>3, <1>4, <1>5

LEMMA LeafStep ==
  ASSUME TreeInv, BuildLeaf
  PROVE  TreeInv'
<1>1. /\ todo # <<>> /\ IsLeaf(Head(todo)) /\ todo' = Tail(todo)
      /\ points' = points /\ x_ordered' = x_ordered
      /\ y_ordered' = y_ordered /\ cascade' = cascade
  BY DEF BuildLeaf
<1>2. XOrderOK' /\ Nodes' = Nodes /\ Root' = Root
  BY <1>1, XOrderStays DEF TreeInv
<1>3. \A n \in DOMAIN y_ordered' : Piece(n, y_ordered[n])'
  BY <1>1, PieceStays DEF TreeInv
<1>4. \A n \in DOMAIN cascade' : Halved(n)'
  <2> SUFFICES ASSUME NEW n \in DOMAIN cascade PROVE Halved(n)'
    BY <1>1
  <2>1. Halved(n)
    BY DEF TreeInv
  <2>2. Left(n) \in DOMAIN y_ordered /\ Right(n) \in DOMAIN y_ordered
    BY <2>1 DEF Halved
  <2> QED  BY <1>1, <2>1, <2>2, HalvedKept
<1>5. CallsOK'
  <2> DEFINE t == Tail(todo)
  <2>1. /\ Len(todo) \in Nat /\ Head(todo) = todo[1]
        /\ t \in Seq(DOMAIN y_ordered) /\ Len(t) = Len(todo) - 1
        /\ \A j \in 1 .. Len(t) : t[j] = todo[j + 1] /\ j + 1 \in 1 .. Len(todo)
    BY <1>1, HeadIsBuilt
  <2> HIDE DEF t
  <2>2. ASSUME NEW n \in DOMAIN y_ordered PROVE IsLeaf(n) \/ n \in DOMAIN cascade \/ Holds(t, n)
    <3>1. CASE Holds(todo, n)
      <4>1. PICK k \in 1 .. Len(todo) : todo[k] = n
        BY <3>1 DEF Holds
      <4>2. CASE k = 1
        BY <1>1, <2>1, <4>1, <4>2
      <4>3. CASE k # 1
        <5>1. k - 1 \in 1 .. Len(t) /\ (k - 1) + 1 = k
          BY <2>1, <4>3
        <5>2. t[k - 1] = n
          BY <2>1, <4>1, <5>1
        <5> QED  BY <5>1, <5>2 DEF Holds
      <4> QED  BY <4>2, <4>3
    <3> QED  BY <3>1 DEF TreeInv, CallsOK
  <2>3. \A j \in 1 .. Len(t), m \in DOMAIN y_ordered : Inside(m, t[j]) => m = t[j]
    BY <2>1 DEF TreeInv, CallsOK
  <2>4. ASSUME NEW j \in 1 .. Len(t), NEW k \in 1 .. Len(t), j < k PROVE t[j][2] <= t[k][1]
    <3>1. j \in Int /\ k \in Int
      BY <2>1
    <3>2. j + 1 < k + 1
      BY <2>4, <3>1
    <3> QED  BY <2>1, <3>2 DEF TreeInv, CallsOK
  <2> QED  BY <1>1, <2>1, <2>2, <2>3, <2>4 DEF CallsOK, IsLeaf, Size, Inside, Holds, t
<1> QED  BY <1>1, <1>2, <1>3, <1>4, <1>5 DEF TreeInv

LEMMA TreeStays ==
  ASSUME TreeInv, UNCHANGED tree
  PROVE  TreeInv'
<1>1. /\ points' = points /\ x_ordered' = x_ordered
      /\ y_ordered' = y_ordered /\ cascade' = cascade /\ todo' = todo
  BY DEF tree
<1>2. XOrderOK' /\ Nodes' = Nodes /\ Root' = Root
  BY <1>1, XOrderStays DEF TreeInv
<1>3. \A n \in DOMAIN y_ordered' : Piece(n, y_ordered[n])'
  BY <1>1, PieceStays DEF TreeInv
<1>4. \A n \in DOMAIN cascade' : Halved(n)'
  <2> SUFFICES ASSUME NEW n \in DOMAIN cascade PROVE Halved(n)'
    BY <1>1
  <2>1. Halved(n)
    BY DEF TreeInv
  <2>2. Left(n) \in DOMAIN y_ordered /\ Right(n) \in DOMAIN y_ordered
    BY <2>1 DEF Halved
  <2> QED  BY <1>1, <2>1, <2>2, HalvedKept
<1>5. CallsOK'
  BY <1>1 DEF TreeInv, CallsOK, IsLeaf, Size, Inside, Holds
<1> QED  BY <1>1, <1>2, <1>3, <1>4, <1>5 DEF TreeInv

(* The two halves are built, and are to be gone on with before what was open. *)
Grows(n, l, r, ptrs) ==
  /\ y_ordered' = [m \in DOMAIN y_ordered \cup {Left(n), Right(n)} |->
                     CASE m = Left(n) -> l
                       [] m = Right(n) -> r
                       [] OTHER -> y_ordered[m]]
  /\ cascade' = [m \in DOMAIN cascade \cup {n} |-> IF m = n THEN ptrs ELSE cascade[m]]
  /\ todo' = <<Left(n), Right(n)>> \o Tail(todo)

LEMMA TreeGrows ==
  ASSUME TreeInv, todo # <<>>, NEW n, n = Head(todo), ~IsLeaf(n),
         NEW l, NEW r, NEW ptrs, Piece(Left(n), l), Piece(Right(n), r),
         Exact(y_ordered[n], l, ptrs[TRUE]), Exact(y_ordered[n], r, ptrs[FALSE]),
         \A k \in Interval(Left(n)) : XLess(x_ordered[k], node_x(n)),
         points' = points, x_ordered' = x_ordered,
         Grows(n, l, r, ptrs)
  PROVE  TreeInv'
<1> DEFINE L == Left(n)
           R == Right(n)
           t == Tail(todo)
<1>1. /\ n \in DOMAIN y_ordered /\ n \in Nodes /\ n = todo[1] /\ Len(points) \in Nat
      /\ DOMAIN y_ordered \subseteq Nodes /\ DOMAIN cascade \subseteq DOMAIN y_ordered
  BY HeadIsBuilt, Coordinates DEF TreeInv, Typed
<1>2. /\ n[1] \in Nat /\ Med(n) \in Nat /\ n[2] \in Nat
      /\ n[1] < Med(n) /\ Med(n) < n[2]
      /\ L[1] = n[1] /\ L[2] = Med(n) /\ R[1] = Med(n) /\ R[2] = n[2]
      /\ L \in Nodes /\ R \in Nodes
  BY <1>1, Halves
<1>3. L # R /\ L # n /\ R # n
  BY <1>2
<1>4. \A m \in DOMAIN y_ordered : Inside(m, n) => m = n
  <2>1. 1 \in 1 .. Len(todo)
    BY HeadIsBuilt
  <2> QED  BY <1>1, <2>1 DEF TreeInv, CallsOK
<1>5. L \notin DOMAIN y_ordered /\ R \notin DOMAIN y_ordered
  <2>1. Inside(L, n) /\ Inside(R, n)
    BY <1>2 DEF Inside
  <2> QED  BY <1>3, <1>4, <2>1
<1>6. /\ DOMAIN y_ordered' = DOMAIN y_ordered \cup {L, R}
      /\ y_ordered'[L] = l /\ y_ordered'[R] = r
      /\ \A m \in DOMAIN y_ordered : y_ordered'[m] = y_ordered[m]
  BY <1>3, <1>5 DEF Grows
<1>7. /\ DOMAIN cascade' = DOMAIN cascade \cup {n}
      /\ cascade'[n] = ptrs
      /\ \A m \in DOMAIN cascade : m # n => cascade'[m] = cascade[m]
  BY DEF Grows
<1>8. XOrderOK' /\ Nodes' = Nodes /\ Root' = Root
  BY XOrderStays DEF TreeInv
<1>9. todo' = <<L, R>> \o t
  BY DEF Grows
<1>10. /\ points \in Seq(Int \X Int) /\ Root \in DOMAIN y_ordered
       /\ \A m \in DOMAIN y_ordered : Piece(m, y_ordered[m])
       /\ \A m \in DOMAIN cascade : Halved(m)
       /\ CallsOK
  BY DEF TreeInv
<1>11. \A m \in DOMAIN y_ordered' : Piece(m, y_ordered[m])'
  <2> SUFFICES ASSUME NEW m \in DOMAIN y_ordered' PROVE Piece(m, y_ordered[m])'
    OBVIOUS
  <2>1. PICK ys : ys = y_ordered'[m]
    OBVIOUS
  <2>2. Piece(m, ys)
    <3>1. CASE m = L
      BY <1>6, <2>1, <3>1
    <3>2. CASE m = R
      BY <1>6, <2>1, <3>2
    <3>3. CASE m \in DOMAIN y_ordered
      BY <1>6, <1>10, <2>1, <3>3
    <3> QED  BY <1>6, <3>1, <3>2, <3>3
  <2> QED  BY <2>1, <2>2, PieceStays
<1>12. \A m \in DOMAIN cascade' : Halved(m)'
  <2> SUFFICES ASSUME NEW m \in DOMAIN cascade' PROVE Halved(m)'
    OBVIOUS
  <2>1. CASE m = n
    <3>1. PICK c : c = [left \in BOOLEAN |-> IF left THEN l ELSE r]
      OBVIOUS
    <3>2. PICK s : s = y_ordered[n]
      OBVIOUS
    <3>3. \A left \in BOOLEAN : c[left] = y_ordered'[Child(n, left)]
      BY <1>6, <3>1 DEF Child
    <3>4. \A left \in BOOLEAN : Exact(s, c[left], ptrs[left])
      BY <3>1, <3>2
    <3>5. s = y_ordered'[n] /\ L \in DOMAIN y_ordered' /\ R \in DOMAIN y_ordered'
      BY <1>1, <1>6, <3>2
    <3>6. Halved(n)'
      BY <1>7, <3>3, <3>4, <3>5, HalvedStays
    <3> QED  BY <2>1, <3>6
  <2>2. CASE m # n
    <3>1. m \in DOMAIN cascade /\ m \in DOMAIN y_ordered /\ Halved(m)
      BY <1>1, <1>7, <1>10, <2>2
    <3>2. Left(m) \in DOMAIN y_ordered /\ Right(m) \in DOMAIN y_ordered
      BY <3>1 DEF Halved
    <3>3. \A k \in {Left(m), Right(m)} : k \in DOMAIN y_ordered' /\ y_ordered'[k] = y_ordered[k]
      BY <1>6, <3>2
    <3>4. y_ordered'[m] = y_ordered[m] /\ cascade'[m] = cascade[m]
      BY <1>6, <1>7, <2>2, <3>1
    <3> QED  BY <3>1, <3>3, <3>4, HalvedKept
  <2> QED  BY <2>1, <2>2
<1> HIDE DEF L, R, t
<1>13. /\ t \in Seq(DOMAIN y_ordered) /\ Len(t) \in Nat /\ Len(t) = Len(todo) - 1 /\ Len(todo) \in Nat
       /\ \A j \in 1 .. Len(t) : t[j] = todo[j + 1] /\ j + 1 \in 1 .. Len(todo) /\ 1 < j + 1
  BY HeadIsBuilt, LenProperties DEF t
<1>14. /\ todo' \in Seq(DOMAIN y_ordered') /\ Len(todo') = Len(t) + 2
       /\ todo'[1] = L /\ todo'[2] = R
       /\ \A j \in 3 .. Len(t) + 2 : todo'[j] = t[j - 2] /\ j - 2 \in 1 .. Len(t)
  <2> DEFINE D == DOMAIN y_ordered'
  <2>1. PICK lr : lr = <<L, R>>
    OBVIOUS
  <2>2. /\ lr \in Seq(D) /\ Len(lr) = 2
        /\ lr[1] = L /\ lr[2] = R
    BY <1>6, <2>1
  <2>3. t \in Seq(D)
    <3>1. DOMAIN y_ordered \subseteq D
      BY <1>6
    <3> QED  BY <1>13, <3>1, SeqMonotonic
  <2> HIDE DEF D
  <2>4. /\ lr \o t \in Seq(D) /\ Len(lr \o t) = 2 + Len(t)
        /\ \A i \in 1 .. 2 + Len(t) : (lr \o t)[i] = IF i <= 2 THEN lr[i] ELSE t[i - 2]
    <3>1. /\ lr \o t \in Seq(D) /\ Len(lr \o t) = Len(lr) + Len(t)
          /\ \A i \in 1 .. Len(lr) + Len(t) : (lr \o t)[i] = IF i <= Len(lr) THEN lr[i] ELSE t[i - Len(lr)]
      BY <2>2, <2>3, ConcatProperties, Zenon
    <3>2. Len(lr) = 2
      BY <2>2
    <3> QED  BY <3>1, <3>2, Zenon
  <2>5. todo' = lr \o t
    BY <1>9, <2>1
  <2>6. /\ 1 \in 1 .. 2 + Len(t) /\ 2 \in 1 .. 2 + Len(t) /\ 1 <= 2
        /\ Len(t) + 2 = 2 + Len(t)
    BY <1>13
  <2>7. \A j \in 3 .. Len(t) + 2 : j \in 1 .. 2 + Len(t) /\ ~(j <= 2) /\ j - 2 \in 1 .. Len(t)
    BY <1>13
  <2>8. todo'[1] = L /\ todo'[2] = R
    BY <2>2, <2>4, <2>5, <2>6
  <2>9. \A j \in 3 .. Len(t) + 2 : todo'[j] = t[j - 2] /\ j - 2 \in 1 .. Len(t)
    BY <2>4, <2>5, <2>7
  <2>10. todo' \in Seq(D) /\ Len(todo') = Len(t) + 2
    BY <2>4, <2>5, <2>6
  <2> QED  BY <2>8, <2>9, <2>10 DEF D
<1>15. CallsOK'
  <2> DEFINE N == Len(t) + 2
  <2>0. PICK d : d = todo'
    OBVIOUS
  <2>9. /\ d[1] = L /\ d[2] = R /\ Len(d) = N
        /\ \A j \in 3 .. N : d[j] = t[j - 2] /\ j - 2 \in 1 .. Len(t)
    BY <1>14, <2>0
  <2>1. \A j \in 1 .. N : j = 1 \/ j = 2 \/ j \in 3 .. N
    BY <1>13
  <2>2. \A j \in 1 .. Len(t) : n[2] <= t[j][1]
    <3>1. 1 \in 1 .. Len(todo)
      BY HeadIsBuilt
    <3> QED  BY <1>1, <1>10, <1>13, <3>1 DEF CallsOK
  <2>3. \A j \in 1 .. Len(t) : t[j] \in Nodes
    BY <1>1, <1>13, ElementOfSeq
  <2>4. ASSUME NEW j \in 1 .. N
        PROVE  \/ d[j] = L
               \/ d[j] = R
               \/ \E k \in 1 .. Len(t) : d[j] = t[k] /\ t[k] \in Nodes /\ n[2] <= t[k][1]
    <3>1. CASE j \in 3 .. N
      <4>1. d[j] = t[j - 2] /\ j - 2 \in 1 .. Len(t)
        BY <2>9, <3>1
      <4> QED  BY <2>2, <2>3, <4>1
    <3> QED  BY <2>9, <2>1, <3>1
  <2>5. ASSUME NEW m \in DOMAIN y_ordered' PROVE IsLeaf(m) \/ m \in DOMAIN cascade' \/ Holds(d, m)
    <3>1. CASE m \in {L, R}
      <4>1. 1 \in 1 .. Len(d) /\ 2 \in 1 .. Len(d)
        BY <1>13, <2>9
      <4> QED  BY <2>9, <3>1, <4>1 DEF Holds
    <3>2. CASE m \in DOMAIN y_ordered /\ Holds(todo, m) /\ m # n
      <4>1. PICK k \in 1 .. Len(todo) : todo[k] = m
        BY <3>2 DEF Holds
      <4>2. k - 1 \in 1 .. Len(t) /\ (k - 1) + 1 = k
        BY <1>1, <1>13, <3>2, <4>1
      <4>3. t[k - 1] = m
        BY <1>13, <4>1, <4>2
      <4>4. k + 1 \in 3 .. N /\ (k + 1) - 2 = k - 1 /\ k + 1 \in 1 .. N
        BY <1>13, <4>2
      <4>5. d[k + 1] = m
        BY <2>9, <4>3, <4>4
      <4> QED  BY <2>9, <4>4, <4>5 DEF Holds
    <3> QED  BY <1>6, <1>7, <1>10, <3>1, <3>2 DEF CallsOK
  <2>6. ASSUME NEW j \in 1 .. N, NEW m \in DOMAIN y_ordered', Inside(m, d[j])
        PROVE  m = d[j]
    <3>1. m \in Nodes /\ m[1] \in Nat /\ m[2] \in Nat /\ m[1] <= m[2]
      BY <1>1, <1>2, <1>6 DEF Nodes
    <3>2. m[1] >= d[j][1] /\ m[2] <= d[j][2]
      BY <2>6, <3>1 DEF Inside
    <3>0. PICK e : e = d[j]
      OBVIOUS
    <3>6. m[1] >= e[1] /\ m[2] <= e[2]
      BY <3>0, <3>2
    <3>3. CASE e = L
      <4>1. m # R
        BY <1>2, <3>6, <3>3
      <4>2. m \in DOMAIN y_ordered => m = n
        <5>1. Inside(m, n)
          BY <1>2, <3>1, <3>6, <3>3 DEF Inside
        <5> QED  BY <1>4, <5>1
      <4>3. m # n
        BY <1>2, <3>6, <3>3
      <4> QED  BY <1>6, <3>0, <3>3, <4>1, <4>2, <4>3
    <3>4. CASE e = R
      <4>1. m # L
        BY <1>2, <3>6, <3>4
      <4>2. m \in DOMAIN y_ordered => m = n
        <5>1. Inside(m, n)
          BY <1>2, <3>1, <3>6, <3>4 DEF Inside
        <5> QED  BY <1>4, <5>1
      <4>3. m # n
        BY <1>2, <3>6, <3>4
      <4> QED  BY <1>6, <3>0, <3>4, <4>1, <4>2, <4>3
    <3>5. ASSUME NEW k \in 1 .. Len(t), d[j] = t[k], t[k] \in Nodes, n[2] <= t[k][1]
          PROVE  m = d[j]
      <4>1. t[k][1] \in Nat
        BY <3>5 DEF Nodes
      <4>2. m # L /\ m # R
        BY <1>2, <3>0, <3>5, <3>6, <4>1
      <4>3. m \in DOMAIN y_ordered /\ k + 1 \in 1 .. Len(todo) /\ todo[k + 1] = t[k]
        BY <1>6, <1>13, <4>2
      <4> QED  BY <1>10, <2>6, <3>5, <4>3 DEF CallsOK
    <3> QED  BY <2>4, <3>0, <3>3, <3>4, <3>5
  <2>7. ASSUME NEW j \in 1 .. N, NEW k \in 1 .. N, j < k PROVE d[j][2] <= d[k][1]
    <3>1. CASE j = 1 /\ k = 2
      BY <1>2, <2>9, <3>1
    <3>2. CASE j \in {1, 2} /\ k \in 3 .. N
      <4>1. d[k] = t[k - 2] /\ k - 2 \in 1 .. Len(t)
        BY <2>9, <3>2
      <4>2. t[k - 2][1] \in Nat /\ n[2] <= t[k - 2][1]
        BY <2>2, <2>3, <4>1 DEF Nodes
      <4>3. d[j][2] \in {Med(n), n[2]}
        BY <1>2, <2>9, <3>2
      <4> QED  BY <1>2, <4>1, <4>2, <4>3
    <3>3. CASE j \in 3 .. N /\ k \in 3 .. N
      <4>1. d[k] = t[k - 2] /\ k - 2 \in 1 .. Len(t) /\ d[j] = t[j - 2] /\ j - 2 \in 1 .. Len(t)
        BY <2>9, <3>3
      <4>2. (j - 2) + 1 < (k - 2) + 1
        BY <1>13, <2>7
      <4>3. /\ t[k - 2] = todo[(k - 2) + 1] /\ (k - 2) + 1 \in 1 .. Len(todo)
            /\ t[j - 2] = todo[(j - 2) + 1] /\ (j - 2) + 1 \in 1 .. Len(todo)
        BY <1>13, <4>1
      <4> QED  BY <1>10, <4>1, <4>2, <4>3 DEF CallsOK
    <3>4. ~(j = 2 /\ k = 2) /\ ~(k = 1) /\ ~(j \in 3 .. N /\ k = 2)
      BY <1>13, <2>7
    <3> QED  BY <2>1, <3>1, <3>2, <3>3, <3>4
  <2>8. d \in Seq(DOMAIN y_ordered')
    BY <1>14, <2>0
  <2> HIDE DEF N
  <2>10. \A m \in DOMAIN y_ordered' : (IsLeaf(m) \/ m \in DOMAIN cascade \/ Holds(todo, m))'
    <3> SUFFICES ASSUME NEW m \in DOMAIN y_ordered'
                 PROVE  (IsLeaf(m) \/ m \in DOMAIN cascade \/ Holds(todo, m))'
      OBVIOUS
    <3>1. IsLeaf(m) \/ m \in DOMAIN cascade' \/ \E k \in 1 .. Len(todo') : todo'[k] = m
      BY <2>0, <2>5 DEF Holds
    <3> QED  BY <3>1 DEF IsLeaf, Size, Holds
  <2>11. (\A j \in 1 .. Len(todo), m \in DOMAIN y_ordered : Inside(m, todo[j]) => m = todo[j])'
    BY <2>0, <2>6, <2>9 DEF Inside
  <2>12. (\A j, k \in 1 .. Len(todo) : j < k => todo[j][2] <= todo[k][1])'
    BY <2>0, <2>7, <2>9
  <2> QED  BY <2>0, <2>8, <2>10, <2>11, <2>12 DEF CallsOK
<1> QED  BY <1>1, <1>2, <1>6, <1>7, <1>8, <1>10, <1>11, <1>12, <1>15 DEF TreeInv

-----------------------------------------------------------------------------
(* Orders. *)

(* No step down between neighbours, then none at all. *)
LEMMA NeighboursSuffice ==
  ASSUME NEW n \in Nat, NEW V, NEW s \in [1 .. n -> V], NEW R,
         \A a, b, c \in V : <<b, a>> \notin R /\ <<c, b>> \notin R => <<c, a>> \notin R,
         \A k \in 1 .. n - 1 : <<s[k + 1], s[k]>> \notin R
  PROVE  \A j, k \in 1 .. n : j < k => <<s[k], s[j]>> \notin R
<1> DEFINE S == {d \in Nat : \A j \in 1 .. n : j + d + 1 <= n => <<s[j + d + 1], s[j]>> \notin R}
<1>1. 0 \in S
  <2> SUFFICES ASSUME NEW j \in 1 .. n, j + 0 + 1 <= n PROVE <<s[j + 0 + 1], s[j]>> \notin R
    OBVIOUS
  <2>1. j \in 1 .. n - 1 /\ j + 0 + 1 = j + 1
    OBVIOUS
  <2> QED  BY <2>1
<1>2. ASSUME NEW d \in Nat, d \in S PROVE d + 1 \in S
  <2> SUFFICES ASSUME NEW j \in 1 .. n, j + (d + 1) + 1 <= n
               PROVE  <<s[j + (d + 1) + 1], s[j]>> \notin R
    OBVIOUS
  <2> DEFINE k == j + d + 1
  <2>1. k \in 1 .. n - 1 /\ k \in 1 .. n /\ k + 1 \in 1 .. n /\ k <= n /\ j + (d + 1) + 1 = k + 1
    OBVIOUS
  <2>2. <<s[k], s[j]>> \notin R
    BY <1>2, <2>1
  <2> HIDE DEF k
  <2>3. <<s[k + 1], s[k]>> \notin R
    BY <2>1
  <2>4. s[j] \in V /\ s[k] \in V /\ s[k + 1] \in V
    BY <2>1
  <2> QED  BY <2>1, <2>2, <2>3, <2>4, SMTT(30)
<1> HIDE DEF S
<1>3. Nat \subseteq S
  BY <1>1, <1>2, Induction
<1> SUFFICES ASSUME NEW j \in 1 .. n, NEW k \in 1 .. n, j < k PROVE <<s[k], s[j]>> \notin R
  OBVIOUS
<1>4. (k - j) - 1 \in Nat /\ j + ((k - j) - 1) + 1 = k /\ k <= n
  OBVIOUS
<1>5. (k - j) - 1 \in S
  BY <1>3, <1>4
<1>6. \A d \in S, i \in 1 .. n : i + d + 1 <= n => <<s[i + d + 1], s[i]>> \notin R
  BY DEF S
<1> QED  BY <1>4, <1>5, <1>6, SMTT(30)

LEMMA OrdersAreSequences ==
  ASSUME Len(points) \in Nat, NEW s \in [Indices -> Indices]
  PROVE  s \in Seq(Indices) /\ Len(s) = Len(points)
BY DEF Indices

LEMMA XOrderAscends ==
  ASSUME Typed, NEW s \in XOrders
  PROVE  /\ s \in [Indices -> Indices]
         /\ \A j, k \in Indices : j < k => ~XLess(s[k], s[j])
         /\ \A i \in Indices : \E k \in Indices : s[k] = i
<1> DEFINE R == {p \in Indices \X Indices : XLess(p[1], p[2])}
<1>1. Len(points) \in Nat /\ \A i \in Indices : X(i) \in Int /\ Y(i) \in Int
  BY Coordinates
<1>2. /\ s \in [Indices -> Indices] /\ InOrder(s, XLess)
      /\ \A i \in Indices : \E k \in Indices : s[k] = i
  BY DEF XOrders, Sorted
<1>3. Len(s) = Len(points)
  BY <1>1, <1>2, OrdersAreSequences
<1>4. \A a, b \in Indices : <<a, b>> \in R <=> XLess(a, b)
  OBVIOUS
<1>5. \A a, b, c \in Indices : ~XLess(b, a) /\ ~XLess(c, b) => ~XLess(c, a)
  BY <1>1 DEF XLess
<1>6. \A k \in 1 .. Len(points) - 1 : k \in Indices /\ k + 1 \in Indices
  BY <1>1 DEF Indices
<1>7. \A k \in 1 .. Len(points) - 1 : ~XLess(s[k + 1], s[k])
  BY <1>2, <1>3 DEF InOrder
<1> HIDE DEF R
<1>8. \A j, k \in 1 .. Len(points) : j < k => <<s[k], s[j]>> \notin R
  <2>1. s \in [1 .. Len(points) -> Indices]
    BY <1>2 DEF Indices
  <2>2. \A a, b, c \in Indices : <<b, a>> \notin R /\ <<c, b>> \notin R => <<c, a>> \notin R
    BY <1>4, <1>5
  <2>3. \A k \in 1 .. Len(points) - 1 : <<s[k + 1], s[k]>> \notin R
    BY <1>2, <1>4, <1>6, <1>7
  <2> QED  BY <1>1, <2>1, <2>2, <2>3, NeighboursSuffice
<1> QED  BY <1>2, <1>4, <1>8 DEF Indices

LEMMA YOrderAscends ==
  ASSUME Typed, NEW s \in YOrders
  PROVE  /\ s \in [Indices -> Indices]
         /\ \A j, k \in Indices : j < k => ~YLess(s[k], s[j])
         /\ \A i \in Indices : \E k \in Indices : s[k] = i
<1> DEFINE R == {p \in Indices \X Indices : YLess(p[1], p[2])}
<1>1. Len(points) \in Nat /\ \A i \in Indices : X(i) \in Int /\ Y(i) \in Int
  BY Coordinates
<1>2. /\ s \in [Indices -> Indices] /\ InOrder(s, YLess)
      /\ \A i \in Indices : \E k \in Indices : s[k] = i
  BY DEF YOrders, Sorted
<1>3. Len(s) = Len(points)
  BY <1>1, <1>2, OrdersAreSequences
<1>4. \A a, b \in Indices : <<a, b>> \in R <=> YLess(a, b)
  OBVIOUS
<1>5. \A a, b, c \in Indices : ~YLess(b, a) /\ ~YLess(c, b) => ~YLess(c, a)
  BY <1>1 DEF YLess
<1>6. \A k \in 1 .. Len(points) - 1 : k \in Indices /\ k + 1 \in Indices
  BY <1>1 DEF Indices
<1>7. \A k \in 1 .. Len(points) - 1 : ~YLess(s[k + 1], s[k])
  BY <1>2, <1>3 DEF InOrder
<1> HIDE DEF R
<1>8. \A j, k \in 1 .. Len(points) : j < k => <<s[k], s[j]>> \notin R
  <2>1. s \in [1 .. Len(points) -> Indices]
    BY <1>2 DEF Indices
  <2>2. \A a, b, c \in Indices : <<b, a>> \notin R /\ <<c, b>> \notin R => <<c, a>> \notin R
    BY <1>4, <1>5
  <2>3. \A k \in 1 .. Len(points) - 1 : <<s[k + 1], s[k]>> \notin R
    BY <1>2, <1>4, <1>6, <1>7
  <2> QED  BY <1>1, <2>1, <2>2, <2>3, NeighboursSuffice
<1> QED  BY <1>2, <1>4, <1>8 DEF Indices

(* An order of all indices has each once. *)
LEMMA OntoIsOnce ==
  ASSUME Len(points) \in Nat, NEW s \in [Indices -> Indices],
         \A i \in Indices : \E k \in Indices : s[k] = i
  PROVE  \A j, k \in Indices : s[j] = s[k] => j = k
<1>1. IsFiniteSet(Indices)
  BY FS_Interval DEF Indices
<1>2. s \in Surjection(Indices, Indices)
  BY DEF Surjection
<1>3. s \in Injection(Indices, Indices)
  BY <1>1, <1>2, FS_Surjection
<1> QED  BY <1>3 DEF Injection, IsInjective

LEMMA Initially ==
  ASSUME Init
  PROVE  IInv
<1>1. /\ points \in Seq(Int \X Int) /\ x_ordered \in XOrders
      /\ DOMAIN y_ordered = {Root} /\ y_ordered[Root] \in YOrders
      /\ DOMAIN cascade = {} /\ todo = <<Root>>
  BY CoordinatesAssumption DEF Init
<1>2. Typed /\ Len(points) \in Nat
  BY <1>1, Coordinates DEF Typed
<1>3. XOrderOK
  <2>1. /\ x_ordered \in [Indices -> Indices]
        /\ \A j, k \in Indices : j < k => ~XLess(x_ordered[k], x_ordered[j])
        /\ \A i \in Indices : \E k \in Indices : x_ordered[k] = i
    BY <1>1, <1>2, XOrderAscends
  <2>2. \A j, k \in Indices : x_ordered[j] = x_ordered[k] => j = k
    BY <1>2, <2>1, OntoIsOnce
  <2> QED  BY <2>1, <2>2 DEF XOrderOK
<1>4. Root \in Nodes /\ Size(Root) = Len(points) /\ Interval(Root) = Indices
  BY <1>2 DEF Root, Nodes, Size, Interval, Indices
<1>5. Piece(Root, y_ordered[Root])
  <2> DEFINE s == y_ordered[Root]
  <2>1. /\ s \in [Indices -> Indices]
        /\ \A j, k \in Indices : j < k => ~YLess(s[k], s[j])
        /\ \A i \in Indices : \E k \in Indices : s[k] = i
    BY <1>1, <1>2, YOrderAscends
  <2> HIDE DEF s
  <2>2. \A j, k \in Indices : s[j] = s[k] => j = k
    BY <1>2, <2>1, OntoIsOnce
  <2>3. s \in Seq(Indices) /\ Len(s) = Len(points) /\ 1 .. Len(s) = Indices
    BY <1>2, <2>1, OrdersAreSequences DEF Indices
  <2>4. YAscends(s) /\ Once(s)
    BY <2>1, <2>2, <2>3 DEF YAscends, Once
  <2>5. \A i \in Indices : Holds(s, i) /\ \E k \in Interval(Root) : x_ordered[k] = i
    BY <1>3, <1>4, <2>1, <2>3 DEF Holds, XOrderOK
  <2>6. Piece(Root, s)
    BY <1>4, <2>3, <2>4, <2>5 DEF Piece
  <2> QED  BY <2>6 DEF s
<1>6. CallsOK
  <2>1. PICK d : d = <<Root>>
    OBVIOUS
  <2>2. d \in Seq({Root}) /\ Len(d) = 1 /\ d[1] = Root /\ \A j \in 1 .. 1 : j = 1
    BY <2>1
  <2>3. \A j, k \in 1 .. 1 : ~(j < k)
    OBVIOUS
  <2>4. 1 \in 1 .. 1
    OBVIOUS
  <2> QED  BY <1>1, <2>1, <2>2, <2>3, <2>4 DEF CallsOK, Holds
<1>7. TreeInv
  BY <1>1, <1>3, <1>4, <1>5, <1>6 DEF TreeInv
<1>8. BuildInv /\ LimitsAreExact /\ QueryInv
  BY DEF Init, BuildInv, LimitsAreExact, QueryInv
<1>9. QueryTypeOK
  <2>1. <<>> \in Seq(Indices)
    BY EmptySeq
  <2>2. NoWindow \in [x : {r \in Int \X Int : r[1] <= r[2]}, y : {r \in Int \X Int : r[1] <= r[2]}]
    BY DEF NoWindow
  <2> QED  BY <1>1, <1>2, <2>1, <2>2 DEF Init, QueryTypeOK, Phases
<1> QED  BY <1>7, <1>8, <1>9 DEF IInv

-----------------------------------------------------------------------------
(* The steps of the constructor. *)

LEMMA Constructs ==
  ASSUME IInv, BuildLeaf \/ BuildInner \/ Ok, TreeInv',
         phase' \in {"build", "threw", "ready"},
         phase' = "threw" => ~Distinct, phase' = "ready" => todo' = <<>>,
         points' = points, DOMAIN y_ordered \subseteq DOMAIN y_ordered'
  PROVE  IInv'
<1>1. phase = "build" /\ UNCHANGED queryRest
  BY DEF BuildLeaf, BuildInner, Ok
<1>2. /\ window' = window /\ split' = split /\ node' = node /\ limits' = limits /\ found' = found
  BY <1>1 DEF queryRest
<1>3. BuildInv'
  <2>1. Distinct' <=> Distinct
    BY DEF Distinct, Indices
  <2> QED  BY <2>1 DEF BuildInv
<1>4. QueryTypeOK'
  BY <1>1, <1>2 DEF IInv, QueryTypeOK, Phases, Indices
<1>5. LimitsAreExact' /\ QueryInv'
  BY DEF LimitsAreExact, QueryInv
<1> QED  BY <1>3, <1>4, <1>5 DEF IInv

LEMMA BuildLeafKeeps ==
  ASSUME IInv, BuildLeaf
  PROVE  IInv'
<1>1. TreeInv'
  BY LeafStep DEF IInv
<1>2. phase' = "build" /\ points' = points /\ y_ordered' = y_ordered
  BY DEF BuildLeaf
<1> QED  BY <1>1, <1>2, Constructs

LEMMA BuildInnerKeeps ==
  ASSUME IInv, BuildInner
  PROVE  IInv'
<1>1. PICK n : n = Head(todo)
  OBVIOUS
<1>2. PICK l : l = YPart(n, TRUE)
  OBVIOUS
<1>3. PICK r : r = YPart(n, FALSE)
  OBVIOUS
<1>4. PICK ptrs : ptrs = [left \in BOOLEAN |-> Pointers(y_ordered[n], IF left THEN l ELSE r)]
  OBVIOUS
<1>5. /\ phase = "build" /\ todo # <<>> /\ ~IsLeaf(n)
      /\ points' = points /\ x_ordered' = x_ordered
  BY <1>1 DEF BuildInner
<1>6. TreeInv /\ n \in DOMAIN y_ordered
  BY <1>1, <1>5, HeadIsBuilt DEF IInv
<1>7. /\ ptrs[TRUE] = Pointers(y_ordered[n], YPart(n, TRUE))
      /\ ptrs[FALSE] = Pointers(y_ordered[n], YPart(n, FALSE))
  BY <1>2, <1>3, <1>4
<1>8. IF SplitPasses(n)
      THEN Grows(n, l, r, ptrs) /\ phase' = phase
      ELSE /\ phase' = "threw"
           /\ y_ordered' = y_ordered /\ cascade' = cascade /\ todo' = todo
  <2>1. SplitPasses(n) <=>
          /\ PointsAtLeast(y_ordered[n], l, ptrs[TRUE])
          /\ PointsAtLeast(y_ordered[n], r, ptrs[FALSE])
          /\ check_subset(Left(n), l)
          /\ check_subset(Right(n), r)
          /\ Size(Right(n)) - Size(Left(n)) \in -1 .. 1
    BY <1>2, <1>3, <1>7, Zenon DEF SplitPasses
  <2> QED  BY <1>1, <1>2, <1>3, <1>4, <2>1, Zenon DEF BuildInner, Grows
<1>9. CASE SplitPasses(n)
  <2>1. /\ Piece(Left(n), l) /\ Piece(Right(n), r)
        /\ Exact(y_ordered[n], l, ptrs[TRUE]) /\ Exact(y_ordered[n], r, ptrs[FALSE])
        /\ \A k \in Interval(Left(n)) : XLess(x_ordered[k], node_x(n))
    BY <1>2, <1>3, <1>5, <1>6, <1>7, <1>9, PassedFill
  <2>2. TreeInv'
    BY <1>1, <1>5, <1>6, <1>8, <1>9, <2>1, TreeGrows, Zenon
  <2>3. phase' = "build" /\ DOMAIN y_ordered \subseteq DOMAIN y_ordered'
    BY <1>5, <1>8, <1>9 DEF Grows
  <2> QED  BY <1>5, <2>2, <2>3, Constructs
<1>10. CASE ~SplitPasses(n)
  <2>1. ~Distinct
    BY <1>5, <1>6, <1>10, DistinctPass
  <2>2. phase' = "threw" /\ UNCHANGED tree
    BY <1>5, <1>8, <1>10 DEF tree
  <2>3. TreeInv'
    BY <1>6, <2>2, TreeStays
  <2> QED  BY <1>5, <1>8, <1>10, <2>1, <2>2, <2>3, Constructs
<1> QED  BY <1>9, <1>10

(* ok() finds nothing: the root's orders are sorted as the others are, and the
   pointers were exact when they were made.                                 *)
LEMMA OkKeeps ==
  ASSUME IInv, Ok
  PROVE  IInv' /\ phase' = "ready"
<1>1. TreeInv /\ todo = <<>> /\ UNCHANGED tree
  BY DEF IInv, Ok
<1>2. points' = points /\ y_ordered' = y_ordered /\ todo' = todo
  BY <1>1 DEF tree
<1>3. check_subset(Root, y_ordered[Root])
  <2>1. Root \in DOMAIN y_ordered /\ Root \in Nodes /\ Piece(Root, y_ordered[Root])
    BY <1>1 DEF TreeInv
  <2> QED  BY <1>1, <2>1, CheckedByLength DEF Piece
<1>4. ASSUME NEW n \in DOMAIN cascade, NEW left \in BOOLEAN
      PROVE  PointsAtLeast(y_ordered[n], y_ordered[Child(n, left)], cascade[n][left])
  <2> DEFINE s == y_ordered[n]
             c == y_ordered[Child(n, left)]
  <2>1. s \in Seq(Indices) /\ c \in Seq(Indices) /\ Exact(s, c, cascade[n][left])
    BY <1>1, ChildHasLess
  <2> HIDE DEF s, c
  <2>2. Len(s) \in Nat /\ Len(c) \in Nat
    BY <2>1, LenProperties
  <2>3. PointsAtLeast(s, c, cascade[n][left])
    BY <2>1, <2>2, ExactArePassed
  <2> QED  BY <2>3 DEF s, c
<1>5. phase' = "ready"
  BY <1>3, <1>4, Zenon DEF Ok
<1>6. TreeInv'
  BY <1>1, TreeStays
<1>7. IInv'
  BY <1>1, <1>2, <1>5, <1>6, Constructs
<1> QED  BY <1>5, <1>7

-----------------------------------------------------------------------------
(* What a query relies on. *)

Static == TreeInv /\ QueryTypeOK /\ todo = <<>>

LEMMA XAscends ==
  ASSUME TreeInv
  PROVE  /\ \A k \in Indices : x_ordered[k] \in Indices /\ X(x_ordered[k]) \in Int
         /\ \A j, k \in Indices : j <= k => X(x_ordered[j]) <= X(x_ordered[k])
<1>1. Len(points) \in Nat /\ \A i \in Indices : X(i) \in Int /\ Y(i) \in Int
  BY Coordinates DEF TreeInv, Typed
<1>2. \A k \in Indices : k \in Int
  BY DEF Indices
<1>3. \A k \in Indices : x_ordered[k] \in Indices /\ X(x_ordered[k]) \in Int
  BY <1>1 DEF TreeInv, XOrderOK
<1>4. ASSUME NEW j \in Indices, NEW k \in Indices, j <= k PROVE X(x_ordered[j]) <= X(x_ordered[k])
  <2>1. CASE j = k
    BY <1>3, <2>1
  <2>2. CASE j < k
    <3>1. ~XLess(x_ordered[k], x_ordered[j])
      BY <2>2 DEF TreeInv, XOrderOK
    <3> QED  BY <1>3, <3>1 DEF XLess
  <2> QED  BY <1>2, <1>4, <2>1, <2>2
<1> QED  BY <1>3, <1>4

LEMMA InnerIsHalved ==
  ASSUME Static, NEW n \in DOMAIN y_ordered, ~IsLeaf(n)
  PROVE  /\ n \in DOMAIN cascade
         /\ \A left \in BOOLEAN : Child(n, left) \in DOMAIN y_ordered
<1>1. Len(todo) = 0 /\ \A k : k \in 1 .. 0 => FALSE
  BY EmptySeq DEF Static
<1>2. ~Holds(todo, n)
  BY <1>1 DEF Holds
<1>3. n \in DOMAIN cascade
  BY <1>2 DEF Static, TreeInv, CallsOK
<1>4. Halved(n)
  BY <1>3 DEF Static, TreeInv
<1> QED  BY <1>3, <1>4 DEF Halved, Child

LEMMA WindowTyped ==
  ASSUME QueryTypeOK
  PROVE  /\ window.x[1] \in Int /\ window.x[2] \in Int /\ window.x[1] <= window.x[2]
         /\ window.y[1] \in Int /\ window.y[2] \in Int /\ window.y[1] <= window.y[2]
BY DEF QueryTypeOK

(* Down the tree the limits stay those of the window. *)
LEMMA SublimitsAreExact ==
  ASSUME Static, NEW n \in DOMAIN y_ordered, ~IsLeaf(n), NEW left \in BOOLEAN
  PROVE  sublimits(n, YLimits(n), left) = YLimits(Child(n, left))
<1>1. n \in DOMAIN cascade /\ TreeInv
  BY InnerIsHalved DEF Static
<1>2. window.y[1] \in Int /\ window.y[2] \in Int
  BY WindowTyped DEF Static
<1>3. ASSUME NEW b \in Int
      PROVE  Sublimit(n, LowerBound(y_ordered[n], b), left) = LowerBound(y_ordered[Child(n, left)], b)
  BY <1>1, SublimitIsBound
<1> QED  BY <1>2, <1>3 DEF sublimits, YLimits

LEMMA YLimitsTyped ==
  ASSUME Static, NEW n \in DOMAIN y_ordered
  PROVE  YLimits(n) \in (0 .. Len(points)) \X (0 .. Len(points))
<1>1. /\ n \in Nodes /\ y_ordered[n] \in Seq(Indices) /\ YAscends(y_ordered[n])
      /\ Len(y_ordered[n]) = Size(n) /\ Typed
  BY DEF Static, TreeInv, Piece, Typed
<1>2. window.y[1] \in Int /\ window.y[2] \in Int
  BY WindowTyped DEF Static
<1>3. \A b \in Int : LowerBound(y_ordered[n], b) \in 0 .. Size(n)
  BY <1>1, LowerBoundIsBound DEF IsBound
<1>4. 0 .. Size(n) \subseteq 0 .. Len(points)
  <2>1. n[1] \in Nat /\ n[2] \in Nat /\ n[1] <= n[2] /\ n[2] <= Len(points) /\ Len(points) \in Nat
    BY <1>1, Coordinates DEF Nodes
  <2> QED  BY <2>1 DEF Size
<1> QED  BY <1>2, <1>3, <1>4 DEF YLimits

(* What is extracted between the limits is what the window has of the node. *)
LEMMA ExtractAnswers ==
  ASSUME Static, NEW n \in DOMAIN y_ordered
  PROVE  Answers(extract_indices(n, YLimits(n)), Interval(n))
<1> DEFINE s == y_ordered[n]
           lo == LowerBound(s, window.y[1])
           hi == LowerBound(s, window.y[2])
           e == SubSeq(s, lo + 1, hi)
<1>1. /\ s \in Seq(Indices) /\ YAscends(s) /\ Once(s) /\ Typed
      /\ \A i \in Indices : Holds(s, i) <=> \E k \in Interval(n) : x_ordered[k] = i
  BY DEF Static, TreeInv, Piece, Typed
<1>2. /\ window.y[1] \in Int /\ window.y[2] \in Int /\ window.y[1] <= window.y[2]
  BY WindowTyped DEF Static
<1>3. IsBound(lo, s, window.y[1]) /\ IsBound(hi, s, window.y[2])
  BY <1>1, <1>2, LowerBoundIsBound
<1>4. extract_indices(n, YLimits(n)) = e
  BY DEF extract_indices, YLimits
<1>5. /\ Len(s) \in Nat
      /\ \A k \in 1 .. Len(s) : s[k] \in Indices /\ Y(s[k]) \in Int
  BY <1>1, Coordinates, LenProperties, ElementOfSeq
<1> DEFINE N == Len(s)
<1> HIDE DEF lo, hi, s, N
<1>6. lo \in Nat /\ hi \in Nat /\ lo <= N /\ hi <= N /\ N \in Nat
  BY <1>3, <1>5 DEF IsBound, N
<1>7. \A k \in 1 .. N : (Y(s[k]) < window.y[1] <=> k <= lo) /\ (Y(s[k]) < window.y[2] <=> k <= hi)
  BY <1>3 DEF IsBound, N
<1>8. \A k \in 1 .. N : InY(s[k]) <=> lo < k /\ k <= hi
  BY <1>2, <1>5, <1>6, <1>7 DEF InY, N
<1>9. lo + 1 \in Int /\ hi \in Int /\ \A i \in lo + 1 .. hi : i \in 1 .. N /\ s[i] \in Indices
  BY <1>5, <1>6 DEF N
<1>10. /\ e \in Seq(Indices)
       /\ Len(e) = IF lo + 1 <= hi THEN hi - (lo + 1) + 1 ELSE 0
       /\ \A i \in 1 .. hi - (lo + 1) + 1 : e[i] = s[(lo + 1) + i - 1]
  BY <1>9, SubSeqProperties
<1> HIDE DEF e
<1> DEFINE M == Len(e)
<1> HIDE DEF M
<1>11. /\ \A i \in 1 .. M : e[i] = s[lo + i] /\ lo + i \in 1 .. N /\ lo < lo + i /\ lo + i <= hi
       /\ \A k \in 1 .. N : lo < k /\ k <= hi => k - lo \in 1 .. M /\ lo + (k - lo) = k
  <2>1. M = IF lo + 1 <= hi THEN hi - lo ELSE 0
    BY <1>6, <1>10 DEF M
  <2>2. \A i \in 1 .. M : /\ i \in 1 .. hi - (lo + 1) + 1 /\ (lo + 1) + i - 1 = lo + i
                          /\ lo + i \in 1 .. N /\ lo < lo + i /\ lo + i <= hi
    BY <1>6, <2>1
  <2>3. \A k \in 1 .. N : lo < k /\ k <= hi => k - lo \in 1 .. M /\ lo + (k - lo) = k
    BY <1>6, <2>1
  <2> QED  BY <1>10, <2>2, <2>3
<1>12. Once(e)
  <2> SUFFICES ASSUME NEW j \in 1 .. M, NEW k \in 1 .. M, e[j] = e[k] PROVE j = k
    BY DEF Once, M
  <2>1. s[lo + j] = s[lo + k] /\ lo + j \in 1 .. N /\ lo + k \in 1 .. N
    BY <1>11
  <2>2. lo + j = lo + k
    BY <1>1, <2>1 DEF Once, N
  <2>3. j \in Int /\ k \in Int
    BY DEF M
  <2> QED  BY <1>6, <2>2, <2>3
<1>13. ASSUME NEW i \in Indices PROVE Holds(e, i) <=> Holds(s, i) /\ InY(i)
  <2>1. ASSUME Holds(e, i) PROVE Holds(s, i) /\ InY(i)
    <3>1. PICK k \in 1 .. M : e[k] = i
      BY <2>1 DEF Holds, M
    <3>2. s[lo + k] = i /\ lo + k \in 1 .. N /\ lo < lo + k /\ lo + k <= hi
      BY <1>11, <3>1
    <3>3. InY(s[lo + k])
      BY <1>8, <3>2
    <3> QED  BY <3>2, <3>3 DEF Holds, N
  <2>2. ASSUME Holds(s, i), InY(i) PROVE Holds(e, i)
    <3>1. PICK k \in 1 .. N : s[k] = i
      BY <2>2 DEF Holds, N
    <3>2. lo < k /\ k <= hi
      BY <1>8, <2>2, <3>1
    <3>3. k - lo \in 1 .. M /\ e[k - lo] = s[k]
      BY <1>11, <3>2
    <3> QED  BY <3>1, <3>3 DEF Holds, M
  <2> QED  BY <2>1, <2>2
<1>14. Answers(e, Interval(n))
  BY <1>1, <1>10, <1>12, <1>13 DEF Answers
<1> QED  BY <1>4, <1>14

(* Parts of the answer at different positions can be put together. *)
LEMMA AnswersJoin ==
  ASSUME TreeInv, NEW J, NEW K, J \subseteq Indices, K \subseteq Indices,
         \A k \in J : k \notin K,
         NEW f, Answers(f, J), NEW e, Answers(e, K)
  PROVE  Answers(f \o e, J \cup K)
<1> DEFINE g == f \o e
           a == Len(f)
           b == Len(e)
<1>1. f \in Seq(Indices) /\ e \in Seq(Indices)
  BY DEF Answers
<1>2. a \in Nat /\ b \in Nat
  BY <1>1, LenProperties
<1>3. /\ g \in Seq(Indices) /\ Len(g) = a + b
      /\ \A i \in 1 .. a + b : g[i] = IF i <= a THEN f[i] ELSE e[i - a]
  BY <1>1, ConcatProperties
<1>4. /\ \A i \in 1 .. a : f[i] \in Indices /\ Holds(f, f[i])
      /\ \A i \in 1 .. b : e[i] \in Indices /\ Holds(e, e[i])
  BY <1>1, ElementOfSeq DEF Holds
<1>5. \A i \in 1 .. a, j \in 1 .. b : f[i] # e[j]
  <2> SUFFICES ASSUME NEW i \in 1 .. a, NEW j \in 1 .. b, f[i] = e[j] PROVE FALSE
    OBVIOUS
  <2>1. f[i] \in Indices /\ Holds(f, f[i]) /\ Holds(e, f[i])
    BY <1>4
  <2>2. PICK k \in J : x_ordered[k] = f[i]
    BY <2>1 DEF Answers
  <2>3. PICK m \in K : x_ordered[m] = f[i]
    BY <2>1 DEF Answers
  <2>4. k = m
    BY <2>2, <2>3 DEF TreeInv, XOrderOK
  <2> QED  BY <2>4
<1> HIDE DEF g, a, b
<1>6. \A i \in 1 .. a + b : \/ i \in 1 .. a /\ g[i] = f[i]
                            \/ i - a \in 1 .. b /\ g[i] = e[i - a]
  <2> SUFFICES ASSUME NEW i \in 1 .. a + b
               PROVE  \/ i \in 1 .. a /\ g[i] = f[i]
                      \/ i - a \in 1 .. b /\ g[i] = e[i - a]
    OBVIOUS
  <2>1. i <= a => i \in 1 .. a
    BY <1>2
  <2>2. ~(i <= a) => i - a \in 1 .. b
    BY <1>2
  <2> QED  BY <1>3, <2>1, <2>2
<1>7. /\ \A i \in 1 .. a : i \in 1 .. a + b /\ g[i] = f[i]
      /\ \A i \in 1 .. b : a + i \in 1 .. a + b /\ g[a + i] = e[i]
  <2>1. \A i \in 1 .. a : i \in 1 .. a + b /\ i <= a
    BY <1>2
  <2>2. \A i \in 1 .. b : a + i \in 1 .. a + b /\ ~(a + i <= a) /\ (a + i) - a = i
    BY <1>2
  <2> QED  BY <1>3, <2>1, <2>2
<1>8. Once(g)
  <2> SUFFICES ASSUME NEW i \in 1 .. a + b, NEW j \in 1 .. a + b, g[i] = g[j] PROVE i = j
    BY <1>3 DEF Once
  <2>1. CASE i \in 1 .. a /\ g[i] = f[i] /\ j \in 1 .. a /\ g[j] = f[j]
    <3>1. Once(f)
      BY DEF Answers
    <3> QED  BY <2>1, <3>1 DEF Once, a
  <2>2. CASE i - a \in 1 .. b /\ g[i] = e[i - a] /\ j - a \in 1 .. b /\ g[j] = e[j - a]
    <3>1. Once(e)
      BY DEF Answers
    <3>2. i - a = j - a
      BY <2>2, <3>1 DEF Once, b
    <3>3. i \in Int /\ j \in Int
      OBVIOUS
    <3> QED  BY <1>2, <3>2, <3>3
  <2> QED  BY <1>5, <1>6, <2>1, <2>2
<1>9. ASSUME NEW i \in Indices PROVE Holds(g, i) <=> Holds(f, i) \/ Holds(e, i)
  <2>1. ASSUME Holds(g, i) PROVE Holds(f, i) \/ Holds(e, i)
    <3>1. PICK k \in 1 .. a + b : g[k] = i
      BY <1>3, <2>1 DEF Holds
    <3> QED  BY <1>6, <3>1 DEF Holds, a, b
  <2>2. ASSUME Holds(f, i) PROVE Holds(g, i)
    <3>1. PICK k \in 1 .. a : f[k] = i
      BY <2>2 DEF Holds, a
    <3> QED  BY <1>3, <1>7, <3>1 DEF Holds
  <2>3. ASSUME Holds(e, i) PROVE Holds(g, i)
    <3>1. PICK k \in 1 .. b : e[k] = i
      BY <2>3 DEF Holds, b
    <3> QED  BY <1>3, <1>7, <3>1 DEF Holds
  <2> QED  BY <2>1, <2>2, <2>3
<1>10. Answers(g, J \cup K)
  BY <1>3, <1>8, <1>9 DEF Answers
<1> QED  BY <1>10 DEF g

-----------------------------------------------------------------------------
(* A step that leaves the tree and the window alone. *)

Frame == UNCHANGED tree /\ window' = window

LEMMA BelowNodeStays ==
  ASSUME Frame, NEW n, n = node', BelowNode(n)
  PROVE  BelowNode(node)'
BY DEF Frame, tree, BelowNode, InX, X, Interval, Indices

LEMMA DividedStays ==
  ASSUME Frame, NEW s, s = split', Divided(s)
  PROVE  Divided(split)'
BY DEF Frame, tree, Divided, BelowNode, InX, X, Interval, Indices, IsLeaf, Size, node_x, At, Med

LEMMA LeftAtStays ==
  ASSUME Frame, NEW s, s = split', NEW n, n = node', NEW f, f = found', LeftAt(s, n, f)
  PROVE  LeftAt(split, node, found)'
<1>1. Divided(split)'
  BY DividedStays DEF LeftAt
<1>2. Answers(f, n[2] + 1 .. Med(s))
  BY DEF LeftAt
<1>3. Answers(found, node[2] + 1 .. Med(split))'
  BY <1>2 DEF Frame, tree, Answers, Once, Holds, InY, Y, Indices, Med, Size
<1>4. (/\ Inside(node, Left(split)) /\ node[1] < node[2]
       /\ \A k \in split[1] + 1 .. node[1] : X(x_ordered[k]) < window.x[1]
       /\ \A k \in node[2] + 1 .. Med(split) : X(x_ordered[k]) >= window.x[1])'
  BY DEF Frame, tree, LeftAt, Inside, Left, Med, Size, X
<1> QED  BY <1>1, <1>3, <1>4 DEF LeftAt

LEMMA RightAtStays ==
  ASSUME Frame, NEW s, s = split', NEW n, n = node', NEW f, f = found', RightAt(s, n, f)
  PROVE  RightAt(split, node, found)'
<1>1. Divided(split)'
  BY DividedStays DEF RightAt
<1>2. Answers(f, {k \in s[1] + 1 .. n[1] : X(x_ordered[k]) >= window.x[1]})
  BY DEF RightAt
<1>3. Answers(found, {k \in split[1] + 1 .. node[1] : X(x_ordered[k]) >= window.x[1]})'
  BY <1>2 DEF Frame, tree, Answers, Once, Holds, InY, X, Y, Indices
<1>4. (/\ Inside(node, Right(split)) /\ node[1] < node[2]
       /\ \A k \in Med(split) + 1 .. node[1] : X(x_ordered[k]) < window.x[2]
       /\ \A k \in node[2] + 1 .. split[2] : X(x_ordered[k]) >= window.x[2])'
  BY DEF Frame, tree, RightAt, Inside, Right, Med, Size, X
<1> QED  BY <1>1, <1>3, <1>4 DEF RightAt

LEMMA DoneAtStays ==
  ASSUME Frame, NEW s, s = split', NEW f, f = found', DoneAt(s, f)
  PROVE  DoneAt(split, found)'
BY DEF Frame, tree, DoneAt, Once, Holds, InX, InY, X, Y, IsLeaf, Size, Indices

LEMMA YLimitsStay ==
  ASSUME Frame, NEW n, n = node'
  PROVE  YLimits(node)' = YLimits(n)
BY DEF Frame, tree, YLimits, LowerBound, Y

LEMMA QueryKeeps ==
  ASSUME IInv, Frame, phase \notin {"build", "threw"},
         phase' \in {"split", "left", "right", "done"},
         NEW s, s = split', s \in DOMAIN y_ordered,
         NEW n, n = node', n \in DOMAIN y_ordered,
         NEW f, f = found', f \in Seq(Indices),
         NEW lim, lim = limits', lim \in (0 .. Len(points)) \X (0 .. Len(points)),
         phase' = "split" => f = <<>> /\ BelowNode(n),
         phase' = "left" => LeftAt(s, n, f) /\ lim = YLimits(n),
         phase' = "right" => RightAt(s, n, f) /\ lim = YLimits(n),
         phase' = "done" => DoneAt(s, f)
  PROVE  IInv'
<1>1. UNCHANGED tree /\ window' = window
  BY DEF Frame
<1>2. /\ points' = points /\ y_ordered' = y_ordered /\ todo' = todo
  BY <1>1 DEF tree
<1>3. TreeInv'
  BY <1>1, TreeStays DEF IInv
<1>4. BuildInv'
  BY <1>2 DEF BuildInv, IInv
<1>5. QueryTypeOK'
  BY <1>1, <1>2 DEF IInv, QueryTypeOK, Phases, Indices
<1>6. LimitsAreExact'
  <2> SUFFICES ASSUME phase' \in {"left", "right"} PROVE limits' = YLimits(node)'
    BY DEF LimitsAreExact
  <2> QED  BY YLimitsStay
<1>7. QueryInv'
  BY BelowNodeStays, LeftAtStays, RightAtStays, DoneAtStays DEF QueryInv
<1> QED  BY <1>3, <1>4, <1>5, <1>6, <1>7 DEF IInv

-----------------------------------------------------------------------------
(* The steps of a query. *)

LEMMA QueryKeepsIInv ==
  ASSUME IInv, Query
  PROVE  IInv'
<1>1. /\ phase = "ready" /\ phase' = "split" /\ node' = Root /\ UNCHANGED tree
      /\ split' = split /\ limits' = limits /\ found' = found
      /\ points' = points /\ y_ordered' = y_ordered /\ todo' = todo /\ x_ordered' = x_ordered
  BY DEF Query, tree
<1>2. TreeInv'
  BY <1>1, TreeStays DEF IInv
<1>3. window' \in [x : {r \in Int \X Int : r[1] <= r[2]}, y : {r \in Int \X Int : r[1] <= r[2]}]
  <2>1. Windows \subseteq {r \in Int \X Int : r[1] <= r[2]}
    BY CoordinatesAssumption DEF Windows
  <2>2. PICK x \in Windows, y \in Windows : window' = [x |-> x, y |-> y]
    BY DEF Query
  <2> QED  BY <2>1, <2>2
<1>4. Root \in DOMAIN y_ordered /\ Len(points) \in Nat
  BY Coordinates DEF IInv, TreeInv, Typed
<1>5. QueryTypeOK'
  BY <1>1, <1>3, <1>4 DEF IInv, QueryTypeOK, Phases, Indices
<1>6. QueryInv'
  <2>1. \A k \in Indices : k \in Interval(Root)
    BY <1>4 DEF Indices, Interval, Root
  <2>2. BelowNode(node)'
    BY <1>1, <2>1 DEF BelowNode, InX, X, Indices, Interval, Root
  <2> QED  BY <1>1, <2>2 DEF QueryInv
<1>7. BuildInv' /\ LimitsAreExact'
  BY <1>1 DEF IInv, BuildInv, LimitsAreExact
<1> QED  BY <1>2, <1>5, <1>6, <1>7 DEF IInv

(* What every step of a query knows. *)
LEMMA QueryKnows ==
  ASSUME IInv, phase \notin {"build", "threw"}
  PROVE  /\ Static /\ TreeInv /\ Len(points) \in Nat
         /\ split \in DOMAIN y_ordered /\ node \in DOMAIN y_ordered
         /\ split \in Nodes /\ node \in Nodes
         /\ limits \in (0 .. Len(points)) \X (0 .. Len(points))
         /\ found \in Seq(Indices)
         /\ window.x[1] \in Int /\ window.x[2] \in Int /\ window.x[1] <= window.x[2]
<1>1. Static /\ TreeInv /\ QueryTypeOK
  BY DEF IInv, BuildInv, Static
<1>2. Len(points) \in Nat
  BY <1>1, Coordinates DEF TreeInv, Typed
<1>3. DOMAIN y_ordered \subseteq Nodes
  BY <1>1 DEF TreeInv
<1> QED  BY <1>1, <1>2, <1>3, WindowTyped DEF QueryTypeOK

(* The median tells where the window is not. *)
LEMMA MedianTells ==
  ASSUME TreeInv, NEW n \in Nodes, ~IsLeaf(n)
  PROVE  /\ X(node_x(n)) \in Int
         /\ \A k \in Interval(Left(n)) : k \in Indices /\ X(x_ordered[k]) <= X(node_x(n))
         /\ \A k \in Interval(Right(n)) : k \in Indices /\ X(x_ordered[k]) >= X(node_x(n))
<1>1. Len(points) \in Nat
  BY Coordinates DEF TreeInv, Typed
<1>2. /\ Med(n) + 1 \in Indices /\ Med(n) \in Nat
      /\ \A k \in Interval(Left(n)) : k \in Indices /\ k <= Med(n)
      /\ \A k \in Interval(Right(n)) : k \in Indices /\ ~(k <= Med(n))
  BY <1>1, Halves, HalvesOfInterval
<1>3. node_x(n) = x_ordered[Med(n) + 1] /\ \A k \in Indices : k \in Nat
  BY DEF node_x, At, Indices
<1>4. /\ \A k \in Interval(Left(n)) : k <= Med(n) + 1
      /\ \A k \in Interval(Right(n)) : Med(n) + 1 <= k
  BY <1>2, <1>3
<1> QED  BY <1>2, <1>3, <1>4, XAscends

LEMMA DescendKeeps ==
  ASSUME IInv, Descend
  PROVE  IInv'
<1>1. PICK n : n = node
  OBVIOUS
<1>2. PICK m : m = node'
  OBVIOUS
<1>3. /\ phase = "split" /\ phase' = "split" /\ ~IsLeaf(n) /\ ~(BelowSup(n) /\ ~BelowInf(n))
      /\ m = Child(n, ~BelowSup(n))
      /\ UNCHANGED tree /\ window' = window /\ split' = split /\ limits' = limits /\ found' = found
  BY <1>1, <1>2 DEF Descend
<1>4. /\ Static /\ TreeInv /\ Len(points) \in Nat
      /\ split \in DOMAIN y_ordered /\ n \in DOMAIN y_ordered /\ n \in Nodes
      /\ limits \in (0 .. Len(points)) \X (0 .. Len(points))
      /\ found \in Seq(Indices)
      /\ window.x[1] \in Int /\ window.x[2] \in Int /\ window.x[1] <= window.x[2]
  BY <1>1, <1>3, QueryKnows
<1>5. m \in DOMAIN y_ordered
  <2>1. (~BelowSup(n)) \in BOOLEAN
    BY DEF BelowSup
  <2> QED  BY <1>3, <1>4, <2>1, InnerIsHalved
<1>6. BelowNode(n) /\ found = <<>>
  BY <1>1, <1>3 DEF IInv, QueryInv, QueryTypeOK
<1>7. /\ X(node_x(n)) \in Int
      /\ \A k \in Interval(Left(n)) : k \in Indices /\ X(x_ordered[k]) <= X(node_x(n))
      /\ \A k \in Interval(Right(n)) : k \in Indices /\ X(x_ordered[k]) >= X(node_x(n))
      /\ \A k \in Interval(n) : k \in Interval(Left(n)) \/ k \in Interval(Right(n))
      /\ \A k \in Indices : X(x_ordered[k]) \in Int
  BY <1>3, <1>4, MedianTells, HalvesOfInterval, XAscends
<1>8. BelowNode(m)
  <2> SUFFICES ASSUME NEW k \in Indices, InX(x_ordered[k]) PROVE k \in Interval(m)
    BY DEF BelowNode
  <2>1. k \in Interval(n)
    BY <1>6 DEF BelowNode
  <2>2. CASE BelowSup(n)
    <3>1. m = Right(n) /\ X(node_x(n)) < window.x[1]
      BY <1>3, <2>2 DEF BelowInf, Child
    <3>2. k \notin Interval(Left(n))
      BY <1>4, <1>7, <3>1 DEF InX
    <3> QED  BY <1>7, <2>1, <3>1, <3>2
  <2>3. CASE ~BelowSup(n)
    <3>1. m = Left(n) /\ ~(X(node_x(n)) < window.x[2])
      BY <1>3, <2>3 DEF BelowSup, Child
    <3>2. k \notin Interval(Right(n))
      BY <1>4, <1>7, <3>1 DEF InX
    <3> QED  BY <1>7, <2>1, <3>1, <3>2
  <2> QED  BY <2>2, <2>3
<1>9. PICK s : s = split'
  OBVIOUS
<1>10. PICK f : f = found'
  OBVIOUS
<1>11. PICK lim : lim = limits'
  OBVIOUS
<1>12. /\ Frame /\ phase \notin {"build", "threw"}
       /\ s \in DOMAIN y_ordered /\ f \in Seq(Indices) /\ f = <<>>
       /\ lim \in (0 .. Len(points)) \X (0 .. Len(points))
  BY <1>3, <1>4, <1>6, <1>9, <1>10, <1>11 DEF Frame
<1> QED  BY <1>2, <1>3, <1>5, <1>8, <1>9, <1>10, <1>11, <1>12, QueryKeeps

(* The answer of a leaf. *)
LEMMA AnswerLeafKeeps ==
  ASSUME IInv, AnswerLeaf
  PROVE  IInv'
<1>1. PICK n : n = node
  OBVIOUS
<1>2. PICK lim : lim = limits'
  OBVIOUS
<1>3. PICK f : f = found'
  OBVIOUS
<1>4. /\ phase = "split" /\ phase' = "done" /\ IsLeaf(n)
      /\ split' = n /\ node' = n /\ lim = YLimits(n) /\ f = extract_indices(n, lim)
      /\ UNCHANGED tree /\ window' = window
  BY <1>1, <1>2, <1>3 DEF AnswerLeaf
<1>5. /\ Static /\ TreeInv /\ n \in DOMAIN y_ordered
  BY <1>1, <1>4, QueryKnows
<1>6. Answers(f, Interval(n)) /\ lim \in (0 .. Len(points)) \X (0 .. Len(points))
  BY <1>4, <1>5, ExtractAnswers, YLimitsTyped
<1>7. BelowNode(n)
  BY <1>1, <1>4 DEF IInv, QueryInv
<1>8. DoneAt(n, f)
  <2>1. \A i \in Indices : \E k \in Indices : x_ordered[k] = i
    BY <1>5 DEF TreeInv, XOrderOK
  <2>2. \A j, k \in Interval(n) : j = k
    <3>1. n[1] \in Int /\ n[2] \in Int /\ n[2] - n[1] <= 1
      BY <1>4, <1>5 DEF TreeInv, Nodes, IsLeaf, Size
    <3> QED  BY <3>1 DEF Interval
  <2>3. \A i, j \in Indices : Holds(f, i) /\ Holds(f, j) => i = j
    BY <1>6, <2>2 DEF Answers
  <2> QED  BY <1>4, <1>6, <1>7, <2>1, <2>3 DEF DoneAt, Answers, BelowNode
<1>9. /\ Frame /\ phase \notin {"build", "threw"} /\ f \in Seq(Indices)
  BY <1>4, <1>6 DEF Frame, Answers
<1> QED  BY <1>2, <1>3, <1>4, <1>5, <1>6, <1>8, <1>9, QueryKeeps

LEMMA StartLeftKeeps ==
  ASSUME IInv, StartLeft
  PROVE  IInv'
<1>1. PICK s : s = node
  OBVIOUS
<1>2. PICK lim : lim = limits'
  OBVIOUS
<1>3. PICK f : f = found'
  OBVIOUS
<1>4. PICK m : m = node'
  OBVIOUS
<1>5. /\ phase = "split" /\ phase' = "left" /\ ~IsLeaf(s) /\ BelowSup(s) /\ ~BelowInf(s)
      /\ split' = s /\ m = Left(s) /\ lim = sublimits(s, YLimits(s), TRUE)
      /\ f = found /\ UNCHANGED tree /\ window' = window
  BY <1>1, <1>2, <1>3, <1>4 DEF StartLeft
<1>6. /\ Static /\ TreeInv /\ s \in DOMAIN y_ordered /\ s \in Nodes /\ Len(points) \in Nat
      /\ window.x[1] \in Int /\ window.x[2] \in Int
  BY <1>1, <1>5, QueryKnows
<1>7. f = <<>> /\ BelowNode(s)
  BY <1>1, <1>5 DEF IInv, QueryInv, QueryTypeOK
<1>8. m \in DOMAIN y_ordered /\ lim = YLimits(m)
  <2>1. m = Child(s, TRUE)
    BY <1>5 DEF Child
  <2> QED  BY <1>5, <1>6, <2>1, InnerIsHalved, SublimitsAreExact
<1>9. lim \in (0 .. Len(points)) \X (0 .. Len(points))
  BY <1>6, <1>8, YLimitsTyped
<1>10. Divided(s)
  <2>1. X(node_x(s)) \in Int
    BY <1>5, <1>6, MedianTells
  <2> QED  BY <1>5, <1>6, <1>7, <2>1 DEF Divided, InX, BelowSup, BelowInf
<1>11. /\ s[1] \in Nat /\ Med(s) \in Nat /\ s[1] < Med(s)
       /\ m[1] = s[1] /\ m[2] = Med(s)
  BY <1>5, <1>6, Halves
<1>12. f \in Seq(Indices) /\ Answers(f, {})
  <2>1. <<>> \in Seq(Indices) /\ Len(<<>>) = 0 /\ \A k : k \in 1 .. 0 => FALSE
    BY EmptySeq
  <2> QED  BY <1>7, <2>1 DEF Answers, Once, Holds
<1>13. LeftAt(s, m, f)
  <2>1. s[1] + 1 .. m[1] = {} /\ m[2] + 1 .. Med(s) = {}
    BY <1>11
  <2>2. Inside(m, Left(s)) /\ m[1] < m[2]
    BY <1>5, <1>11 DEF Inside
  <2> QED  BY <1>10, <1>12, <2>1, <2>2 DEF LeftAt
<1>14. Frame /\ phase \notin {"build", "threw"}
  BY <1>5 DEF Frame
<1> QED  BY <1>2, <1>3, <1>4, <1>5, <1>6, <1>8, <1>9, <1>12, <1>13, <1>14, QueryKeeps

(* The walk on the left: what is right of the median has not less than the
   least x of the window, or what is left of it has less.                   *)
LEMMA WalkLeftKeeps ==
  ASSUME IInv, Walk, phase = "left"
  PROVE  IInv'
<1>1. PICK n : n = node
  OBVIOUS
<1>2. PICK s : s = split
  OBVIOUS
<1>3. PICK f : f = found
  OBVIOUS
<1>4. PICK m : m = node'
  OBVIOUS
<1>5. PICK lim : lim = limits'
  OBVIOUS
<1>6. PICK g : g = found'
  OBVIOUS
<1>7. /\ Static /\ TreeInv /\ s \in DOMAIN y_ordered /\ n \in DOMAIN y_ordered
      /\ s \in Nodes /\ n \in Nodes /\ Len(points) \in Nat
      /\ window.x[1] \in Int /\ f \in Seq(Indices)
  BY <1>1, <1>2, <1>3, QueryKnows
<1>8. LeftAt(s, n, f) /\ limits = YLimits(n)
  BY <1>1, <1>2, <1>3 DEF IInv, QueryInv, LimitsAreExact
<1>9. /\ ~IsLeaf(n) /\ phase' = "left" /\ split' = s /\ Frame
      /\ m = Child(n, ~BelowInf(n)) /\ lim = sublimits(n, YLimits(n), ~BelowInf(n))
      /\ ~BelowInf(n) => g = f \o extract_indices(Right(n), sublimits(n, YLimits(n), FALSE))
      /\ BelowInf(n) => g = f
  <2>1. TakesInner(n) = ~BelowInf(n) /\ ((phase = "left") = TakesInner(n)) = ~BelowInf(n)
    BY DEF TakesInner, BelowInf
  <2>2. CASE BelowInf(n)
    BY <1>1, <1>2, <1>3, <1>4, <1>5, <1>6, <1>8, <2>1, <2>2 DEF Walk, Frame
  <2>3. CASE ~BelowInf(n)
    BY <1>1, <1>2, <1>3, <1>4, <1>5, <1>6, <1>8, <2>1, <2>3 DEF Walk, Frame, Child
  <2> QED  BY <2>2, <2>3
<1>10. m \in DOMAIN y_ordered /\ lim = YLimits(m)
  <2>1. (~BelowInf(n)) \in BOOLEAN
    BY DEF BelowInf
  <2> QED  BY <1>7, <1>9, <2>1, InnerIsHalved, SublimitsAreExact
<1>11. lim \in (0 .. Len(points)) \X (0 .. Len(points))
  BY <1>7, <1>10, YLimitsTyped
<1>12. /\ n[1] \in Nat /\ Med(n) \in Nat /\ n[2] \in Nat /\ n[1] < Med(n) /\ Med(n) < n[2]
       /\ Left(n)[1] = n[1] /\ Left(n)[2] = Med(n) /\ Right(n)[1] = Med(n) /\ Right(n)[2] = n[2]
  BY <1>7, <1>9, Halves
<1>13. /\ s[1] \in Nat /\ Med(s) \in Nat /\ Med(s) <= Len(points)
       /\ Left(s)[1] = s[1] /\ Left(s)[2] = Med(s)
  <2>1. ~IsLeaf(s)
    BY <1>8 DEF LeftAt, Divided
  <2>2. /\ s[1] \in Nat /\ Med(s) \in Nat /\ s[2] \in Nat /\ Med(s) < s[2] /\ s[2] <= Len(points)
        /\ Left(s)[1] = s[1] /\ Left(s)[2] = Med(s)
    BY <1>7, <2>1, Halves
  <2> QED  BY <1>7, <2>2
<1>14. s[1] <= n[1] /\ n[2] <= Med(s)
  BY <1>8, <1>13 DEF LeftAt, Inside
<1>15. /\ X(node_x(n)) \in Int
       /\ \A k \in Interval(Left(n)) : X(x_ordered[k]) <= X(node_x(n))
       /\ \A k \in Interval(Right(n)) : k \in Indices /\ X(x_ordered[k]) >= X(node_x(n))
       /\ \A k \in Indices : X(x_ordered[k]) \in Int
  BY <1>7, <1>9, MedianTells, XAscends
<1>16. \A k \in s[1] + 1 .. Med(s) : k \in Indices
  BY <1>7, <1>13 DEF Indices
<1>17. CASE BelowInf(n)
  <2>1. m = Right(n) /\ g = f
    BY <1>9, <1>17 DEF Child
  <2>2. m[1] = Med(n) /\ m[2] = n[2]
    BY <1>12, <2>1
  <2>3. \A k \in s[1] + 1 .. Med(n) : X(x_ordered[k]) < window.x[1]
    <3> SUFFICES ASSUME NEW k \in s[1] + 1 .. Med(n) PROVE X(x_ordered[k]) < window.x[1]
      OBVIOUS
    <3>1. k \in s[1] + 1 .. n[1] \/ k \in n[1] + 1 .. Med(n)
      BY <1>12, <1>13, <1>14
    <3>2. CASE k \in s[1] + 1 .. n[1]
      BY <1>8, <3>2 DEF LeftAt
    <3>3. CASE k \in n[1] + 1 .. Med(n)
      <4>1. k \in Interval(Left(n)) /\ k \in s[1] + 1 .. Med(s)
        BY <1>12, <1>13, <1>14, <3>3 DEF Interval
      <4>2. X(x_ordered[k]) <= X(node_x(n)) /\ X(x_ordered[k]) \in Int
        BY <1>15, <1>16, <4>1
      <4> QED  BY <1>7, <1>15, <1>17, <4>2 DEF BelowInf
    <3> QED  BY <3>1, <3>2, <3>3
  <2>4. Inside(m, Left(s)) /\ m[1] < m[2]
    BY <1>12, <1>13, <1>14, <2>2 DEF Inside
  <2>5. LeftAt(s, m, g)
    BY <1>8, <2>1, <2>2, <2>3, <2>4 DEF LeftAt
  <2> QED
    BY <1>4, <1>5, <1>6, <1>7, <1>9, <1>10, <1>11, <2>1, <2>5, QueryKeeps
<1>18. CASE ~BelowInf(n)
  <2> DEFINE e == extract_indices(Right(n), YLimits(Right(n)))
             J == n[2] + 1 .. Med(s)
             K == Interval(Right(n))
  <2>1. m = Left(n) /\ g = f \o e
    <3>1. sublimits(n, YLimits(n), FALSE) = YLimits(Right(n))
      BY <1>7, <1>9, SublimitsAreExact DEF Child
    <3> QED  BY <1>9, <1>18, <3>1 DEF Child
  <2>2. m[1] = n[1] /\ m[2] = Med(n)
    BY <1>12, <2>1
  <2>3. Answers(e, K)
    <3>1. Right(n) \in DOMAIN y_ordered
      BY <1>7, <1>9, InnerIsHalved DEF Child
    <3> QED  BY <1>7, <3>1, ExtractAnswers
  <2>4. Answers(f, J)
    BY <1>8 DEF LeftAt
  <2>5. J \subseteq Indices /\ K \subseteq Indices /\ J \cup K = Med(n) + 1 .. Med(s)
        /\ \A k \in J : k \notin K
    <3>1. K = Med(n) + 1 .. n[2]
      BY <1>12 DEF Interval
    <3>2. J \cup K = Med(n) + 1 .. Med(s) /\ \A k \in J : k \notin K
      BY <1>12, <1>13, <1>14, <3>1
    <3>3. J \subseteq s[1] + 1 .. Med(s)
      BY <1>12, <1>13, <1>14
    <3> QED  BY <1>15, <1>16, <3>2, <3>3
  <2> HIDE DEF e, J, K
  <2>6. Answers(f \o e, J \cup K)
    BY <1>7, <2>3, <2>4, <2>5, AnswersJoin
  <2>7. Answers(g, m[2] + 1 .. Med(s)) /\ g \in Seq(Indices)
    BY <2>1, <2>2, <2>5, <2>6 DEF Answers
  <2>8. \A k \in Med(n) + 1 .. Med(s) : X(x_ordered[k]) >= window.x[1]
    <3> SUFFICES ASSUME NEW k \in Med(n) + 1 .. Med(s) PROVE X(x_ordered[k]) >= window.x[1]
      OBVIOUS
    <3>1. CASE k \in J
      BY <1>8, <3>1 DEF LeftAt, J
    <3>2. CASE k \in K
      <4>1. X(x_ordered[k]) >= X(node_x(n)) /\ X(x_ordered[k]) \in Int
        BY <1>15, <3>2 DEF K
      <4> QED  BY <1>7, <1>15, <1>18, <4>1 DEF BelowInf
    <3> QED  BY <2>5, <3>1, <3>2
  <2>9. Inside(m, Left(s)) /\ m[1] < m[2]
    BY <1>12, <1>13, <1>14, <2>2 DEF Inside
  <2>10. LeftAt(s, m, g)
    BY <1>8, <2>2, <2>7, <2>8, <2>9 DEF LeftAt
  <2> QED
    BY <1>4, <1>5, <1>6, <1>7, <1>9, <1>10, <1>11, <2>7, <2>10, QueryKeeps
<1> QED  BY <1>17, <1>18

(* The walk on the right, likewise, up to the bound of the window. *)
LEMMA WalkRightKeeps ==
  ASSUME IInv, Walk, phase = "right"
  PROVE  IInv'
<1>1. PICK n : n = node
  OBVIOUS
<1>2. PICK s : s = split
  OBVIOUS
<1>3. PICK f : f = found
  OBVIOUS
<1>4. PICK m : m = node'
  OBVIOUS
<1>5. PICK lim : lim = limits'
  OBVIOUS
<1>6. PICK g : g = found'
  OBVIOUS
<1>7. /\ Static /\ TreeInv /\ s \in DOMAIN y_ordered /\ n \in DOMAIN y_ordered
      /\ s \in Nodes /\ n \in Nodes /\ Len(points) \in Nat
      /\ window.x[1] \in Int /\ window.x[2] \in Int /\ f \in Seq(Indices)
  BY <1>1, <1>2, <1>3, QueryKnows
<1>8. RightAt(s, n, f) /\ limits = YLimits(n)
  BY <1>1, <1>2, <1>3 DEF IInv, QueryInv, LimitsAreExact
<1>9. /\ ~IsLeaf(n) /\ phase' = "right" /\ split' = s /\ Frame
      /\ m = Child(n, ~BelowSup(n)) /\ lim = sublimits(n, YLimits(n), ~BelowSup(n))
      /\ BelowSup(n) => g = f \o extract_indices(Left(n), sublimits(n, YLimits(n), TRUE))
      /\ ~BelowSup(n) => g = f
  <2>1. TakesInner(n) = BelowSup(n) /\ ((phase = "left") = TakesInner(n)) = ~BelowSup(n)
    BY DEF TakesInner, BelowSup
  <2>2. CASE BelowSup(n)
    BY <1>1, <1>2, <1>3, <1>4, <1>5, <1>6, <1>8, <2>1, <2>2 DEF Walk, Frame, Child
  <2>3. CASE ~BelowSup(n)
    BY <1>1, <1>2, <1>3, <1>4, <1>5, <1>6, <1>8, <2>1, <2>3 DEF Walk, Frame
  <2> QED  BY <2>2, <2>3
<1>10. m \in DOMAIN y_ordered /\ lim = YLimits(m)
  <2>1. (~BelowSup(n)) \in BOOLEAN
    BY DEF BelowSup
  <2> QED  BY <1>7, <1>9, <2>1, InnerIsHalved, SublimitsAreExact
<1>11. lim \in (0 .. Len(points)) \X (0 .. Len(points))
  BY <1>7, <1>10, YLimitsTyped
<1>12. /\ n[1] \in Nat /\ Med(n) \in Nat /\ n[2] \in Nat /\ n[1] < Med(n) /\ Med(n) < n[2]
       /\ Left(n)[1] = n[1] /\ Left(n)[2] = Med(n) /\ Right(n)[1] = Med(n) /\ Right(n)[2] = n[2]
  BY <1>7, <1>9, Halves
<1>13. ~IsLeaf(s) /\ InX(node_x(s))
  BY <1>8 DEF RightAt, Divided
<1>14. /\ s[1] \in Nat /\ Med(s) \in Nat /\ s[2] \in Nat /\ s[1] < Med(s) /\ s[2] <= Len(points)
       /\ Right(s)[1] = Med(s) /\ Right(s)[2] = s[2]
  BY <1>7, <1>13, Halves
<1>15. Med(s) <= n[1] /\ n[2] <= s[2]
  BY <1>8, <1>14 DEF RightAt, Inside
<1>16. /\ X(node_x(n)) \in Int
       /\ \A k \in Interval(Left(n)) : k \in Indices /\ X(x_ordered[k]) <= X(node_x(n))
       /\ \A k \in Interval(Right(n)) : k \in Indices /\ X(x_ordered[k]) >= X(node_x(n))
       /\ \A k \in Indices : X(x_ordered[k]) \in Int
       /\ \A k \in Interval(Right(s)) : k \in Indices /\ X(x_ordered[k]) >= X(node_x(s))
       /\ X(node_x(s)) \in Int
  BY <1>7, <1>9, <1>13, MedianTells, XAscends
<1>17. \A k \in s[1] + 1 .. s[2] : k \in Indices
  BY <1>7, <1>14 DEF Indices
<1>18. CASE BelowSup(n)
  <2> DEFINE e == extract_indices(Left(n), YLimits(Left(n)))
             J == {k \in s[1] + 1 .. n[1] : X(x_ordered[k]) >= window.x[1]}
             K == Interval(Left(n))
  <2>1. m = Right(n) /\ g = f \o e
    <3>1. sublimits(n, YLimits(n), TRUE) = YLimits(Left(n))
      BY <1>7, <1>9, SublimitsAreExact DEF Child
    <3> QED  BY <1>9, <1>18, <3>1 DEF Child
  <2>2. m[1] = Med(n) /\ m[2] = n[2]
    BY <1>12, <2>1
  <2>3. Answers(e, K)
    <3>1. Left(n) \in DOMAIN y_ordered
      BY <1>7, <1>9, InnerIsHalved DEF Child
    <3> QED  BY <1>7, <3>1, ExtractAnswers
  <2>4. Answers(f, J)
    BY <1>8 DEF RightAt
  <2>5. K = n[1] + 1 .. Med(n)
    BY <1>12 DEF Interval
  <2>6. \A k \in K : X(x_ordered[k]) >= window.x[1] /\ X(x_ordered[k]) < window.x[2]
    <3> SUFFICES ASSUME NEW k \in K
                 PROVE  X(x_ordered[k]) >= window.x[1] /\ X(x_ordered[k]) < window.x[2]
      OBVIOUS
    <3>1. k \in Interval(Right(s))
      BY <1>12, <1>14, <1>15, <2>5 DEF Interval
    <3>2. /\ X(x_ordered[k]) <= X(node_x(n)) /\ X(x_ordered[k]) \in Int
          /\ X(x_ordered[k]) >= X(node_x(s))
      BY <1>16, <3>1
    <3> QED  BY <1>7, <1>13, <1>16, <1>18, <3>2 DEF BelowSup, InX
  <2>7. J \subseteq Indices /\ K \subseteq Indices /\ \A k \in J : k \notin K
    <3>1. \A k \in J : k \in s[1] + 1 .. s[2]
      BY <1>12, <1>14, <1>15
    <3>2. \A k \in J : k \notin K
      BY <1>12, <2>5
    <3> QED  BY <1>16, <1>17, <3>1, <3>2
  <2>8. J \cup K = {k \in s[1] + 1 .. Med(n) : X(x_ordered[k]) >= window.x[1]}
    <3>1. \A k : k \in s[1] + 1 .. Med(n) <=> k \in s[1] + 1 .. n[1] \/ k \in K
      BY <1>12, <1>14, <1>15, <2>5
    <3> HIDE DEF K
    <3> QED  BY <2>6, <3>1
  <2> HIDE DEF e, J
  <2>9. Answers(f \o e, J \cup K)
    BY <1>7, <2>3, <2>4, <2>7, AnswersJoin
  <2>10. Answers(g, {k \in s[1] + 1 .. m[1] : X(x_ordered[k]) >= window.x[1]})
    BY <2>1, <2>2, <2>8, <2>9
  <2>11. g \in Seq(Indices)
    BY <2>10 DEF Answers
  <2>12. \A k \in Med(s) + 1 .. Med(n) : X(x_ordered[k]) < window.x[2]
    <3> SUFFICES ASSUME NEW k \in Med(s) + 1 .. Med(n) PROVE X(x_ordered[k]) < window.x[2]
      OBVIOUS
    <3>1. k \in Med(s) + 1 .. n[1] \/ k \in K
      BY <1>12, <1>14, <1>15, <2>5
    <3> QED  BY <1>8, <2>6, <3>1 DEF RightAt
  <2>13. Inside(m, Right(s)) /\ m[1] < m[2]
    BY <1>12, <1>14, <1>15, <2>2 DEF Inside
  <2>14. RightAt(s, m, g)
    BY <1>8, <2>2, <2>10, <2>12, <2>13 DEF RightAt
  <2> QED
    BY <1>4, <1>5, <1>6, <1>7, <1>9, <1>10, <1>11, <2>11, <2>14, QueryKeeps
<1>19. CASE ~BelowSup(n)
  <2>1. m = Left(n) /\ g = f
    BY <1>9, <1>19 DEF Child
  <2>2. m[1] = n[1] /\ m[2] = Med(n)
    BY <1>12, <2>1
  <2>3. \A k \in Med(n) + 1 .. s[2] : X(x_ordered[k]) >= window.x[2]
    <3> SUFFICES ASSUME NEW k \in Med(n) + 1 .. s[2] PROVE X(x_ordered[k]) >= window.x[2]
      OBVIOUS
    <3>1. k \in n[2] + 1 .. s[2] \/ k \in Med(n) + 1 .. n[2]
      BY <1>12, <1>14, <1>15
    <3>2. CASE k \in n[2] + 1 .. s[2]
      BY <1>8, <3>2 DEF RightAt
    <3>3. CASE k \in Med(n) + 1 .. n[2]
      <4>1. k \in Interval(Right(n))
        BY <1>12, <3>3 DEF Interval
      <4>2. X(x_ordered[k]) >= X(node_x(n)) /\ X(x_ordered[k]) \in Int
        BY <1>16, <4>1
      <4> QED  BY <1>7, <1>16, <1>19, <4>2 DEF BelowSup
    <3> QED  BY <3>1, <3>2, <3>3
  <2>4. Inside(m, Right(s)) /\ m[1] < m[2]
    BY <1>12, <1>14, <1>15, <2>2 DEF Inside
  <2>5. RightAt(s, m, g)
    BY <1>8, <2>1, <2>2, <2>3, <2>4 DEF RightAt
  <2> QED
    BY <1>4, <1>5, <1>6, <1>7, <1>9, <1>10, <1>11, <2>1, <2>5, QueryKeeps
<1> QED  BY <1>18, <1>19

(* The leaf where a walk ends is its own median. *)
LEMMA LeafIsPoint ==
  ASSUME TreeInv, Len(points) \in Nat, NEW n \in Nodes, IsLeaf(n), n[1] < n[2]
  PROVE  /\ n[1] \in Nat /\ n[2] = n[1] + 1 /\ n[2] <= Len(points)
         /\ Interval(n) = {n[2]} /\ node_x(n) = x_ordered[n[2]]
         /\ n[2] \in Indices /\ X(x_ordered[n[2]]) \in Int
<1>1. n[1] \in Nat /\ n[2] \in Nat /\ n[2] <= Len(points)
  BY DEF Nodes
<1>2. n[2] = n[1] + 1
  BY <1>1 DEF IsLeaf, Size
<1>3. Med(n) = n[1]
  BY <1>1, <1>2 DEF Med, Size
<1>4. Interval(n) = {n[2]}
  BY <1>1, <1>2 DEF Interval
<1>5. node_x(n) = x_ordered[n[2]]
  BY <1>2, <1>3 DEF node_x, At
<1>6. n[2] \in Indices
  BY <1>1, <1>2 DEF Indices
<1> QED  BY <1>1, <1>2, <1>4, <1>5, <1>6, XAscends

LEMMA EndLeftKeeps ==
  ASSUME IInv, EndLeft
  PROVE  IInv'
<1>1. PICK n : n = node
  OBVIOUS
<1>2. PICK s : s = split
  OBVIOUS
<1>3. PICK f : f = found
  OBVIOUS
<1>4. PICK m : m = node'
  OBVIOUS
<1>5. PICK lim : lim = limits'
  OBVIOUS
<1>6. PICK g : g = found'
  OBVIOUS
<1>7. /\ phase = "left" /\ phase' = "right" /\ IsLeaf(n) /\ split' = s /\ Frame
      /\ m = Right(s) /\ lim = sublimits(s, YLimits(s), FALSE)
      /\ BelowInf(n) => g = f
      /\ ~BelowInf(n) => g = f \o extract_indices(n, limits)
  BY <1>1, <1>2, <1>3, <1>4, <1>5, <1>6 DEF EndLeft, AtLeaf, TakesInner, Frame
<1>8. /\ Static /\ TreeInv /\ s \in DOMAIN y_ordered /\ n \in DOMAIN y_ordered
      /\ s \in Nodes /\ n \in Nodes /\ Len(points) \in Nat
      /\ window.x[1] \in Int /\ f \in Seq(Indices)
  BY <1>1, <1>2, <1>3, <1>7, QueryKnows
<1>9. LeftAt(s, n, f) /\ limits = YLimits(n)
  BY <1>1, <1>2, <1>3, <1>7 DEF IInv, QueryInv, LimitsAreExact
<1>10. Divided(s) /\ ~IsLeaf(s) /\ n[1] < n[2]
  BY <1>9 DEF LeftAt, Divided
<1>11. /\ n[1] \in Nat /\ n[2] = n[1] + 1
       /\ Interval(n) = {n[2]} /\ node_x(n) = x_ordered[n[2]]
       /\ n[2] \in Indices /\ X(x_ordered[n[2]]) \in Int
  BY <1>7, <1>8, <1>10, LeafIsPoint
<1>12. /\ s[1] \in Nat /\ Med(s) \in Nat /\ s[2] \in Nat /\ Med(s) < s[2] /\ s[2] <= Len(points)
       /\ Left(s)[1] = s[1] /\ Left(s)[2] = Med(s)
       /\ Right(s)[1] = Med(s) /\ Right(s)[2] = s[2]
  BY <1>8, <1>10, Halves
<1>13. s[1] <= n[1] /\ n[2] <= Med(s)
  BY <1>9, <1>12 DEF LeftAt, Inside
<1>14. m \in DOMAIN y_ordered /\ lim = YLimits(m)
  <2>1. m = Child(s, FALSE)
    BY <1>7 DEF Child
  <2> QED  BY <1>7, <1>8, <1>10, <2>1, InnerIsHalved, SublimitsAreExact
<1>15. lim \in (0 .. Len(points)) \X (0 .. Len(points))
  BY <1>8, <1>14, YLimitsTyped
<1> DEFINE J == n[2] + 1 .. Med(s)
           K == {k \in s[1] + 1 .. Med(s) : X(x_ordered[k]) >= window.x[1]}
<1>16. /\ \A k \in s[1] + 1 .. n[1] : X(x_ordered[k]) < window.x[1]
       /\ \A k \in J : X(x_ordered[k]) >= window.x[1]
       /\ Answers(f, J)
  BY <1>9 DEF LeftAt
<1>17. /\ \A k : k \in s[1] + 1 .. Med(s) <=> k \in s[1] + 1 .. n[1] \/ k = n[2] \/ k \in J
       /\ n[2] \notin J
  BY <1>11, <1>12, <1>13, SMTT(30)
<1>18. \A k \in s[1] + 1 .. Med(s) : k \in Indices /\ X(x_ordered[k]) \in Int
  <2>1. \A k \in s[1] + 1 .. Med(s) : k \in Indices
    BY <1>8, <1>12 DEF Indices
  <2> QED  BY <1>8, <2>1, XAscends
<1> HIDE DEF J
<1>19. Answers(g, K)
  <2>1. CASE BelowInf(n)
    <3>1. X(x_ordered[n[2]]) < window.x[1] /\ g = f
      BY <1>7, <1>11, <2>1 DEF BelowInf
    <3>2. \A k \in s[1] + 1 .. Med(s) : X(x_ordered[k]) >= window.x[1] <=> k \in J
      <4> SUFFICES ASSUME NEW k \in s[1] + 1 .. Med(s)
                   PROVE  X(x_ordered[k]) >= window.x[1] <=> k \in J
        OBVIOUS
      <4>1. X(x_ordered[k]) < window.x[1] <=> ~(X(x_ordered[k]) >= window.x[1])
        BY <1>8, <1>18
      <4>2. CASE k \in J
        BY <1>16, <4>2
      <4>3. CASE k \notin J
        <5>1. k \in s[1] + 1 .. n[1] \/ k = n[2]
          BY <1>17, <4>3
        <5>2. X(x_ordered[k]) < window.x[1]
          BY <1>16, <3>1, <5>1
        <5> QED  BY <4>1, <4>3, <5>2
      <4> QED  BY <4>2, <4>3
    <3>3. K = J
      BY <1>17, <3>2
    <3> QED  BY <1>16, <3>1, <3>3
  <2>2. CASE ~BelowInf(n)
    <3> DEFINE e == extract_indices(n, YLimits(n))
    <3>1. X(x_ordered[n[2]]) >= window.x[1] /\ g = f \o e
      BY <1>7, <1>8, <1>9, <1>11, <2>2 DEF BelowInf
    <3>2. \A k \in s[1] + 1 .. Med(s) : X(x_ordered[k]) >= window.x[1] <=> k \in J \cup {n[2]}
      <4> SUFFICES ASSUME NEW k \in s[1] + 1 .. Med(s)
                   PROVE  X(x_ordered[k]) >= window.x[1] <=> k \in J \cup {n[2]}
        OBVIOUS
      <4>1. X(x_ordered[k]) < window.x[1] <=> ~(X(x_ordered[k]) >= window.x[1])
        BY <1>8, <1>18
      <4>2. CASE k \in J \cup {n[2]}
        BY <1>16, <3>1, <4>2
      <4>3. CASE k \notin J \cup {n[2]}
        <5>1. k \in s[1] + 1 .. n[1]
          BY <1>17, <4>3
        <5>2. X(x_ordered[k]) < window.x[1]
          BY <1>16, <5>1
        <5> QED  BY <4>1, <4>3, <5>2
      <4> QED  BY <4>2, <4>3
    <3>3. K = J \cup {n[2]}
      BY <1>17, <3>2
    <3>4. Answers(e, {n[2]})
      BY <1>8, <1>11, ExtractAnswers
    <3>5. J \subseteq Indices /\ {n[2]} \subseteq Indices /\ \A k \in J : k \notin {n[2]}
      BY <1>11, <1>17, <1>18
    <3> HIDE DEF e
    <3>6. Answers(f \o e, J \cup {n[2]})
      BY <1>8, <1>16, <3>4, <3>5, AnswersJoin
    <3> QED  BY <3>1, <3>3, <3>6
  <2> QED  BY <2>1, <2>2
<1>20. g \in Seq(Indices)
  BY <1>19 DEF Answers
<1>21. RightAt(s, m, g)
  <2>1. m[1] = Med(s) /\ m[2] = s[2]
    BY <1>7, <1>12
  <2>2. Med(s) + 1 .. m[1] = {} /\ m[2] + 1 .. s[2] = {}
    BY <1>12, <2>1
  <2>3. Inside(m, Right(s)) /\ m[1] < m[2]
    BY <1>12, <2>1 DEF Inside
  <2>4. K = {k \in s[1] + 1 .. m[1] : X(x_ordered[k]) >= window.x[1]}
    BY <2>1
  <2> QED  BY <1>10, <1>19, <2>2, <2>3, <2>4 DEF RightAt
<1>22. phase \notin {"build", "threw"}
  BY <1>7
<1> QED  BY <1>4, <1>5, <1>6, <1>7, <1>8, <1>14, <1>15, <1>20, <1>21, <1>22, QueryKeeps

LEMMA EndRightKeeps ==
  ASSUME IInv, EndRight
  PROVE  IInv'
<1>1. PICK n : n = node
  OBVIOUS
<1>2. PICK s : s = split
  OBVIOUS
<1>3. PICK f : f = found
  OBVIOUS
<1>5. PICK lim : lim = limits'
  OBVIOUS
<1>6. PICK g : g = found'
  OBVIOUS
<1>7. /\ phase = "right" /\ phase' = "done" /\ IsLeaf(n) /\ split' = s /\ node' = n /\ Frame
      /\ lim = limits
      /\ BelowSup(n) => g = f \o extract_indices(n, limits)
      /\ ~BelowSup(n) => g = f
  BY <1>1, <1>2, <1>3, <1>5, <1>6 DEF EndRight, AtLeaf, TakesInner, Frame
<1>8. /\ Static /\ TreeInv /\ s \in DOMAIN y_ordered /\ n \in DOMAIN y_ordered
      /\ s \in Nodes /\ n \in Nodes /\ Len(points) \in Nat
      /\ window.x[1] \in Int /\ window.x[2] \in Int /\ f \in Seq(Indices)
      /\ lim \in (0 .. Len(points)) \X (0 .. Len(points))
  BY <1>1, <1>2, <1>3, <1>7, QueryKnows
<1>9. RightAt(s, n, f) /\ limits = YLimits(n)
  BY <1>1, <1>2, <1>3, <1>7 DEF IInv, QueryInv, LimitsAreExact
<1>10. Divided(s) /\ ~IsLeaf(s) /\ InX(node_x(s)) /\ BelowNode(s) /\ n[1] < n[2]
  BY <1>9 DEF RightAt, Divided
<1>11. /\ n[1] \in Nat /\ n[2] = n[1] + 1
       /\ Interval(n) = {n[2]} /\ node_x(n) = x_ordered[n[2]]
       /\ n[2] \in Indices /\ X(x_ordered[n[2]]) \in Int
  BY <1>7, <1>8, <1>10, LeafIsPoint
<1>12. /\ s[1] \in Nat /\ Med(s) \in Nat /\ s[2] \in Nat /\ s[1] < Med(s) /\ s[2] <= Len(points)
       /\ Left(s)[1] = s[1] /\ Left(s)[2] = Med(s)
       /\ Right(s)[1] = Med(s) /\ Right(s)[2] = s[2]
  BY <1>8, <1>10, Halves
<1>13. Med(s) <= n[1] /\ n[2] <= s[2]
  BY <1>9, <1>12 DEF RightAt, Inside
<1> DEFINE J == {k \in s[1] + 1 .. n[1] : X(x_ordered[k]) >= window.x[1]}
           K == {k \in Indices : InX(x_ordered[k])}
<1>14. /\ \A k \in Med(s) + 1 .. n[1] : X(x_ordered[k]) < window.x[2]
       /\ \A k \in n[2] + 1 .. s[2] : X(x_ordered[k]) >= window.x[2]
       /\ Answers(f, J)
  BY <1>9 DEF RightAt
<1>15. /\ X(node_x(s)) \in Int
       /\ \A k \in Interval(Left(s)) : X(x_ordered[k]) <= X(node_x(s))
       /\ \A k \in Interval(Right(s)) : X(x_ordered[k]) >= X(node_x(s))
       /\ \A k \in Indices : X(x_ordered[k]) \in Int
  BY <1>8, <1>10, MedianTells, XAscends
<1>16. \A k \in s[1] + 1 .. s[2] : k \in Indices
  BY <1>8, <1>12 DEF Indices
<1>17. ASSUME NEW k \in s[1] + 1 .. n[1] PROVE X(x_ordered[k]) < window.x[2]
  <2>1. k \in s[1] + 1 .. Med(s) \/ k \in Med(s) + 1 .. n[1]
    BY <1>11, <1>12
  <2>2. CASE k \in s[1] + 1 .. Med(s)
    <3>1. k \in Interval(Left(s)) /\ k \in s[1] + 1 .. s[2]
      BY <1>11, <1>12, <1>13, <2>2 DEF Interval
    <3>2. X(x_ordered[k]) <= X(node_x(s)) /\ X(x_ordered[k]) \in Int
      BY <1>15, <1>16, <3>1
    <3> QED  BY <1>8, <1>10, <1>15, <3>2 DEF InX
  <2>3. CASE k \in Med(s) + 1 .. n[1]
    BY <1>14, <2>3
  <2> QED  BY <2>1, <2>2, <2>3
<1>18. X(x_ordered[n[2]]) >= window.x[1]
  <2>1. n[2] \in Interval(Right(s))
    BY <1>11, <1>12, <1>13 DEF Interval
  <2> QED  BY <1>8, <1>10, <1>11, <1>15, <2>1, SMTT(30) DEF InX
<1>19. \A k \in Indices : InX(x_ordered[k]) => k \in J \/ k = n[2]
  <2> SUFFICES ASSUME NEW k \in Indices, InX(x_ordered[k]) PROVE k \in J \/ k = n[2]
    OBVIOUS
  <2>1. k \in s[1] + 1 .. s[2]
    BY <1>10 DEF BelowNode, Interval
  <2>2. k \notin n[2] + 1 .. s[2]
    BY <1>8, <1>14, <1>15 DEF InX
  <2>3. k \in s[1] + 1 .. n[1] \/ k = n[2]
    BY <1>11, <1>12, <1>13, <2>1, <2>2
  <2> QED  BY <2>3 DEF InX
<1>20. \A k \in J : k \in Indices /\ InX(x_ordered[k])
  <2>1. \A k \in J : k \in s[1] + 1 .. s[2] /\ k \in s[1] + 1 .. n[1] /\ X(x_ordered[k]) >= window.x[1]
    BY <1>11, <1>12, <1>13
  <2> QED  BY <1>16, <1>17, <2>1 DEF InX
<1>21. n[2] \notin J
  BY <1>11
<1> HIDE DEF J
<1>22. Answers(g, K)
  <2>1. CASE BelowSup(n)
    <3> DEFINE e == extract_indices(n, YLimits(n))
    <3>1. InX(x_ordered[n[2]]) /\ g = f \o e
      BY <1>7, <1>9, <1>11, <1>18, <2>1 DEF BelowSup, InX
    <3>2. K = J \cup {n[2]}
      BY <1>11, <1>19, <1>20, <3>1
    <3>3. Answers(e, {n[2]})
      BY <1>8, <1>11, ExtractAnswers
    <3>4. J \subseteq Indices /\ {n[2]} \subseteq Indices /\ \A k \in J : k \notin {n[2]}
      BY <1>11, <1>20, <1>21
    <3> HIDE DEF e, K
    <3>5. Answers(f \o e, J \cup {n[2]})
      BY <1>8, <1>14, <3>3, <3>4, AnswersJoin
    <3> QED  BY <3>1, <3>2, <3>5
  <2>2. CASE ~BelowSup(n)
    <3>1. ~InX(x_ordered[n[2]]) /\ g = f
      BY <1>7, <1>11, <2>2 DEF BelowSup, InX
    <3>2. K = J
      BY <1>19, <1>20, <3>1
    <3> HIDE DEF K
    <3> QED  BY <1>14, <3>1, <3>2
  <2> QED  BY <2>1, <2>2
<1>23. DoneAt(s, g) /\ g \in Seq(Indices)
  <2>1. \A i \in Indices : \E k \in Indices : x_ordered[k] = i
    BY <1>8 DEF TreeInv, XOrderOK
  <2>2. ~IsLeaf(s)
    BY <1>10
  <2> QED  BY <1>22, <2>1, <2>2 DEF DoneAt, Answers
<1>24. phase \notin {"build", "threw"}
  BY <1>7
<1> QED  BY <1>5, <1>6, <1>7, <1>8, <1>23, <1>24, QueryKeeps

LEMMA ReturnKeeps ==
  ASSUME IInv, Return
  PROVE  IInv'
<1>1. /\ phase = "done" /\ phase' = "ready" /\ window' = NoWindow /\ split' = Root /\ node' = Root
      /\ limits' = <<0, 0>> /\ found' = <<>> /\ UNCHANGED tree
      /\ points' = points /\ y_ordered' = y_ordered /\ todo' = todo
  BY DEF Return, tree
<1>2. TreeInv'
  BY <1>1, TreeStays DEF IInv
<1>3. Root \in DOMAIN y_ordered /\ Len(points) \in Nat
  BY Coordinates DEF IInv, TreeInv, Typed
<1>4. QueryTypeOK'
  <2>1. <<>> \in Seq(Indices)
    BY EmptySeq
  <2>2. NoWindow \in [x : {r \in Int \X Int : r[1] <= r[2]}, y : {r \in Int \X Int : r[1] <= r[2]}]
    BY DEF NoWindow
  <2> QED  BY <1>1, <1>3, <2>1, <2>2 DEF QueryTypeOK, Phases, Indices
<1>5. BuildInv' /\ LimitsAreExact' /\ QueryInv'
  BY <1>1 DEF IInv, BuildInv, LimitsAreExact, QueryInv
<1> QED  BY <1>2, <1>4, <1>5 DEF IInv

LEMMA StutterKeeps ==
  ASSUME IInv, UNCHANGED vars
  PROVE  IInv'
<1>1. /\ UNCHANGED tree /\ phase' = phase /\ window' = window /\ split' = split
      /\ node' = node /\ limits' = limits /\ found' = found /\ Frame
  BY DEF vars, Frame
<1>2. points' = points /\ y_ordered' = y_ordered /\ todo' = todo
  BY <1>1 DEF tree
<1>3. TreeInv'
  BY <1>1, TreeStays DEF IInv
<1>4. BuildInv'
  <2>1. Distinct' <=> Distinct
    BY <1>2 DEF Distinct, Indices
  <2> QED  BY <1>1, <1>2, <2>1 DEF IInv, BuildInv
<1>5. QueryTypeOK'
  BY <1>1, <1>2 DEF IInv, QueryTypeOK, Indices
<1>6. PICK s, n, f, lim : s = split' /\ n = node' /\ f = found' /\ lim = limits'
  OBVIOUS
<1>7. LimitsAreExact'
  <2>1. YLimits(node)' = YLimits(n)
    BY <1>1, <1>6, YLimitsStay
  <2> QED  BY <1>1, <1>6, <2>1 DEF IInv, LimitsAreExact
<1>8. QueryInv'
  <2>1. /\ phase = "split" => BelowNode(n)
        /\ phase = "left" => LeftAt(s, n, f)
        /\ phase = "right" => RightAt(s, n, f)
        /\ phase = "done" => DoneAt(s, f)
    BY <1>1, <1>6 DEF IInv, QueryInv
  <2> QED
    BY <1>1, <1>6, <2>1, BelowNodeStays, LeftAtStays, RightAtStays, DoneAtStays DEF QueryInv
<1> QED  BY <1>3, <1>4, <1>5, <1>7, <1>8 DEF IInv

LEMMA StepKeeps ==
  ASSUME IInv, [Next]_vars
  PROVE  IInv'
<1>1. CASE BuildLeaf
  BY <1>1, BuildLeafKeeps
<1>2. CASE BuildInner
  BY <1>2, BuildInnerKeeps
<1>3. CASE Ok
  BY <1>3, OkKeeps
<1>4. CASE Query
  BY <1>4, QueryKeepsIInv
<1>5. CASE Descend
  BY <1>5, DescendKeeps
<1>6. CASE AnswerLeaf
  BY <1>6, AnswerLeafKeeps
<1>7. CASE StartLeft
  BY <1>7, StartLeftKeeps
<1>8. CASE Walk
  <2>1. phase \in {"left", "right"}
    BY <1>8 DEF Walk
  <2> QED  BY <1>8, <2>1, WalkLeftKeeps, WalkRightKeeps
<1>9. CASE EndLeft
  BY <1>9, EndLeftKeeps
<1>10. CASE EndRight
  BY <1>10, EndRightKeeps
<1>11. CASE Return
  BY <1>11, ReturnKeeps
<1>12. CASE UNCHANGED vars
  BY <1>12, StutterKeeps
<1> QED
  BY <1>1, <1>2, <1>3, <1>4, <1>5, <1>6, <1>7, <1>8, <1>9, <1>10, <1>11, <1>12 DEF Next

-----------------------------------------------------------------------------
(* The theorems. *)

(* The inductive invariant: whatever points the tree is built from and whatever
   windows are asked for, each node built has the points of its piece of the x
   order sorted by y, its pointers lead to the right place of its children's
   orders, and the walk of a query (find_split_node, run_left, run_right) has
   decided everything outside of the node where it is.                      *)
THEOREM InvariantHolds == Spec => []IInv
<1>1. Init => IInv
  BY Initially
<1>2. IInv /\ [Next]_vars => IInv'
  BY StepKeeps
<1> QED  BY <1>1, <1>2, PTL DEF Spec

(* The members of the tree and of a query keep their types. *)
THEOREM TypeCorrect == Spec => []TypeOK
<1>1. IInv => TypeOK
  <2> SUFFICES ASSUME IInv PROVE TypeOK
    OBVIOUS
  <2>1. /\ x_ordered \in [Indices -> Indices]
        /\ \A n \in DOMAIN y_ordered : y_ordered[n] \in Seq(Indices)
        /\ DOMAIN cascade \subseteq DOMAIN y_ordered
    BY DEF IInv, TreeInv, XOrderOK, Piece
  <2>2. /\ phase \in Phases
        /\ {split, node} \subseteq DOMAIN y_ordered
        /\ \A b \in {1, 2} : limits[b] \in 0 .. Len(points)
        /\ found \in Seq(Indices)
    BY DEF IInv, QueryTypeOK
  <2> QED  BY <2>1, <2>2 DEF TypeOK
<1> QED  BY <1>1, InvariantHolds, PTL

(* Fractional cascading is right: at every node of the walk the limits that the
   pointers led to are those lower_bound would find there.                  *)
THEOREM LimitsAreBounds == Spec => []LimitsAreExact
<1>1. IInv => LimitsAreExact
  BY DEF IInv
<1> QED  BY <1>1, InvariantHolds, PTL

(* A query reports every point of the window, and none twice. *)
THEOREM QueriesMissNothing == Spec => []NothingMissed
<1>1. IInv => NothingMissed
  <2> SUFFICES ASSUME IInv, phase = "done"
               PROVE  /\ {i \in Indices : InWindow(i)} \subseteq Reported
                      /\ Cardinality(Reported) = Len(found)
    BY DEF NothingMissed
  <2>1. DoneAt(split, found)
    BY DEF IInv, QueryInv
  <2>2. found \in Seq(Indices) /\ Once(found) /\ Len(found) \in Nat
    BY <2>1, LenProperties DEF DoneAt
  <2>3. \A i \in Indices : InWindow(i) => Holds(found, i)
    BY <2>1 DEF DoneAt, InWindow, InX, InY
  <2>4. Reported = Held(found)
    BY DEF Reported, Held
  <2>5. Cardinality(Reported) = Len(found)
    BY <2>2, <2>4, HeldCount
  <2>6. \A i \in Indices : Holds(found, i) => i \in Reported
    BY DEF Holds, Reported
  <2> QED  BY <2>3, <2>5, <2>6
<1> QED  BY <1>1, InvariantHolds, PTL

(* A query reports a point outside of the window only if it ended at a single
   leaf, and then one whose y is in the window.                             *)
THEOREM ExtraOnlyInLeaf == Spec => []ExtraOnlyAtLeaf
<1>1. IInv => ExtraOnlyAtLeaf
  <2> SUFFICES ASSUME IInv, phase = "done", NEW i \in Reported
               PROVE  \/ InWindow(i)
                      \/ /\ IsLeaf(split) /\ Reported = {i}
                         /\ Y(i) >= window.y[1] /\ Y(i) < window.y[2]
    BY DEF ExtraOnlyAtLeaf
  <2>1. DoneAt(split, found)
    BY DEF IInv, QueryInv
  <2>2. \A j \in Reported : j \in Indices /\ Holds(found, j)
    <3>1. found \in Seq(Indices)
      BY <2>1 DEF DoneAt
    <3> QED  BY <3>1, ElementOfSeq DEF Reported, Holds
  <2>3. IsLeaf(split) => Reported = {i}
    BY <2>1, <2>2 DEF DoneAt
  <2> QED  BY <2>1, <2>2, <2>3 DEF DoneAt, InWindow, InX, InY
<1> QED  BY <1>1, InvariantHolds, PTL

(* What Windowing's QueryInner takes a query of a range tree to return: the points
   inside, or, if there are none, one that is in the window's y range.      *)
THEOREM AnswersAsWindowingExpects ==
  Spec => [](phase = "done" =>
               \/ Reported = {i \in Indices : InWindow(i)}
               \/ \E i \in Indices : /\ Reported = {i}
                                     /\ ~\E j \in Indices : InWindow(j)
                                     /\ Y(i) >= window.y[1] /\ Y(i) < window.y[2])
<1>1. ASSUME NothingMissed, ExtraOnlyAtLeaf, TypeOK, phase = "done"
      PROVE  \/ Reported = {i \in Indices : InWindow(i)}
             \/ \E i \in Indices : /\ Reported = {i}
                                   /\ ~\E j \in Indices : InWindow(j)
                                   /\ Y(i) >= window.y[1] /\ Y(i) < window.y[2]
  <2>1. Reported \subseteq Indices
    BY <1>1, ElementOfSeq DEF TypeOK, Reported
  <2>2. {i \in Indices : InWindow(i)} \subseteq Reported
    BY <1>1 DEF NothingMissed
  <2>3. \A i \in Reported : \/ InWindow(i)
                            \/ Reported = {i} /\ Y(i) >= window.y[1] /\ Y(i) < window.y[2]
    BY <1>1 DEF ExtraOnlyAtLeaf
  <2>4. CASE \A i \in Reported : InWindow(i)
    BY <2>1, <2>2, <2>4
  <2>5. ASSUME NEW i \in Reported, ~InWindow(i)
        PROVE  /\ i \in Indices /\ Reported = {i}
               /\ ~\E j \in Indices : InWindow(j)
               /\ Y(i) >= window.y[1] /\ Y(i) < window.y[2]
    BY <2>1, <2>2, <2>3, <2>5
  <2> QED  BY <2>4, <2>5
<1> QED  BY <1>1, QueriesMissNothing, ExtraOnlyInLeaf, TypeCorrect, PTL

(* Two equal points would be parted by some node, and cannot be. *)
LEMMA BuiltIsDistinct ==
  ASSUME Static
  PROVE  Distinct
<1> SUFFICES ASSUME NEW i \in Indices, NEW j \in Indices, points[i] = points[j], i # j
             PROVE  FALSE
  BY DEF Distinct
<1>1. TreeInv /\ Len(points) \in Nat /\ DOMAIN y_ordered \subseteq Nodes /\ Root \in DOMAIN y_ordered
  BY Coordinates DEF Static, TreeInv, Typed
<1>2. PICK a \in Indices, b \in Indices : x_ordered[a] = i /\ x_ordered[b] = j
  BY <1>1 DEF TreeInv, XOrderOK
<1> DEFINE Both(n) == a \in Interval(n) /\ b \in Interval(n)
           Sizes == {Size(n) : n \in {m \in DOMAIN y_ordered : Both(m)}}
<1>3. \A n \in DOMAIN y_ordered : Size(n) \in Nat /\ n[1] \in Nat /\ n[2] \in Nat
  BY <1>1 DEF Nodes, Size
<1>4. PICK n \in DOMAIN y_ordered :
        Both(n) /\ \A m \in DOMAIN y_ordered : Both(m) => Size(n) <= Size(m)
  <2>1. Both(Root)
    BY <1>1 DEF Interval, Root, Indices
  <2>2. Sizes \subseteq Nat /\ Sizes # {}
    BY <1>1, <1>3, <2>1
  <2>3. PICK z \in Sizes : \A y \in Sizes : z <= y
    BY <2>2, LeastNatural
  <2>4. PICK m \in DOMAIN y_ordered : Both(m) /\ z = Size(m)
    BY <2>3
  <2> HIDE DEF Both
  <2>5. \A k \in DOMAIN y_ordered : Both(k) => Size(k) \in Sizes
    OBVIOUS
  <2> QED  BY <2>3, <2>4, <2>5
<1> HIDE DEF Both, Sizes
<1>5. a # b
  BY <1>2
<1>6. ~IsLeaf(n)
  <2>1. n[1] \in Nat /\ n[2] \in Nat /\ a \in n[1] + 1 .. n[2] /\ b \in n[1] + 1 .. n[2]
    BY <1>3, <1>4 DEF Both, Interval
  <2> QED  BY <1>5, <2>1 DEF IsLeaf, Size
<1>7. /\ n \in DOMAIN cascade
      /\ Left(n) \in DOMAIN y_ordered /\ Right(n) \in DOMAIN y_ordered
  BY <1>6, InnerIsHalved DEF Child
<1>8. Halved(n)
  BY <1>1, <1>7 DEF TreeInv
<1>9. Size(Left(n)) < Size(n) /\ Size(Right(n)) < Size(n) /\ Size(n) \in Nat
      /\ Size(Left(n)) \in Nat /\ Size(Right(n)) \in Nat
  <2>1. /\ n[1] \in Nat /\ Med(n) \in Nat /\ n[2] \in Nat /\ n[1] < Med(n) /\ Med(n) < n[2]
        /\ Left(n)[1] = n[1] /\ Left(n)[2] = Med(n) /\ Right(n)[1] = Med(n) /\ Right(n)[2] = n[2]
    BY <1>1, <1>6, Halves
  <2> QED  BY <2>1 DEF Size
<1>10. ~Both(Left(n)) /\ ~Both(Right(n))
  BY <1>4, <1>7, <1>9
<1>11. \A k : k \in Interval(n) => k \in Interval(Left(n)) \/ k \in Interval(Right(n))
  BY <1>1, <1>6, HalvesOfInterval
<1>12. \/ a \in Interval(Left(n)) /\ b \in Interval(Right(n))
       \/ b \in Interval(Left(n)) /\ a \in Interval(Right(n))
  BY <1>4, <1>10, <1>11 DEF Both
<1>13. /\ \A k \in Interval(Left(n)) : XLess(x_ordered[k], node_x(n))
       /\ \A k \in Interval(Right(n)) : ~XLess(x_ordered[k], node_x(n))
  BY <1>1, <1>6, <1>8, MedianDivides DEF Halved
<1>14. XLess(i, node_x(n)) <=> XLess(j, node_x(n))
  BY DEF XLess, X, Y
<1> QED  BY <1>2, <1>12, <1>13, <1>14

(* The constructor's assertions (split_subset, check_cascades, ok) fail for a
   vector with two equal points, and for no other.                          *)
THEOREM ThrowsForEqualPoints == Spec => []ThrowsExactlyForEqualPoints
<1>1. IInv => ThrowsExactlyForEqualPoints
  <2> SUFFICES ASSUME IInv
               PROVE  (phase = "threw" => ~Distinct) /\ (phase = "ready" => Distinct)
    BY DEF ThrowsExactlyForEqualPoints
  <2>1. phase = "threw" => ~Distinct
    BY DEF IInv, BuildInv
  <2>2. phase = "ready" => Static
    BY DEF IInv, BuildInv, Static
  <2> QED  BY <2>1, <2>2, BuiltIsDistinct
<1> QED  BY <1>1, InvariantHolds, PTL


=============================================================================
