------------------------------ MODULE RangeTree -----------------------------
(***************************************************************************)
(* The layered range tree of geom/segment_tree: range_tree.h. It is built  *)
(* once and answers which points lie in a window that is open above,       *)
(* [x.inf, x.sup) \X [y.inf, y.sup), walking down the x order of the nodes *)
(* while it carries along ("cascading") the window's limits in their y     *)
(* orders.                                                                 *)
(*                                                                         *)
(* A node's x_ordered is a contiguous piece of the root's: the node IS     *)
(* that piece here, <<lo, hi>> for the positions lo .. hi - 1. Positions   *)
(* count from 0, as in the code; indices of points count from 1.           *)
(***************************************************************************)
EXTENDS Integers, Sequences, FiniteSets

CONSTANTS
  Inputs,   \* the vectors of points <<x, y>> the tree is built from
  Bounds    \* the coordinates that bound a window

ASSUME CoordinatesAssumption == Inputs \subseteq Seq(Int \X Int) /\ Bounds \subseteq Int

VARIABLES
  points,
  x_ordered,   \* of the root
  y_ordered,   \* of each node built so far
  cascade,     \* of each inner node built so far: the members l and r of its
               \* cascade_index_t's, as functions of the position
  todo,        \* the calls of build_tree that are open, innermost first
  phase,
  window,      \* the ranges of the query
  split,       \* the split node
  node,        \* where the walk is
  limits,      \* of the window in node's y_ordered: first and second
  found        \* indices of the result

tree == <<points, x_ordered, y_ordered, cascade, todo>>
vars == <<tree, phase, window, split, node, limits, found>>

Indices == 1 .. Len(points)
X(i) == points[i][1]
Y(i) == points[i][2]

(* comparator_t, by x and by y; ties are broken by the other coordinate. *)
XLessOnly(i, j) == X(i) < X(j)    \* mutant: ties are not broken
XLess(i, j) == X(i) < X(j) \/ (X(i) = X(j) /\ Y(i) < Y(j))
YLess(i, j) == Y(i) < Y(j) \/ (Y(i) = Y(j) /\ X(i) < X(j))

InOrder(s, Less(_, _)) == \A k \in 1 .. Len(s) - 1 : ~Less(s[k + 1], s[k])

(* boost::sort leaves equal points in any order. *)
Sorted(Less(_, _)) ==
  {s \in [Indices -> Indices] :
     InOrder(s, Less) /\ \A i \in Indices : \E k \in Indices : s[k] = i}

(* prepare_subset *)
XOrders == Sorted(XLess)
YOrders == Sorted(YLess)

-----------------------------------------------------------------------------
(* Nodes. *)

Root == <<0, Len(points)>>
Size(n) == n[2] - n[1]
Med(n) == n[1] + Size(n) \div 2
IsLeaf(n) == Size(n) <= 1
Left(n) == <<n[1], Med(n)>>
Right(n) == <<Med(n), n[2]>>
Child(n, left) == IF left THEN Left(n) ELSE Right(n)

At(s, p) == s[p + 1]
node_x(n) == At(x_ordered, Med(n))

(* boost::lower_bound with comparator2_t in a vector ordered by y. *)
LowerBound(s, c) == Cardinality({k \in 1 .. Len(s) : Y(s[k]) < c})

(* The while loops at lines 194 and 195: from position p of a child's order to
   the first element that is not less than i.                               *)
Advance(p, s, i) ==
  CHOOSE q \in p .. Len(s) :
    /\ q = Len(s) \/ ~YLess(At(s, q), i)
    /\ \A k \in p .. q - 1 : YLess(At(s, k), i)

(* The pointers of all elements of s into the child's order c. *)
Pointers(s, c) ==
  LET ptr[k \in 0 .. Len(s)] == IF k = 0 THEN 0 ELSE Advance(ptr[k - 1], c, s[k])
  IN [p \in 0 .. Len(s) - 1 |-> ptr[p + 1]]

(* The assertions at lines 198 and 199, and those of check_cascades. *)
PointsAtLeast(s, c, ptr) ==
  \A p \in DOMAIN ptr :
    ptr[p] < Len(c) =>
      /\ ~YLess(At(c, ptr[p]), At(s, p))
      /\ ptr[p] > 0 => YLess(At(c, ptr[p] - 1), At(s, p))

check_subset(n, ys) ==
  LET xs == SubSeq(x_ordered, n[1] + 1, n[2]) IN
  Len(xs) = Len(ys) /\ InOrder(xs, XLess) /\ InOrder(ys, YLess)

(* The loop at line 180: the part of the y order that goes to each side, by
   comparison with the median point; x_ordered is cut at the median's position
   instead.                                                                 *)
OnSide(n, left, i) == IF left THEN XLess(i, node_x(n)) ELSE ~XLess(i, node_x(n))
YPart(n, left) ==
  LET ys == y_ordered[n]
      part[k \in 0 .. Len(ys)] ==
        IF k = 0 THEN <<>>
        ELSE IF OnSide(n, left, ys[k]) THEN Append(part[k - 1], ys[k]) ELSE part[k - 1]
  IN part[Len(ys)]

-----------------------------------------------------------------------------
(* The constructor. *)

NoWindow == [x |-> <<0, 0>>, y |-> <<0, 0>>]

Init ==
  /\ points \in Inputs
  /\ x_ordered \in XOrders
  /\ \E ys \in YOrders : y_ordered = [n \in {Root} |-> ys]
  /\ cascade = [n \in {} |-> {}]
  /\ todo = <<Root>>
  /\ phase = "build"
  /\ window = NoWindow
  /\ split = Root
  /\ node = Root
  /\ limits = <<0, 0>>
  /\ found = <<>>

queryRest == <<window, split, node, limits, found>>

(* build_tree of a node with at most one point. *)
BuildLeaf ==
  /\ phase = "build"
  /\ todo # <<>>
  /\ IsLeaf(Head(todo))
  /\ todo' = Tail(todo)
  /\ UNCHANGED <<points, x_ordered, y_ordered, cascade, phase, queryRest>>

(* build_tree of another: split_subset, with its assertions, then the left
   child before the right one.                                              *)
BuildInner ==
  /\ phase = "build"
  /\ todo # <<>>
  /\ ~IsLeaf(Head(todo))
  /\ LET n == Head(todo)
         l == YPart(n, TRUE)
         r == YPart(n, FALSE)
         ptrs == [left \in BOOLEAN |-> Pointers(y_ordered[n], IF left THEN l ELSE r)]
     IN
     IF /\ PointsAtLeast(y_ordered[n], l, ptrs[TRUE])
        /\ PointsAtLeast(y_ordered[n], r, ptrs[FALSE])
        /\ check_subset(Left(n), l)
        /\ check_subset(Right(n), r)
        /\ Size(Right(n)) - Size(Left(n)) \in -1 .. 1
     THEN /\ y_ordered' = [m \in DOMAIN y_ordered \cup {Left(n), Right(n)} |->
                             CASE m = Left(n) -> l
                               [] m = Right(n) -> r
                               [] OTHER -> y_ordered[m]]
          /\ cascade' = [m \in DOMAIN cascade \cup {n} |->
                           IF m = n THEN ptrs ELSE cascade[m]]
          /\ todo' = <<Left(n), Right(n)>> \o Tail(todo)
          /\ UNCHANGED phase
     ELSE /\ phase' = "threw"
          /\ UNCHANGED <<y_ordered, cascade, todo>>
  /\ UNCHANGED <<points, x_ordered, queryRest>>

(* ok(): the root's orders, and the pointers of every inner node. *)
Ok ==
  /\ phase = "build"
  /\ todo = <<>>
  /\ phase' =
       IF /\ check_subset(Root, y_ordered[Root])
          /\ \A n \in DOMAIN cascade, left \in BOOLEAN :
               PointsAtLeast(y_ordered[n], y_ordered[Child(n, left)], cascade[n][left])
       THEN "ready" ELSE "threw"
  /\ UNCHANGED <<tree, queryRest>>

-----------------------------------------------------------------------------
(* query. *)

(* The callers make sure that inf <= sup: x_range, y_range, range_test. *)
Windows == {r \in Bounds \X Bounds : r[1] <= r[2]}

Query ==
  /\ phase = "ready"
  /\ phase' = "split"
  /\ \E x, y \in Windows : window' = [x |-> x, y |-> y]
  /\ node' = Root
  /\ UNCHANGED <<tree, split, limits, found>>

BelowSup(n) == X(node_x(n)) < window.x[2]
BelowInf(n) == X(node_x(n)) < window.x[1]

(* One round of the loop of find_split_node. *)
Descend ==
  /\ phase = "split"
  /\ ~IsLeaf(node)
  /\ ~(BelowSup(node) /\ ~BelowInf(node))
  /\ node' = Child(node, ~BelowSup(node))
  /\ UNCHANGED <<tree, phase, window, split, limits, found>>

(* sublimits, for one of the two limits: a limit at the end of the parent's
   order has no element that could point into the child's.                  *)
SublimitOther(n, p, left) ==    \* mutant: l and r are swapped
  IF p = Len(y_ordered[n]) THEN Len(y_ordered[Child(n, left)])
                           ELSE cascade[n][~left][p]
Sublimit(n, p, left) ==
  IF p = Len(y_ordered[n]) THEN Len(y_ordered[Child(n, left)])
                           ELSE cascade[n][left][p]

sublimits(n, lim, left) ==
  <<Sublimit(n, lim[1], left), Sublimit(n, lim[2], left)>>

ExtractPastEnd(n, lim) ==    \* mutant: upper limit included
  [k \in 1 .. lim[2] - lim[1] + 1 |->
     IF lim[1] + k <= Len(y_ordered[n]) THEN y_ordered[n][lim[1] + k] ELSE 0]
extract_indices(n, lim) == SubSeq(y_ordered[n], lim[1] + 1, lim[2])

YLimits(n) ==
  <<LowerBound(y_ordered[n], window.y[1]), LowerBound(y_ordered[n], window.y[2])>>

(* A leaf as split node: its point is taken for its y alone. *)
AnswerLeaf ==
  /\ phase = "split"
  /\ IsLeaf(node)
  /\ split' = node
  /\ limits' = YLimits(node)
  /\ found' = extract_indices(node, limits')
  /\ phase' = "done"
  /\ UNCHANGED <<tree, window, node>>

StartLeft ==
  /\ phase = "split"
  /\ ~IsLeaf(node)
  /\ BelowSup(node) /\ ~BelowInf(node)
  /\ split' = node
  /\ limits' = sublimits(node, YLimits(node), TRUE)
  /\ node' = Left(node)
  /\ phase' = "left"
  /\ UNCHANGED <<tree, window, found>>

(* One round of the loop of run_left, or of run_right: if the subtree on the
   inner side lies in the window it is taken whole, and the walk goes on at
   the outer side.                                                          *)
TakesInner(n) == IF phase = "left" THEN ~BelowInf(n) ELSE BelowSup(n)

Walk ==
  /\ phase \in {"left", "right"}
  /\ ~IsLeaf(node)
  /\ LET step_left == (phase = "left") = TakesInner(node) IN
     /\ found' = IF TakesInner(node)
                 THEN found \o extract_indices(Child(node, ~step_left),
                                               sublimits(node, limits, ~step_left))
                 ELSE found
     /\ limits' = sublimits(node, limits, step_left)
     /\ node' = Child(node, step_left)
  /\ UNCHANGED <<tree, phase, window, split>>

(* The leaf where the walk ends is taken if its x is in the window. *)
LeafUnchecked == found \o extract_indices(node, limits)    \* mutant: without the if
AtLeaf ==
  IF TakesInner(node) THEN found \o extract_indices(node, limits) ELSE found

EndLeft ==
  /\ phase = "left"
  /\ IsLeaf(node)
  /\ found' = AtLeaf
  /\ node' = Right(split)
  /\ limits' = sublimits(split, YLimits(split), FALSE)
  /\ phase' = "right"
  /\ UNCHANGED <<tree, window, split>>

EndRight ==
  /\ phase = "right"
  /\ IsLeaf(node)
  /\ found' = AtLeaf
  /\ phase' = "done"
  /\ UNCHANGED <<tree, window, split, node, limits>>

Return ==
  /\ phase = "done"
  /\ phase' = "ready"
  /\ window' = NoWindow
  /\ split' = Root /\ node' = Root
  /\ limits' = <<0, 0>>
  /\ found' = <<>>
  /\ UNCHANGED tree

Next ==
  \/ BuildLeaf \/ BuildInner \/ Ok
  \/ Query \/ Descend \/ AnswerLeaf \/ StartLeft \/ Walk \/ EndLeft \/ EndRight
  \/ Return

Spec == Init /\ [][Next]_vars

-----------------------------------------------------------------------------
(* Properties. *)

Phases == {"build", "threw", "ready", "split", "left", "right", "done"}

TypeOK ==
  /\ x_ordered \in [Indices -> Indices]
  /\ \A n \in DOMAIN y_ordered : y_ordered[n] \in Seq(Indices)
  /\ DOMAIN cascade \subseteq DOMAIN y_ordered
  /\ phase \in Phases
  /\ {split, node} \subseteq DOMAIN y_ordered
  /\ \A b \in {1, 2} : limits[b] \in 0 .. Len(points)
  /\ found \in Seq(Indices)

Distinct == \A i, j \in Indices : points[i] = points[j] => i = j

(* The assertions of the constructor fail exactly for equal points. For distinct
   ones the split by comparison and the split by position agree at every level,
   and the cascade pointers are right; two equal ones are bound to be the last
   of a left half and the median, where they disagree.                      *)
ThrowsExactlyForEqualPoints ==
  /\ phase = "threw" => ~Distinct
  /\ phase = "ready" => Distinct

(* What fractional cascading is for: wherever the walk is, the limits it was
   led to by pointers are those a binary search in the node would find.     *)
LimitsAreExact ==
  phase \in {"left", "right"} => limits = YLimits(node)

InWindow(i) ==
  /\ X(i) >= window.x[1] /\ X(i) < window.x[2]
  /\ Y(i) >= window.y[1] /\ Y(i) < window.y[2]

Reported == {found[k] : k \in 1 .. Len(found)}

(* Every point of the window is reported, and reported once. *)
NothingMissed ==
  phase = "done" =>
    /\ {i \in Indices : InWindow(i)} \subseteq Reported
    /\ Cardinality(Reported) = Len(found)

(* A point outside of the window is reported only where no node separates the
   window: then it is the only one, and its y is right.                     *)
ExtraOnlyAtLeaf ==
  phase = "done" =>
    \A i \in Reported :
      \/ InWindow(i)
      \/ /\ IsLeaf(split) /\ Reported = {i}
         /\ Y(i) >= window.y[1] /\ Y(i) < window.y[2]

(* range_test of main.cpp asserts (line 57) that every reported point lies in
   the window.                                                              *)
ReportedAreInWindow == phase = "done" => \A i \in Reported : InWindow(i)

=============================================================================
