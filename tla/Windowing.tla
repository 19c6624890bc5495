------------------------------ MODULE Windowing -----------------------------
(***************************************************************************)
(* segment_windowing.h: which segments meet a window. windowing_t owns a   *)
(* range tree of the segments' endpoints and two segment trees, the second *)
(* with x and y swapped, and unites the answers of five queries: the four  *)
(* sides of the window in the segment trees, its inside in the range tree. *)
(*                                                                         *)
(* The segment trees are those of SegmentTree. The range tree is what      *)
(* RangeTree is checked to be: it throws for equal points, it finds the    *)
(* points inside, and it may add one point that is right in y only.        *)
(***************************************************************************)
EXTENDS SegmentTree

CONSTANTS
  Inputs,   \* the vectors of segments
  Bounds    \* the coordinates that bound a window

SegmentVectors == Seq((Int \X Int) \X (Int \X Int))

ASSUME InputsAssumption == Inputs \subseteq SegmentVectors /\ Bounds \subseteq Int

VARIABLES
  segments,
  trees,     \* axis -> the tree, once it is built
  phase,     \* the constructor's or query's next step
  window,    \* the ranges x and y of the query
  res,       \* segments found so far
  extra      \* the one that is only there for a point outside of the window

vars == <<segments, trees, phase, window, res, extra>>

Indices == 1 .. Len(segments)

(* swap_xy *)
Swapped(p) == <<p[2], p[1]>>
Along(axis) ==
  IF axis = "x" THEN segments
  ELSE [i \in Indices |-> <<Swapped(segments[i][1]), Swapped(segments[i][2])>>]

(* extract_points: end e of segment i is point 2 * i + e. *)
Ends == Indices \X {1, 2}
Point(e) == segments[e[1]][e[2]]

-----------------------------------------------------------------------------

NoWindow == [x |-> <<0, 0>>, y |-> <<0, 0>>]

Init ==
  /\ segments \in Inputs
  /\ trees = <<>>
  /\ phase = "ranges"
  /\ window = NoWindow
  /\ res = {}
  /\ extra = {}

(* ranges_(extract_points(segments)) *)
BuildRanges ==
  /\ phase = "ranges"
  /\ phase' = IF EqualEnds(segments) THEN "threw" ELSE "x"
  /\ UNCHANGED <<segments, trees, window, res, extra>>

(* x_segments_(segments), y_segments_(swap_xy(segments)): the intervals first,
   then the segments.                                                       *)
BuildTree(axis) ==
  /\ phase = axis
  /\ IF segments = <<>>
     THEN phase' = "threw" /\ UNCHANGED trees
     ELSE /\ trees' = With(trees, axis, [levels |-> Levels(Along(axis)), lists |-> <<>>])
          /\ phase' = IF axis = "x" THEN "insert x" ELSE "insert y"
  /\ UNCHANGED <<segments, window, res, extra>>

Inserting(axis) == phase = IF axis = "x" THEN "insert x" ELSE "insert y"

InsertSegments(axis) ==
  /\ Inserting(axis)
  /\ WellBuilt(Along(axis), trees[axis].levels)
  /\ \E lists \in Lists(Along(axis), trees[axis].levels) :
       trees' = [trees EXCEPT ![axis].lists = lists]
  /\ phase' = IF axis = "x" THEN "y" ELSE "ready"
  /\ UNCHANGED <<segments, window, res, extra>>

InsertThrows(axis) ==
  /\ Inserting(axis)
  /\ MayThrow(Along(axis), trees[axis].levels)
  /\ phase' = "threw"
  /\ UNCHANGED <<segments, trees, window, res, extra>>

(* x_range and y_range make inf <= sup. *)
Windows == {r \in Bounds \X Bounds : r[1] <= r[2]}

Query ==
  /\ phase = "ready"
  /\ phase' = "sides x"
  /\ \E x, y \in Windows : window' = [x |-> x, y |-> y]
  /\ UNCHANGED <<segments, trees, res, extra>>

(* The queries on the two sides that are orthogonal to axis. *)
Across(axis) == IF axis = "x" THEN window.y ELSE window.x

FirstSide(axis) ==    \* mutant: the side at sup is forgotten
  QueryTree(Along(axis), trees[axis], window[axis][1], Across(axis))
Side(axis) ==
  UNION {QueryTree(Along(axis), trees[axis], window[axis][b], Across(axis)) : b \in {1, 2}}

QuerySides(axis) ==
  /\ phase = IF axis = "x" THEN "sides x" ELSE "sides y"
  /\ phase' = IF axis = "x" THEN "sides y" ELSE "inner"
  /\ res' = res \cup Side(axis)
  /\ UNCHANGED <<segments, trees, window, extra>>

YInside(p) == p[2] >= window.y[1] /\ p[2] < window.y[2]

InnerUndivided(found) == {2 * e[1] + e[2] - 2 : e \in found}    \* mutant: / 2 is forgotten
InnerLast(found) == {e[1] : e \in {f \in found : f[2] = 2}}   \* mutant: first ends forgotten
Inner(found) == {e[1] : e \in found}

QueryInner ==
  /\ phase = "inner"
  /\ phase' = "done"
  /\ LET inside == {e \in Ends : Inside(Point(e), window)} IN
     \/ /\ res' = res \cup Inner(inside)
        /\ UNCHANGED extra
     \/ \E e \in Ends :
          /\ inside = {}
          /\ YInside(Point(e))
          /\ res' = res \cup Inner({e})
          /\ extra' = Inner({e})
  /\ UNCHANGED <<segments, trees, window>>

Return ==
  /\ phase = "done"
  /\ phase' = "ready"
  /\ window' = NoWindow
  /\ res' = {} /\ extra' = {}
  /\ UNCHANGED <<segments, trees>>

Next ==
  \/ BuildRanges
  \/ \E axis \in {"x", "y"} :
       BuildTree(axis) \/ InsertSegments(axis) \/ InsertThrows(axis) \/ QuerySides(axis)
  \/ Query \/ QueryInner \/ Return

Spec == Init /\ [][Next]_vars

-----------------------------------------------------------------------------
(* Properties. *)

TypeOK ==
  /\ segments \in SegmentVectors
  /\ DOMAIN trees \subseteq {"x", "y"}
  /\ phase \in {"ranges", "x", "insert x", "y", "insert y", "threw",
               "ready", "sides x", "sides y", "inner", "done"}
  /\ window \in [{"x", "y"} -> Int \X Int]
  /\ res \subseteq Indices /\ extra \subseteq res

(* No segment that ends in the window is missed, nor one that passes through it
   if no segment lies on the line of a side: it crosses a side, and
   compare_segments, whose order lower_bound relies on, puts it where the
   bisection looks.                                                         *)
NothingMissed ==
  phase = "done" => Complete(segments, window, res)

(* Only segments that meet the window, its border included, are reported, but for
   the range tree's extra one, if no segment lies on the line of a side.    *)
ReportedMeet == phase = "done" => Sound(segments, window, res \ extra)

(* The constructor fails and succeeds as promised: segments without a common
   point, none of length zero, can be built, and no assertion of the three trees
   fails; equal ends and an empty vector cannot.                            *)
ThrowsAsPromised ==
  /\ phase = "threw" => MayFail(segments)
  /\ phase = "ready" => ~Fails(segments)

(* compare_segments orders every list from bottom to top as a bisection at any
   x of the node's interval needs it, where no segment of the list lies along
   the line at x: what is below a point comes first.                        *)
ListsAreMonotone ==
  phase = "ready" =>
    \A axis \in {"x", "y"} :
      \A n \in Nodes(trees[axis].levels) :
        LET segs == Along(axis)
            list == trees[axis].lists[n]
            interval == Interval(trees[axis].levels, n)
        IN \A x \in interval[1] .. interval[2], y \in Bounds :
             LET below == Below(segs, list, <<x, y>>) IN
             (\A k \in DOMAIN list : XRange(segs[list[k]]) # <<x, x>>) =>
               \A a, b \in DOMAIN list : a < b /\ below[b] => below[a]

=============================================================================
