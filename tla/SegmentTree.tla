----------------------------- MODULE SegmentTree ----------------------------
(***************************************************************************)
(* The segment tree of geom/segment_tree: segment_tree.h, as operators on  *)
(* the vector segs it is built from. It stores each segment in the nodes   *)
(* whose x intervals it covers, ordered from bottom to top, and finds the  *)
(* segments that a vertical line meets between two values of y.            *)
(*                                                                         *)
(* The tree is built bottom up: its nodes are <<k, i>>, the i-th node of   *)
(* level k, level 1 being the elementary intervals.                        *)
(***************************************************************************)
EXTENDS Geometry

Covers(r, interval) == r[1] <= interval[1] /\ interval[2] <= r[2]

PointToTheLeft(s, p) == Cross(s[1], s[2], p) > 0

-----------------------------------------------------------------------------
(* compare_segments: the order of the segments that cover an interval. It
   throws where the lines of both separate the ends of the other.          *)

Sides(s, t) == [e \in {1, 2} |-> PointToTheLeft(Oriented(s), Oriented(t)[e])]

Comparable(s, t) ==
  Sides(s, t)[1] = Sides(s, t)[2] \/ Sides(t, s)[1] = Sides(t, s)[2]

SegmentLess(s, t) ==
  IF Sides(s, t)[1] = Sides(s, t)[2] THEN Sides(s, t)[1] ELSE ~Sides(t, s)[1]

(* What boost::sort makes of a set S of indices. It ends in an insertion sort,
   whatever compare_segments says: neighbours have been compared, and the second
   is not less than the first. (The caller deals with a comparison that throws.) *)
SortUnordered(segs, S) == SetToSeqs(S)    \* mutant: sort_segments is not called
InOrder(s, t) == Comparable(s, t) /\ ~SegmentLess(t, s)
SortSegments(segs, S) ==
  {order \in SetToSeqs(S) :
     \A k \in 1 .. Len(order) - 1 : InOrder(segs[order[k]], segs[order[k + 1]])}

-----------------------------------------------------------------------------
(* build_tree. *)

Endpoints(segs) == {XRange(segs[i])[e] : i \in DOMAIN segs, e \in {1, 2}}

(* The iteration over endpoints, a std::set: the least, then the next greater. *)
Ascending(S) ==
  LET e[k \in 1 .. Cardinality(S)] == IF k = 1 THEN Min(S) ELSE Min({c \in S : c > e[k - 1]})
  IN e

(* Every endpoint, and what lies between it and the next: maybe nothing. *)
ElementaryOverlapping(segs) ==    \* mutant: the gap begins at the endpoint
  LET e == Ascending(Endpoints(segs)) IN
  [j \in 1 .. 2 * Cardinality(Endpoints(segs)) - 1 |->
     IF j % 2 = 1 THEN <<e[(j + 1) \div 2], e[(j + 1) \div 2]>>
                  ELSE <<e[j \div 2], e[j \div 2 + 1] - 1>>]
Elementary(segs) ==
  LET e == Ascending(Endpoints(segs)) IN
  [j \in 1 .. 2 * Cardinality(Endpoints(segs)) - 1 |->
     IF j % 2 = 1 THEN <<e[(j + 1) \div 2], e[(j + 1) \div 2]>>
                  ELSE <<e[j \div 2] + 1, e[j \div 2 + 1] - 1>>]

(* make_parents: the last node of an odd level gets a parent of its own. *)
Parents(nodes) ==
  [i \in 1 .. (Len(nodes) + 1) \div 2 |->
     <<nodes[2 * i - 1][1],
       IF 2 * i <= Len(nodes) THEN nodes[2 * i][2] ELSE nodes[2 * i - 1][2]>>]

(* The levels, up to the first with a single node. (There are none for an empty
   vector, where build_tree throws.)                                        *)
Levels(segs) ==
  LET level[k \in 1 .. 2 * Cardinality(Endpoints(segs))] ==
        IF k = 1 THEN Elementary(segs) ELSE Parents(level[k - 1])
      top == Min({k \in DOMAIN level : Len(level[k]) = 1})
  IN [k \in 1 .. top |-> level[k]]

Height(levels) == Len(levels)
Nodes(levels) == UNION {{<<k, i>> : i \in 1 .. Len(levels[k])} : k \in DOMAIN levels}
Interval(levels, n) == levels[n[1]][n[2]]
ParentOf(n) == <<n[1] + 1, (n[2] + 1) \div 2>>

(* check: the children of a node make up its interval. *)
CheckTree(levels) ==
  \A n \in Nodes(levels) :
    LET l == <<n[1] - 1, 2 * n[2] - 1>>
        r == <<n[1] - 1, 2 * n[2]>>
    IN r \in Nodes(levels) =>
         /\ Interval(levels, l)[1] = Interval(levels, n)[1]
         /\ Interval(levels, r)[2] = Interval(levels, n)[2]
         /\ Interval(levels, l)[2] = Interval(levels, r)[1] - 1

(* The assertions about parents and about the root, and those of check. *)
WellBuilt(segs, levels) ==
  /\ \A n \in Nodes(levels) : n[1] > 1 => Interval(levels, n)[1] <= Interval(levels, n)[2]
  /\ \A s \in ToSet(segs) : ~Disjoint(XRange(s), Interval(levels, <<Height(levels), 1>>))
  /\ CheckTree(levels)

-----------------------------------------------------------------------------
(* insert_segment: down from the root, until a node is disjoint from the
   segment's range, or covered by it: that one stores the segment.         *)

Passed(levels, r, n) ==
  ~Disjoint(r, Interval(levels, n)) /\ ~Covers(r, Interval(levels, n))

(* A node, its parent, and so on to the root. *)
Ancestors(levels, n) ==
  LET up[j \in 0 .. Height(levels) - n[1]] == IF j = 0 THEN n ELSE ParentOf(up[j - 1])
  IN up

Stores(levels, r, n) ==
  /\ \A j \in 1 .. Height(levels) - n[1] : Passed(levels, r, Ancestors(levels, n)[j])
  /\ ~Disjoint(r, Interval(levels, n))
  /\ Covers(r, Interval(levels, n))

StoredAt(segs, levels, n) ==
  {i \in DOMAIN segs : Stores(levels, XRange(segs[i]), n)}

With(f, key, value) == [k \in DOMAIN f \cup {key} |-> IF k = key THEN value ELSE f[k]]

(* What the lists of the nodes may be once they are sorted. *)
Lists(segs, levels) ==
  LET Orders(n) == SortSegments(segs, StoredAt(segs, levels, n))
      WithList(n, lists) == {With(f, n, order) : f \in lists, order \in Orders(n)}
  IN FoldSet(WithList, {<<>>}, Nodes(levels))

(* The constructor fails if an assertion does, or may if it meets a pair that
   compare_segments throws for.                                             *)
Clash(segs, S) == \E i, j \in S : ~Comparable(segs[i], segs[j])

MayThrow(segs, levels) ==
  \/ \E n \in Nodes(levels) : Clash(segs, StoredAt(segs, levels, n))
  \/ ~WellBuilt(segs, levels)

-----------------------------------------------------------------------------
(* query. *)

(* boost::lower_bound, told of each element whether it comes before the value:
   the bisection, which ends whatever before is, and is right if those that come
   before do so first.                                                      *)
LowerBound(before) ==
  LET n == Len(before)
      bound[q \in {r \in (0 .. n) \X (0 .. n) : r[1] + r[2] <= n}] ==
        LET first == q[1]    len == q[2]    half == len \div 2 IN
        IF len = 0 THEN first
        ELSE IF before[first + half + 1] THEN bound[<<first + half + 1, len - half - 1>>]
        ELSE bound[<<first, half>>]
  IN bound[<<0, n>>]

Below(segs, list, p) ==
  [k \in DOMAIN list |-> PointToTheLeft(Oriented(segs[list[k]]), p)]

Extract(segs, list, x, y) ==
  LET Bound(c) == LowerBound(Below(segs, list, <<x, c>>))
  IN {list[k] : k \in Bound(y[1]) + 1 .. Bound(y[2])}

(* The nodes from the root to a leaf whose intervals contain x: the left child
   if it does, else the right one, if any.                                  *)
Path(levels, x) ==
  LET h == Height(levels)
      at[d \in 0 .. h - 1] ==
        IF d = 0 THEN 1
        ELSE LET l == 2 * at[d - 1] - 1 IN
             IF Within(Interval(levels, <<h - d, l>>), x) \/ l = Len(levels[h - d]) THEN l ELSE l + 1
  IN {n \in {<<h - d, at[d]>> : d \in 0 .. h - 1} : Within(Interval(levels, n), x)}

QueryTree(segs, tree, x, y) ==
  IF y[2] < y[1] THEN {}
  ELSE UNION {Extract(segs, tree.lists[n], x, y) : n \in Path(tree.levels, x)}

=============================================================================
