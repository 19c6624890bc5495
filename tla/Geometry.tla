------------------------------ MODULE Geometry ------------------------------
(***************************************************************************)
(* Points, segments and windows of geom/segment_tree, and what it means    *)
(* that they meet: the orders and products of geom/primitives that the     *)
(* code uses, and the reference that its answers are compared with.        *)
(*                                                                         *)
(* Points are <<x, y>>, segments pairs of points, ranges <<inf, sup>>,     *)
(* empty if inf > sup, windows records of the ranges x and y.              *)
(***************************************************************************)
EXTENDS Integers, Sequences, FiniteSets, SequencesExt, FiniteSetsExt

LexLess(p, q) == p[1] < q[1] \/ (p[1] = q[1] /\ p[2] < q[2])
Oriented(s) == IF LexLess(s[2], s[1]) THEN <<s[2], s[1]>> ELSE s
Cross(a, b, p) == (b[1] - a[1]) * (p[2] - a[2]) - (b[2] - a[2]) * (p[1] - a[1])
Within(r, x) == r[1] <= x /\ x <= r[2]
Disjoint(r, s) == Max({r[1], s[1]}) > Min({r[2], s[2]})

XRange(s) == <<Min({s[1][1], s[2][1]}), Max({s[1][1], s[2][1]})>>
YRange(s) == <<Min({s[1][2], s[2][2]}), Max({s[1][2], s[2][2]})>>

-----------------------------------------------------------------------------
(* The reference. *)

(* Whether a segment meets a window is decided by the ranges, and by the side
   of the segment that each corner of the window is on.                     *)
Corners(w) == {<<x, y>> : x \in ToSet(w.x), y \in ToSet(w.y)}
OnSides(s, w, Side(_)) == \E c \in Corners(w) : Side(Cross(s[1], s[2], c))

MeetsWindow(s, w) ==
  /\ ~Disjoint(XRange(s), w.x) /\ ~Disjoint(YRange(s), w.y)
  /\ OnSides(s, w, LAMBDA c : c <= 0) /\ OnSides(s, w, LAMBDA c : c >= 0)

OpenOverlap(r, s) == r[2] > s[1] /\ r[1] < s[2] /\ s[1] < s[2]
MeetsInterior(s, w) ==
  /\ OpenOverlap(XRange(s), w.x) /\ OpenOverlap(YRange(s), w.y)
  /\ OnSides(s, w, LAMBDA c : c < 0) /\ OnSides(s, w, LAMBDA c : c > 0)

Opposite(a, b) == (a >= 0 /\ b <= 0) \/ (a <= 0 /\ b >= 0)

(* Two segments have a point in common. *)
Touch(s, t) ==
  /\ ~Disjoint(XRange(s), XRange(t)) /\ ~Disjoint(YRange(s), YRange(t))
  /\ Opposite(Cross(s[1], s[2], t[1]), Cross(s[1], s[2], t[2]))
  /\ Opposite(Cross(t[1], t[2], s[1]), Cross(t[1], t[2], s[2]))

(* Two ends are equal: of one segment, or of two. *)
EqualEnds(segs) ==
  \E i, j \in DOMAIN segs, d, e \in {1, 2} : <<i, d>> # <<j, e>> /\ segs[i][d] = segs[j][e]

-----------------------------------------------------------------------------
(* What windowing_t promises its callers. The constructor fails for equal ends
   and for no segments, may fail for segments that touch, and does not fail for
   others.                                                                  *)

Fails(segs) == segs = <<>> \/ EqualEnds(segs)

MayFail(segs) ==
  Fails(segs) \/ \E i, j \in DOMAIN segs : i # j /\ Touch(segs[i], segs[j])

(* query of the range tree: the sides at inf belong to the inside. *)
Inside(p, w) ==
  /\ p[1] >= w.x[1] /\ p[1] < w.x[2]
  /\ p[2] >= w.y[1] /\ p[2] < w.y[2]

EndsInside(s, w) == \E e \in {1, 2} : Inside(s[e], w)

(* No segment lies on the line of a side of the window. compare_segments does not
   say whether such a segment is below or above the others, and the bisection may
   take it along with them, or miss them for it.                            *)
Clear(segs, w) ==
  \A i \in DOMAIN segs, b \in {1, 2} :
    XRange(segs[i]) # <<w.x[b], w.x[b]>> /\ YRange(segs[i]) # <<w.y[b], w.y[b]>>

(* Every segment that ends in the window is in the answer, and, for a clear
   window, every one that passes through it. What does not meet the window is
   then not, but for one that may be there for an end on its level.         *)
Complete(segs, w, S) ==
  \A i \in DOMAIN segs :
    EndsInside(segs[i], w) \/ (Clear(segs, w) /\ MeetsInterior(segs[i], w)) => i \in S

Sound(segs, w, S) == Clear(segs, w) => \A i \in S : MeetsWindow(segs[i], w)

Answers(segs, w) ==
  {S \in SUBSET DOMAIN segs :
     Complete(segs, w, S) /\ \E extra \in SUBSET S : Cardinality(extra) <= 1 /\ Sound(segs, w, S \ extra)}

=============================================================================
