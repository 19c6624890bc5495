----------------------------- MODULE WindowingMC ----------------------------
(***************************************************************************)
(* Windowing on all pairs of segments of a Wide x High grid, degenerate,   *)
(* touching and crossing ones included, and on the triples of disjoint     *)
(* segments of a smaller one.                                              *)
(***************************************************************************)
EXTENDS Windowing

CONSTANTS Size, SmallWidth, SmallHeight    \* bounds: the grids

Grid(w, h) == (1 .. w) \X (1 .. h)

(* Every segment once, drawn from its end with the greater y. *)
Above(p, q) == p[2] > q[2] \/ (p[2] = q[2] /\ p[1] >= q[1])
Segments(grid) == {s \in grid \X grid : Above(s[1], s[2])}

(* A canonical order of the vector. *)
Precedes(s, t) == Above(s[1], t[1]) /\ s # t

Apart(s, t) == Precedes(s, t) /\ ~Touch(s, t)
Proper(grid) == {s \in Segments(grid) : s[1] # s[2]}

Pairs(grid) == {v \in Segments(grid) \X Segments(grid) : Precedes(v[1], v[2])}
Triples(grid) ==
  UNION {{<<v[1], v[2], s>> : s \in {t \in Proper(grid) : Apart(v[1], t) /\ Apart(v[2], t)}} :
           v \in {u \in Pairs(grid) : Apart(u[1], u[2]) /\ {u[1], u[2]} \subseteq Proper(grid)}}

MCInputs == {<<>>} \cup Pairs(Grid(Size, Size)) \cup Triples(Grid(SmallWidth, SmallHeight))

MCBounds == 1 .. 4

=============================================================================
