----------------------------- MODULE RangeTreeMC ----------------------------
(***************************************************************************)
(* RangeTree on all sets of at most MaxPoints points of a small grid, and  *)
(* on all vectors of three points of it with a point twice.                *)
(***************************************************************************)
EXTENDS RangeTree

CONSTANTS
  GridSize,    \* bound: coordinates are 1 .. GridSize
  MaxPoints    \* bound: how many distinct points a tree has

GridPoints == (1 .. GridSize) \X (1 .. GridSize)

(* The sets, as vectors by descending y and x: in neither of the orders that
   the tree sorts by.                                                       *)
Above(p, q) == p[2] > q[2] \/ (p[2] = q[2] /\ p[1] > q[1])
Extensions(s) ==
  {Append(s, p) : p \in {q \in GridPoints : s # <<>> => Above(s[Len(s)], q)}}
Vectors[n \in 0 .. MaxPoints] ==
  IF n = 0 THEN {<<>>} ELSE UNION {Extensions(s) : s \in Vectors[n - 1]}

Repetitive == {<<p, q, p>> : p, q \in GridPoints}

MCInputs == UNION {Vectors[n] : n \in 0 .. MaxPoints} \cup Repetitive

MCBounds == 1 .. GridSize + 1

=============================================================================
