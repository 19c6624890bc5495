------------------------------ MODULE ViewerMC ------------------------------
(* Viewer on the corners of a square and its centre. *)
EXTENDS Viewer

MCPoints == {<<1, 1>>, <<1, 3>>, <<3, 1>>, <<3, 3>>, <<2, 2>>}

=============================================================================
