------------------------------- MODULE Viewer -------------------------------
(***************************************************************************)
(* segment_tree_viewer of geom/segment_tree's main.cpp: segments are drawn *)
(* with two clicks each; Space opens a window, which follows the mouse and *)
(* highlights the segments it meets until a click closes it. The structure *)
(* that answers for the window is built when a window is opened, and kept  *)
(* until the segments change.                                              *)
(*                                                                         *)
(* windowing_t is here what Geometry says of it, and Windowing checks. The *)
(* handlers are called by the event loop, one at a time. An exception that *)
(* leaves one ends the program, as Qt handlers must not throw.             *)
(***************************************************************************)
EXTENDS Geometry

CONSTANTS
  Points,       \* the points that can be clicked at
  MaxSegments,  \* bound: on the segments that are drawn
  None          \* an empty optional, a null pointer

SegmentsOf == Points \X Points

ASSUME NoneIsNoSegment == None \notin SegmentsOf /\ None \notin Seq(SegmentsOf)

VARIABLES
  segments_,
  new_segment_,
  window_,
  old_window_,   \* whether the last window is still shown
  last_mouse_,
  windowing_,    \* the segments that the structure was built from
  indices_,
  threw          \* an exception has left a handler

vars == <<segments_, new_segment_, window_, old_window_, last_mouse_, windowing_, indices_, threw>>

(* The range of a window: its corners come in any order. *)
WindowOf(s) == [x |-> XRange(s), y |-> YRange(s)]

Init ==
  /\ segments_ = <<>>
  /\ new_segment_ = None
  /\ window_ = None
  /\ old_window_ = FALSE
  /\ last_mouse_ \in Points    \* point_type may leave it uninitialized
  /\ windowing_ = None
  /\ indices_ = {}
  /\ threw = FALSE

-----------------------------------------------------------------------------

(* build_struct *)
BuildStruct ==
  IF windowing_ # None
  THEN UNCHANGED <<windowing_, threw>>
  ELSE \/ ~Fails(segments_) /\ windowing_' = segments_ /\ UNCHANGED threw
       \/ MayFail(segments_) /\ threw' = TRUE /\ UNCHANGED windowing_

CloseWindow ==
  /\ window_ # None
  /\ window_' = None
  /\ old_window_' = TRUE
  /\ UNCHANGED <<windowing_, threw>>

OpenWindow(pt) ==
  /\ window_ = None
  /\ window_' = <<pt, pt>>
  /\ BuildStruct
  /\ old_window_' = (old_window_ /\ threw')

KeepSegment(pt) ==    \* mutant: new_segment_ is not reset
  /\ CloseWindow \/ OpenWindow(pt)
  /\ UNCHANGED <<segments_, new_segment_, last_mouse_, indices_>>
window_click(pt) ==
  /\ new_segment_' = None
  /\ CloseWindow \/ OpenWindow(pt)
  /\ UNCHANGED <<segments_, last_mouse_, indices_>>

(* on_press *)
PressInWindow(pt) == window_ # None /\ window_click(pt)

StartSegment(pt) ==
  /\ window_ = None /\ new_segment_ = None
  /\ new_segment_' = <<pt, pt>>
  /\ UNCHANGED <<segments_, window_, old_window_, last_mouse_, windowing_, indices_, threw>>

KeepStructure == windowing_    \* mutant: the structure is not dropped
DropStructure == None

EndSegment(pt) ==
  /\ window_ = None /\ new_segment_ # None
  /\ Len(segments_) < MaxSegments
  /\ segments_' = Append(segments_, new_segment_)
  /\ new_segment_' = None
  /\ windowing_' = DropStructure
  /\ UNCHANGED <<window_, old_window_, last_mouse_, indices_, threw>>

on_press(pt) == PressInWindow(pt) \/ StartSegment(pt) \/ EndSegment(pt)

(* on_key *)
Escape ==
  /\ window_' = None
  /\ new_segment_' = None
  /\ UNCHANGED <<segments_, old_window_, last_mouse_, windowing_, indices_, threw>>

Space == window_click(last_mouse_)

(* on_move: the second corner, or end, follows the mouse. *)
UpdateBefore(window) == Answers(windowing_, WindowOf(window_))    \* mutant: asked too early
UpdateByEnds(window) ==    \* mutant: numbers of ends instead of segments
  {{2 * i : i \in S} : S \in Answers(windowing_, WindowOf(window))}
Update(window) == Answers(windowing_, WindowOf(window))

MoveWindow(pt) ==
  /\ window_ # None
  /\ window_' = <<window_[1], pt>>
  /\ indices_' \in Update(window_')
  /\ UNCHANGED new_segment_

MoveEnd(pt) ==
  /\ window_ = None
  /\ new_segment_' = IF new_segment_ = None THEN None ELSE <<new_segment_[1], pt>>
  /\ UNCHANGED <<window_, indices_>>

on_move(pt) ==
  /\ last_mouse_' = pt
  /\ MoveWindow(pt) \/ MoveEnd(pt)
  /\ UNCHANGED <<segments_, old_window_, windowing_, threw>>

Next ==
  /\ ~threw
  /\ \/ \E pt \in Points : on_press(pt) \/ on_move(pt)
     \/ Escape
     \/ Space

Spec == Init /\ [][Next]_vars

-----------------------------------------------------------------------------
(* Properties. *)

TypeOK ==
  /\ segments_ \in Seq(SegmentsOf)
  /\ new_segment_ \in SegmentsOf \cup {None}
  /\ window_ \in SegmentsOf \cup {None}
  /\ old_window_ \in BOOLEAN /\ threw \in BOOLEAN
  /\ last_mouse_ \in Points
  /\ windowing_ \in Seq(SegmentsOf) \cup {None}
  /\ indices_ \subseteq DOMAIN segments_

(* While a window is open there is a structure to ask, and it was built from the
   segments as they are, although it is built once for several windows, and
   segments are drawn in between.                                           *)
StructureIsCurrent ==
  ~threw =>
    /\ window_ # None => windowing_ # None
    /\ windowing_ # None => windowing_ = segments_

(* One gesture at a time: no segment is being drawn while a window is open. *)
OneGesture == window_ = None \/ new_segment_ = None

(* When a window follows the mouse, every segment on the screen that ends in it
   is highlighted, and every one that passes through it, unless a segment lies on
   the line of one of its sides.                                            *)
WindowMoves == window_ # None /\ window_' \notin {None, window_}
HighlightsFollow == [][WindowMoves => Complete(segments_, WindowOf(window_'), indices_')]_vars

=============================================================================
