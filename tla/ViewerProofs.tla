---------------------------- MODULE ViewerProofs ----------------------------
(***************************************************************************)
(* The properties of Viewer for every set of points and any number of      *)
(* segments, from an invariant that is inductive by itself.                *)
(***************************************************************************)
EXTENDS Viewer, TLAPS

(* An open window, a segment being drawn, and the structure, each with the
   others: what every handler preserves.                                    *)
Consistent == TypeOK /\ StructureIsCurrent /\ OneGesture

(* An answer is a set of indices, and has what ends in the window or passes
   through it.                                                              *)
LEMMA AnswersAreComplete ==
  ASSUME NEW segs, NEW w, NEW S \in Answers(segs, w)
  PROVE  S \subseteq DOMAIN segs /\ Complete(segs, w, S)
BY DEF Answers

(* The viewer starts without a window and without a structure. *)
LEMMA InitIsConsistent == Init => Consistent
<1> SUFFICES ASSUME Init PROVE Consistent
  OBVIOUS
<1>1. segments_ \in Seq(SegmentsOf) /\ indices_ \subseteq DOMAIN segments_
  BY DEF Init
<1> QED  BY <1>1 DEF Init, Consistent, TypeOK, StructureIsCurrent, OneGesture

(* window_click, by mouse or by key: the window that opens has a structure that
   was built from the segments as they are, or the handler has thrown.      *)
LEMMA ClickKeepsConsistent ==
  ASSUME Consistent, NEW pt \in Points, window_click(pt)
  PROVE  Consistent'
<1> USE NoneIsNoSegment DEF Consistent
<1>1. TypeOK /\ <<pt, pt>> \in SegmentsOf
  BY DEF SegmentsOf
<1>2. CASE CloseWindow
  BY <1>1, <1>2 DEF window_click, CloseWindow, TypeOK, StructureIsCurrent, OneGesture
<1>3. CASE OpenWindow(pt)
  <2>1. /\ window_' = <<pt, pt>> /\ new_segment_' = None
        /\ UNCHANGED <<segments_, last_mouse_, indices_>>
    BY <1>3 DEF OpenWindow, window_click
  <2>2. \/ windowing_ # None /\ UNCHANGED <<windowing_, threw>>
        \/ windowing_ = None /\ windowing_' = segments_ /\ UNCHANGED threw
        \/ threw' = TRUE /\ UNCHANGED windowing_
    BY <1>3 DEF OpenWindow, BuildStruct
  <2>3. old_window_' \in BOOLEAN
    BY <1>1, <1>3, <2>2 DEF OpenWindow, TypeOK
  <2>4. TypeOK'
    BY <1>1, <2>1, <2>2, <2>3 DEF TypeOK
  <2>5. StructureIsCurrent'
    BY <1>1, <2>1, <2>2 DEF TypeOK, StructureIsCurrent
  <2> QED  BY <2>1, <2>4, <2>5 DEF OneGesture
<1> QED  BY <1>2, <1>3 DEF window_click

(* Drawing: the end of a segment drops the structure. *)
LEMMA DrawingKeepsConsistent ==
  ASSUME Consistent, NEW pt \in Points, StartSegment(pt) \/ EndSegment(pt)
  PROVE  Consistent'
<1> USE NoneIsNoSegment DEF Consistent
<1>1. TypeOK /\ <<pt, pt>> \in SegmentsOf
  BY DEF SegmentsOf
<1>2. CASE StartSegment(pt)
  BY <1>1, <1>2 DEF StartSegment, TypeOK, StructureIsCurrent, OneGesture
<1>3. CASE EndSegment(pt)
  <2>1. new_segment_ \in SegmentsOf /\ segments_' = Append(segments_, new_segment_)
    BY <1>1, <1>3 DEF EndSegment, TypeOK
  <2>2. segments_' \in Seq(SegmentsOf) /\ DOMAIN segments_ \subseteq DOMAIN segments_'
    BY <1>1, <2>1 DEF TypeOK
  <2>3. TypeOK'
    BY <1>1, <1>3, <2>2 DEF EndSegment, DropStructure, TypeOK
  <2>4. StructureIsCurrent' /\ OneGesture'
    BY <1>3 DEF EndSegment, DropStructure, StructureIsCurrent, OneGesture
  <2> QED  BY <2>3, <2>4
<1> QED  BY <1>2, <1>3

(* Moves of the mouse: they ask the structure, which is there. *)
LEMMA MoveKeepsConsistent ==
  ASSUME Consistent, ~threw, NEW pt \in Points, on_move(pt)
  PROVE  Consistent'
<1> USE NoneIsNoSegment DEF Consistent
<1>1. /\ last_mouse_' = pt
      /\ UNCHANGED <<segments_, old_window_, windowing_, threw>>
  BY DEF on_move
<1>2. CASE MoveWindow(pt)
  <2>1. window_ \in SegmentsOf /\ window_' = <<window_[1], pt>> /\ new_segment_' = new_segment_
    BY <1>2 DEF MoveWindow, TypeOK
  <2>2. window_' \in SegmentsOf
    BY <2>1 DEF SegmentsOf
  <2>3. windowing_ = segments_
    BY <1>2 DEF MoveWindow, StructureIsCurrent
  <2>4. indices_' \in Answers(windowing_, WindowOf(window_'))
    BY <1>2 DEF MoveWindow, Update
  <2>5. indices_' \subseteq DOMAIN segments_
    BY <2>3, <2>4, AnswersAreComplete
  <2>6. TypeOK'
    BY <1>1, <2>1, <2>2, <2>5 DEF TypeOK
  <2> QED  BY <1>1, <1>2, <2>1, <2>6 DEF MoveWindow, StructureIsCurrent, OneGesture
<1>3. CASE MoveEnd(pt)
  <2>1. new_segment_' \in SegmentsOf \cup {None}
    BY <1>3 DEF MoveEnd, TypeOK, SegmentsOf
  <2> QED
    BY <1>1, <1>3, <2>1 DEF MoveEnd, TypeOK, StructureIsCurrent, OneGesture
<1> QED  BY <1>2, <1>3 DEF on_move

(* Every handler, and Escape. *)
LEMMA StepKeepsConsistent == Consistent /\ [Next]_vars => Consistent'
<1> SUFFICES ASSUME Consistent, [Next]_vars PROVE Consistent'
  OBVIOUS
<1> USE DEF Consistent
<1>1. ASSUME ~threw, NEW pt \in Points, on_press(pt)
      PROVE  Consistent'
  BY <1>1, ClickKeepsConsistent, DrawingKeepsConsistent DEF on_press, PressInWindow
<1>2. ASSUME ~threw, NEW pt \in Points, on_move(pt)
      PROVE  Consistent'
  BY <1>2, MoveKeepsConsistent
<1>3. CASE Escape
  BY <1>3 DEF Escape, TypeOK, StructureIsCurrent, OneGesture
<1>4. CASE Space
  <2>1. last_mouse_ \in Points
    BY DEF TypeOK
  <2> QED  BY <1>4, <2>1, ClickKeepsConsistent DEF Space
<1>5. CASE UNCHANGED vars
  BY <1>5 DEF vars, TypeOK, StructureIsCurrent, OneGesture
<1> QED  BY <1>1, <1>2, <1>3, <1>4, <1>5 DEF Next

(* The invariant holds for every picture, however it was drawn. *)
THEOREM ViewerIsConsistent == Spec => []Consistent
<1>1. Init => Consistent
  BY InitIsConsistent
<1>2. Consistent /\ [Next]_vars => Consistent'
  BY StepKeepsConsistent
<1> QED  BY <1>1, <1>2, PTL DEF Spec

(* Every variable of the viewer keeps its type; what on_paint highlights are the
   numbers of segments that exist.                                          *)
THEOREM TypeCorrect == Spec => []TypeOK
<1>1. Consistent => TypeOK
  BY DEF Consistent
<1> QED  BY <1>1, ViewerIsConsistent, PTL

(* The structure behind an open window is never missing and never stale. *)
THEOREM StructureStaysCurrent == Spec => []StructureIsCurrent
<1>1. Consistent => StructureIsCurrent
  BY DEF Consistent
<1> QED  BY <1>1, ViewerIsConsistent, PTL

(* A window and a segment being drawn exclude each other. *)
THEOREM OneGestureAtATime == Spec => []OneGesture
<1>1. Consistent => OneGesture
  BY DEF Consistent
<1> QED  BY <1>1, ViewerIsConsistent, PTL

(* A window that moves highlights what ends in it, and what passes through it if
   no segment lies on the line of a side: only on_move moves it, and it asks a
   structure of the segments on the screen.                                 *)
THEOREM HighlightsFollowTheWindow == Spec => HighlightsFollow
<1> DEFINE Highlighted == Complete(segments_, WindowOf(window_'), indices_')
<1>1. Consistent /\ [Next]_vars => [WindowMoves => Highlighted]_vars
  <2> SUFFICES ASSUME Consistent, Next, WindowMoves PROVE Highlighted
    OBVIOUS
  <2> USE DEF Consistent
  <2>1. window_ # None /\ window_' # None /\ window_' # window_ /\ ~threw
    BY DEF WindowMoves, Next
  <2>2. PICK pt \in Points : MoveWindow(pt)
    BY <2>1 DEF Next, on_press, on_move, PressInWindow, StartSegment, EndSegment,
                window_click, CloseWindow, OpenWindow, Escape, Space, MoveEnd
  <2>3. indices_' \in Answers(segments_, WindowOf(window_'))
    BY <2>1, <2>2 DEF MoveWindow, Update, StructureIsCurrent
  <2> QED  BY <2>3, AnswersAreComplete
<1> QED  BY <1>1, ViewerIsConsistent, PTL DEF Spec, HighlightsFollow

=============================================================================
