---------------------------- MODULE ActiveSection ----------------------------
(***************************************************************************)
(* What the section navigation controller promises (spec section 4.1),    *)
(* stated without animations, classes or handlers.                         *)
(*                                                                         *)
(* The controller is Idle (no active section), ScrollingToTarget(t) or     *)
(* Active(s); here these are the pair (active, target).  A navigation to   *)
(* a section that is not already active makes it the target; the most    *)
(* recent request wins, and a scroll that is not a section navigation     *)
(* (to the top, or to an anchor) drops the target.  On completion the      *)
(* target becomes the one active section.  Passive activation picks a     *)
(* section whose extent contains the scroll offset, only when no active    *)
(* section is in view, and never a section other than a pending target.    *)
(***************************************************************************)
CONSTANTS
  Sections,   \* section ids
  Positions,  \* scroll offsets
  Visible,    \* Visible[p]: sections whose buffered extent contains p
  None        \* no target

VARIABLES
  active,     \* set of active sections (empty when Idle)
  target,     \* section of the navigation in flight, or None
  offset      \* scroll offset of the document

vars == <<active, target, offset>>

Init ==
  /\ active = {}
  /\ target = None
  /\ offset \in Positions

\* A click or jump towards section t.
Navigate(t) ==
  /\ t \notin active
  /\ target' = t
  /\ UNCHANGED <<active, offset>>

\* A scroll that is not a section navigation supersedes the pending one.
Cancel ==
  /\ target # None
  /\ target' = None
  /\ UNCHANGED <<active, offset>>

\* The document is scrolled (gesture or animation frame).
Move ==
  /\ offset' \in Positions
  /\ UNCHANGED <<active, target>>

\* ScrollingToTarget(t) -> Active(t), with the document at its final offset.
Arrive ==
  /\ target # None
  /\ active' = {target}
  /\ target' = None
  /\ offset' \in Positions

\* Passive activation of s at the (new) offset.
Passive(s) ==
  /\ target \in {None, s}
  /\ offset' \in Positions
  /\ s \in Visible[offset']
  /\ active \cap Visible[offset'] = {}
  /\ active' = {s}
  /\ UNCHANGED target

Next ==
  \/ \E t \in Sections : Navigate(t)
  \/ Cancel
  \/ Move
  \/ Arrive
  \/ \E s \in Sections : Passive(s)

Spec == Init /\ [][Next]_vars

=============================================================================
