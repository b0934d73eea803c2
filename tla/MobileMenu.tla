----------------------------- MODULE MobileMenu -----------------------------
(***************************************************************************)
(* The mobile main menu (#main-menu) and its icon (#mobile-menu-icon):     *)
(* toggle_main_menu and main_menu_visiblity_on_resize of functions.js.     *)
(*                                                                         *)
(* toggle_main_menu decides from $(menu).is(':visible') and queues a       *)
(* slideUp or slideDown on the menu's jQuery "fx" queue; the slide's       *)
(* completion callback sets or clears the icon's "active" class.  The      *)
(* resize handler calls .show() / .hide(), which are not queued and act    *)
(* at once, while a slide may be running.                                  *)
(*                                                                         *)
(* jQuery semantics kept: effects of one element run in order; a slide     *)
(* whose target state already holds when it starts animates nothing and    *)
(* does not hide at its end, but still runs its callback; slideDown shows  *)
(* the element when it starts, slideUp hides it when it ends; an element   *)
(* in a running slide is :visible.  .show() sets display to "" and, if the *)
(* stylesheet still hides the element, to "block"; .hide() sets "none".   *)
(* The stylesheet hides #main-menu on narrow viewports.                    *)
(***************************************************************************)
EXTENDS Naturals, Sequences

CONSTANTS
  MaxSlides,  \* bound on slides waiting behind the running one
  None        \* no slide running

ASSUME MaxSlides \in Nat \ {0}

VARIABLES
  narrow,     \* viewport().width <= xs_screen_max
  inline,     \* inline display of #main-menu: "unset", "block" or "none"
  running,    \* the running slide [op, live], or None
  queue,      \* slides queued behind it ("up" / "down")
  menuCls,    \* "closed" / "opened" class left by toggle_main_menu, or "none"
  icon        \* #mobile-menu-icon has class "active"

menuVars == <<narrow, inline, running, queue, menuCls, icon>>

\* $(menu).is(':visible') for inline display d on viewport n.
VisibleWith(d, n) == d = "block" \/ (d = "unset" /\ ~n)

Visible == VisibleWith(inline, narrow)

\* .show() on viewport n.
ShowOn(n) == IF n THEN "block" ELSE "unset"

\* A slide op starting with inline display d: it is live unless its
\* target state already holds; a live slideDown shows the menu at once.
Start(op, d) ==
  LET live == IF op = "down" THEN ~VisibleWith(d, narrow)
                             ELSE VisibleWith(d, narrow)
  IN  [run |-> [op |-> op, live |-> live],
       inline |-> IF op = "down" /\ live THEN ShowOn(narrow) ELSE d]

Init ==
  /\ narrow \in BOOLEAN
  /\ inline = "unset"
  /\ running = None
  /\ queue = <<>>
  /\ menuCls = "none"
  /\ icon = FALSE

\* toggle_main_menu(): on a narrow viewport, close a visible menu (class
\* menu_closed_on_xs, slideUp) or open a hidden one (menu_opened_on_xs,
\* slideDown); the slide starts at once when the queue is idle.  On a wide
\* viewport it does nothing.
ToggleMainMenu ==
  IF narrow
  THEN LET op == IF Visible THEN "up" ELSE "down" IN
       /\ Len(queue) < MaxSlides
       /\ menuCls' = IF op = "up" THEN "closed" ELSE "opened"
       /\ IF running = None
          THEN LET s == Start(op, inline) IN
               /\ running' = s.run
               /\ inline' = s.inline
               /\ UNCHANGED queue
          ELSE /\ queue' = Append(queue, op)
               /\ UNCHANGED <<running, inline>>
       /\ UNCHANGED <<narrow, icon>>
  ELSE UNCHANGED menuVars

\* Seeded fault: on a narrow viewport only a closed menu is re-applied.
ResizeKeepsInline(n) ==
  /\ narrow' = n
  /\ inline' = CASE ~n /\ menuCls = "closed" -> ShowOn(n)
                 [] n /\ menuCls = "closed"  -> "none"
                 [] OTHER                    -> inline
  /\ UNCHANGED <<running, queue, menuCls, icon>>

\* $(window).resize -> main_menu_visiblity_on_resize() for the new width:
\* a menu closed on a narrow viewport is shown on a wide one; on a narrow
\* viewport the closed or opened state is re-applied.
Resize(n) ==
  /\ narrow' = n
  /\ inline' = CASE ~n /\ menuCls = "closed" -> ShowOn(n)
                 [] n /\ menuCls = "closed"  -> "none"
                 [] n /\ menuCls = "opened"  -> ShowOn(n)
                 [] OTHER                    -> inline
  /\ UNCHANGED <<running, queue, menuCls, icon>>

\* The running slide ends: a live slideUp hides the menu, the callback
\* sets (slideDown) or clears (slideUp) the icon's class, and the next
\* queued slide starts.
SlideEnd ==
  /\ running # None
  /\ LET d == IF running.op = "up" /\ running.live THEN "none" ELSE inline
     IN  IF queue = <<>>
         THEN running' = None /\ inline' = d /\ UNCHANGED queue
         ELSE LET s == Start(Head(queue), d) IN
              /\ running' = s.run
              /\ inline' = s.inline
              /\ queue' = Tail(queue)
  /\ icon' = (running.op = "down")
  /\ UNCHANGED <<narrow, menuCls>>

TypeOK ==
  /\ narrow \in BOOLEAN /\ icon \in BOOLEAN
  /\ inline \in {"unset", "block", "none"}
  /\ running \in [op : {"up", "down"}, live : BOOLEAN] \cup {None}
  /\ queue \in Seq({"up", "down"}) /\ Len(queue) <= MaxSlides
  /\ menuCls \in {"none", "closed", "opened"}

=============================================================================
