----------------------------- MODULE SectionNav -----------------------------
(***************************************************************************)
(* Section navigation controller of functions.js / initialise-functions.js *)
(*                                                                         *)
(* The page is a column of section wrappers.  The controller keeps the     *)
(* "active" class on one section and on its menu item, changes the page    *)
(* background with $.vegas, and reacts to three sources of events:         *)
(*   - the user scrolling (scrollstart / scrollstop),                      *)
(*   - clicks on main-menu items and on a.link-scroll anchors, which start *)
(*     an animated scroll of 'html, body' and set the class                *)
(*     "same_page_link_in_action" on #main-content (the scroll session),   *)
(*   - direct calls of scroll_to_section and scroll_to_top.                *)
(* jQuery runs the completion callback of $('html, body').animate once per *)
(* matched element, i.e. twice, back to back in the same timer tick; and   *)
(* .stop() cancels a running animation without running its callback.       *)
(* The mobile main menu (module MobileMenu, with its slide queue) is part  *)
(* of the system because scroll_to_section toggles it.                     *)
(*                                                                         *)
(* Data abstraction: pixel offsets are small integers, the page layout is  *)
(* fixed (constants Top, Height, Buffer), background images are model      *)
(* values; fade durations, opacity and the "top" icon are left out.       *)
(***************************************************************************)
EXTENDS Integers, FiniteSets

CONSTANTS
  N,                 \* number of section wrappers, in document order 1..N
  Top,               \* Top[s]    = $(section).offset().top
  Height,            \* Height[s] = $(section).height()
  Buffer,            \* 0.25 * $(window).height()
  MaxScroll,         \* largest scrollTop of the document
  MenuItems,         \* sections s with a menu item #menu-item-<s>
  ScrollMenuItems,   \* those menu items that carry the class "scroll"
  LinkTargets,       \* sections targeted by some a.link-scroll anchor
  Images,            \* background image references
  None,              \* no image / attribute not set
  CustomBg,          \* data-custom-background-img of each section
  DefaultBg,         \* data-default-background-img of <body>
  IsMobile,          \* jQuery.browser.mobile
  ChangeOnMobile,    \* background_settings.change_on_mobile
  ChangeOnNonMobile, \* background_settings.change_on_nonmobile
  UseScript,         \* background_settings.use_script
  JumpChangeBg,      \* change_background values passed by callers of scroll_to_section
  MaxSlides          \* bound on queued menu slides (MobileMenu)

Sections  == 1..N
Positions == 0..MaxScroll

\* The id "#undefined" that update_active_sections_on_scroll builds when no
\* section is visible: it names no section and no menu item.
NoSection == 0

ASSUME N \in Nat \ {0} /\ Buffer \in Nat /\ MaxScroll \in Nat
ASSUME Top \in [Sections -> Nat] /\ Height \in [Sections -> Nat \ {0}]
ASSUME \A s \in Sections \ {N} : Top[s] < Top[s + 1]
ASSUME ScrollMenuItems \subseteq MenuItems /\ MenuItems \subseteq Sections
ASSUME LinkTargets \subseteq Sections /\ \A s \in Sections : Top[s] <= MaxScroll
ASSUME None \notin Images /\ CustomBg \in [Sections -> Images \cup {None}]
ASSUME DefaultBg \in Images \cup {None} /\ JumpChangeBg \subseteq BOOLEAN
ASSUME {IsMobile, ChangeOnMobile, ChangeOnNonMobile, UseScript} \subseteq BOOLEAN

VARIABLES
  ready,      \* $(document).ready handler has run
  pos,        \* $(document).scrollTop()
  scrolling,  \* page_is_scrolling: between scrollstart and scrollstop
  anim,       \* the animation running on 'html, body', or None
  inAction,   \* #main-content has class same_page_link_in_action
  page,       \* active classes and background: [sec, menu, bg, dfltSet]
  fades,      \* number of $.vegas crossfades requested by the last step
  narrow, inline, running, queue, menuCls, icon   \* MobileMenu

Menu == INSTANCE MobileMenu

menuVars == <<narrow, inline, running, queue, menuCls, icon>>
vars == <<ready, pos, scrolling, anim, inAction, page, fades, menuVars>>

\* Completion callbacks of the three animated-scroll call sites.
AnimRec ==
       [to : Positions, cb : {"section"}, sec : Sections, chg : BOOLEAN]
  \cup [to : Positions, cb : {"link", "top"}]

PageRec ==
  [sec : SUBSET Sections, menu : SUBSET MenuItems,
   bg : Images \cup {None}, dfltSet : BOOLEAN]

-----------------------------------------------------------------------------
(* Helpers translated from functions.js                                    *)

\* change_bg_check()
ChangeBgCheck ==
  (IsMobile /\ ChangeOnMobile) \/ (~IsMobile /\ ChangeOnNonMobile)

\* Sections whose buffered extent contains offset p: the jQuery .map in
\* update_active_sections_on_scroll.
VisibleAt(p) ==
  { s \in Sections : /\ p > Top[s] - Buffer
                     /\ p <= Top[s] - Buffer + Height[s] }

\* Image chosen by set_section_to_active: the section's custom background,
\* else the body default.
BgFor(t) ==
  IF t \in Sections /\ CustomBg[t] # None THEN CustomBg[t] ELSE DefaultBg

\* Seeded fault: the scroll update only runs when no section is active.
PassiveUpdatesWhenNoneActive(p, at) == p.sec = {}

\* set_section_to_active(t, menu_item, on_scroll, chg) applied to page p.
\* The menu item is the clicked one or #menu-item-<t>; in every call site
\* both name the same item.  Returns the new page.
SetSectionToActive(p, t, chg) ==
  LET changed == [p EXCEPT !.sec = {t} \cap Sections,
                           !.menu = {t} \cap MenuItems]
  IN  IF chg /\ ChangeBgCheck
      THEN IF BgFor(t) # None THEN [changed EXCEPT !.bg = BgFor(t)]
                              ELSE changed
      ELSE IF UseScript /\ ~p.dfltSet /\ DefaultBg # None
           THEN [changed EXCEPT !.bg = DefaultBg, !.dfltSet = TRUE]
           ELSE changed

\* Number of $.vegas calls made by that call (0 or 1).
VegasCalls(p, t, chg) ==
  IF \/ chg /\ ChangeBgCheck /\ BgFor(t) # None
     \/ ~(chg /\ ChangeBgCheck) /\ UseScript /\ ~p.dfltSet /\ DefaultBg # None
  THEN 1 ELSE 0

\* The target chosen by update_active_sections_on_scroll at offset p, or
\* p.sec itself when a visible section is already active (no update).  The
\* test `current_scroll_section != ""` is true for every jQuery object, so
\* an empty match activates "#undefined".
PassiveTarget(p, at) ==
  LET vis == VisibleAt(at) IN
  IF vis = {} THEN NoSection
  ELSE CHOOSE s \in vis : \A r \in vis : s <= r

PassiveUpdates(p, at) == VisibleAt(at) \cap p.sec = {}

\* update_active_sections_on_scroll at offset `at`; change_background is
\* undefined there, which `!= false` treats as true.
UpdateActiveSectionsOnScroll(p, at) ==
  IF PassiveUpdates(p, at) THEN SetSectionToActive(p, PassiveTarget(p, at), TRUE)
                           ELSE p

PassiveVegasCalls(p, at) ==
  IF PassiveUpdates(p, at) THEN VegasCalls(p, PassiveTarget(p, at), TRUE) ELSE 0

\* Seeded fault: the "already active" early return is dropped.
ScrollToSectionAlways(t, chg) ==
  /\ Menu!ToggleMainMenu
  /\ anim' = [to |-> Top[t], cb |-> "section", sec |-> t, chg |-> chg]

\* scroll_to_section(t, item, chg): no-op when t is already active,
\* otherwise toggle the mobile menu and restart the animation of
\* 'html, body' (.stop() drops the callback of the previous one).  The
\* menu-height correction of the offset equals the layout shift of closing
\* the menu above the content, so the target is Top[t] in content terms.
ScrollToSection(t, chg) ==
  IF t \notin page.sec
  THEN /\ Menu!ToggleMainMenu
       /\ anim' = [to |-> Top[t], cb |-> "section", sec |-> t, chg |-> chg]
  ELSE UNCHANGED <<anim, menuVars>>

-----------------------------------------------------------------------------
(* Actions                                                                 *)

Init ==
  /\ ready = FALSE
  /\ pos \in Positions
  /\ scrolling = FALSE
  /\ anim = None
  /\ inAction = FALSE
  /\ page = [sec |-> {}, menu |-> {}, bg |-> None, dfltSet |-> FALSE]
  /\ fades = 0
  /\ Menu!Init

\* initialise_document_ready_functions: set the visible section active and
\* bind the handlers.
DocumentReady ==
  /\ ~ready
  /\ ready' = TRUE
  /\ page' = UpdateActiveSectionsOnScroll(page, pos)
  /\ fades' = PassiveVegasCalls(page, pos)
  /\ UNCHANGED <<pos, scrolling, anim, inAction, menuVars>>

\* The user moves the page; the first scroll event fires scrollstart.
UserScroll(p) ==
  /\ ready
  /\ p # pos
  /\ pos' = p
  /\ scrolling' = TRUE
  /\ fades' = 0
  /\ UNCHANGED <<ready, anim, inAction, page, menuVars>>

\* scrollstop handler: fires once the page has not moved for the quiet
\* interval, so not while an animation is still moving it.
ScrollStop ==
  /\ scrolling
  /\ IF anim = None THEN TRUE ELSE pos = anim.to
  /\ scrolling' = FALSE
  /\ IF inAction
     THEN UNCHANGED page /\ fades' = 0
     ELSE /\ page' = UpdateActiveSectionsOnScroll(page, pos)
          /\ fades' = PassiveVegasCalls(page, pos)
  /\ UNCHANGED <<ready, pos, anim, inAction, menuVars>>

\* Click on a.link-scroll pointing at section s.
GeneralLinkClick(s) ==
  /\ ready
  /\ inAction' = TRUE
  /\ anim' = [to |-> Top[s], cb |-> "link"]
  /\ fades' = 0
  /\ UNCHANGED <<ready, pos, scrolling, page, menuVars>>

\* Click on main-menu item s with class "scroll" (the menu must be shown).
MenuClick(s) ==
  /\ ready
  /\ Menu!Visible
  /\ inAction' = TRUE
  /\ ScrollToSection(s, ChangeBgCheck)
  /\ fades' = 0
  /\ UNCHANGED <<ready, pos, scrolling, page>>

\* A direct call of scroll_to_section(s, '', chg) from the page markup.
JumpToSection(s, chg) ==
  /\ ready
  /\ ScrollToSection(s, chg)
  /\ fades' = 0
  /\ UNCHANGED <<ready, pos, scrolling, inAction, page>>

\* scroll_to_top(): restarts the animation of 'html, body' towards 0.
ScrollToTop ==
  /\ ready
  /\ anim' = [to |-> 0, cb |-> "top"]
  /\ fades' = 0
  /\ UNCHANGED <<ready, pos, scrolling, inAction, page, menuVars>>

\* Seeded fault: a frame moves two units and may pass the target.
AnimStepOvershoots ==
  /\ anim # None
  /\ pos # anim.to
  /\ pos' = IF pos < anim.to THEN pos + 2 ELSE pos - 2
  /\ scrolling' = TRUE
  /\ fades' = 0
  /\ UNCHANGED <<ready, anim, inAction, page, menuVars>>

\* One animation frame moves the page towards the target (a scroll event).
AnimStep ==
  /\ anim # None
  /\ pos # anim.to
  /\ pos' = IF pos < anim.to THEN pos + 1 ELSE pos - 1
  /\ scrolling' = TRUE
  /\ fades' = 0
  /\ UNCHANGED <<ready, anim, inAction, page, menuVars>>

\* The animation ends: the page is at the target, and the completion
\* callback runs once for html and once for body.
AnimDone ==
  /\ anim # None
  /\ anim' = None
  /\ pos' = anim.to
  /\ scrolling' = (scrolling \/ pos # anim.to)
  /\ CASE anim.cb = "section" ->
            LET p1 == SetSectionToActive(page, anim.sec, anim.chg) IN
            /\ inAction' = FALSE
            /\ page' = SetSectionToActive(p1, anim.sec, anim.chg)
            /\ fades' = VegasCalls(page, anim.sec, anim.chg)
                          + VegasCalls(p1, anim.sec, anim.chg)
       [] anim.cb = "link" ->
            LET p1 == UpdateActiveSectionsOnScroll(page, anim.to) IN
            /\ inAction' = FALSE
            /\ page' = UpdateActiveSectionsOnScroll(p1, anim.to)
            /\ fades' = PassiveVegasCalls(page, anim.to)
                          + PassiveVegasCalls(p1, anim.to)
       [] OTHER ->
            UNCHANGED <<inAction, page>> /\ fades' = 0
  /\ UNCHANGED <<ready, menuVars>>

\* Click on #mobile-menu-icon: toggle_main_menu().
MenuIconClick ==
  /\ ready
  /\ Menu!ToggleMainMenu
  /\ fades' = 0
  /\ UNCHANGED <<ready, pos, scrolling, anim, inAction, page>>

\* $(window).resize: main_menu_visiblity_on_resize() for the new width
\* (the layout functions called there do not touch this state).
Resize(n) ==
  /\ ready
  /\ Menu!Resize(n)
  /\ fades' = 0
  /\ UNCHANGED <<ready, pos, scrolling, anim, inAction, page>>

\* The menu's running slide ends (a jQuery timer tick).
SlideEnd ==
  /\ Menu!SlideEnd
  /\ fades' = 0
  /\ UNCHANGED <<ready, pos, scrolling, anim, inAction, page>>

Next ==
  \/ DocumentReady
  \/ \E p \in Positions : UserScroll(p)
  \/ ScrollStop
  \/ \E s \in LinkTargets : GeneralLinkClick(s)
  \/ \E s \in ScrollMenuItems : MenuClick(s)
  \/ \E s \in Sections, c \in JumpChangeBg : JumpToSection(s, c)
  \/ ScrollToTop
  \/ AnimStep
  \/ AnimDone
  \/ MenuIconClick
  \/ \E n \in BOOLEAN : Resize(n)
  \/ SlideEnd

Spec == Init /\ [][Next]_vars

-----------------------------------------------------------------------------
(* Properties                                                              *)

TypeOK ==
  /\ ready \in BOOLEAN /\ scrolling \in BOOLEAN /\ inAction \in BOOLEAN
  /\ pos \in Positions
  /\ anim \in AnimRec \cup {None}
  /\ page \in PageRec
  /\ fades \in 0..2
  /\ Menu!TypeOK

\* A page is settled when no gesture is in progress and no animation runs.
Settled == ready /\ ~scrolling /\ anim = None

\* Once the page is settled and no scroll session is open, the highlighted
\* section is one whose buffered extent contains the scroll offset: every
\* gesture, link scroll and menu scroll ends with the highlight in place.
HighlightFollowsScrollWhenIdle ==
  (Settled /\ ~inAction /\ VisibleAt(pos) # {}) =>
    page.sec \cap VisibleAt(pos) # {}

\* The same without the proviso on the scroll session: the spec says the
\* session only suppresses passive activation while an animation runs.
HighlightFollowsScroll ==
  (Settled /\ VisibleAt(pos) # {}) => page.sec \cap VisibleAt(pos) # {}

\* Once the menu's slides have run out on a narrow viewport, the icon's
\* "active" class says whether the menu is open: the slide callbacks of
\* toggle_main_menu, queued in click order, and the .show()/.hide() of the
\* resize handler, which act at once, never leave them disagreeing.
MenuIconFollowsMenu ==
  (narrow /\ running = None /\ queue = <<>>) => (icon <=> Menu!Visible)

\* Spec 4.1: a menu closed on a narrow viewport is forced open on a wide
\* one; on a wide viewport, once no slide runs, the menu is visible.
MenuShownOnWide ==
  (~narrow /\ running = None) => Menu!Visible

\* Spec, section 3: a crossfade is requested at most once per activation.
AtMostOneCrossfadePerStep == fades <= 1

\* Spec 4.1: the controller implements the Idle / ScrollingToTarget /
\* Active state machine.  The abstract target is the section of a running
\* scroll_to_section animation; a link or top animation has none.
Abstract == INSTANCE ActiveSection
  WITH Sections <- Sections,
       Positions <- Positions,
       Visible <- [p \in Positions |-> VisibleAt(p)],
       None <- None,
       active <- page.sec,
       target <- IF anim # None /\ anim.cb = "section" THEN anim.sec ELSE None,
       offset <- pos

\* Every behaviour of the handlers is one of the state machine's: the
\* active section only changes to the target of the navigation in flight
\* or, passively, to a section in view when none in view was active; a
\* navigation never targets the section already active.
ImplementsActiveSection == Abstract!Spec

=============================================================================
