----------------------------- MODULE PopupModal -----------------------------
(***************************************************************************)
(* The popup (#common-modal) of functions.js / initialise-functions.js.    *)
(*                                                                         *)
(* A popup link calls populate_and_open_modal(event, content, section,     *)
(* class): it copies the content container into the modal body, dims the *)
(* page, opens the Bootstrap modal and binds NEW handlers for the          *)
(* shown / hide / hidden events on every call; they are never unbound.     *)
(* initialise_document_ready_functions binds one more handler per event at *)
(* page load, before any of those: on shown it initialises a popup form    *)
(* (validate_and_submit_forms + reset_forms); on hide it starts a 500 ms   *)
(* timer that removes '#common-modal form.validate-form' from the modal.   *)
(* Bootstrap runs shown and hidden after its transitions, so the user,     *)
(* the two transitions and the timer interleave.                           *)
(*                                                                         *)
(* Data abstraction: a popup link is a record [content, sec, cls] of the   *)
(* arguments it passes; the modal body is the content it holds and whether *)
(* its form is still there.  All bound handlers run on each event; their  *)
(* effects are idempotent except the in-popup scroll, where the last       *)
(* handler to animate wins (.stop() before each animate).  So the list of  *)
(* bound handlers is kept as the links in order of their LAST binding:     *)
(* rebinding a link moves it to the end, which leaves every event's effect *)
(* unchanged and keeps the list finite.  Layout (centring, backdrop        *)
(* height), carousels and videos are left out.                             *)
(***************************************************************************)
EXTENDS Naturals, Sequences, SequencesExt

CONSTANTS
  Contents,       \* ids of the content containers a popup link may name
  HasForm,        \* contents holding a form.validate-form
  Lightbox,       \* contents holding a[data-lightbox] anchors
  SectionsOf,     \* SectionsOf[c]: selectors that find an element in c
  Links,          \* popup links of the page: [content, sec, cls]
  MaxTimers,      \* bound on pending 500 ms removal timers
  None            \* argument not given / nothing

ASSUME HasForm \subseteq Contents /\ Lightbox \subseteq Contents
ASSUME \A l \in Links : l.content \in Contents
ASSUME MaxTimers \in Nat \ {0}

VARIABLES
  phase,      \* Bootstrap modal: "hidden", "showing", "shown", "hiding"
  body,       \* modal body: None or [content, form]
  handlers,   \* links whose populate_and_open_modal handlers are bound
  cls,        \* classes added to #common-modal by add_class_to_modal
  renamed,    \* contents whose data-lightbox is renamed data-mod-lightbox
  dimmed,     \* #outer-container faded to 0.2
  scrollTo,   \* section the popup was scrolled to when shown, or None
  formInit,   \* the popup form has its validation / submit handlers
  timers      \* pending 500 ms removal timers

vars == <<phase, body, handlers, cls, renamed, dimmed, scrollTo,
          formInit, timers>>

Classes == {l.cls : l \in Links} \ {None}

-----------------------------------------------------------------------------
(* Actions                                                                 *)

Init ==
  /\ phase = "hidden"
  /\ body = None
  /\ handlers = <<>>
  /\ cls = {}
  /\ renamed = {}
  /\ dimmed = FALSE
  /\ scrollTo = None
  /\ formInit = FALSE
  /\ timers = 0

\* Seeded fault: the class is added without the test add_class != "".
OpenAddsNone(l) ==
  /\ phase = "hidden"
  /\ phase' = "showing"
  /\ body' = [content |-> l.content, form |-> l.content \in HasForm]
  /\ dimmed' = TRUE
  /\ scrollTo' = None
  /\ renamed' = renamed \cup ({l.content} \cap Lightbox)
  /\ cls' = cls \cup {l.cls}
  /\ handlers' = Append(Remove(handlers, l), l)
  /\ formInit' = FALSE
  /\ UNCHANGED timers

\* populate_and_open_modal for link l: empty the body and copy the content
\* in, dim the page, open the modal (Bootstrap resets its scrollTop), rename
\* the lightbox attributes of the content, add the class, bind handlers.
Open(l) ==
  /\ phase = "hidden"
  /\ phase' = "showing"
  /\ body' = [content |-> l.content, form |-> l.content \in HasForm]
  /\ dimmed' = TRUE
  /\ scrollTo' = None
  /\ renamed' = renamed \cup ({l.content} \cap Lightbox)
  /\ cls' = cls \cup ({l.cls} \ {None})
  /\ handlers' = Append(Remove(handlers, l), l)
  /\ formInit' = FALSE
  /\ UNCHANGED timers

\* The section the shown handlers leave the popup scrolled to: the last
\* bound handler whose section_in_modal is found in the current body.
ScrollTarget(hs, b) ==
  LET i == SelectLastInSeq(hs, LAMBDA h : h.sec \in SectionsOf[b.content])
  IN  IF i = 0 THEN None ELSE hs[i].sec

\* shown.bs.modal: the page-load handler initialises a popup form still in
\* the body; then every bound populate handler scrolls to its section.
Shown ==
  /\ phase = "showing"
  /\ phase' = "shown"
  /\ formInit' = body.form
  /\ scrollTo' = ScrollTarget(handlers, body)
  /\ UNCHANGED <<body, handlers, cls, renamed, dimmed, timers>>

\* Seeded fault: the hide handlers do not fade the page back in.
HideKeepsDim ==
  /\ phase = "shown"
  /\ timers < MaxTimers
  /\ phase' = "hiding"
  /\ timers' = IF body.form THEN timers + 1 ELSE timers
  /\ renamed' = renamed \ {handlers[i].content : i \in DOMAIN handlers}
  /\ UNCHANGED <<dimmed, body, handlers, cls, scrollTo, formInit>>

\* The user closes the popup (hide.bs.modal): the page-load handler starts
\* the removal timer if a popup form is in the body; every populate
\* handler fades the page in and restores the lightbox attributes of its
\* own content.
Hide ==
  /\ phase = "shown"
  /\ timers < MaxTimers
  /\ phase' = "hiding"
  /\ timers' = IF body.form THEN timers + 1 ELSE timers
  /\ dimmed' = FALSE
  /\ renamed' = renamed \ {handlers[i].content : i \in DOMAIN handlers}
  /\ UNCHANGED <<body, handlers, cls, scrollTo, formInit>>

\* hidden.bs.modal: every populate handler empties the body and removes
\* its own class.
Hidden ==
  /\ phase = "hiding"
  /\ phase' = "hidden"
  /\ body' = None
  /\ cls' = cls \ {handlers[i].cls : i \in DOMAIN handlers}
  /\ formInit' = FALSE
  /\ UNCHANGED <<handlers, renamed, dimmed, scrollTo, timers>>

\* A 500 ms timer fires: '#common-modal form.validate-form' is removed from
\* whatever the body holds now (reset_captcha() of the remaining forms is
\* not part of this module).
RemovalTimer ==
  /\ timers > 0
  /\ timers' = timers - 1
  /\ body' = IF body = None THEN None ELSE [body EXCEPT !.form = FALSE]
  /\ formInit' = FALSE
  /\ UNCHANGED <<phase, handlers, cls, renamed, dimmed, scrollTo>>

Next ==
  \/ \E l \in Links : Open(l)
  \/ Shown
  \/ Hide
  \/ Hidden
  \/ RemovalTimer

Spec == Init /\ [][Next]_vars

-----------------------------------------------------------------------------
(* Properties                                                              *)

TypeOK ==
  /\ phase \in {"hidden", "showing", "shown", "hiding"}
  /\ body \in {None} \cup [content : Contents, form : BOOLEAN]
  /\ handlers \in Seq(Links)
  /\ cls \subseteq Classes /\ renamed \subseteq Lightbox
  /\ dimmed \in BOOLEAN /\ formInit \in BOOLEAN
  /\ timers \in 0..MaxTimers

\* Once a popup is closed, whatever sequence of popups was opened before,
\* the page is as it was: body emptied, no popup class left on the modal,
\* every lightbox attribute restored and the page no longer dimmed.
PageRestoredWhenClosed ==
  phase = "hidden" =>
    /\ body = None /\ cls = {} /\ renamed = {} /\ ~dimmed

\* A popup whose content holds a form shows that form, ready to submit.
PopupFormUsable ==
  (phase = "shown" /\ body.content \in HasForm) => body.form /\ formInit

\* A shown popup is scrolled to the section its own link asked for (or
\* stays at the top when that link named none).
PopupScrollsToRequestedSection ==
  phase = "shown" =>
    scrollTo = IF Last(handlers).sec \in SectionsOf[body.content]
               THEN Last(handlers).sec ELSE None

=============================================================================
