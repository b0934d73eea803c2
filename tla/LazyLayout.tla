----------------------------- MODULE LazyLayout -----------------------------
(***************************************************************************)
(* Section content positioning and lazy images: sections_content_vertical_*)
(* position and load_images of functions.js, called from the document     *)
(* ready, resize and window load handlers of initialise-functions.js.      *)
(*                                                                         *)
(* sections_content_vertical_position sets each .content-wrapper to        *)
(* position static when its height exceeds 0.8 * window height (so the     *)
(* page can be scrolled to it) and absolute otherwise; on a narrow         *)
(* viewport every wrapper is static.  At window load, load_images("lazy", *)
(* true, true) gives every img.lazy with a data-img-src its src, and sets  *)
(* an onload that repeats the positioning on the new Image object of the   *)
(* LAST of them in document order only.  The browser loads the images in   *)
(* any order, and any of them may fail.                                    *)
(*                                                                         *)
(* Data abstraction: heights are small integers in units of the window    *)
(* height (Avail is 0.8 of it), an image adds its height to its section's *)
(* content once loaded; the window height is fixed, a resize changes the  *)
(* width class only.  Other layout work of these handlers (carousels,      *)
(* tabs, grid clearfix, background preloading) does not touch this state. *)
(***************************************************************************)
EXTENDS Naturals, Sequences, FiniteSetsExt

CONSTANTS
  Sections,   \* section wrappers
  Order,      \* img.lazy elements with a data-img-src, in document order
  SectionOf,  \* SectionOf[i]: the section holding image i
  Base,       \* Base[s]: content height of s without its lazy images
  ImgH,       \* ImgH[i]: height image i adds once loaded
  Avail,      \* 0.8 * $(window).height()
  IsMobile,   \* jQuery.browser.mobile
  None        \* no onload bound

Images == {Order[k] : k \in DOMAIN Order}

ASSUME Order \in Seq(Images) /\ Len(Order) > 0
ASSUME SectionOf \in [Images -> Sections]
ASSUME Base \in [Sections -> Nat] /\ ImgH \in [Images -> Nat] /\ Avail \in Nat
ASSUME IsMobile \in BOOLEAN

VARIABLES
  stage,     \* "parsing", "ready" (document ready ran), "loaded" (window load ran)
  narrow,    \* viewport().width <= xs_screen_max
  img,       \* img[i]: "lazy", "loading", "loaded" or "failed"
  position,  \* position[s]: inline position of the .content-wrapper, or "unset"
  hook       \* the image whose Image object carries the onload, or None

vars == <<stage, narrow, img, position, hook>>

Loaded == {i \in Images : img[i] = "loaded"}

\* $(content_wrapper).height() of section s when the images L are loaded.
ContentHeight(s, L) ==
  Base[s] + MapThenSumSet(LAMBDA i : ImgH[i], {i \in L : SectionOf[i] = s})

\* sections_content_vertical_position() on viewport n with images L loaded.
VerticalPosition(n, L) ==
  [s \in Sections |->
     IF ~n /\ ContentHeight(s, L) <= Avail THEN "absolute" ELSE "static"]

-----------------------------------------------------------------------------
(* Actions                                                                 *)

Init ==
  /\ stage = "parsing"
  /\ narrow \in BOOLEAN
  /\ img = [i \in Images |-> "lazy"]
  /\ position = [s \in Sections |-> "unset"]
  /\ hook = None

\* initialise_document_ready_functions: positions the content and binds
\* the resize handler.
DocumentReady ==
  /\ stage = "parsing"
  /\ stage' = "ready"
  /\ position' = VerticalPosition(narrow, Loaded)
  /\ UNCHANGED <<narrow, img, hook>>

\* initialise_window_load_functions: positions the content (not on a
\* narrow mobile), then load_images("lazy", true, true) starts every lazy
\* image and binds the onload to the last one, under the same condition.
WindowLoad ==
  /\ stage = "ready"
  /\ stage' = "loaded"
  /\ position' = IF ~IsMobile \/ ~narrow THEN VerticalPosition(narrow, Loaded)
                                        ELSE position
  /\ img' = [i \in Images |-> "loading"]
  /\ hook' = IF ~IsMobile \/ ~narrow THEN Order[Len(Order)] ELSE None
  /\ UNCHANGED narrow

\* Image i finishes loading; if it carries the onload, the content is
\* positioned again for the viewport of that moment.
ImageLoad(i) ==
  /\ img[i] = "loading"
  /\ img' = [img EXCEPT ![i] = "loaded"]
  /\ position' = IF i = hook THEN VerticalPosition(narrow, Loaded \cup {i})
                           ELSE position
  /\ UNCHANGED <<stage, narrow, hook>>

\* Image i fails to load: no onload runs.
ImageError(i) ==
  /\ img[i] = "loading"
  /\ img' = [img EXCEPT ![i] = "failed"]
  /\ UNCHANGED <<stage, narrow, position, hook>>

\* $(window).resize: the content is positioned again, except on mobile.
Resize(n) ==
  /\ stage # "parsing"
  /\ narrow' = n
  /\ position' = IF ~IsMobile THEN VerticalPosition(n, Loaded) ELSE position
  /\ UNCHANGED <<stage, img, hook>>

Next ==
  \/ DocumentReady
  \/ WindowLoad
  \/ \E i \in Images : ImageLoad(i) \/ ImageError(i)
  \/ \E n \in BOOLEAN : Resize(n)

Spec == Init /\ [][Next]_vars

-----------------------------------------------------------------------------
(* Properties                                                              *)

TypeOK ==
  /\ stage \in {"parsing", "ready", "loaded"}
  /\ narrow \in BOOLEAN
  /\ img \in [Images -> {"lazy", "loading", "loaded", "failed"}]
  /\ position \in [Sections -> {"unset", "absolute", "static"}]
  /\ hook \in Images \cup {None}

\* The comments of sections_content_vertical_position and load_images: once
\* the lazy images have finished, on a wide viewport no section whose
\* content is taller than the space available is left absolutely
\* positioned (its content would be cut off instead of scrollable).
ContentNeverCutOff ==
  (stage = "loaded" /\ ~narrow /\ \A i \in Images : img[i] \in {"loaded", "failed"})
    => \A s \in Sections : ContentHeight(s, Loaded) > Avail => position[s] = "static"

=============================================================================
