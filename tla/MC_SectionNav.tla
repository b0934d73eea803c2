--------------------------- MODULE MC_SectionNav ---------------------------
(***************************************************************************)
(* Instances of SectionNav for TLC.  Offsets are in units of a quarter    *)
(* window height, so Buffer = 1 is the 0.25 * $(window).height() of        *)
(* update_active_sections_on_scroll.                                       *)
(***************************************************************************)
EXTENDS SectionNav

CONSTANTS ImgA, ImgB, ImgDefault

\* Three contiguous sections of one window height (4 units) each, no
\* footer: every reachable offset lies in some section's buffered extent.
TopContiguous    == <<0, 4, 8>>
HeightContiguous == <<4, 4, 4>>
MaxContiguous    == 8

\* Section 1 has its own background, section 2 none (falls back to the
\* body default), section 3 another one.
BgOfSections == <<ImgA, None, ImgB>>
=============================================================================
