---------------------------- MODULE MC_LazyLayout ----------------------------
(***************************************************************************)
(* A desktop page for TLC: two sections, three lazy images.  The first    *)
(* section fits the window until its first image (the larger one) has      *)
(* loaded; the last image in document order, which carries the onload,    *)
(* is in the second section.  Heights are in tenths of the window height, *)
(* so Avail = 8.                                                           *)
(***************************************************************************)
EXTENDS LazyLayout

CONSTANTS Intro, Work, Photo1, Photo2, Photo3

PageOrder   == <<Photo1, Photo2, Photo3>>
PageSection == [i \in {Photo1, Photo2, Photo3} |->
                  IF i = Photo3 THEN Work ELSE Intro]
PageBase    == [s \in {Intro, Work} |-> IF s = Intro THEN 5 ELSE 3]
PageImgH    == [i \in {Photo1, Photo2, Photo3} |->
                  IF i = Photo1 THEN 4 ELSE 1]
=============================================================================
