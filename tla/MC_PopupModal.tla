--------------------------- MODULE MC_PopupModal ---------------------------
(***************************************************************************)
(* A page with two popup contents: a gallery with an anchored section and *)
(* lightbox images, and a contact form.  Three popup links: the gallery   *)
(* at its section, the gallery with an extra class and no section, and    *)
(* the contact form.                                                       *)
(***************************************************************************)
EXTENDS PopupModal

CONSTANTS Gallery, Contact, Photos, Wide

GalleryAt == [content |-> Gallery, sec |-> Photos, cls |-> None]
GalleryWide == [content |-> Gallery, sec |-> None, cls |-> Wide]
ContactForm == [content |-> Contact, sec |-> None, cls |-> None]

PageLinks == {GalleryAt, GalleryWide, ContactForm}
PageSections == [c \in {Gallery, Contact} |->
                   IF c = Gallery THEN {Photos} ELSE {}]
=============================================================================
