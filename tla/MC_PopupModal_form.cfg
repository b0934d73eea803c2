\* Three popup links, up to two pending removal timers.
CONSTANTS
  Gallery = Gallery
  Contact = Contact
  Photos = Photos
  Wide = Wide
  None = None
  Contents = {Gallery, Contact}
  HasForm = {Contact}
  Lightbox = {Gallery}
  SectionsOf <- PageSections
  Links <- PageLinks
  MaxTimers = 2
SPECIFICATION Spec
INVARIANT PopupFormUsable
