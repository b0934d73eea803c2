\* Comment of load_images: positions are corrected after the last image loads.
CONSTANTS
  Intro = Intro
  Work = Work
  Photo1 = Photo1
  Photo2 = Photo2
  Photo3 = Photo3
  Sections = {Intro, Work}
  Order <- PageOrder
  SectionOf <- PageSection
  Base <- PageBase
  ImgH <- PageImgH
  Avail = 8
  IsMobile = FALSE
  None = None
SPECIFICATION Spec
INVARIANT ContentNeverCutOff
