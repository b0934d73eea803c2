\* Spec: a settled page highlights the section at the scroll offset.
CONSTANTS
  N = 3
  Top <- TopContiguous
  Height <- HeightContiguous
  Buffer = 1
  MaxScroll <- MaxContiguous
  MenuItems = {1, 2}
  ScrollMenuItems = {1, 2}
  LinkTargets = {3}
  ImgA = ImgA
  ImgB = ImgB
  ImgDefault = ImgDefault
  Images = {ImgA, ImgB, ImgDefault}
  None = None
  CustomBg <- BgOfSections
  DefaultBg = ImgDefault
  IsMobile = FALSE
  ChangeOnMobile = TRUE
  ChangeOnNonMobile = TRUE
  UseScript = TRUE
  JumpChangeBg = {TRUE}
  MaxSlides = 1
SPECIFICATION Spec
INVARIANT HighlightFollowsScroll
