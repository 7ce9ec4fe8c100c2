SPECIFICATION Spec
CONSTANTS
  ENTRIES = 4
  PAGE = 2
  Frame = {t1, t2, t3, t4}
  Page = {q1, q2}
  NoFrame = NoFrame
  Origin <- TwoOrigins
  Size <- AlignedSize
SYMMETRY Symmetry
INVARIANTS ArrivesOnce RegionsMapped
PROPERTIES ImplementsTranslation MapsItsPage
