SPECIFICATION Spec
CONSTANTS
  Frame = {f1, f2, f3, f4, f5}
  Index = {i1, i2}
  NoFrame = NoFrame
SYMMETRY Symmetry
INVARIANTS TablesPrivate MapsLivePages
PROPERTIES ImplementsTranslation InsertsThePage
