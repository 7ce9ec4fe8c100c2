SPECIFICATION FairSpec
CONSTANTS
  Proc = {p1, p2}
  NoProc = NoProc
  HDR = 3
  ALIGN = 2
  Word = 64
  PAGE = 20
  Base = 16
  Sizes = {2, 4, 16}
  MaxPages = 2
INVARIANTS TypeOK BlocksDisjoint NeighboursCoalesced LinkedUsedIsHeld WholeAgain
PROPERTIES GrowsOnlyWhenFull ImplementsAllocator LockReleased
