SPECIFICATION FairSpec
CONSTANTS
  PageUnits = 2
  ByteBits = 4
  PagesPerMB = 4
  AddressPages = 16
  KernelStart = 4
  KernelEnd = 9
  VgaPage = 1
  LowPage = 1
  HighPage = 8
  Proc = {p1, p2}
  NoProc = NoProc
  Boots <- AllBoots
INVARIANTS TypeOK Accounting PagesExclusive KernelSafe
PROPERTIES LockReleased FirstFree ImplementsAllocator
