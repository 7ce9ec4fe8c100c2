SPECIFICATION FairSpec
CONSTANTS
  Proc = {p1, p2, p3}
  NoProc = NoProc
  Pages <- FewPages
  Growth = {1, 2}
  MaxCalls <- FewCalls
INVARIANTS NoDeadlock
PROPERTIES CallsReturn
