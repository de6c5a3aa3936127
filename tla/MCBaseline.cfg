CONSTANTS
  short = short
  Checkouts = {k1, k2}
  Shas = {s1, s2}
  Short <- MCShort
  MaxCandidates = 2
  Commands = {d1, d2, d3}
  Earlier = Earlier
  Nobody = Nobody
  MaxEvents = 1
SPECIFICATION BaselineSpec
INVARIANTS PinnedIsComplete StrandedNeedsARace
PROPERTIES ReferencedIsKept OthersServersStand
SYMMETRY Symmetry
