CONSTANTS
  A = A
  B = B
  C = C
  D = D
  E = E
  F = F
  G = G
  H = H
  I = I
  J = J
  K = K
  L = L
  M = M
  N = N
  Battle = {A, B, C, D}
  Real = {0, 1, 2}
  Agent = {8, 9}
  Root = A
  tar_id <- SmallTree
  field <- SmallField
  agent <- SmallAgents
  Lineup <- SmallLineup
SPECIFICATION FairSpec
CHECK_DEADLOCK FALSE
INVARIANTS TypeOK ResultsAreRight NoReadAtEnd OneMessage WaitsForLoser OneVoice
PROPERTIES Ends
