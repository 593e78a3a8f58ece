CONSTANTS
  A = A
  B = B
  C = C
  D = D
  E = E
  F = F
  G = G
  H = H
  I = I
  J = J
  K = K
  L = L
  M = M
  N = N
  Battle = {A, B, C, D, E, F, G, H, I, J, K, L, M, N}
  Real = {0, 1, 2, 3, 4, 5, 6, 7}
  Agent = {8, 9, 10, 11, 12, 13, 14}
  Root = A
  tar_id <- tar_id_table
  field <- field_table
  agent <- agent_table
  Lineup <- RealLineup
SPECIFICATION OrderSpec
CHECK_DEADLOCK FALSE
INVARIANTS ResultsAreRight SuccessorExists
PROPERTIES Ends
