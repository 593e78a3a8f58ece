CONSTANTS
  fib = fib
  col = col
  sub = sub
  NoNumber = NoNumber
  Thread = {fib, col, sub}
  Reader = {sub}
  Created <- Three
  Timeslice = 3
  function <- Functions
  Args <- SmallArgs
  Number <- Numbers
  Garbage = {0, 7}
  IntMax = 7
  Kept = 4
SPECIFICATION FairSpecPrograms
INVARIANTS TypeOKPrograms PrintedRight
PROPERTIES ReadyRuns InputWakes Finishes
