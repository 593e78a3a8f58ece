CONSTANTS
  fib = fib
  col = col
  sub = sub
  sum = sum
  Thread = {fib, col, sub, sum}
  Reader = {sub, sum}
  Created <- Four
  Timeslice = 3
SPECIFICATION Spec
INVARIANTS TypeOK NoThreadLost RunningExists StopsOnlyRightly ReadsFindInput AlarmGoesOn
PROPERTIES ImplementsLife
