\* Two CPUs, two pairs and room for one of them, two labels, one restart.
SPECIFICATION Spec
CONSTANTS
  Pairs = {p, q}
  Cpus = {c, d}
  Labels = {x, y}
  Lengths = {1, 2}
  MaxEntries = 1
  MaxBytes = 4
  MaxRestarts = 1
SYMMETRY Symmetry
INVARIANTS TypeOK NeverOvercounts LossAccounted RateAccounted CountedOnce
CHECK_DEADLOCK FALSE
