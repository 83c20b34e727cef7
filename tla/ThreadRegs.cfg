SPECIFICATION Spec
CONSTANTS
  Regs = {0, 25, 37, 49, 50, 62, 63}
  Values = {0, 1}
INVARIANT ReadsBack
