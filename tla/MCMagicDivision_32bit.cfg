CONSTANTS
  Bits = 8
  RegBits = 8
  MaxDivisor = 127
  MaxDividend = 127
SPECIFICATION Spec
INVARIANTS TypeOK QuotientCorrect
