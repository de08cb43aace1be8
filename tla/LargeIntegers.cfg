SPECIFICATION Spec
CONSTANTS
  D = 4
  DigitsPerLimb = 2
  KaratsubaLimbs = 2
  SqrBasecaseLimbs = 2
  SqrKaratsubaLimbs = 3
  BZChoices = {2, 4}
  BZQuotientLimbs = 1
  MontLoopDigits = 2
  MontMulLimbs = 3
  MontSqrLimbs = 2
  MulLoopDigitProduct = 4
  DivLoopQuotientDigits = 1
  DivLoopDivisorDigits = 3
  Factors <- MCFactors
  Dividends <- MCDividends
  Divisors <- MCDivisors
  Moduli <- MCModuli
  None = None
INVARIANTS
  AnswersAreExact
CHECK_DEADLOCK FALSE
