---------------------------- MODULE MCLargeIntegers ----------------------------
(***************************************************************************)
(* Operands for LargeIntegers: two bits a digit, two digits a limb, and    *)
(* thresholds low enough for every path.  The digits are the extreme ones, *)
(* where an estimate is off and a carry goes far.                          *)
(***************************************************************************)
EXTENDS LargeIntegers

RECURSIVE Numbers(_, _)
Numbers(n, digits) ==
    IF n = 0 THEN {0} ELSE {D * x + d : x \in Numbers(n - 1, digits), d \in digits}

MCFactors == Numbers(5, {0, 3}) \cup Numbers(2, {0, 1, 2})
MCDividends == {D ^ 6 * x + y : x \in Numbers(5, {0, 1, 3}), y \in {0, D ^ 3 - 2, D ^ 6 - 1}}
MCDivisors == Numbers(6, {0, 3}) \cup Numbers(4, {0, 2, 3})
MCModuli == {D * x + d : x \in Numbers(4, {0, 3}) \cup {D ^ 4}, d \in {1, 3}}
=============================================================================
