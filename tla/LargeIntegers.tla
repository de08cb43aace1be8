------------------------------ MODULE LargeIntegers ------------------------------
(***************************************************************************)
(* The multiply, divide and Montgomery kernels of the LargeIntegers plugin *)
(* and the primitives that prepare their operands.  A vector of n limbs is *)
(* a number below B^n; what the limb loops lose or carry out of n limbs is *)
(* lost or carried here.  A call is one step, and its answer is compared   *)
(* with ordinary arithmetic.                                               *)
(***************************************************************************)
EXTENDS Integers, TLC, FiniteSetsExt

CONSTANTS D,                   \* base of a digit, a power of two (2^32 in the code)
          DigitsPerLimb,       \* LI_DIGITS_PER_LIMB: 1 or 2
          KaratsubaLimbs, SqrBasecaseLimbs, SqrKaratsubaLimbs, BZChoices,
          BZQuotientLimbs, MontLoopDigits, MontMulLimbs, MontSqrLimbs,
          MulLoopDigitProduct, DivLoopQuotientDigits,
          DivLoopDivisorDigits,                         \* the thresholds LI_*
          Factors, Dividends, Divisors, Moduli,         \* bound: the operands tried
          None

ASSUME ConstantsAssumption ==
    /\ DigitsPerLimb \in {1, 2} /\ D > 1
    /\ KaratsubaLimbs >= 2 /\ SqrKaratsubaLimbs >= 2 /\ SqrBasecaseLimbs >= 1
    /\ \A n \in BZChoices : n >= 2
    /\ BZQuotientLimbs >= 1
    /\ MontLoopDigits >= 1 /\ MontMulLimbs >= 1 /\ MontSqrLimbs >= 1

VARIABLE call      \* the last call of a primitive, with its answer

B == D ^ DigitsPerLimb
BZLimbs == call.bz          \* with LI_TUNABLE the thresholds are variables

\* Digits of the magnitude of a normalized Integer; zero has one.
RECURSIVE Digits(_)
Digits(x) == IF x < D THEN 1 ELSE 1 + Digits(x \div D)
Digit(x, i) == (x \div D ^ i) % D
LimbsFor(digits) == (digits + DigitsPerLimb - 1) \div DigitsPerLimb

\* liLoad and liStore between digits and limbs, skip zero digits below
Load(x, skip) == x * D ^ skip
Store(x, digits, skip) == (x \div D ^ skip) % D ^ digits

Limb(x, i) == (x \div B ^ i) % B
Part(x, i, n) == (x \div B ^ i) % B ^ n
Put(x, i, n, y) == x + (y - Part(x, i, n)) * B ^ i

\* The limb vector primitives: n limbs of a sum, difference or product, and the
\* limb that comes out of them (a borrow is negative).
Wrap(y, n) == [r |-> y % B ^ n, out |-> y \div B ^ n]

----------------------------------------------------------------------------
(* Multiplication and squaring.                                             *)

RECURSIVE Mul(_, _, _, _), Pieces(_, _, _, _, _), Sqr(_, _)

AbsDiff(x, y) == IF x < y THEN y - x ELSE x - y

\* r[h ..) += t, where t has 2h + 1 limbs and r has len
AddMiddle(r, len, h, t) ==
    LET tn == Min({len - h, 2 * h + 1})
    IN  Put(r, h, len - h, Wrap(Part(r, h, len - h) + Part(t, 0, tn), len - h).r)

\* z0 + z2 -+ zm in 2h limbs and one more, which wraps
Middle(z0, z2, zm, h, minus) ==
    LET sum == Wrap(z0 + z2, 2 * h)
        mid == Wrap(IF minus THEN sum.r - zm ELSE sum.r + zm, 2 * h)
    IN  mid.r + ((sum.out + mid.out) % B) * B ^ (2 * h)

MulKaratsuba(a, an, b, bn) ==
    LET h == (an + 1) \div 2
        a0 == Part(a, 0, h)   a1 == Part(a, h, an - h)
        b0 == Part(b, 0, h)   b1 == Part(b, h, bn - h)
        zm == Mul(AbsDiff(a0, a1), h, AbsDiff(b0, b1), h)
        z0 == Mul(a0, h, b0, h)
        z2 == Mul(a1, an - h, b1, bn - h)
    IN  AddMiddle(z0 + z2 * B ^ (2 * h), an + bn, h,
                  Middle(z0, z2, zm, h, (a0 < a1) = (b0 < b1)))

\* liMulUnbalanced: the pieces of a from limb off on
Pieces(a, an, b, bn, off) ==
    IF off >= an THEN 0
    ELSE LET cn == Min({an - off, bn})
             t == IF cn = bn THEN Mul(Part(a, off, bn), bn, b, bn)
                             ELSE Mul(b, bn, Part(a, off, cn), cn)
         IN  t + Pieces(a, an, b, bn, off + bn) * B ^ bn

Mul(a, an, b, bn) ==
    IF bn < KaratsubaLimbs THEN a * b
    ELSE IF bn <= (an + 1) \div 2 THEN Pieces(a, an, b, bn, 0)
    ELSE MulKaratsuba(a, an, b, bn)

\* liSqrBasecase: cross products once, doubled, plus the diagonal
SqrBasecase(a, n) ==
    LET cross(i) == Limb(a, i) * Part(a, i + 1, n - i - 1) * B ^ (2 * i + 1)
        square(i) == Limb(a, i) * Limb(a, i) * B ^ (2 * i)
    IN  (2 * MapThenSumSet(cross, 0..(n - 2)) + MapThenSumSet(square, 0..(n - 1)))
            % B ^ (2 * n)

Sqr(a, n) ==
    IF n < SqrBasecaseLimbs THEN a * a
    ELSE IF n < SqrKaratsubaLimbs THEN SqrBasecase(a, n)
    ELSE LET h == (n + 1) \div 2
             a0 == Part(a, 0, h)   a1 == Part(a, h, n - h)
             z0 == Sqr(a0, h)   z2 == Sqr(a1, n - h)
         IN  AddMiddle(z0 + z2 * B ^ (2 * h), 2 * n, h,
                       Middle(z0, z2, Sqr(AbsDiff(a0, a1), h), h, TRUE))

\* liDigitMultiply, for resLen digits of the product; scratch: could it be had?
DigitMultiply(x, y, resLen, scratch) ==
    LET longer == Digits(x) <= Digits(y)
        a == IF longer THEN y ELSE x   ad == Digits(a)   an == LimbsFor(ad)
        b == IF longer THEN x ELSE y   bd == Digits(b)   bn == LimbsFor(bd)
        loop == (a * b) % D ^ resLen                \* liDigitMultiply32
    IN  IF DigitsPerLimb = 2 /\ bd <= 2
        THEN ((a % D ^ Min({ad, resLen})) * b) % D ^ resLen      \* liMulDigitsBy1
        ELSE IF (DigitsPerLimb = 2 /\ ad * bd <= MulLoopDigitProduct) \/ ~scratch
        THEN loop
        ELSE IF a = b /\ an >= SqrBasecaseLimbs
        THEN Store(Sqr(a, an), resLen, 0)
        ELSE IF DigitsPerLimb = 1 /\ bd < KaratsubaLimbs
        THEN loop
        ELSE Store(Mul(a, an, b, bn), resLen, 0)

----------------------------------------------------------------------------
(* Division.  A step answers the quotient, q, the limb above it, qh, and the *)
(* remainder, r.                                                             *)

RECURSIVE KnuthTest(_, _, _, _, _), DivRem(_, _, _, _), DivRemBelow(_, _, _, _, _),
          AddBack(_, _, _, _, _, _), DivRem2n(_, _, _), LowHalf(_, _, _, _, _),
          Blocks(_, _, _, _, _), BlocksBelow(_, _, _, _, _), Trim(_, _, _, _, _, _, _),
          DivLoop(_, _, _, _), DivLoopBelow(_, _, _, _, _)

\* liReciprocal and liDiv2by1 (Moller and Granlund), in limbs that wrap
Div2by1(nh, nl, d) ==
    LET p == nh * ((B * B - 1) \div d - B) + nh * B + nl
        q == (p \div B + 1) % B
        r == (nl - q * d) % B
        low == r > p % B
        q1 == IF low THEN (q - 1) % B ELSE q
        r1 == IF low THEN (r + d) % B ELSE r
    IN  IF r1 >= d THEN [q |-> (q1 + 1) % B, r |-> r1 - d] ELSE [q |-> q1, r |-> r1]

\* Knuth's test with the next divisor limb v0
KnuthTest(qhat, rhat, u0, v1, v0) ==
    IF qhat * v0 <= rhat * B + u0 THEN qhat
    ELSE IF rhat + v1 >= B THEN qhat - 1
    ELSE KnuthTest(qhat - 1, rhat + v1, u0, v1, v0)

\* The answer of a division done in two steps, the high quotient in units of unit
Joined(high, unit, low) == [q |-> high.q * unit + low.q, r |-> low.r]

\* liDivRem's estimate of the quotient limb of the top of u, at most one too large
Estimate(u, un, v, vn) ==
    LET u2 == Limb(u, un - 1)
        v1 == Limb(v, vn - 1)
        two == Div2by1(u2, Limb(u, un - 2), v1)
    IN  IF vn = 1 THEN two.q
        ELSE IF u2 >= v1 THEN B - 1
        ELSE KnuthTest(two.q, two.r, Limb(u, un - 3), v1, Limb(v, vn - 2))

\* A row: w is what qhat v leaves, and v is added back when that is too much.
QuotientLimb(qhat, w, top, v, vn) ==
    IF vn > 1 /\ top < -w.out THEN [q |-> qhat - 1, r |-> Wrap(w.r + v, vn).r]
                              ELSE [q |-> qhat, r |-> w.r]

Row(qhat, u, un, v, vn) ==
    QuotientLimb(qhat, Wrap(Part(u, un - vn - 1, vn) - qhat * v, vn), Limb(u, un - 1), v, vn)

\* liDivRem, Knuth's algorithm D, one quotient limb a call: the top one first
DivRem(u, un, v, vn) ==
    IF un = vn THEN [q |-> 0, r |-> u]
    ELSE DivRemBelow(Row(Estimate(u, un, v, vn), u, un, v, vn), u, un, v, vn)

DivRemBelow(top, u, un, v, vn) ==
    LET j == un - vn - 1
    IN  Joined(top, B ^ j, DivRem(Put(u % B ^ (un - 1), j, vn, top.r), un - 1, v, vn))

AddBackOnce(q, qn, qh, w, v, n) ==      \* mutant of AddBack: Knuth's estimate, one too large
    IF w.out = 0 THEN [q |-> q, qh |-> qh, r |-> w.r]
    ELSE [q |-> Wrap(q - 1, qn).r, qh |-> qh + Wrap(q - 1, qn).out, r |-> Wrap(w.r + v, n).r]

\* Add v, of n limbs, back to w while its borrow is not paid.
AddBack(q, qn, qh, w, v, n) ==
    IF w.out = 0 THEN [q |-> q, qh |-> qh, r |-> w.r]
    ELSE LET less == Wrap(q - 1, qn)
             more == Wrap(w.r + v, n)
         IN  AddBack(less.r, qn, qh + less.out, [r |-> more.r, out |-> w.out + more.out], v, n)

\* The quotient's product with the divisor's low m limbs subtracted from the n
\* limbs of the partial remainder w; above is what qh takes from its top limbs.
Subtract(w, n, d, qn, low, m) ==
    LET one == Wrap(w - d.q * low, n)
        two == Wrap(Part(one.r, qn, m) - low, m)
    IN  IF d.qh # 0 THEN [r |-> Put(one.r, qn, m, two.r), out |-> one.out + two.out]
                    ELSE one

\* D3n2n: the top limbs of the n-limb w + r divided, d, now the rest of the divisor
Correct(d, qn, w, v, n) ==
    AddBack(d.q, qn, d.qh, Subtract(Put(w, n - qn, qn, d.r), n, d, qn, v % B ^ (n - qn), n - qn),
            v, n)

\* liDivRem2n: 2n limbs by n, the quotient in two halves
DivRem2n(u, v, n) ==
    IF n < BZLimbs
    THEN LET qh == IF Part(u, n, n) >= v THEN 1 ELSE 0
         IN  DivRem(u - qh * v * B ^ n, 2 * n, v, n) @@ [qh |-> qh]
    ELSE LET lo == n \div 2
             hi == n - lo
         IN  LowHalf(Correct(DivRem2n(Part(u, 2 * lo, 2 * hi), Part(v, lo, hi), hi), hi,
                             Part(u, lo, lo), v, n),
                     Part(u, 0, lo), v, n, lo)

LowHalf(top, u0, v, n, lo) ==
    LET hi == n - lo
        rest == top.r * B ^ lo + u0                          \* n + lo limbs
        low == Correct(DivRem2n(Part(rest, hi, 2 * lo), Part(v, hi, lo), lo), lo,
                       Part(rest, 0, hi), v, n)
    IN  [low EXCEPT !.q = top.q * B ^ lo + @, !.qh = top.qh]

\* The blocks of vn quotient limbs from limb j down, r the remainder above them
Blocks(u, r, v, vn, j) ==
    IF j < 0 THEN [q |-> 0, r |-> r]
    ELSE BlocksBelow(DivRem2n(r * B ^ vn + Part(u, j, vn), v, vn), u, v, vn, j)

BlocksBelow(block, u, v, vn, j) == Joined(block, B ^ j, Blocks(u, block.r, v, vn, j - vn))

\* liDivRemBZ (Burnikel and Ziegler): the top block has 1 to vn quotient limbs
DivRemBZ(u, un, v, vn) ==
    LET qn == un - vn
        qb == IF qn % vn = 0 THEN vn ELSE qn % vn
        j == qn - qb
        d == DivRem2n(Part(u, un - 2 * qb, 2 * qb), Part(v, vn - qb, qb), qb)
    IN  BlocksBelow(IF qb = vn THEN d ELSE Correct(d, qb, Part(u, j, vn - qb), v, vn),
                    u, v, vn, j)

\* The estimate of liDigitDiv32, a digit: hi and lo are those of q times dnh
Trim(q, t, hi, lo, r3, dh, dnh) ==
    IF ~(t < hi \/ (t = hi /\ r3 < lo)) THEN q
    ELSE LET less == IF lo < dnh THEN <<hi - 1, lo + D - dnh>> ELSE <<hi, lo - dnh>>
         IN  IF hi = 0 \/ less[1] < dh THEN q - 1
             ELSE Trim(q - 1, t, less[1] - dh, less[2], r3, dh, dnh)

\* liDigitDiv32: the quotient digits from the top one, for the top digit of rem on
DivLoop(div, divLen, rem, j) ==
    LET dl == divLen - 1
        dh == Digit(div, dl - 1)
        dnh == IF dl = 1 THEN 0 ELSE Digit(div, dl - 2)
        two == Digit(rem, j - 1) * D + Digit(rem, j - 2)
        mul == (two \div dh) * dnh
        q == IF Digit(rem, j - 1) = dh THEN D - 1
             ELSE Trim(two \div dh, two % dh, mul \div D, mul % D,
                       IF j < 3 THEN 0 ELSE Digit(rem, j - 3), dh, dnh)
        l == j - divLen
        w == (rem \div D ^ l) - q * div          \* the digits above j are zero
    IN  IF l < 0 THEN [q |-> 0, r |-> rem]
        ELSE DivLoopBelow(IF w < 0 THEN [q |-> q - 1, r |-> w + div] ELSE [q |-> q, r |-> w],
                          div, divLen, rem, j)

DivLoopBelow(top, div, divLen, rem, j) ==
    LET unit == D ^ (j - divLen)
    IN  Joined(top, unit, DivLoop(div, divLen, (rem % unit) + top.r * unit, j - 1))

StoreBoth(d, quoLen, remLen, skip) ==
    [q |-> Store(d.q, quoLen, 0), r |-> Store(d.r, remLen, skip)]

\* liDigitDiv, for the operands the primitive has shifted
DigitDiv(div, dl, rem, remLen, scratch) ==
    LET quoLen == remLen - dl
        skip == IF DigitsPerLimb = 2 THEN dl % 2 ELSE 0
        vn == LimbsFor(dl + skip)
        un == LimbsFor(remLen + skip)
        bz == vn >= BZLimbs /\ \/ un - vn >= BZLimbs
                               \/ /\ un - vn >= BZQuotientLimbs
                                  /\ vn - (un - vn) >= BZQuotientLimbs
    IN  IF (quoLen <= DivLoopQuotientDigits /\ dl < DivLoopDivisorDigits) \/ ~scratch
        THEN DivLoop(div, dl + 1, rem, remLen)
        ELSE StoreBoth(IF bz THEN DivRemBZ(Load(rem, skip), un, Load(div, skip), vn)
                             ELSE DivRem(Load(rem, skip), un, Load(div, skip), vn),
                       quoLen, remLen, skip)

Unshift(div, dl, d) == [q |-> div.q, r |-> (div.r % D ^ dl) \div 2 ^ d]

\* digitDivLarge:with:negative: shifts until the top bit of the divisor is set.
DigitDivLarge(x, y, scratch) ==
    LET dl == Digits(y)
        d == CHOOSE k \in 0..D : 2 * Digit(y * 2 ^ k, dl - 1) >= D /\ y * 2 ^ k < D ^ dl
    IN  IF Digits(x) < dl THEN [q |-> 0, r |-> x]
        ELSE Unshift(DigitDiv(y * 2 ^ d, dl, x * 2 ^ d, Digits(x) + 1, scratch), dl, d)

----------------------------------------------------------------------------
(* Montgomery multiplication.                                               *)

\* A row for each of the n limbs (or digits) of a: liMontMul, liDigitMontgomery32
MontMul(a, b, m, n, mInv, base) ==
    LET t[i \in 0..n] ==
            IF i = 0 THEN 0
            ELSE LET row == t[i - 1] + ((a \div base ^ (i - 1)) % base) * b
                     u == ((row % base) * mInv) % base
                 IN  ((row + u * m) \div base) % base ^ (n + 1)
    IN  t[n]

\* liMontRedc: two rows a pass, and the last row of an odd n
MontRedc(p, m, n, mInv) ==
    LET times(x) == ((x % B) * mInv) % B
        q[i \in 0..n] ==          \* i rows have been added; i is even, or n
            IF i = 0 THEN p
            ELSE LET from == IF i = n /\ n % 2 = 1 THEN i - 1 ELSE i - 2
                     last == q[from]
                     u0 == times(Limb(last, from))
                     u1 == times(Limb(Part(last, from, 2) + u0 * Part(m, 0, 2), 1))
                     rows == IF from = i - 1 THEN u0 ELSE u0 + u1 * B
                 IN  (last + rows * m * B ^ from) % B ^ (2 * n + 1)
    IN  Part(q[n], n, n + 1)

\* liMontDigits
MontDigits(x, y, m, tl, mInv) ==
    LET longer == Digits(x) < Digits(y)
        a == IF longer THEN y ELSE x   an == LimbsFor(Digits(a))
        b == IF longer THEN x ELSE y   bn == LimbsFor(Digits(b))
        skip == IF DigitsPerLimb = 2 THEN tl % 2 ELSE 0
        n == LimbsFor(tl)
        square == n >= MontSqrLimbs /\ a = b
        redc == square \/ n >= MontMulLimbs \/ (n >= MontSqrLimbs /\ 2 * bn <= n + 1)
        mInvL == IF DigitsPerLimb = 2 THEN (mInv * (2 + Limb(m, 0) * mInv)) % B ELSE mInv
        product == IF square THEN Sqr(a, an) ELSE Mul(a, an, b, bn)
    IN  IF redc THEN MontRedc(Load(product, skip) % B ^ (2 * n), m, n, mInvL)
                ELSE MontMul(Load(a, skip), b, m, n, mInvL, B)

\* liDigitMontgomery, for the digits of the modulus and mInv m = -1 mod D
DigitMontgomery(x, y, m, mInv, scratch) ==
    LET tl == Digits(m)
        T == IF tl >= MontLoopDigits /\ scratch THEN MontDigits(x, y, m, tl, mInv)
                                                ELSE MontMul(x, y, m, tl, mInv, D)
    IN  (IF T >= m THEN T - m ELSE T) % D ^ tl

----------------------------------------------------------------------------
(* The primitives: a call of the image, and then its answer.                *)

Call(op, x, y, m, bz) ==
    [op |-> op, x |-> x, y |-> y, m |-> m, bz |-> bz, answer |-> None]

Init ==
    \/ \E x, y \in Factors : call = Call("multiply", x, y, 0, 2)
    \/ \E x \in Dividends, y \in Divisors \ {0}, bz \in BZChoices :
         call = Call("divide", x, y, 0, bz)
    \/ \E x, y \in Factors, m \in Moduli : call = Call("montgomery", x, y, m, 2)

Answer(a) == call' = [call EXCEPT !.answer = a]

\* primDigitMultiplyNegative; the digits of the product follow from its bytes.
Multiply(scratch) ==
    LET lens == Digits(call.x) + Digits(call.y) IN
    \E resLen \in {lens - 1, lens} :
        /\ call.x * call.y < D ^ resLen
        /\ Answer(DigitMultiply(call.x, call.y, resLen, scratch))

\* primDigitDivNegative
Divide(scratch) == Answer(DigitDivLarge(call.x, call.y, scratch))

\* primMontgomeryTimesModulo, with the inverse the image computes
Montgomery(scratch) ==
    /\ Digits(call.x) <= Digits(call.m) /\ Digits(call.y) <= Digits(call.m)
    /\ Answer(DigitMontgomery(call.x, call.y, call.m,
                  CHOOSE i \in 0..(D - 1) : (call.m * i) % D = D - 1, scratch))

Next ==
    /\ call.answer = None
    /\ \E scratch \in BOOLEAN :
         \/ call.op = "multiply" /\ Multiply(scratch)
         \/ call.op = "divide" /\ Divide(scratch)
         \/ call.op = "montgomery" /\ Montgomery(scratch)

Spec == Init /\ [][Next]_call

----------------------------------------------------------------------------
\* Whatever path a kernel takes (the 32-bit loop, schoolbook, Karatsuba or
\* unbalanced pieces; algorithm D or Burnikel and Ziegler's blocks; CIOS or REDC),
\* its answer is the product, the quotient with its remainder, or the Montgomery
\* product, below the modulus when its factors leave it so ("digit for digit those
\* of the loops", LargeIntegersKernels.c).
AnswersAreExact ==
    \/ call.answer = None
    \/ call.op = "multiply" /\ call.answer = call.x * call.y
    \/ /\ call.op = "divide"
       /\ call.answer = [q |-> call.x \div call.y, r |-> call.x % call.y]
    \/ /\ call.op = "montgomery"
       /\ LET R == D ^ Digits(call.m) IN
            /\ call.answer \in 0..(R - 1)
            /\ (call.answer * R - call.x * call.y) % call.m = 0
            /\ call.x * call.y < R * call.m => call.answer < call.m
=============================================================================
