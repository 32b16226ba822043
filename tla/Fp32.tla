-------------------------------- MODULE Fp32 --------------------------------
(***************************************************************************)
(* FP32 arithmetic twice: the golden one of sim/gen_apps.py, with gradual  *)
(* underflow, and that of the floating-point unit, rtl/accel/simt_fpu.sv,  *)
(* which reads and writes subnormals as zero and overflows to infinity.    *)
(* The format is a parameter: MB mantissa and EB exponent bits stand for   *)
(* the 23 and 8 of FP32.  A code is an integer sign * 2^(EB+MB) +          *)
(* exponent * 2^MB + mantissa; a fraction is a pair <<n, d>> in lowest     *)
(* terms, d a power of two.                                                *)
(***************************************************************************)
EXTENDS Integers, FiniteSetsExt

CONSTANTS MB, EB

ASSUME FormatAssumption == MB \in Nat \ {0} /\ EB \in Nat \ {0, 1}

BIAS    == 2^(EB - 1) - 1
EMIN    == 1 - BIAS
SIGNBIT == 2^(EB + MB)
INF     == (2^EB - 1) * 2^MB
Abs(n)  == IF n < 0 THEN -n ELSE n
MaxOf(a, b) == IF a > b THEN a ELSE b

----------------------------------------------------------------------------
(* Fractions *)
Reduced(n, d) ==
  IF n = 0 THEN <<0, 1>>
  ELSE LET k == CHOOSE i \in 0..30 :
                  /\ n % 2^i = 0 /\ d % 2^i = 0
                  /\ n % 2^(i+1) # 0 \/ d % 2^(i+1) # 0
       IN <<n \div 2^k, d \div 2^k>>
FrInt(n)     == <<n, 1>>
FrAdd(x, y)  == LET d == MaxOf(x[2], y[2])
                IN Reduced(x[1] * (d \div x[2]) + y[1] * (d \div y[2]), d)
FrMul(x, y)  == Reduced(x[1] * y[1], x[2] * y[2])
FrLt(x, y)   == x[1] * y[2] < y[1] * x[2]
Pow2(k)      == IF k >= 0 THEN <<2^k, 1>> ELSE <<1, 2^(-k)>>

Neg(a)   == a >= SIGNBIT
Exp(a)   == (a \div 2^MB) % 2^EB
Man(a)   == a % 2^MB

(* The value of a code; inf and nan have none (the assert of the code).    *)
f2fr(bits) ==
  LET n == IF Exp(bits) = 0 THEN Man(bits) ELSE 2^MB + Man(bits)
  IN CASE Exp(bits) # 2^EB - 1 ->
            FrMul(FrInt(IF Neg(bits) THEN -n ELSE n),
                  Pow2((IF Exp(bits) = 0 THEN EMIN ELSE Exp(bits) - BIAS) - MB))

BitLength(n) == CHOOSE k \in 0..31 : n < 2^k /\ (k = 0 \/ 2^(k-1) <= n)

(* Mutant: a tie always rounds up.                                         *)
RoundsUpHalf(mi, rem, den) == 2 * rem >= den
RoundsUp(mi, rem, den) == 2 * rem > den \/ (2 * rem = den /\ mi % 2 = 1)

(* The exponent of n/d, the mantissa at an exponent (its last place is    *)
(* worth 2^q), and the code of both; a mantissa that rounds up to the next *)
(* power of two moves to the next exponent.  A value that overflows has no *)
(* code (the assert of the code).                                          *)
Exponent(n, d) ==
  LET e0 == BitLength(n) - BitLength(d)
  IN MaxOf(EMIN, IF n * 2^MaxOf(0, -e0) < d * 2^MaxOf(0, e0) THEN e0 - 1 ELSE e0)
Rounded(num, den) ==
  LET m0 == num \div den
  IN IF RoundsUp(m0, num % den, den) THEN m0 + 1 ELSE m0
Mantissa(n, d, q) == IF q >= 0 THEN Rounded(n, d * 2^q) ELSE Rounded(n * 2^(-q), d)
Packed(m, e) ==
  LET mi == IF m = 2^(MB + 1) THEN 2^MB ELSE m
      ef == e + BIAS + (IF m = 2^(MB + 1) THEN 1 ELSE 0)
  IN CASE mi < 2^MB -> mi
       [] mi >= 2^MB /\ ef < 2^EB - 1 -> ef * 2^MB + (mi - 2^MB)

(* Round a fraction to the nearest code, ties to even; exact zero is +0.   *)
fr2f(x) ==
  LET n == Abs(x[1])
      e == Exponent(n, x[2])
  IN IF x[1] = 0 THEN 0
     ELSE (IF x[1] < 0 THEN SIGNBIT ELSE 0) + Packed(Mantissa(n, x[2], e - MB), e)

fadd(a, b)   == fr2f(FrAdd(f2fr(a), f2fr(b)))
fmul(a, b)   == fr2f(FrMul(f2fr(a), f2fr(b)))
fma(a, b, c) == fr2f(FrAdd(FrMul(f2fr(a), f2fr(b)), f2fr(c)))

(* Python's round of a fraction: to the nearest integer, half to even.     *)
RoundHalfEven(x) ==
  LET f == x[1] \div x[2]
      r == 2 * (x[1] % x[2])
  IN IF r > x[2] \/ (r = x[2] /\ f % 2 = 1) THEN f + 1 ELSE f

----------------------------------------------------------------------------
(* The floating-point unit on finite operands.  An operand with exponent 0 *)
(* is a zero of its sign.                                                  *)
IsZero(a)  == Exp(a) = 0
Operand(a) == IF IsZero(a) THEN FrInt(0) ELSE f2fr(a)
Zero(neg)  == IF neg THEN SIGNBIT ELSE 0
Canonical(a) == IF IsZero(a) THEN Zero(Neg(a)) ELSE a

(* Round |x| to MB + 1 significant bits, whatever the exponent: up when    *)
(* the guard bit and any bit below it, or the last bit kept, is set.  Then *)
(* an exponent out of range gives infinity or zero.                        *)
pack_round(neg, x) ==
  LET e    == BitLength(x[1]) - BitLength(x[2])     \* 2^e <= x < 2^(e+1)
      y    == FrMul(x, Pow2(MB - e))
      sig  == y[1] \div y[2]
      rest == 2 * (y[1] % y[2])
      m    == IF rest > y[2] \/ (rest = y[2] /\ sig % 2 = 1) THEN sig + 1 ELSE sig
      exp  == e + BIAS + (m \div 2^(MB + 1))
  IN Zero(neg) + (CASE exp >= 2^EB - 1 -> INF
                    [] exp <= 0        -> 0
                    [] OTHER           -> exp * 2^MB + (m % 2^MB))
Pack(x) == pack_round(x[1] < 0, <<Abs(x[1]), x[2]>>)

(* A sum of zero is +0, also of two negative zeros.                        *)
SumOf(x, y) == LET s == FrAdd(x, y) IN IF s[1] = 0 THEN 0 ELSE Pack(s)
HwAdd(a, b) == SumOf(Operand(a), Operand(b))
HwMul(a, b) ==
  IF IsZero(a) \/ IsZero(b) THEN Zero(Neg(a) # Neg(b))
  ELSE Pack(FrMul(Operand(a), Operand(b)))

(* The fused sum, with one rounding; but an addend whose exponent is far   *)
(* enough above the product's is returned as it is.                        *)
Dominant(a, b, c) == ~IsZero(c) /\ Exp(c) - Exp(a) - Exp(b) + BIAS >= MB + 3
HwMadd(a, b, c) ==
  IF IsZero(a) \/ IsZero(b)
  THEN IF ~IsZero(c) THEN c ELSE Zero(Neg(c) /\ Neg(a) # Neg(b))
  ELSE IF Dominant(a, b, c) THEN c
  ELSE SumOf(FrMul(Operand(a), Operand(b)), Operand(c))

(* fcvt.s.w; fmin.s and fmax.s, where -0 is below +0; fcvt.w.s to nearest  *)
(* even of a value in range.                                               *)
HwFromInt(n) == IF n = 0 THEN 0 ELSE Pack(FrInt(n))
fp_lt(a, b)  == \/ FrLt(Operand(a), Operand(b))
                \/ IsZero(a) /\ IsZero(b) /\ Neg(a) /\ ~Neg(b)
HwMin(a, b)  == Canonical(IF fp_lt(a, b) THEN a ELSE b)
HwMax(a, b)  == Canonical(IF fp_lt(a, b) THEN b ELSE a)
HwToInt(a) ==
  LET x    == Operand(a)
      mag  == Abs(x[1]) \div x[2]
      rest == 2 * (Abs(x[1]) % x[2])
      m    == IF rest > x[2] \/ (rest = x[2] /\ mag % 2 = 1) THEN mag + 1 ELSE mag
  IN IF Neg(a) THEN -m ELSE m
=============================================================================
