---------------------------- MODULE SoftFloatRef ----------------------------
(***************************************************************************)
(* What IEEE 754 asks of the library, from the values the bits stand for:  *)
(* the exact result as a rational, rounded once.  Nothing here shares a    *)
(* significand layout, a guard bit or a shortcut with the library.         *)
(***************************************************************************)
EXTENDS SoftFloat

\* the finite number u is (-1)^sign * mag * 2^unit
Mag(F, u)  == IF expUI(F, u) = 0 THEN fracUI(F, u) ELSE Hidden(F) + fracUI(F, u)
Unit(F, u) == (IF expUI(F, u) = 0 THEN 1 ELSE expUI(F, u)) - Bias(F) - F.f
isInf(F, u) == u % 2^(F.e + F.f) = Inf(F, 0)
Scale(n, k) == IF k >= 0 THEN n * 2^k ELSE n
Signed(F, u) == IF signUI(F, u) = 1 THEN -Mag(F, u) ELSE Mag(F, u)
Abs(x) == IF x < 0 THEN -x ELSE x
MinOf(x, y) == IF x < y THEN x ELSE y
MaxOf(x, y) == IF x < y THEN y ELSE x

\* floor of the binary logarithm of n / d
Log2(n, d) == LET k == BitLen(n) - BitLen(d)
              IN IF (IF k >= 0 THEN d * 2^k =< n ELSE d =< n * 2^(-k)) THEN k ELSE k - 1

\* the integer next to n / (d * 2^q) that the mode chooses; below a quarter all round alike
IntegerAt(rm, sign, n, d, q) ==
    LET num == Scale(n, -q)  den == Scale(d, MinOf(q, BitLen(n) + 2))
        m == num \div den    r == num % den
        up == CASE rm = "near_even"   -> 2 * r > den \/ (2 * r = den /\ m % 2 = 1)
                [] rm = "near_maxMag" -> 2 * r >= den
                [] rm = "min"         -> sign = 1 /\ r > 0
                [] rm = "max"         -> sign = 0 /\ r > 0
                [] OTHER              -> FALSE
    IN [m |-> IF up THEN m + 1 ELSE m, inexact |-> r # 0]

\* (-1)^sign * (n / d) * 2^unit, n > 0, rounded to F
Rounded(F, rm, sign, n, d, unit) ==
    LET least == 1 - Bias(F) - F.f            \* exponent of the last place of a subnormal
        lg    == Log2(n, d)
        free  == IntegerAt(rm, sign, n, d, lg - F.f)
        tiny  == lg + unit + (IF free.m = 2 * Hidden(F) THEN 1 ELSE 0) < 1 - Bias(F)
        q     == MaxOf(lg - F.f, least - unit)
        r     == IntegerAt(rm, sign, n, d, q)
        bits  == (q + unit - least) * Hidden(F) + r.m
        toInf == rm \in {"near_even", "near_maxMag", AwayMode(sign)}
    IN IF bits >= Inf(F, 0)
       THEN Raise((IF toInf THEN Inf(F, 0) ELSE Inf(F, 0) - 1) + Zero(F, sign), {"OF", "NX"})
       ELSE Raise(bits + Zero(F, sign), If(r.inexact, "NX") \cup If(r.inexact /\ tiny, "UF"))

\* x * 2^unit, where a zero takes the sign zeroSign
RoundedSum(F, rm, x, unit, zeroSign) ==
    IF x = 0 THEN Exact(Zero(F, zeroSign))
    ELSE Rounded(F, rm, IF x < 0 THEN 1 ELSE 0, Abs(x), 1, unit)

RefNaN(F, G, us) == Raise(defaultNaN(G), If(\E u \in us : isSigNaN(F, u), "NV"))
Neg(F, u) == (u + 2^(F.e + F.f)) % 2^(F.e + F.f + 1)
Xor(F, a, b) == (signUI(F, a) + signUI(F, b)) % 2

\* operands of format F; the result rounded to G, which may have fewer fraction bits
RefAdd(F, G, rm, a, b) ==
    LET unit == MinOf(Unit(F, a), Unit(F, b))
        sum  == Scale(Signed(F, a), Unit(F, a) - unit) + Scale(Signed(F, b), Unit(F, b) - unit)
    IN IF isNaN(F, a) \/ isNaN(F, b) THEN RefNaN(F, G, {a, b})
       ELSE IF isInf(F, a) /\ isInf(F, b) /\ a # b THEN Invalid(G)
       ELSE IF isInf(F, a) THEN Exact(Inf(G, signUI(F, a)))
       ELSE IF isInf(F, b) THEN Exact(Inf(G, signUI(F, b)))
       ELSE RoundedSum(G, rm, sum, unit,
                       IF signUI(F, a) = signUI(F, b) THEN signUI(F, a)
                       ELSE IF rm = "min" THEN 1 ELSE 0)

RefSub(F, G, rm, a, b) ==
    IF isNaN(F, b) THEN RefNaN(F, G, {a, b}) ELSE RefAdd(F, G, rm, a, Neg(F, b))

RefMul(F, G, rm, a, b) ==
    IF isNaN(F, a) \/ isNaN(F, b) THEN RefNaN(F, G, {a, b})
    ELSE IF isInf(F, a) \/ isInf(F, b)
    THEN IF isZero(F, a) \/ isZero(F, b) THEN Invalid(G) ELSE Exact(Inf(G, Xor(F, a, b)))
    ELSE IF isZero(F, a) \/ isZero(F, b) THEN Exact(Zero(G, Xor(F, a, b)))
    ELSE Rounded(G, rm, Xor(F, a, b), Mag(F, a) * Mag(F, b), 1, Unit(F, a) + Unit(F, b))

RefDiv(F, G, rm, a, b) ==
    IF isNaN(F, a) \/ isNaN(F, b) THEN RefNaN(F, G, {a, b})
    ELSE IF (isInf(F, a) /\ isInf(F, b)) \/ (isZero(F, a) /\ isZero(F, b)) THEN Invalid(G)
    ELSE IF isInf(F, a) THEN Exact(Inf(G, Xor(F, a, b)))
    ELSE IF isInf(F, b) \/ isZero(F, a) THEN Exact(Zero(G, Xor(F, a, b)))
    ELSE IF isZero(F, b) THEN Raise(Inf(G, Xor(F, a, b)), {"DZ"})
    ELSE Rounded(G, rm, Xor(F, a, b), Mag(F, a), Mag(F, b), Unit(F, a) - Unit(F, b))

\* the root bracketed to more places than any rounding looks at
RefSqrt(F, G, rm, a) ==
    LET k == 2 * F.f + 5 - BitLen(Mag(F, a))
        j == IF (Unit(F, a) - k) % 2 = 0 THEN k ELSE k + 1
        n == Mag(F, a) * 2^j
        s == CHOOSE s \in 2^(F.f + 2) .. 2^(F.f + 3) : s * s =< n /\ n < (s + 1) * (s + 1)
    IN IF isNaN(F, a) THEN RefNaN(F, G, {a})
       ELSE IF isZero(F, a) THEN Exact(Zero(G, signUI(F, a)))
       ELSE IF signUI(F, a) = 1 THEN Invalid(G)
       ELSE IF isInf(F, a) THEN Exact(Inf(G, 0))
       ELSE Rounded(G, rm, 0, 2 * s + (IF s * s = n THEN 0 ELSE 1), 2, (Unit(F, a) - j) \div 2)

RefRem(F, a, b) ==
    LET unit == MinOf(Unit(F, a), Unit(F, b))
        x == Scale(Signed(F, a), Unit(F, a) - unit)
        y == Scale(Mag(F, b), Unit(F, b) - unit)
        n == IntegerAt("near_even", 0, Abs(x), y, 0).m
        r == Abs(x) - n * y
    IN IF isNaN(F, a) \/ isNaN(F, b) THEN RefNaN(F, F, {a, b})
       ELSE IF isInf(F, a) \/ isZero(F, b) THEN Invalid(F)
       ELSE IF isInf(F, b) \/ isZero(F, a) THEN Exact(a)
       ELSE RoundedSum(F, "near_even", IF signUI(F, a) = 1 THEN -r ELSE r, unit, signUI(F, a))

RefMulAdd(F, rm, a, b, c) ==
    LET p    == IF Xor(F, a, b) = 1 THEN -(Mag(F, a) * Mag(F, b)) ELSE Mag(F, a) * Mag(F, b)
        up   == Unit(F, a) + Unit(F, b)
        unit == MinOf(up, Unit(F, c))
        prodInf == isInf(F, a) \/ isInf(F, b)
        noProd  == prodInf /\ (isZero(F, a) \/ isZero(F, b))
    IN IF isNaN(F, a) \/ isNaN(F, b) \/ isNaN(F, c)
       THEN Raise(defaultNaN(F), RefNaN(F, F, {a, b, c}).fl
                    \cup If(noProd /\ ~isNaN(F, a) /\ ~isNaN(F, b), "NV"))
       ELSE IF noProd \/ (prodInf /\ isInf(F, c) /\ Xor(F, a, b) # signUI(F, c)) THEN Invalid(F)
       ELSE IF prodInf THEN Exact(Inf(F, Xor(F, a, b)))
       ELSE IF isInf(F, c) THEN Exact(c)
       ELSE RoundedSum(F, rm, Scale(p, up - unit) + Scale(Signed(F, c), Unit(F, c) - unit), unit,
                       IF Xor(F, a, b) = signUI(F, c) THEN signUI(F, c)
                       ELSE IF rm = "min" THEN 1 ELSE 0)

RefConvert(F, G, rm, a) ==
    IF isNaN(F, a) THEN RefNaN(F, G, {a})
    ELSE IF isInf(F, a) THEN Exact(Inf(G, signUI(F, a)))
    ELSE RoundedSum(G, rm, Signed(F, a), Unit(F, a), signUI(F, a))

\* |a| as an integer, and whether it was exact
RefInteger(F, rm, a) == IntegerAt(rm, signUI(F, a), Mag(F, a), 1, -Unit(F, a))

RefRoundToInt(F, rm, a, exact) ==
    LET r == RefInteger(F, rm, a)
    IN IF isNaN(F, a) THEN RefNaN(F, F, {a})
       ELSE IF isInf(F, a) \/ Unit(F, a) >= 0 THEN Exact(a)
       ELSE Raise(RoundedSum(F, rm, IF signUI(F, a) = 1 THEN -r.m ELSE r.m, 0, signUI(F, a)).v,
                  If(exact /\ r.inexact, "NX"))

\* the magnitude r.m with a sign as an integer of T, or the nearer limit
RefInRange(T, sign, r, exact) ==
    LET z  == IF sign = 1 THEN -r.m ELSE r.m
        lo == IF T.signed THEN -2^(T.w - 1) ELSE 0
        hi == IF T.signed THEN 2^(T.w - 1) - 1 ELSE 2^T.w - 1
    IN IF z < lo THEN [v |-> lo, fl |-> {"NV"}]
       ELSE IF z > hi THEN [v |-> hi, fl |-> {"NV"}]
       ELSE [v |-> z, fl |-> If(exact /\ r.inexact, "NX")]

RefToInt(F, T, rm, a, exact) ==
    LET huge == isInf(F, a) \/ expUI(F, a) - Bias(F) > T.w
        r == IF isNaN(F, a) \/ huge THEN [m |-> 2^(T.w + 1), inexact |-> FALSE]
             ELSE RefInteger(F, rm, a)
    IN RefInRange(T, IF isNaN(F, a) THEN 0 ELSE signUI(F, a), r, exact)

RefFromInt(F, rm, a) == RoundedSum(F, rm, a, 0, 0)

\* order of two numbers that are not NaN; an infinity reads as a number past the largest
Less(F, a, b) ==
    LET unit == MinOf(Unit(F, a), Unit(F, b))
        far  == Abs(Unit(F, a) - Unit(F, b)) > 15
    IN IF isZero(F, a) /\ isZero(F, b) THEN FALSE
       ELSE IF signUI(F, a) # signUI(F, b) THEN signUI(F, a) = 1
       ELSE IF far THEN (Unit(F, a) < Unit(F, b)) = (signUI(F, a) = 0)
       ELSE Scale(Signed(F, a), Unit(F, a) - unit) < Scale(Signed(F, b), Unit(F, b) - unit)

RefOrder(F, op, a, b) ==
    LET unordered == isNaN(F, a) \/ isNaN(F, b)
        signals   == op \in {"eq_signaling", "le", "lt"} \/ isSigNaN(F, a) \/ isSigNaN(F, b)
        holds     == CASE op \in {"eq", "eq_signaling"} -> ~Less(F, a, b) /\ ~Less(F, b, a)
                       [] op \in {"le", "le_quiet"}     -> ~Less(F, b, a)
                       [] op \in {"lt", "lt_quiet"}     -> Less(F, a, b)
    IN [v |-> ~unordered /\ holds, fl |-> If(unordered /\ signals, "NV")]

RefClass(F, a) ==
    LET least == Hidden(F)                   \* the bits of the least normal number
        mag   == IF signUI(F, a) = 1 THEN Neg(F, a) ELSE a
    IN CASE isNaN(F, a) -> <<"NaN", IF isSigNaN(F, a) THEN "sNaN" ELSE "qNaN">>
         [] OTHER -> <<IF signUI(F, a) = 1 THEN "neg" ELSE "pos",
                       IF isInf(F, a) THEN "inf"
                       ELSE IF Mag(F, a) = 0 THEN "zero"
                       ELSE IF Less(F, mag, least) THEN "subnormal" ELSE "normal">>
=============================================================================
