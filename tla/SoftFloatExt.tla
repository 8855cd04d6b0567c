---------------------------- MODULE SoftFloatExt ----------------------------
(***************************************************************************)
(* The 80-bit functions.  Their significand keeps its leading bit in the   *)
(* word, and extF80_roundingPrecision makes the arithmetic round to fewer  *)
(* bits than the word holds.  Operands are canonical numbers, so the       *)
(* leading bit follows from the exponent: a number is given by the bits a  *)
(* format F80 that hides it would hold, and Explicit puts it back.  What   *)
(* lies below the word is sigExtra, of ExtraBits bits as in SoftFloatWide. *)
(***************************************************************************)
EXTENDS SoftFloatWide

CONSTANT F80      \* the format; F80.f + 1 is the width of the significand's word

ASSUME ExtendedFormat ==
    /\ F80.e = F128.e /\ F64.f < F80.f /\ F80.f < F128.f /\ F80.w = F80.f + 1
    /\ I64.w =< F80.w       \* every integer fits the significand

Precisions == {80, 64, 32}
\* the format whose fraction the precision leaves
Kept(prec) == CASE prec = 64 -> [F80 EXCEPT !.f = F64.f]
                [] prec = 32 -> [F80 EXCEPT !.f = F32.f]
                [] OTHER     -> F80

Lead == Hidden(F80)
Explicit(u) == fracUI(F80, u) + (IF expUI(F80, u) = 0 THEN 0 ELSE Lead)
packExt(sign, exp, sig) == packToUI(F80, sign, exp, sig - (IF exp = 0 THEN 0 ELSE Lead))
\* a subnormal has the exponent 1 before its significand is shifted up
NormExt(u) ==
    LET shiftDist == F80.w - BitLen(Explicit(u))
    IN [exp |-> (IF expUI(F80, u) = 0 THEN 1 ELSE expUI(F80, u)) - shiftDist,
        sig |-> Explicit(u) * 2^shiftDist]

\* s is sig and sigExtra; exp is packed as it is, the leading bit adds nothing
roundPackExt(prec, rm, sign, exp, s) ==
    LET d     == IF prec = 80 THEN ExtraBits ELSE F80.f - Kept(prec).f   \* bits rounded away
        last  == IF prec = 80 THEN 1 ELSE 2^d              \* the last bit kept, in sig
        v     == IF prec = 80 THEN s ELSE Jam(s \div X2, s % X2 # 0)
        carry == 2 * Lead * (2^d \div last)
        inc   == roundIncrement(d, rm, sign)
        t     == IF exp > 0 THEN v
                 ELSE IF prec = 80 THEN shiftRightJamExtra(v, 1 - exp)
                 ELSE shiftRightJam(v, 1 - exp, F80.w)
        round == t % 2^d
        up    == (t + inc) \div 2^d
        z     == last * (IF rm = "near_even" /\ round = 2^(d - 1) THEN up - (up % 2) ELSE up)
    IN IF exp > ExpMax(F80) - 1 \/ (exp = ExpMax(F80) - 1 /\ carry =< v + inc)
       THEN Raise(IF inc = 0 THEN packExt(sign, ExpMax(F80) - 1, 2 * Lead - last)
                  ELSE Inf(F80, sign), {"OF", "NX"})
       ELSE Raise(IF exp =< 0 THEN packExt(sign, z \div Lead, z)
                  ELSE IF z = 2 * Lead THEN packExt(sign, exp + 1, Lead)
                  ELSE packExt(sign, exp, z),
                  If(round # 0, "NX")
                    \cup If(exp =< 0 /\ round # 0 /\ (exp < 0 \/ v + inc < carry), "UF"))

\* n with k bits below the word; a leading bit below the word's is moved up
normRoundPackExt(prec, rm, sign, exp, n, k) ==
    roundPackExt(prec, rm, sign, exp - (F80.w + k - BitLen(n)), Place(n, F80.f + ExtraBits))

addMagsExt(prec, rm, uiA, uiB) ==
    LET expA == expUI(F80, uiA)  sigA == Explicit(uiA)
        expB == expUI(F80, uiB)  sigB == Explicit(uiB)
        sign == signUI(F80, uiA)
        Low(exp, sig, dist) == shiftRightJamExtra(sig * X2, IF exp = 0 THEN dist - 1 ELSE dist)
        Sum(exp, s) == IF s < 2 * Lead * X2 THEN roundPackExt(prec, rm, sign, exp, s)
                       ELSE roundPackExt(prec, rm, sign, exp + 1, shiftRightJamExtra(s, 1))
        clz == F80.w - BitLen(sigA + sigB)
    IN IF ExpMax(F80) \in {expA, expB} THEN MagsSpecial(F80, uiA, uiB, sign)
       ELSE IF expA = 0 /\ expB = 0
       THEN roundPackExt(prec, rm, sign, 1 - clz, (sigA + sigB) * 2^clz * X2)
       ELSE IF expA = expB THEN Sum(expA, (sigA + sigB) * X2)
       ELSE IF expA < expB THEN Sum(expB, sigB * X2 + Low(expA, sigA, expB - expA))
       ELSE Sum(expA, sigA * X2 + Low(expB, sigB, expA - expB))

\* the difference keeps two bits more, for the one the normalisation may shift up
subMagsExt(prec, rm, uiA, uiB) ==
    LET expA == expUI(F80, uiA)  sigA == Explicit(uiA)
        expB == expUI(F80, uiB)  sigB == Explicit(uiB)
        sign == signUI(F80, uiA)
        k    == ExtraBits + 2
        Low(exp, sig, dist) == shiftRightJam(sig * 2^k, IF exp = 0 THEN dist - 1 ELSE dist, 32)
        Diff(s, exp, n) == normRoundPackExt(prec, rm, s, exp, n, k)
        same == IF expA = 0 THEN 1 ELSE expA
    IN IF expA = expB /\ expA = ExpMax(F80)
       THEN IF isNaN(F80, uiA) \/ isNaN(F80, uiB) THEN propagateNaN(F80, uiA, uiB) ELSE Invalid(F80)
       ELSE IF ExpMax(F80) \in {expA, expB} THEN MagsSpecial(F80, uiA, uiB, 1 - sign)
       ELSE IF expA = expB
       THEN IF sigA = sigB THEN Exact(Zero(F80, IF rm = "min" THEN 1 ELSE 0))
            ELSE IF sigB < sigA THEN Diff(sign, same, (sigA - sigB) * 2^k)
            ELSE Diff(1 - sign, same, (sigB - sigA) * 2^k)
       ELSE IF expA < expB THEN Diff(1 - sign, expB, sigB * 2^k - Low(expA, sigA, expB - expA))
       ELSE Diff(sign, expA, sigA * 2^k - Low(expB, sigB, expA - expB))

MulExt(prec, rm, uiA, uiB) ==
    LET sign == (signUI(F80, uiA) + signUI(F80, uiB)) % 2
        A == NormExt(uiA)  B == NormExt(uiB)
        raw  == A.sig * B.sig
        low  == raw < 2^(2 * F80.f + 1)
        zero == isZero(F80, uiA) \/ isZero(F80, uiB)
    IN IF isNaN(F80, uiA) \/ isNaN(F80, uiB) THEN propagateNaN(F80, uiA, uiB)
       ELSE IF ExpMax(F80) \in {expUI(F80, uiA), expUI(F80, uiB)}
       THEN IF zero THEN Invalid(F80) ELSE Exact(Inf(F80, sign))
       ELSE IF zero THEN Exact(Zero(F80, sign))
       ELSE roundPackExt(prec, rm, sign, A.exp + B.exp - (Bias(F80) - 1) - (IF low THEN 1 ELSE 0),
                         Place(IF low THEN 2 * raw ELSE raw, F80.f + ExtraBits))

DivExt(prec, rm, uiA, uiB) ==
    LET A == NormExt(uiA)  B == NormExt(uiB)
        less == A.sig < B.sig
        num  == A.sig * 2^(F80.f + ExtraBits + (IF less THEN 1 ELSE 0))
    IN IF DivSpecial(F80, uiA, uiB) THEN DivResult(F80, uiA, uiB)
       ELSE roundPackExt(prec, rm, (signUI(F80, uiA) + signUI(F80, uiB)) % 2,
                         A.exp - B.exp + Bias(F80) - (IF less THEN 1 ELSE 0),
                         Jam(num \div B.sig, num % B.sig # 0))

SqrtExt(prec, rm, u) ==
    LET A == NormExt(u)
        p == F80.f + ExtraBits
        n == A.sig * 2^(2 * p - F80.f + (IF A.exp % 2 = 1 THEN 0 ELSE 1))
        r == Root(n, p)
    IN IF SqrtSpecial(F80, u) THEN SqrtResult(F80, u)
       ELSE roundPackExt(prec, rm, 0, ((A.exp - Bias(F80)) \div 2) + Bias(F80), Jam(r, r * r # n))

\* always to the full precision
RemExt(rm, uiA, uiB) ==
    LET A == NormExt(uiA)  B == NormExt(uiB)
        N == Nearest(A, B)
    IN IF RemSpecial(F80, uiA, uiB) THEN RemResult(F80, uiA, uiB)
       ELSE IF A.exp - B.exp < -1 THEN Exact(uiA)
       ELSE normRoundPackExt(80, rm, (signUI(F80, uiA) + (IF N.turned THEN 1 ELSE 0)) % 2,
                             IF N.rem = 0 THEN 0 ELSE N.exp - 1, N.rem, 0)

\* a magnitude below 1, an integral number and a NaN go as in the other formats
RoundToIntExt(rm, u, exact) ==
    LET exp  == expUI(F80, u)
        sign == signUI(F80, u)
        sigA == Explicit(u)
        last == 2^(Bias(F80) + F80.f - exp)
        half == sigA + last \div 2
        up   == CASE rm = "near_maxMag"  -> half
                  [] rm = "near_even"    -> IF half % last = 0 THEN half - (half % (2 * last)) ELSE half
                  [] rm = AwayMode(sign) -> sigA + last - 1
                  [] OTHER               -> sigA
        sigZ == up - (up % last)
    IN IF exp \notin Bias(F80) .. Bias(F80) + F80.f - 1 THEN RoundToInt(F80, rm, u, exact)
       ELSE Raise(IF sigZ = 2 * Lead THEN packExt(sign, exp + 1, Lead) ELSE packExt(sign, exp, sigZ),
                  If(exact /\ sigZ # sigA, "NX"))

(***************************************************************************)
(* Conversions.                                                            *)
(***************************************************************************)
\* a significand with its leading bit at from, with it at to
Align(sig, from, to) == IF to =< from THEN shiftRightJam(sig, from - to, 32) ELSE sig * 2^(to - from)

NarrowExt(G, rm, u) ==
    LET sign == signUI(F80, u)
        sig  == Align(Explicit(u), F80.f, G.f + Guard(G))
    IN IF isNaN(F80, u) THEN FromNaN(F80, G, u)
       ELSE IF expUI(F80, u) = ExpMax(F80) THEN Exact(Inf(G, sign))
       ELSE IF expUI(F80, u) = 0 /\ sig = 0 THEN Exact(Zero(G, sign))
       ELSE roundPack(G, rm, sign, expUI(F80, u) - (Bias(F80) - Bias(G)) - 1, sig)

\* the exponent ranges are the same, so subnormals need no case
WidenExt(u) ==
    IF isNaN(F80, u) THEN FromNaN(F80, F128, u)
    ELSE Exact(packToUI(F128, signUI(F80, u), expUI(F80, u), fracUI(F80, u) * 2^(F128.f - F80.f)))

F128ToExt(rm, u) ==
    LET N == Norm(F128, u)
    IN IF isNaN(F128, u) THEN FromNaN(F128, F80, u)
       ELSE IF expUI(F128, u) = ExpMax(F128) THEN Exact(Inf(F80, signUI(F128, u)))
       ELSE IF isZero(F128, u) THEN Exact(Zero(F80, signUI(F128, u)))
       ELSE roundPackExt(80, rm, signUI(F128, u), N.exp, WithExtra(N.sig, F128.f - F80.f))

\* every integer fits, so nothing is rounded
IntToExt(a) ==
    LET abs == IF a < 0 THEN -a ELSE a
    IN IF a = 0 THEN Exact(0)
       ELSE Exact(packExt(IF a < 0 THEN 1 ELSE 0, Bias(F80) + BitLen(abs) - 1, Place(abs, F80.f)))

(***************************************************************************)
(* The functions by name; prec is extF80_roundingPrecision.                *)
(***************************************************************************)
extF80_add(prec, rm, a, b) == IF signUI(F80, a) = signUI(F80, b) THEN addMagsExt(prec, rm, a, b)
                              ELSE subMagsExt(prec, rm, a, b)
extF80_sub(prec, rm, a, b) == IF signUI(F80, a) = signUI(F80, b) THEN subMagsExt(prec, rm, a, b)
                              ELSE addMagsExt(prec, rm, a, b)
extF80_mul(prec, rm, a, b) == MulExt(prec, rm, a, b)
extF80_div(prec, rm, a, b) == DivExt(prec, rm, a, b)
extF80_rem(rm, a, b) == RemExt(rm, a, b)
extF80_sqrt(prec, rm, a) == SqrtExt(prec, rm, a)
extF80_roundToInt(rm, a, exact) == RoundToIntExt(rm, a, exact)

extF80_eq(a, b) == Compare(F80, a, b, TRUE, EqBits(F80, a, b))
extF80_eq_signaling(a, b) == Compare(F80, a, b, FALSE, EqBits(F80, a, b))
extF80_le(a, b) == Compare(F80, a, b, FALSE, LeBits(F80, a, b))
extF80_le_quiet(a, b) == Compare(F80, a, b, TRUE, LeBits(F80, a, b))
extF80_lt(a, b) == Compare(F80, a, b, FALSE, LtBits(F80, a, b))
extF80_lt_quiet(a, b) == Compare(F80, a, b, TRUE, LtBits(F80, a, b))

extF80_to_f16(rm, a) == NarrowExt(F16, rm, a)
extF80_to_f32(rm, a) == NarrowExt(F32, rm, a)
extF80_to_f64(rm, a) == NarrowExt(F64, rm, a)
extF80_to_f128(a) == WidenExt(a)
f16_to_extF80(a) == Widen(F16, F80, a)
f32_to_extF80(a) == Widen(F32, F80, a)
f64_to_extF80(a) == Widen(F64, F80, a)
f128_to_extF80(rm, a) == F128ToExt(rm, a)
i32_to_extF80(a) == IntToExt(a)
ui32_to_extF80(a) == IntToExt(a)
i64_to_extF80(a) == IntToExt(a)
ui64_to_extF80(a) == IntToExt(a)
extF80_to_i32(rm, a, exact) == ToInt(F80, I32, rm, a, exact)
extF80_to_ui32(rm, a, exact) == ToInt(F80, UI32, rm, a, exact)
extF80_to_i64(rm, a, exact) == ToInt(F80, I64, rm, a, exact)
extF80_to_ui64(rm, a, exact) == ToInt(F80, UI64, rm, a, exact)
extF80_to_i32_r_minMag(a, exact) == ToInt_r_minMag(F80, I32, a, exact)
extF80_to_ui32_r_minMag(a, exact) == ToInt_r_minMag(F80, UI32, a, exact)
extF80_to_i64_r_minMag(a, exact) == ToInt_r_minMag(F80, I64, a, exact)
extF80_to_ui64_r_minMag(a, exact) == ToInt_r_minMag(F80, UI64, a, exact)
=============================================================================
