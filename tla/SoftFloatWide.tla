--------------------------- MODULE SoftFloatWide ---------------------------
(***************************************************************************)
(* The quadruple-precision functions.  They keep no guard bits in the      *)
(* significand (its leading bit is at f); what lies below it is in a       *)
(* separate word sigExtra of ExtraBits bits, whose top bit is the half and *)
(* whose other bits only say "not exact".  The pair is one number here:    *)
(* sig * 2^ExtraBits + extra.                                              *)
(***************************************************************************)
EXTENDS SoftFloatConv

X2 == 2^ExtraBits

\* shiftRightJam128Extra: bits leave sig for extra, the old extra only sticks
shiftRightJamExtra(s, dist) ==
    Jam(shiftRightJam((s \div X2) * X2, dist, 32), s % X2 # 0)

doIncrement(rm, sign, extra) ==
    IF rm \in {"near_even", "near_maxMag"} THEN X2 \div 2 =< extra
    ELSE rm = AwayMode(sign) /\ extra # 0

roundPack128(F, rm, sign, exp, s) ==
    LET ones  == 2 * Hidden(F) - 1
        first == doIncrement(rm, sign, s % X2)
        isTiny == exp < -1 \/ ~first \/ s \div X2 < ones
        t     == IF exp < 0 THEN shiftRightJamExtra(s, -exp) ELSE s
        sig   == t \div X2
        extra == t % X2
        up    == sig + 1
        z     == IF ~doIncrement(rm, sign, extra) THEN sig
                 ELSE IF rm = "near_even" /\ extra = X2 \div 2 THEN up - (up % 2) ELSE up
        over  == exp > ExpMax(F) - 2 \/ (exp = ExpMax(F) - 2 /\ s \div X2 = ones /\ first)
    IN IF over
       THEN Raise(IF rm \in {"near_even", "near_maxMag", AwayMode(sign)} THEN Inf(F, sign)
                  ELSE Inf(F, sign) - 1, {"OF", "NX"})
       ELSE Raise(packToUI(F, sign, IF exp < 0 \/ z = 0 THEN 0 ELSE exp, z),
                  If(extra # 0, "NX") \cup If(exp < 0 /\ isTiny /\ extra # 0, "UF"))

\* sig in the 128-bit word; a leading bit above f moves bits into extra
normRoundPack128(F, rm, sign, exp, sig) ==
    LET shiftDist == F.f + 1 - BitLen(sig)
        x == exp - shiftDist
    IN IF shiftDist < 0 THEN roundPack128(F, rm, sign, x, shiftRightJamExtra(sig * X2, -shiftDist))
       ELSE IF x \in 0 .. ExpMax(F) - 3
       THEN Exact(packToUI(F, sign, IF sig = 0 THEN 0 ELSE x, sig * 2^shiftDist))
       ELSE roundPack128(F, rm, sign, x, sig * 2^shiftDist * X2)

addMags128(F, rm, uiA, uiB) ==
    LET expA == expUI(F, uiA)  sigA == fracUI(F, uiA)
        expB == expUI(F, uiB)  sigB == fracUI(F, uiB)
        sign == signUI(F, uiA)
        Low(exp, sig, dist) == IF exp # 0 THEN shiftRightJamExtra((sig + Hidden(F)) * X2, dist)
                               ELSE shiftRightJamExtra(sig * X2, dist - 1)
        Sum(exp, big, small) ==
            LET s == (Hidden(F) + big) * X2 + small
            IN IF s < 2 * Hidden(F) * X2 THEN roundPack128(F, rm, sign, exp - 1, s)
               ELSE roundPack128(F, rm, sign, exp, shiftRightJamExtra(s, 1))
    IN IF expA = expB
       THEN IF expA = ExpMax(F)
            THEN IF sigA + sigB # 0 THEN propagateNaN(F, uiA, uiB) ELSE Exact(uiA)
            ELSE IF expA = 0 THEN Exact(packToUI(F, sign, 0, sigA + sigB))
            ELSE roundPack128(F, rm, sign, expA,
                              shiftRightJamExtra((2 * Hidden(F) + sigA + sigB) * X2, 1))
       ELSE IF ExpMax(F) \in {expA, expB} THEN MagsSpecial(F, uiA, uiB, sign)
       ELSE IF expA < expB THEN Sum(expB, sigB, Low(expA, sigA, expB - expA))
       ELSE Sum(expA, sigA, Low(expB, sigB, expA - expB))

\* four guard bits in the word itself
subMags128(F, rm, uiA, uiB) ==
    LET expA == expUI(F, uiA)  sigA == 16 * fracUI(F, uiA)
        expB == expUI(F, uiB)  sigB == 16 * fracUI(F, uiB)
        sign == signUI(F, uiA)
        top  == 16 * Hidden(F)
        Low(exp, sig, dist) == IF exp # 0 THEN shiftRightJam(sig + top, dist, 32)
                               ELSE shiftRightJam(sig, dist - 1, 32)
        Diff(s, exp, d) == normRoundPack128(F, rm, s, exp - 5, d)
        same == IF expA = 0 THEN 1 ELSE expA
    IN IF expA = expB
       THEN IF expA = ExpMax(F)
            THEN IF sigA + sigB # 0 THEN propagateNaN(F, uiA, uiB) ELSE Invalid(F)
            ELSE IF sigA = sigB THEN Exact(Zero(F, IF rm = "min" THEN 1 ELSE 0))
            ELSE IF sigA > sigB THEN Diff(sign, same, sigA - sigB)
            ELSE Diff(1 - sign, same, sigB - sigA)
       ELSE IF ExpMax(F) \in {expA, expB} THEN MagsSpecial(F, uiA, uiB, 1 - sign)
       ELSE IF expA < expB THEN Diff(1 - sign, expB, sigB + top - Low(expA, sigA, expB - expA))
       ELSE Diff(sign, expA, sigA + top - Low(expB, sigB, expA - expB))

\* an exact number n * 2^-k as significand and extra
WithExtra(n, k) == IF k =< ExtraBits THEN n * 2^(ExtraBits - k)
                   ELSE shiftRightJam(n, k - ExtraBits, 32)

Mul128(F, rm, uiA, uiB) ==
    LET sign == (signUI(F, uiA) + signUI(F, uiB)) % 2
        A == Norm(F, uiA)  B == Norm(F, uiB)
        s == WithExtra(A.sig * B.sig, F.f)
        exp == A.exp + B.exp - Bias(F) - 1
        zero == isZero(F, uiA) \/ isZero(F, uiB)
    IN IF isNaN(F, uiA) \/ isNaN(F, uiB) THEN propagateNaN(F, uiA, uiB)
       ELSE IF ExpMax(F) \in {expUI(F, uiA), expUI(F, uiB)}
       THEN IF zero THEN Invalid(F) ELSE Exact(Inf(F, sign))
       ELSE IF zero THEN Exact(Zero(F, sign))
       ELSE IF s < 2 * Hidden(F) * X2 THEN roundPack128(F, rm, sign, exp, s)
       ELSE roundPack128(F, rm, sign, exp + 1, shiftRightJamExtra(s, 1))

Div128(F, rm, uiA, uiB) ==
    LET A == Norm(F, uiA)  B == Norm(F, uiB)
        less == A.sig < B.sig
        num == A.sig * 2^(F.f + ExtraBits + (IF less THEN 1 ELSE 0))
    IN IF DivSpecial(F, uiA, uiB) THEN DivResult(F, uiA, uiB)
       ELSE roundPack128(F, rm, (signUI(F, uiA) + signUI(F, uiB)) % 2,
                         A.exp - B.exp + Bias(F) - (IF less THEN 2 ELSE 1),
                         Jam(num \div B.sig, num % B.sig # 0))

Sqrt128(F, rm, u) ==
    LET A == Norm(F, u)
        p == F.f + ExtraBits
        n == A.sig * 2^(2 * p - F.f + (IF A.exp % 2 = 1 THEN 0 ELSE 1))
        r == Root(n, p)
    IN IF SqrtSpecial(F, u) THEN SqrtResult(F, u)
       ELSE roundPack128(F, rm, 0, ((A.exp - Bias(F)) \div 2) + Bias(F) - 1, Jam(r, r * r # n))

Rem128(F, rm, uiA, uiB) ==
    LET N == Nearest(Norm(F, uiA), Norm(F, uiB))
    IN IF RemSpecial(F, uiA, uiB) THEN RemResult(F, uiA, uiB)
       ELSE IF Norm(F, uiA).exp - Norm(F, uiB).exp < -1 THEN Exact(uiA)
       ELSE normRoundPack128(F, rm, (signUI(F, uiA) + (IF N.turned THEN 1 ELSE 0)) % 2,
                             N.exp - 2, N.rem)

\* product and addend as 2 * f + 1 fraction bits and two guard bits; the far
\* smaller of the two only sticks
MulAdd128(F, rm, uiA, uiB, uiC) ==
    LET prod == (signUI(F, uiA) + signUI(F, uiB)) % 2
        A == Norm(F, uiA)  B == Norm(F, uiB)  C == Norm(F, uiC)
        raw  == A.sig * B.sig
        low  == raw < 2^(2 * F.f + 1)
        sigP == 4 * (IF low THEN 2 * raw ELSE raw)
        expP == A.exp + B.exp - Bias(F) + 1 - (IF low THEN 1 ELSE 0)
        sigC == 4 * C.sig * 2^(F.f + 1)
        diff == expP - C.exp
        P    == IF diff < 0 THEN shiftRightJam(sigP, -diff, 32) ELSE sigP
        Q    == IF isZero(F, uiC) THEN 0
                ELSE IF diff > 0 THEN shiftRightJam(sigC, diff, 32) ELSE sigC
        d    == IF prod = signUI(F, uiC) THEN P + Q ELSE P - Q
        abs  == IF d < 0 THEN -d ELSE d
        exp  == IF isZero(F, uiC) \/ diff >= 0 THEN expP ELSE C.exp
    IN IF mulAddSpecial(F, uiA, uiB, uiC) THEN mulAddResult(F, rm, uiA, uiB, uiC)
       ELSE IF isZero(F, uiC) THEN roundPack128(F, rm, prod, expP - 1, Place(sigP, F.f + ExtraBits))
       ELSE IF abs = 0 THEN Exact(Zero(F, IF rm = "min" THEN 1 ELSE 0))
       ELSE roundPack128(F, rm, IF d < 0 THEN 1 - prod ELSE prod,
                         exp - 1 + BitLen(abs) - (2 * F.f + 4), Place(abs, F.f + ExtraBits))
=============================================================================
