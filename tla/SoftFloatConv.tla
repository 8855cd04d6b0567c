--------------------------- MODULE SoftFloatConv ---------------------------
(***************************************************************************)
(* Fused multiply-add, rounding to an integral value, comparisons, and the *)
(* conversions between formats and between floats and integers.  An        *)
(* integer type is [w |-> width, signed |-> BOOLEAN]; an integer is its    *)
(* value.                                                                  *)
(***************************************************************************)
EXTENDS SoftFloat

CONSTANTS I32, UI32, I64, UI64,   \* the integer types
          JamBits                 \* fraction bits kept by roundToI32 (12 in the code)

ASSUME IntTypes == /\ I32.signed /\ I64.signed /\ ~UI32.signed /\ ~UI64.signed
                   /\ UI32.w = I32.w /\ UI64.w = I64.w /\ I32.w < I64.w
                   /\ JamBits \in Nat \ {0, 1}

(***************************************************************************)
(* softfloat_mulAddF32 and its siblings; op is 0 in every call.  The       *)
(* product keeps all its bits: its leading bit is at 2 * (f + Guard) + 1.  *)
(***************************************************************************)
\* an infinity or a NaN among the operands
mulAddSpecial(F, uiA, uiB, uiC) ==
    LET infOr(u) == expUI(F, u) = ExpMax(F)
    IN infOr(uiA) \/ infOr(uiB) \/ infOr(uiC) \/ isZero(F, uiA) \/ isZero(F, uiB)
mulAddResult(F, rm, uiA, uiB, uiC) ==
    LET prod  == (signUI(F, uiA) + signUI(F, uiB)) % 2
        signC == signUI(F, uiC)
        inf(u) == expUI(F, u) = ExpMax(F)
        zeroProd == isZero(F, uiA) \/ isZero(F, uiB)
        \* propagateNaN_ZC after z: flags of both calls, the default NaN
        ZC(z) == Raise(defaultNaN(F), z.fl \cup propagateNaN(F, z.v, uiC).fl)
    IN IF isNaN(F, uiA) \/ isNaN(F, uiB) THEN ZC(propagateNaN(F, uiA, uiB))
       ELSE IF inf(uiA) \/ inf(uiB)
       THEN IF zeroProd THEN ZC(Invalid(F))
            ELSE IF ~inf(uiC) THEN Exact(Inf(F, prod))
            ELSE IF isNaN(F, uiC) THEN ZC(Exact(Inf(F, prod)))
            ELSE IF prod = signC THEN Exact(Inf(F, prod)) ELSE ZC(Invalid(F))
       ELSE IF inf(uiC) THEN (IF isNaN(F, uiC) THEN ZC(Exact(0)) ELSE Exact(uiC))
       ELSE IF isZero(F, uiC) /\ prod # signC
       THEN Exact(Zero(F, IF rm = "min" THEN 1 ELSE 0)) ELSE Exact(uiC)

\* same signs: [exp, sig], leading bit of sig at f + Guard
mulAddSum(F, expProd, sigProd, expC, sigC) ==
    LET w    == F.w
        diff == expProd - expC
        s    == IF diff =< 0
                THEN sigC + shiftRightJam(sigProd, w - diff, 2 * w)
                ELSE shiftRightJam(sigProd + shiftRightJam(sigC * 2^w, diff, 2 * w), w, 2 * w)
        exp  == IF diff =< 0 THEN expC ELSE expProd
    IN IF s < 2^(F.f + Guard(F)) THEN [exp |-> exp - 1, sig |-> 2 * s] ELSE [exp |-> exp, sig |-> s]

\* opposite signs: the same, turned when C is the larger, or sig 0 when all cancels
mulAddDiff(F, expProd, sigProd, expC, sigC) ==
    LET w    == F.w
        diff == expProd - expC
        wide == sigC * 2^w
        d    == IF diff < 0 THEN shiftRightJam(sigProd, -diff, 2 * w) - wide
                ELSE IF diff = 0 THEN sigProd - wide
                ELSE sigProd - shiftRightJam(wide, diff, 2 * w)
        abs  == IF d < 0 THEN -d ELSE d
        dist == countLeadingZeros(2 * w, abs) - 1
    IN [exp |-> (IF diff < 0 THEN expC ELSE expProd) - dist,
        sig |-> IF abs = 0 THEN 0 ELSE Place(abs, F.f + Guard(F)), turned |-> d < 0]

MulAdd(F, rm, uiA, uiB, uiC) ==
    LET prod == (signUI(F, uiA) + signUI(F, uiB)) % 2
        A == Norm(F, uiA)  B == Norm(F, uiB)  C == Norm(F, uiC)
        g == Guard(F)
        raw  == A.sig * 2^g * B.sig * 2^g
        low  == raw < 2^(2 * (F.f + g) + 1)
        sigP == IF low THEN 2 * raw ELSE raw
        expP == A.exp + B.exp - Bias(F) + 1 - (IF low THEN 1 ELSE 0)
        sigC == C.sig * 2^(g - 1)
        sum  == mulAddSum(F, expP, sigP, C.exp, sigC)
        dif  == mulAddDiff(F, expP, sigP, C.exp, sigC)
    IN IF mulAddSpecial(F, uiA, uiB, uiC) THEN mulAddResult(F, rm, uiA, uiB, uiC)
       ELSE IF isZero(F, uiC)
       THEN roundPack(F, rm, prod, expP - 1, shiftRightJam(sigP, F.w - 1, 2 * F.w))
       ELSE IF prod = signUI(F, uiC) THEN roundPack(F, rm, prod, sum.exp, sum.sig)
       ELSE IF dif.sig = 0 THEN Exact(Zero(F, IF rm = "min" THEN 1 ELSE 0))
       ELSE roundPack(F, rm, IF dif.turned THEN 1 - prod ELSE prod, dif.exp, dif.sig)

(***************************************************************************)
(* Rounding to an integral value, in place on the bits.                    *)
(***************************************************************************)
RoundToInt(F, rm, u, exact) ==
    LET exp  == expUI(F, u)
        sign == signUI(F, u)
        zero == Zero(F, sign)
        one  == packToUI(F, sign, Bias(F), 0)
        small == CASE rm = "near_even"   -> IF exp = Bias(F) - 1 /\ fracUI(F, u) # 0 THEN one ELSE zero
                   [] rm = "near_maxMag" -> IF exp = Bias(F) - 1 THEN one ELSE zero
                   [] rm \in {"min", "max"} -> IF rm = AwayMode(sign) THEN one ELSE zero
                   [] OTHER              -> zero
        last == 2^(Bias(F) + F.f - exp)
        half == u + last \div 2
        up   == CASE rm = "near_maxMag"    -> half
                  [] rm = "near_even"      -> IF half % last = 0 THEN half - (half % (2 * last)) ELSE half
                  [] rm = AwayMode(sign)   -> u + last - 1
                  [] OTHER                 -> u
        z    == up - (up % last)
    IN IF exp < Bias(F)
       THEN IF isZero(F, u) THEN Exact(u) ELSE Raise(small, If(exact, "NX"))
       ELSE IF Bias(F) + F.f =< exp
       THEN IF isNaN(F, u) THEN propagateNaN(F, u, 0) ELSE Exact(u)
       ELSE Raise(z, If(exact /\ z # u, "NX"))

(***************************************************************************)
(* Comparisons.  quiet: only a signalling NaN raises invalid.              *)
(***************************************************************************)
Compare(F, uiA, uiB, quiet, holds) ==
    IF isNaN(F, uiA) \/ isNaN(F, uiB)
    THEN [v |-> FALSE, fl |-> If(~quiet \/ isSigNaN(F, uiA) \/ isSigNaN(F, uiB), "NV")]
    ELSE [v |-> holds, fl |-> {}]
EqBits(F, uiA, uiB) == uiA = uiB \/ (isZero(F, uiA) /\ isZero(F, uiB))
LeBits(F, uiA, uiB) ==
    IF signUI(F, uiA) # signUI(F, uiB)
    THEN signUI(F, uiA) = 1 \/ (isZero(F, uiA) /\ isZero(F, uiB))
    ELSE uiA = uiB \/ ((signUI(F, uiA) = 1) # (uiA < uiB))
LtBits_NoZero(F, uiA, uiB) ==
    IF signUI(F, uiA) # signUI(F, uiB) THEN signUI(F, uiA) = 1
    ELSE uiA # uiB /\ ((signUI(F, uiA) = 1) # (uiA < uiB))
LtBits(F, uiA, uiB) ==
    IF signUI(F, uiA) # signUI(F, uiB)
    THEN signUI(F, uiA) = 1 /\ ~(isZero(F, uiA) /\ isZero(F, uiB))
    ELSE uiA # uiB /\ ((signUI(F, uiA) = 1) # (uiA < uiB))

\* the one bit of the ten that fclass sets
Classify(F, u) ==
    LET exp == expUI(F, u)  frac == fracUI(F, u)
        name == CASE exp = ExpMax(F) -> IF frac = 0 THEN "inf"
                                        ELSE IF isSigNaN(F, u) THEN "sNaN" ELSE "qNaN"
                  [] exp = 0 -> IF frac = 0 THEN "zero" ELSE "subnormal"
                  [] OTHER -> "normal"
    IN IF name \in {"sNaN", "qNaN"} THEN <<"NaN", name>>
       ELSE <<IF signUI(F, u) = 1 THEN "neg" ELSE "pos", name>>

(***************************************************************************)
(* Between formats.                                                        *)
(***************************************************************************)
FromNaN(F, G, u) == Raise(defaultNaN(G), If(isSigNaN(F, u), "NV"))

Narrow(F, G, rm, u) ==
    LET sign == signUI(F, u)
        frac == shiftRightJam(fracUI(F, u), F.f - G.f - Guard(G), F.f + 2)
    IN IF isNaN(F, u) THEN FromNaN(F, G, u)
       ELSE IF expUI(F, u) = ExpMax(F) THEN Exact(Inf(G, sign))
       ELSE IF expUI(F, u) = 0 /\ frac = 0 THEN Exact(Zero(G, sign))
       ELSE roundPack(G, rm, sign, expUI(F, u) - (Bias(F) - Bias(G)) - 1,
                      2^(G.f + Guard(G)) + frac)

Widen(F, G, u) ==
    LET sign == signUI(F, u)
        N    == Norm(F, u)
    IN IF isNaN(F, u) THEN FromNaN(F, G, u)
       ELSE IF expUI(F, u) = ExpMax(F) THEN Exact(Inf(G, sign))
       ELSE IF isZero(F, u) THEN Exact(Zero(G, sign))
       ELSE Exact(packToUI(G, sign, N.exp - 1 + Bias(G) - Bias(F), N.sig * 2^(G.f - F.f)))

(***************************************************************************)
(* Integers.                                                               *)
(***************************************************************************)
MaxInt(T) == IF T.signed THEN 2^(T.w - 1) - 1 ELSE 2^T.w - 1
MinInt(T) == IF T.signed THEN -2^(T.w - 1) ELSE 0
Overflow(T, sign) == [v |-> IF sign = 1 THEN MinInt(T) ELSE MaxInt(T), fl |-> {"NV"}]

\* fraction bits of the magnitude a rounding function is given: 12 for the
\* 32-bit types, the word sigExtra for the 64-bit ones
KeptBits(T) == IF T.w = I32.w THEN JamBits ELSE ExtraBits

\* the magnitude sig, with KeptBits fraction bits, as an integer of type T
RoundToType(T, rm, sign, sig, exact) ==
    LET j     == KeptBits(T)
        round == sig % 2^j
        up    == (sig + roundIncrement(j, rm, sign)) \div 2^j
        abs   == IF rm = "near_even" /\ round = 2^(j - 1) THEN up - (up % 2) ELSE up
        z     == IF sign = 1 THEN -abs ELSE abs
    IN IF z \in MinInt(T) .. MaxInt(T) THEN [v |-> z, fl |-> If(exact /\ round # 0, "NX")]
       ELSE Overflow(T, sign)

\* u with j fraction bits; a number beyond every integer keeps a leading bit that overflows
Fixed(F, T, j, u) ==
    LET exp   == expUI(F, u)
        sig   == fracUI(F, u) + (IF exp # 0 THEN Hidden(F) ELSE 0)
        left  == (IF exp = 0 THEN 1 ELSE exp) - Bias(F) - F.f + j
    IN IF left > T.w + j THEN 2^(T.w + j)
       ELSE IF left >= 0 THEN sig * 2^left ELSE shiftRightJam(sig, -left, F.f + j + 2)

ToInt(F, T, rm, u, exact) ==
    IF isNaN(F, u) THEN Overflow(T, 0)
    ELSE IF expUI(F, u) = ExpMax(F) THEN Overflow(T, signUI(F, u))
    ELSE RoundToType(T, rm, signUI(F, u), Fixed(F, T, KeptBits(T), u), exact)

\* f32_to_i32_r_minMag and its siblings: cut the fraction, no rounding helper
ToInt_r_minMag(F, T, u, exact) ==
    LET sign == signUI(F, u)
        exp  == expUI(F, u)
        dist == Bias(F) + F.f - exp
        sig  == Hidden(F) + fracUI(F, u)
        abs  == IF dist >= 0 THEN sig \div 2^dist ELSE sig * 2^(-dist)
        z    == IF sign = 1 THEN -abs ELSE abs
    IN IF exp < Bias(F) THEN [v |-> 0, fl |-> If(exact /\ ~isZero(F, u), "NX")]
       ELSE IF isNaN(F, u) THEN Overflow(T, 0)
       ELSE IF exp = ExpMax(F) \/ exp - Bias(F) >= T.w \/ z \notin MinInt(T) .. MaxInt(T) THEN Overflow(T, sign)
       ELSE [v |-> z, fl |-> If(exact /\ dist > 0 /\ sig % 2^dist # 0, "NX")]

\* a packed at once when its bits fit the fraction, otherwise rounded
FromInt(F, rm, a) ==
    LET sign == IF a < 0 THEN 1 ELSE 0
        abs  == IF a < 0 THEN -a ELSE a
        lead == BitLen(abs) - 1
    IN IF a = 0 THEN Exact(0)
       ELSE IF lead =< F.f /\ Bias(F) + lead < ExpMax(F)
       THEN Exact(packToUI(F, sign, Bias(F) + lead - 1, Place(abs, F.f)))
       ELSE roundPack(F, rm, sign, Bias(F) + lead - 1, Place(abs, F.f + Guard(F)))
=============================================================================
