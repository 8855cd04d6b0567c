----------------------------- MODULE SoftFloat -----------------------------
(***************************************************************************)
(* The arithmetic of riscv-pk/softfloat, the library the machine-mode      *)
(* emulator calls for every floating-point instruction the core lacks.     *)
(*                                                                         *)
(* The library repeats each algorithm once per format; here an algorithm   *)
(* is one operator over a format F = [e |-> exponent bits, f |-> fraction  *)
(* bits, w |-> bits of the word a significand is kept in], and module      *)
(* SoftFloatOps names the library's functions.  A float is the natural     *)
(* number its bits encode, as in the union ui32_f32.  A result is          *)
(* [v |-> bits, fl |-> flags raised].  The words a wide          *)
(* significand is cut into, and the reciprocal approximations whose error  *)
(* the code removes with the remainder before it rounds, are abstracted:   *)
(* a significand is one natural, a quotient or root is exact with a sticky *)
(* last bit.                                                               *)
(***************************************************************************)
EXTENDS Integers

CONSTANTS F16, F32, F64, F128,   \* the four formats
          ExtraBits              \* bits of sigExtra in the F128 functions

ASSUME FormatsNarrowToWide ==
    /\ \A F \in {F16, F32, F64, F128} :
          F.e \in Nat \ {0, 1} /\ F.f \in Nat \ {0} /\ F.w \in Nat /\ F.w >= 1 + F.e + F.f
    /\ F16.e < F32.e /\ F32.e < F64.e /\ F64.e < F128.e
    \* three guard bits at least, and room for a narrower format's guard bits in a wider one
    /\ \A F \in {F16, F32, F64} : F.w - 2 - F.f >= 3
    /\ F16.w - 2 =< F32.f /\ F32.w - 2 =< F64.f /\ F64.w - 2 =< F128.f
    /\ ExtraBits \in Nat \ {0, 1}

Modes == {"near_even", "minMag", "min", "max", "near_maxMag"}
Flags == {"NX", "UF", "OF", "DZ", "NV"}

Guard(F)  == F.w - 2 - F.f          \* 7 in F32: bits below the last fraction bit
Hidden(F) == 2^F.f
Bias(F)   == 2^(F.e - 1) - 1
ExpMax(F) == 2^F.e - 1

signUI(F, u) == u \div 2^(F.e + F.f)
expUI(F, u)  == (u \div Hidden(F)) % 2^F.e
fracUI(F, u) == u % Hidden(F)
packToUI(F, sign, exp, sig) == sign * 2^(F.e + F.f) + exp * Hidden(F) + sig

Exact(v)      == [v |-> v, fl |-> {}]
Raise(v, fl)  == [v |-> v, fl |-> fl]
If(b, x)      == IF b THEN {x} ELSE {}
Inf(F, sign)  == packToUI(F, sign, ExpMax(F), 0)
Zero(F, sign) == packToUI(F, sign, 0, 0)

(***************************************************************************)
(* NaNs: every NaN result is the positive quiet one, and only a signalling *)
(* operand raises invalid.                                                 *)
(***************************************************************************)
defaultNaN(F) == packToUI(F, 0, ExpMax(F), 2^(F.f - 1))
isNaN(F, u)   == expUI(F, u) = ExpMax(F) /\ fracUI(F, u) # 0
isSigNaN(F, u) == isNaN(F, u) /\ fracUI(F, u) < 2^(F.f - 1)
propagateNaN(F, a, b) == Raise(defaultNaN(F), If(isSigNaN(F, a) \/ isSigNaN(F, b), "NV"))
Invalid(F) == Raise(defaultNaN(F), {"NV"})

(***************************************************************************)
(* Shifts and leading zeros.                                               *)
(***************************************************************************)
Jam(q, inexact) == IF inexact /\ q % 2 = 0 THEN q + 1 ELSE q
shiftRightJam_NoSticky(a, dist, w) == IF dist < w - 1 THEN a \div 2^dist ELSE 0
shiftRightJam(a, dist, w) ==
    IF dist < w - 1 THEN Jam(a \div 2^dist, a % 2^dist # 0)
    ELSE IF a = 0 THEN 0 ELSE 1
BitLen(a) == CHOOSE n \in 0 .. 31 : (n = 0 /\ a = 0) \/ (n > 0 /\ a \div 2^(n - 1) = 1)
countLeadingZeros(w, a) == w - BitLen(a)
\* a moved so that its leading bit is bit p
Place(a, p) == IF BitLen(a) - 1 =< p THEN a * 2^(p + 1 - BitLen(a))
               ELSE shiftRightJam(a, BitLen(a) - 1 - p, 32)

normSubnormalSig(F, sig) ==
    LET shiftDist == countLeadingZeros(F.w, sig) - (F.w - 1 - F.f)
    IN [exp |-> 1 - shiftDist, sig |-> sig * 2^shiftDist]

\* exponent and significand with its leading bit, of a number that is not 0
Norm(F, u) == IF expUI(F, u) = 0 THEN normSubnormalSig(F, fracUI(F, u))
              ELSE [exp |-> expUI(F, u), sig |-> Hidden(F) + fracUI(F, u)]
isZero(F, u) == u % 2^(F.e + F.f) = 0

(***************************************************************************)
(* Rounding.  The value is sig * 2^(exp + 1 - Bias - f - Guard), with the  *)
(* leading bit of sig at f + Guard; packing adds it to the exponent.       *)
(***************************************************************************)
AwayMode(sign) == IF sign = 1 THEN "min" ELSE "max"

roundIncrement(g, rm, sign) ==
    CASE rm \in {"near_even", "near_maxMag"} -> 2^(g - 1)
      [] rm = AwayMode(sign)                 -> 2^g - 1
      [] OTHER                               -> 0

roundPack(F, rm, sign, exp, sig) ==
    LET g     == Guard(F)
        carry == 2^(F.f + g + 1)
        inc   == roundIncrement(g, rm, sign)
        s     == IF exp < 0 THEN shiftRightJam(sig, -exp, F.w) ELSE sig
        round == s % 2^g
        up    == (s + inc) \div 2^g
        z     == IF rm = "near_even" /\ round = 2^(g - 1) THEN up - (up % 2) ELSE up
    IN IF exp > ExpMax(F) - 2 \/ (exp = ExpMax(F) - 2 /\ carry =< sig + inc)
       THEN Raise(Inf(F, sign) - (IF inc = 0 THEN 1 ELSE 0), {"OF", "NX"})
       ELSE Raise(packToUI(F, sign, IF z = 0 \/ exp < 0 THEN 0 ELSE exp, z),
                  If(round # 0, "NX")
                    \cup If(exp < 0 /\ round # 0 /\ (exp < -1 \/ sig + inc < carry), "UF"))

normRoundPack(F, rm, sign, exp, sig) ==
    LET shiftDist == countLeadingZeros(F.w, sig) - 1
        x         == exp - shiftDist
    IN IF Guard(F) =< shiftDist /\ x \in 0 .. ExpMax(F) - 3
       THEN Exact(packToUI(F, sign, IF sig = 0 THEN 0 ELSE x, sig * 2^(shiftDist - Guard(F))))
       ELSE roundPack(F, rm, sign, x, sig * 2^shiftDist)

(***************************************************************************)
(* Sum and difference of two magnitudes; the sign of the result is that of *)
(* uiA unless the difference turns it.  shortcut: F32 packs an exact sum   *)
(* of equal exponents at once, F64 always rounds.                          *)
(***************************************************************************)
addMags(F, rm, uiA, uiB, shortcut) ==
    LET expA == expUI(F, uiA)  sigA == fracUI(F, uiA)
        expB == expUI(F, uiB)  sigB == fracUI(F, uiB)
        sign == signUI(F, uiA)
        g1   == 2^(Guard(F) - 1)
        top  == Hidden(F) * g1
        \* the smaller operand, shifted under the larger
        Low(exp, sig, dist) ==
            shiftRightJam(sig * g1 + (IF exp # 0 THEN top ELSE sig * g1), dist, F.w)
        Sum(exp, big, small) ==
            LET s == top + big * g1 + small
            IN IF s < 2 * top THEN roundPack(F, rm, sign, exp - 1, 2 * s)
               ELSE roundPack(F, rm, sign, exp, s)
        same == 2 * Hidden(F) + sigA + sigB
    IN CASE expA = expB /\ expA = 0 -> Exact(uiA + sigB)
         [] expA = expB /\ expA = ExpMax(F) ->
              IF sigA + sigB # 0 THEN propagateNaN(F, uiA, uiB) ELSE Exact(uiA)
         [] expA = expB /\ expA \in 1 .. ExpMax(F) - 1 ->
              IF shortcut /\ same % 2 = 0 /\ expA < ExpMax(F) - 1
              THEN Exact(packToUI(F, sign, expA, same \div 2))
              ELSE roundPack(F, rm, sign, expA, same * g1)
         [] expA < expB ->
              IF expB = ExpMax(F)
              THEN IF sigB # 0 THEN propagateNaN(F, uiA, uiB) ELSE Exact(Inf(F, sign))
              ELSE Sum(expB, sigB, Low(expA, sigA, expB - expA))
         [] expA > expB ->
              IF expA = ExpMax(F)
              THEN IF sigA # 0 THEN propagateNaN(F, uiA, uiB) ELSE Exact(uiA)
              ELSE Sum(expA, sigA, Low(expB, sigB, expA - expB))

\* the difference of equal exponents: exact, or a zero whose sign the mode gives
subSameExp(F, rm, uiA, uiB) ==
    LET expA == expUI(F, uiA)
        diff == fracUI(F, uiA) - fracUI(F, uiB)
        abs  == IF diff < 0 THEN -diff ELSE diff
        sign == IF diff < 0 THEN 1 - signUI(F, uiA) ELSE signUI(F, uiA)
        base == IF expA = 0 THEN 0 ELSE expA - 1
        dist == countLeadingZeros(F.w, abs) - (F.w - 1 - F.f)
    IN IF expA = ExpMax(F)
       THEN IF fracUI(F, uiA) + fracUI(F, uiB) # 0 THEN propagateNaN(F, uiA, uiB) ELSE Invalid(F)
       ELSE IF diff = 0 THEN Exact(Zero(F, IF rm = "min" THEN 1 ELSE 0))
       ELSE IF base < dist THEN Exact(packToUI(F, sign, 0, abs * 2^base))
       ELSE Exact(packToUI(F, sign, base - dist, abs * 2^dist))

subMags(F, rm, uiA, uiB) ==
    LET expA == expUI(F, uiA)  sigA == fracUI(F, uiA)
        expB == expUI(F, uiB)  sigB == fracUI(F, uiB)
        sign == signUI(F, uiA)
        g    == 2^Guard(F)
        top  == Hidden(F) * g
        Low(exp, sig) == sig * g + (IF exp # 0 THEN top ELSE sig * g)
        Diff(s, exp, big, small, dist) ==
            normRoundPack(F, rm, s, exp - 1, top + big * g - shiftRightJam(small, dist, F.w))
    IN CASE expA = expB -> subSameExp(F, rm, uiA, uiB)
         [] expA < expB ->
              IF expB = ExpMax(F)
              THEN IF sigB # 0 THEN propagateNaN(F, uiA, uiB) ELSE Exact(Inf(F, 1 - sign))
              ELSE Diff(1 - sign, expB, sigB, Low(expA, sigA), expB - expA)
         [] expA > expB ->
              IF expA = ExpMax(F)
              THEN IF sigA # 0 THEN propagateNaN(F, uiA, uiB) ELSE Exact(uiA)
              ELSE Diff(sign, expA, sigA, Low(expB, sigB), expA - expB)

(***************************************************************************)
(* F16 does both in a word of twice the width, and an operand too small to *)
(* reach the other's rounding bits only nudges it.                         *)
(***************************************************************************)
\* +-epsilon added to a number of larger magnitude u
addEpsilon(F, rm, u) ==
    LET z == IF rm = AwayMode(signUI(F, u)) THEN u + 1 ELSE u
    IN Raise(z, {"NX"} \cup If(z # u /\ z = Inf(F, signUI(F, u)), "OF"))
subEpsilon(F, rm, u) ==
    Raise(IF rm \in {"minMag", AwayMode(1 - signUI(F, u))} THEN u - 1 ELSE u, {"NX"})

\* the double-width sum or difference s, leading bit at 2 * Width - 2
PackWide(F, rm, sign, exp, s) ==
    LET w   == F.w
        sig == Jam(s \div 2^w, s % 2^w # 0)
    IN IF s % 2^w = 0 /\ sig % 2^Guard(F) = 0 /\ exp \in 0 .. ExpMax(F) - 2
       THEN Exact(packToUI(F, sign, exp, sig \div 2^Guard(F)))
       ELSE roundPack(F, rm, sign, exp, sig)

\* what an infinity or a NaN among operands of different exponents gives
MagsSpecial(F, uiA, uiB, signInf) ==
    IF isNaN(F, uiA) \/ isNaN(F, uiB) THEN propagateNaN(F, uiA, uiB)
    ELSE Exact(IF expUI(F, uiA) = ExpMax(F) THEN uiA ELSE Inf(F, signInf))

addMagsWide(F, rm, uiA, uiB) ==
    LET expA == expUI(F, uiA)  expB == expUI(F, uiB)
        sign == signUI(F, uiA)
        big  == IF expA > expB THEN uiA ELSE packToUI(F, sign, expB, fracUI(F, uiB))
        low  == IF expA > expB THEN uiB ELSE uiA
        dist == expUI(F, big) - expUI(F, low)
        sigY == fracUI(F, low) + (IF expUI(F, low) # 0 THEN Hidden(F) ELSE fracUI(F, low))
        unit == F.w + Guard(F) - 1
        s    == (Hidden(F) + fracUI(F, big)) * 2^unit + sigY * 2^(unit - dist)
    IN CASE expA = expB -> addMags(F, rm, uiA, uiB, TRUE)
         [] expA # expB /\ expUI(F, big) = ExpMax(F) -> MagsSpecial(F, uiA, uiB, sign)
         [] expA # expB /\ expUI(F, big) # ExpMax(F) /\ dist >= F.f + 3 ->
              IF isZero(F, low) THEN Exact(big) ELSE addEpsilon(F, rm, big)
         [] expA # expB /\ expUI(F, big) # ExpMax(F) /\ dist < F.f + 3 ->
              IF s < 2^(2 * F.w - 2) THEN PackWide(F, rm, sign, expUI(F, big) - 1, 2 * s)
              ELSE PackWide(F, rm, sign, expUI(F, big), s)

subMagsWide(F, rm, uiA, uiB) ==
    LET expA == expUI(F, uiA)  expB == expUI(F, uiB)
        sign == IF expA > expB THEN signUI(F, uiA) ELSE 1 - signUI(F, uiA)
        big  == IF expA > expB THEN uiA ELSE packToUI(F, sign, expB, fracUI(F, uiB))
        low  == IF expA > expB THEN uiB ELSE uiA
        dist == expUI(F, big) - expUI(F, low)
        sigY == fracUI(F, low) + (IF expUI(F, low) # 0 THEN Hidden(F) ELSE fracUI(F, low))
        s    == (Hidden(F) + fracUI(F, big)) * 2^dist - sigY
        shiftDist == countLeadingZeros(2 * F.w, s) - 1
    IN CASE expA = expB -> subSameExp(F, rm, uiA, uiB)
         [] expA # expB /\ expUI(F, big) = ExpMax(F) -> MagsSpecial(F, uiA, uiB, sign)
         [] expA # expB /\ expUI(F, big) # ExpMax(F) /\ dist >= F.f + 3 ->
              IF isZero(F, low) THEN Exact(big) ELSE subEpsilon(F, rm, big)
         [] expA # expB /\ expUI(F, big) # ExpMax(F) /\ dist < F.f + 3 ->
              PackWide(F, rm, sign, expUI(F, low) + F.w + Guard(F) - 1 - shiftDist,
                       s * 2^shiftDist)

(***************************************************************************)
(* Product, quotient, root, remainder.                                     *)
(***************************************************************************)
Mul(F, rm, uiA, uiB) ==
    LET sign == (signUI(F, uiA) + signUI(F, uiB)) % 2
        A    == Norm(F, uiA)  B == Norm(F, uiB)
        exp  == A.exp + B.exp - Bias(F)
        sig  == shiftRightJam(A.sig * 2^Guard(F) * B.sig * 2^(Guard(F) + 1), F.w, 2 * F.w)
    IN CASE isNaN(F, uiA) \/ isNaN(F, uiB) -> propagateNaN(F, uiA, uiB)
         [] Inf(F, 0) \in {uiA % 2^(F.e + F.f), uiB % 2^(F.e + F.f)} ->
              IF isZero(F, uiA) \/ isZero(F, uiB) THEN Invalid(F) ELSE Exact(Inf(F, sign))
         [] OTHER ->
              IF isZero(F, uiA) \/ isZero(F, uiB) THEN Exact(Zero(F, sign))
              ELSE IF sig < 2^(F.f + Guard(F)) THEN roundPack(F, rm, sign, exp - 1, 2 * sig)
              ELSE roundPack(F, rm, sign, exp, sig)

\* the cases of a division that no quotient decides
DivSpecial(F, uiA, uiB) ==
    isNaN(F, uiA) \/ isNaN(F, uiB) \/ isZero(F, uiA) \/ isZero(F, uiB)
      \/ expUI(F, uiA) = ExpMax(F) \/ expUI(F, uiB) = ExpMax(F)
DivResult(F, uiA, uiB) ==
    LET sign == (signUI(F, uiA) + signUI(F, uiB)) % 2
        infA == expUI(F, uiA) = ExpMax(F)  infB == expUI(F, uiB) = ExpMax(F)
    IN CASE isNaN(F, uiA) \/ isNaN(F, uiB) -> propagateNaN(F, uiA, uiB)
         [] OTHER -> IF infA THEN (IF infB THEN Invalid(F) ELSE Exact(Inf(F, sign)))
                     ELSE IF infB THEN Exact(Zero(F, sign))
                     ELSE IF ~isZero(F, uiB) THEN Exact(Zero(F, sign))
                     ELSE IF isZero(F, uiA) THEN Invalid(F)
                     ELSE Raise(Inf(F, sign), {"DZ"})

Div(F, rm, uiA, uiB) ==
    LET A    == Norm(F, uiA)  B == Norm(F, uiB)
        less == A.sig < B.sig
        num  == A.sig * 2^(F.w - (IF less THEN 1 ELSE 2))
    IN IF DivSpecial(F, uiA, uiB) THEN DivResult(F, uiA, uiB)
       ELSE roundPack(F, rm, (signUI(F, uiA) + signUI(F, uiB)) % 2,
                      A.exp - B.exp + Bias(F) - (IF less THEN 2 ELSE 1),
                      Jam(num \div B.sig, num % B.sig # 0))

SqrtSpecial(F, u) == isNaN(F, u) \/ isZero(F, u) \/ signUI(F, u) = 1 \/ expUI(F, u) = ExpMax(F)
SqrtResult(F, u) == CASE isNaN(F, u) -> propagateNaN(F, u, 0)
                      [] OTHER -> IF isZero(F, u) \/ signUI(F, u) = 0 THEN Exact(u) ELSE Invalid(F)
Root(n, p) == CHOOSE r \in 2^p .. 2^(p + 1) - 1 : r * r =< n /\ n < (r + 1) * (r + 1)

Sqrt(F, rm, u) ==
    LET A == Norm(F, u)
        p == F.f + Guard(F)                     \* leading bit of the root
        n == A.sig * 2^(2 * p - F.f + (IF A.exp % 2 = 1 THEN 0 ELSE 1))
        r == Root(n, p)
    IN IF SqrtSpecial(F, u) THEN SqrtResult(F, u)
       ELSE roundPack(F, rm, 0, ((A.exp - Bias(F)) \div 2) + Bias(F) - 1, Jam(r, r * r # n))

\* a - n * b for the integer n nearest a / b: [sign, sig, unit of b's significand or its half]
RemSpecial(F, uiA, uiB) ==
    isNaN(F, uiA) \/ isNaN(F, uiB) \/ expUI(F, uiA) = ExpMax(F) \/ isZero(F, uiB)
      \/ expUI(F, uiB) = ExpMax(F) \/ isZero(F, uiA)
RemResult(F, uiA, uiB) ==
    CASE isNaN(F, uiA) \/ isNaN(F, uiB) -> propagateNaN(F, uiA, uiB)
      [] OTHER -> IF expUI(F, uiA) = ExpMax(F) \/ isZero(F, uiB) THEN Invalid(F) ELSE Exact(uiA)
Nearest(A, B) ==
    LET den  == 2 * B.sig
        \* the partial remainder after n bits of the quotient, modulo 2 * den for q's last bit
        part[n \in Nat] == IF n = 0 THEN A.sig % (2 * den) ELSE (2 * part[n - 1]) % (2 * den)
        num  == part[IF A.exp < B.exp THEN 0 ELSE A.exp - B.exp + 1]
        alt  == num % den
        keep == 2 * alt < den \/ (2 * alt = den /\ num < den)
    IN [rem |-> IF keep THEN alt ELSE den - alt, turned |-> ~keep, exp |-> B.exp]

Rem(F, rm, uiA, uiB) ==
    LET N == Nearest(Norm(F, uiA), Norm(F, uiB))
    IN IF RemSpecial(F, uiA, uiB) THEN RemResult(F, uiA, uiB)
       ELSE IF Norm(F, uiA).exp - Norm(F, uiB).exp < -1 THEN Exact(uiA)
       ELSE normRoundPack(F, rm, (signUI(F, uiA) + (IF N.turned THEN 1 ELSE 0)) % 2, N.exp,
                          N.rem * 2^(Guard(F) - 2))
=============================================================================
