---------------------------- MODULE SoftFloatOps ----------------------------
(***************************************************************************)
(* The library's functions by name, each the algorithm of its file on its  *)
(* format.  rm is softfloat_roundingMode where the C function reads the    *)
(* global, and the argument roundingMode where it takes one.               *)
(***************************************************************************)
EXTENDS SoftFloatWide

\* rounding and packing
softfloat_roundPackToF16(rm, sign, exp, sig) == roundPack(F16, rm, sign, exp, sig)
softfloat_normRoundPackToF16(rm, sign, exp, sig) == normRoundPack(F16, rm, sign, exp, sig)
softfloat_roundPackToF32(rm, sign, exp, sig) == roundPack(F32, rm, sign, exp, sig)
softfloat_normRoundPackToF32(rm, sign, exp, sig) == normRoundPack(F32, rm, sign, exp, sig)
softfloat_roundPackToF64(rm, sign, exp, sig) == roundPack(F64, rm, sign, exp, sig)
softfloat_normRoundPackToF64(rm, sign, exp, sig) == normRoundPack(F64, rm, sign, exp, sig)
softfloat_roundPackToF128(rm, sign, exp, sig) == roundPack128(F128, rm, sign, exp, sig)
softfloat_normRoundPackToF128(rm, sign, exp, sig) == normRoundPack128(F128, rm, sign, exp, sig)
softfloat_normSubnormalF16Sig(sig) == normSubnormalSig(F16, sig)
softfloat_normSubnormalF32Sig(sig) == normSubnormalSig(F32, sig)
softfloat_normSubnormalF64Sig(sig) == normSubnormalSig(F64, sig)
softfloat_normSubnormalF128Sig(sig) == normSubnormalSig(F128, sig)

\* sums: equal signs add the magnitudes, different signs subtract them
softfloat_addMagsF16(rm, a, b) == addMagsWide(F16, rm, a, b)
softfloat_subMagsF16(rm, a, b) == subMagsWide(F16, rm, a, b)
f16_add(rm, a, b) == IF signUI(F16, a) = signUI(F16, b) THEN softfloat_addMagsF16(rm, a, b)
                    ELSE softfloat_subMagsF16(rm, a, b)
f16_sub(rm, a, b) == IF signUI(F16, a) = signUI(F16, b) THEN softfloat_subMagsF16(rm, a, b)
                    ELSE softfloat_addMagsF16(rm, a, b)
softfloat_addMagsF32(rm, a, b) == addMags(F32, rm, a, b, TRUE)
softfloat_subMagsF32(rm, a, b) == subMags(F32, rm, a, b)
f32_add(rm, a, b) == IF signUI(F32, a) = signUI(F32, b) THEN softfloat_addMagsF32(rm, a, b)
                    ELSE softfloat_subMagsF32(rm, a, b)
f32_sub(rm, a, b) == IF signUI(F32, a) = signUI(F32, b) THEN softfloat_subMagsF32(rm, a, b)
                    ELSE softfloat_addMagsF32(rm, a, b)
softfloat_addMagsF64(rm, a, b) == addMags(F64, rm, a, b, FALSE)
softfloat_subMagsF64(rm, a, b) == subMags(F64, rm, a, b)
f64_add(rm, a, b) == IF signUI(F64, a) = signUI(F64, b) THEN softfloat_addMagsF64(rm, a, b)
                    ELSE softfloat_subMagsF64(rm, a, b)
f64_sub(rm, a, b) == IF signUI(F64, a) = signUI(F64, b) THEN softfloat_subMagsF64(rm, a, b)
                    ELSE softfloat_addMagsF64(rm, a, b)
softfloat_addMagsF128(rm, a, b) == addMags128(F128, rm, a, b)
softfloat_subMagsF128(rm, a, b) == subMags128(F128, rm, a, b)
f128_add(rm, a, b) == IF signUI(F128, a) = signUI(F128, b) THEN softfloat_addMagsF128(rm, a, b)
                    ELSE softfloat_subMagsF128(rm, a, b)
f128_sub(rm, a, b) == IF signUI(F128, a) = signUI(F128, b) THEN softfloat_subMagsF128(rm, a, b)
                    ELSE softfloat_addMagsF128(rm, a, b)

\* the other arithmetic
f16_mul(rm, a, b) == Mul(F16, rm, a, b)
f16_div(rm, a, b) == Div(F16, rm, a, b)
f16_rem(rm, a, b) == Rem(F16, rm, a, b)
f16_sqrt(rm, a) == Sqrt(F16, rm, a)
softfloat_mulAddF16(rm, a, b, c) == MulAdd(F16, rm, a, b, c)
f16_mulAdd(rm, a, b, c) == softfloat_mulAddF16(rm, a, b, c)
f16_roundToInt(rm, a, exact) == RoundToInt(F16, rm, a, exact)
f32_mul(rm, a, b) == Mul(F32, rm, a, b)
f32_div(rm, a, b) == Div(F32, rm, a, b)
f32_rem(rm, a, b) == Rem(F32, rm, a, b)
f32_sqrt(rm, a) == Sqrt(F32, rm, a)
softfloat_mulAddF32(rm, a, b, c) == MulAdd(F32, rm, a, b, c)
f32_mulAdd(rm, a, b, c) == softfloat_mulAddF32(rm, a, b, c)
f32_roundToInt(rm, a, exact) == RoundToInt(F32, rm, a, exact)
f64_mul(rm, a, b) == Mul(F64, rm, a, b)
f64_div(rm, a, b) == Div(F64, rm, a, b)
f64_rem(rm, a, b) == Rem(F64, rm, a, b)
f64_sqrt(rm, a) == Sqrt(F64, rm, a)
softfloat_mulAddF64(rm, a, b, c) == MulAdd(F64, rm, a, b, c)
f64_mulAdd(rm, a, b, c) == softfloat_mulAddF64(rm, a, b, c)
f64_roundToInt(rm, a, exact) == RoundToInt(F64, rm, a, exact)
f128_mul(rm, a, b) == Mul128(F128, rm, a, b)
f128_div(rm, a, b) == Div128(F128, rm, a, b)
f128_rem(rm, a, b) == Rem128(F128, rm, a, b)
f128_sqrt(rm, a) == Sqrt128(F128, rm, a)
softfloat_mulAddF128(rm, a, b, c) == MulAdd128(F128, rm, a, b, c)
f128_mulAdd(rm, a, b, c) == softfloat_mulAddF128(rm, a, b, c)
f128_roundToInt(rm, a, exact) == RoundToInt(F128, rm, a, exact)

\* comparisons
f16_eq(a, b) == Compare(F16, a, b, TRUE, EqBits(F16, a, b))
f16_eq_signaling(a, b) == Compare(F16, a, b, FALSE, EqBits(F16, a, b))
f16_le(a, b) == Compare(F16, a, b, FALSE, LeBits(F16, a, b))
f16_le_quiet(a, b) == Compare(F16, a, b, TRUE, LeBits(F16, a, b))
f16_lt(a, b) == Compare(F16, a, b, FALSE, LtBits(F16, a, b))
f16_lt_quiet(a, b) == Compare(F16, a, b, TRUE, LtBits(F16, a, b))
f32_eq(a, b) == Compare(F32, a, b, TRUE, EqBits(F32, a, b))
f32_eq_signaling(a, b) == Compare(F32, a, b, FALSE, EqBits(F32, a, b))
f32_le(a, b) == Compare(F32, a, b, FALSE, LeBits(F32, a, b))
f32_le_quiet(a, b) == Compare(F32, a, b, TRUE, LeBits(F32, a, b))
f32_lt(a, b) == Compare(F32, a, b, FALSE, LtBits(F32, a, b))
f32_lt_quiet(a, b) == Compare(F32, a, b, TRUE, LtBits(F32, a, b))
f64_eq(a, b) == Compare(F64, a, b, TRUE, EqBits(F64, a, b))
f64_eq_signaling(a, b) == Compare(F64, a, b, FALSE, EqBits(F64, a, b))
f64_le(a, b) == Compare(F64, a, b, FALSE, LeBits(F64, a, b))
f64_le_quiet(a, b) == Compare(F64, a, b, TRUE, LeBits(F64, a, b))
f64_lt(a, b) == Compare(F64, a, b, FALSE, LtBits(F64, a, b))
f64_lt_quiet(a, b) == Compare(F64, a, b, TRUE, LtBits(F64, a, b))
f128_eq(a, b) == Compare(F128, a, b, TRUE, EqBits(F128, a, b))
f128_eq_signaling(a, b) == Compare(F128, a, b, FALSE, EqBits(F128, a, b))
f128_le(a, b) == Compare(F128, a, b, FALSE, LeBits(F128, a, b))
f128_le_quiet(a, b) == Compare(F128, a, b, TRUE, LeBits(F128, a, b))
f128_lt(a, b) == Compare(F128, a, b, FALSE, LtBits(F128, a, b))
f128_lt_quiet(a, b) == Compare(F128, a, b, TRUE, LtBits(F128, a, b))
f32_classify(a) == Classify(F32, a)
f64_classify(a) == Classify(F64, a)

\* between formats
f16_to_f32(rm, a) == Widen(F16, F32, a)
f16_to_f64(rm, a) == Widen(F16, F64, a)
f16_to_f128(rm, a) == Widen(F16, F128, a)
f32_to_f16(rm, a) == Narrow(F32, F16, rm, a)
f32_to_f64(rm, a) == Widen(F32, F64, a)
f32_to_f128(rm, a) == Widen(F32, F128, a)
f64_to_f16(rm, a) == Narrow(F64, F16, rm, a)
f64_to_f32(rm, a) == Narrow(F64, F32, rm, a)
f64_to_f128(rm, a) == Widen(F64, F128, a)
f128_to_f16(rm, a) == Narrow(F128, F16, rm, a)
f128_to_f32(rm, a) == Narrow(F128, F32, rm, a)
f128_to_f64(rm, a) == Narrow(F128, F64, rm, a)

\* to integers
softfloat_roundToI32(rm, sign, sig, exact) == RoundToType(I32, rm, sign, sig, exact)
softfloat_roundToUI32(rm, sign, sig, exact) == RoundToType(UI32, rm, sign, sig, exact)
softfloat_roundToI64(rm, sign, sig, exact) == RoundToType(I64, rm, sign, sig, exact)
softfloat_roundToUI64(rm, sign, sig, exact) == RoundToType(UI64, rm, sign, sig, exact)
f16_to_i32(rm, a, exact) == ToInt(F16, I32, rm, a, exact)
f16_to_ui32(rm, a, exact) == ToInt(F16, UI32, rm, a, exact)
f16_to_i64(rm, a, exact) == ToInt(F16, I64, rm, a, exact)
f16_to_ui64(rm, a, exact) == ToInt(F16, UI64, rm, a, exact)
f32_to_i32(rm, a, exact) == ToInt(F32, I32, rm, a, exact)
f32_to_ui32(rm, a, exact) == ToInt(F32, UI32, rm, a, exact)
f32_to_i64(rm, a, exact) == ToInt(F32, I64, rm, a, exact)
f32_to_ui64(rm, a, exact) == ToInt(F32, UI64, rm, a, exact)
f64_to_i32(rm, a, exact) == ToInt(F64, I32, rm, a, exact)
f64_to_ui32(rm, a, exact) == ToInt(F64, UI32, rm, a, exact)
f64_to_i64(rm, a, exact) == ToInt(F64, I64, rm, a, exact)
f64_to_ui64(rm, a, exact) == ToInt(F64, UI64, rm, a, exact)
f128_to_i32(rm, a, exact) == ToInt(F128, I32, rm, a, exact)
f128_to_ui32(rm, a, exact) == ToInt(F128, UI32, rm, a, exact)
f128_to_i64(rm, a, exact) == ToInt(F128, I64, rm, a, exact)
f128_to_ui64(rm, a, exact) == ToInt(F128, UI64, rm, a, exact)
f16_to_i32_r_minMag(a, exact) == ToInt_r_minMag(F16, I32, a, exact)
f16_to_ui32_r_minMag(a, exact) == ToInt_r_minMag(F16, UI32, a, exact)
f16_to_i64_r_minMag(a, exact) == ToInt_r_minMag(F16, I64, a, exact)
f16_to_ui64_r_minMag(a, exact) == ToInt_r_minMag(F16, UI64, a, exact)
f32_to_i32_r_minMag(a, exact) == ToInt_r_minMag(F32, I32, a, exact)
f32_to_ui32_r_minMag(a, exact) == ToInt_r_minMag(F32, UI32, a, exact)
f32_to_i64_r_minMag(a, exact) == ToInt_r_minMag(F32, I64, a, exact)
f32_to_ui64_r_minMag(a, exact) == ToInt_r_minMag(F32, UI64, a, exact)
f64_to_i32_r_minMag(a, exact) == ToInt_r_minMag(F64, I32, a, exact)
f64_to_ui32_r_minMag(a, exact) == ToInt_r_minMag(F64, UI32, a, exact)
f64_to_i64_r_minMag(a, exact) == ToInt_r_minMag(F64, I64, a, exact)
f64_to_ui64_r_minMag(a, exact) == ToInt_r_minMag(F64, UI64, a, exact)
f128_to_i32_r_minMag(a, exact) == ToInt_r_minMag(F128, I32, a, exact)
f128_to_ui32_r_minMag(a, exact) == ToInt_r_minMag(F128, UI32, a, exact)
f128_to_i64_r_minMag(a, exact) == ToInt_r_minMag(F128, I64, a, exact)
f128_to_ui64_r_minMag(a, exact) == ToInt_r_minMag(F128, UI64, a, exact)

\* from integers
i32_to_f16(rm, a) == FromInt(F16, rm, a)
i32_to_f32(rm, a) == FromInt(F32, rm, a)
i32_to_f64(rm, a) == FromInt(F64, rm, a)
i32_to_f128(rm, a) == FromInt(F128, rm, a)
ui32_to_f16(rm, a) == FromInt(F16, rm, a)
ui32_to_f32(rm, a) == FromInt(F32, rm, a)
ui32_to_f64(rm, a) == FromInt(F64, rm, a)
ui32_to_f128(rm, a) == FromInt(F128, rm, a)
i64_to_f16(rm, a) == FromInt(F16, rm, a)
i64_to_f32(rm, a) == FromInt(F32, rm, a)
i64_to_f64(rm, a) == FromInt(F64, rm, a)
i64_to_f128(rm, a) == FromInt(F128, rm, a)
ui64_to_f16(rm, a) == FromInt(F16, rm, a)
ui64_to_f32(rm, a) == FromInt(F32, rm, a)
ui64_to_f64(rm, a) == FromInt(F64, rm, a)
ui64_to_f128(rm, a) == FromInt(F128, rm, a)
=============================================================================
