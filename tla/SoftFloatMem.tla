---------------------------- MODULE SoftFloatMem ----------------------------
(***************************************************************************)
(* The functions that take operands of 80 and 128 bits in memory and store *)
(* such a result there, as built with SOFTFLOAT_FAST_INT64.  A memory m    *)
(* holds a number in each place; the place z of the result may be that of  *)
(* an operand.  Functions with a result in memory give the new memory.     *)
(***************************************************************************)
EXTENDS SoftFloatOps, SoftFloatExt

Stored(m, z, r) == [r EXCEPT !.v = [m EXCEPT ![z] = r.v]]

\* The operands are read, then the result is stored: the code repeats that of
\* the function on values, or calls what it calls.
f128M_add(rm, m, a, b, z) == Stored(m, z, f128_add(rm, m[a], m[b]))
f128M_sub(rm, m, a, b, z) == Stored(m, z, f128_sub(rm, m[a], m[b]))
extF80M_add(prec, rm, m, a, b, z) == Stored(m, z, extF80_add(prec, rm, m[a], m[b]))
extF80M_sub(prec, rm, m, a, b, z) == Stored(m, z, extF80_sub(prec, rm, m[a], m[b]))
f128M_mulAdd(rm, m, a, b, c, z) == Stored(m, z, f128_mulAdd(rm, m[a], m[b], m[c]))
f128M_mul(rm, m, a, b, z) == Stored(m, z, f128_mul(rm, m[a], m[b]))
extF80M_mul(prec, rm, m, a, b, z) == Stored(m, z, extF80_mul(prec, rm, m[a], m[b]))
f128M_div(rm, m, a, b, z) == Stored(m, z, f128_div(rm, m[a], m[b]))
extF80M_div(prec, rm, m, a, b, z) == Stored(m, z, extF80_div(prec, rm, m[a], m[b]))
f128M_rem(rm, m, a, b, z) == Stored(m, z, f128_rem(rm, m[a], m[b]))
extF80M_rem(rm, m, a, b, z) == Stored(m, z, extF80_rem(rm, m[a], m[b]))
f128M_sqrt(rm, m, a, z) == Stored(m, z, f128_sqrt(rm, m[a]))
extF80M_sqrt(prec, rm, m, a, z) == Stored(m, z, extF80_sqrt(prec, rm, m[a]))
f128M_roundToInt(rm, m, a, exact, z) == Stored(m, z, f128_roundToInt(rm, m[a], exact))
extF80M_roundToInt(rm, m, a, exact, z) == Stored(m, z, extF80_roundToInt(rm, m[a], exact))

\* comparisons
f128M_eq(m, a, b) == f128_eq(m[a], m[b])
f128M_eq_signaling(m, a, b) == f128_eq_signaling(m[a], m[b])
f128M_le(m, a, b) == f128_le(m[a], m[b])
f128M_le_quiet(m, a, b) == f128_le_quiet(m[a], m[b])
f128M_lt(m, a, b) == f128_lt(m[a], m[b])
f128M_lt_quiet(m, a, b) == f128_lt_quiet(m[a], m[b])
extF80M_eq(m, a, b) == extF80_eq(m[a], m[b])
extF80M_eq_signaling(m, a, b) == extF80_eq_signaling(m[a], m[b])
extF80M_le(m, a, b) == extF80_le(m[a], m[b])
extF80M_le_quiet(m, a, b) == extF80_le_quiet(m[a], m[b])
extF80M_lt(m, a, b) == extF80_lt(m[a], m[b])
extF80M_lt_quiet(m, a, b) == extF80_lt_quiet(m[a], m[b])

\* between formats
f128M_to_f16(rm, m, a) == f128_to_f16(rm, m[a])
extF80M_to_f16(rm, m, a) == extF80_to_f16(rm, m[a])
f16_to_f128M(rm, m, a, z) == Stored(m, z, f16_to_f128(rm, a))
f16_to_extF80M(m, a, z) == Stored(m, z, f16_to_extF80(a))
f128M_to_f32(rm, m, a) == f128_to_f32(rm, m[a])
extF80M_to_f32(rm, m, a) == extF80_to_f32(rm, m[a])
f32_to_f128M(rm, m, a, z) == Stored(m, z, f32_to_f128(rm, a))
f32_to_extF80M(m, a, z) == Stored(m, z, f32_to_extF80(a))
f128M_to_f64(rm, m, a) == f128_to_f64(rm, m[a])
extF80M_to_f64(rm, m, a) == extF80_to_f64(rm, m[a])
f64_to_f128M(rm, m, a, z) == Stored(m, z, f64_to_f128(rm, a))
f64_to_extF80M(m, a, z) == Stored(m, z, f64_to_extF80(a))
f128M_to_extF80M(rm, m, a, z) == Stored(m, z, f128_to_extF80(rm, m[a]))
extF80M_to_f128M(m, a, z) == Stored(m, z, extF80_to_f128(m[a]))

\* to and from integers
f128M_to_i32(rm, m, a, exact) == f128_to_i32(rm, m[a], exact)
f128M_to_i32_r_minMag(m, a, exact) == f128_to_i32_r_minMag(m[a], exact)
f128M_to_ui32(rm, m, a, exact) == f128_to_ui32(rm, m[a], exact)
f128M_to_ui32_r_minMag(m, a, exact) == f128_to_ui32_r_minMag(m[a], exact)
f128M_to_i64(rm, m, a, exact) == f128_to_i64(rm, m[a], exact)
f128M_to_i64_r_minMag(m, a, exact) == f128_to_i64_r_minMag(m[a], exact)
f128M_to_ui64(rm, m, a, exact) == f128_to_ui64(rm, m[a], exact)
f128M_to_ui64_r_minMag(m, a, exact) == f128_to_ui64_r_minMag(m[a], exact)
extF80M_to_i32(rm, m, a, exact) == extF80_to_i32(rm, m[a], exact)
extF80M_to_i32_r_minMag(m, a, exact) == extF80_to_i32_r_minMag(m[a], exact)
extF80M_to_ui32(rm, m, a, exact) == extF80_to_ui32(rm, m[a], exact)
extF80M_to_ui32_r_minMag(m, a, exact) == extF80_to_ui32_r_minMag(m[a], exact)
extF80M_to_i64(rm, m, a, exact) == extF80_to_i64(rm, m[a], exact)
extF80M_to_i64_r_minMag(m, a, exact) == extF80_to_i64_r_minMag(m[a], exact)
extF80M_to_ui64(rm, m, a, exact) == extF80_to_ui64(rm, m[a], exact)
extF80M_to_ui64_r_minMag(m, a, exact) == extF80_to_ui64_r_minMag(m[a], exact)
i32_to_f128M(rm, m, a, z) == Stored(m, z, i32_to_f128(rm, a))
i32_to_extF80M(m, a, z) == Stored(m, z, i32_to_extF80(a))
ui32_to_f128M(rm, m, a, z) == Stored(m, z, ui32_to_f128(rm, a))
ui32_to_extF80M(m, a, z) == Stored(m, z, ui32_to_extF80(a))
i64_to_f128M(rm, m, a, z) == Stored(m, z, i64_to_f128(rm, a))
i64_to_extF80M(m, a, z) == Stored(m, z, i64_to_extF80(a))
ui64_to_f128M(rm, m, a, z) == Stored(m, z, ui64_to_f128(rm, a))
ui64_to_extF80M(m, a, z) == Stored(m, z, ui64_to_extF80(a))
=============================================================================
