---------------------------- MODULE FpLibrary ----------------------------
(***************************************************************************)
(* A program that links riscv-pk/softfloat: every function of the library  *)
(* is a call it may make, in the rounding mode it has set, and the flags   *)
(* the call raises accrue in the library's flag word.  Module SoftFloatRef *)
(* says what each call must give.                                          *)
(***************************************************************************)
EXTENDS SoftFloatMem, SoftFloatRef

CONSTANTS Pairs,      \* format name -> operand pairs
          Triples,    \* format name -> operands of a fused multiply-add
          Singles,    \* format name -> operands of the functions of one
          Ints,       \* type name -> integers converted to floats
          Sigs,       \* format name -> <<exp, sig>> given to the rounding functions
          Fixeds,     \* magnitudes with fraction bits given to the roundTo functions
          Aliased     \* format name -> operands a result in memory may overwrite

VARIABLES roundingMode,     \* softfloat_roundingMode
          exceptionFlags,   \* softfloat_exceptionFlags
          last              \* the call carried out last with its result, or None

libVars == <<roundingMode, exceptionFlags, last>>

None == [kind |-> "none"]
FormatNames == {"f16", "f32", "f64", "f128", "extF80"}
\* a program that sets extF80_roundingPrecision computes as if in another format
ArithNames == FormatNames \cup {"extF80_64", "extF80_32"}
ExtNames == {"extF80", "extF80_64", "extF80_32"}
\* the formats whose operands and results are kept in memory
MemNames == {"f128"} \cup ExtNames
Prec(n) == CASE n = "extF80_64" -> 64 [] n = "extF80_32" -> 32 [] OTHER -> 80
TypeNames == {"i32", "ui32", "i64", "ui64"}
Fmt(n) == CASE n = "f16" -> F16 [] n = "f32" -> F32 [] n = "f64" -> F64 [] n = "f128" -> F128
            [] n \in ExtNames -> F80
Type(t) == CASE t = "i32" -> I32 [] t = "ui32" -> UI32 [] t = "i64" -> I64 [] t = "ui64" -> UI64

(***************************************************************************)
(* The function an operation and a format name.                            *)
(***************************************************************************)
Arith(n, op, rm, a, b) ==
    CASE n = "f16" ->  (CASE op = "add" -> f16_add(rm, a, b) [] op = "sub" -> f16_sub(rm, a, b)
                       [] op = "mul" -> f16_mul(rm, a, b) [] op = "div" -> f16_div(rm, a, b)
                       [] op = "rem" -> f16_rem(rm, a, b))
      [] n = "f32" ->  (CASE op = "add" -> f32_add(rm, a, b) [] op = "sub" -> f32_sub(rm, a, b)
                       [] op = "mul" -> f32_mul(rm, a, b) [] op = "div" -> f32_div(rm, a, b)
                       [] op = "rem" -> f32_rem(rm, a, b))
      [] n = "f64" ->  (CASE op = "add" -> f64_add(rm, a, b) [] op = "sub" -> f64_sub(rm, a, b)
                       [] op = "mul" -> f64_mul(rm, a, b) [] op = "div" -> f64_div(rm, a, b)
                       [] op = "rem" -> f64_rem(rm, a, b))

Order(n, op, a, b) ==
    CASE n = "f16" ->  (CASE op = "eq" -> f16_eq(a, b)
                       [] op = "eq_signaling" -> f16_eq_signaling(a, b)
                       [] op = "le" -> f16_le(a, b) [] op = "le_quiet" -> f16_le_quiet(a, b)
                       [] op = "lt" -> f16_lt(a, b) [] op = "lt_quiet" -> f16_lt_quiet(a, b))
      [] n = "f32" ->  (CASE op = "eq" -> f32_eq(a, b)
                       [] op = "eq_signaling" -> f32_eq_signaling(a, b)
                       [] op = "le" -> f32_le(a, b) [] op = "le_quiet" -> f32_le_quiet(a, b)
                       [] op = "lt" -> f32_lt(a, b) [] op = "lt_quiet" -> f32_lt_quiet(a, b))
      [] n = "f64" ->  (CASE op = "eq" -> f64_eq(a, b)
                       [] op = "eq_signaling" -> f64_eq_signaling(a, b)
                       [] op = "le" -> f64_le(a, b) [] op = "le_quiet" -> f64_le_quiet(a, b)
                       [] op = "lt" -> f64_lt(a, b) [] op = "lt_quiet" -> f64_lt_quiet(a, b))

Unary(n, op, rm, a) ==
    CASE n = "f16" ->  (CASE op = "sqrt" -> f16_sqrt(rm, a)
                       [] op = "roundToInt" -> f16_roundToInt(rm, a, TRUE)
                       [] op = "roundToInt_inexact" -> f16_roundToInt(rm, a, FALSE))
      [] n = "f32" ->  (CASE op = "sqrt" -> f32_sqrt(rm, a)
                       [] op = "roundToInt" -> f32_roundToInt(rm, a, TRUE)
                       [] op = "roundToInt_inexact" -> f32_roundToInt(rm, a, FALSE))
      [] n = "f64" ->  (CASE op = "sqrt" -> f64_sqrt(rm, a)
                       [] op = "roundToInt" -> f64_roundToInt(rm, a, TRUE)
                       [] op = "roundToInt_inexact" -> f64_roundToInt(rm, a, FALSE))

Convert(n, op, rm, a) ==
    CASE n = "f16" ->  (CASE op = "f32" -> f16_to_f32(rm, a) [] op = "f64" -> f16_to_f64(rm, a))
      [] n = "f32" ->  (CASE op = "f16" -> f32_to_f16(rm, a) [] op = "f64" -> f32_to_f64(rm, a))
      [] n = "f64" ->  (CASE op = "f16" -> f64_to_f16(rm, a) [] op = "f32" -> f64_to_f32(rm, a))

ToInteger(n, op, rm, a, exact) ==
    CASE n = "f16" ->  (CASE op = "i32" -> f16_to_i32(rm, a, exact)
                       [] op = "ui32" -> f16_to_ui32(rm, a, exact)
                       [] op = "i64" -> f16_to_i64(rm, a, exact)
                       [] op = "ui64" -> f16_to_ui64(rm, a, exact))
      [] n = "f32" ->  (CASE op = "i32" -> f32_to_i32(rm, a, exact)
                       [] op = "ui32" -> f32_to_ui32(rm, a, exact)
                       [] op = "i64" -> f32_to_i64(rm, a, exact)
                       [] op = "ui64" -> f32_to_ui64(rm, a, exact))
      [] n = "f64" ->  (CASE op = "i32" -> f64_to_i32(rm, a, exact)
                       [] op = "ui32" -> f64_to_ui32(rm, a, exact)
                       [] op = "i64" -> f64_to_i64(rm, a, exact)
                       [] op = "ui64" -> f64_to_ui64(rm, a, exact))

Truncate(n, op, a, exact) ==
    CASE n = "f16" ->  (CASE op = "i32" -> f16_to_i32_r_minMag(a, exact)
                       [] op = "ui32" -> f16_to_ui32_r_minMag(a, exact)
                       [] op = "i64" -> f16_to_i64_r_minMag(a, exact)
                       [] op = "ui64" -> f16_to_ui64_r_minMag(a, exact))
      [] n = "f32" ->  (CASE op = "i32" -> f32_to_i32_r_minMag(a, exact)
                       [] op = "ui32" -> f32_to_ui32_r_minMag(a, exact)
                       [] op = "i64" -> f32_to_i64_r_minMag(a, exact)
                       [] op = "ui64" -> f32_to_ui64_r_minMag(a, exact))
      [] n = "f64" ->  (CASE op = "i32" -> f64_to_i32_r_minMag(a, exact)
                       [] op = "ui32" -> f64_to_ui32_r_minMag(a, exact)
                       [] op = "i64" -> f64_to_i64_r_minMag(a, exact)
                       [] op = "ui64" -> f64_to_ui64_r_minMag(a, exact))

FromInteger(n, op, rm, a) ==
    CASE n = "f16" ->  (CASE op = "i32" -> i32_to_f16(rm, a) [] op = "ui32" -> ui32_to_f16(rm, a)
                       [] op = "i64" -> i64_to_f16(rm, a) [] op = "ui64" -> ui64_to_f16(rm, a))
      [] n = "f32" ->  (CASE op = "i32" -> i32_to_f32(rm, a) [] op = "ui32" -> ui32_to_f32(rm, a)
                       [] op = "i64" -> i64_to_f32(rm, a) [] op = "ui64" -> ui64_to_f32(rm, a))
      [] n = "f64" ->  (CASE op = "i32" -> i32_to_f64(rm, a) [] op = "ui32" -> ui32_to_f64(rm, a)
                       [] op = "i64" -> i64_to_f64(rm, a) [] op = "ui64" -> ui64_to_f64(rm, a))

Rounding(n, op, rm, sign, exp, sig) ==
    CASE n = "f16" ->  (CASE op = "roundPack" -> softfloat_roundPackToF16(rm, sign, exp, sig)
                       [] op = "normRoundPack" -> softfloat_normRoundPackToF16(rm, sign, exp, sig))
      [] n = "f32" ->  (CASE op = "roundPack" -> softfloat_roundPackToF32(rm, sign, exp, sig)
                       [] op = "normRoundPack" -> softfloat_normRoundPackToF32(rm, sign, exp, sig))
      [] n = "f64" ->  (CASE op = "roundPack" -> softfloat_roundPackToF64(rm, sign, exp, sig)
                       [] op = "normRoundPack" -> softfloat_normRoundPackToF64(rm, sign, exp, sig))
      [] n = "f128" -> (CASE op = "roundPack" -> softfloat_roundPackToF128(rm, sign, exp, sig)
                       [] op = "normRoundPack" -> softfloat_normRoundPackToF128(rm, sign, exp, sig))
      [] n \in ExtNames -> (CASE op = "roundPack" -> roundPackExt(Prec(n), rm, sign, exp, sig)
                       [] op = "normRoundPack" -> normRoundPackExt(Prec(n), rm, sign, exp, sig, ExtraBits))

FusedMulAdd(n, rm, a, b, c) ==
    CASE n = "f16" -> f16_mulAdd(rm, a, b, c) [] n = "f32"  -> f32_mulAdd(rm, a, b, c)
      [] n = "f64" -> f64_mulAdd(rm, a, b, c)

RoundToInteger(t, rm, sign, sig) ==
    CASE t = "i32" -> softfloat_roundToI32(rm, sign, sig, TRUE)
      [] t = "ui32" -> softfloat_roundToUI32(rm, sign, sig, TRUE)
      [] t = "i64" -> softfloat_roundToI64(rm, sign, sig, TRUE)
      [] t = "ui64" -> softfloat_roundToUI64(rm, sign, sig, TRUE)

NormSubnormal(n, sig) ==
    CASE n = "f16" -> softfloat_normSubnormalF16Sig(sig) [] n = "f32" -> softfloat_normSubnormalF32Sig(sig)
      [] n = "f64" -> softfloat_normSubnormalF64Sig(sig) [] n = "f128" -> softfloat_normSubnormalF128Sig(sig)

(***************************************************************************)
(* The functions on numbers kept in memory.  The operands are in places a, *)
(* b and c; place z is free, and the result may also go to the place of an *)
(* operand.                                                                *)
(***************************************************************************)
Memory(x, y, w) == [a |-> x, b |-> y, c |-> w, z |-> 0]
Loaded(z, r) == [r EXCEPT !.v = r.v[z]]

MemArith(n, op, rm, m, z) ==
    CASE n = "f128" -> (CASE op = "add" -> f128M_add(rm, m, "a", "b", z) [] op = "sub" -> f128M_sub(rm, m, "a", "b", z)
                       [] op = "mul" -> f128M_mul(rm, m, "a", "b", z) [] op = "div" -> f128M_div(rm, m, "a", "b", z)
                       [] op = "rem" -> f128M_rem(rm, m, "a", "b", z))
      [] n \in ExtNames -> (CASE op = "add" -> extF80M_add(Prec(n), rm, m, "a", "b", z)
                       [] op = "sub" -> extF80M_sub(Prec(n), rm, m, "a", "b", z)
                       [] op = "mul" -> extF80M_mul(Prec(n), rm, m, "a", "b", z)
                       [] op = "div" -> extF80M_div(Prec(n), rm, m, "a", "b", z)
                       [] op = "rem" -> extF80M_rem(rm, m, "a", "b", z))

MemUnary(n, op, rm, m, z) ==
    CASE n = "f128" -> (CASE op = "sqrt" -> f128M_sqrt(rm, m, "a", z)
                       [] op = "roundToInt" -> f128M_roundToInt(rm, m, "a", TRUE, z)
                       [] op = "roundToInt_inexact" -> f128M_roundToInt(rm, m, "a", FALSE, z))
      [] n \in ExtNames -> (CASE op = "sqrt" -> extF80M_sqrt(Prec(n), rm, m, "a", z)
                       [] op = "roundToInt" -> extF80M_roundToInt(rm, m, "a", TRUE, z)
                       [] op = "roundToInt_inexact" -> extF80M_roundToInt(rm, m, "a", FALSE, z))

MemOrder(n, op, m) ==
    CASE n = "f128" -> (CASE op = "eq" -> f128M_eq(m, "a", "b")
                       [] op = "eq_signaling" -> f128M_eq_signaling(m, "a", "b")
                       [] op = "le" -> f128M_le(m, "a", "b") [] op = "le_quiet" -> f128M_le_quiet(m, "a", "b")
                       [] op = "lt" -> f128M_lt(m, "a", "b") [] op = "lt_quiet" -> f128M_lt_quiet(m, "a", "b"))
      [] n = "extF80" -> (CASE op = "eq" -> extF80M_eq(m, "a", "b")
                       [] op = "eq_signaling" -> extF80M_eq_signaling(m, "a", "b")
                       [] op = "le" -> extF80M_le(m, "a", "b") [] op = "le_quiet" -> extF80M_le_quiet(m, "a", "b")
                       [] op = "lt" -> extF80M_lt(m, "a", "b") [] op = "lt_quiet" -> extF80M_lt_quiet(m, "a", "b"))

MemConvert(n, op, rm, m, z) ==
    CASE n = "f128" -> (CASE op = "f16" -> f128M_to_f16(rm, m, "a") [] op = "f32" -> f128M_to_f32(rm, m, "a")
                       [] op = "f64" -> f128M_to_f64(rm, m, "a")
                       [] op = "extF80" -> Loaded(z, f128M_to_extF80M(rm, m, "a", z)))
      [] n = "extF80" -> (CASE op = "f16" -> extF80M_to_f16(rm, m, "a") [] op = "f32" -> extF80M_to_f32(rm, m, "a")
                       [] op = "f64" -> extF80M_to_f64(rm, m, "a")
                       [] op = "f128" -> Loaded(z, extF80M_to_f128M(m, "a", z)))
      [] op = "f128" -> Loaded(z, CASE n = "f16" -> f16_to_f128M(rm, m, m.a, z)
                                    [] n = "f32" -> f32_to_f128M(rm, m, m.a, z)
                                    [] n = "f64" -> f64_to_f128M(rm, m, m.a, z))
      [] op = "extF80" -> Loaded(z, CASE n = "f16" -> f16_to_extF80M(m, m.a, z)
                                      [] n = "f32" -> f32_to_extF80M(m, m.a, z)
                                      [] n = "f64" -> f64_to_extF80M(m, m.a, z))

MemToInteger(n, op, rm, m, exact) ==
    CASE n = "f128" -> (CASE op = "i32" -> f128M_to_i32(rm, m, "a", exact)
                       [] op = "ui32" -> f128M_to_ui32(rm, m, "a", exact)
                       [] op = "i64" -> f128M_to_i64(rm, m, "a", exact)
                       [] op = "ui64" -> f128M_to_ui64(rm, m, "a", exact))
      [] n = "extF80" -> (CASE op = "i32" -> extF80M_to_i32(rm, m, "a", exact)
                       [] op = "ui32" -> extF80M_to_ui32(rm, m, "a", exact)
                       [] op = "i64" -> extF80M_to_i64(rm, m, "a", exact)
                       [] op = "ui64" -> extF80M_to_ui64(rm, m, "a", exact))

MemTruncate(n, op, m, exact) ==
    CASE n = "f128" -> (CASE op = "i32" -> f128M_to_i32_r_minMag(m, "a", exact)
                       [] op = "ui32" -> f128M_to_ui32_r_minMag(m, "a", exact)
                       [] op = "i64" -> f128M_to_i64_r_minMag(m, "a", exact)
                       [] op = "ui64" -> f128M_to_ui64_r_minMag(m, "a", exact))
      [] n = "extF80" -> (CASE op = "i32" -> extF80M_to_i32_r_minMag(m, "a", exact)
                       [] op = "ui32" -> extF80M_to_ui32_r_minMag(m, "a", exact)
                       [] op = "i64" -> extF80M_to_i64_r_minMag(m, "a", exact)
                       [] op = "ui64" -> extF80M_to_ui64_r_minMag(m, "a", exact))

MemFromInteger(n, op, rm, m, z) ==
    CASE n = "f128" -> (CASE op = "i32" -> i32_to_f128M(rm, m, m.a, z) [] op = "ui32" -> ui32_to_f128M(rm, m, m.a, z)
                       [] op = "i64" -> i64_to_f128M(rm, m, m.a, z) [] op = "ui64" -> ui64_to_f128M(rm, m, m.a, z))
      [] n = "extF80" -> (CASE op = "i32" -> i32_to_extF80M(m, m.a, z) [] op = "ui32" -> ui32_to_extF80M(m, m.a, z)
                       [] op = "i64" -> i64_to_extF80M(m, m.a, z) [] op = "ui64" -> ui64_to_extF80M(m, m.a, z))

(***************************************************************************)
(* The calls.                                                              *)
(***************************************************************************)
\* a call, its arguments and its result; the flags it raised accrue
Call(kind, op, n, args, out) ==
    /\ last' = [kind |-> kind, op |-> op, fmt |-> n, args |-> args, rm |-> roundingMode, out |-> out]
    /\ exceptionFlags' = exceptionFlags \cup out.fl
    /\ UNCHANGED roundingMode

LibraryArith == \E n \in ArithNames \ MemNames, op \in {"add", "sub", "mul", "div", "rem"} :
    \E p \in Pairs[n] : Call("arith", op, n, p, Arith(n, op, roundingMode, p[1], p[2]))
LibraryFused == \E n \in FormatNames \ MemNames : \E t \in Triples[n] :
    Call("arith", "mulAdd", n, t, FusedMulAdd(n, roundingMode, t[1], t[2], t[3]))
LibraryUnary == \E n \in ArithNames \ MemNames, op \in {"sqrt", "roundToInt", "roundToInt_inexact"} :
    \E a \in Singles[n] : Call("arith", op, n, <<a>>, Unary(n, op, roundingMode, a))
LibraryConvert == \E n, m \in FormatNames \ MemNames : \E a \in Singles[n] :
    n # m /\ Call("convert", m, n, <<a>>, Convert(n, m, roundingMode, a))
LibraryOrder == \E n \in FormatNames \ MemNames, op \in {"eq", "eq_signaling", "le", "le_quiet", "lt", "lt_quiet"} :
    \E p \in Pairs[n] : Call("order", op, n, p, Order(n, op, p[1], p[2]))
LibraryClass == \E n \in {"f32", "f64"} : \E a \in Singles[n] :
    Call("class", "classify", n, <<a>>,
         Exact(IF n = "f32" THEN f32_classify(a) ELSE f64_classify(a)))
LibraryToInt == \E n \in FormatNames \ MemNames, t \in TypeNames, exact \in BOOLEAN :
    \E a \in Singles[n] : Call("toint", t, n, <<a, exact>>, ToInteger(n, t, roundingMode, a, exact))
LibraryTruncate == \E n \in FormatNames \ MemNames, t \in TypeNames, exact \in BOOLEAN :
    \E a \in Singles[n] : Call("truncate", t, n, <<a, exact>>, Truncate(n, t, a, exact))
LibraryFromInt == \E n \in FormatNames \ MemNames, t \in TypeNames : \E a \in Ints[t] :
    Call("fromint", t, n, <<a>>, FromInteger(n, t, roundingMode, a))
LibraryRound == \E n \in ArithNames, op \in {"roundPack", "normRoundPack"}, sign \in {0, 1} :
    \E x \in Sigs[n] : Call("round", op, n, <<sign, x[1], x[2]>>,
                            Rounding(n, op, roundingMode, sign, x[1], x[2]))
LibraryRoundTo == \E t \in TypeNames, sign \in {0, 1} : \E x \in Fixeds :
    Call("roundto", t, "none", <<sign, x>>, RoundToInteger(t, roundingMode, sign, x))
LibraryNorm == \E n \in FormatNames \ ExtNames : \E a \in Singles[n] :
    /\ expUI(Fmt(n), a) = 0 /\ fracUI(Fmt(n), a) # 0
    /\ Call("norm", "norm", n, <<fracUI(Fmt(n), a)>>, Exact(NormSubnormal(n, fracUI(Fmt(n), a))))

\* the places the result may go to
ResultPlaces(n, x) == IF x \in Aliased[n] THEN {"a", "b", "c", "z"} ELSE {"z"}
MemoryArith == \E n \in MemNames, op \in {"add", "sub", "mul", "div", "rem"} :
    \E p \in Pairs[n] : \E z \in ResultPlaces(n, p[1]) :
        Call("arith", op, n, p, Loaded(z, MemArith(n, op, roundingMode, Memory(p[1], p[2], 0), z)))
MemoryFused == \E t \in Triples["f128"] : \E z \in ResultPlaces("f128", t[1]) :
    Call("arith", "mulAdd", "f128", t,
         Loaded(z, f128M_mulAdd(roundingMode, Memory(t[1], t[2], t[3]), "a", "b", "c", z)))
MemoryUnary == \E n \in MemNames, op \in {"sqrt", "roundToInt", "roundToInt_inexact"} :
    \E x \in Singles[n] : \E z \in ResultPlaces(n, x) :
        Call("arith", op, n, <<x>>, Loaded(z, MemUnary(n, op, roundingMode, Memory(x, 0, 0), z)))
MemoryOrder == \E n \in {"f128", "extF80"}, op \in {"eq", "eq_signaling", "le", "le_quiet", "lt", "lt_quiet"} :
    \E p \in Pairs[n] : Call("order", op, n, p, MemOrder(n, op, Memory(p[1], p[2], 0)))
MemoryConvert == \E n, m \in FormatNames : \E x \in Singles[n] : \E z \in ResultPlaces(n, x) :
    /\ n # m /\ {n, m} \cap MemNames # {}
    /\ Call("convert", m, n, <<x>>, MemConvert(n, m, roundingMode, Memory(x, 0, 0), z))
MemoryToInt == \E n \in {"f128", "extF80"}, t \in TypeNames, exact \in BOOLEAN : \E x \in Singles[n] :
    Call("toint", t, n, <<x, exact>>, MemToInteger(n, t, roundingMode, Memory(x, 0, 0), exact))
MemoryTruncate == \E n \in {"f128", "extF80"}, t \in TypeNames, exact \in BOOLEAN : \E x \in Singles[n] :
    Call("truncate", t, n, <<x, exact>>, MemTruncate(n, t, Memory(x, 0, 0), exact))
MemoryFromInt == \E n \in {"f128", "extF80"}, t \in TypeNames : \E x \in Ints[t] :
    Call("fromint", t, n, <<x>>, Loaded("z", MemFromInteger(n, t, roundingMode, Memory(x, 0, 0), "z")))

LibraryMemory == \/ MemoryArith \/ MemoryFused \/ MemoryUnary \/ MemoryOrder \/ MemoryConvert
                 \/ MemoryToInt \/ MemoryTruncate \/ MemoryFromInt

LibraryCall == /\ last = None
               /\ \/ LibraryArith \/ LibraryFused \/ LibraryUnary \/ LibraryConvert
                  \/ LibraryOrder \/ LibraryClass \/ LibraryToInt \/ LibraryTruncate
                  \/ LibraryFromInt \/ LibraryRound \/ LibraryRoundTo \/ LibraryNorm
                  \/ LibraryMemory

\* the program takes the result and clears the flags
LibraryReturn == /\ last # None
                 /\ last' = None
                 /\ exceptionFlags' = {}
                 /\ UNCHANGED roundingMode

(***************************************************************************)
(* What the calls must give.                                               *)
(***************************************************************************)
\* a result of format G in the word of the wider F
Within(F, G, r) ==
    [r EXCEPT !.v = packToUI(F, signUI(G, @), expUI(G, @), fracUI(G, @) * 2^(F.f - G.f))]

RefArith(op, F, G, rm, x) ==
    CASE op = "add" -> Within(F, G, RefAdd(F, G, rm, x[1], x[2]))
      [] op = "sub" -> Within(F, G, RefSub(F, G, rm, x[1], x[2]))
      [] op = "mul" -> Within(F, G, RefMul(F, G, rm, x[1], x[2]))
      [] op = "div" -> Within(F, G, RefDiv(F, G, rm, x[1], x[2]))
      [] op = "sqrt" -> Within(F, G, RefSqrt(F, G, rm, x[1]))
      [] op = "rem" -> RefRem(F, x[1], x[2])
      [] op = "mulAdd" -> RefMulAdd(F, rm, x[1], x[2], x[3])
      [] op = "roundToInt" -> RefRoundToInt(F, rm, x[1], TRUE)
      [] op = "roundToInt_inexact" -> RefRoundToInt(F, rm, x[1], FALSE)

\* exponent of the last bit of what a rounding function is given
LastPlace(c) ==
    LET F == Fmt(c.fmt)
    IN c.args[2] - Bias(F) - F.f
         + (CASE c.fmt \in ExtNames -> -ExtraBits
              [] c.fmt = "f128" -> 1 - (IF c.op = "roundPack" THEN ExtraBits ELSE 0)
              [] OTHER -> 1 - Guard(F))

Reference(c) ==
    LET F == Fmt(c.fmt)  T == Type(c.op)  x == c.args
        G == IF c.fmt \in ExtNames THEN Kept(Prec(c.fmt)) ELSE F
    IN CASE c.kind = "arith"    -> RefArith(c.op, F, G, c.rm, x)
         [] c.kind = "convert"  -> RefConvert(F, Fmt(c.op), c.rm, x[1])
         [] c.kind = "toint"    -> RefToInt(F, T, c.rm, x[1], x[2])
         [] c.kind = "truncate" -> RefToInt(F, T, "minMag", x[1], x[2])
         [] c.kind = "fromint"  -> RefFromInt(F, c.rm, x[1])
         [] c.kind = "round"    -> Within(F, G, Rounded(G, c.rm, x[1], x[3], 1, LastPlace(c)))
         [] c.kind = "roundto"  -> RefInRange(T, x[1], IntegerAt(c.rm, x[1], x[2], 1, KeptBits(T)), TRUE)

\* Every result of the arithmetic, the conversions and the rounding functions
\* (s_roundPackToF32.c and its siblings) is the exact one rounded once in the
\* mode in force, with the flags IEEE 754 asks for: no guard bit, sticky bit,
\* carry into the exponent, subnormal or overflow is lost on the way.
ArithmeticRight ==
    last.kind \in {"arith", "convert", "toint", "truncate", "fromint", "round", "roundto"} =>
        last.out = Reference(last)

\* Every comparison, classification and renormalisation (f32_lt.c, f32_classify.c,
\* s_normSubnormalF32Sig.c and their siblings) agrees with the values of its
\* operands, and a NaN raises invalid when the function says it does.
DecisionsRight ==
    LET F == Fmt(last.fmt)  x == last.args
    IN CASE last.kind = "order" -> last.out = RefOrder(F, last.op, x[1], x[2])
         [] last.kind = "class" -> last.out.v = RefClass(F, x[1])
         [] last.kind = "norm"  -> /\ last.out.v.sig \in Hidden(F) .. 2 * Hidden(F) - 1
                                   /\ last.out.v.sig = x[1] * 2^(1 - last.out.v.exp)
         [] OTHER -> TRUE
=============================================================================
