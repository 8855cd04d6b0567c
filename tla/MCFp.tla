-------------------------------- MODULE MCFp --------------------------------
EXTENDS FpEmulation

Fm16 == [e |-> 3, f |-> 2, w |-> 7]
Fm32 == [e |-> 4, f |-> 5, w |-> 10]
Fm64 == [e |-> 5, f |-> 8, w |-> 14]
Fm128 == [e |-> 6, f |-> 12, w |-> 19]
Fm80 == [e |-> 6, f |-> 10, w |-> 11]
MCI32 == [w |-> 7, signed |-> TRUE]
MCUI32 == [w |-> 7, signed |-> FALSE]
MCI64 == [w |-> 10, signed |-> TRUE]
MCUI64 == [w |-> 10, signed |-> FALSE]
\* boundary values of format G
Edge(G, exps, fracs) == {packToUI(G, s, x, f) : s \in {0, 1}, x \in exps, f \in fracs}
Specials(G) == {Inf(G, 0), Inf(G, 1), Inf(G, 0) + 1, Inf(G, 1) + 1, defaultNaN(G), 0, Zero(G, 1)}
Few(G) == Specials(G) \cup Edge(G, {0, 1, Bias(G), ExpMax(G) - 1}, {0, 1, Hidden(G) \div 2, Hidden(G) - 1})
Near(G, S) == {p \in S \X S : expUI(G, p[1]) - expUI(G, p[2]) \in -14 .. 14
                                 \/ ExpMax(G) \in {expUI(G, p[1]), expUI(G, p[2])}}
MCPairs == [n \in ArithNames |->
   CASE n = "f16" -> (0 .. 63) \X ({0, 1, 2, 3, 4, 5, 7, 8, 11, 12, 13, 14, 15, 17, 19, 22, 24, 27, 28, 29, 31}
                               \cup {32, 33, 35, 36, 45, 47, 54, 59, 60, 61})
     [] n = "f32" -> LET S == Few(F32) IN S \X S
     [] n = "f64" -> Near(F64, Specials(F64) \cup Edge(F64, {0, 1, 15, 30}, {0, 1, 100}))
     [] n = "f128" -> Near(F128, Specials(F128) \cup Edge(F128, {0, 1, 14, 62}, {0, 1, 4095}))
     [] n = "extF80" -> Near(F80, Specials(F80) \cup Edge(F80, {0, 1, 14, 62}, {0, 1, 513, 1023}))
     [] OTHER -> Near(F80, Edge(F80, {0, 1, 32, 62}, {0, 1, 1021}))]
MCTriples == [n \in FormatNames \ ExtNames |->
   CASE n = "f16" -> LET S == {0, 32, 1, 35, 4, 39, 13, 45, 27, 28, 60, 30} IN S \X S \X S
     [] n = "f32" -> LET S == Edge(F32, {0, 7, 14}, {1, 8}) IN S \X S \X S
     [] n = "f64" -> LET S == Edge(F64, {15}, {0, 1, 85}) IN S \X S \X Edge(F64, {1, 8, 15, 16, 22}, {0, 255})
     [] n = "f128" -> LET S == Edge(F128, {31}, {0, 1, 2730}) IN S \X S \X Edge(F128, {18, 30, 31, 32, 36}, {0, 4095})]
MCSingles == [n \in ArithNames |->
   CASE n = "f16" -> 0 .. 63
     [] n = "f32" -> Specials(F32) \cup Edge(F32, 0 .. 14, {0, 1, 2, 15, 16, 17, 18, 30, 31})
     [] n = "f64" -> Specials(F64) \cup Edge(F64, {0, 1, 12, 13, 14, 15, 16, 20, 21, 22, 23, 24, 25, 30}, {0, 1, 3, 127, 128, 129, 255})
     [] n = "f128" -> Specials(F128) \cup Edge(F128, {0, 1, 24, 30, 31, 32, 37, 38, 40, 41, 45, 46, 62}, {0, 1, 2047, 2048, 4095})
     [] n = "extF80" -> Specials(F80) \cup Edge(F80, {0, 1, 14, 16, 17, 24, 30, 31, 32, 37, 38, 40, 41, 45, 46, 62}, {0, 1, 2, 511, 512, 513, 1022, 1023})
     [] OTHER -> Edge(F80, {0, 1, 30, 31, 62}, {0, 1, 513, 1023})]
MCInts == [t \in TypeNames |->
   CASE t = "i32" -> -64 .. 63 [] t = "ui32" -> 0 .. 127
     [] t = "i64" -> {-512, -511, -257, -129, -65} \cup {127, 128, 255, 256, 257, 509, 510, 511}
     [] t = "ui64" -> {0, 255, 256, 511, 512, 513, 515, 1021, 1022, 1023}]
MCSigs == [n \in ArithNames |->
   CASE n = "f16" -> (-4 .. 7) \X (32 .. 63)
     [] n = "f32" -> {-3, -1, 0, 1, 13, 14} \X {256, 257, 259, 260, 261, 268, 511, 507, 508}
     [] n = "f64" -> {-2, 0, 29} \X {4096, 4097, 4104, 4105, 8191, 8183, 8184}
     [] n = "f128" -> {-2, -1, 0, 61} \X {16384, 16385, 16386, 16387, 16390, 32766, 32767}
     [] n \in ExtNames -> {-2, -1, 0, 1, 61, 62, 63} \X {4096, 4097, 4098, 4102, 4103, 4104, 4160, 4224, 8055, 8056, 8063, 8176, 8183, 8184, 8189, 8190, 8191}]

MCAliased == [n \in ArithNames |-> CASE n = "f128" -> Edge(F128, {31}, {0, 1, 2730}) [] n \in ExtNames -> Edge(F80, {31}, {0, 513, 1023})
                                   [] OTHER -> {}]
MCFixeds == 0 .. 70 \cup 500 .. 520 \cup 1000 .. 1030 \cup 4080 .. 4100

Modes3 == {{}, {1}, {2}, {1, 2}, {4}, {1, 4}, Dynamic}
Insn(ops, precs, rs2s, rms, as, bs, cs) ==
    [op : ops, prec : precs, rs2 : rs2s, rm : rms, a : as, b : bs, c : cs]
\* operands that are numbers in both formats: 1.5, -0, a NaN of each ...
S32 == {packToUI(F32, 0, 7, 16), packToUI(F32, 1, 9, 3), packToUI(F32, 1, 0, 0), Inf(F32, 0) + 1}
S64 == {packToUI(F64, 0, 15, 100), packToUI(F64, 1, 20, 3), packToUI(F64, 1, 21, 0), packToUI(F64, 0, 0, 0), Inf(F64, 0) + 1}
Two(ops, rms) == Insn(ops, {0}, {0}, rms, S32, S32, {0}) \cup Insn(ops, {1}, {0}, rms, S64, S64, {0})
One(ops, rs2s, rms) == Insn(ops, {0}, rs2s, rms, S32, {0}, {0}) \cup Insn(ops, {1}, rs2s, rms, S64, {0}, {0})
MCFpInsns ==
    Two({"fadd", "fsub", "fmul", "fdiv"}, {Dynamic})
    \cup Two({"fsgnj", "fmin", "fcmp"}, {{}, {1}, {2}})
    \cup One({"fsqrt", "fmv_if"}, {0, 1}, {{}, {1}})
    \cup One({"fcvt_if"}, 0 .. 4, {{1}, Dynamic})
    \cup Insn({"fcvt_fi"}, {0, 1}, 0 .. 4, {Dynamic}, {1, 63, 64, 127, 511, 512, 1023}, {0}, {0})
    \cup Insn({"fcvt_ff"}, {0}, {0, 1}, {{}, Dynamic}, S64, {0}, {0})
    \cup Insn({"fcvt_ff"}, {1}, {0, 1}, {{}, Dynamic}, S32, {0}, {0})
    \cup Insn({"fmv_fi"}, {0, 1, 2}, {0}, {{}, {1}}, {5}, {0}, {0})
    \cup Insn({"fmadd", "fmsub", "fnmsub", "fnmadd"}, {0}, {0}, {Dynamic}, S32, {packToUI(F32, 0, 7, 1)}, S32)
    \cup Insn({"fmadd", "fnmadd", "other", "fmul"}, {1, 2}, {0}, {{1, 4}, {1}}, {packToUI(F64, 0, 15, 9)}, {packToUI(F64, 1, 15, 9)}, {0})
MCMemInsns == [op : {"flw", "fld", "fsw", "fsd", "c.fld", "c.fsd", "c.fldsp", "c.fsdsp", "lw", "ld", "lh", "sd", "c.sdsp", "c.lwsp"},
               addr : {3, 8}, field : {0, 1}, fault : BOOLEAN]
MCCsrInsns == [csr : {"frm", "fflags", "fcsr", "cycle", "time", "other"}, f3 : {0, 1, 2, 3, 6, 7}, rs1 : {0, 1},
               x : {[frm |-> {2}, fl |-> {"NX"}], [frm |-> {1, 4}, fl |-> {"DZ", "UF"}]}, counteren : BOOLEAN]
=============================================================================
