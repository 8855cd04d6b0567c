---------------------------- MODULE FpEmulation ----------------------------
(***************************************************************************)
(* Machine-mode emulation of what the core does not implement              *)
(* (machine/emulation.c, fp_emulation.c, fp_ldst.c, misaligned_ldst.c), in *)
(* the build for a core without floating point.  An instruction traps; the *)
(* entry code loads the emulated fcsr from x0's save slot into tp, where   *)
(* the softfloat library finds its rounding mode and leaves its flags; the *)
(* handler carries the instruction out, or redirects the trap to the       *)
(* supervisor; the exit code stores tp back.  S values are F32, D values   *)
(* F64, an integer register holds a number of type UI64, and an            *)
(* instruction carries the values of its source registers.                 *)
(*                                                                         *)
(* Client "library" of the softfloat functions runs beside it, so that one *)
(* module checks the functions and what the emulator makes of them.        *)
(***************************************************************************)
EXTENDS FpLibrary

CONSTANTS FpInsns,      \* floating-point instructions that trap
          MemInsns,     \* loads and stores that trap
          CsrInsns      \* CSR instructions that trap

VARIABLES client,    \* "library" or "trap": who calls the library
          fs,        \* mstatus.FS: "Off", "Clean" or "Dirty"
          slot,      \* the emulated fcsr in x0's save slot: [frm, fl]
          perf       \* "counting", or "written" once a program has set mcycle

vars == <<libVars, client, fs, slot, perf>>

\* frm is the set of its bits; the modes 5 to 7 do not exist
FrmValues == SUBSET {1, 2, 4}
ModeOf(frm) == CASE frm = {} -> "near_even"  [] frm = {1} -> "minMag" [] frm = {2} -> "min"
                 [] frm = {1, 2} -> "max"    [] frm = {4} -> "near_maxMag" [] OTHER -> "none"
Dynamic == {1, 2, 4}
ZeroSlot == [frm |-> {}, fl |-> {}]

Init == /\ client \in {"library", "trap"}
        /\ roundingMode \in (IF client = "library" THEN Modes ELSE {"near_even"})
        /\ fs \in (IF client = "library" THEN {"Clean"} ELSE {"Off", "Clean"})
        /\ exceptionFlags = {} /\ last = None
        /\ slot = ZeroSlot /\ perf = "counting"

(***************************************************************************)
(* What a handler does with an instruction: Illegal, or the value it       *)
(* writes and the flags it raises in mode rm.                              *)
(***************************************************************************)
Illegal == [illegal |-> TRUE]
Writes(r) == [illegal |-> FALSE, v |-> r.v, fl |-> r.fl]
Precise(i) == i.prec \in {0, 1}
P(i) == IF i.prec = 0 THEN F32 ELSE F64

\* SETUP_STATIC_ROUNDING: the mode an instruction names, or frm, which is not checked
BadRounding(i) == i.rm \in {{1, 4}, {2, 4}}
ModeFor(i) == IF i.rm = Dynamic THEN ModeOf(slot.frm) ELSE ModeOf(i.rm)

emulate_any_fadd(i, rm, b) == IF ~Precise(i) THEN Illegal
    ELSE Writes(IF i.prec = 0 THEN f32_add(rm, i.a, b) ELSE f64_add(rm, i.a, b))
emulate_fadd(i, rm) == emulate_any_fadd(i, rm, i.b)
emulate_fsub(i, rm) == emulate_any_fadd(i, rm, Neg(P(i), i.b))
emulate_fmul(i, rm) == IF ~Precise(i) THEN Illegal
    ELSE Writes(IF i.prec = 0 THEN f32_mul(rm, i.a, i.b) ELSE f64_mul(rm, i.a, i.b))
emulate_fdiv(i, rm) == IF ~Precise(i) THEN Illegal
    ELSE Writes(IF i.prec = 0 THEN f32_div(rm, i.a, i.b) ELSE f64_div(rm, i.a, i.b))
emulate_fsqrt(i, rm) == IF i.rs2 # 0 \/ ~Precise(i) THEN Illegal
    ELSE Writes(IF i.prec = 0 THEN f32_sqrt(rm, i.a) ELSE f64_sqrt(rm, i.a))

\* rm is the function: sgnj, sgnjn, sgnjx
emulate_fsgnj(i) ==
    LET F == P(i)
        sign == (signUI(F, i.b) + (IF i.rm = {1} THEN 1 ELSE 0)
                                + (IF i.rm = {2} THEN signUI(F, i.a) ELSE 0)) % 2
    IN IF i.rm \notin {{}, {1}, {2}} \/ ~Precise(i) THEN Illegal
       ELSE Writes(Exact((i.a % 2^(F.e + F.f)) + Zero(F, sign)))

emulate_fmin(i) ==
    LET x == IF i.rm = {1} THEN i.b ELSE i.a
        y == IF i.rm = {1} THEN i.a ELSE i.b
        lt == IF i.prec = 0 THEN f32_lt_quiet(x, y) ELSE f64_lt_quiet(x, y)
    IN IF i.rm \notin {{}, {1}} \/ ~Precise(i) THEN Illegal
       ELSE Writes([v |-> IF lt.v \/ isNaN(P(i), i.b) THEN i.a ELSE i.b, fl |-> lt.fl])

emulate_fcvt_ff(i, rm) == IF ~Precise(i) \/ i.rs2 # 1 - i.prec THEN Illegal
    ELSE Writes(IF i.prec = 0 THEN f64_to_f32(rm, i.a) ELSE f32_to_f64(rm, i.a))

\* rs2 names the integer type: int32, uint32, int64, uint64
FcvtType(i) == <<I32, UI32, I64, UI64>>[i.rs2 + 1]
Low(x, w) == x % 2^w
SignExtend(x, w) == IF Low(x, w) >= 2^(w - 1) THEN Low(x, w) + 2^I64.w - 2^w ELSE Low(x, w)

emulate_fcvt_fi(i, rm) ==
    LET T   == FcvtType(i)
        neg == T.signed /\ Low(i.a, T.w) >= 2^(T.w - 1)
        d   == ui64_to_f64(rm, Low(IF neg THEN -i.a ELSE i.a, T.w))
        f64 == IF neg THEN Neg(F64, d.v) ELSE d.v
        s   == f64_to_f32(rm, f64)
    IN IF ~Precise(i) \/ i.rs2 \notin 0 .. 3 THEN Illegal
       ELSE Writes(IF i.prec = 0 THEN [v |-> s.v, fl |-> d.fl \cup s.fl] ELSE [d EXCEPT !.v = f64])

emulate_fcvt_if(i, rm) ==
    LET T    == FcvtType(i)
        d    == IF i.prec = 0 THEN f32_to_f64(rm, i.a) ELSE Exact(i.a)
        neg  == signUI(F64, d.v) = 1
        u    == f64_to_ui64(rm, IF neg THEN Neg(F64, d.v) ELSE d.v, TRUE)
        limit == IF T.signed THEN (IF neg THEN 2^(T.w - 1) ELSE 2^(T.w - 1) - 1)
                 ELSE IF neg THEN 0 ELSE 2^T.w - 1
        limit_result == IF T.signed THEN limit ELSE 2^T.w - 1
        result == IF T.signed THEN SignExtend(IF neg THEN -u.v ELSE u.v, T.w)
                  ELSE IF neg THEN 0 ELSE Low(u.v, T.w)
    IN IF i.rs2 \notin 0 .. 3 \/ ~Precise(i) THEN Illegal
       ELSE Writes([v  |-> IF u.v > limit THEN limit_result ELSE result,
                    fl |-> d.fl \cup u.fl \cup If(u.v > limit, "NV")])

\* rm is the function: fle, flt, feq; fle asks for equality first
emulate_fcmp(i) ==
    LET eq == IF i.prec = 0 THEN f32_eq(i.a, i.b) ELSE f64_eq(i.a, i.b)
        lt == IF i.prec = 0 THEN f32_lt(i.a, i.b) ELSE f64_lt(i.a, i.b)
    IN IF i.rm \notin {{}, {1}, {2}} \/ ~Precise(i) THEN Illegal
       ELSE Writes(CASE i.rm = {2} -> eq [] i.rm = {1} -> lt
                     [] OTHER -> IF eq.v THEN eq ELSE [v |-> lt.v, fl |-> eq.fl \cup lt.fl])

\* rm tells fmv.x from fclass; an S value is sign-extended
emulate_fmv_if(i) ==
    IF i.rs2 # 0 \/ i.rm \notin {{}, {1}} \/ ~Precise(i) THEN Illegal
    ELSE Writes(Exact(IF i.rm = {1} THEN (IF i.prec = 0 THEN f32_classify(i.a) ELSE f64_classify(i.a))
                      ELSE i.a))
emulate_fmv_fi(i) == IF i.rs2 # 0 \/ i.rm # {} \/ ~Precise(i) THEN Illegal ELSE Writes(Exact(i.a))

emulate_fmadd_Swapped(i, rm) ==
    LET a == IF i.op \in {"fmsub", "fnmadd"} THEN Neg(P(i), i.a) ELSE i.a
        c == IF i.op \in {"fnmsub", "fnmadd"} THEN Neg(P(i), i.c) ELSE i.c
    IN IF ~Precise(i) THEN Illegal
       ELSE Writes(IF i.prec = 0 THEN softfloat_mulAddF32(rm, a, i.b, c)
                   ELSE softfloat_mulAddF64(rm, a, i.b, c))
\* negA and negC are bits of the opcode: fmadd, fmsub, fnmsub, fnmadd
emulate_fmadd(i, rm) ==
    LET a == IF i.op \in {"fnmsub", "fnmadd"} THEN Neg(P(i), i.a) ELSE i.a
        c == IF i.op \in {"fmsub", "fnmadd"} THEN Neg(P(i), i.c) ELSE i.c
    IN IF ~Precise(i) THEN Illegal
       ELSE Writes(IF i.prec = 0 THEN softfloat_mulAddF32(rm, a, i.b, c)
                   ELSE softfloat_mulAddF64(rm, a, i.b, c))

\* fp_emulation_table and illegal_insn_trap_table
emulate_fp(i, rm) ==
    IF fs = "Off" \/ BadRounding(i) THEN Illegal
    ELSE CASE i.op = "fadd"  -> emulate_fadd(i, rm)    [] i.op = "fsub"    -> emulate_fsub(i, rm)
           [] i.op = "fmul"  -> emulate_fmul(i, rm)    [] i.op = "fdiv"    -> emulate_fdiv(i, rm)
           [] i.op = "fsqrt" -> emulate_fsqrt(i, rm)   [] i.op = "fsgnj"   -> emulate_fsgnj(i)
           [] i.op = "fmin"  -> emulate_fmin(i)        [] i.op = "fcvt_ff" -> emulate_fcvt_ff(i, rm)
           [] i.op = "fcmp"  -> emulate_fcmp(i)        [] i.op = "fcvt_fi" -> emulate_fcvt_fi(i, rm)
           [] i.op = "fmv_if" -> emulate_fmv_if(i)     [] i.op = "fcvt_if" -> emulate_fcvt_if(i, rm)
           [] i.op = "fmv_fi" -> emulate_fmv_fi(i)
           [] i.op \in {"fmadd", "fmsub", "fnmsub", "fnmadd"} -> emulate_fmadd(i, rm)
           [] OTHER -> Illegal

(***************************************************************************)
(* The ways out of a trap.                                                 *)
(***************************************************************************)
\* redirect_trap: the supervisor sees the instruction; __redirect_trap rejoins
\* the exit code after the store of tp, so the slot keeps the zero of the entry
truly_illegal_insn(kind, i) ==
    /\ slot' = ZeroSlot
    /\ last' = [kind |-> kind, insn |-> i, before |-> slot, out |-> Illegal]
    /\ UNCHANGED <<roundingMode, exceptionFlags, client, fs, perf>>

\* the instruction is done: tp goes back to the slot
Finish(kind, i, rm, out, dirty) ==
    /\ slot' = [slot EXCEPT !.fl = @ \cup out.fl]
    /\ fs' = IF dirty THEN "Dirty" ELSE fs
    /\ last' = [kind |-> kind, insn |-> i, rm |-> rm, before |-> slot, out |-> out]
    /\ UNCHANGED <<roundingMode, exceptionFlags, client, perf>>

TrapFp == \E i \in FpInsns :
    /\ client = "trap" /\ last = None
    /\ LET rm == ModeFor(i)  out == emulate_fp(i, rm)
       IN IF out.illegal THEN truly_illegal_insn("fp", i) ELSE Finish("fp", i, rm, out, TRUE)

(***************************************************************************)
(* CSR instructions (emulate_system_opcode).  f3 is the function: 1 to 3   *)
(* write, set, clear from a register, 5 to 7 from an immediate; x is the   *)
(* operand, as the bits it has in frm and in fflags.                       *)
(***************************************************************************)
emulate_read_csr(i) ==
    CASE i.csr \in {"frm", "fflags", "fcsr"} -> fs # "Off"
      [] i.csr \in {"cycle", "time"}         -> i.counteren
      [] OTHER                               -> FALSE
emulate_write_csr(i, new) ==
    /\ slot' = CASE i.csr = "frm"    -> [slot EXCEPT !.frm = new.frm]
                 [] i.csr = "fflags" -> [slot EXCEPT !.fl = new.fl]
                 [] i.csr = "fcsr"   -> new
                 [] OTHER            -> slot
    /\ fs' = IF i.csr = "cycle" THEN fs ELSE "Dirty"
    /\ perf' = IF i.csr = "cycle" THEN "written" ELSE perf

emulate_system_opcode(i) ==
    LET new == CASE i.f3 \in {1, 5} -> i.x
                 [] i.f3 \in {2, 6} -> [frm |-> slot.frm \cup i.x.frm, fl |-> slot.fl \cup i.x.fl]
                 [] i.f3 \in {3, 7} -> [frm |-> slot.frm \ i.x.frm, fl |-> slot.fl \ i.x.fl]
        writes == i.f3 \in {1, 5} \/ i.rs1 # 0
    IN \/ /\ ~emulate_read_csr(i) \/ i.f3 \in {0, 4} \/ (writes /\ i.csr = "time")
          /\ truly_illegal_insn("csr", i)
       \/ /\ emulate_read_csr(i) /\ i.f3 \notin {0, 4} /\ ~(writes /\ i.csr = "time")
          /\ IF writes THEN emulate_write_csr(i, new) ELSE UNCHANGED <<slot, fs, perf>>
          /\ last' = [kind |-> "csr", insn |-> i, before |-> slot, rm |-> "none", out |-> Writes(Exact(0))]
          /\ UNCHANGED <<roundingMode, exceptionFlags, client>>

TrapCsr == client = "trap" /\ last = None /\ \E i \in CsrInsns : emulate_system_opcode(i)

(***************************************************************************)
(* Loads and stores: of floating-point registers, which trap as illegal,   *)
(* and misaligned ones of any register.  An access is [addr, len].  addr   *)
(* is the address the instruction names; badaddr is what mbadaddr holds,   *)
(* which for an illegal instruction is its bits, never an address.         *)
(***************************************************************************)
FpLoads  == {"flw", "fld", "c.fld", "c.fldsp"}
FpStores == {"fsw", "fsd", "c.fsd", "c.fsdsp"}
Compressed == {"c.fld", "c.fldsp", "c.fsd", "c.fsdsp"}
StackInts  == {"c.lwsp", "c.ldsp", "c.swsp", "c.sdsp"}
Len(op) == CASE op \in {"lh", "lhu", "sh"} -> 2
             [] op \in {"lw", "lwu", "sw", "flw", "fsw", "c.lw", "c.sw", "c.lwsp", "c.swsp"} -> 4
             [] OTHER -> 8

\* misaligned_load_trap, misaligned_store_trap: byte by byte from mbadaddr; the
\* stack forms want a destination, which in a store are bits of the offset
MisalignedBytes(i, badaddr) ==
    IF i.op \notin FpLoads \cup FpStores /\ i.op \in StackInts /\ i.field = 0 THEN Illegal
    ELSE Writes(Exact([addr |-> badaddr, len |-> Len(i.op)]))

\* emulate_float_load, emulate_float_store: a misaligned address goes to mbadaddr first
FloatAccess(i) ==
    IF fs = "Off" THEN Illegal
    ELSE IF i.addr % Len(i.op) # 0 THEN MisalignedBytes(i, i.addr)
    ELSE Writes(Exact([addr |-> i.addr, len |-> Len(i.op)]))

\* emulate_rvc: mbadaddr is left as it is
CompressedAccess(i) ==
    IF fs = "Off" THEN Illegal
    ELSE IF i.addr % 8 # 0 THEN MisalignedBytes(i, "insn")
    ELSE Writes(Exact([addr |-> i.addr, len |-> 8]))

Access(i) == IF i.op \in Compressed THEN CompressedAccess(i)
             ELSE IF i.op \in FpLoads \cup FpStores THEN FloatAccess(i)
             ELSE MisalignedBytes(i, i.addr)

\* a fault of the access itself is redirected from within machine mode
TrapMem == \E i \in MemInsns :
    /\ client = "trap" /\ last = None
    /\ LET out == Access(i)
       IN IF out.illegal \/ i.fault THEN truly_illegal_insn("mem", i)
          ELSE Finish("mem", i, "none", out, i.op \in FpLoads)

(***************************************************************************)
(* The system.                                                             *)
(***************************************************************************)
Library == /\ client = "library"
           /\ LibraryCall \/ LibraryReturn
           /\ UNCHANGED <<client, fs, slot, perf>>

\* the program, or the supervisor that got the trap, goes on; the supervisor
\* turns floating point on for a program that uses it
Resume == /\ client = "trap" /\ last # None
          /\ last' = None
          /\ fs' = IF last.out.illegal /\ fs = "Off" THEN "Clean" ELSE fs
          /\ UNCHANGED <<roundingMode, exceptionFlags, client, slot, perf>>

Next == Library \/ TrapFp \/ TrapCsr \/ TrapMem \/ Resume

Spec == Init /\ [][Next]_vars

(***************************************************************************)
(* Properties.                                                             *)
(***************************************************************************)
Even(rm) == rm \in {"near_even", "minMag", "near_maxMag"}   \* modes blind to the sign

\* what the instruction set asks of a floating-point instruction
Asked(i, rm) ==
    LET F == P(i)  T == FcvtType(i)
        x == IF T.signed THEN SignExtend(i.a, T.w) ELSE Low(i.a, T.w)
        n == IF T.signed /\ x >= 2^(I64.w - 1) THEN x - 2^I64.w ELSE x
    IN CASE i.op = "fadd"  -> RefAdd(F, F, rm, i.a, i.b)  [] i.op = "fsub" -> RefAdd(F, F, rm, i.a, Neg(F, i.b))
         [] i.op = "fmul"  -> RefMul(F, F, rm, i.a, i.b)  [] i.op = "fdiv" -> RefDiv(F, F, rm, i.a, i.b)
         [] i.op = "fsqrt" -> RefSqrt(F, F, rm, i.a)
         [] i.op = "fsgnj" -> Exact(IF (CASE i.rm = {} -> signUI(F, i.a) = signUI(F, i.b)
                                          [] i.rm = {1} -> signUI(F, i.a) # signUI(F, i.b)
                                          [] i.rm = {2} -> signUI(F, i.b) = 0) THEN i.a ELSE Neg(F, i.a))
         [] i.op = "fmin"  -> [v |-> IF isNaN(F, i.a) THEN i.b ELSE IF isNaN(F, i.b) THEN i.a
                                     ELSE IF Less(F, i.a, i.b) = (i.rm = {}) THEN i.a ELSE i.b,
                               fl |-> If(isSigNaN(F, i.a) \/ isSigNaN(F, i.b), "NV")]
         [] i.op = "fcvt_ff" -> RefConvert(IF i.prec = 0 THEN F64 ELSE F32, F, rm, i.a)
         [] i.op = "fcvt_fi" -> RefFromInt(F, rm, n)
         [] i.op = "fcvt_if" -> LET r == RefToInt(F, T, rm, i.a, TRUE) IN [r EXCEPT !.v = Low(@, T.w)]
         [] i.op = "fcmp"  -> RefOrder(F, CASE i.rm = {} -> "le" [] i.rm = {1} -> "lt" [] i.rm = {2} -> "eq",
                                       i.a, i.b)
         [] i.op = "fmv_if" -> Exact(IF i.rm = {1} THEN RefClass(F, i.a) ELSE i.a)
         [] i.op = "fmv_fi" -> Exact(i.a)
         [] i.op = "fmadd" -> RefMulAdd(F, rm, i.a, i.b, i.c)
         [] i.op = "fmsub" -> RefMulAdd(F, rm, i.a, i.b, Neg(F, i.c))
         [] i.op = "fnmsub" -> RefMulAdd(F, rm, Neg(F, i.a), i.b, i.c)
         [] i.op = "fnmadd" -> RefMulAdd(F, rm, Neg(F, i.a), i.b, Neg(F, i.c))

\* where the emulator departs from the instruction set (see the README); a
\* misaligned compressed access is made at the address mbadaddr holds, which
\* for an instruction that trapped as illegal is the instruction's own bits
DepartsMem(i) == i.op \in Compressed /\ i.addr % 8 # 0
Departs(i, rm) ==
    \/ rm = "none"                                            \* a frm that names no mode
    \/ i.op = "fmin" /\ ((isNaN(P(i), i.a) /\ isNaN(P(i), i.b)) \/ EqBits(P(i), i.a, i.b))
    \/ i.op = "fcvt_fi" /\ FcvtType(i).w = I64.w /\ (i.prec = 0 \/ ~Even(rm))
    \/ i.op = "fcvt_if" /\ (~Even(rm) \/ "NV" \in RefToInt(P(i), FcvtType(i), rm, i.a, TRUE).fl)

\* An emulated instruction writes what the instruction set asks for, in the
\* mode it names, and the flags it raises join the ones in x0's save slot,
\* which keeps frm: the sign flips of fsub, fnmadd and fsgnj, the operand order
\* of fmin and fle, the fall-through of fcvt from 64-bit integers, the
\* integer limits of fcvt (fp_emulation.c).  A memory access that is carried
\* out leaves the slot alone and is made at the address the instruction names,
\* but for the misaligned compressed ones.  Nothing is claimed of a trap that
\* is redirected to the supervisor: __redirect_trap drops the emulated fcsr.
EmulatedRight ==
    /\ (last.kind = "fp" /\ ~last.out.illegal) =>
          /\ slot.frm = last.before.frm
          /\ ~Departs(last.insn, last.rm) =>
                LET r == Asked(last.insn, last.rm)
                IN /\ slot.fl = last.before.fl \cup r.fl
                   /\ (IF last.insn.op = "fcvt_if" THEN Low(last.out.v, FcvtType(last.insn).w)
                       ELSE last.out.v) = r.v
    /\ (last.kind = "mem" /\ ~last.out.illegal) =>
          /\ slot = last.before
          /\ ~DepartsMem(last.insn) => last.out.v.addr = last.insn.addr
=============================================================================
