------------------------------- MODULE Ia32Tables -------------------------------
(***************************************************************************)
(* The opcode tables of ia32_opcode_tables.c: for each table, the row of   *)
(* an index.  A row is an instruction with up to three operands, a prefix, *)
(* or the name of the table that the lookup goes on with.  An operand has  *)
(* the addressing method and the type of Intel's opcode map, and the       *)
(* register number when it is hard-coded.                                  *)
(***************************************************************************)
EXTENDS Integers, Sequences

Operand(method, type) == [method |-> method, type |-> type, reg |-> 0]
A(t) == Operand("A", t)      \* direct address
C(t) == Operand("C", t)      \* control register, reg field of ModR/M
D(t) == Operand("D", t)      \* debug register
E(t) == Operand("E", t)      \* ModR/M: register or memory
G(t) == Operand("G", t)      \* general register, reg field of ModR/M
I(t) == Operand("I", t)      \* immediate
J(t) == Operand("J", t)      \* offset relative to the next instruction
M(t) == Operand("M", t)      \* ModR/M: memory
O(t) == Operand("O", t)      \* offset, no ModR/M
P(t) == Operand("P", t)      \* MMX register
Q(t) == Operand("Q", t)      \* ModR/M: MMX register or memory
R(t) == Operand("R", t)      \* ModR/M: general register
S(t) == Operand("S", t)      \* segment register
T(t) == Operand("T", t)      \* test register
V(t) == Operand("V", t)      \* SIMD register
W(t) == Operand("W", t)      \* ModR/M: SIMD register or memory
X(t) == Operand("X", t)      \* DS:SI
Y(t) == Operand("Y", t)      \* ES:DI
RR(t) == Operand("RR", t)    \* hard-coded general register
RS(t) == Operand("RS", t)    \* hard-coded segment register
RT(t) == Operand("RT", t)    \* hard-coded test register
II(t) == Operand("II", t)    \* hard-coded immediate
RF(i) == [Operand("RF", "fp") EXCEPT !.reg = i]      \* hard-coded ST(i)

Entry(kind, name, ops, sub) ==
  [kind |-> kind, name |-> name, ops |-> ops, sub |-> sub]
Insn(name, ops) == Entry("insn", name, ops, "none")
Plain(ops) == Insn("insn", ops)          \* an instruction whose name is not read
Group(sub) == Entry("invalid", "none", << >>, sub)
Prefix(name, sub) == Entry("prefix", name, << >>, sub)
Invalid == Entry("invalid", "none", << >>, "none")

(***************************************************************************)
(* tbl_Main                                                                *)
(***************************************************************************)
Arithmetic == << << E("b"), G("b") >>, << E("v"), G("v") >>, << G("b"), E("b") >>,
                 << G("v"), E("v") >>, << RR("b"), I("b") >>, << RR("v"), I("v") >> >>

MainLow(op) ==
  CASE op < \h40 /\ op % 8 < 6      -> Plain(Arithmetic[(op % 8) + 1])
    [] op = \h0F                    -> Group("0F")
    [] op \in {\h26, \h2E, \h36, \h3E, \h64, \h65} -> Prefix("segment", "none")
    [] op \in {\h27, \h2F, \h37, \h3F} -> Plain(<< >>)
    [] op < \h40                    -> Plain(<< RS("w") >>)
    [] op \in \h40..\h5F            -> Plain(<< RR("v") >>)
    [] op \in {\h60, \h61}          -> Plain(<< >>)
    [] op = \h62                    -> Plain(<< G("v"), M("a") >>)
    [] op = \h63                    -> Plain(<< E("w"), G("w") >>)
    [] op = \h66                    -> Prefix("op_size", "66")
    [] op = \h67                    -> Prefix("addr_size", "none")
    [] op = \h68                    -> Plain(<< I("v") >>)
    [] op = \h69                    -> Plain(<< G("v"), E("v"), I("v") >>)
    [] op = \h6A                    -> Plain(<< I("b") >>)
    [] op = \h6B                    -> Plain(<< G("v"), E("v"), I("b") >>)
    [] op = \h6C                    -> Plain(<< Y("b"), RR("b") >>)
    [] op = \h6D                    -> Plain(<< Y("v"), RR("v") >>)
    [] op = \h6E                    -> Plain(<< RR("b"), X("b") >>)
    [] op = \h6F                    -> Plain(<< RR("v"), X("v") >>)
    [] OTHER                        -> Insn("jcc", << J("b") >>)

\* 80 to BF
MainMiddle(op) ==
  CASE op = \h80                    -> Group("80")
    [] op = \h81                    -> Group("81")
    [] op = \h82                    -> Group("82")
    [] op = \h83                    -> Group("83")
    [] op \in {\h84, \h86, \h88}    -> Plain(<< E("b"), G("b") >>)
    [] op \in {\h85, \h87, \h89}    -> Plain(<< E("v"), G("v") >>)
    [] op = \h8A                    -> Plain(<< G("b"), E("b") >>)
    [] op = \h8B                    -> Plain(<< G("v"), E("v") >>)
    [] op = \h8C                    -> Plain(<< E("w"), S("w") >>)
    [] op = \h8D                    -> Plain(<< G("v"), M("m") >>)
    [] op = \h8E                    -> Plain(<< S("w"), E("w") >>)
    [] op = \h8F                    -> Plain(<< E("v") >>)
    [] op \in \h91..\h97            -> Plain(<< RR("v"), RR("v") >>)
    [] op = \h9A                    -> Insn("call", << A("p") >>)
    [] op \in \h90..\h9F            -> Plain(<< >>)
    [] op = \hA0                    -> Plain(<< RR("b"), O("b") >>)
    [] op = \hA1                    -> Plain(<< RR("v"), O("v") >>)
    [] op = \hA2                    -> Plain(<< O("b"), RR("b") >>)
    [] op = \hA3                    -> Plain(<< O("v"), RR("v") >>)
    [] op \in {\hA4, \hA6}          -> Plain(<< Y("b"), X("b") >>)
    [] op = \hA5                    -> Plain(<< Y("v"), X("v") >>)
    [] op = \hA7                    -> Plain(<< X("v"), Y("v") >>)
    [] op = \hAA                    -> Plain(<< Y("b"), RR("b") >>)
    [] op = \hAB                    -> Plain(<< Y("v"), RR("v") >>)
    [] op = \hAC                    -> Plain(<< RR("b"), X("b") >>)
    [] op = \hAD                    -> Plain(<< RR("v"), X("v") >>)
    [] op = \hAE                    -> Plain(<< RR("b"), Y("b") >>)
    [] op = \hAF                    -> Plain(<< RR("v"), Y("v") >>)
    [] op \in {\hA8} \cup \hB0..\hB7 -> Plain(<< RR("b"), I("b") >>)
    [] op \in {\hA9} \cup \hB8..\hBF -> Plain(<< RR("v"), I("v") >>)

MainHigh(op) ==
  CASE op = \hC0 -> Group("C0")  [] op = \hC1 -> Group("C1")
    [] op = \hC6 -> Group("C6")  [] op = \hC7 -> Group("C7")
    [] op = \hD0 -> Group("D0")  [] op = \hD1 -> Group("D1")
    [] op = \hD2 -> Group("D2")  [] op = \hD3 -> Group("D3")
    [] op = \hD8 -> Group("D8")  [] op = \hD9 -> Group("D9")
    [] op = \hDA -> Group("DA")  [] op = \hDB -> Group("DB")
    [] op = \hDC -> Group("DC")  [] op = \hDD -> Group("DD")
    [] op = \hDE -> Group("DE")  [] op = \hDF -> Group("DF")
    [] op = \hF6 -> Group("F6")  [] op = \hF7 -> Group("F7")
    [] op = \hFE -> Group("FE")  [] op = \hFF -> Group("FF")
    [] op = \hF0                    -> Prefix("lock", "none")
    [] op = \hF2                    -> Prefix("repnz", "F2")
    [] op = \hF3                    -> Prefix("repz", "F3")
    [] op \in {\hC2, \hCA}          -> Insn("ret", << I("w") >>)
    [] op \in {\hC3, \hCB}          -> Insn("ret", << >>)
    [] op \in {\hC4, \hC5}          -> Plain(<< G("v"), M("p") >>)
    [] op = \hC8                    -> Plain(<< I("w"), I("b") >>)
    [] op \in {\hCD, \hD4, \hD5}    -> Plain(<< I("b") >>)
    [] op \in \hE0..\hE3            -> Insn("jcc", << J("b") >>)
    [] op \in {\hE4, \hE5}          -> Plain(<< RR("b"), I("b") >>)
    [] op \in {\hE6, \hE7}          -> Plain(<< I("b"), RR("b") >>)
    [] op = \hE8                    -> Insn("call", << J("v") >>)
    [] op = \hE9                    -> Insn("jmp", << J("v") >>)
    [] op = \hEA                    -> Insn("jmp", << A("p") >>)
    [] op = \hEB                    -> Insn("jmp", << J("b") >>)
    [] op = \hEC                    -> Plain(<< RR("b"), RR("w") >>)
    [] op = \hED                    -> Plain(<< RR("v"), RR("w") >>)
    [] op = \hEE                    -> Plain(<< RR("w"), RR("b") >>)
    [] op = \hEF                    -> Plain(<< RR("w"), RR("v") >>)
    [] OTHER                        -> Plain(<< >>)

(***************************************************************************)
(* tbl_0F                                                                  *)
(***************************************************************************)
TwoByteLow(op) ==
  CASE op = \h00 -> Group("0F00")  [] op = \h01 -> Group("0F01")
    [] op = \h12 -> Group("0F12")  [] op = \h16 -> Group("0F16")
    [] op = \h18 -> Group("0F18")  [] op = \h71 -> Group("0F71")
    [] op = \h72 -> Group("0F72")  [] op = \h73 -> Group("0F73")
    [] op \in {\h02, \h03}          -> Plain(<< G("v"), E("w") >>)
    [] op \in {\h06, \h08, \h09, \h0B, \h0E, \h77} \cup \h30..\h35
                                    -> Plain(<< >>)
    [] op = \h0D                    -> Plain(<< M("b") >>)
    [] op = \h0F                    -> Entry("insn", "insn", << P("pi"), Q("q") >>, "0F0F")
    [] op = \h13                    -> Plain(<< V("q"), W("q") >>)
    [] op \in {\h14, \h15}          -> Plain(<< V("ps"), W("q") >>)
    [] op = \h17                    -> Plain(<< W("q"), V("q") >>)
    [] op = \h20                    -> Plain(<< R("d"), C("d") >>)
    [] op = \h21                    -> Plain(<< R("d"), D("d") >>)
    [] op = \h22                    -> Plain(<< C("d"), R("d") >>)
    [] op = \h23                    -> Plain(<< D("d"), R("d") >>)
    [] op = \h24                    -> Plain(<< R("d"), T("d") >>)
    [] op = \h26                    -> Plain(<< T("d"), R("d") >>)
    [] op \in {\h11, \h29, \h2B}    -> Plain(<< W("ps"), V("ps") >>)
    [] op = \h2A                    -> Plain(<< V("ps"), Q("q") >>)
    [] op \in {\h2C, \h2D}          -> Plain(<< P("q"), W("q") >>)
    [] op = \h2E                    -> Plain(<< V("ss"), W("ss") >>)
    [] op = \h2F                    -> Plain(<< V("ps"), W("ss") >>)
    [] op \in \h40..\h4F            -> Plain(<< G("v"), E("v") >>)
    [] op = \h50                    -> Plain(<< G("d"), W("ps") >>)
    [] op = \h5A                    -> Plain(<< V("pd"), W("q") >>)
    [] op = \h5B                    -> Plain(<< V("ps"), W("dq") >>)
    [] op \in {\h10, \h28} \cup \h51..\h5F -> Plain(<< V("ps"), W("ps") >>)
    [] op \in \h60..\h6B            -> Plain(<< P("q"), Q("d") >>)
    [] op = \h6E                    -> Plain(<< P("d"), E("d") >>)
    [] op \in {\h6F, \h74, \h75, \h76} -> Plain(<< P("q"), Q("q") >>)
    [] op = \h70                    -> Plain(<< P("q"), Q("q"), I("b") >>)
    [] op = \h7E                    -> Plain(<< E("d"), P("d") >>)
    [] op = \h7F                    -> Plain(<< Q("q"), P("q") >>)
    [] OTHER                        -> Invalid

\* 80 to FF
TwoByteHigh(op) ==
  CASE op = \hAE -> Group("0FAE")  [] op = \hBA -> Group("0FBA")
    [] op \in \h80..\h8F            -> Insn("jcc", << J("v") >>)
    [] op \in \h90..\h9F            -> Plain(<< E("b") >>)
    [] op \in {\hA0, \hA1, \hA8, \hA9} -> Plain(<< RS("w") >>)
    [] op \in {\hA2, \hAA, \hB9}    -> Plain(<< >>)
    [] op \in {\hA3, \hAB, \hB1, \hB3, \hBB, \hC1} -> Plain(<< E("v"), G("v") >>)
    [] op \in {\hA4, \hAC}          -> Plain(<< E("v"), G("v"), I("b") >>)
    [] op \in {\hA5, \hAD}          -> Plain(<< E("v"), G("v"), RR("b") >>)
    [] op \in {\hAF, \hBC, \hBD}    -> Plain(<< G("v"), E("v") >>)
    [] op \in {\hB0, \hC0}          -> Plain(<< E("b"), G("b") >>)
    [] op \in {\hB2, \hB4, \hB5}    -> Plain(<< G("v"), M("p") >>)
    [] op \in {\hB6, \hBE}          -> Plain(<< G("v"), E("b") >>)
    [] op \in {\hB7, \hBF}          -> Plain(<< G("v"), E("w") >>)
    [] op \in {\hC2, \hC6}          -> Plain(<< V("ps"), W("ps"), I("b") >>)
    [] op = \hC3                    -> Plain(<< M("d"), G("d") >>)
    [] op = \hC4                    -> Plain(<< P("q"), E("d"), I("b") >>)
    [] op = \hC5                    -> Plain(<< G("d"), Q("q"), I("b") >>)
    [] op = \hC7                    -> Plain(<< M("q") >>)
    [] op \in \hC8..\hCF            -> Plain(<< RR("d") >>)
    [] op = \hD7                    -> Plain(<< G("d"), Q("q") >>)
    [] op = \hE7                    -> Plain(<< W("q"), V("q") >>)
    [] op = \hF7                    -> Plain(<< P("pi"), Q("pi") >>)
    [] op \in {\hA6, \hA7, \hB8, \hD0, \hD6, \hE6, \hF0, \hFF} -> Invalid
    [] OTHER                        -> Plain(<< P("q"), Q("q") >>)

(***************************************************************************)
(* The tables of 0F opcodes after the prefixes 66, F2 and F3 (SSE),        *)
(* below 80 and from 80 on                                                 *)
(***************************************************************************)
OperandSize0FLow(op) ==
  CASE op = \h71 -> Group("660F71")  [] op = \h72 -> Group("660F72")
    [] op = \h73 -> Group("660F73")
    [] op \in {\h11, \h29}          -> Plain(<< W("pd"), V("pd") >>)
    [] op \in {\h12, \h16}          -> Plain(<< V("q"), M("q") >>)
    [] op = \h13                    -> Plain(<< M("q"), V("q") >>)
    [] op = \h17                    -> Plain(<< M("q"), V("pd") >>)
    [] op = \h2A                    -> Plain(<< V("pd"), Q("q") >>)
    [] op = \h2B                    -> Plain(<< M("pd"), V("pd") >>)
    [] op \in {\h2C, \h2D}          -> Plain(<< P("q"), W("pd") >>)
    [] op \in {\h2E, \h2F}          -> Plain(<< V("sd"), W("sd") >>)
    [] op = \h50                    -> Plain(<< G("d"), W("pd") >>)
    [] op = \h5A                    -> Plain(<< V("ps"), W("pd") >>)
    [] op = \h5B                    -> Plain(<< V("dq"), W("ps") >>)
    [] op \in {\h10, \h14, \h15, \h28, \h7C, \h7D}
              \cup ((\h51..\h5F) \ {\h52, \h53}) -> Plain(<< V("pd"), W("pd") >>)
    [] op = \h6E                    -> Plain(<< V("d"), E("d") >>)
    [] op = \h70                    -> Plain(<< V("dq"), W("dq"), I("b") >>)
    [] op = \h7E                    -> Plain(<< E("d"), V("d") >>)
    [] op = \h7F                    -> Plain(<< W("dq"), V("dq") >>)
    [] op \in \h60..\h6F \cup \h74..\h76 -> Plain(<< V("dq"), W("dq") >>)
    [] OTHER                        -> Invalid

OperandSize0FHigh(op) ==
  CASE op = \hD0                    -> Plain(<< V("pd"), W("pd") >>)
    [] op \in {\hC2, \hC6}          -> Plain(<< V("pd"), W("pd"), I("b") >>)
    [] op = \hC4                    -> Plain(<< V("w"), E("d"), I("b") >>)
    [] op = \hC5                    -> Plain(<< G("d"), W("w"), I("b") >>)
    [] op = \hD6                    -> Plain(<< W("q"), V("q") >>)
    [] op = \hD7                    -> Plain(<< G("d"), W("dq") >>)
    [] op = \hE6                    -> Plain(<< V("dq"), W("pd") >>)
    [] op = \hE7                    -> Plain(<< M("dq"), V("dq") >>)
    [] op \in (\hD1..\hFE) \ {\hF0} -> Plain(<< V("dq"), W("dq") >>)
    [] OTHER                        -> Invalid

Repnz0FLow(op) ==
  CASE op \in {\h10, \h51, \h58, \h59} \cup \h5C..\h5F
                                    -> Plain(<< V("sd"), W("sd") >>)
    [] op = \h11                    -> Plain(<< W("sd"), V("sd") >>)
    [] op = \h12                    -> Plain(<< V("q"), W("q") >>)
    [] op = \h2A                    -> Plain(<< V("sd"), E("d") >>)
    [] op \in {\h2C, \h2D}          -> Plain(<< G("d"), W("sd") >>)
    [] op = \h5A                    -> Plain(<< V("ss"), W("sd") >>)
    [] op = \h70                    -> Plain(<< V("dq"), W("dq"), I("b") >>)
    [] op \in {\h7C, \h7D}          -> Plain(<< V("ps"), W("ps") >>)
    [] OTHER                        -> Invalid

Repnz0FHigh(op) ==
  CASE op = \hD0                    -> Plain(<< V("ps"), W("ps") >>)
    [] op = \hC2                    -> Plain(<< V("sd"), W("sd"), I("b") >>)
    [] op = \hD6                    -> Plain(<< P("q"), W("q") >>)
    [] op = \hE6                    -> Plain(<< V("dq"), W("pd") >>)
    [] op = \hF0                    -> Plain(<< V("dq"), M("dq") >>)
    [] OTHER                        -> Invalid

Repz0FLow(op) ==
  CASE op \in {\h10, \h58, \h59} \cup \h51..\h53 \cup \h5C..\h5F
                                    -> Plain(<< V("ss"), W("ss") >>)
    [] op = \h11                    -> Plain(<< W("ss"), V("ss") >>)
    [] op \in {\h12, \h16}          -> Plain(<< V("ps"), W("ps") >>)
    [] op = \h2A                    -> Plain(<< V("ss"), E("d") >>)
    [] op \in {\h2C, \h2D}          -> Plain(<< G("d"), W("ss") >>)
    [] op = \h5A                    -> Plain(<< V("sd"), W("ss") >>)
    [] op = \h5B                    -> Plain(<< V("dq"), W("ps") >>)
    [] op = \h6F                    -> Plain(<< V("dq"), W("dq") >>)
    [] op = \h70                    -> Plain(<< V("dq"), W("dq"), I("b") >>)
    [] op = \h7E                    -> Plain(<< V("q"), W("q") >>)
    [] op = \h7F                    -> Plain(<< W("dq"), V("dq") >>)
    [] OTHER                        -> Invalid

Repz0FHigh(op) ==
  CASE op = \hC2                    -> Plain(<< V("ss"), W("ss"), I("b") >>)
    [] op = \hD6                    -> Plain(<< V("dq"), Q("q") >>)
    [] op = \hE6                    -> Plain(<< V("pd"), W("q") >>)
    [] OTHER                        -> Invalid

(***************************************************************************)
(* Opcodes extended by their ModR/M byte: groups after 0F                  *)
(***************************************************************************)
SystemGroup(t, i) ==
  CASE t = "0F00" -> IF i < 6 THEN Plain(<< E("w") >>) ELSE Invalid
    [] t = "0F01" -> CASE i = \h19                      -> Group("0F0111")
                       [] i < \h18 /\ i % 8 < 4         -> Plain(<< M("s") >>)
                       [] i < \h18 /\ i % 8 = 7         -> Plain(<< M("none") >>)
                       [] i \in {4, 6, \hC, \hE, \h14, \h16, \h1C, \h1E}
                                                        -> Plain(<< E("w") >>)
                       [] OTHER                         -> Invalid
    [] t = "0F0111" -> Plain(<< >>)
    [] t \in {"0F12", "0F16"} -> IF i = 3 THEN Plain(<< V("ps"), W("ps") >>)
                                          ELSE Plain(<< V("q"), M("q") >>)
    [] t = "0F18" -> CASE i % 8 = 0 -> Plain(<< M("b") >>)
                       [] i % 8 < 4 -> Plain(<< RT("d") >>)
                       [] OTHER     -> Invalid
    [] t = "0FAE" -> CASE i < \h18 /\ i % 8 < 2 -> Plain(<< E("fx") >>)
                       [] i < \h18 /\ i % 8 < 4 -> Plain(<< E("d") >>)
                       [] i < \h18 /\ i % 8 = 7 -> Plain(<< M("b") >>)
                       [] i > \h1C              -> Plain(<< >>)
                       [] OTHER                 -> Invalid
    [] t = "0FBA" -> Plain(<< E("v"), I("b") >>)

\* The shifts of SIMD registers
ShiftGroup(t, i) ==
  CASE t \in {"0F71", "0F72"} /\ i \in {\h1A, \h1C, \h1E} -> Plain(<< P("q"), I("b") >>)
    [] t = "0F73" /\ i \in {\h1A, \h1E}          -> Plain(<< P("q"), I("b") >>)
    [] t = "660F71" /\ i \in {\h1A, \h1C, \h1E}  -> Plain(<< P("dq"), I("b") >>)
    [] t = "660F72" /\ i \in {\h1A, \h1C, \h1E}  -> Plain(<< W("dq"), I("b") >>)
    [] t = "660F73" /\ i \in {\h1A, \h1B, \h1E, \h1F} -> Plain(<< W("dq"), I("b") >>)
    [] OTHER                                     -> Invalid

(***************************************************************************)
(* Groups of one-byte opcodes                                              *)
(***************************************************************************)
ImmediateGroup(t) ==
  CASE t \in {"80", "82", "C0", "C6"} -> Plain(<< E("b"), I("b") >>)
    [] t \in {"81", "C7"} -> Plain(<< E("v"), I("v") >>)
    [] t \in {"83", "C1"} -> Plain(<< E("v"), I("b") >>)
    [] t = "D0" -> Plain(<< E("b"), II("b") >>)
    [] t = "D1" -> Plain(<< E("v"), II("v") >>)
    [] t = "D2" -> Plain(<< E("b"), RR("b") >>)
    [] t = "D3" -> Plain(<< E("v"), RR("b") >>)

UnaryGroup(t, i) ==
  LET s == IF t \in {"F6", "FE"} THEN "b" ELSE "v"
  IN  CASE t \in {"F6", "F7"} /\ i < 2 -> Plain(<< E(s), I(s) >>)
        [] t \in {"F6", "F7"} /\ i > 3 -> Plain(<< RR(s), E(s) >>)
        [] t = "FF" /\ i = 2 -> Insn("call", << E("v") >>)
        [] t = "FF" /\ i = 3 -> Insn("call", << M("p") >>)
        [] t = "FF" /\ i = 4 -> Insn("jmp", << E("v") >>)
        [] t = "FF" /\ i = 5 -> Insn("jmp", << M("p") >>)
        [] OTHER -> Plain(<< E(s) >>)

(***************************************************************************)
(* The x87 tables.  With a ModR/M byte below C0 the operand is in memory;  *)
(* the others are the opcodes on registers, eight rows a name.             *)
(***************************************************************************)
FpuTables == {"D8", "D9", "DA", "DB", "DC", "DD", "DE", "DF"}
FpuExtTables == {"D8C0", "D9C0", "DAC0", "DBC0", "DCC0", "DDC0", "DEC0", "DFC0"}
FpuExt(t) == CASE t = "D8" -> "D8C0" [] t = "D9" -> "D9C0" [] t = "DA" -> "DAC0"
               [] t = "DB" -> "DBC0" [] t = "DC" -> "DCC0" [] t = "DD" -> "DDC0"
               [] t = "DE" -> "DEC0" [] t = "DF" -> "DFC0"

FpuArithmetic == << "fadd", "fmul", "fcom", "fcomp", "fsub", "fsubr", "fdiv", "fdivr" >>
FpuIntegers == << "fiadd", "fimul", "ficom", "ficomp",
                  "fisub", "fisubr", "fidiv", "fidivr" >>

\* Rows of an instruction on memory of type t, with the name of each index.
OnMemory(names, types, i) ==
  IF names[i + 1] = "none" THEN Invalid ELSE Insn(names[i + 1], << M(types[i + 1]) >>)
Always(t) == [j \in 1..8 |-> t]

FpuMemory(t, i) ==
  CASE t = "D8" -> OnMemory(FpuArithmetic, Always("fs"), i)
    [] t = "DC" -> OnMemory(FpuArithmetic, Always("fd"), i)
    [] t = "DA" -> OnMemory(FpuIntegers, Always("d"), i)
    [] t = "DE" -> OnMemory(FpuIntegers, Always("w"), i)
    [] t = "D9" -> OnMemory(<< "fld", "none", "fst", "fstp",
                               "fldenv", "fldcw", "fnstenv", "fnstcw" >>,
                            << "fs", "fs", "fs", "fs", "fv", "w", "fv", "w" >>, i)
    [] t = "DB" -> OnMemory(<< "fild", "fisttp", "fist", "fistp",
                               "none", "fld", "none", "fstp" >>,
                            << "d", "d", "d", "d", "d", "fe", "fe", "fe" >>, i)
    [] t = "DD" -> OnMemory(<< "fld", "fisttp", "fst", "fstp",
                               "frstor", "none", "fnsave", "fnstsw" >>,
                            << "fd", "q", "fd", "fd", "ft", "ft", "ft", "w" >>, i)
    [] t = "DF" -> OnMemory(<< "fild", "fisttp", "fist", "fistp",
                               "fbld", "fild", "fbstp", "fistp" >>,
                            << "w", "w", "w", "w", "fb", "q", "fb", "q" >>, i)

\* Eight rows a name, on ST(0) and ST(i), in either order.
ToTop(names, op) == LET name == names[((op - \hC0) \div 8) + 1]
                    IN  IF name = "none" THEN Invalid
                        ELSE Insn(name, << RF(0), RF(op % 8) >>)
FromTop(names, op) == LET name == names[((op - \hC0) \div 8) + 1]
                      IN  IF name = "none" THEN Invalid
                          ELSE Insn(name, << RF(op % 8), RF(0) >>)

\* tbl_D9C0: the opcodes without operands
Constants == << "fld1", "fldl2t", "fldl2e", "fldpi", "fldlg2", "fldln2", "fldz" >>
Functions16 == << "f2xm1", "fyl2x", "fptan", "fpatan", "fxtract", "fprem1", "fdecstp",
                  "fincstp", "fprem", "fyl2xp1", "fsqrt", "fsincos", "frndint",
                  "fscale", "fsin", "fcos" >>
FpuD9(op) ==
  CASE op < \hD0           -> ToTop(<< "fld", "fxch" >>, op)
    [] op = \hD0           -> Insn("fnop", << >>)
    [] op = \hE0           -> Insn("fchs", << >>)
    [] op = \hE1           -> Insn("fabs", << >>)
    [] op = \hE4           -> Insn("ftst", << >>)
    [] op = \hE5           -> Insn("fxam", << >>)
    [] op \in \hE8..\hEE   -> Insn(Constants[op - \hE8 + 1], << >>)
    [] op >= \hF0          -> Insn(Functions16[op - \hF0 + 1], << >>)
    [] OTHER               -> Invalid

FpuMoves(t, op) ==
  CASE t = "DAC0" /\ op < \hE0 ->
         ToTop(<< "fcmovb", "fcmove", "fcmovbe", "fcmovu" >>, op)
    [] t = "DAC0" /\ op = \hE9 -> Insn("fucompp", << >>)
    [] t = "DBC0" /\ op < \hE0 ->
         ToTop(<< "fcmovnb", "fcmovne", "fcmovnbe", "fcmovnu" >>, op)
    [] t = "DBC0" /\ op = \hE2 -> Insn("fnclex", << >>)
    [] t = "DBC0" /\ op = \hE3 -> Insn("fninit", << >>)
    [] t = "DBC0" /\ op \in \hE8..\hEF -> Insn("fucomi", << RF(0), RF(op % 8) >>)
    [] t = "DBC0" /\ op \in \hF0..\hF7 -> Insn("fcomi", << RF(0), RF(op % 8) >>)
    [] OTHER -> Invalid

FpuPops(t, op) ==
  CASE t = "DDC0" /\ op < \hC8 -> Insn("ffree", << RF(op % 8) >>)
    [] t = "DDC0" /\ op \in \hD0..\hD7 -> Insn("fst", << RF(op % 8) >>)
    [] t = "DDC0" /\ op \in \hD8..\hDF -> Insn("fstp", << RF(op % 8) >>)
    [] t = "DDC0" /\ op \in \hE0..\hEF -> 
         FromTop(<< "none", "none", "none", "none", "fucom", "fucomp" >>, op)
    [] t = "DEC0" /\ op = \hD9 -> Insn("fcompp", << >>)
    [] t = "DEC0" -> FromTop(<< "faddp", "fmulp", "none", "none",
                                "fsubrp", "fsubp", "fdivrp", "fdivp" >>, op)
    [] t = "DFC0" /\ op = \hE0 -> Insn("fnstsw", << RR("w") >>)
    [] t = "DFC0" /\ op \in \hE8..\hF7 ->
         ToTop(<< "none", "none", "none", "none", "none", "fucomip", "fcomip" >>, op)
    [] OTHER -> Invalid

FpuRegisters(t, op) ==
  CASE t = "D8C0" -> ToTop(FpuArithmetic, op)
    [] t = "DCC0" -> FromTop(<< "fadd", "fmul", "none", "none",
                                "fsubr", "fsub", "fdivr", "fdiv" >>, op)
    [] t = "D9C0" -> FpuD9(op)
    [] t \in {"DAC0", "DBC0"} -> FpuMoves(t, op)
    [] t \in {"DDC0", "DEC0", "DFC0"} -> FpuPops(t, op)

\* tbl_0F0F: the suffixes of 3DNow! instructions
ThreeDNow(op) ==
  IF op \in {\h0D, \h1D, \h90, \h94, \h96, \h97, \h9A, \h9E, \hA0, \hA4, \hA6,
             \hA7, \hAA, \hAE, \hB0, \hB4, \hB6, \hB7, \hBF}
    THEN Plain(<< P("pi"), Q("q") >>) ELSE Invalid

(***************************************************************************)
(* The tables, and row i of table t                                        *)
(***************************************************************************)
Tables ==
  { "Main", "0F", "66", "F2", "F3", "660F", "F20F", "F30F", "0F0F",
    "0F00", "0F01", "0F0111", "0F12", "0F16", "0F18", "0FAE", "0FBA",
    "0F71", "0F72", "0F73", "660F71", "660F72", "660F73",
    "80", "81", "82", "83", "C0", "C1", "C6", "C7", "D0", "D1", "D2", "D3",
    "F6", "F7", "FE", "FF" } \cup FpuTables \cup FpuExtTables
PrefixNames == { "segment", "op_size", "addr_size", "lock", "repnz", "repz" }

Row(t, i) ==
  CASE t = "Main" -> IF i < \h80 THEN MainLow(i)
                     ELSE IF i < \hC0 THEN MainMiddle(i) ELSE MainHigh(i)
    [] t = "0F"   -> IF i < \h80 THEN TwoByteLow(i) ELSE TwoByteHigh(i)
    [] t = "66"   -> Group("660F")
    [] t = "F2"   -> Group("F20F")
    [] t = "F3"   -> (CASE i = \h0F -> Group("F30F") [] i = \h90 -> Plain(<< >>)
                        [] OTHER -> Invalid)
    [] t = "660F" -> IF i < \h80 THEN OperandSize0FLow(i) ELSE OperandSize0FHigh(i)
    [] t = "F20F" -> IF i < \h80 THEN Repnz0FLow(i) ELSE Repnz0FHigh(i)
    [] t = "F30F" -> IF i < \h80 THEN Repz0FLow(i) ELSE Repz0FHigh(i)
    [] t = "0F0F" -> ThreeDNow(i)
    [] t \in FpuTables -> FpuMemory(t, i)
    [] t \in FpuExtTables -> FpuRegisters(t, i)
    [] t \in {"0F00", "0F01", "0F0111", "0F12", "0F16", "0F18", "0FAE", "0FBA"}
                  -> SystemGroup(t, i)
    [] t \in {"0F71", "0F72", "0F73", "660F71", "660F72", "660F73"}
                  -> ShiftGroup(t, i)
    [] t \in {"80", "81", "82", "83", "C0", "C1", "C6", "C7", "D0", "D1", "D2", "D3"}
                  -> ImmediateGroup(t)
    [] t \in {"F6", "F7", "FE", "FF"} -> UnaryGroup(t, i)

=================================================================================
