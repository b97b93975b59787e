------------------------------- MODULE Decompile --------------------------------
(***************************************************************************)
(* The listing (disasm.c) and the decompilation to C (decompile.c) of an   *)
(* evolved program.  Both walk over its bytes with x86_disasm, from the    *)
(* header on; decompile1 turns each instruction into C statements on an    *)
(* array f of eight registers.  The machine code and the C program are     *)
(* then run side by side.  Numbers are terms: a sum is <<"add", x, y>>,    *)
(* input variable i is <<"v", i>>, constant i is <<"c", i>>.               *)
(***************************************************************************)
EXTENDS Ia32, SequencesExt

CONSTANTS
  Instructions,   \* the instructions of the programs, each a sequence of bytes
  Programs,       \* the programs, each a sequence of instructions
  Layouts         \* where the arrays of variables and constants may be

VARIABLES
  instrs,     \* the instructions of the program
  layout,     \* the addresses of the arrays
  phase,      \* "disasm", "decompile", "execute", "run", "done" or "exited"
  pos,        \* current position in the code
  visited,    \* the positions at which this walk found an instruction
  emitted,    \* the C statements written so far
  machine,    \* the FPU after the machine code ran
  f           \* the variables of the C program after it ran

vars == << instrs, layout, phase, pos, visited, emitted, machine, f >>

---------------------------------------------------------------------------------
(***************************************************************************)
(* The bytes of a program                                                  *)
(***************************************************************************)
header == FlattenSeq([k \in 1..7 |-> << \hD9, \hEE, \hDD, \hD8 + k >>])
            \o << \h55, \h89, \hE5 >>
footer == << \h5D, \hC3 >>
headerlen == Len(header)
footerlen == Len(footer)
code == header \o FlattenSeq(instrs) \o footer
codelen == Len(code)

\* Instructions with a memory argument end with its address.
Address(bytes) == bytes[3] + 256 * bytes[4] + 65536 * bytes[5] + 16777216 * bytes[6]

(***************************************************************************)
(* The opcodes of opcodes.h, and those that it has commented out but       *)
(* decompile1 knows.  A register is added to the second byte of a          *)
(* twobyte_regarg opcode; random_instruction appends the address of a      *)
(* number, which is in one of the arrays, to a sixbyte opcode.             *)
(***************************************************************************)
twobyte_noarg ==
  { << \hD8, \hE1 >>, << \hD9, \hE0 >>, << \hD9, \hFD >>, << \hD9, \hFA >>,
    << \hD9, \hFF >>, << \hD9, \hFE >> }
commented_noarg ==
  { << \hD9, b >> : b \in {\hE8, \hEE, \hF0, \hF1, \hF9, \hF6, \hF7, \hE1} }
twobyte_regarg ==
  { << \hD8, \hC0 >>, << \hDC, \hC0 >>, << \hDD, \hD0 >>, << \hD9, \hC8 >>,
    << \hD8, \hF0 >>, << \hD8, \hC8 >>, << \hDC, \hC8 >>, << \hD8, \hE0 >>,
    << \hDC, \hE8 >> }
commented_regarg ==
  { << \hDE, \hC0 >>, << \hDB, \hF0 >>, << \hDA, \hC0 >>, << \hDB, \hC0 >>,
    << \hD9, \hC0 >>, << \hDE, \hF8 >>, << \hDE, \hC8 >>, << \hDE, \hE8 >> }
sixbyte == { << \hDC, \h05 >>, << \hDC, \h35 >>, << \hDC, \h0D >>, << \hDC, \h25 >> }
commented_sixbyte == { << \hDD, \h05 >> }

IsInstruction(bytes) ==
  \/ bytes \in twobyte_noarg \cup commented_noarg
  \/ /\ Len(bytes) = 2
     /\ << bytes[1], bytes[2] - (bytes[2] % 8) >> \in twobyte_regarg \cup commented_regarg
  \/ /\ Len(bytes) = 6
     /\ << bytes[1], bytes[2] >> \in sixbyte \cup commented_sixbyte

ASSUME DecompileAssumption ==
  /\ \A bytes \in Instructions : bytes \in Seq(0..255) /\ IsInstruction(bytes)
  /\ \A program \in Programs : program \in Seq(Instructions) /\ program # << >>
  /\ \A l \in Layouts : /\ l.variable \in Nat /\ l.constant \in Nat
                        /\ l.variable # l.constant
  /\ \A bytes \in Instructions, l \in Layouts :
       Len(bytes) = 6 => Address(bytes) >= l.variable \/ Address(bytes) >= l.constant

(***************************************************************************)
(* C statements: an assignment of an expression to a variable.  Variables  *)
(* are the registers 0..7, tmp and cflag; an expression is an operator on  *)
(* variables, input variables and literals.                                *)
(***************************************************************************)
tmp == 8
cflag == 9
F(i) == << "f", i >>
Assign(i, exp) == << [dst |-> i, exp |-> exp] >>

\* decompile1 prints constants with 12 decimals.
Printed(i) == << "decimals", << "c", i >> >>

top_is_top_minus_1 == [k \in 1..7 |-> [dst |-> 8 - k, exp |-> F(7 - k)]]
rotstack(dir) ==
  IF dir = -1 THEN Assign(tmp, F(7)) \o top_is_top_minus_1 \o Assign(0, F(tmp))
              ELSE Assign(tmp, F(0)) \o [k \in 1..7 |-> [dst |-> k - 1, exp |-> F(k)]]
                     \o Assign(7, F(tmp))
\* Fault: the register that was popped keeps no place.
popstack_lost == [k \in 1..7 |-> [dst |-> k - 1, exp |-> F(k - 1)]]

popstack == rotstack(1)

\* The array that an address is in: the one that starts closer below it.
Operand_of_address(addr) ==
  LET variable == addr - layout.variable
      constant == addr - layout.constant
      closer == variable >= 0 /\ (constant < 0 \/ variable < constant)
  IN  IF closer THEN << "v", variable \div 8 >> ELSE Printed(constant \div 8)

Arithmetic_ops == [fadd |-> "add", fsub |-> "sub", fmul |-> "mul", fdiv |-> "div",
                   faddp |-> "add", fsubp |-> "sub", fmulp |-> "mul", fdivp |-> "div"]
Popping == {"faddp", "fsubp", "fmulp", "fdivp"}
Functions0 == [fabs |-> "abs", fchs |-> "neg", fsqrt |-> "sqrt", f2xm1 |-> "2^x-1",
               fcos |-> "cos", fsin |-> "sin"]

Unknown == << >>

\* Instructions without an operand.
decompile_simple(opcode) ==
  CASE opcode \in DOMAIN Functions0 -> Assign(0, << Functions0[opcode], F(0) >>)
    [] opcode = "fscale"  -> Assign(0, << "scale", F(0), F(1) >>)
    [] opcode = "fld1"    -> top_is_top_minus_1 \o Assign(0, << "1" >>)
    [] opcode = "fldz"    -> top_is_top_minus_1 \o Assign(0, << "0" >>)
    [] opcode = "fyl2x"   -> Assign(1, << "ylog", F(1), F(0) >>) \o popstack
    [] opcode = "fyl2xp1" -> Assign(1, << "ylog1", F(1), F(0) >>) \o popstack
    [] opcode = "fdecstp" -> rotstack(-1)
    [] opcode = "fincstp" -> rotstack(1)
    [] OTHER -> Unknown

\* Instructions on the registers reg1 and reg2, in the order of the listing.
decompile_registers(opcode, reg1, reg2) ==
  CASE opcode = "fst"     -> Assign(reg1, F(0))
    [] opcode = "fcomi"   -> Assign(cflag, << "less", F(reg1), F(reg2) >>)
    [] opcode = "fcmovb"  -> Assign(reg1, << "if", F(cflag), F(reg2), F(reg1) >>)
    [] opcode = "fcmovnb" -> Assign(reg1, << "if", F(cflag), F(reg1), F(reg2) >>)
    [] opcode = "fld"     -> Assign(tmp, F(reg1)) \o top_is_top_minus_1 \o Assign(0, F(tmp))
    [] opcode = "fxch"    -> Assign(tmp, F(0)) \o Assign(0, F(reg2)) \o Assign(reg2, F(tmp))
    [] opcode \in DOMAIN Arithmetic_ops ->
         Assign(reg1, << Arithmetic_ops[opcode], F(reg1), F(reg2) >>)
           \o (IF opcode \in Popping THEN popstack ELSE << >>)
    [] OTHER -> Unknown

\* Instructions on a number in memory.
decompile_memory(opcode, operand) ==
  CASE opcode = "fld" -> top_is_top_minus_1 \o Assign(0, operand)
    [] opcode \in DOMAIN Arithmetic_ops \ Popping ->
         Assign(0, << Arithmetic_ops[opcode], F(0), operand >>)
    [] OTHER -> Unknown

\* The statements for an instruction; Unknown if the program gives up.
decompile1(row, bytes) ==
  LET ops == row.ops
      reg2 == IF Len(ops) > 1 THEN ops[2].reg ELSE -1
  IN  IF decompile_simple(row.name) # Unknown THEN decompile_simple(row.name)
      ELSE IF ops = << >> THEN Unknown
      ELSE IF ops[1].method = "M"
        THEN decompile_memory(row.name, Operand_of_address(Address(bytes)))
      ELSE IF ops[1].method = "RF"
        THEN decompile_registers(row.name, ops[1].reg, reg2)
      ELSE Unknown

---------------------------------------------------------------------------------
(***************************************************************************)
(* The C program: all its variables are 0 at first.                        *)
(***************************************************************************)
Leaf(exp) == exp[1] \in {"v", "c", "decimals", "0", "1"}
Evaluate(exp, g) ==
  LET Value(e) == IF e[1] = "f" THEN g[e[2]] ELSE e
  IN  IF Leaf(exp) \/ exp[1] = "f" THEN Value(exp)
      ELSE [k \in DOMAIN exp |-> IF k = 1 THEN exp[1] ELSE Value(exp[k])]

Cleared == [i \in 0..cflag |-> << "0" >>]
RunStatement(g, s) == [g EXCEPT ![s.dst] = Evaluate(s.exp, g)]

\* after[k] are the variables after k statements.
RunC(statements) ==
  LET after[k \in 0..Len(statements)] ==
        IF k = 0 THEN Cleared ELSE RunStatement(after[k - 1], statements[k])
  IN  after[Len(statements)]

(***************************************************************************)
(* The FPU and the flags (external): physical registers, some of them      *)
(* empty, the top of the stack and CF.  An instruction that needs an empty *)
(* register, or pushes onto a full one, raises SIGFPE (the control word    *)
(* leaves the invalid operation unmasked).  Values do not trap.            *)
(***************************************************************************)
Empty == << "empty" >>
Unset == << "unset" >>
FINIT == [top |-> 0, phys |-> [i \in 0..7 |-> Empty], cf |-> Unset, sigfpe |-> FALSE]

ST(m, i) == m.phys[(m.top + i) % 8]
Store(m, i, value) == [m EXCEPT !.phys[(m.top + i) % 8] = value]
Trap(m) == [m EXCEPT !.sigfpe = TRUE]
Turn(m, k) == [m EXCEPT !.top = (@ + k) % 8]
Push(m, value) == IF ST(m, 7) # Empty THEN Trap(m) ELSE Store(Turn(m, 7), 0, value)
Pop(m) == Turn(Store(m, 0, Empty), 1)
Needs(m, regs, result) == IF \E i \in regs : ST(m, i) = Empty THEN Trap(m) ELSE result

\* ST(i) becomes op of itself and of another register.
Combine(m, op, i, j) == Needs(m, {i, j}, Store(m, i, << op, ST(m, i), ST(m, j) >>))
Apply(m, op) == Needs(m, {0}, Store(m, 0, << op, ST(m, 0) >>))
ThenPop(m) == IF m.sigfpe THEN m ELSE Pop(m)
CombineNumber(m, op, value) == Needs(m, {0}, Store(m, 0, << op, ST(m, 0), value >>))
CopyTop(m, n) == Needs(m, {0}, Store(m, n, ST(m, 0)))
PushCopy(m, n) == Needs(m, {n}, Push(m, ST(m, n)))
Exchange(m, n) == Needs(m, {0, n}, Store(Store(m, 0, ST(m, n)), n, ST(m, 0)))
SetFlag(m, n) == Needs(m, {0, n}, [m EXCEPT !.cf = << "less", ST(m, 0), ST(m, n) >>])
\* The top of the stack becomes ST(i) if the flag is set, otherwise ST(j).
Choose(m, i, j) == Needs(m, {i, j}, Store(m, 0, << "if", m.cf, ST(m, i), ST(m, j) >>))

\* The number at an address, with the arrays where l has them: that of the program,
\* or that of the C source, which has the constants as they were printed.
NumberAt(l, addr, printed) ==
  LET base(a) == IF a = "v" THEN l.variable ELSE l.constant
      a == IF l.variable < l.constant
             THEN IF addr < l.constant THEN "v" ELSE "c"
             ELSE IF addr < l.variable THEN "c" ELSE "v"
      i == (addr - base(a)) \div 8
  IN  IF a = "c" /\ printed THEN Printed(i) ELSE << a, i >>

ExecuteNoArg(m, byte) ==
  CASE byte = \hE0 -> Apply(m, "neg")
    [] byte = \hE1 -> Apply(m, "abs")
    [] byte = \hFA -> Apply(m, "sqrt")
    [] byte = \hFE -> Apply(m, "sin")
    [] byte = \hFF -> Apply(m, "cos")
    [] byte = \hF0 -> Apply(m, "2^x-1")
    [] byte = \hFD -> Combine(m, "scale", 0, 1)
    [] byte = \hE8 -> Push(m, << "1" >>)
    [] byte = \hEE -> Push(m, << "0" >>)
    [] byte = \hF1 -> ThenPop(Combine(m, "ylog", 1, 0))
    [] byte = \hF9 -> ThenPop(Combine(m, "ylog1", 1, 0))
    [] byte = \hF6 -> Turn(m, 7)
    [] byte = \hF7 -> Turn(m, 1)

\* The register is in the low bits of the second byte.
ExecuteRegister(m, b1, b2) ==
  LET n == b2 % 8
      op == << b1, b2 - n >>
  IN  CASE op = << \hD8, \hC0 >> -> Combine(m, "add", 0, n)
        [] op = << \hD8, \hC8 >> -> Combine(m, "mul", 0, n)
        [] op = << \hD8, \hE0 >> -> Combine(m, "sub", 0, n)
        [] op = << \hD8, \hF0 >> -> Combine(m, "div", 0, n)
        [] op = << \hDC, \hC0 >> -> Combine(m, "add", n, 0)
        [] op = << \hDC, \hC8 >> -> Combine(m, "mul", n, 0)
        [] op = << \hDC, \hE8 >> -> Combine(m, "sub", n, 0)
        [] op = << \hDE, \hC0 >> -> ThenPop(Combine(m, "add", n, 0))
        [] op = << \hDE, \hC8 >> -> ThenPop(Combine(m, "mul", n, 0))
        [] op = << \hDE, \hE8 >> -> ThenPop(Combine(m, "sub", n, 0))
        [] op = << \hDE, \hF8 >> -> ThenPop(Combine(m, "div", n, 0))
        [] op = << \hDD, \hD0 >> -> CopyTop(m, n)
        [] op = << \hDD, \hD8 >> -> ThenPop(CopyTop(m, n))
        [] op = << \hD9, \hC0 >> -> PushCopy(m, n)
        [] op = << \hD9, \hC8 >> -> Exchange(m, n)
        [] op = << \hDB, \hF0 >> -> SetFlag(m, n)
        [] op = << \hDA, \hC0 >> -> Choose(m, n, 0)
        [] op = << \hDB, \hC0 >> -> Choose(m, 0, n)

ExecuteMemory(m, b1, b2, value) ==
  LET op == CASE b2 = \h05 -> "add" [] b2 = \h0D -> "mul"
              [] b2 = \h25 -> "sub" [] b2 = \h35 -> "div"
  IN  IF b1 = \hDD THEN Push(m, value) ELSE CombineNumber(m, op, value)

Execute1(l, m, bytes, printed) ==
  IF m.sigfpe \/ bytes[1] \in {\h55, \h89, \h5D, \hC3} THEN m
  ELSE IF Len(bytes) = 6
    THEN ExecuteMemory(m, bytes[1], bytes[2], NumberAt(l, Address(bytes), printed))
  ELSE IF bytes[1] = \hD9 /\ bytes[2] >= \hE0 THEN ExecuteNoArg(m, bytes[2])
  ELSE ExecuteRegister(m, bytes[1], bytes[2])

\* The instructions of the header that matter to the FPU.
HeaderInstructions == [k \in 1..14 |-> SubSeq(header, 2 * k - 1, 2 * k)]
RunMachine(l, program, printed) ==
  LET all == HeaderInstructions \o program
      after[k \in 0..Len(all)] ==
        IF k = 0 THEN FINIT ELSE Execute1(l, after[k - 1], all[k], printed)
  IN  after[Len(all)]

---------------------------------------------------------------------------------
Init ==
  /\ instrs \in Programs
  /\ layout \in Layouts
  /\ phase = "disasm"
  /\ pos = headerlen /\ visited = << >>
  /\ emitted = << >>
  /\ machine = FINIT
  /\ f = Cleared

Found == x86_disasm(code, codelen, pos)

\* disasm prints up to the end of the code, the footer included.
Disasm ==
  /\ phase = "disasm" /\ pos < codelen
  /\ IF Found.size > 0
       THEN /\ visited' = Append(visited, pos)
            /\ pos' = pos + Found.size
            /\ UNCHANGED phase
       ELSE phase' = "exited" /\ UNCHANGED << pos, visited >>
  /\ UNCHANGED << instrs, layout, emitted, machine, f >>

DisasmEnds ==
  /\ phase = "disasm" /\ pos >= codelen
  /\ phase' = "decompile"
  /\ pos' = headerlen /\ visited' = << >>
  /\ UNCHANGED << instrs, layout, emitted, machine, f >>

\* Fault: the statements of the footer, too, are emitted.
MoreToDecompilePast == pos < codelen

MoreToDecompile == pos < codelen - footerlen

\* decompile emits the statements of one instruction, or gives up.
Decompile ==
  /\ phase = "decompile" /\ MoreToDecompile
  /\ LET statements == decompile1(Found.row, SubSeq(code, pos + 1, pos + Found.size))
     IN  IF Found.size > 0 /\ statements # Unknown
           THEN /\ visited' = Append(visited, pos)
                /\ pos' = pos + Found.size
                /\ emitted' = emitted \o statements
                /\ UNCHANGED phase
           ELSE phase' = "exited" /\ UNCHANGED << pos, visited, emitted >>
  /\ UNCHANGED << instrs, layout, machine, f >>

DecompileEnds ==
  /\ phase = "decompile" /\ ~MoreToDecompile
  /\ phase' = "execute"
  /\ UNCHANGED << instrs, layout, pos, visited, emitted, machine, f >>

\* compute_error calls the machine code after FINIT.
Execute ==
  /\ phase = "execute"
  /\ machine' = RunMachine(layout, instrs, FALSE)
  /\ phase' = "run"
  /\ UNCHANGED << instrs, layout, pos, visited, emitted, f >>

\* The program decompiled.c calls the C function.
Run ==
  /\ phase = "run"
  /\ f' = RunC(emitted)
  /\ phase' = "done"
  /\ UNCHANGED << instrs, layout, pos, visited, emitted, machine >>

Next ==
  \/ Disasm
  \/ DisasmEnds
  \/ Decompile
  \/ DecompileEnds
  \/ Execute
  \/ Run

Spec == Init /\ [][Next]_vars

---------------------------------------------------------------------------------
(***************************************************************************)
(* Properties                                                              *)
(***************************************************************************)
\* Where the instructions of the program and of its footer start.
Boundaries ==
  LET start(k) == headerlen + Len(FlattenSeq(SubSeq(instrs, 1, k - 1)))
      ends == codelen - footerlen
  IN  [k \in 1..(Len(instrs) + 2) |-> IF k <= Len(instrs) THEN start(k)
                                      ELSE ends + k - Len(instrs) - 1]

\* Aligned: the decoder of libdisasm, which knows nothing of the instructions
\* that were put together, finds exactly these, one after the other, and never
\* meets an "Invalid instruction" (disasm.c:43, decompile.c:459).
Aligned ==
  /\ phase # "exited"
  /\ visited = SubSeq(Boundaries, 1, Len(visited))
  /\ phase = "execute" => Len(visited) = Len(instrs)

\* FLD ST(n) and a conditional move before any FCOMI are decompiled wrongly:
\* the first loads f[0], and the flag is unset in the machine but clear in C.
LoadsRegister == \E k \in DOMAIN instrs : instrs[k][1] = \hD9 /\ instrs[k][2] \in \hC1..\hC7
Compares(k) == instrs[k][1] = \hDB /\ instrs[k][2] >= \hF0
Moves(k) == instrs[k][1] \in {\hDA, \hDB} /\ instrs[k][2] < \hE0
MovesUnset == \E k \in DOMAIN instrs : Moves(k) /\ ~\E j \in 1..(k - 1) : Compares(j)

\* Agree: whatever a program does with the stack, the C program leaves in f[i]
\* what the machine has in ST(i), in every register that is not empty, but for
\* the digits of constants: it is what the machine code would compute from the
\* constants as they are printed.  The stack is turned by popstack ("IS THIS
\* RIGHT?", decompile.c:64) as by the processor: "verify that decompiled code
\* works exactly the same as the machine code" (lgp.c:1372).  This includes the
\* conditional moves with arithmetic between them and FCOMI, of which decompile1
\* says "this is broken, in that in machine code the CF bit of the EFLAGS register
\* gets reset by any intervening arithmetic ops" (decompile.c:247-248): arithmetic
\* of the FPU leaves CF alone, so that the C program is right and the comment is not.
Agree ==
  (phase = "done" /\ ~machine.sigfpe /\ ~LoadsRegister /\ ~MovesUnset) =>
    \A i \in 0..7 : ST(machine, i) # Empty => f[i] = ST(RunMachine(layout, instrs, TRUE), i)
=============================================================================
