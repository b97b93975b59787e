---------------------------------- MODULE Ia32 ----------------------------------
(***************************************************************************)
(* The instruction decoder of libdisasm (src/libdisasm-0.23/libdisasm),    *)
(* with which lgp prints and decompiles the programs it evolves: the       *)
(* opcode tables, the byte-by-byte table lookup, the sizes of operands and *)
(* the decoding of one instruction.  Mnemonics are kept where a user of    *)
(* the decoder looks at them: jumps, calls, returns and the x87 tables.    *)
(* Names of tables, addressing methods and operand types are those of the  *)
(* code; opcodes are written in hexadecimal, as in its tables.             *)
(***************************************************************************)
EXTENDS Integers, Sequences, Ia32Tables

(***************************************************************************)
(* Descriptors: the kind of a table, how a byte becomes an index (shift,   *)
(* then mask) and the indices the table has.                               *)
(***************************************************************************)
Desc(type, shift, mask, min, max) ==
  [type |-> type, shift |-> shift, mask |-> mask, min |-> min, max |-> max]

ia32_tables(t) ==
  CASE t \in {"Main", "0F"}           -> Desc("opcode", 0, \hFF, 0, \hFF)
    [] t \in {"66", "F2"}             -> Desc("prefix", 0, \hFF, \h0F, \h0F)
    [] t = "F3"                       -> Desc("prefix", 0, \hFF, \h0F, \h90)
    [] t \in {"660F", "F20F", "F30F"} -> Desc("prefix", 0, \hFF, \h10, \hFF)
    [] t \in {"C6", "C7"}             -> Desc("extension", 3, 7, 0, 0)
    [] t = "FE"                       -> Desc("extension", 3, 7, 0, 1)
    [] t = "FF"                       -> Desc("extension", 3, 7, 0, 6)
    [] t = "0FBA"                     -> Desc("extension", 3, 7, 4, 7)
    [] t = "0F18"                     -> Desc("extension", 3, \h1F, 0, \h13)
    [] t = "0F0111"                   -> Desc("ext_ext", 0, 1, 0, 1)
    [] t \in {"0F12", "0F16"}         -> Desc("extension", 6, 3, 0, 3)
    [] t = "0F73"                     -> Desc("extension", 0, 0, 0, 0)
    [] t \in {"0F01", "0F71", "0F72", "0FAE", "660F71", "660F72", "660F73"}
                                      -> Desc("extension", 3, \h1F, 0, \h1F)
    [] t \in FpuTables                -> Desc("fpu", 3, 7, 0, \hBF)
    [] t \in FpuExtTables             -> Desc("fpu_ext", 0, \hFF, \hC0, \hFF)
    [] t = "0F0F"                     -> Desc("suffix", 0, \hFF, 0, \hBF)
    [] OTHER                          -> Desc("extension", 3, 7, 0, 7)

(***************************************************************************)
(* A buffer is a sequence of bytes, read from position p with n bytes left *)
(* and with zeros after its last byte.  What x86_disasm decodes is a copy  *)
(* of a fixed size on its stack, with zeros for what is not in the buffer; *)
(* a decoder that reads on reads what lies Beyond the copy.                *)
(***************************************************************************)
CONSTANT Beyond

ASSUME BeyondAssumption == Beyond \in Seq(0..255)

MAX_INSTRUCTION_SIZE == 20

At(b, p) == IF p \in DOMAIN b THEN b[p] ELSE 0
GetByte(b, p, n) == IF n = 0 THEN 0 ELSE At(b, p)

(***************************************************************************)
(* The lookup of an opcode in table t.  pre is the set of prefixes found   *)
(* so far.  A prefix byte with a table of its own first tries that table   *)
(* (an SSE opcode); if this fails it is a plain prefix, and the next byte  *)
(* is looked up in the same table.                                         *)
(***************************************************************************)
Fail == [ok |-> FALSE, size |-> 0, row |-> Invalid, prefixes |-> {}]

UsesModrm(ops, i) == i \in DOMAIN ops /\ ops[i].method \in {"E", "M", "Q", "W", "R"}

\* The opcode byte of a ModR/M table is the ModR/M byte itself.
OpcodeBytes(type, ops) ==
  IF \/ type = "ext_ext"
     \/ /\ type \in {"extension", "fpu", "fpu_ext"}
        /\ UsesModrm(ops, 1) \/ UsesModrm(ops, 2)
    THEN 0 ELSE 1

\* What is found behind byte p, with that byte.
WithByte(type, found) ==
  IF found.ok THEN [found EXCEPT !.size = @ + OpcodeBytes(type, found.row.ops)]
              ELSE Fail

\* Does the lookup go on in the table that the row of byte p names?
GoesOn(row, pre) ==
  /\ row.sub # "none"
  /\ ia32_tables(row.sub).type # "suffix"
  /\ row.kind # "prefix" \/ pre = {}

\* The arguments of a lookup.
Args(p, n, t, pre) == [p |-> p, n |-> n, t |-> t, pre |-> pre]
Lookups == [p : Nat, n : Int, t : Tables, pre : SUBSET PrefixNames]

\* The lookup with the row of byte p in table t, which has descriptor d; lookup
\* is the lookup that it goes on with in the same buffer.
FollowRow(lookup, p, n, t, pre, d, row) ==
  LET prefix == row.kind = "prefix"
      reuse == ia32_tables(row.sub).type \in {"ext_ext", "fpu_ext"}
      sub == IF reuse THEN lookup[Args(p, n, row.sub, pre)]
             ELSE IF n > 1 THEN lookup[Args(p + 1, n - 1, row.sub, pre)]
             ELSE Fail
      again == WithByte(d.type, lookup[Args(p + 1, n - 1, t, pre)])
  IN  IF GoesOn(row, pre) /\ n <= 1 /\ ~reuse THEN Fail
      ELSE IF GoesOn(row, pre) /\ ~(prefix /\ sub.row.kind = "invalid")
        THEN WithByte(d.type, sub)
      ELSE IF prefix
        THEN [again EXCEPT !.prefixes = @ \cup IF again.ok THEN {row.name} ELSE {}]
      ELSE WithByte(d.type, [ok |-> TRUE, size |-> 0, row |-> row, prefixes |-> pre])

\* The lookup with the arguments q.
LookUpByte(lookup, b, q) ==
  LET byte == GetByte(b, q.p, q.n)
      tbl == IF q.t \in FpuTables /\ byte > ia32_tables(q.t).max
               THEN FpuExt(q.t) ELSE q.t
      d == ia32_tables(tbl)
      op == (byte \div 2^d.shift) % (d.mask + 1)
  IN  IF op > d.max \/ op < d.min THEN Fail
      ELSE FollowRow(lookup, q.p, q.n, q.t, q.pre, d, Row(tbl, op))

\* Each call is for another byte, but one that extends the opcode in an ext_ext
\* table; no call without a byte left is followed by another.
MostCalls(left) == IF left > 0 THEN left + 2 ELSE 2

\* lookup[calls] is the lookup with at most so many calls.
ia32_table_lookup(b, pos, left, table, prefixes) ==
  LET lookup[calls \in 0..MostCalls(left)] ==
        [q \in Lookups |-> IF calls = 0 THEN Fail
                           ELSE LookUpByte(lookup[calls - 1], b, q)]
  IN  lookup[MostCalls(left)][Args(pos, left, table, prefixes)]

(***************************************************************************)
(* Operands.  cx holds the sizes of operands and of addresses.             *)
(***************************************************************************)
Context(prefixes) == [op_size   |-> IF "op_size" \in prefixes THEN 2 ELSE 4,
                      addr_size |-> IF "addr_size" \in prefixes THEN 2 ELSE 4]

decode_operand_size(type, cx) ==
  CASE type = "c" -> IF cx.op_size = 4 THEN 2 ELSE 1
    [] type = "a" -> IF cx.op_size = 4 THEN 8 ELSE 4
    [] type = "v" -> IF cx.op_size = 4 THEN 4 ELSE 2
    [] type = "p" -> IF cx.addr_size = 4 THEN 6 ELSE 4
    [] type = "b" -> 1
    [] type = "w" -> 2
    [] type \in {"d", "si", "fs"} -> 4
    [] type = "s" -> 6
    [] type \in {"q", "pi", "fd"} -> 8
    [] type \in {"dq", "ps", "pd", "ss", "sd"} -> 16
    [] type \in {"fe", "fb", "fp"} -> 10
    [] type = "fv" -> IF cx.addr_size = 4 THEN 28 ELSE 14
    [] type = "ft" -> IF cx.addr_size = 4 THEN 108 ELSE 94
    [] type = "fx" -> 512
    [] type = "m" -> cx.addr_size
    [] type = "none" -> 0
    [] OTHER -> cx.op_size

Mod(byte) == byte \div 64
Reg(byte) == (byte \div 8) % 8
Rm(byte) == byte % 8

\* The buffer length is unsigned: only exactly none left is noticed.
sib_decode(b, p, n, mod) == IF n = 0 THEN 0
                            ELSE IF Rm(At(b, p)) = 5 /\ mod = 0 THEN 5
                            ELSE 1

modrm_decode16(mod) == 1 + (IF mod \in {1, 2} THEN mod ELSE 0)

ia32_modrm_decode(b, p, n, cx) ==
  LET mod == Mod(At(b, p))
      rm == Rm(At(b, p))
  IN  IF mod = 3 THEN 1
      ELSE IF cx.addr_size = 2 THEN modrm_decode16(mod)
      ELSE 1 + (IF rm = 4 THEN sib_decode(b, p + 1, n - 1, mod) ELSE 0)
             + (IF mod = 0 /\ rm = 5 THEN 4 ELSE << 0, 1, 4 >>[mod + 1])

\* The number of bytes that operand o takes at p.
decode_operand_value(o, b, p, n, cx) ==
  CASE o.method \in {"E", "M", "Q", "R", "W"} -> ia32_modrm_decode(b, p, n, cx)
    [] o.method = "A" -> IF cx.addr_size = 4 THEN 6 ELSE 4
    [] o.method \in {"I", "J"} -> decode_operand_size(o.type, cx)
    [] o.method = "O" -> cx.addr_size
    [] OTHER -> 0

ia32_decode_operand(ops, i, b, p, n, cx) ==
  IF i \in DOMAIN ops THEN decode_operand_value(ops[i], b, p, n, cx) ELSE 0

\* dest, src and aux are decoded in turn, each after the bytes of the last.
ia32_decode_insn(b, p, n, ops, cx) ==
  LET dest == ia32_decode_operand(ops, 1, b, p, n, cx)
      src  == ia32_decode_operand(ops, 2, b, p + dest, n - dest, cx)
      aux  == ia32_decode_operand(ops, 3, b, p + dest + src, n - dest - src, cx)
  IN  dest + src + aux

(***************************************************************************)
(* One instruction at p, with n bytes left in the buffer: its size, 0 when *)
(* there is none, and the row of the table that describes it.  3DNow!      *)
(* opcodes follow their operands.                                          *)
(***************************************************************************)
NoInsn == [size |-> 0, row |-> Invalid, opcode |-> 0]

\* Does a byte at p stand for a 3DNow! instruction?
handle_insn_suffix(b, p, n) ==
  LET suffix(found) == found.ok /\ found.row.kind # "invalid"
  IN  suffix(ia32_table_lookup(b, p, n, "0F0F", {}))

\* The bytes of the operands of the row that was found at p.
OperandBytes(b, p, n, found) ==
  ia32_decode_insn(b, p + found.size, n - found.size, found.row.ops,
                   Context(found.prefixes))

\* The instruction that was found with this number of operand bytes.
WithOperands(b, p, n, found, operands) ==
  LET opcode == found.size
      size == opcode + operands
      suffixed == found.row.sub = "0F0F"
  IN  IF \/ ~found.ok \/ opcode > n \/ found.row.kind = "invalid"
         \/ suffixed /\ ~handle_insn_suffix(b, p + size, n - size)
        THEN NoInsn
        ELSE [size |-> size + (IF suffixed THEN 1 ELSE 0), row |-> found.row,
              opcode |-> opcode]

ia32_disasm_addr(b, p, n) ==
  LET insn(found) == WithOperands(b, p, n, found, OperandBytes(b, p, n, found))
  IN  insn(ia32_table_lookup(b, p, n, "Main", {}))

\* The copy of what the first buf_len bytes of b have from offset on, and what
\* lies beyond it.  Offsets start at 0.
Copied(b, buf_len, offset) ==
  [k \in 1..(MAX_INSTRUCTION_SIZE + Len(Beyond)) |->
     IF k > MAX_INSTRUCTION_SIZE THEN Beyond[k - MAX_INSTRUCTION_SIZE]
     ELSE IF offset + k <= buf_len THEN At(b, offset + k) ELSE 0]

\* Fault: an instruction may run past the end of the buffer.
x86_disasm_past(b, buf_len, offset) ==
  IF offset >= buf_len THEN NoInsn
  ELSE ia32_disasm_addr(Copied(b, buf_len, offset), 1, buf_len - offset)

\* An instruction has bytes, and ends inside the buffer.
Inside(insn, n) == IF insn.size \in 1..n THEN insn ELSE NoInsn

\* The copy is decoded with the length of all that is left in the buffer.
x86_disasm(b, buf_len, offset) ==
  Inside(ia32_disasm_addr(Copied(b, buf_len, offset), 1, buf_len - offset),
         buf_len - offset)

\* x86_disasm copies the bytes of an instruction to insn->bytes, which holds no
\* more than the copy does.
TooLong(insn) == insn.size > MAX_INSTRUCTION_SIZE

=================================================================================
