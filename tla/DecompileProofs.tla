---------------------------- MODULE DecompileProofs -----------------------------
(***************************************************************************)
(* Theorems about Decompile, for programs of any length over any           *)
(* instructions of opcodes.h and any layouts of the arrays: the walk over  *)
(* the bytes of a program stays on the boundaries of its instructions, and *)
(* the C program it prints computes what the machine code computes.        *)
(*                                                                         *)
(* The decoder is libdisasm's, over its tables: the lookups of each first  *)
(* byte of opcodes.h are worked out from the rows, and every instruction   *)
(* is found again at its boundary with the class, the operation and the    *)
(* operand it was written with. Then, class by class, the statements that  *)
(* are printed for an instruction do to the array f of the C program what  *)
(* the instruction does to the stack of the floating-point unit. Last, the *)
(* machine that reads its constants as they are printed has the flags and  *)
(* the stack of the one that reads them exactly, number for number.        *)
(***************************************************************************)
EXTENDS Decompile, SequenceTheorems, WellFoundedInduction, TLAPS

---------------------------------------------------------------------------------
(***************************************************************************)
(* The lookup in the opcode tables: a recursion over the calls that are    *)
(* left.                                                                   *)
(***************************************************************************)
\* A set of numbers has a least one.
LEMMA LeastNumber ==
  ASSUME NEW Numbers, Numbers \subseteq Nat, Numbers # {}
  PROVE  \E x \in Numbers : \A y \in Numbers : x <= y
<1>1. PICK x \in Numbers : \A y \in Numbers : ~(<< y, x >> \in OpToRel(<, Nat))
  BY WFMin, NatLessThanWellFounded
<1>2. \A y \in Numbers : ~(y < x)
  BY <1>1 DEF OpToRel
<1> QED
  BY <1>2

\* The lookups with at most N calls, each from those with one call less.
LooksUp(g, b, N) ==
  g = [calls \in 0..N |->
         [q \in Lookups |-> IF calls = 0 THEN Fail ELSE LookUpByte(g[calls - 1], b, q)]]

\* The lookups exist, with any number of calls left.
LEMMA LookupsExist ==
  ASSUME NEW b, NEW N \in Nat
  PROVE  \E g : LooksUp(g, b, N)
<1> DEFINE none == [q \in Lookups |-> Fail]
           more(x) == [q \in Lookups |-> LookUpByte(x, b, q)]
           Missing == {n \in 0..N : ~\E g : LooksUp(g, b, n)}
<1>1. LooksUp([calls \in 0..0 |-> none], b, 0)
  <2> DEFINE g == [calls \in 0..0 |-> none]
  <2>1. g = [calls \in 0..0 |->
              [q \in Lookups |-> IF calls = 0 THEN Fail ELSE LookUpByte(g[calls - 1], b, q)]]
    <3>1. ASSUME NEW calls \in 0..0
          PROVE  none = [q \in Lookups |-> IF calls = 0 THEN Fail
                                            ELSE LookUpByte(g[calls - 1], b, q)]
      <4>1. calls = 0
        OBVIOUS
      <4> QED
        BY <4>1
    <3> QED
      BY <3>1
  <2> QED
    BY <2>1 DEF LooksUp
<1>2. ASSUME NEW n \in 1..N, NEW g, LooksUp(g, b, n - 1)
      PROVE  \E h : LooksUp(h, b, n)
  <2> DEFINE h == [calls \in 0..n |-> IF calls = n THEN more(g[n - 1]) ELSE g[calls]]
  <2>1. \A calls \in 0..(n - 1) : h[calls] = g[calls]
    OBVIOUS
  <2>2. h[n] = more(g[n - 1])
    OBVIOUS
  <2>3. ASSUME NEW calls \in 0..(n - 1)
        PROVE  g[calls] = [q \in Lookups |-> IF calls = 0 THEN Fail
                                            ELSE LookUpByte(g[calls - 1], b, q)]
    BY <1>2 DEF LooksUp
  <2>4. h = [calls \in 0..n |-> h[calls]]
    OBVIOUS
  <2> HIDE DEF h
  <2>5. ASSUME NEW calls \in 0..n
        PROVE  h[calls] = [q \in Lookups |-> IF calls = 0 THEN Fail
                                            ELSE LookUpByte(h[calls - 1], b, q)]
    <3>1. CASE calls = n
      <4>1. h[calls - 1] = g[n - 1] /\ calls # 0
        BY <2>1, <3>1
      <4> QED
        BY <2>2, <3>1, <4>1
    <3>2. CASE calls # n /\ calls = 0
      <4>1. h[calls] = g[calls]
        BY <2>1, <3>2
      <4> QED
        BY <2>3, <3>2, <4>1
    <3>3. CASE calls # n /\ calls # 0
      <4>1. h[calls] = g[calls] /\ h[calls - 1] = g[calls - 1] /\ calls \in 0..(n - 1)
        BY <2>1, <3>3
      <4> QED
        BY <2>3, <3>3, <4>1
    <3> QED
      BY <3>1, <3>2, <3>3
  <2>6. LooksUp(h, b, n)
    BY <2>4, <2>5 DEF LooksUp
  <2> QED
    BY <2>6
<1>3. Missing = {}
  <2> SUFFICES ASSUME Missing # {} PROVE FALSE
    OBVIOUS
  <2>1. PICK n \in Missing : \A m \in Missing : n <= m
    <3>1. Missing \subseteq Nat
      OBVIOUS
    <3> HIDE DEF Missing
    <3> QED
      BY <3>1, LeastNumber
  <2>2. n \in 1..N
    BY <1>1
  <2>3. n - 1 \in 0..N /\ n - 1 \notin Missing
    BY <2>1, <2>2
  <2>4. \E g : LooksUp(g, b, n - 1)
    BY <2>3
  <2> QED
    BY <1>2, <2>2, <2>4
<1> QED
  BY <1>3

\* A lookup that has calls left is a lookup of one byte, with a call less for the rest.
LEMMA LookupStep ==
  ASSUME NEW b, NEW N \in Nat, NEW g, LooksUp(g, b, N), NEW k \in 1..N, NEW q \in Lookups
  PROVE  g[k][q] = LookUpByte(g[k - 1], b, q)
<1>1. g[k] = [r \in Lookups |-> IF k = 0 THEN Fail ELSE LookUpByte(g[k - 1], b, r)]
  BY DEF LooksUp
<1> QED
  BY <1>1

\* ia32_table_lookup looks its byte up with all the calls it can need.
LEMMA LookupIs ==
  ASSUME NEW b, NEW p, NEW left \in Int, NEW table, NEW prefixes
  PROVE  \E g : /\ LooksUp(g, b, MostCalls(left))
                /\ ia32_table_lookup(b, p, left, table, prefixes)
                     = g[MostCalls(left)][Args(p, left, table, prefixes)]
<1> DEFINE N == MostCalls(left)
           IsLookup(g) ==
             g = [calls \in 0..N |->
                    [q \in Lookups |-> IF calls = 0 THEN Fail
                                       ELSE LookUpByte(g[calls - 1], b, q)]]
<1>1. N \in Nat
  BY DEF MostCalls
<1>2. \E g : IsLookup(g)
  <2>1. PICK g : LooksUp(g, b, N)
    BY <1>1, LookupsExist
  <2>2. IsLookup(g)
    BY <2>1 DEF LooksUp
  <2> QED
    BY <2>2
<1>3. IsLookup(CHOOSE g : IsLookup(g))
  BY <1>2
<1>4. ia32_table_lookup(b, p, left, table, prefixes)
        = (CHOOSE g : IsLookup(g))[N][Args(p, left, table, prefixes)]
  BY DEF ia32_table_lookup
<1> QED
  BY <1>3, <1>4 DEF LooksUp

---------------------------------------------------------------------------------
(***************************************************************************)
(* The decoding of one x87 instruction.                                    *)
(***************************************************************************)
\* The tables behind the opcodes D8 to DF.
Escape == << "D8", "D9", "DA", "DB", "DC", "DD", "DE", "DF" >>

\* The opcodes D8 to DF of the main table each lead to a table of their own.
LEMMA EscapeRow ==
  ASSUME NEW k \in 1..8
  PROVE  Row("Main", \hD7 + k) = Group(Escape[k])
<1> USE DEF Row, FpuTables, FpuExtTables, MainHigh, Escape
<1>1. Row("Main", \hD8) = Group("D8") /\ Row("Main", \hD9) = Group("D9")
  OBVIOUS
<1>2. Row("Main", \hDA) = Group("DA") /\ Row("Main", \hDB) = Group("DB")
  OBVIOUS
<1>3. Row("Main", \hDC) = Group("DC") /\ Row("Main", \hDD) = Group("DD")
  OBVIOUS
<1>4. Row("Main", \hDE) = Group("DE") /\ Row("Main", \hDF) = Group("DF")
  OBVIOUS
<1> HIDE DEF Row, FpuTables, FpuExtTables, MainHigh
<1>5. k = 1 \/ k = 2 \/ k = 3 \/ k = 4 \/ k = 5 \/ k = 6 \/ k = 7 \/ k = 8
  OBVIOUS
<1> QED
  BY <1>1, <1>2, <1>3, <1>4, <1>5

\* That table is one of the x87 tables, and so is the one behind it.
LEMMA EscapeTables ==
  ASSUME NEW k \in 1..8
  PROVE  /\ Escape[k] \in FpuTables /\ Escape[k] # "none" /\ Escape[k] \in Tables
         /\ FpuExt(Escape[k]) \in FpuExtTables
<1>1. k = 1 \/ k = 2 \/ k = 3 \/ k = 4 \/ k = 5 \/ k = 6 \/ k = 7 \/ k = 8
  OBVIOUS
<1> QED
  BY <1>1 DEF Escape, FpuTables, FpuExtTables, FpuExt, Tables

\* What part of a byte each of these tables is indexed with (ia32_opcode_tables.c).
LEMMA Descriptors ==
  /\ ia32_tables("Main") = Desc("opcode", 0, \hFF, 0, \hFF)
  /\ \A t \in FpuTables : ia32_tables(t) = Desc("fpu", 3, 7, 0, \hBF)
  /\ \A t \in FpuExtTables : ia32_tables(t) = Desc("fpu_ext", 0, \hFF, \hC0, \hFF)
  /\ \A t \in FpuTables : t \notin FpuExtTables
BY DEF ia32_tables, FpuTables, FpuExtTables

\* A byte below 256 is its own index in the tables of 256 rows.
LEMMA ByteIndex ==
  ASSUME NEW byte \in 0..255
  PROVE  /\ (byte \div 2^0) % (\hFF + 1) = byte
         /\ (byte \div 2^3) % (7 + 1) = (byte \div 8) % 8
OBVIOUS

\* What is found in a row without prefixes.
FoundRow(row, size) == [ok |-> TRUE, size |-> size, row |-> row, prefixes |-> {}]

\* The bytes of an opcode extension are added to the size of what was found.
LEMMA WithByteIs ==
  ASSUME NEW type, NEW row, NEW size \in Int, NEW extra \in Int,
         OpcodeBytes(type, row.ops) = extra
  PROVE  WithByte(type, FoundRow(row, size)) = FoundRow(row, size + extra)
<1> DEFINE found == FoundRow(row, size)
<1>1. found.ok /\ found.row = row
  BY DEF FoundRow
<1>2. [found EXCEPT !.size = @ + extra] = FoundRow(row, size + extra)
  <2> DEFINE Updates(ok, prefixes) ==
        [[ok |-> ok, size |-> size, row |-> row, prefixes |-> prefixes] EXCEPT
           !.size = @ + extra]
          = [ok |-> ok, size |-> size + extra, row |-> row, prefixes |-> prefixes]
  <2>1. \A ok, prefixes : Updates(ok, prefixes)
    OBVIOUS
  <2> HIDE DEF Updates
  <2>2. Updates(TRUE, {})
    BY <2>1
  <2> QED
    BY <2>2 DEF Updates, FoundRow
<1> HIDE DEF found
<1> QED
  BY <1>1, <1>2 DEF WithByte, found

\* A lookup without prefixes is one of those the recursion is over.
LEMMA LookupArgs ==
  ASSUME NEW p \in Nat, NEW n \in Int, NEW t \in Tables
  PROVE  Args(p, n, t, {}) \in Lookups
BY DEF Args, Lookups

\* The byte at p is index op of table tbl, which is t or extends it.
Indexes(b, p, n, t, tbl, d, op) ==
  /\ tbl = IF t \in FpuTables /\ GetByte(b, p, n) > ia32_tables(t).max
             THEN FpuExt(t) ELSE t
  /\ d = ia32_tables(tbl)
  /\ op = (GetByte(b, p, n) \div 2^d.shift) % (d.mask + 1)
  /\ ~(op > d.max) /\ ~(op < d.min)

\* A byte within its table leads to the row at its index.
LEMMA LookUpByteIs ==
  ASSUME NEW g, NEW b, NEW p, NEW n, NEW t, NEW tbl, NEW d, NEW op,
         Indexes(b, p, n, t, tbl, d, op)
  PROVE  LookUpByte(g, b, Args(p, n, t, {})) = FollowRow(g, p, n, t, {}, d, Row(tbl, op))
<1> DEFINE q == Args(p, n, t, {})
<1>1. q.p = p /\ q.n = n /\ q.t = t /\ q.pre = {}
  BY DEF Args
<1> HIDE DEF q
<1> QED
  BY <1>1 DEF LookUpByte, Indexes, q

\* The first byte of an x87 instruction leads to the table of its own.
LEMMA LookupEscape ==
  ASSUME NEW b, NEW p \in Nat, NEW n \in Nat, n >= 2,
         NEW k \in 1..8, At(b, p) = \hD7 + k
  PROVE  \E g : ia32_table_lookup(b, p, n, "Main", {})
                  = WithByte("opcode", LookUpByte(g, b, Args(p + 1, n - 1, Escape[k], {})))
<1> DEFINE N == n + 2
           q == Args(p, n, "Main", {})
           r == Args(p + 1, n - 1, Escape[k], {})
           row == Group(Escape[k])
<1>1. MostCalls(n) = N
  BY DEF MostCalls
<1>2. PICK g : /\ LooksUp(g, b, N)
               /\ ia32_table_lookup(b, p, n, "Main", {}) = g[N][q]
  BY <1>1, LookupIs
<1>3. q \in Lookups /\ r \in Lookups
  <2>1. "Main" \in Tables /\ Escape[k] \in Tables /\ n \in Int /\ n - 1 \in Int
    BY EscapeTables DEF Tables
  <2>2. p \in Nat /\ p + 1 \in Nat
    OBVIOUS
  <2> QED
    BY <2>1, <2>2, LookupArgs
<1>4. g[N][q] = LookUpByte(g[N - 1], b, q)
  <2>1. N \in Nat /\ N \in 1..N
    OBVIOUS
  <2> HIDE DEF N, q, r
  <2> QED
    BY <1>2, <1>3, <2>1, LookupStep
<1>5. g[N - 1][r] = LookUpByte(g[N - 2], b, r)
  <2> DEFINE m == N - 1
  <2>1. N \in Nat /\ m \in 1..N /\ m - 1 = N - 2
    OBVIOUS
  <2> HIDE DEF N, q, r, m
  <2>2. g[m][r] = LookUpByte(g[m - 1], b, r)
    BY <1>2, <1>3, <2>1, LookupStep
  <2> QED
    BY <2>1, <2>2 DEF m
<1>6. GetByte(b, p, n) = \hD7 + k /\ \hD7 + k \in 0..255
  BY DEF GetByte
<1>7. "Main" \notin FpuTables
  BY DEF FpuTables
<1> DEFINE d == Desc("opcode", 0, \hFF, 0, \hFF)
<1>8. LookUpByte(g[N - 1], b, q) = FollowRow(g[N - 1], p, n, "Main", {}, d, row)
  <2>1. d.shift = 0 /\ d.mask = \hFF /\ d.min = 0 /\ d.max = \hFF
    BY DEF Desc
  <2>2. ((\hD7 + k) \div 2^0) % (\hFF + 1) = \hD7 + k
    BY <1>6, ByteIndex
  <2>3. ia32_tables("Main") = d
    BY Descriptors
  <2>4. Row("Main", \hD7 + k) = row
    BY EscapeRow
  <2>5. \hD7 + k \in Int /\ ~(\hD7 + k > d.max) /\ ~(\hD7 + k < d.min)
    BY <2>1
  <2> HIDE DEF d, row
  <2>6. Indexes(b, p, n, "Main", "Main", d, \hD7 + k)
    BY <1>6, <1>7, <2>1, <2>2, <2>3, <2>5 DEF Indexes
  <2> QED
    BY <2>4, <2>6, LookUpByteIs
<1>9. FollowRow(g[N - 1], p, n, "Main", {}, d, row) = WithByte("opcode", g[N - 1][r])
  <2>1. row.sub = Escape[k] /\ row.kind = "invalid" /\ d.type = "opcode"
    BY DEF Group, Entry, Desc
  <2>2. ia32_tables(row.sub).type = "fpu"
    BY <2>1, Descriptors, EscapeTables DEF Desc
  <2>3. GoesOn(row, {})
    BY <2>1, <2>2, EscapeTables DEF GoesOn
  <2> HIDE DEF d, row
  <2> QED
    BY <2>1, <2>2, <2>3 DEF FollowRow
<1> QED
  BY <1>2, <1>4, <1>5, <1>8, <1>9

\* Instructions that need no ModR/M byte of their own to be found.
OnRegisters(row) ==
  /\ row.kind = "insn" /\ row.sub = "none"
  /\ \A i \in DOMAIN row.ops : row.ops[i].method \in {"RF", "RR"}
OnMemoryOperand(row) ==
  /\ row.kind = "insn" /\ row.sub = "none"
  /\ \E t : row.ops = << M(t) >>

\* From C0 on, the second byte is the index of the instruction.
AtRegister(b, p, n, k, row) ==
  /\ p \in Nat /\ n \in Nat \ {0} /\ k \in 1..8 /\ At(b, p) \in \hC0..255
  /\ row = Row(FpuExt(Escape[k]), At(b, p)) /\ OnRegisters(row)

LEMMA LookupRegister ==
  ASSUME NEW g, NEW b, NEW p, NEW n, NEW k, NEW row, AtRegister(b, p, n, k, row)
  PROVE  LookUpByte(g, b, Args(p, n, Escape[k], {})) = FoundRow(row, 1)
<1> DEFINE q == Args(p, n, Escape[k], {})
           d == Desc("fpu_ext", 0, \hFF, \hC0, \hFF)
           end == FoundRow(row, 0)
           byte == At(b, p)
<1> SUFFICES ASSUME p \in Nat, n \in Nat \ {0}, k \in 1..8, byte \in \hC0..255,
                    row = Row(FpuExt(Escape[k]), byte), OnRegisters(row)
             PROVE  LookUpByte(g, b, q) = FoundRow(row, 1)
  BY Zenon DEF AtRegister
<1>1. GetByte(b, p, n) = byte
  BY DEF GetByte
<1>2. /\ Escape[k] \in FpuTables
      /\ ia32_tables(Escape[k]).max = \hBF /\ ia32_tables(FpuExt(Escape[k])) = d
  BY EscapeTables, Descriptors DEF Desc
<1>3. LookUpByte(g, b, q) = FollowRow(g, p, n, Escape[k], {}, d, row)
  <2>1. d.shift = 0 /\ d.mask = \hFF /\ d.min = \hC0 /\ d.max = \hFF
    BY DEF Desc
  <2>2. (byte \div 2^0) % (\hFF + 1) = byte
    BY ByteIndex
  <2>3. byte \in Int /\ byte > \hBF /\ ~(byte > d.max) /\ ~(byte < d.min)
    BY <2>1
  <2> HIDE DEF d
  <2>4. Indexes(b, p, n, Escape[k], FpuExt(Escape[k]), d, byte)
    BY <1>1, <1>2, <2>1, <2>2, <2>3 DEF Indexes
  <2> QED
    BY <2>4, LookUpByteIs
<1>4. ~GoesOn(row, {})
  BY DEF GoesOn, OnRegisters
<1>5. d.type = "fpu_ext"
  BY DEF Desc
<1>6. FollowRow(g, p, n, Escape[k], {}, d, row) = WithByte("fpu_ext", end)
  <2> HIDE DEF d
  <2> QED
    BY <1>4, <1>5 DEF FollowRow, OnRegisters, FoundRow
<1>7. ~UsesModrm(row.ops, 1) /\ ~UsesModrm(row.ops, 2)
  BY DEF UsesModrm, OnRegisters
<1>8. OpcodeBytes("fpu_ext", row.ops) = 1
  BY <1>7 DEF OpcodeBytes
<1>9. WithByte("fpu_ext", end) = FoundRow(row, 1)
  BY <1>8, WithByteIs, 0 + 1 = 1, 0 + 0 = 0
<1> QED
  BY <1>3, <1>6, <1>9

\* Below C0, three bits of it are the index.
AtMemory(b, p, n, k, row) ==
  /\ p \in Nat /\ n \in Nat \ {0} /\ k \in 1..8 /\ At(b, p) \in 0..\hBF
  /\ row = Row(Escape[k], (At(b, p) \div 8) % 8) /\ OnMemoryOperand(row)

LEMMA LookupMemory ==
  ASSUME NEW g, NEW b, NEW p, NEW n, NEW k, NEW row, AtMemory(b, p, n, k, row)
  PROVE  LookUpByte(g, b, Args(p, n, Escape[k], {})) = FoundRow(row, 0)
<1> DEFINE q == Args(p, n, Escape[k], {})
           d == Desc("fpu", 3, 7, 0, \hBF)
           end == FoundRow(row, 0)
           byte == At(b, p)
           i == (byte \div 8) % 8
<1> SUFFICES ASSUME p \in Nat, n \in Nat \ {0}, k \in 1..8, byte \in 0..\hBF,
                    row = Row(Escape[k], i), OnMemoryOperand(row)
             PROVE  LookUpByte(g, b, q) = FoundRow(row, 0)
  BY Zenon DEF AtMemory
<1>1. GetByte(b, p, n) = byte
  BY DEF GetByte
<1>2. /\ Escape[k] \in FpuTables
      /\ ia32_tables(Escape[k]).max = \hBF /\ ia32_tables(Escape[k]) = d
  BY EscapeTables, Descriptors DEF Desc
<1>3. LookUpByte(g, b, q) = FollowRow(g, p, n, Escape[k], {}, d, row)
  <2>1. d.shift = 3 /\ d.mask = 7 /\ d.min = 0 /\ d.max = \hBF
    BY DEF Desc
  <2>2. (byte \div 2^3) % (7 + 1) = (byte \div 8) % 8
    BY ByteIndex
  <2>3. ~(byte > \hBF) /\ i \in Int /\ i \in 0..7
    OBVIOUS
  <2>4. ~(i > d.max) /\ ~(i < d.min)
    BY <2>1, <2>3
  <2> HIDE DEF d
  <2>5. Indexes(b, p, n, Escape[k], Escape[k], d, i)
    BY <1>1, <1>2, <2>1, <2>2, <2>3, <2>4 DEF Indexes
  <2> QED
    BY <2>5, LookUpByteIs
<1>4. ~GoesOn(row, {})
  BY DEF GoesOn, OnMemoryOperand
<1>5. d.type = "fpu"
  BY DEF Desc
<1>6. FollowRow(g, p, n, Escape[k], {}, d, row) = WithByte("fpu", end)
  <2> HIDE DEF d
  <2> QED
    BY <1>4, <1>5 DEF FollowRow, OnMemoryOperand, FoundRow
<1>7. UsesModrm(row.ops, 1)
  BY DEF UsesModrm, OnMemoryOperand, M, Operand
<1>8. OpcodeBytes("fpu", row.ops) = 0
  BY <1>7 DEF OpcodeBytes
<1>9. WithByte("fpu", end) = FoundRow(row, 0)
  BY <1>8, WithByteIs, 0 + 1 = 1, 0 + 0 = 0
<1> QED
  BY <1>3, <1>6, <1>9

\* A row whose operands are registers takes no further bytes of the code.
LEMMA NoOperandBytes ==
  ASSUME NEW b, NEW p \in Nat, NEW n \in Int, NEW row, NEW cx, OnRegisters(row)
  PROVE  ia32_decode_insn(b, p, n, row.ops, cx) = 0
<1>1. \A i, q, m : ia32_decode_operand(row.ops, i, b, q, m, cx) = 0
  BY DEF ia32_decode_operand, decode_operand_value, OnRegisters
<1> QED
  BY <1>1 DEF ia32_decode_insn

\* An instruction without operand bytes has the bytes of its opcode.
LEMMA DecodeOpcode ==
  ASSUME NEW b, NEW p \in Nat, NEW n \in Nat, NEW size \in 1..n,
         NEW row, OnRegisters(row),
         ia32_table_lookup(b, p, n, "Main", {}) = FoundRow(row, size)
  PROVE  ia32_disasm_addr(b, p, n) = [size |-> size, row |-> row, opcode |-> size]
<1> DEFINE found == FoundRow(row, size)
<1>1. /\ found.ok /\ found.size = size /\ found.row = row /\ found.prefixes = {}
  BY DEF FoundRow
<1>2. row.kind = "insn" /\ row.sub = "none"
  BY DEF OnRegisters
<1> HIDE DEF found
<1>3. OperandBytes(b, p, n, found) = 0
  <2>1. p + size \in Nat /\ n - size \in Int
    OBVIOUS
  <2> QED
    BY <1>1, <2>1, NoOperandBytes DEF OperandBytes
<1>4. WithOperands(b, p, n, found, 0) = [size |-> size, row |-> row, opcode |-> size]
  BY <1>1, <1>2 DEF WithOperands
<1> QED
  BY <1>3, <1>4 DEF ia32_disasm_addr, found

\* Two bytes, the second at least C0, are decoded as one instruction of size 2.
LEMMA DecodeRegister ==
  ASSUME NEW b, NEW p \in Nat, NEW n \in Nat, n >= 2,
         NEW k \in 1..8, At(b, p) = \hD7 + k, At(b, p + 1) \in \hC0..255,
         NEW row, row = Row(FpuExt(Escape[k]), At(b, p + 1)), OnRegisters(row)
  PROVE  ia32_disasm_addr(b, p, n) = [size |-> 2, row |-> row, opcode |-> 2]
<1>1. PICK g : ia32_table_lookup(b, p, n, "Main", {})
                 = WithByte("opcode", LookUpByte(g, b, Args(p + 1, n - 1, Escape[k], {})))
  BY LookupEscape
<1>2. p + 1 \in Nat /\ n - 1 \in Nat \ {0}
  OBVIOUS
<1>3. LookUpByte(g, b, Args(p + 1, n - 1, Escape[k], {})) = FoundRow(row, 1)
  <2> DEFINE q == p + 1
             m == n - 1
             byte == At(b, q)
  <2>1. q \in Nat /\ m \in Nat \ {0} /\ byte \in \hC0..255
    BY <1>2
  <2>2. At(b, q) = byte /\ row = Row(FpuExt(Escape[k]), byte)
    OBVIOUS
  <2> HIDE DEF q, m, byte
  <2>3. AtRegister(b, q, m, k, row)
    BY <2>1, <2>2 DEF AtRegister
  <2>4. LookUpByte(g, b, Args(q, m, Escape[k], {})) = FoundRow(row, 1)
    BY <2>3, LookupRegister, Zenon
  <2> QED
    BY <2>4 DEF q, m
<1>4. OpcodeBytes("opcode", row.ops) = 1
  BY DEF OpcodeBytes
<1>5. WithByte("opcode", FoundRow(row, 1)) = FoundRow(row, 2)
  BY <1>4, WithByteIs, 1 + 1 = 2
<1> QED
  BY <1>1, <1>3, <1>5, DecodeOpcode

\* An instruction with the address of a number has six bytes.
LEMMA DecodeMemory ==
  ASSUME NEW b, NEW p \in Nat, NEW n \in Nat, n >= 6,
         NEW k \in 1..8, At(b, p) = \hD7 + k,
         NEW i \in 0..7, At(b, p + 1) = 8 * i + 5,
         NEW row, row = Row(Escape[k], i), OnMemoryOperand(row)
  PROVE  ia32_disasm_addr(b, p, n) = [size |-> 6, row |-> row, opcode |-> 1]
<1> DEFINE byte == 8 * i + 5
           found == FoundRow(row, 1)
           cx == Context({})
<1>0. byte \in 0..\hBF /\ (byte \div 8) % 8 = i /\ Mod(byte) = 0 /\ Rm(byte) = 5
  BY DEF Mod, Rm
<1>1. PICK g : ia32_table_lookup(b, p, n, "Main", {})
                 = WithByte("opcode", LookUpByte(g, b, Args(p + 1, n - 1, Escape[k], {})))
  BY LookupEscape
<1>2. p + 1 \in Nat /\ n - 1 \in Nat \ {0}
  OBVIOUS
<1>3. LookUpByte(g, b, Args(p + 1, n - 1, Escape[k], {})) = FoundRow(row, 0)
  <2>1. At(b, p + 1) = byte /\ row = Row(Escape[k], (byte \div 8) % 8)
    BY <1>0
  <2> DEFINE q == p + 1
             m == n - 1
  <2>2. q \in Nat /\ m \in Nat \ {0}
    BY <1>2
  <2> HIDE DEF byte, q, m
  <2>3. At(b, q) = byte
    BY <2>1 DEF q
  <2>4. byte \in 0..\hBF /\ (byte \div 8) % 8 = i /\ row = Row(Escape[k], i)
    BY <1>0
  <2>5. AtMemory(b, q, m, k, row)
    BY <2>2, <2>3, <2>4 DEF AtMemory
  <2>6. LookUpByte(g, b, Args(q, m, Escape[k], {})) = FoundRow(row, 0)
    BY <2>5, LookupMemory, Zenon
  <2> QED
    BY <2>6 DEF q, m
<1>4. OpcodeBytes("opcode", row.ops) = 1
  BY DEF OpcodeBytes
<1>5. WithByte("opcode", FoundRow(row, 0)) = found
  BY <1>4, WithByteIs, 0 + 1 = 1
<1>6. /\ found.ok /\ found.size = 1 /\ found.row = row /\ found.prefixes = {}
  BY DEF FoundRow
<1>7. row.kind = "insn" /\ row.sub = "none"
  BY DEF OnMemoryOperand
<1>8. DOMAIN row.ops = 1..1 /\ row.ops[1].method = "M"
  BY DEF OnMemoryOperand, M, Operand
<1>9. cx.addr_size = 4
  BY DEF Context
<1>10. ia32_modrm_decode(b, p + 1, n - 1, cx) = 5
  <2> HIDE DEF cx, byte
  <2>1. At(b, p + 1) = byte
    BY DEF byte
  <2> QED
    BY <1>0, <1>9, <2>1 DEF ia32_modrm_decode
<1>11. ia32_decode_operand(row.ops, 1, b, p + 1, n - 1, cx) = 5
  BY <1>8, <1>10 DEF ia32_decode_operand, decode_operand_value
<1>12. \A q, m : /\ ia32_decode_operand(row.ops, 2, b, q, m, cx) = 0
                 /\ ia32_decode_operand(row.ops, 3, b, q, m, cx) = 0
  BY <1>8 DEF ia32_decode_operand
<1>13. ia32_decode_insn(b, p + 1, n - 1, row.ops, cx) = 5
  BY <1>11, <1>12 DEF ia32_decode_insn
<1> HIDE DEF found
<1>14. OperandBytes(b, p, n, found) = 5
  BY <1>6, <1>13 DEF OperandBytes
<1>15. WithOperands(b, p, n, found, 5) = [size |-> 6, row |-> row, opcode |-> 1]
  BY <1>6, <1>7 DEF WithOperands
<1> QED
  BY <1>1, <1>3, <1>5, <1>14, <1>15 DEF ia32_disasm_addr

\* One byte that is an instruction by itself.
LEMMA DecodeByte ==
  ASSUME NEW b, NEW p \in Nat, NEW n \in Nat \ {0}, At(b, p) \in 0..255,
         NEW row, row = Row("Main", At(b, p)), OnRegisters(row)
  PROVE  ia32_disasm_addr(b, p, n) = [size |-> 1, row |-> row, opcode |-> 1]
<1> DEFINE byte == At(b, p)
           N == n + 2
           q == Args(p, n, "Main", {})
           d == Desc("opcode", 0, \hFF, 0, \hFF)
<1>1. MostCalls(n) = N
  BY DEF MostCalls
<1>2. PICK g : /\ LooksUp(g, b, N)
               /\ ia32_table_lookup(b, p, n, "Main", {}) = g[N][q]
  BY <1>1, LookupIs
<1>3. q \in Lookups
  <2>1. "Main" \in Tables /\ n \in Int
    BY DEF Tables
  <2> QED
    BY <2>1, LookupArgs
<1>4. g[N][q] = LookUpByte(g[N - 1], b, q)
  <2>1. N \in Nat /\ N \in 1..N
    OBVIOUS
  <2> HIDE DEF N, q
  <2> QED
    BY <1>2, <1>3, <2>1, LookupStep
<1>5. GetByte(b, p, n) = byte
  BY DEF GetByte
<1>6. LookUpByte(g[N - 1], b, q) = FollowRow(g[N - 1], p, n, "Main", {}, d, row)
  <2>1. d.shift = 0 /\ d.mask = \hFF /\ d.min = 0 /\ d.max = \hFF
    BY DEF Desc
  <2>2. (byte \div 2^0) % (\hFF + 1) = byte
    BY ByteIndex
  <2>3. ia32_tables("Main") = d /\ "Main" \notin FpuTables
    BY Descriptors DEF FpuTables
  <2>4. ~(byte > d.max) /\ ~(byte < d.min)
    BY <2>1
  <2> HIDE DEF d
  <2>5. Indexes(b, p, n, "Main", "Main", d, byte)
    BY <1>5, <2>1, <2>2, <2>3, <2>4 DEF Indexes
  <2> QED
    BY <2>5, LookUpByteIs
<1>7. FollowRow(g[N - 1], p, n, "Main", {}, d, row) = WithByte("opcode", FoundRow(row, 0))
  <2>1. ~GoesOn(row, {}) /\ d.type = "opcode"
    BY DEF GoesOn, OnRegisters, Desc
  <2> HIDE DEF d
  <2> QED
    BY <2>1 DEF FollowRow, OnRegisters, FoundRow
<1>8. WithByte("opcode", FoundRow(row, 0)) = FoundRow(row, 1)
  <2>1. OpcodeBytes("opcode", row.ops) = 1
    BY DEF OpcodeBytes
  <2> QED
    BY <2>1, WithByteIs, 0 + 1 = 1
<1>9. ia32_table_lookup(b, p, n, "Main", {}) = FoundRow(row, 1)
  BY <1>2, <1>4, <1>6, <1>7, <1>8
<1> QED
  BY <1>9, DecodeOpcode

\* The two instructions of the footer.
LEMMA DecodeFooter ==
  ASSUME NEW b, NEW p \in Nat, NEW n \in Nat \ {0}, At(b, p) \in {\h5D, \hC3}
  PROVE  ia32_disasm_addr(b, p, n).size = 1
<1> DEFINE row == Row("Main", At(b, p))
<1>1. Row("Main", \h5D) = Plain(<< RR("v") >>)
  BY DEF Row, FpuTables, FpuExtTables, MainLow
<1>2. Row("Main", \hC3) = Insn("ret", << >>)
  BY DEF Row, FpuTables, FpuExtTables, MainHigh
<1>3. OnRegisters(Plain(<< RR("v") >>)) /\ OnRegisters(Insn("ret", << >>))
  BY DEF OnRegisters, Plain, Insn, Entry, RR, Operand
<1>4. OnRegisters(row)
  BY <1>1, <1>2, <1>3
<1>5. At(b, p) \in 0..255
  OBVIOUS
<1> HIDE DEF row
<1>6. ia32_disasm_addr(b, p, n) = [size |-> 1, row |-> row, opcode |-> 1]
  BY <1>4, <1>5, DecodeByte DEF row
<1> QED
  BY <1>6

---------------------------------------------------------------------------------
(***************************************************************************)
(* The rows of the instructions of opcodes.h.                              *)
(***************************************************************************)
NoArg(b2, name) == Row("D9C0", b2) = Insn(name, << >>)

\* The rows of the instructions of opcodes.h that have no operand.
LEMMA NoArgRows ==
  /\ NoArg(\hE0, "fchs") /\ NoArg(\hE1, "fabs") /\ NoArg(\hE8, "fld1")
  /\ NoArg(\hEE, "fldz") /\ NoArg(\hF0, "f2xm1") /\ NoArg(\hF1, "fyl2x")
  /\ NoArg(\hF6, "fdecstp") /\ NoArg(\hF7, "fincstp") /\ NoArg(\hF9, "fyl2xp1")
  /\ NoArg(\hFA, "fsqrt") /\ NoArg(\hFD, "fscale") /\ NoArg(\hFE, "fsin")
  /\ NoArg(\hFF, "fcos")
<1> USE DEF NoArg, Row, FpuTables, FpuExtTables, FpuRegisters, FpuD9
<1>1. NoArg(\hE0, "fchs") /\ NoArg(\hE1, "fabs")
  OBVIOUS
<1>2. NoArg(\hE8, "fld1") /\ NoArg(\hEE, "fldz")
  BY DEF Constants
<1>3. NoArg(\hF0, "f2xm1") /\ NoArg(\hF1, "fyl2x") /\ NoArg(\hF6, "fdecstp")
  BY DEF Functions16
<1>4. NoArg(\hF7, "fincstp") /\ NoArg(\hF9, "fyl2xp1") /\ NoArg(\hFA, "fsqrt")
  BY DEF Functions16
<1>5. NoArg(\hFD, "fscale") /\ NoArg(\hFE, "fsin") /\ NoArg(\hFF, "fcos")
  BY DEF Functions16
<1> QED
  BY <1>1, <1>2, <1>3, <1>4, <1>5

\* With a register n, in either order; fst has one operand.
TopFirst(t, base, name) ==
  \A n \in 0..7 : Row(t, base + n) = Insn(name, << RF(0), RF(n) >>)
TopLast(t, base, name) ==
  \A n \in 0..7 : Row(t, base + n) = Insn(name, << RF(n), RF(0) >>)

\* The rows of those whose first operand is the top of the stack, register by register.
LEMMA TopFirstRows ==
  /\ TopFirst("D8C0", \hC0, "fadd") /\ TopFirst("D8C0", \hC8, "fmul")
  /\ TopFirst("D8C0", \hE0, "fsub") /\ TopFirst("D8C0", \hF0, "fdiv")
  /\ TopFirst("D9C0", \hC0, "fld") /\ TopFirst("D9C0", \hC8, "fxch")
  /\ TopFirst("DAC0", \hC0, "fcmovb") /\ TopFirst("DBC0", \hC0, "fcmovnb")
  /\ TopFirst("DBC0", \hF0, "fcomi")
<1> USE DEF TopFirst, Row, FpuTables, FpuExtTables, FpuRegisters, ToTop
<1>1. TopFirst("D8C0", \hC0, "fadd") /\ TopFirst("D8C0", \hC8, "fmul")
  BY DEF FpuArithmetic
<1>2. TopFirst("D8C0", \hE0, "fsub") /\ TopFirst("D8C0", \hF0, "fdiv")
  BY DEF FpuArithmetic
<1>3. TopFirst("D9C0", \hC0, "fld") /\ TopFirst("D9C0", \hC8, "fxch")
  BY DEF FpuD9
<1>4. TopFirst("DAC0", \hC0, "fcmovb")
  BY DEF FpuMoves
<1>5. TopFirst("DBC0", \hC0, "fcmovnb")
  <2>1. ASSUME NEW n \in 0..7
        PROVE  FpuMoves("DBC0", \hC0 + n) = Insn("fcmovnb", << RF(0), RF(n) >>)
    <3> DEFINE op == \hC0 + n
               names == << "fcmovnb", "fcmovne", "fcmovnbe", "fcmovnu" >>
    <3>1. ToTop(names, op) = Insn("fcmovnb", << RF(0), RF(n) >>)
      OBVIOUS
    <3>2. /\ op < \hE0 /\ op # \hE2 /\ op # \hE3
          /\ op \notin \hE8..\hEF /\ op \notin \hF0..\hF7
      OBVIOUS
    <3> HIDE DEF op
    <3>3. FpuMoves("DBC0", op) = ToTop(names, op)
      BY <3>2 DEF FpuMoves
    <3> QED
      BY <3>1, <3>3 DEF op
  <2> QED
    BY <2>1
<1>6. TopFirst("DBC0", \hF0, "fcomi")
  BY SMTT(30) DEF FpuMoves
<1> QED
  BY <1>1, <1>2, <1>3, <1>4, <1>5, <1>6

\* The rows of those whose last operand is the top of the stack, and of FST.
LEMMA TopLastRows ==
  /\ TopLast("DCC0", \hC0, "fadd") /\ TopLast("DCC0", \hC8, "fmul")
  /\ TopLast("DCC0", \hE8, "fsub")
  /\ TopLast("DEC0", \hC0, "faddp") /\ TopLast("DEC0", \hC8, "fmulp")
  /\ TopLast("DEC0", \hE8, "fsubp") /\ TopLast("DEC0", \hF8, "fdivp")
  /\ \A n \in 0..7 : Row("DDC0", \hD0 + n) = Insn("fst", << RF(n) >>)
<1> USE DEF TopLast, Row, FpuTables, FpuExtTables, FpuRegisters, FromTop
<1>1. TopLast("DCC0", \hC0, "fadd") /\ TopLast("DCC0", \hC8, "fmul")
  OBVIOUS
<1>2. TopLast("DCC0", \hE8, "fsub")
  OBVIOUS
<1>3. TopLast("DEC0", \hC0, "faddp") /\ TopLast("DEC0", \hC8, "fmulp")
  BY DEF FpuPops
<1>4. TopLast("DEC0", \hE8, "fsubp") /\ TopLast("DEC0", \hF8, "fdivp")
  BY DEF FpuPops
<1>5. \A n \in 0..7 : Row("DDC0", \hD0 + n) = Insn("fst", << RF(n) >>)
  BY DEF FpuPops
<1> QED
  BY <1>1, <1>2, <1>3, <1>4, <1>5

OnNumber(t, i, name) == Row(t, i) = Insn(name, << M("fd") >>)

\* The rows of those whose operand is a number of 8 bytes in memory.
LEMMA NumberRows ==
  /\ OnNumber("DC", 0, "fadd") /\ OnNumber("DC", 1, "fmul") /\ OnNumber("DC", 4, "fsub")
  /\ OnNumber("DC", 6, "fdiv") /\ OnNumber("DD", 0, "fld")
<1> USE DEF OnNumber, Row, FpuTables, FpuExtTables, FpuMemory, OnMemory, Always
<1>1. OnNumber("DC", 0, "fadd") /\ OnNumber("DC", 1, "fmul")
  BY DEF FpuArithmetic
<1>2. OnNumber("DC", 4, "fsub") /\ OnNumber("DC", 6, "fdiv")
  BY DEF FpuArithmetic
<1>3. OnNumber("DD", 0, "fld")
  OBVIOUS
<1> QED
  BY <1>1, <1>2, <1>3

\* The row that the decoder should find for an instruction.
RowOf(bytes) ==
  LET t == Escape[bytes[1] - \hD7]
  IN  IF bytes[2] >= \hC0 THEN Row(FpuExt(t), bytes[2]) ELSE Row(t, bytes[2] \div 8)

\* The row of an instruction on registers is in the table behind its first byte's table.
LEMMA RowOfRegisters ==
  ASSUME NEW k \in 1..8, NEW bytes, bytes[1] = \hD7 + k, bytes[2] \in \hC0..255
  PROVE  RowOf(bytes) = Row(FpuExt(Escape[k]), bytes[2])
<1>1. (\hD7 + k) - \hD7 = k
  OBVIOUS
<1> QED
  BY <1>1 DEF RowOf

\* The bytes at p, of which there are n, begin with an instruction.
Starts(b, p, n, bytes) ==
  /\ p \in Nat /\ n \in Nat /\ n >= Len(bytes)
  /\ \A j \in 1..Len(bytes) : At(b, p + j - 1) = bytes[j]

Decodes(b, p, n, bytes) ==
  /\ ia32_disasm_addr(b, p, n).size = Len(bytes)
  /\ ia32_disasm_addr(b, p, n).row = RowOf(bytes)

\* The decoder finds an instruction on registers where its two bytes start.
LEMMA DecodeTwo ==
  ASSUME NEW b, NEW p, NEW n, NEW bytes, Len(bytes) = 2,
         NEW k \in 1..8, bytes[1] = \hD7 + k, bytes[2] \in \hC0..255,
         OnRegisters(RowOf(bytes)), Starts(b, p, n, bytes)
  PROVE  Decodes(b, p, n, bytes)
<1> DEFINE row == RowOf(bytes)
<1>1. /\ p \in Nat /\ n \in Nat /\ n >= 2
      /\ At(b, p) = \hD7 + k /\ At(b, p + 1) = bytes[2]
  <2>1. /\ p \in Nat /\ n \in Nat /\ n >= 2
        /\ \A j \in 1..2 : At(b, p + j - 1) = bytes[j]
    BY DEF Starts
  <2>2. p + 1 - 1 = p /\ p + 2 - 1 = p + 1
    BY <2>1
  <2> QED
    BY <2>1, <2>2
<1>2. row = Row(FpuExt(Escape[k]), At(b, p + 1)) /\ At(b, p + 1) \in \hC0..255
  BY <1>1, RowOfRegisters
<1> HIDE DEF row
<1>3. OnRegisters(row)
  BY DEF row
<1>4. ia32_disasm_addr(b, p, n) = [size |-> 2, row |-> row, opcode |-> 2]
  BY <1>1, <1>2, <1>3, DecodeRegister
<1> QED
  BY <1>4 DEF Decodes, row

\* The decoder finds an instruction on memory where its six bytes start.
LEMMA DecodeSix ==
  ASSUME NEW b, NEW p, NEW n, NEW k \in 1..8, NEW i \in 0..7,
         NEW bytes, Len(bytes) = 6, bytes[1] = \hD7 + k, bytes[2] = 8 * i + 5,
         OnMemoryOperand(RowOf(bytes)), Starts(b, p, n, bytes)
  PROVE  Decodes(b, p, n, bytes)
<1> DEFINE row == RowOf(bytes)
<1>2. /\ p \in Nat /\ n \in Nat /\ n >= 6
      /\ At(b, p) = \hD7 + k /\ At(b, p + 1) = 8 * i + 5
  <2>1. /\ p \in Nat /\ n \in Nat /\ n >= 6
        /\ \A j \in 1..6 : At(b, p + j - 1) = bytes[j]
    BY DEF Starts
  <2>2. p + 1 - 1 = p /\ p + 2 - 1 = p + 1
    BY <2>1
  <2> QED
    BY <2>1, <2>2
<1>3. row = Row(Escape[k], i)
  <2>1. (\hD7 + k) - \hD7 = k /\ (8 * i + 5) \div 8 = i /\ ~(8 * i + 5 >= \hC0)
    OBVIOUS
  <2> QED
    BY <2>1 DEF RowOf
<1> HIDE DEF row
<1>4. OnMemoryOperand(row)
  BY DEF row
<1>5. ia32_disasm_addr(b, p, n) = [size |-> 6, row |-> row, opcode |-> 1]
  BY <1>2, <1>3, <1>4, DecodeMemory
<1> QED
  BY <1>5 DEF Decodes, row

---------------------------------------------------------------------------------
(***************************************************************************)
(* Three recursions run over a sequence in the same way: the statements of *)
(* the C program, the instructions of the machine and the pieces of a      *)
(* sequence that FlattenSeq joins.                                         *)
(***************************************************************************)
OfC == [kind |-> "c"]
OfPieces == [kind |-> "pieces"]
OfMachine(l, printed) == [kind |-> "machine", layout |-> l, printed |-> printed]

First(how) == CASE how.kind = "c" -> Cleared
                [] how.kind = "pieces" -> << >>
                [] how.kind = "machine" -> FINIT
After1(how, x, y) == CASE how.kind = "c" -> RunStatement(x, y)
                       [] how.kind = "pieces" -> x \o y
                       [] how.kind = "machine" -> Execute1(how.layout, x, y, how.printed)

Iterates(a, how, s, n) ==
  a = [k \in 0..n |-> IF k = 0 THEN First(how) ELSE After1(how, a[k - 1], s[k])]

\* The first value of a recursion, and each later one from the one before.
LEMMA IterateStep ==
  ASSUME NEW a, NEW how, NEW s, NEW n \in Nat, Iterates(a, how, s, n)
  PROVE  /\ a[0] = First(how)
         /\ \A k \in 1..n : a[k] = After1(how, a[k - 1], s[k])
<1>1. a = [k \in 0..n |-> IF k = 0 THEN First(how) ELSE After1(how, a[k - 1], s[k])]
  BY DEF Iterates
<1>2. a[0] = First(how)
  BY <1>1
<1>3. ASSUME NEW k \in 1..n PROVE a[k] = After1(how, a[k - 1], s[k])
  <2>1. k \in 0..n /\ k # 0
    OBVIOUS
  <2> QED
    BY <1>1, <2>1
<1> QED
  BY <1>2, <1>3

\* A recursion over n - 1 elements goes on to the nth.
LEMMA IterateAppend ==
  ASSUME NEW a, NEW how, NEW s, NEW n \in Nat \ {0}, Iterates(a, how, s, n - 1)
  PROVE  \E h : Iterates(h, how, s, n)
<1> DEFINE h == [k \in 0..n |-> IF k = n THEN After1(how, a[n - 1], s[n]) ELSE a[k]]
<1>1. \A k \in 0..(n - 1) : h[k] = a[k]
  OBVIOUS
<1>2. h[n] = After1(how, a[n - 1], s[n])
  OBVIOUS
<1>3. h = [k \in 0..n |-> h[k]]
  OBVIOUS
<1> HIDE DEF h
<1>4. /\ a[0] = First(how)
      /\ \A k \in 1..(n - 1) : a[k] = After1(how, a[k - 1], s[k])
  BY IterateStep
<1>5. ASSUME NEW k \in 0..n
      PROVE  h[k] = IF k = 0 THEN First(how) ELSE After1(how, h[k - 1], s[k])
  <2>1. CASE k = n
    BY <1>1, <1>2, <2>1
  <2>2. CASE k # n /\ k = 0
    BY <1>1, <1>4, <2>2
  <2>3. CASE k # n /\ k # 0
    <3>1. k \in 1..(n - 1) /\ k \in 0..(n - 1) /\ k - 1 \in 0..(n - 1)
      BY <2>3
    <3> QED
      BY <1>1, <1>4, <2>3, <3>1
  <2> QED
    BY <2>1, <2>2, <2>3
<1>6. Iterates(h, how, s, n)
  BY <1>3, <1>5 DEF Iterates
<1> QED
  BY <1>6

\* A recursion has values over a sequence of any length.
LEMMA IterateExists ==
  ASSUME NEW how, NEW s, NEW n \in Nat
  PROVE  \E a : Iterates(a, how, s, n)
<1> DEFINE Missing == {k \in 0..n : ~\E a : Iterates(a, how, s, k)}
<1>1. Iterates([k \in 0..0 |-> First(how)], how, s, 0)
  BY DEF Iterates
<1>2. Missing = {}
  <2> SUFFICES ASSUME Missing # {} PROVE FALSE
    OBVIOUS
  <2>1. PICK k \in Missing : \A m \in Missing : k <= m
    <3>1. Missing \subseteq Nat
      OBVIOUS
    <3> HIDE DEF Missing
    <3> QED
      BY <3>1, LeastNumber
  <2>2. k \in Nat \ {0} /\ k \in 0..n
    BY <1>1, <2>1
  <2>3. k - 1 \in 0..n /\ k - 1 \notin Missing
    BY <2>1, <2>2
  <2>4. PICK a : Iterates(a, how, s, k - 1)
    BY <2>3
  <2>5. \E a1 : Iterates(a1, how, s, k)
    BY <2>2, <2>4, IterateAppend
  <2> QED
    BY <2>1, <2>5
<1> QED
  BY <1>2

\* Two sequences that begin alike have the same values over what they share.
LEMMA IterateUnique ==
  ASSUME NEW a, NEW c, NEW how, NEW s, NEW t, NEW n \in Nat, NEW m \in Nat, n <= m,
         Iterates(a, how, s, n), Iterates(c, how, t, m), \A k \in 1..n : s[k] = t[k]
  PROVE  \A k \in 0..n : a[k] = c[k]
<1> DEFINE Differ == {k \in 0..n : a[k] # c[k]}
<1>1. a[0] = c[0]
  BY IterateStep
<1>2. Differ = {}
  <2> SUFFICES ASSUME Differ # {} PROVE FALSE
    OBVIOUS
  <2>1. PICK k \in Differ : \A j \in Differ : k <= j
    <3>1. Differ \subseteq Nat
      OBVIOUS
    <3> HIDE DEF Differ
    <3> QED
      BY <3>1, LeastNumber
  <2>2. k \in 1..n /\ k \in 1..m
    BY <1>1, <2>1
  <2>3. k - 1 \in 0..n /\ k - 1 \notin Differ
    BY <2>1, <2>2
  <2>4. a[k] = After1(how, a[k - 1], s[k]) /\ c[k] = After1(how, c[k - 1], t[k])
    BY <2>2, IterateStep
  <2>5. a[k] = c[k]
    BY <2>2, <2>3, <2>4
  <2> QED
    BY <2>1, <2>5
<1> QED
  BY <1>2

\* The three recursions, each with its first value and its step.
LEMMA Kinds ==
  /\ First(OfC) = Cleared /\ First(OfPieces) = << >>
  /\ \A l, printed : First(OfMachine(l, printed)) = FINIT
  /\ \A x, y : After1(OfC, x, y) = RunStatement(x, y)
  /\ \A x, y : After1(OfPieces, x, y) = x \o y
  /\ \A l, printed, x, y : After1(OfMachine(l, printed), x, y) = Execute1(l, x, y, printed)
BY DEF OfC, OfPieces, OfMachine, First, After1

---------------------------------------------------------------------------------
(***************************************************************************)
(* Running a program one more statement, or one more instruction, at a     *)
(* time.                                                                   *)
(***************************************************************************)
LEMMA RunCIterates ==
  ASSUME NEW s, Len(s) \in Nat
  PROVE  \E a : Iterates(a, OfC, s, Len(s)) /\ RunC(s) = a[Len(s)]
<1> DEFINE Chosen(a) ==
             a = [k \in 0..Len(s) |-> IF k = 0 THEN Cleared ELSE RunStatement(a[k - 1], s[k])]
<1>1. \A a : Iterates(a, OfC, s, Len(s)) <=> Chosen(a)
  BY Kinds DEF Iterates
<1>2. \E a : Chosen(a)
  BY <1>1, IterateExists
<1>3. RunC(s) = (CHOOSE a : Chosen(a))[Len(s)]
  BY DEF RunC
<1>4. Chosen(CHOOSE a : Chosen(a))
  BY <1>2
<1> HIDE DEF Chosen
<1> QED
  BY <1>1, <1>3, <1>4

\* One more statement is run after the others.
LEMMA RunCAppend ==
  ASSUME NEW Elts, NEW s \in Seq(Elts), NEW x \in Elts
  PROVE  RunC(Append(s, x)) = RunStatement(RunC(s), x)
<1> DEFINE t == Append(s, x)
           n == Len(s)
<1>1. n \in Nat /\ Len(t) = n + 1 /\ t[n + 1] = x /\ \A k \in 1..n : s[k] = t[k]
  BY AppendProperties
<1> HIDE DEF t
<1>2. PICK a : Iterates(a, OfC, s, n) /\ RunC(s) = a[n]
  BY <1>1, RunCIterates
<1>3. PICK c : Iterates(c, OfC, t, n + 1) /\ RunC(t) = c[n + 1]
  BY <1>1, RunCIterates
<1> HIDE DEF n
<1>4. a[n] = c[n]
  BY <1>1, <1>2, <1>3, IterateUnique
<1>5. \A k \in 1..(n + 1) : c[k] = After1(OfC, c[k - 1], t[k])
  <2> DEFINE m == n + 1
  <2>1. m \in Nat /\ Iterates(c, OfC, t, m)
    BY <1>1, <1>3
  <2> HIDE DEF m
  <2>2. \A k \in 1..m : c[k] = After1(OfC, c[k - 1], t[k])
    BY <2>1, IterateStep
  <2> QED
    BY <2>2 DEF m
<1>6. n + 1 - 1 = n /\ n + 1 \in 1..(n + 1)
  BY <1>1
<1> QED
  BY <1>1, <1>2, <1>3, <1>4, <1>5, <1>6, Kinds DEF t

\* The statements t, run after the statements s, step by step.
LEMMA RunCConcat ==
  ASSUME NEW Elts, NEW s \in Seq(Elts), NEW t \in Seq(Elts), NEW h,
         h[0] = RunC(s),
         \A k \in 1..Len(t) : h[k] = RunStatement(h[k - 1], t[k])
  PROVE  RunC(s \o t) = h[Len(t)]
<1> DEFINE u == s \o t
           n == Len(s)
           m == Len(t)
<1>1. /\ n \in Nat /\ m \in Nat /\ Len(u) = n + m
      /\ \A k \in 1..n : s[k] = u[k]
      /\ \A k \in 1..m : u[n + k] = t[k]
  BY ConcatProperties
<1>2. PICK a : Iterates(a, OfC, s, n) /\ RunC(s) = a[n]
  BY <1>1, RunCIterates
<1> HIDE DEF u, n, m
<1>3. PICK c : Iterates(c, OfC, u, n + m) /\ RunC(u) = c[n + m]
  <2>1. Len(u) \in Nat /\ Len(u) = n + m
    BY <1>1
  <2>2. PICK c : Iterates(c, OfC, u, Len(u)) /\ RunC(u) = c[Len(u)]
    BY <2>1, RunCIterates
  <2> QED
    BY <2>1, <2>2
<1>4. a[n] = c[n]
  BY <1>1, <1>2, <1>3, IterateUnique
<1>5. \A k \in 1..(n + m) : c[k] = RunStatement(c[k - 1], u[k])
  <2> DEFINE j == n + m
  <2>1. j \in Nat /\ Iterates(c, OfC, u, j)
    BY <1>1, <1>3
  <2> HIDE DEF j
  <2>2. \A k \in 1..j : c[k] = RunStatement(c[k - 1], u[k])
    BY <2>1, IterateStep, Kinds
  <2> QED
    BY <2>2 DEF j
<1> DEFINE Differ == {k \in 0..m : h[k] # c[n + k]}
<1>6. Differ = {}
  <2> SUFFICES ASSUME Differ # {} PROVE FALSE
    OBVIOUS
  <2>1. PICK k \in Differ : \A j \in Differ : k <= j
    <3>1. Differ \subseteq Nat
      OBVIOUS
    <3> HIDE DEF Differ
    <3> QED
      BY <3>1, LeastNumber
  <2>2. k \in 1..m
    <3>1. h[0] = c[n + 0]
      BY <1>1, <1>2, <1>4
    <3> QED
      BY <2>1, <3>1
  <2>3. k - 1 \in 0..m /\ k - 1 \notin Differ
    <3>1. k \in Int /\ k - 1 \in 0..m /\ k - 1 \in Int /\ ~(k <= k - 1)
      BY <1>1, <2>2
    <3> HIDE DEF Differ
    <3> QED
      BY <2>1, <3>1
  <2>4. h[k - 1] = c[n + (k - 1)]
    <3> DEFINE j == k - 1
    <3>1. j \in 0..m /\ j \notin Differ
      BY <2>3
    <3> HIDE DEF j
    <3>2. h[j] = c[n + j]
      BY <3>1
    <3> QED
      BY <3>2 DEF j
  <2>5. n + k \in 1..(n + m) /\ n + (k - 1) = (n + k) - 1
    BY <1>1, <2>2
  <2>6. c[n + k] = RunStatement(c[n + k - 1], u[n + k])
    BY <1>5, <2>5
  <2>7. h[k] = RunStatement(h[k - 1], t[k])
    BY <2>2 DEF m
  <2> QED
    BY <1>1, <2>1, <2>2, <2>4, <2>5, <2>6, <2>7
<1>7. h[m] = c[n + m]
  <2>1. m \in 0..m /\ m \notin Differ
    BY <1>1, <1>6
  <2> QED
    BY <2>1
<1> QED
  BY <1>3, <1>7 DEF u, m

\* RunMachine is the last value of its recursion, over header and program.
LEMMA RunMachineIterates ==
  ASSUME NEW l, NEW printed, NEW program, NEW n \in Nat, n = Len(HeaderInstructions \o program)
  PROVE  \E a : /\ Iterates(a, OfMachine(l, printed), HeaderInstructions \o program, n)
                /\ RunMachine(l, program, printed) = a[n]
<1> DEFINE all == HeaderInstructions \o program
           Chosen(a) ==
             a = [k \in 0..Len(all) |-> IF k = 0 THEN FINIT
                                        ELSE Execute1(l, a[k - 1], all[k], printed)]
<1>1. \A a : Iterates(a, OfMachine(l, printed), all, n) <=> Chosen(a)
  BY Kinds DEF Iterates
<1>2. \E a : Chosen(a)
  <2> HIDE DEF all, Chosen
  <2> QED
    BY <1>1, IterateExists
<1>3. RunMachine(l, program, printed) = (CHOOSE a : Chosen(a))[Len(all)]
  BY DEF RunMachine
<1>4. Chosen(CHOOSE a : Chosen(a))
  BY <1>2
<1> HIDE DEF Chosen
<1> QED
  BY <1>1, <1>3, <1>4

\* One more instruction is executed after the others.
LEMMA RunMachineAppend ==
  ASSUME NEW l, NEW printed, NEW Elts, HeaderInstructions \in Seq(Elts),
         NEW p \in Seq(Elts), NEW x \in Elts
  PROVE  RunMachine(l, Append(p, x), printed)
           = Execute1(l, RunMachine(l, p, printed), x, printed)
<1> DEFINE s == HeaderInstructions \o p
           t == HeaderInstructions \o Append(p, x)
           n == Len(s)
           how == OfMachine(l, printed)
<1>1. s \in Seq(Elts) /\ t = Append(s, x)
  BY AppendProperties, AppendIsConcat, ConcatProperties, ConcatAssociative
<1>2. n \in Nat /\ Len(t) = n + 1 /\ t[n + 1] = x /\ \A k \in 1..n : s[k] = t[k]
  <2> HIDE DEF s, t
  <2> QED
    BY <1>1, AppendProperties
<1>3. PICK a : Iterates(a, how, s, n) /\ RunMachine(l, p, printed) = a[n]
  BY <1>2, RunMachineIterates
<1>4. PICK c : Iterates(c, how, t, n + 1) /\ RunMachine(l, Append(p, x), printed) = c[n + 1]
  <2>1. n + 1 \in Nat /\ n + 1 = Len(t)
    BY <1>2
  <2> HIDE DEF n
  <2> QED
    BY <2>1, RunMachineIterates, ZenonT(40)
<1> HIDE DEF n, s, t, how
<1>5. a[n] = c[n]
  BY <1>2, <1>3, <1>4, IterateUnique
<1>6. c[n + 1] = After1(how, c[n + 1 - 1], t[n + 1])
  BY <1>2, <1>4, IterateStep
<1>7. n + 1 - 1 = n
  BY <1>2
<1>8. After1(how, c[n], x) = Execute1(l, c[n], x, printed)
  BY Kinds DEF how
<1> QED
  BY <1>2, <1>3, <1>4, <1>5, <1>6, <1>7, <1>8

---------------------------------------------------------------------------------
(***************************************************************************)
(* FlattenSeq joins the pieces of a sequence one after the other.          *)
(***************************************************************************)
LEMMA Pieces ==
  First(OfPieces) = << >> /\ \A x, y : After1(OfPieces, x, y) = x \o y
BY DEF OfPieces, First, After1

\* FlattenSeq is the last value of its recursion.
LEMMA FlattenIterates ==
  ASSUME NEW Elts, NEW s \in Seq(Seq(Elts))
  PROVE  \E a : Iterates(a, OfPieces, s, Len(s)) /\ FlattenSeq(s) = a[Len(s)]
<1>1. Len(s) \in Nat /\ \A k \in 1..Len(s) : s[k] \in Seq(Elts)
  BY ElementOfSeq, LenProperties
<1>2. PICK a : Iterates(a, OfPieces, s, Len(s))
  BY <1>1, IterateExists
<1>3. /\ a[0] = << >>
      /\ \A k \in 1..Len(s) : a[k] = a[k - 1] \o s[k]
  <2>1. /\ a[0] = First(OfPieces)
        /\ \A k \in 1..Len(s) : a[k] = After1(OfPieces, a[k - 1], s[k])
    BY <1>1, <1>2, IterateStep
  <2> QED
    BY <2>1, Pieces
<1>4. CASE Len(s) = 0
  <2>1. s = << >> /\ FlattenSeq(s) = s
    BY <1>4, EmptySeq DEF FlattenSeq
  <2> QED
    BY <1>2, <1>3, <1>4, <2>1
<1>5. CASE Len(s) # 0
  <2> DEFINE Chosen(c) ==
               c = [i \in 1..Len(s) |-> IF i = 1 THEN s[i] ELSE c[i - 1] \o s[i]]
             joined == [i \in 1..Len(s) |-> a[i]]
  <2>1. Chosen(joined)
    <3>1. ASSUME NEW i \in 1..Len(s)
          PROVE  joined[i] = IF i = 1 THEN s[i] ELSE joined[i - 1] \o s[i]
      <4>1. CASE i = 1
        <5>1. a[1] = << >> \o s[1] /\ << >> \o s[1] = s[1]
          <6>1. 1 \in 1..Len(s) /\ 1 - 1 = 0
            BY <1>1, <1>5
          <6>2. s[1] \in Seq(Elts)
            BY <1>1, <6>1
          <6> QED
            BY <1>3, <6>1, <6>2, ConcatEmptySeq
        <5> QED
          BY <4>1, <5>1
      <4>2. CASE i # 1
        <5>1. i - 1 \in 1..Len(s)
          BY <1>1, <4>2
        <5> QED
          BY <1>3, <4>2, <5>1
      <4> QED
        BY <4>1, <4>2
    <3>2. joined = [i \in 1..Len(s) |-> joined[i]]
      OBVIOUS
    <3> HIDE DEF joined
    <3> QED
      BY <3>1, <3>2
  <2>2. FlattenSeq(s) = (CHOOSE c : Chosen(c))[Len(s)]
    BY <1>5 DEF FlattenSeq
  <2>3. PICK c : c = (CHOOSE d : Chosen(d)) /\ Chosen(c)
    <3> HIDE DEF Chosen, joined
    <3> QED
      BY <2>1
  <2> DEFINE whole == [k \in 0..Len(s) |-> IF k = 0 THEN << >> ELSE c[k]]
  <2>4. Iterates(whole, OfPieces, s, Len(s))
    <3>1. \A i \in 1..Len(s) : c[i] = IF i = 1 THEN s[i] ELSE c[i - 1] \o s[i]
      BY <2>3
    <3>2. ASSUME NEW k \in 0..Len(s)
          PROVE  whole[k] = IF k = 0 THEN << >> ELSE whole[k - 1] \o s[k]
      <4>1. CASE k = 0
        BY <4>1
      <4>2. CASE k = 1
        <5>1. /\ 1 \in 1..Len(s) /\ 1 \in 0..Len(s) /\ 0 \in 0..Len(s)
              /\ 1 - 1 = 0 /\ s[1] \in Seq(Elts)
          BY <1>1, <4>2
        <5>2. whole[1] = s[1] /\ whole[0] = << >>
          BY <3>1, <5>1
        <5>3. << >> \o s[1] = s[1]
          BY <5>1, ConcatEmptySeq
        <5> HIDE DEF whole
        <5> QED
          BY <4>2, <5>1, <5>2, <5>3
      <4>3. CASE k # 0 /\ k # 1
        <5>1. k \in 1..Len(s) /\ k - 1 \in 0..Len(s) /\ k - 1 # 0
          BY <1>1, <4>3
        <5> QED
          BY <3>1, <4>3, <5>1
      <4> QED
        BY <4>1, <4>2, <4>3
    <3>3. whole = [k \in 0..Len(s) |-> whole[k]]
      OBVIOUS
    <3> HIDE DEF whole
    <3>4. whole = [k \in 0..Len(s) |-> IF k = 0 THEN << >> ELSE whole[k - 1] \o s[k]]
      BY <3>2, <3>3
    <3> QED
      BY <3>4, Kinds DEF Iterates
  <2>5. whole[Len(s)] = c[Len(s)]
    BY <1>1, <1>5
  <2> HIDE DEF whole
  <2> QED
    BY <2>2, <2>3, <2>4, <2>5
<1> QED
  BY <1>4, <1>5

\* One more piece is put behind the others.
LEMMA FlattenAppend ==
  ASSUME NEW Elts, NEW s \in Seq(Seq(Elts)), NEW x \in Seq(Elts)
  PROVE  FlattenSeq(Append(s, x)) = FlattenSeq(s) \o x
<1> DEFINE t == Append(s, x)
           n == Len(s)
           m == n + 1
<1>1. /\ n \in Nat /\ Len(t) = m /\ t[m] = x /\ t \in Seq(Seq(Elts))
      /\ \A k \in 1..n : s[k] = t[k]
  BY AppendProperties
<1>2. PICK a : Iterates(a, OfPieces, s, n) /\ FlattenSeq(s) = a[n]
  BY FlattenIterates
<1> HIDE DEF t
<1>3. PICK c : Iterates(c, OfPieces, t, m) /\ FlattenSeq(t) = c[m]
  <2>1. PICK c : Iterates(c, OfPieces, t, Len(t)) /\ FlattenSeq(t) = c[Len(t)]
    BY <1>1, FlattenIterates
  <2> QED
    BY <1>1, <2>1
<1>4. m \in Nat /\ n <= m /\ m \in 1..m /\ m - 1 = n
  BY <1>1
<1> HIDE DEF n, m
<1>5. a[n] = c[n]
  BY <1>1, <1>2, <1>3, <1>4, IterateUnique
<1>6. c[m] = c[m - 1] \o t[m]
  <2>1. c[m] = After1(OfPieces, c[m - 1], t[m])
    BY <1>3, <1>4, IterateStep
  <2> QED
    BY <2>1, Pieces
<1> QED
  BY <1>1, <1>2, <1>3, <1>4, <1>5, <1>6 DEF t

\* The first k pieces, joined.
Joined(s, k) == FlattenSeq(SubSeq(s, 1, k))

\* The first k pieces, joined, are the first k - 1 of them and the kth.
LEMMA JoinedStep ==
  ASSUME NEW Elts, NEW s \in Seq(Seq(Elts))
  PROVE  /\ Joined(s, 0) = << >> /\ Joined(s, Len(s)) = FlattenSeq(s)
         /\ \A k \in 1..Len(s) : Joined(s, k) = Joined(s, k - 1) \o s[k]
<1>1. Joined(s, 0) = << >>
  <2>1. SubSeq(s, 1, 0) = << >>
    BY SubSeqEmpty
  <2> QED
    BY <2>1 DEF Joined, FlattenSeq
<1>2. Joined(s, Len(s)) = FlattenSeq(s)
  BY SubSeqFull DEF Joined
<1>3. ASSUME NEW k \in 1..Len(s) PROVE Joined(s, k) = Joined(s, k - 1) \o s[k]
  <2>1. /\ Len(s) \in Nat /\ s[k] \in Seq(Elts) /\ 1 \in 1..Len(s) /\ k \in 1..Len(s)
        /\ \A i \in 1..(k - 1) : s[i] \in Seq(Elts)
    BY ElementOfSeq, LenProperties
  <2>2. SubSeq(s, 1, k) = SubSeq(s, 1, k - 1) \o << s[k] >>
    BY <2>1, SubSeqRecursiveSecond
  <2>3. SubSeq(s, 1, k - 1) \in Seq(Seq(Elts))
    BY <2>1, SubSeqProperties
  <2>4. SubSeq(s, 1, k) = Append(SubSeq(s, 1, k - 1), s[k])
    BY <2>1, <2>2, <2>3, AppendIsConcat
  <2> QED
    BY <2>1, <2>3, <2>4, FlattenAppend DEF Joined
<1> QED
  BY <1>1, <1>2, <1>3

\* Pieces of a type joined are a sequence of that type.
LEMMA JoinedType ==
  ASSUME NEW Elts, NEW s \in Seq(Seq(Elts))
  PROVE  \A k \in 0..Len(s) : Joined(s, k) \in Seq(Elts)
<1> DEFINE Wrong == {k \in 0..Len(s) : Joined(s, k) \notin Seq(Elts)}
<1>1. Joined(s, 0) \in Seq(Elts)
  <2>1. Joined(s, 0) = << >>
    BY JoinedStep
  <2> QED
    BY <2>1, EmptySeq
<1>2. Len(s) \in Nat /\ \A k \in 1..Len(s) : s[k] \in Seq(Elts)
  BY ElementOfSeq, LenProperties
<1>3. Wrong = {}
  <2> SUFFICES ASSUME Wrong # {} PROVE FALSE
    OBVIOUS
  <2>1. PICK k \in Wrong : \A j \in Wrong : k <= j
    <3>1. Wrong \subseteq Nat
      OBVIOUS
    <3> HIDE DEF Wrong
    <3> QED
      BY <3>1, LeastNumber
  <2>2. k \in 1..Len(s)
    BY <1>1, <2>1
  <2>3. k - 1 \in 0..Len(s) /\ k - 1 \notin Wrong
    <3>1. k - 1 \in 0..Len(s) /\ k - 1 \in Int /\ ~(k <= k - 1)
      BY <1>2, <2>2
    <3> HIDE DEF Wrong
    <3> QED
      BY <2>1, <3>1
  <2>4. Joined(s, k - 1) \in Seq(Elts)
    BY <2>3
  <2>5. Joined(s, k) \in Seq(Elts)
    BY <1>2, <2>2, <2>4, JoinedStep, ConcatProperties, ZenonT(40)
  <2> QED
    BY <2>1, <2>5
<1> QED
  BY <1>3

\* And so are all of them.
LEMMA FlattenType ==
  ASSUME NEW Elts, NEW s \in Seq(Seq(Elts))
  PROVE  FlattenSeq(s) \in Seq(Elts)
<1>1. Joined(s, Len(s)) = FlattenSeq(s) /\ Len(s) \in Nat
  BY JoinedStep, LenProperties
<1>2. Len(s) \in 0..Len(s)
  BY <1>1
<1> QED
  BY <1>1, <1>2, JoinedType

\* The pieces are found where the pieces before them end.
LEMMA JoinedPrefix ==
  ASSUME NEW Elts, NEW s \in Seq(Seq(Elts)), NEW k \in 0..Len(s)
  PROVE  \A j \in k..Len(s) : /\ Len(Joined(s, k)) <= Len(Joined(s, j))
                              /\ \A i \in 1..Len(Joined(s, k)) :
                                   Joined(s, j)[i] = Joined(s, k)[i]
<1> DEFINE Begins(j) == /\ Len(Joined(s, k)) <= Len(Joined(s, j))
                        /\ \A i \in 1..Len(Joined(s, k)) : Joined(s, j)[i] = Joined(s, k)[i]
           Wrong == {j \in k..Len(s) : ~Begins(j)}
<1>0. k \in Nat
  OBVIOUS
<1>1. /\ Len(s) \in Nat /\ \A j \in 1..Len(s) : s[j] \in Seq(Elts)
      /\ \A j \in 0..Len(s) : Joined(s, j) \in Seq(Elts) /\ Len(Joined(s, j)) \in Nat
  BY ElementOfSeq, LenProperties, JoinedType
<1>2. Begins(k)
  BY <1>1
<1>3. Wrong = {}
  <2> SUFFICES ASSUME Wrong # {} PROVE FALSE
    OBVIOUS
  <2>1. PICK j \in Wrong : \A i \in Wrong : j <= i
    <3>1. Wrong \subseteq Nat
      BY <1>0
    <3> HIDE DEF Wrong
    <3> QED
      BY <3>1, LeastNumber
  <2>2. j \in 1..Len(s) /\ j \in k..Len(s) /\ j # k
    <3>1. j \in k..Len(s) /\ j # k
      <4> HIDE DEF Begins
      <4> QED
        BY <1>2, <2>1
    <3> QED
      BY <1>0, <3>1
  <2>3. j - 1 \in k..Len(s) /\ j - 1 \notin Wrong
    <3>1. j - 1 \in k..Len(s) /\ j - 1 \in Int /\ ~(j <= j - 1)
      BY <1>0, <1>1, <2>2
    <3> HIDE DEF Wrong
    <3> QED
      BY <2>1, <3>1
  <2>4. Begins(j - 1)
    BY <2>3
  <2>5. Joined(s, j) = Joined(s, j - 1) \o s[j]
    BY <2>2, JoinedStep
  <2>6. Joined(s, j - 1) \in Seq(Elts) /\ s[j] \in Seq(Elts) /\ Len(Joined(s, k)) \in Nat
    <3>1. j - 1 \in 0..Len(s)
      BY <1>0, <2>2
    <3> QED
      BY <1>1, <2>2, <3>1
  <2> DEFINE x == Joined(s, j - 1)
             y == s[j]
  <2>7. /\ Len(x \o y) = Len(x) + Len(y) /\ Len(x) \in Nat /\ Len(y) \in Nat
        /\ \A i \in 1..Len(x) : (x \o y)[i] = x[i]
    <3> HIDE DEF x, y
    <3>1. x \in Seq(Elts) /\ y \in Seq(Elts)
      BY <2>6 DEF x, y
    <3> QED
      BY <3>1, ConcatProperties, LenProperties
  <2>8. Begins(j)
    <3>1. /\ Len(Joined(s, k)) <= Len(x)
          /\ \A i \in 1..Len(Joined(s, k)) : x[i] = Joined(s, k)[i]
      BY <2>4
    <3>2. Joined(s, j) = x \o y
      BY <2>5
    <3> HIDE DEF x, y
    <3>3. Len(Joined(s, k)) <= Len(x \o y)
      BY <2>6, <2>7, <3>1
    <3>4. \A i \in 1..Len(Joined(s, k)) : (x \o y)[i] = Joined(s, k)[i]
      BY <2>6, <2>7, <3>1
    <3> QED
      BY <3>2, <3>3, <3>4
  <2> HIDE DEF Begins
  <2> QED
    BY <2>1, <2>8
<1> QED
  BY <1>3

\* Where the kth piece stands in the whole, and that it stands there unchanged.
LEMMA PieceAt ==
  ASSUME NEW Elts, NEW s \in Seq(Seq(Elts)), NEW k \in 1..Len(s)
  PROVE  /\ FlattenSeq(s) \in Seq(Elts) /\ Len(Joined(s, k - 1)) \in Nat
         /\ Len(Joined(s, k)) = Len(Joined(s, k - 1)) + Len(s[k])
         /\ Len(Joined(s, k)) <= Len(FlattenSeq(s))
         /\ \A i \in 1..Len(s[k]) : FlattenSeq(s)[Len(Joined(s, k - 1)) + i] = s[k][i]
<1> DEFINE x == Joined(s, k - 1)
           y == s[k]
           z == FlattenSeq(s)
<1>1. /\ k \in 0..Len(s) /\ k - 1 \in 0..Len(s) /\ Len(s) \in k..Len(s)
      /\ Len(s) \in 0..Len(s)
  BY LenProperties
<1>2. x \in Seq(Elts) /\ y \in Seq(Elts) /\ z \in Seq(Elts)
  BY <1>1, ElementOfSeq, JoinedType, JoinedStep
<1>3. Joined(s, k) = x \o y
  BY JoinedStep
<1>4. /\ Len(Joined(s, k)) <= Len(z)
      /\ \A i \in 1..Len(Joined(s, k)) : z[i] = Joined(s, k)[i]
  <2>1. z = Joined(s, Len(s))
    BY JoinedStep
  <2> QED
    BY <1>1, <2>1, JoinedPrefix
<1> HIDE DEF x, y, z
<1>5. /\ Len(x \o y) = Len(x) + Len(y) /\ Len(x) \in Nat /\ Len(y) \in Nat
      /\ \A i \in 1..Len(y) : (x \o y)[Len(x) + i] = y[i]
  BY <1>2, ConcatProperties, LenProperties
<1>6. \A i \in 1..Len(y) : z[Len(x) + i] = y[i]
  <2> TAKE i \in 1..Len(y)
  <2>1. Len(x) + i \in 1..Len(x \o y)
    BY <1>5
  <2> QED
    BY <1>3, <1>4, <1>5, <2>1
<1> QED
  BY <1>2, <1>3, <1>4, <1>5, <1>6 DEF x, y, z

---------------------------------------------------------------------------------
(***************************************************************************)
(* The forms of an instruction.                                            *)
(***************************************************************************)
\* Without an operand: the second byte of the instruction.
NoArgBytes == { \hE0, \hE1, \hE8, \hEE, \hF0, \hF1, \hF6, \hF7, \hF9, \hFA, \hFD, \hFE, \hFF }
\* With register n, which is added to the second byte of the opcode.
RegisterForm(bytes, b1, b2, n) ==
  /\ Len(bytes) = 2 /\ bytes[1] = b1 /\ bytes[2] = b2 + n /\ n \in 0..7
  /\ << b1, b2 >> \in twobyte_regarg \cup commented_regarg
MemoryForm(bytes) ==
  Len(bytes) = 6 /\ << bytes[1], bytes[2] >> \in sixbyte \cup commented_sixbyte

\* An instruction has no operand, a register in its second byte, or an address.
LEMMA InstructionForms ==
  ASSUME NEW bytes \in Seq(0..255), IsInstruction(bytes)
  PROVE  \/ \E b2 \in NoArgBytes : bytes = << \hD9, b2 >>
         \/ \E b1, b2, n : RegisterForm(bytes, b1, b2, n)
         \/ MemoryForm(bytes)
<1>1. CASE bytes \in twobyte_noarg \cup commented_noarg
  <2>1. CASE bytes = << \hD8, \hE1 >>
    <3>1. RegisterForm(bytes, \hD8, \hE0, 1)
      <4>1. Len(bytes) = 2 /\ bytes[1] = \hD8 /\ bytes[2] = \hE1 /\ \hE1 = \hE0 + 1
        BY <2>1
      <4> QED
        BY <4>1 DEF RegisterForm, twobyte_regarg
    <3> QED
      BY <3>1
  <2>2. CASE bytes # << \hD8, \hE1 >>
    <3>1. \E b2 \in NoArgBytes : bytes = << \hD9, b2 >>
      BY <1>1, <2>2 DEF twobyte_noarg, commented_noarg, NoArgBytes
    <3> QED
      BY <3>1
  <2> QED
    BY <2>1, <2>2
<1>2. CASE /\ Len(bytes) = 2
           /\ << bytes[1], bytes[2] - (bytes[2] % 8) >> \in twobyte_regarg \cup commented_regarg
  <2> DEFINE n == bytes[2] % 8
  <2>1. bytes[2] \in 0..255
    <3>1. 2 \in 1..Len(bytes)
      BY <1>2
    <3> QED
      BY <3>1, ElementOfSeq
  <2>2. n \in 0..7 /\ (bytes[2] - n) + n = bytes[2]
    <3> DEFINE b2 == bytes[2]
    <3> HIDE DEF b2
    <3>1. b2 \in 0..255
      BY <2>1 DEF b2
    <3>2. (b2 % 8) \in 0..7 /\ (b2 - (b2 % 8)) + (b2 % 8) = b2
      BY <3>1
    <3> QED
      BY <3>2 DEF b2
  <2> HIDE DEF n
  <2>3. << bytes[1], bytes[2] - n >> \in twobyte_regarg \cup commented_regarg
    BY <1>2 DEF n
  <2>4. RegisterForm(bytes, bytes[1], bytes[2] - n, n)
    BY <1>2, <2>2, <2>3 DEF RegisterForm
  <2> QED
    BY <2>4
<1>3. CASE /\ Len(bytes) = 6
           /\ << bytes[1], bytes[2] >> \in sixbyte \cup commented_sixbyte
  BY <1>3 DEF MemoryForm
<1> QED
  BY <1>1, <1>2, <1>3 DEF IsInstruction

---------------------------------------------------------------------------------
(***************************************************************************)
(* The rows of the forms.                                                  *)
(***************************************************************************)
LEMMA NoArgRow ==
  ASSUME NEW b2 \in NoArgBytes
  PROVE  RowOf(<< \hD9, b2 >>) = Row("D9C0", b2)
<1>1. << \hD9, b2 >>[1] = \hD7 + 2 /\ << \hD9, b2 >>[2] = b2 /\ b2 \in \hC0..255
  BY DEF NoArgBytes
<1>2. FpuExt(Escape[2]) = "D9C0"
  BY DEF FpuExt, Escape
<1> QED
  BY <1>1, <1>2, RowOfRegisters

\* Every opcode with a register, and its row.
LEMMA RegisterRow ==
  ASSUME NEW bytes, NEW b1, NEW b2, NEW n, RegisterForm(bytes, b1, b2, n),
         NEW k \in 1..8, b1 = \hD7 + k
  PROVE  RowOf(bytes) = Row(FpuExt(Escape[k]), b2 + n)
<1>1. b2 \in {\hC0, \hC8, \hD0, \hE0, \hE8, \hF0, \hF8}
  BY DEF RegisterForm, twobyte_regarg, commented_regarg
<1>2. bytes[2] \in \hC0..255
  BY <1>1 DEF RegisterForm
<1> QED
  BY <1>2, RowOfRegisters DEF RegisterForm

---------------------------------------------------------------------------------
(***************************************************************************)
(* The statements of an instruction.                                       *)
(***************************************************************************)
\* A sequence, whatever its elements.
IsSeq(s) == \E Elts : s \in Seq(Elts)

\* Sequences are put together to one as long as both.
LEMMA SeqsConcat ==
  ASSUME NEW s, NEW t, IsSeq(s), IsSeq(t)
  PROVE  /\ IsSeq(s \o t) /\ Len(s \o t) = Len(s) + Len(t)
         /\ Len(s) \in Nat /\ Len(t) \in Nat
         /\ \E Elts : s \in Seq(Elts) /\ t \in Seq(Elts)
<1>1. PICK Elts, More : s \in Seq(Elts) /\ t \in Seq(More)
  BY DEF IsSeq
<1>2. Elts \subseteq Elts \cup More /\ More \subseteq Elts \cup More
  OBVIOUS
<1>3. s \in Seq(Elts \cup More) /\ t \in Seq(Elts \cup More)
  BY <1>1, <1>2, SeqMonotonic
<1> QED
  BY <1>3, ConcatProperties, LenProperties DEF IsSeq

\* It does not matter which are put together first.
LEMMA SeqsAssociative ==
  ASSUME NEW s, NEW t, NEW u, IsSeq(s), IsSeq(t), IsSeq(u)
  PROVE  s \o (t \o u) = (s \o t) \o u
<1>1. PICK Elts, More, Most : s \in Seq(Elts) /\ t \in Seq(More) /\ u \in Seq(Most)
  BY DEF IsSeq
<1> DEFINE Union3 == Elts \cup More \cup Most
<1>2. Elts \subseteq Union3 /\ More \subseteq Union3 /\ Most \subseteq Union3
  OBVIOUS
<1>3. s \in Seq(Union3) /\ t \in Seq(Union3) /\ u \in Seq(Union3)
  BY <1>1, <1>2, SeqMonotonic
<1> QED
  BY <1>3, ConcatAssociative

\* An assignment is one statement.
LEMMA AssignIs ==
  ASSUME NEW i, NEW exp
  PROVE  /\ IsSeq(Assign(i, exp)) /\ Len(Assign(i, exp)) = 1
         /\ Assign(i, exp)[1] = [dst |-> i, exp |-> exp]
<1>1. Assign(i, exp) \in Seq({[dst |-> i, exp |-> exp]})
  BY DEF Assign
<1> QED
  BY <1>1 DEF Assign, IsSeq

Down == [k \in 1..7 |-> [dst |-> k - 1, exp |-> F(k)]]

\* Moving the stack by one register is seven statements, up or down.
LEMMA ShiftsAre ==
  /\ IsSeq(top_is_top_minus_1) /\ Len(top_is_top_minus_1) = 7
  /\ IsSeq(Down) /\ Len(Down) = 7
<1>1. top_is_top_minus_1 \in Seq({[dst |-> 8 - k, exp |-> F(7 - k)] : k \in 1..7})
  BY DEF top_is_top_minus_1
<1>2. Down \in Seq({[dst |-> k - 1, exp |-> F(k)] : k \in 1..7})
  BY DEF Down
<1>3. Len(top_is_top_minus_1) = 7 /\ Len(Down) = 7
  BY DEF top_is_top_minus_1, Down
<1> QED
  BY <1>1, <1>2, <1>3 DEF IsSeq

\* Turning it is nine: one register goes round by way of tmp (rotstack).
LEMMA TurnsAre ==
  /\ rotstack(-1) = Assign(tmp, F(7)) \o top_is_top_minus_1 \o Assign(0, F(tmp))
  /\ rotstack(1) = Assign(tmp, F(0)) \o Down \o Assign(7, F(tmp))
  /\ IsSeq(rotstack(-1)) /\ Len(rotstack(-1)) = 9
  /\ IsSeq(rotstack(1)) /\ Len(rotstack(1)) = 9
<1>1. rotstack(-1) = Assign(tmp, F(7)) \o top_is_top_minus_1 \o Assign(0, F(tmp))
  BY DEF rotstack
<1>2. rotstack(1) = Assign(tmp, F(0)) \o Down \o Assign(7, F(tmp))
  BY DEF rotstack, Down
<1> DEFINE s1 == Assign(tmp, F(7))
           t1 == Assign(0, F(tmp))
           s2 == Assign(tmp, F(0))
           t2 == Assign(7, F(tmp))
<1>3. /\ IsSeq(s1) /\ Len(s1) = 1 /\ IsSeq(t1) /\ Len(t1) = 1
      /\ IsSeq(s2) /\ Len(s2) = 1 /\ IsSeq(t2) /\ Len(t2) = 1
  BY AssignIs, ZenonT(40)
<1> HIDE DEF s1, t1, s2, t2
<1> DEFINE x1 == s1 \o top_is_top_minus_1
           x2 == s2 \o Down
<1>4. IsSeq(x1) /\ Len(x1) = 8
  <2>1. IsSeq(x1) /\ Len(x1) = Len(s1) + Len(top_is_top_minus_1)
    BY <1>3, ShiftsAre, SeqsConcat
  <2> QED
    BY <1>3, <2>1, ShiftsAre
<1>5. IsSeq(x2) /\ Len(x2) = 8
  <2>1. IsSeq(x2) /\ Len(x2) = Len(s2) + Len(Down)
    BY <1>3, ShiftsAre, SeqsConcat
  <2> QED
    BY <1>3, <2>1, ShiftsAre
<1> HIDE DEF x1, x2
<1>6. IsSeq(x1 \o t1) /\ Len(x1 \o t1) = 9
  <2>1. IsSeq(x1 \o t1) /\ Len(x1 \o t1) = Len(x1) + Len(t1)
    BY <1>3, <1>4, SeqsConcat
  <2> QED
    BY <1>3, <1>4, <2>1
<1>7. IsSeq(x2 \o t2) /\ Len(x2 \o t2) = 9
  <2>1. IsSeq(x2 \o t2) /\ Len(x2 \o t2) = Len(x2) + Len(t2)
    BY <1>3, <1>5, SeqsConcat
  <2> QED
    BY <1>3, <1>5, <2>1
<1> QED
  BY <1>1, <1>2, <1>6, <1>7 DEF x1, x2, s1, t1, s2, t2

\* A sequence with elements is not Unknown.
LEMMA LongKnown ==
  ASSUME NEW s, IsSeq(s), Len(s) > 0
  PROVE  s # Unknown
BY DEF Unknown

---------------------------------------------------------------------------------
Statements(bytes) == decompile1(RowOf(bytes), bytes)

\* The statements of an instruction without an operand (decompile_simple).
LEMMA SimpleOf ==
  ASSUME NEW bytes, NEW name, NEW s, RowOf(bytes) = Insn(name, << >>),
         decompile_simple(name) = s, IsSeq(s), Len(s) > 0
  PROVE  Statements(bytes) = s /\ OnRegisters(RowOf(bytes))
<1>1. Insn(name, << >>).name = name /\ OnRegisters(Insn(name, << >>))
  BY DEF Insn, Entry, OnRegisters
<1>2. s # Unknown
  BY LongKnown
<1> QED
  BY <1>1, <1>2 DEF Statements, decompile1

\* The statements of an instruction on two registers (decompile_registers).
LEMMA RegistersOf ==
  ASSUME NEW bytes, NEW name, NEW i, NEW j,
         RowOf(bytes) = Insn(name, << RF(i), RF(j) >>), decompile_simple(name) = Unknown
  PROVE  /\ Statements(bytes) = decompile_registers(name, i, j)
         /\ OnRegisters(RowOf(bytes))
<1> DEFINE row == Insn(name, << RF(i), RF(j) >>)
<1>1. /\ row.name = name /\ row.ops = << RF(i), RF(j) >> /\ Len(row.ops) = 2
      /\ row.ops # << >> /\ row.kind = "insn" /\ row.sub = "none"
  BY DEF Insn, Entry
<1>2. /\ row.ops[1].method = "RF" /\ row.ops[2].method = "RF"
      /\ row.ops[1].reg = i /\ row.ops[2].reg = j
  <2>1. \A x : RF(x).method = "RF" /\ RF(x).reg = x
    BY DEF RF, Operand
  <2> QED
    BY <1>1, <2>1
<1>3. OnRegisters(row)
  BY <1>1, <1>2 DEF OnRegisters
<1> HIDE DEF row
<1>4. decompile1(row, bytes) = decompile_registers(name, i, j)
  BY <1>1, <1>2 DEF decompile1
<1> QED
  BY <1>3, <1>4 DEF row, Statements

\* The statements of an instruction on a number in memory (decompile_memory).
LEMMA NumberOf ==
  ASSUME NEW bytes, NEW name,
         RowOf(bytes) = Insn(name, << M("fd") >>), decompile_simple(name) = Unknown
  PROVE  /\ Statements(bytes)
              = decompile_memory(name, Operand_of_address(Address(bytes)))
         /\ OnMemoryOperand(RowOf(bytes))
<1> DEFINE row == Insn(name, << M("fd") >>)
<1>1. /\ row.name = name /\ row.ops = << M("fd") >> /\ Len(row.ops) = 1
      /\ row.ops # << >> /\ row.kind = "insn" /\ row.sub = "none"
  BY DEF Insn, Entry
<1>2. row.ops[1].method = "M"
  BY <1>1 DEF M, Operand
<1>3. OnMemoryOperand(row)
  BY <1>1 DEF OnMemoryOperand
<1> HIDE DEF row
<1>4. decompile1(row, bytes) = decompile_memory(name, Operand_of_address(Address(bytes)))
  BY <1>1, <1>2 DEF decompile1
<1> QED
  BY <1>3, <1>4 DEF row, Statements

---------------------------------------------------------------------------------
(***************************************************************************)
(* What the instructions do in the C program and in the machine.           *)
(***************************************************************************)
TwoArguments == { "add", "sub", "mul", "div", "scale", "ylog", "ylog1" }
OneArgument == { "abs", "neg", "sqrt", "2^x-1", "cos", "sin" }

\* Expressions with one, two and three variables.
Of1(op, i) == << op, F(i) >>
Of2(op, i, j) == << op, F(i), F(j) >>

Unary(bytes, op) ==
  /\ op \in OneArgument /\ Statements(bytes) = Assign(0, Of1(op, 0))
  /\ \A l, m, printed : ~m.sigfpe => Execute1(l, m, bytes, printed) = Apply(m, op)
Combines(bytes, op, i, j) ==
  /\ op \in TwoArguments /\ i \in 0..7 /\ j \in 0..7
  /\ Statements(bytes) = Assign(i, Of2(op, i, j))
  /\ \A l, m, printed : ~m.sigfpe => Execute1(l, m, bytes, printed) = Combine(m, op, i, j)
CombinesPops(bytes, op, i, j) ==
  /\ op \in TwoArguments /\ i \in 0..7 /\ j \in 0..7
  /\ Statements(bytes) = Assign(i, Of2(op, i, j)) \o popstack
  /\ \A l, m, printed :
       ~m.sigfpe => Execute1(l, m, bytes, printed) = ThenPop(Combine(m, op, i, j))
PushesLiteral(bytes, x) ==
  /\ x \in { << "0" >>, << "1" >> }
  /\ Statements(bytes) = top_is_top_minus_1 \o Assign(0, x)
  /\ \A l, m, printed : ~m.sigfpe => Execute1(l, m, bytes, printed) = Push(m, x)
TurnsUp(bytes) ==
  /\ Statements(bytes) = rotstack(-1)
  /\ \A l, m, printed : ~m.sigfpe => Execute1(l, m, bytes, printed) = Turn(m, 7)
TurnsDown(bytes) ==
  /\ Statements(bytes) = rotstack(1)
  /\ \A l, m, printed : ~m.sigfpe => Execute1(l, m, bytes, printed) = Turn(m, 1)

\* The class of every instruction without an operand.
LEMMA NoArgClasses ==
  ASSUME NEW b2 \in NoArgBytes, NEW bytes, bytes = << \hD9, b2 >>
  PROVE  /\ OnRegisters(RowOf(bytes))
         /\ \/ \E op : Unary(bytes, op)
            \/ \E op, i, j : Combines(bytes, op, i, j) \/ CombinesPops(bytes, op, i, j)
            \/ \E x : PushesLiteral(bytes, x)
            \/ TurnsUp(bytes) \/ TurnsDown(bytes)
<1>1. /\ Len(bytes) = 2 /\ bytes[1] = \hD9 /\ bytes[2] = b2 /\ b2 >= \hE0
  BY DEF NoArgBytes
<1>2. \A l, m, printed : ~m.sigfpe => Execute1(l, m, bytes, printed) = ExecuteNoArg(m, b2)
  BY <1>1 DEF Execute1
<1>3. RowOf(bytes) = Row("D9C0", b2)
  BY NoArgRow
<1>4. ASSUME NEW name, NEW op \in OneArgument,
             RowOf(bytes) = Insn(name, << >>),
             decompile_simple(name) = Assign(0, Of1(op, 0)),
             \A m : ExecuteNoArg(m, b2) = Apply(m, op)
      PROVE  OnRegisters(RowOf(bytes)) /\ Unary(bytes, op)
  <2> DEFINE s == Assign(0, Of1(op, 0))
  <2>1. IsSeq(s) /\ Len(s) > 0 /\ decompile_simple(name) = s
    <3>1. IsSeq(s) /\ Len(s) = 1
      BY AssignIs
    <3> QED
      BY <1>4, <3>1
  <2> HIDE DEF s
  <2>2. Statements(bytes) = s /\ OnRegisters(RowOf(bytes))
    BY <1>4, <2>1, SimpleOf
  <2> QED
    BY <1>2, <1>4, <2>2 DEF Unary, s
<1>5. ASSUME NEW name, NEW op \in TwoArguments, NEW i \in 0..7, NEW j \in 0..7,
             RowOf(bytes) = Insn(name, << >>),
             decompile_simple(name) = Assign(i, Of2(op, i, j)) \o popstack,
             \A m : ExecuteNoArg(m, b2) = ThenPop(Combine(m, op, i, j))
      PROVE  OnRegisters(RowOf(bytes)) /\ CombinesPops(bytes, op, i, j)
  <2> DEFINE t == Assign(i, Of2(op, i, j))
             s == t \o popstack
  <2>1. IsSeq(s) /\ Len(s) > 0
    <3>1. IsSeq(t) /\ Len(t) = 1
      BY AssignIs
    <3>2. IsSeq(popstack) /\ Len(popstack) = 9
      BY TurnsAre DEF popstack
    <3> HIDE DEF t
    <3>3. IsSeq(s) /\ Len(s) = Len(t) + Len(popstack)
      BY <3>1, <3>2, SeqsConcat
    <3> QED
      BY <3>1, <3>2, <3>3
  <2>2. decompile_simple(name) = s
    BY <1>5
  <2> HIDE DEF s
  <2>3. Statements(bytes) = s /\ OnRegisters(RowOf(bytes))
    BY <1>5, <2>1, <2>2, SimpleOf
  <2> QED
    BY <1>2, <1>5, <2>3, ZenonT(40) DEF CombinesPops, s
<1>6. ASSUME NEW name, NEW x \in { << "0" >>, << "1" >> },
             RowOf(bytes) = Insn(name, << >>),
             decompile_simple(name) = top_is_top_minus_1 \o Assign(0, x),
             \A m : ExecuteNoArg(m, b2) = Push(m, x)
      PROVE  OnRegisters(RowOf(bytes)) /\ PushesLiteral(bytes, x)
  <2> DEFINE t == Assign(0, x)
             s == top_is_top_minus_1 \o t
  <2>1. IsSeq(s) /\ Len(s) > 0
    <3>1. IsSeq(t) /\ Len(t) = 1
      BY AssignIs
    <3> HIDE DEF t
    <3>2. IsSeq(s) /\ Len(s) = Len(top_is_top_minus_1) + Len(t)
      BY <3>1, ShiftsAre, SeqsConcat
    <3> QED
      BY <3>1, <3>2, ShiftsAre
  <2>2. decompile_simple(name) = s
    BY <1>6
  <2> HIDE DEF s
  <2>3. Statements(bytes) = s /\ OnRegisters(RowOf(bytes))
    BY <1>6, <2>1, <2>2, SimpleOf
  <2> QED
    BY <1>2, <1>6, <2>3, ZenonT(40) DEF PushesLiteral, s
<1>7. CASE b2 \in {\hE0, \hE1, \hFA, \hFE, \hFF, \hF0}
  <2>1. ASSUME b2 = \hE0 PROVE OnRegisters(RowOf(bytes)) /\ Unary(bytes, "neg")
    <3>1. RowOf(bytes) = Insn("fchs", << >>)
      BY <1>3, <2>1, NoArgRows DEF NoArg
    <3>2. decompile_simple("fchs") = Assign(0, Of1("neg", 0)) /\ "neg" \in OneArgument
      BY DEF decompile_simple, Functions0, OneArgument, Of1
    <3>3. \A m : ExecuteNoArg(m, b2) = Apply(m, "neg")
      BY <2>1 DEF ExecuteNoArg
    <3> QED
      BY <1>4, <3>1, <3>2, <3>3
  <2>2. ASSUME b2 = \hE1 PROVE OnRegisters(RowOf(bytes)) /\ Unary(bytes, "abs")
    <3>1. RowOf(bytes) = Insn("fabs", << >>)
      BY <1>3, <2>2, NoArgRows DEF NoArg
    <3>2. decompile_simple("fabs") = Assign(0, Of1("abs", 0)) /\ "abs" \in OneArgument
      BY DEF decompile_simple, Functions0, OneArgument, Of1
    <3>3. \A m : ExecuteNoArg(m, b2) = Apply(m, "abs")
      BY <2>2 DEF ExecuteNoArg
    <3> QED
      BY <1>4, <3>1, <3>2, <3>3
  <2>3. ASSUME b2 = \hFA PROVE OnRegisters(RowOf(bytes)) /\ Unary(bytes, "sqrt")
    <3>1. RowOf(bytes) = Insn("fsqrt", << >>)
      BY <1>3, <2>3, NoArgRows DEF NoArg
    <3>2. decompile_simple("fsqrt") = Assign(0, Of1("sqrt", 0)) /\ "sqrt" \in OneArgument
      BY DEF decompile_simple, Functions0, OneArgument, Of1
    <3>3. \A m : ExecuteNoArg(m, b2) = Apply(m, "sqrt")
      BY <2>3 DEF ExecuteNoArg
    <3> QED
      BY <1>4, <3>1, <3>2, <3>3
  <2>4. ASSUME b2 = \hFE PROVE OnRegisters(RowOf(bytes)) /\ Unary(bytes, "sin")
    <3>1. RowOf(bytes) = Insn("fsin", << >>)
      BY <1>3, <2>4, NoArgRows DEF NoArg
    <3>2. decompile_simple("fsin") = Assign(0, Of1("sin", 0)) /\ "sin" \in OneArgument
      BY DEF decompile_simple, Functions0, OneArgument, Of1
    <3>3. \A m : ExecuteNoArg(m, b2) = Apply(m, "sin")
      BY <2>4 DEF ExecuteNoArg
    <3> QED
      BY <1>4, <3>1, <3>2, <3>3
  <2>5. ASSUME b2 = \hFF PROVE OnRegisters(RowOf(bytes)) /\ Unary(bytes, "cos")
    <3>1. RowOf(bytes) = Insn("fcos", << >>)
      BY <1>3, <2>5, NoArgRows DEF NoArg
    <3>2. decompile_simple("fcos") = Assign(0, Of1("cos", 0)) /\ "cos" \in OneArgument
      BY DEF decompile_simple, Functions0, OneArgument, Of1
    <3>3. \A m : ExecuteNoArg(m, b2) = Apply(m, "cos")
      BY <2>5 DEF ExecuteNoArg
    <3> QED
      BY <1>4, <3>1, <3>2, <3>3
  <2>6. ASSUME b2 = \hF0 PROVE OnRegisters(RowOf(bytes)) /\ Unary(bytes, "2^x-1")
    <3>1. RowOf(bytes) = Insn("f2xm1", << >>)
      BY <1>3, <2>6, NoArgRows DEF NoArg
    <3>2. decompile_simple("f2xm1") = Assign(0, Of1("2^x-1", 0)) /\ "2^x-1" \in OneArgument
      BY DEF decompile_simple, Functions0, OneArgument, Of1
    <3>3. \A m : ExecuteNoArg(m, b2) = Apply(m, "2^x-1")
      BY <2>6 DEF ExecuteNoArg
    <3> QED
      BY <1>4, <3>1, <3>2, <3>3
  <2> QED
    BY <1>7, <2>1, <2>2, <2>3, <2>4, <2>5, <2>6
<1>8. CASE b2 = \hFD
  <2> DEFINE s == Assign(0, Of2("scale", 0, 1))
  <2>1. RowOf(bytes) = Insn("fscale", << >>)
    BY <1>3, <1>8, NoArgRows DEF NoArg
  <2>2. decompile_simple("fscale") = s
    BY DEF decompile_simple, Functions0, Of2
  <2>3. IsSeq(s) /\ Len(s) > 0
    <3>1. IsSeq(s) /\ Len(s) = 1
      BY AssignIs
    <3> QED
      BY <3>1
  <2> HIDE DEF s
  <2>4. Statements(bytes) = s /\ OnRegisters(RowOf(bytes))
    BY <2>1, <2>2, <2>3, SimpleOf
  <2>5. \A m : ExecuteNoArg(m, b2) = Combine(m, "scale", 0, 1)
    BY <1>8 DEF ExecuteNoArg
  <2>6. "scale" \in TwoArguments
    BY DEF TwoArguments
  <2> QED
    BY <1>2, <2>4, <2>5, <2>6 DEF Combines, s
<1>9. CASE b2 \in {\hF1, \hF9}
  <2>1. ASSUME b2 = \hF1 PROVE OnRegisters(RowOf(bytes)) /\ CombinesPops(bytes, "ylog", 1, 0)
    <3>1. RowOf(bytes) = Insn("fyl2x", << >>)
      BY <1>3, <2>1, NoArgRows DEF NoArg
    <3>2. /\ decompile_simple("fyl2x") = Assign(1, Of2("ylog", 1, 0)) \o popstack
          /\ "ylog" \in TwoArguments
      BY DEF decompile_simple, Functions0, TwoArguments, Of2
    <3>3. \A m : ExecuteNoArg(m, b2) = ThenPop(Combine(m, "ylog", 1, 0))
      BY <2>1 DEF ExecuteNoArg
    <3> QED
      BY <1>5, <3>1, <3>2, <3>3, 0 \in 0..7, 1 \in 0..7, Zenon
  <2>2. ASSUME b2 = \hF9 PROVE OnRegisters(RowOf(bytes)) /\ CombinesPops(bytes, "ylog1", 1, 0)
    <3>1. RowOf(bytes) = Insn("fyl2xp1", << >>)
      BY <1>3, <2>2, NoArgRows DEF NoArg
    <3>2. /\ decompile_simple("fyl2xp1") = Assign(1, Of2("ylog1", 1, 0)) \o popstack
          /\ "ylog1" \in TwoArguments
      BY DEF decompile_simple, Functions0, TwoArguments, Of2
    <3>3. \A m : ExecuteNoArg(m, b2) = ThenPop(Combine(m, "ylog1", 1, 0))
      BY <2>2 DEF ExecuteNoArg
    <3> QED
      BY <1>5, <3>1, <3>2, <3>3, 0 \in 0..7, 1 \in 0..7, Zenon
  <2> QED
    BY <1>9, <2>1, <2>2
<1>10. CASE b2 \in {\hE8, \hEE}
  <2>1. ASSUME b2 = \hE8 PROVE OnRegisters(RowOf(bytes)) /\ PushesLiteral(bytes, << "1" >>)
    <3>1. RowOf(bytes) = Insn("fld1", << >>)
      BY <1>3, <2>1, NoArgRows DEF NoArg
    <3>2. decompile_simple("fld1") = top_is_top_minus_1 \o Assign(0, << "1" >>)
      BY DEF decompile_simple, Functions0
    <3>3. \A m : ExecuteNoArg(m, b2) = Push(m, << "1" >>)
      BY <2>1 DEF ExecuteNoArg
    <3> QED
      BY <1>6, <3>1, <3>2, <3>3
  <2>2. ASSUME b2 = \hEE PROVE OnRegisters(RowOf(bytes)) /\ PushesLiteral(bytes, << "0" >>)
    <3>1. RowOf(bytes) = Insn("fldz", << >>)
      BY <1>3, <2>2, NoArgRows DEF NoArg
    <3>2. decompile_simple("fldz") = top_is_top_minus_1 \o Assign(0, << "0" >>)
      BY DEF decompile_simple, Functions0
    <3>3. \A m : ExecuteNoArg(m, b2) = Push(m, << "0" >>)
      BY <2>2 DEF ExecuteNoArg
    <3> QED
      BY <1>6, <3>1, <3>2, <3>3
  <2> QED
    BY <1>10, <2>1, <2>2
<1>11. CASE b2 = \hF6
  <2>1. RowOf(bytes) = Insn("fdecstp", << >>)
    BY <1>3, <1>11, NoArgRows DEF NoArg
  <2>2. decompile_simple("fdecstp") = rotstack(-1)
    BY DEF decompile_simple, Functions0
  <2>3. Statements(bytes) = rotstack(-1) /\ OnRegisters(RowOf(bytes))
    <3> DEFINE s == rotstack(-1)
    <3>1. IsSeq(s) /\ Len(s) > 0 /\ decompile_simple("fdecstp") = s
      BY <2>2, TurnsAre
    <3> HIDE DEF s
    <3>2. Statements(bytes) = s /\ OnRegisters(RowOf(bytes))
      BY <2>1, <3>1, SimpleOf
    <3> QED
      BY <3>2 DEF s
  <2>4. \A m : ExecuteNoArg(m, b2) = Turn(m, 7)
    BY <1>11 DEF ExecuteNoArg
  <2> QED
    BY <1>2, <2>3, <2>4 DEF TurnsUp
<1>12. CASE b2 = \hF7
  <2>1. RowOf(bytes) = Insn("fincstp", << >>)
    BY <1>3, <1>12, NoArgRows DEF NoArg
  <2>2. decompile_simple("fincstp") = rotstack(1)
    BY DEF decompile_simple, Functions0
  <2>3. Statements(bytes) = rotstack(1) /\ OnRegisters(RowOf(bytes))
    <3> DEFINE s == rotstack(1)
    <3>1. IsSeq(s) /\ Len(s) > 0 /\ decompile_simple("fincstp") = s
      BY <2>2, TurnsAre
    <3> HIDE DEF s
    <3>2. Statements(bytes) = s /\ OnRegisters(RowOf(bytes))
      BY <2>1, <3>1, SimpleOf
    <3> QED
      BY <3>2 DEF s
  <2>4. \A m : ExecuteNoArg(m, b2) = Turn(m, 1)
    BY <1>12 DEF ExecuteNoArg
  <2> QED
    BY <1>2, <2>3, <2>4 DEF TurnsDown
<1> QED
  BY <1>7, <1>8, <1>9, <1>10, <1>11, <1>12 DEF NoArgBytes

If3(i, j) == << "if", F(cflag), F(i), F(j) >>

StoresTop(bytes, n) ==
  /\ n \in 0..7 /\ Statements(bytes) = Assign(n, F(0))
  /\ \A l, m, printed :
       ~m.sigfpe => Execute1(l, m, bytes, printed) = CopyTop(m, n)
Loads(bytes, n) ==
  /\ n \in 0..7 /\ bytes[1] = \hD9 /\ bytes[2] = \hC0 + n
  /\ Statements(bytes) = Assign(tmp, F(0)) \o top_is_top_minus_1 \o Assign(0, F(tmp))
  /\ \A l, m, printed :
       ~m.sigfpe => Execute1(l, m, bytes, printed) = PushCopy(m, n)
Exchanges(bytes, n) ==
  /\ n \in 0..7
  /\ Statements(bytes) = Assign(tmp, F(0)) \o Assign(0, F(n)) \o Assign(n, F(tmp))
  /\ \A l, m, printed :
       ~m.sigfpe => Execute1(l, m, bytes, printed) = Exchange(m, n)
ComparesWith(bytes, n) ==
  /\ n \in 0..7
  /\ Statements(bytes) = Assign(cflag, Of2("less", 0, n))
  /\ \A l, m, printed :
       ~m.sigfpe => Execute1(l, m, bytes, printed) = SetFlag(m, n)
MovesIf(bytes, n, i, j) ==
  /\ n \in 0..7 /\ ((i = 0 /\ j = n) \/ (i = n /\ j = 0))
  /\ bytes[1] \in {\hDA, \hDB} /\ bytes[2] < \hE0
  /\ Statements(bytes) = Assign(0, If3(i, j))
  /\ \A l, m, printed :
       ~m.sigfpe => Execute1(l, m, bytes, printed) = Choose(m, i, j)

Compare(bytes) == bytes[1] = \hDB /\ bytes[2] >= \hF0

\* The register an instruction is on is the remainder of its second byte by 8.
LEMMA ExecutesRegister ==
  ASSUME NEW bytes, NEW b1, NEW b2, NEW n, RegisterForm(bytes, b1, b2, n)
  PROVE  /\ \A l, m, printed : ~m.sigfpe => Execute1(l, m, bytes, printed)
                                            = ExecuteRegister(m, b1, b2 + n)
         /\ (b2 + n) % 8 = n /\ (b2 + n) - n = b2
<1>1. b2 \in {\hC0, \hC8, \hD0, \hE0, \hE8, \hF0, \hF8} /\ n \in 0..7
  BY DEF RegisterForm, twobyte_regarg, commented_regarg
<1>2. (b2 + n) % 8 = n /\ (b2 + n) - n = b2
  BY <1>1
<1>3. /\ bytes[1] \notin {\h55, \h89, \h5D, \hC3} /\ Len(bytes) # 6
      /\ ~(bytes[1] = \hD9 /\ bytes[2] >= \hE0)
  <2>1. /\ b1 \notin {\h55, \h89, \h5D, \hC3}
        /\ b1 = \hD9 => b2 \in {\hC0, \hC8}
    BY DEF RegisterForm, twobyte_regarg, commented_regarg
  <2> QED
    BY <1>1, <2>1 DEF RegisterForm
<1>4. bytes[1] = b1 /\ bytes[2] = b2 + n
  BY DEF RegisterForm
<1> QED
  BY <1>2, <1>3, <1>4 DEF Execute1

\* The class of every instruction on a register.
LEMMA RegisterClasses ==
  ASSUME NEW bytes, NEW b1, NEW b2, NEW n, RegisterForm(bytes, b1, b2, n)
  PROVE  /\ OnRegisters(RowOf(bytes))
         /\ \/ /\ ~Compare(bytes)
               /\ \/ \E op, i, j : Combines(bytes, op, i, j) \/ CombinesPops(bytes, op, i, j)
                  \/ StoresTop(bytes, n) \/ Loads(bytes, n) \/ Exchanges(bytes, n)
                  \/ \E i, j : MovesIf(bytes, n, i, j)
            \/ ComparesWith(bytes, n)
<1>1. /\ Len(bytes) = 2 /\ bytes[1] = b1 /\ bytes[2] = b2 + n /\ n \in 0..7
      /\ << b1, b2 >> \in twobyte_regarg \cup commented_regarg /\ 0 \in 0..7
  BY DEF RegisterForm
<1>2. /\ \A l, m, printed : ~m.sigfpe => Execute1(l, m, bytes, printed)
                                          = ExecuteRegister(m, b1, b2 + n)
      /\ (b2 + n) % 8 = n /\ (b2 + n) - n = b2
  BY ExecutesRegister
<1>3. \A k \in 1..8 : b1 = \hD7 + k => RowOf(bytes) = Row(FpuExt(Escape[k]), b2 + n)
  BY RegisterRow
<1>4. /\ FpuExt(Escape[1]) = "D8C0" /\ FpuExt(Escape[2]) = "D9C0"
      /\ FpuExt(Escape[3]) = "DAC0" /\ FpuExt(Escape[4]) = "DBC0"
      /\ FpuExt(Escape[5]) = "DCC0" /\ FpuExt(Escape[6]) = "DDC0"
      /\ FpuExt(Escape[7]) = "DEC0"
  BY DEF FpuExt, Escape
<1>5. ASSUME NEW name, NEW op \in TwoArguments, NEW i \in 0..7, NEW j \in 0..7,
             RowOf(bytes) = Insn(name, << RF(i), RF(j) >>),
             decompile_simple(name) = Unknown,
             decompile_registers(name, i, j) = Assign(i, Of2(op, i, j)) \o << >>,
             \A m : ExecuteRegister(m, b1, b2 + n) = Combine(m, op, i, j)
      PROVE  OnRegisters(RowOf(bytes)) /\ Combines(bytes, op, i, j)
  <2> DEFINE s == Assign(i, Of2(op, i, j))
  <2>1. s \o << >> = s
    <3>1. IsSeq(s)
      BY AssignIs
    <3> HIDE DEF s
    <3> QED
      BY <3>1, ConcatEmptySeq DEF IsSeq
  <2>2. Statements(bytes) = s /\ OnRegisters(RowOf(bytes))
    BY <1>5, <2>1, RegistersOf
  <2> QED
    BY <1>2, <1>5, <2>2 DEF Combines
<1>6. ASSUME NEW name, NEW op \in TwoArguments, NEW i \in 0..7, NEW j \in 0..7,
             RowOf(bytes) = Insn(name, << RF(i), RF(j) >>),
             decompile_simple(name) = Unknown,
             decompile_registers(name, i, j) = Assign(i, Of2(op, i, j)) \o popstack,
             \A m : ExecuteRegister(m, b1, b2 + n) = ThenPop(Combine(m, op, i, j))
      PROVE  OnRegisters(RowOf(bytes)) /\ CombinesPops(bytes, op, i, j)
  <2>1. /\ Statements(bytes) = Assign(i, Of2(op, i, j)) \o popstack
        /\ OnRegisters(RowOf(bytes))
    BY <1>6, RegistersOf
  <2> QED
    BY <1>2, <1>6, <2>1 DEF CombinesPops
<1>7. CASE b1 = \hD8 /\ b2 = \hC0
  <2>1. RowOf(bytes) = Insn("fadd", << RF(0), RF(n) >>)
    <3>1. RowOf(bytes) = Row("D8C0", \hC0 + n)
      BY <1>3, <1>4, <1>7, \hD8 = \hD7 + 1
    <3> QED
      BY <1>1, <3>1, TopFirstRows DEF TopFirst
  <2>2. decompile_simple("fadd") = Unknown
    BY DEF decompile_simple, Functions0
  <2>3. /\ decompile_registers("fadd", 0, n) = Assign(0, Of2("add", 0, n)) \o << >>
        /\ "add" \in TwoArguments
    BY DEF decompile_registers, Arithmetic_ops, Popping, TwoArguments, Of2
  <2>4. \A m : ExecuteRegister(m, b1, b2 + n) = Combine(m, "add", 0, n)
    BY <1>2, <1>7 DEF ExecuteRegister
  <2>5. OnRegisters(RowOf(bytes)) /\ Combines(bytes, "add", 0, n)
    BY <1>5, <1>1, <2>1, <2>2, <2>3, <2>4, Zenon
  <2>6. ~Compare(bytes)
    BY <1>1, <1>7 DEF Compare
  <2> QED
    BY <2>5, <2>6
<1>8. CASE b1 = \hD8 /\ b2 = \hC8
  <2>1. RowOf(bytes) = Insn("fmul", << RF(0), RF(n) >>)
    <3>1. RowOf(bytes) = Row("D8C0", \hC8 + n)
      BY <1>3, <1>4, <1>8, \hD8 = \hD7 + 1
    <3> QED
      BY <1>1, <3>1, TopFirstRows DEF TopFirst
  <2>2. decompile_simple("fmul") = Unknown
    BY DEF decompile_simple, Functions0
  <2>3. /\ decompile_registers("fmul", 0, n) = Assign(0, Of2("mul", 0, n)) \o << >>
        /\ "mul" \in TwoArguments
    BY DEF decompile_registers, Arithmetic_ops, Popping, TwoArguments, Of2
  <2>4. \A m : ExecuteRegister(m, b1, b2 + n) = Combine(m, "mul", 0, n)
    BY <1>2, <1>8 DEF ExecuteRegister
  <2>5. OnRegisters(RowOf(bytes)) /\ Combines(bytes, "mul", 0, n)
    BY <1>5, <1>1, <2>1, <2>2, <2>3, <2>4, Zenon
  <2>6. ~Compare(bytes)
    BY <1>1, <1>8 DEF Compare
  <2> QED
    BY <2>5, <2>6
<1>9. CASE b1 = \hD8 /\ b2 = \hE0
  <2>1. RowOf(bytes) = Insn("fsub", << RF(0), RF(n) >>)
    <3>1. RowOf(bytes) = Row("D8C0", \hE0 + n)
      BY <1>3, <1>4, <1>9, \hD8 = \hD7 + 1
    <3> QED
      BY <1>1, <3>1, TopFirstRows DEF TopFirst
  <2>2. decompile_simple("fsub") = Unknown
    BY DEF decompile_simple, Functions0
  <2>3. /\ decompile_registers("fsub", 0, n) = Assign(0, Of2("sub", 0, n)) \o << >>
        /\ "sub" \in TwoArguments
    BY DEF decompile_registers, Arithmetic_ops, Popping, TwoArguments, Of2
  <2>4. \A m : ExecuteRegister(m, b1, b2 + n) = Combine(m, "sub", 0, n)
    BY <1>2, <1>9 DEF ExecuteRegister
  <2>5. OnRegisters(RowOf(bytes)) /\ Combines(bytes, "sub", 0, n)
    BY <1>5, <1>1, <2>1, <2>2, <2>3, <2>4, Zenon
  <2>6. ~Compare(bytes)
    BY <1>1, <1>9 DEF Compare
  <2> QED
    BY <2>5, <2>6
<1>10. CASE b1 = \hD8 /\ b2 = \hF0
  <2>1. RowOf(bytes) = Insn("fdiv", << RF(0), RF(n) >>)
    <3>1. RowOf(bytes) = Row("D8C0", \hF0 + n)
      BY <1>3, <1>4, <1>10, \hD8 = \hD7 + 1
    <3> QED
      BY <1>1, <3>1, TopFirstRows DEF TopFirst
  <2>2. decompile_simple("fdiv") = Unknown
    BY DEF decompile_simple, Functions0
  <2>3. /\ decompile_registers("fdiv", 0, n) = Assign(0, Of2("div", 0, n)) \o << >>
        /\ "div" \in TwoArguments
    BY DEF decompile_registers, Arithmetic_ops, Popping, TwoArguments, Of2
  <2>4. \A m : ExecuteRegister(m, b1, b2 + n) = Combine(m, "div", 0, n)
    BY <1>2, <1>10 DEF ExecuteRegister
  <2>5. OnRegisters(RowOf(bytes)) /\ Combines(bytes, "div", 0, n)
    BY <1>5, <1>1, <2>1, <2>2, <2>3, <2>4, Zenon
  <2>6. ~Compare(bytes)
    BY <1>1, <1>10 DEF Compare
  <2> QED
    BY <2>5, <2>6
<1>11. CASE b1 = \hDC /\ b2 = \hC0
  <2>1. RowOf(bytes) = Insn("fadd", << RF(n), RF(0) >>)
    <3>1. RowOf(bytes) = Row("DCC0", \hC0 + n)
      BY <1>3, <1>4, <1>11, \hDC = \hD7 + 5
    <3> QED
      BY <1>1, <3>1, TopLastRows DEF TopLast
  <2>2. decompile_simple("fadd") = Unknown
    BY DEF decompile_simple, Functions0
  <2>3. /\ decompile_registers("fadd", n, 0) = Assign(n, Of2("add", n, 0)) \o << >>
        /\ "add" \in TwoArguments
    BY DEF decompile_registers, Arithmetic_ops, Popping, TwoArguments, Of2
  <2>4. \A m : ExecuteRegister(m, b1, b2 + n) = Combine(m, "add", n, 0)
    BY <1>2, <1>11 DEF ExecuteRegister
  <2>5. OnRegisters(RowOf(bytes)) /\ Combines(bytes, "add", n, 0)
    BY <1>5, <1>1, <2>1, <2>2, <2>3, <2>4, Zenon
  <2>6. ~Compare(bytes)
    BY <1>1, <1>11 DEF Compare
  <2> QED
    BY <2>5, <2>6
<1>12. CASE b1 = \hDC /\ b2 = \hC8
  <2>1. RowOf(bytes) = Insn("fmul", << RF(n), RF(0) >>)
    <3>1. RowOf(bytes) = Row("DCC0", \hC8 + n)
      BY <1>3, <1>4, <1>12, \hDC = \hD7 + 5
    <3> QED
      BY <1>1, <3>1, TopLastRows DEF TopLast
  <2>2. decompile_simple("fmul") = Unknown
    BY DEF decompile_simple, Functions0
  <2>3. /\ decompile_registers("fmul", n, 0) = Assign(n, Of2("mul", n, 0)) \o << >>
        /\ "mul" \in TwoArguments
    BY DEF decompile_registers, Arithmetic_ops, Popping, TwoArguments, Of2
  <2>4. \A m : ExecuteRegister(m, b1, b2 + n) = Combine(m, "mul", n, 0)
    BY <1>2, <1>12 DEF ExecuteRegister
  <2>5. OnRegisters(RowOf(bytes)) /\ Combines(bytes, "mul", n, 0)
    BY <1>5, <1>1, <2>1, <2>2, <2>3, <2>4, Zenon
  <2>6. ~Compare(bytes)
    BY <1>1, <1>12 DEF Compare
  <2> QED
    BY <2>5, <2>6
<1>13. CASE b1 = \hDC /\ b2 = \hE8
  <2>1. RowOf(bytes) = Insn("fsub", << RF(n), RF(0) >>)
    <3>1. RowOf(bytes) = Row("DCC0", \hE8 + n)
      BY <1>3, <1>4, <1>13, \hDC = \hD7 + 5
    <3> QED
      BY <1>1, <3>1, TopLastRows DEF TopLast
  <2>2. decompile_simple("fsub") = Unknown
    BY DEF decompile_simple, Functions0
  <2>3. /\ decompile_registers("fsub", n, 0) = Assign(n, Of2("sub", n, 0)) \o << >>
        /\ "sub" \in TwoArguments
    BY DEF decompile_registers, Arithmetic_ops, Popping, TwoArguments, Of2
  <2>4. \A m : ExecuteRegister(m, b1, b2 + n) = Combine(m, "sub", n, 0)
    BY <1>2, <1>13 DEF ExecuteRegister
  <2>5. OnRegisters(RowOf(bytes)) /\ Combines(bytes, "sub", n, 0)
    BY <1>5, <1>1, <2>1, <2>2, <2>3, <2>4, Zenon
  <2>6. ~Compare(bytes)
    BY <1>1, <1>13 DEF Compare
  <2> QED
    BY <2>5, <2>6
<1>14. CASE b1 = \hDE /\ b2 = \hC0
  <2>1. RowOf(bytes) = Insn("faddp", << RF(n), RF(0) >>)
    <3>1. RowOf(bytes) = Row("DEC0", \hC0 + n)
      BY <1>3, <1>4, <1>14, \hDE = \hD7 + 7
    <3> QED
      BY <1>1, <3>1, TopLastRows DEF TopLast
  <2>2. decompile_simple("faddp") = Unknown
    BY DEF decompile_simple, Functions0
  <2>3. /\ decompile_registers("faddp", n, 0) = Assign(n, Of2("add", n, 0)) \o popstack
        /\ "add" \in TwoArguments
    BY DEF decompile_registers, Arithmetic_ops, Popping, TwoArguments, Of2
  <2>4. \A m : ExecuteRegister(m, b1, b2 + n) = ThenPop(Combine(m, "add", n, 0))
    BY <1>2, <1>14 DEF ExecuteRegister
  <2>5. OnRegisters(RowOf(bytes)) /\ CombinesPops(bytes, "add", n, 0)
    BY <1>6, <1>1, <2>1, <2>2, <2>3, <2>4, Zenon
  <2>6. ~Compare(bytes)
    BY <1>1, <1>14 DEF Compare
  <2> QED
    BY <2>5, <2>6
<1>15. CASE b1 = \hDE /\ b2 = \hC8
  <2>1. RowOf(bytes) = Insn("fmulp", << RF(n), RF(0) >>)
    <3>1. RowOf(bytes) = Row("DEC0", \hC8 + n)
      BY <1>3, <1>4, <1>15, \hDE = \hD7 + 7
    <3> QED
      BY <1>1, <3>1, TopLastRows DEF TopLast
  <2>2. decompile_simple("fmulp") = Unknown
    BY DEF decompile_simple, Functions0
  <2>3. /\ decompile_registers("fmulp", n, 0) = Assign(n, Of2("mul", n, 0)) \o popstack
        /\ "mul" \in TwoArguments
    BY DEF decompile_registers, Arithmetic_ops, Popping, TwoArguments, Of2
  <2>4. \A m : ExecuteRegister(m, b1, b2 + n) = ThenPop(Combine(m, "mul", n, 0))
    BY <1>2, <1>15 DEF ExecuteRegister
  <2>5. OnRegisters(RowOf(bytes)) /\ CombinesPops(bytes, "mul", n, 0)
    BY <1>6, <1>1, <2>1, <2>2, <2>3, <2>4, Zenon
  <2>6. ~Compare(bytes)
    BY <1>1, <1>15 DEF Compare
  <2> QED
    BY <2>5, <2>6
<1>16. CASE b1 = \hDE /\ b2 = \hE8
  <2>1. RowOf(bytes) = Insn("fsubp", << RF(n), RF(0) >>)
    <3>1. RowOf(bytes) = Row("DEC0", \hE8 + n)
      BY <1>3, <1>4, <1>16, \hDE = \hD7 + 7
    <3> QED
      BY <1>1, <3>1, TopLastRows DEF TopLast
  <2>2. decompile_simple("fsubp") = Unknown
    BY DEF decompile_simple, Functions0
  <2>3. /\ decompile_registers("fsubp", n, 0) = Assign(n, Of2("sub", n, 0)) \o popstack
        /\ "sub" \in TwoArguments
    BY DEF decompile_registers, Arithmetic_ops, Popping, TwoArguments, Of2
  <2>4. \A m : ExecuteRegister(m, b1, b2 + n) = ThenPop(Combine(m, "sub", n, 0))
    BY <1>2, <1>16 DEF ExecuteRegister
  <2>5. OnRegisters(RowOf(bytes)) /\ CombinesPops(bytes, "sub", n, 0)
    BY <1>6, <1>1, <2>1, <2>2, <2>3, <2>4, Zenon
  <2>6. ~Compare(bytes)
    BY <1>1, <1>16 DEF Compare
  <2> QED
    BY <2>5, <2>6
<1>17. CASE b1 = \hDE /\ b2 = \hF8
  <2>1. RowOf(bytes) = Insn("fdivp", << RF(n), RF(0) >>)
    <3>1. RowOf(bytes) = Row("DEC0", \hF8 + n)
      BY <1>3, <1>4, <1>17, \hDE = \hD7 + 7
    <3> QED
      BY <1>1, <3>1, TopLastRows DEF TopLast
  <2>2. decompile_simple("fdivp") = Unknown
    BY DEF decompile_simple, Functions0
  <2>3. /\ decompile_registers("fdivp", n, 0) = Assign(n, Of2("div", n, 0)) \o popstack
        /\ "div" \in TwoArguments
    BY DEF decompile_registers, Arithmetic_ops, Popping, TwoArguments, Of2
  <2>4. \A m : ExecuteRegister(m, b1, b2 + n) = ThenPop(Combine(m, "div", n, 0))
    BY <1>2, <1>17 DEF ExecuteRegister
  <2>5. OnRegisters(RowOf(bytes)) /\ CombinesPops(bytes, "div", n, 0)
    BY <1>6, <1>1, <2>1, <2>2, <2>3, <2>4, Zenon
  <2>6. ~Compare(bytes)
    BY <1>1, <1>17 DEF Compare
  <2> QED
    BY <2>5, <2>6
<1>18. CASE b1 = \hDD /\ b2 = \hD0
  <2> DEFINE row == Insn("fst", << RF(n) >>)
  <2>1. RowOf(bytes) = row
    <3>1. RowOf(bytes) = Row("DDC0", \hD0 + n)
      BY <1>3, <1>4, <1>18, \hDD = \hD7 + 6
    <3> QED
      BY <1>1, <3>1, TopLastRows
  <2>2. decompile_simple("fst") = Unknown
    BY DEF decompile_simple, Functions0
  <2>3. \A reg2 : decompile_registers("fst", n, reg2) = Assign(n, F(0))
    BY DEF decompile_registers, Arithmetic_ops
  <2>4. /\ row.name = "fst" /\ row.ops = << RF(n) >> /\ Len(row.ops) = 1
        /\ row.ops # << >> /\ row.kind = "insn" /\ row.sub = "none"
    BY DEF Insn, Entry
  <2>5. row.ops[1].method = "RF" /\ row.ops[1].reg = n
    <3>1. RF(n).method = "RF" /\ RF(n).reg = n
      BY DEF RF, Operand
    <3> QED
      BY <2>4, <3>1
  <2>6. OnRegisters(row)
    BY <2>4, <2>5 DEF OnRegisters
  <2> HIDE DEF row
  <2>7. Statements(bytes) = Assign(n, F(0))
    BY <2>1, <2>2, <2>3, <2>4, <2>5 DEF Statements, decompile1
  <2>8. \A m : ExecuteRegister(m, b1, b2 + n) = CopyTop(m, n)
    BY <1>2, <1>18 DEF ExecuteRegister
  <2>9. StoresTop(bytes, n)
    BY <1>1, <1>2, <2>7, <2>8 DEF StoresTop
  <2>10. ~Compare(bytes)
    BY <1>1, <1>18 DEF Compare
  <2> QED
    BY <2>1, <2>6, <2>9, <2>10
<1>19. CASE b1 = \hD9 /\ b2 = \hC8
  <2>1. RowOf(bytes) = Insn("fxch", << RF(0), RF(n) >>)
    <3>1. RowOf(bytes) = Row("D9C0", \hC8 + n)
      BY <1>3, <1>4, <1>19, \hD9 = \hD7 + 2
    <3> QED
      BY <1>1, <3>1, TopFirstRows DEF TopFirst
  <2>2. decompile_simple("fxch") = Unknown
    BY DEF decompile_simple, Functions0
  <2>3. decompile_registers("fxch", 0, n) = Assign(tmp, F(0)) \o Assign(0, F(n)) \o Assign(n, F(tmp))
    BY DEF decompile_registers, Arithmetic_ops
  <2>4. Statements(bytes) = decompile_registers("fxch", 0, n) /\ OnRegisters(RowOf(bytes))
    BY <2>1, <2>2, RegistersOf
  <2>5. \A m : ExecuteRegister(m, b1, b2 + n) = Exchange(m, n)
    BY <1>2, <1>19 DEF ExecuteRegister
  <2>6. Exchanges(bytes, n)
    <3>1. bytes[1] = \hD9 /\ bytes[2] = \hC8 + n /\ n \in 0..7
      BY <1>1, <1>19
    <3> QED
      BY <1>2, <2>3, <2>4, <2>5, <3>1 DEF Exchanges
  <2>7. ~Compare(bytes)
    BY <1>1, <1>19 DEF Compare
  <2> QED
    BY <2>4, <2>6, <2>7
<1>20. CASE b1 = \hDB /\ b2 = \hF0
  <2>1. RowOf(bytes) = Insn("fcomi", << RF(0), RF(n) >>)
    <3>1. RowOf(bytes) = Row("DBC0", \hF0 + n)
      BY <1>3, <1>4, <1>20, \hDB = \hD7 + 4
    <3> QED
      BY <1>1, <3>1, TopFirstRows DEF TopFirst
  <2>2. decompile_simple("fcomi") = Unknown
    BY DEF decompile_simple, Functions0
  <2>3. decompile_registers("fcomi", 0, n) = Assign(cflag, Of2("less", 0, n))
    BY DEF decompile_registers, Arithmetic_ops, Of2
  <2>4. Statements(bytes) = decompile_registers("fcomi", 0, n) /\ OnRegisters(RowOf(bytes))
    BY <2>1, <2>2, RegistersOf
  <2>5. \A m : ExecuteRegister(m, b1, b2 + n) = SetFlag(m, n)
    BY <1>2, <1>20 DEF ExecuteRegister
  <2>6. ComparesWith(bytes, n)
    <3>1. bytes[1] = \hDB /\ bytes[2] = \hF0 + n /\ n \in 0..7
      BY <1>1, <1>20
    <3> QED
      BY <1>2, <2>3, <2>4, <2>5, <3>1 DEF ComparesWith
  <2> QED
    BY <2>4, <2>6
<1>21. CASE b1 = \hDA /\ b2 = \hC0
  <2>1. RowOf(bytes) = Insn("fcmovb", << RF(0), RF(n) >>)
    <3>1. RowOf(bytes) = Row("DAC0", \hC0 + n)
      BY <1>3, <1>4, <1>21, \hDA = \hD7 + 3
    <3> QED
      BY <1>1, <3>1, TopFirstRows DEF TopFirst
  <2>2. decompile_simple("fcmovb") = Unknown
    BY DEF decompile_simple, Functions0
  <2>3. decompile_registers("fcmovb", 0, n) = Assign(0, If3(n, 0))
    BY DEF decompile_registers, Arithmetic_ops, If3
  <2>4. Statements(bytes) = decompile_registers("fcmovb", 0, n) /\ OnRegisters(RowOf(bytes))
    BY <2>1, <2>2, RegistersOf
  <2>5. \A m : ExecuteRegister(m, b1, b2 + n) = Choose(m, n, 0)
    BY <1>2, <1>21 DEF ExecuteRegister
  <2>6. MovesIf(bytes, n, n, 0)
    <3>1. bytes[1] = \hDA /\ bytes[2] = \hC0 + n /\ n \in 0..7
      BY <1>1, <1>21
    <3> QED
      BY <1>2, <2>3, <2>4, <2>5, <3>1 DEF MovesIf
  <2>7. ~Compare(bytes)
    BY <1>1, <1>21 DEF Compare
  <2> QED
    BY <2>4, <2>6, <2>7
<1>22. CASE b1 = \hDB /\ b2 = \hC0
  <2>1. RowOf(bytes) = Insn("fcmovnb", << RF(0), RF(n) >>)
    <3>1. RowOf(bytes) = Row("DBC0", \hC0 + n)
      BY <1>3, <1>4, <1>22, \hDB = \hD7 + 4
    <3> QED
      BY <1>1, <3>1, TopFirstRows DEF TopFirst
  <2>2. decompile_simple("fcmovnb") = Unknown
    BY DEF decompile_simple, Functions0
  <2>3. decompile_registers("fcmovnb", 0, n) = Assign(0, If3(0, n))
    BY DEF decompile_registers, Arithmetic_ops, If3
  <2>4. Statements(bytes) = decompile_registers("fcmovnb", 0, n) /\ OnRegisters(RowOf(bytes))
    BY <2>1, <2>2, RegistersOf
  <2>5. \A m : ExecuteRegister(m, b1, b2 + n) = Choose(m, 0, n)
    BY <1>2, <1>22 DEF ExecuteRegister
  <2>6. MovesIf(bytes, n, 0, n)
    <3>1. bytes[1] = \hDB /\ bytes[2] = \hC0 + n /\ n \in 0..7
      BY <1>1, <1>22
    <3> QED
      BY <1>2, <2>3, <2>4, <2>5, <3>1 DEF MovesIf
  <2>7. ~Compare(bytes)
    BY <1>1, <1>22 DEF Compare
  <2> QED
    BY <2>4, <2>6, <2>7
<1>23. CASE b1 = \hD9 /\ b2 = \hC0
  <2>1. RowOf(bytes) = Insn("fld", << RF(0), RF(n) >>)
    <3>1. RowOf(bytes) = Row("D9C0", \hC0 + n)
      BY <1>3, <1>4, <1>23, \hD9 = \hD7 + 2
    <3> QED
      BY <1>1, <3>1, TopFirstRows DEF TopFirst
  <2>2. decompile_simple("fld") = Unknown
    BY DEF decompile_simple, Functions0
  <2>3. decompile_registers("fld", 0, n) = Assign(tmp, F(0)) \o top_is_top_minus_1 \o Assign(0, F(tmp))
    BY DEF decompile_registers, Arithmetic_ops
  <2>4. Statements(bytes) = decompile_registers("fld", 0, n) /\ OnRegisters(RowOf(bytes))
    BY <2>1, <2>2, RegistersOf
  <2>5. \A m : ExecuteRegister(m, b1, b2 + n) = PushCopy(m, n)
    BY <1>2, <1>23 DEF ExecuteRegister
  <2>6. Loads(bytes, n)
    <3>1. bytes[1] = \hD9 /\ bytes[2] = \hC0 + n /\ n \in 0..7
      BY <1>1, <1>23
    <3> QED
      BY <1>2, <2>3, <2>4, <2>5, <3>1 DEF Loads
  <2>7. ~Compare(bytes)
    BY <1>1, <1>23 DEF Compare
  <2> QED
    BY <2>4, <2>6, <2>7
<1> QED
  BY <1>1, <1>7, <1>8, <1>9, <1>10, <1>11, <1>12, <1>13, <1>14, <1>15, <1>16, <1>17, <1>18, <1>19, <1>20, <1>21, <1>22, <1>23 DEF twobyte_regarg, commented_regarg

OfNumber(op, x) == << op, F(0), x >>

LoadsNumber(bytes) ==
  /\ Statements(bytes) = top_is_top_minus_1 \o Assign(0, Operand_of_address(Address(bytes)))
  /\ \A l, m, printed : ~m.sigfpe => Execute1(l, m, bytes, printed)
                                     = Push(m, NumberAt(l, Address(bytes), printed))
CombinesNumber(bytes, op) ==
  /\ op \in TwoArguments
  /\ Statements(bytes) = Assign(0, OfNumber(op, Operand_of_address(Address(bytes))))
  /\ \A l, m, printed : ~m.sigfpe => Execute1(l, m, bytes, printed)
                              = CombineNumber(m, op, NumberAt(l, Address(bytes), printed))

\* The row of an instruction on memory is in the table of its first byte.
LEMMA MemoryRow ==
  ASSUME NEW bytes, NEW k \in 1..8, NEW i \in 0..7,
         bytes[1] = \hD7 + k, bytes[2] = 8 * i + 5
  PROVE  RowOf(bytes) = Row(Escape[k], i)
<1>1. (\hD7 + k) - \hD7 = k /\ (8 * i + 5) \div 8 = i /\ ~(8 * i + 5 >= \hC0)
  OBVIOUS
<1> QED
  BY <1>1 DEF RowOf

\* The class of every instruction on memory.
LEMMA MemoryClasses ==
  ASSUME NEW bytes, MemoryForm(bytes)
  PROVE  /\ \E k \in 1..8, i \in 0..7 : bytes[1] = \hD7 + k /\ bytes[2] = 8 * i + 5
         /\ OnMemoryOperand(RowOf(bytes))
         /\ bytes[1] \in {\hDC, \hDD}
         /\ LoadsNumber(bytes) \/ \E op : CombinesNumber(bytes, op)
<1> DEFINE x == Operand_of_address(Address(bytes))
<1>1. Len(bytes) = 6
  BY DEF MemoryForm
<1>2. \/ bytes[1] = \hDC /\ bytes[2] \in {\h05, \h0D, \h25, \h35}
      \/ bytes[1] = \hDD /\ bytes[2] = \h05
  BY DEF MemoryForm, sixbyte, commented_sixbyte
<1>3. \A l, m, printed :
        ~m.sigfpe => Execute1(l, m, bytes, printed)
                       = ExecuteMemory(m, bytes[1], bytes[2], NumberAt(l, Address(bytes), printed))
  BY <1>1, <1>2 DEF Execute1
<1>4. Escape[5] = "DC" /\ Escape[6] = "DD"
  BY DEF Escape
<1> HIDE DEF x
<1>5. CASE bytes[1] = \hDC /\ bytes[2] = \h05
  <2>1. bytes[1] = \hD7 + 5 /\ bytes[2] = 8 * 0 + 5 /\ 5 \in 1..8 /\ 0 \in 0..7
    BY <1>5
  <2>2. RowOf(bytes) = Insn("fadd", << M("fd") >>)
    <3>1. RowOf(bytes) = Row(Escape[5], 0)
      BY <2>1, MemoryRow
    <3> QED
      BY <1>4, <3>1, NumberRows DEF OnNumber
  <2>3. decompile_simple("fadd") = Unknown
    BY DEF decompile_simple, Functions0
  <2>4. Statements(bytes) = decompile_memory("fadd", x) /\ OnMemoryOperand(RowOf(bytes))
    BY <2>2, <2>3, NumberOf DEF x
  <2>5. decompile_memory("fadd", x) = Assign(0, OfNumber("add", x))
    BY DEF decompile_memory, Arithmetic_ops, Popping, OfNumber
  <2>6. \A m, value :
          ExecuteMemory(m, bytes[1], bytes[2], value) = CombineNumber(m, "add", value)
    BY <1>5 DEF ExecuteMemory
  <2>7. CombinesNumber(bytes, "add")
    BY <1>3, <2>4, <2>5, <2>6 DEF CombinesNumber, TwoArguments, x
  <2> QED
    BY <1>5, <2>1, <2>4, <2>7
<1>6. CASE bytes[1] = \hDC /\ bytes[2] = \h0D
  <2>1. bytes[1] = \hD7 + 5 /\ bytes[2] = 8 * 1 + 5 /\ 5 \in 1..8 /\ 1 \in 0..7
    BY <1>6
  <2>2. RowOf(bytes) = Insn("fmul", << M("fd") >>)
    <3>1. RowOf(bytes) = Row(Escape[5], 1)
      BY <2>1, MemoryRow
    <3> QED
      BY <1>4, <3>1, NumberRows DEF OnNumber
  <2>3. decompile_simple("fmul") = Unknown
    BY DEF decompile_simple, Functions0
  <2>4. Statements(bytes) = decompile_memory("fmul", x) /\ OnMemoryOperand(RowOf(bytes))
    BY <2>2, <2>3, NumberOf DEF x
  <2>5. decompile_memory("fmul", x) = Assign(0, OfNumber("mul", x))
    BY DEF decompile_memory, Arithmetic_ops, Popping, OfNumber
  <2>6. \A m, value :
          ExecuteMemory(m, bytes[1], bytes[2], value) = CombineNumber(m, "mul", value)
    BY <1>6 DEF ExecuteMemory
  <2>7. CombinesNumber(bytes, "mul")
    BY <1>3, <2>4, <2>5, <2>6 DEF CombinesNumber, TwoArguments, x
  <2> QED
    BY <1>6, <2>1, <2>4, <2>7
<1>7. CASE bytes[1] = \hDC /\ bytes[2] = \h25
  <2>1. bytes[1] = \hD7 + 5 /\ bytes[2] = 8 * 4 + 5 /\ 5 \in 1..8 /\ 4 \in 0..7
    BY <1>7
  <2>2. RowOf(bytes) = Insn("fsub", << M("fd") >>)
    <3>1. RowOf(bytes) = Row(Escape[5], 4)
      BY <2>1, MemoryRow
    <3> QED
      BY <1>4, <3>1, NumberRows DEF OnNumber
  <2>3. decompile_simple("fsub") = Unknown
    BY DEF decompile_simple, Functions0
  <2>4. Statements(bytes) = decompile_memory("fsub", x) /\ OnMemoryOperand(RowOf(bytes))
    BY <2>2, <2>3, NumberOf DEF x
  <2>5. decompile_memory("fsub", x) = Assign(0, OfNumber("sub", x))
    BY DEF decompile_memory, Arithmetic_ops, Popping, OfNumber
  <2>6. \A m, value :
          ExecuteMemory(m, bytes[1], bytes[2], value) = CombineNumber(m, "sub", value)
    BY <1>7 DEF ExecuteMemory
  <2>7. CombinesNumber(bytes, "sub")
    BY <1>3, <2>4, <2>5, <2>6 DEF CombinesNumber, TwoArguments, x
  <2> QED
    BY <1>7, <2>1, <2>4, <2>7
<1>8. CASE bytes[1] = \hDC /\ bytes[2] = \h35
  <2>1. bytes[1] = \hD7 + 5 /\ bytes[2] = 8 * 6 + 5 /\ 5 \in 1..8 /\ 6 \in 0..7
    BY <1>8
  <2>2. RowOf(bytes) = Insn("fdiv", << M("fd") >>)
    <3>1. RowOf(bytes) = Row(Escape[5], 6)
      BY <2>1, MemoryRow
    <3> QED
      BY <1>4, <3>1, NumberRows DEF OnNumber
  <2>3. decompile_simple("fdiv") = Unknown
    BY DEF decompile_simple, Functions0
  <2>4. Statements(bytes) = decompile_memory("fdiv", x) /\ OnMemoryOperand(RowOf(bytes))
    BY <2>2, <2>3, NumberOf DEF x
  <2>5. decompile_memory("fdiv", x) = Assign(0, OfNumber("div", x))
    BY DEF decompile_memory, Arithmetic_ops, Popping, OfNumber
  <2>6. \A m, value :
          ExecuteMemory(m, bytes[1], bytes[2], value) = CombineNumber(m, "div", value)
    BY <1>8 DEF ExecuteMemory
  <2>7. CombinesNumber(bytes, "div")
    BY <1>3, <2>4, <2>5, <2>6 DEF CombinesNumber, TwoArguments, x
  <2> QED
    BY <1>8, <2>1, <2>4, <2>7
<1>9. CASE bytes[1] = \hDD /\ bytes[2] = \h05
  <2>1. bytes[1] = \hD7 + 6 /\ bytes[2] = 8 * 0 + 5 /\ 6 \in 1..8 /\ 0 \in 0..7
    BY <1>9
  <2>2. RowOf(bytes) = Insn("fld", << M("fd") >>)
    <3>1. RowOf(bytes) = Row(Escape[6], 0)
      BY <2>1, MemoryRow
    <3> QED
      BY <1>4, <3>1, NumberRows DEF OnNumber
  <2>3. decompile_simple("fld") = Unknown
    BY DEF decompile_simple, Functions0
  <2>4. Statements(bytes) = decompile_memory("fld", x) /\ OnMemoryOperand(RowOf(bytes))
    BY <2>2, <2>3, NumberOf DEF x
  <2>5. decompile_memory("fld", x) = top_is_top_minus_1 \o Assign(0, x)
    BY DEF decompile_memory, Arithmetic_ops, Popping
  <2>6. \A m, value :
          ExecuteMemory(m, bytes[1], bytes[2], value) = Push(m, value)
    BY <1>9 DEF ExecuteMemory
  <2>7. LoadsNumber(bytes)
    BY <1>3, <2>4, <2>5, <2>6 DEF LoadsNumber, x
  <2> QED
    BY <1>9, <2>1, <2>4, <2>7
<1> QED
  BY <1>2, <1>5, <1>6, <1>7, <1>8, <1>9

\* The decoder finds each instruction, and knows it.
LEMMA InstructionDecodes ==
  ASSUME NEW bytes \in Seq(0..255), IsInstruction(bytes),
         NEW b, NEW p, NEW n, Starts(b, p, n, bytes)
  PROVE  Decodes(b, p, n, bytes)
<1>1. CASE \E b2 \in NoArgBytes : bytes = << \hD9, b2 >>
  <2>1. PICK b2 \in NoArgBytes : bytes = << \hD9, b2 >>
    BY <1>1
  <2>2. /\ Len(bytes) = 2 /\ bytes[1] = \hD7 + 2 /\ bytes[2] \in \hC0..255 /\ 2 \in 1..8
    BY <2>1 DEF NoArgBytes
  <2>3. OnRegisters(RowOf(bytes))
    BY <2>1, NoArgClasses
  <2> QED
    BY <2>2, <2>3, DecodeTwo
<1>2. CASE \E b1, b2, r : RegisterForm(bytes, b1, b2, r)
  <2>1. PICK b1, b2, r : RegisterForm(bytes, b1, b2, r)
    BY <1>2
  <2>2. /\ b2 \in {\hC0, \hC8, \hD0, \hE0, \hE8, \hF0, \hF8}
        /\ b1 \in {\hD8, \hD9, \hDA, \hDB, \hDC, \hDD, \hDE}
    BY <2>1 DEF RegisterForm, twobyte_regarg, commented_regarg
  <2>3. /\ Len(bytes) = 2 /\ \E k \in 1..8 : bytes[1] = \hD7 + k
        /\ bytes[2] \in \hC0..255
    BY <2>1, <2>2 DEF RegisterForm
  <2>4. OnRegisters(RowOf(bytes))
    BY <2>1, RegisterClasses
  <2> QED
    BY <2>3, <2>4, DecodeTwo
<1>3. CASE MemoryForm(bytes)
  <2>1. PICK k \in 1..8, i \in 0..7 : bytes[1] = \hD7 + k /\ bytes[2] = 8 * i + 5
    BY <1>3, MemoryClasses
  <2>2. Len(bytes) = 6 /\ OnMemoryOperand(RowOf(bytes))
    BY <1>3, MemoryClasses DEF MemoryForm
  <2> QED
    BY <2>1, <2>2, DecodeSix
<1> QED
  BY <1>1, <1>2, <1>3, InstructionForms

---------------------------------------------------------------------------------
(***************************************************************************)
(* The bytes of a program p, and where its instructions start.             *)
(***************************************************************************)
Byte == 0..255
CodeOf(p) == header \o FlattenSeq(p) \o footer
Bound(p, k) == IF k <= Len(p) THEN headerlen + Len(Joined(p, k - 1))
                              ELSE Len(CodeOf(p)) - footerlen + k - Len(p) - 1
BoundariesOf(p) == [k \in 1..(Len(p) + 2) |-> Bound(p, k)]

\* The bytes and boundaries of the program that is being decompiled.
LEMMA OfProgram ==
  /\ code = CodeOf(instrs) /\ codelen = Len(CodeOf(instrs))
  /\ Boundaries = BoundariesOf(instrs)
<1>1. code = CodeOf(instrs) /\ codelen = Len(CodeOf(instrs))
  BY DEF code, codelen, CodeOf
<1>2. Boundaries = BoundariesOf(instrs)
  BY <1>1 DEF Boundaries, BoundariesOf, Bound, Joined
<1> QED
  BY <1>1, <1>2

\* Header and footer are bytes, the footer two of them.
LEMMA HeaderType ==
  header \in Seq(Byte) /\ headerlen \in Nat /\ footer \in Seq(Byte) /\ footerlen = 2
<1> DEFINE pieces == [k \in 1..7 |-> << \hD9, \hEE, \hDD, \hD8 + k >>]
           start == << \h55, \h89, \hE5 >>
<1>1. pieces \in Seq(Seq(Byte))
  <2>1. \A k \in 1..7 : << \hD9, \hEE, \hDD, \hD8 + k >> \in Seq(Byte)
    BY DEF Byte
  <2> QED
    BY <2>1
<1>2. start \in Seq(Byte)
  BY DEF Byte
<1>3. header = FlattenSeq(pieces) \o start
  BY DEF header
<1> HIDE DEF pieces, start
<1>4. FlattenSeq(pieces) \in Seq(Byte)
  BY <1>1, FlattenType
<1>5. header \in Seq(Byte)
  BY <1>2, <1>3, <1>4, ConcatProperties
<1>6. footer \in Seq(Byte) /\ footerlen = 2
  BY DEF footer, footerlen, Byte
<1> QED
  BY <1>5, <1>6, LenProperties DEF headerlen

\* A program: a sequence of instructions.
IsProgram(p) == p \in Seq(Instructions)

\* A program is a sequence of instructions of two or six bytes.
LEMMA ProgramType ==
  ASSUME NEW p, IsProgram(p)
  PROVE  /\ p \in Seq(Seq(Byte)) /\ Len(p) \in Nat
         /\ \A k \in 1..Len(p) : /\ p[k] \in Seq(Byte) /\ IsInstruction(p[k])
                                 /\ Len(p[k]) \in {2, 6}
<1>1. Instructions \subseteq Seq(Byte) /\ \A i \in Instructions : IsInstruction(i)
  BY DecompileAssumption DEF Byte
<1>2. p \in Seq(Seq(Byte)) /\ Len(p) \in Nat
  BY <1>1, SeqMonotonic, LenProperties DEF IsProgram
<1>3. \A k \in 1..Len(p) : p[k] \in Instructions
  BY ElementOfSeq DEF IsProgram
<1>4. ASSUME NEW i, IsInstruction(i) PROVE Len(i) \in {2, 6}
  BY <1>4 DEF IsInstruction, twobyte_noarg, commented_noarg
<1> QED
  BY <1>1, <1>2, <1>3, <1>4

\* The bytes of a program are its header, its instructions and its footer.
LEMMA CodeParts ==
  ASSUME NEW p, IsProgram(p), NEW body, body = FlattenSeq(p),
         NEW n, n = headerlen + Len(body)
  PROVE  /\ CodeOf(p) \in Seq(Byte) /\ Len(body) \in Nat /\ Len(CodeOf(p)) = n + 2
         /\ \A i \in 1..Len(body) : CodeOf(p)[headerlen + i] = body[i]
         /\ CodeOf(p)[n + 1] = \h5D /\ CodeOf(p)[n + 2] = \hC3
<1> DEFINE x == header \o body
<1>1. body \in Seq(Byte)
  BY ProgramType, FlattenType
<1>2. CodeOf(p) = x \o footer
  BY DEF CodeOf
<1>3. /\ x \in Seq(Byte) /\ Len(x) = Len(header) + Len(body) /\ Len(body) \in Nat
      /\ \A i \in 1..(Len(header) + Len(body)) :
           x[i] = IF i <= Len(header) THEN header[i] ELSE body[i - Len(header)]
  BY <1>1, HeaderType, ConcatProperties, LenProperties
<1>4. headerlen = Len(header) /\ headerlen \in Nat
  BY HeaderType DEF headerlen
<1>5. Len(x) = n /\ n \in Nat
  BY <1>3, <1>4
<1>6. \A i \in 1..Len(body) : x[headerlen + i] = body[i]
  <2> TAKE i \in 1..Len(body)
  <2>1. /\ headerlen + i \in 1..(Len(header) + Len(body)) /\ ~(headerlen + i <= Len(header))
        /\ (headerlen + i) - Len(header) = i
    BY <1>3, <1>4
  <2> QED
    BY <1>3, <2>1
<1> HIDE DEF x
<1>7. /\ x \o footer \in Seq(Byte) /\ Len(x \o footer) = Len(x) + Len(footer)
      /\ \A i \in 1..(Len(x) + Len(footer)) :
           (x \o footer)[i] = IF i <= Len(x) THEN x[i] ELSE footer[i - Len(x)]
  <2>1. x \in Seq(Byte) /\ footer \in Seq(Byte)
    BY <1>3, HeaderType
  <2> QED
    BY <2>1, ConcatProperties
<1>8. Len(footer) = 2 /\ footer[1] = \h5D /\ footer[2] = \hC3
  BY DEF footer
<1> DEFINE y == x \o footer
<1>9. /\ y \in Seq(Byte) /\ Len(y) = n + 2
      /\ \A i \in 1..(n + 2) : y[i] = IF i <= n THEN x[i] ELSE footer[i - n]
  BY <1>5, <1>7, <1>8
<1>y. CodeOf(p) = y
  BY <1>2
<1> HIDE DEF y
<1>10. y[n + 1] = \h5D /\ y[n + 2] = \hC3
  <2>1. /\ n + 1 \in 1..(n + 2) /\ n + 2 \in 1..(n + 2) /\ ~(n + 1 <= n) /\ ~(n + 2 <= n)
        /\ (n + 1) - n = 1 /\ (n + 2) - n = 2
    BY <1>5
  <2> QED
    BY <1>8, <1>9, <2>1
<1>11. \A i \in 1..Len(body) : y[headerlen + i] = body[i]
  <2> TAKE i \in 1..Len(body)
  <2>1. headerlen + i \in 1..(n + 2) /\ headerlen + i <= n
    BY <1>3, <1>4
  <2> QED
    BY <1>6, <1>9, <2>1
<1> QED
  BY <1>3, <1>9, <1>y, <1>10, <1>11

\* The boundaries: each instruction ends where the next one starts, or the footer.
LEMMA BoundsOf ==
  ASSUME NEW p, IsProgram(p)
  PROVE  /\ Bound(p, 1) = headerlen
         /\ \A k \in 1..(Len(p) + 3) : Bound(p, k) \in Nat
         /\ \A k \in 1..Len(p) : /\ Bound(p, k + 1) = Bound(p, k) + Len(p[k])
                                 /\ Bound(p, k + 1) <= Len(CodeOf(p)) - 2
                                 /\ \A i \in 1..Len(p[k]) :
                                      CodeOf(p)[Bound(p, k) + i] = p[k][i]
         /\ Bound(p, Len(p) + 1) = Len(CodeOf(p)) - 2
         /\ Bound(p, Len(p) + 2) = Len(CodeOf(p)) - 1
         /\ Bound(p, Len(p) + 3) = Len(CodeOf(p))
<1> DEFINE n == Len(p)
           total == Len(CodeOf(p))
           body == FlattenSeq(p)
           Ends(k) == Len(Joined(p, k))
<1>1. p \in Seq(Seq(Byte)) /\ n \in Nat
  BY ProgramType
<1>2. /\ headerlen \in Nat /\ Len(body) \in Nat /\ total = headerlen + Len(body) + 2
      /\ footerlen = 2 /\ \A i \in 1..Len(body) : CodeOf(p)[headerlen + i] = body[i]
  BY HeaderType, CodeParts
<1>3. Ends(0) = 0 /\ Ends(n) = Len(body)
  <2>1. Joined(p, 0) = << >> /\ Joined(p, n) = body
    BY <1>1, JoinedStep
  <2> QED
    BY <2>1
<1>4. \A k \in 0..n : Ends(k) \in Nat
  BY <1>1, JoinedType, LenProperties
<1>5. \A k \in 1..n : /\ Ends(k) = Ends(k - 1) + Len(p[k]) /\ Ends(k) <= Len(body)
                      /\ \A i \in 1..Len(p[k]) : body[Ends(k - 1) + i] = p[k][i]
  BY <1>1, PieceAt
<1>6. \A k \in 1..n : Len(p[k]) \in Nat /\ Len(p[k]) > 0
  <2> TAKE k \in 1..n
  <2>1. Len(p[k]) \in {2, 6}
    BY ProgramType
  <2> DEFINE size == Len(p[k])
  <2>2. size = 2 \/ size = 6
    BY <2>1
  <2> HIDE DEF size
  <2>3. size \in Nat /\ size > 0
    BY <2>2
  <2> QED
    BY <2>3 DEF size
<1> HIDE DEF n, total, body, Ends
<1>7. /\ \A k \in 1..n : Bound(p, k) = headerlen + Ends(k - 1)
      /\ \A k \in (n + 1)..(n + 3) : Bound(p, k) = total - 2 + k - n - 1
  BY <1>1, <1>2 DEF Bound, n, total, Ends
<1>8. /\ Bound(p, n + 1) = total - 2 /\ Bound(p, n + 2) = total - 1
      /\ Bound(p, n + 3) = total /\ total - 2 = headerlen + Ends(n)
  BY <1>1, <1>2, <1>3, <1>7
<1>9. \A k \in 1..(n + 1) : Bound(p, k) = headerlen + Ends(k - 1)
  <2> TAKE k \in 1..(n + 1)
  <2>1. CASE k \in 1..n
    BY <1>7, <2>1
  <2>2. CASE k = n + 1
    <3>1. k - 1 = n
      BY <1>1, <2>2
    <3> QED
      BY <1>8, <2>2, <3>1
  <2> QED
    BY <1>1, <2>1, <2>2
<1>10. Bound(p, 1) = headerlen
  <2>1. 1 \in 1..(n + 1) /\ 1 - 1 = 0
    BY <1>1
  <2> QED
    BY <1>2, <1>3, <1>9, <2>1
<1>11. ASSUME NEW k \in 1..(n + 3) PROVE Bound(p, k) \in Nat
  <2>1. CASE k \in 1..(n + 1)
    <3>1. k - 1 \in 0..n
      BY <1>1, <2>1
    <3> QED
      BY <1>2, <1>4, <1>9, <2>1, <3>1
  <2>2. CASE k = n + 2 \/ k = n + 3
    BY <1>1, <1>2, <1>8, <2>2
  <2> QED
    BY <1>1, <2>1, <2>2
<1>12. ASSUME NEW k \in 1..n
       PROVE  /\ Bound(p, k + 1) = Bound(p, k) + Len(p[k]) /\ Bound(p, k + 1) <= total - 2
              /\ \A i \in 1..Len(p[k]) : CodeOf(p)[Bound(p, k) + i] = p[k][i]
  <2>1. Bound(p, k + 1) = headerlen + Ends(k) /\ Bound(p, k) = headerlen + Ends(k - 1)
    <3>1. k + 1 \in 1..(n + 1) /\ k \in 1..(n + 1) /\ (k + 1) - 1 = k
      BY <1>1
    <3> QED
      BY <1>9, <3>1
  <2>2. /\ Ends(k) = Ends(k - 1) + Len(p[k]) /\ Ends(k) <= Len(body) /\ Ends(k) \in Nat
        /\ Ends(k - 1) \in Nat /\ Len(p[k]) \in Nat
    <3>1. k \in 0..n /\ k - 1 \in 0..n
      BY <1>1
    <3> QED
      BY <1>4, <1>5, <1>6, <3>1
  <2>3. Bound(p, k + 1) = Bound(p, k) + Len(p[k]) /\ Bound(p, k + 1) <= total - 2
    BY <1>2, <2>1, <2>2
  <2>4. ASSUME NEW i \in 1..Len(p[k]) PROVE CodeOf(p)[Bound(p, k) + i] = p[k][i]
    <3>1. Ends(k - 1) + i \in 1..Len(body)
      BY <1>2, <2>2
    <3>2. Bound(p, k) + i = headerlen + (Ends(k - 1) + i)
      BY <1>2, <2>1, <2>2
    <3> QED
      BY <1>2, <1>5, <3>1, <3>2
  <2> QED
    BY <2>3, <2>4
<1> QED
  BY <1>8, <1>10, <1>11, <1>12 DEF n, total

---------------------------------------------------------------------------------
(***************************************************************************)
(* What the decompiler finds at a boundary.                                *)
(***************************************************************************)
\* The statements of every instruction, none of which is unknown.
LEMMA LongerConcat ==
  ASSUME NEW s, NEW t, IsSeq(s), Len(s) > 0, IsSeq(t)
  PROVE  IsSeq(s \o t) /\ Len(s \o t) > 0
<1>1. IsSeq(s \o t) /\ Len(s \o t) = Len(s) + Len(t) /\ Len(s) \in Nat /\ Len(t) \in Nat
  BY SeqsConcat
<1> QED
  BY <1>1

\* Every instruction of opcodes.h is decompiled to something.
LEMMA StatementsKnown ==
  ASSUME NEW bytes \in Seq(Byte), IsInstruction(bytes)
  PROVE  IsSeq(Statements(bytes)) /\ Statements(bytes) # Unknown
<1> DEFINE Good(s) == IsSeq(s) /\ Len(s) > 0
<1>1. \A i, exp : Good(Assign(i, exp))
  <2> TAKE i, exp
  <2>1. IsSeq(Assign(i, exp)) /\ Len(Assign(i, exp)) = 1
    BY AssignIs
  <2> QED
    BY <2>1
<1>2. Good(top_is_top_minus_1) /\ Good(rotstack(-1)) /\ Good(rotstack(1)) /\ Good(popstack)
  <2>1. Good(top_is_top_minus_1)
    BY ShiftsAre
  <2>2. Good(rotstack(-1)) /\ Good(rotstack(1))
    <3> DEFINE up == rotstack(-1)
               down == rotstack(1)
    <3>1. IsSeq(up) /\ Len(up) = 9 /\ IsSeq(down) /\ Len(down) = 9
      BY TurnsAre
    <3> HIDE DEF up, down
    <3>2. Good(up) /\ Good(down)
      BY <3>1
    <3> QED
      BY <3>2 DEF up, down
  <2> HIDE DEF Good
  <2> QED
    BY <2>1, <2>2 DEF popstack
<1>3. \A s, t : Good(s) /\ Good(t) => Good(s \o t)
  BY LongerConcat
<1> HIDE DEF Good
<1>4. ASSUME NEW op, NEW i, NEW j, Combines(bytes, op, i, j) \/ CombinesPops(bytes, op, i, j)
      PROVE  Good(Statements(bytes))
  <2>1. Good(Assign(i, Of2(op, i, j)))
    BY <1>1
  <2>2. Good(Assign(i, Of2(op, i, j)) \o popstack)
    BY <1>2, <1>3, <2>1
  <2> QED
    BY <1>4, <2>1, <2>2 DEF Combines, CombinesPops
<1>5. \A i, exp : Good(top_is_top_minus_1 \o Assign(i, exp))
  BY <1>1, <1>2, <1>3
<1>6. \A i, exp, j, e2 : Good(Assign(i, exp) \o top_is_top_minus_1 \o Assign(j, e2))
  BY <1>1, <1>2, <1>3
<1>7. \A i, exp, j, e2, k, e3 : Good(Assign(i, exp) \o Assign(j, e2) \o Assign(k, e3))
  BY <1>1, <1>3
<1>8. CASE \E b2 \in NoArgBytes : bytes = << \hD9, b2 >>
  <2>1. \/ \E op : Unary(bytes, op)
        \/ \E op, i, j : Combines(bytes, op, i, j) \/ CombinesPops(bytes, op, i, j)
        \/ \E x : PushesLiteral(bytes, x)
        \/ TurnsUp(bytes) \/ TurnsDown(bytes)
    BY <1>8, NoArgClasses
  <2>2. ASSUME NEW op, Unary(bytes, op) PROVE Good(Statements(bytes))
    BY <1>1, <2>2 DEF Unary
  <2>3. ASSUME NEW x, PushesLiteral(bytes, x) PROVE Good(Statements(bytes))
    BY <1>5, <2>3 DEF PushesLiteral
  <2>4. ASSUME TurnsUp(bytes) \/ TurnsDown(bytes) PROVE Good(Statements(bytes))
    BY <1>2, <2>4 DEF TurnsUp, TurnsDown
  <2>5. Good(Statements(bytes))
    BY <1>4, <2>1, <2>2, <2>3, <2>4
  <2> QED
    BY <2>5, LongKnown DEF Good
<1>9. CASE \E b1, b2, n : RegisterForm(bytes, b1, b2, n)
  <2>1. PICK b1, b2, n : RegisterForm(bytes, b1, b2, n)
    BY <1>9
  <2>2. \/ \E op, i, j : Combines(bytes, op, i, j) \/ CombinesPops(bytes, op, i, j)
        \/ StoresTop(bytes, n) \/ Loads(bytes, n) \/ Exchanges(bytes, n)
        \/ \E i, j : MovesIf(bytes, n, i, j)
        \/ ComparesWith(bytes, n)
    BY <2>1, RegisterClasses
  <2>3. ASSUME StoresTop(bytes, n) PROVE Good(Statements(bytes))
    BY <1>1, <2>3 DEF StoresTop
  <2>4. ASSUME Loads(bytes, n) PROVE Good(Statements(bytes))
    BY <1>6, <2>4 DEF Loads
  <2>5. ASSUME Exchanges(bytes, n) PROVE Good(Statements(bytes))
    BY <1>7, <2>5 DEF Exchanges
  <2>6. ASSUME NEW i, NEW j, MovesIf(bytes, n, i, j) PROVE Good(Statements(bytes))
    BY <1>1, <2>6 DEF MovesIf
  <2>7. ASSUME ComparesWith(bytes, n) PROVE Good(Statements(bytes))
    BY <1>1, <2>7 DEF ComparesWith
  <2>8. Good(Statements(bytes))
    BY <1>4, <2>2, <2>3, <2>4, <2>5, <2>6, <2>7
  <2> QED
    BY <2>8, LongKnown DEF Good
<1>10. CASE MemoryForm(bytes)
  <2>1. LoadsNumber(bytes) \/ \E op : CombinesNumber(bytes, op)
    BY <1>10, MemoryClasses
  <2>2. ASSUME LoadsNumber(bytes) PROVE Good(Statements(bytes))
    BY <1>5, <2>2 DEF LoadsNumber
  <2>3. ASSUME NEW op, CombinesNumber(bytes, op) PROVE Good(Statements(bytes))
    BY <1>1, <2>3 DEF CombinesNumber
  <2>4. Good(Statements(bytes))
    BY <2>1, <2>2, <2>3
  <2> QED
    BY <2>4, LongKnown DEF Good
<1> QED
  BY <1>8, <1>9, <1>10, InstructionForms DEF Byte

---------------------------------------------------------------------------------
\* The copy that is decoded has the bytes of the code.
LEMMA CopiedBytes ==
  ASSUME NEW b, NEW n \in Nat, DOMAIN b = 1..n, NEW o \in Nat,
         NEW j \in 1..MAX_INSTRUCTION_SIZE, o + j <= n
  PROVE  At(Copied(b, n, o), j) = b[o + j]
<1> DEFINE c == Copied(b, n, o)
<1>1. MAX_INSTRUCTION_SIZE = 20 /\ Len(Beyond) \in Nat
  BY BeyondAssumption, LenProperties DEF MAX_INSTRUCTION_SIZE
<1>2. j \in 1..(MAX_INSTRUCTION_SIZE + Len(Beyond)) /\ ~(j > MAX_INSTRUCTION_SIZE)
  BY <1>1
<1>3. j \in DOMAIN c /\ c[j] = At(b, o + j)
  BY <1>2 DEF Copied
<1>4. At(b, o + j) = b[o + j]
  <2>1. o + j \in 1..n
    BY <1>1
  <2> QED
    BY <2>1 DEF At
<1> HIDE DEF c
<1>5. At(c, j) = c[j]
  BY <1>3 DEF At
<1> QED
  BY <1>3, <1>4, <1>5 DEF c

\* What x86_disasm finds at a boundary.
LEMMA FoundAtInstruction ==
  ASSUME NEW p, IsProgram(p), NEW k \in 1..Len(p), NEW found,
         found = x86_disasm(CodeOf(p), Len(CodeOf(p)), Bound(p, k))
  PROVE  /\ found.size = Len(p[k]) /\ found.row = RowOf(p[k])
         /\ Bound(p, k) + found.size = Bound(p, k + 1)
         /\ Bound(p, k) < Len(CodeOf(p)) - 2
         /\ SubSeq(CodeOf(p), Bound(p, k) + 1, Bound(p, k) + found.size) = p[k]
<1> DEFINE b == CodeOf(p)
           offset == Bound(p, k)
           bytes == p[k]
           size == Len(bytes)
           copy == Copied(b, Len(b), offset)
           insn == ia32_disasm_addr(copy, 1, Len(b) - offset)
<1>1. /\ bytes \in Seq(Byte) /\ IsInstruction(bytes) /\ Len(p) \in Nat
      /\ size = 2 \/ size = 6
  <2>1. Len(bytes) \in {2, 6}
    BY ProgramType
  <2> QED
    BY <2>1, ProgramType
<1>2. /\ offset \in Nat /\ Bound(p, k + 1) = offset + size
      /\ Bound(p, k + 1) <= Len(b) - 2
      /\ \A i \in 1..Len(bytes) : b[offset + i] = bytes[i]
  <2>1. k \in 1..(Len(p) + 3)
    BY <1>1
  <2> QED
    BY <2>1, BoundsOf
<1>3. b \in Seq(Byte) /\ Len(b) \in Nat /\ DOMAIN b = 1..Len(b)
  BY CodeParts, LenProperties
<1>s. size = Len(bytes)
  OBVIOUS
<1> HIDE DEF b, offset, bytes, size
<1>4. Starts(copy, 1, Len(b) - offset, bytes)
  <2>1. 1 \in Nat /\ Len(b) - offset \in Nat /\ Len(b) - offset >= Len(bytes)
    BY <1>s, <1>1, <1>2, <1>3
  <2>2. ASSUME NEW j \in 1..Len(bytes) PROVE At(copy, 1 + j - 1) = bytes[j]
    <3>0. j \in Nat /\ j >= 1 /\ j <= size /\ j <= 6
      BY <1>s, <1>1
    <3>1. 1 + j - 1 = j /\ j \in 1..MAX_INSTRUCTION_SIZE /\ offset + j <= Len(b)
      <4>1. MAX_INSTRUCTION_SIZE = 20
        BY DEF MAX_INSTRUCTION_SIZE
      <4>2. offset + size <= Len(b) - 2
        BY <1>2
      <4>3. offset + j <= Len(b)
        BY <1>1, <1>2, <1>3, <1>s, <3>0, <4>2
      <4>4. 1 + j - 1 = j /\ j \in 1..MAX_INSTRUCTION_SIZE
        BY <3>0, <4>1
      <4> QED
        BY <4>3, <4>4
    <3>2. At(copy, j) = b[offset + j]
      BY <1>2, <1>3, <3>1, CopiedBytes
    <3> QED
      BY <1>2, <3>1, <3>2
  <2> HIDE DEF copy
  <2> QED
    BY <2>1, <2>2 DEF Starts
<1> HIDE DEF copy
<1>5. insn.size = Len(bytes) /\ insn.row = RowOf(bytes)
  <2>1. Decodes(copy, 1, Len(b) - offset, bytes)
    BY <1>1, <1>4, InstructionDecodes DEF Byte
  <2> QED
    BY <2>1 DEF Decodes
<1>6. found = Inside(insn, Len(b) - offset)
  BY DEF x86_disasm, b, offset, copy
<1> HIDE DEF insn
<1>7. insn.size \in 1..(Len(b) - offset)
  BY <1>s, <1>1, <1>2, <1>3, <1>5
<1>8. found = insn
  BY <1>6, <1>7 DEF Inside
<1>9. SubSeq(b, offset + 1, offset + found.size) = bytes
  <2> DEFINE t == SubSeq(b, offset + 1, offset + size)
  <2>1. /\ offset + 1 \in Int /\ offset + size \in Int
        /\ \A i \in (offset + 1)..(offset + size) : b[i] \in Byte
    <3>1. \A i \in (offset + 1)..(offset + size) : i \in 1..Len(b)
      BY <1>s, <1>1, <1>2, <1>3
    <3> QED
      BY <1>1, <1>2, <1>3, <3>1, ElementOfSeq
  <2>2. /\ t \in Seq(Byte) /\ Len(t) = size
        /\ \A i \in 1..size : t[i] = b[(offset + 1) + i - 1]
    <3> DEFINE first == offset + 1
               last == offset + size
    <3>1. last - first + 1 = size /\ first <= last
      BY <1>1, <1>2
    <3>2. first \in Int /\ last \in Int /\ \A i \in first..last : b[i] \in Byte
      BY <2>1
    <3> HIDE DEF first, last
    <3>3. /\ SubSeq(b, first, last) \in Seq(Byte)
          /\ Len(SubSeq(b, first, last)) = last - first + 1
          /\ \A i \in 1..(last - first + 1) : SubSeq(b, first, last)[i] = b[first + i - 1]
      BY <3>1, <3>2, SubSeqProperties
    <3> QED
      BY <3>1, <3>3 DEF first, last
  <2> HIDE DEF t
  <2>3. Len(t) = Len(bytes)
    BY <1>s, <2>2
  <2>4. \A i \in 1..Len(t) : t[i] = bytes[i]
    <3> TAKE i \in 1..Len(t)
    <3>1. (offset + 1) + i - 1 = offset + i /\ i \in 1..Len(bytes) /\ i \in 1..size
      BY <1>2, <2>2, <2>3
    <3> QED
      BY <1>2, <2>2, <2>3, <3>1
  <2>5. t = bytes
    BY <1>1, <2>2, <2>3, <2>4, SeqEqual
  <2> QED
    BY <1>s, <1>5, <1>8, <2>5 DEF t
<1>10. offset < Len(b) - 2
  BY <1>s, <1>1, <1>2, <1>3
<1> QED
  BY <1>2, <1>5, <1>8, <1>9, <1>10 DEF b, offset, bytes, size

\* The decoder finds the two instructions of the footer, of one byte each.
LEMMA FoundInFooter ==
  ASSUME NEW p, IsProgram(p), NEW k \in 1..2, NEW found,
         found = x86_disasm(CodeOf(p), Len(CodeOf(p)), Bound(p, Len(p) + k))
  PROVE  /\ found.size = 1
         /\ Bound(p, Len(p) + k) + found.size = Bound(p, Len(p) + k + 1)
<1> DEFINE b == CodeOf(p)
           offset == Bound(p, Len(p) + k)
           copy == Copied(b, Len(b), offset)
           insn == ia32_disasm_addr(copy, 1, Len(b) - offset)
<1>1. /\ b \in Seq(Byte) /\ Len(b) \in Nat /\ DOMAIN b = 1..Len(b)
      /\ Len(b) - 2 \in Nat
      /\ b[Len(b) - 1] = \h5D /\ b[Len(b)] = \hC3
  <2> DEFINE body == FlattenSeq(p)
             n == headerlen + Len(body)
  <2>1. /\ b \in Seq(Byte) /\ Len(body) \in Nat /\ Len(b) = n + 2
        /\ b[n + 1] = \h5D /\ b[n + 2] = \hC3
    BY CodeParts
  <2>2. headerlen \in Nat
    BY HeaderType
  <2> HIDE DEF body, b
  <2>3. n \in Nat
    BY <2>1, <2>2
  <2> HIDE DEF n
  <2>4. Len(b) - 1 = n + 1 /\ Len(b) - 2 = n
    BY <2>1, <2>3
  <2> QED
    BY <2>1, <2>3, <2>4, LenProperties
<1>2. /\ offset = Len(b) - 3 + k /\ Bound(p, Len(p) + k + 1) = offset + 1
  <2>1. /\ Bound(p, Len(p) + 1) = Len(b) - 2 /\ Bound(p, Len(p) + 2) = Len(b) - 1
        /\ Bound(p, Len(p) + 3) = Len(b) /\ Len(p) \in Nat
    BY BoundsOf, ProgramType
  <2> HIDE DEF b
  <2>2. CASE k = 1
    <3>1. Len(p) + 1 + 1 = Len(p) + 2
      BY <2>1
    <3> QED
      BY <1>1, <2>1, <2>2, <3>1
  <2>3. CASE k = 2
    <3>1. Len(p) + 2 + 1 = Len(p) + 3
      BY <2>1
    <3> QED
      BY <1>1, <2>1, <2>3, <3>1
  <2> QED
    BY <2>2, <2>3
<1>3. found = Inside(insn, Len(b) - offset)
  BY DEF x86_disasm
<1> HIDE DEF b, offset
<1>4. At(copy, 1) \in {\h5D, \hC3}
  <2>1. offset + 1 = Len(b) - 1 \/ offset + 1 = Len(b)
    BY <1>1, <1>2
  <2>2. offset \in Nat /\ offset + 1 <= Len(b) /\ 1 \in 1..MAX_INSTRUCTION_SIZE
    BY <1>1, <1>2 DEF MAX_INSTRUCTION_SIZE
  <2>3. At(copy, 1) = b[offset + 1]
    BY <1>1, <2>2, CopiedBytes
  <2> QED
    BY <1>1, <2>1, <2>3
<1> HIDE DEF copy
<1>5. 1 \in Nat /\ Len(b) - offset \in Nat \ {0}
  BY <1>1, <1>2
<1>6. insn.size = 1
  BY <1>4, <1>5, DecodeFooter
<1> HIDE DEF insn
<1>7. found = insn
  BY <1>3, <1>5, <1>6 DEF Inside
<1> QED
  BY <1>2, <1>6, <1>7 DEF offset

---------------------------------------------------------------------------------
(***************************************************************************)
(* Aligned.                                                                *)
(***************************************************************************)
\* Both walks are at the boundary after those they have visited.
AlignedInv ==
  /\ IsProgram(instrs) /\ layout \in Layouts
  /\ phase \in {"disasm", "decompile", "execute", "run", "done"}
  /\ Len(visited) \in 0..(Len(instrs) + 2)
  /\ visited = SubSeq(BoundariesOf(instrs), 1, Len(visited))
  /\ phase = "disasm" => pos = Bound(instrs, Len(visited) + 1)
  /\ phase = "decompile" =>
       Len(visited) <= Len(instrs) /\ pos = Bound(instrs, Len(visited) + 1)
  /\ phase \in {"execute", "run", "done"} => Len(visited) = Len(instrs)

\* One boundary more is visited after those before it.
LEMMA VisitNext ==
  ASSUME NEW p, IsProgram(p), NEW v, v = SubSeq(BoundariesOf(p), 1, Len(v)),
         Len(v) \in 0..(Len(p) + 1)
  PROVE  /\ Len(Append(v, Bound(p, Len(v) + 1))) = Len(v) + 1
         /\ Append(v, Bound(p, Len(v) + 1)) = SubSeq(BoundariesOf(p), 1, Len(v) + 1)
<1> DEFINE all == BoundariesOf(p)
           k == Len(v) + 1
           x == Bound(p, k)
<1>1. Len(p) \in Nat /\ k \in 1..(Len(p) + 2)
  BY ProgramType
<1>2. all \in Seq(Nat) /\ Len(all) = Len(p) + 2 /\ all[k] = x
  <2>1. \A j \in 1..(Len(p) + 2) : Bound(p, j) \in Nat
    BY <1>1, BoundsOf
  <2> QED
    BY <1>1, <2>1 DEF BoundariesOf
<1> HIDE DEF all, x
<1>3. SubSeq(all, 1, k) = SubSeq(all, 1, k - 1) \o << x >>
  <2>1. 1 \in 1..Len(all) /\ k \in 1..Len(all)
    BY <1>1, <1>2
  <2> HIDE DEF k
  <2>2. SubSeq(all, 1, k) = SubSeq(all, 1, k - 1) \o << all[k] >>
    BY <1>2, <2>1, SubSeqRecursiveSecond
  <2> QED
    BY <1>2, <2>2
<1>4. v = SubSeq(all, 1, k - 1)
  BY DEF all
<1>5. v \in Seq(Nat) /\ x \in Nat
  <2>1. \A j \in 1..(k - 1) : all[j] \in Nat
    BY <1>1, <1>2, ElementOfSeq
  <2>2. k - 1 \in Int
    BY <1>1
  <2>3. SubSeq(all, 1, k - 1) \in Seq(Nat)
    <3> DEFINE m == k - 1
    <3> HIDE DEF m
    <3>1. m \in Int /\ \A j \in 1..m : all[j] \in Nat
      BY <2>1, <2>2 DEF m
    <3>2. SubSeq(all, 1, m) \in Seq(Nat)
      BY <3>1, SubSeqProperties
    <3> QED
      BY <3>2 DEF m
  <2>4. all[k] \in Nat
    <3>1. k \in 1..Len(all)
      BY <1>1, <1>2
    <3> QED
      BY <1>2, <3>1, ElementOfSeq
  <2> QED
    BY <1>2, <1>4, <2>3, <2>4
<1>6. Append(v, x) = v \o << x >> /\ Len(Append(v, x)) = Len(v) + 1
  BY <1>5, AppendIsConcat, AppendProperties
<1> QED
  BY <1>3, <1>4, <1>6 DEF all, x

\* It holds when a program of any length has been put together.
LEMMA AlignedInit == Init => AlignedInv
<1> SUFFICES ASSUME Init PROVE AlignedInv
  OBVIOUS
<1>1. IsProgram(instrs)
  <2>1. instrs \in Programs
    BY DEF Init
  <2> QED
    BY <2>1, DecompileAssumption DEF IsProgram
<1>2. /\ layout \in Layouts /\ phase = "disasm" /\ pos = headerlen /\ visited = << >>
  BY DEF Init
<1>3. Len(instrs) \in Nat /\ Bound(instrs, 1) = headerlen
  BY <1>1, ProgramType, BoundsOf
<1>4. Len(visited) = 0 /\ SubSeq(BoundariesOf(instrs), 1, 0) = << >>
  BY <1>2, SubSeqEmpty
<1>5. 0 \in 0..(Len(instrs) + 2) /\ 0 + 1 = 1
  BY <1>3
<1> QED
  BY <1>1, <1>2, <1>3, <1>4, <1>5 DEF AlignedInv

\* Every step of the disassembly and of the decompiler keeps it.
LEMMA AlignedNext == AlignedInv /\ [Next]_vars => AlignedInv'
<1> SUFFICES ASSUME AlignedInv, [Next]_vars PROVE AlignedInv'
  OBVIOUS
<1> DEFINE p == instrs
           n == Len(instrs)
           k == Len(visited) + 1
<1>1. /\ IsProgram(p) /\ n \in Nat /\ k \in 1..(n + 3) /\ layout \in Layouts
      /\ Len(visited) \in 0..(n + 2) /\ k - 1 = Len(visited)
      /\ visited = SubSeq(BoundariesOf(p), 1, Len(visited))
  <2>1. IsProgram(p) /\ layout \in Layouts /\ Len(visited) \in 0..(n + 2)
        /\ visited = SubSeq(BoundariesOf(p), 1, Len(visited))
    BY DEF AlignedInv
  <2> QED
    BY <2>1, ProgramType
<1>2. code = CodeOf(p) /\ codelen = Len(CodeOf(p)) /\ footerlen = 2
  BY OfProgram, HeaderType
<1>3. /\ \A j \in 1..(n + 3) : Bound(p, j) \in Nat
      /\ Bound(p, 1) = headerlen
      /\ Bound(p, n + 1) = codelen - 2 /\ Bound(p, n + 2) = codelen - 1
      /\ Bound(p, n + 3) = codelen
  BY <1>1, <1>2, BoundsOf
<1>c. codelen \in Nat
  <2>1. n + 3 \in 1..(n + 3)
    BY <1>1
  <2> QED
    BY <1>3, <2>1
\* What is found at the position of a walk that is not over.
<1>4. ASSUME pos = Bound(p, k), k <= n + 2
      PROVE  /\ Found.size > 0 /\ pos + Found.size = Bound(p, k + 1) /\ pos < codelen
             /\ pos < codelen - 2 <=> k <= n
             /\ k <= n => /\ Found.row = RowOf(p[k])
                          /\ SubSeq(code, pos + 1, pos + Found.size) = p[k]
  <2>1. Found = x86_disasm(CodeOf(p), Len(CodeOf(p)), Bound(p, k))
    BY <1>2, <1>4 DEF Found
  <2>2. CASE k <= n
    <3>1. k \in 1..n
      BY <1>1, <2>2
    <3>2. /\ Found.size = Len(p[k]) /\ Found.row = RowOf(p[k])
          /\ pos + Found.size = Bound(p, k + 1) /\ pos < codelen - 2
          /\ SubSeq(code, pos + 1, pos + Found.size) = p[k]
      BY <1>1, <1>2, <1>4, <2>1, <3>1, FoundAtInstruction
    <3>3. Found.size > 0
      <4>1. Len(p[k]) \in {2, 6}
        BY <1>1, <3>1, ProgramType
      <4> DEFINE size == Len(p[k])
      <4>0. Found.size = size
        BY <3>2 DEF size
      <4> HIDE DEF size
      <4>2. size = 2 \/ size = 6
        BY <4>1 DEF size
      <4> QED
        BY <4>0, <4>2
    <3>4. pos \in Nat
      BY <1>1, <1>3, <1>4
    <3> QED
      BY <1>c, <2>2, <3>2, <3>3, <3>4
  <2>3. CASE k > n
    <3>1. PICK j \in 1..2 : k = n + j
      BY <1>1, <1>4, <2>3
    <3>2. Found.size = 1 /\ pos + Found.size = Bound(p, k + 1)
      <4>1. /\ Found = x86_disasm(CodeOf(p), Len(CodeOf(p)), Bound(p, n + j))
            /\ pos = Bound(p, n + j)
        BY <1>4, <2>1, <3>1
      <4>2. Found.size = 1 /\ Bound(p, n + j) + Found.size = Bound(p, n + j + 1)
        BY <1>1, <4>1, FoundInFooter
      <4> QED
        BY <3>1, <4>1, <4>2
    <3>3. pos < codelen /\ ~(pos < codelen - 2)
      <4>1. j = 1 \/ j = 2
        OBVIOUS
      <4> QED
        BY <1>3, <1>4, <1>c, <3>1, <4>1
    <3> QED
      BY <1>1, <2>3, <3>2, <3>3
  <2> QED
    BY <1>1, <2>2, <2>3
<1>5. CASE Disasm
  <2>1. /\ phase = "disasm" /\ pos < codelen /\ pos = Bound(p, k)
        /\ instrs' = instrs /\ layout' = layout
    BY <1>5 DEF Disasm, AlignedInv
  <2>2. k <= n + 2
    <3>1. k # n + 3
      BY <1>3, <1>c, <2>1
    <3> QED
      BY <1>1, <3>1
  <2>3. Found.size > 0 /\ pos + Found.size = Bound(p, k + 1)
    BY <1>4, <2>1, <2>2
  <2>4. visited' = Append(visited, pos) /\ pos' = pos + Found.size /\ phase' = phase
    BY <1>5, <2>3 DEF Disasm
  <2>5. Len(visited') = k /\ visited' = SubSeq(BoundariesOf(p), 1, k)
    <3>1. Len(visited) \in 0..(n + 1)
      BY <1>1, <2>2
    <3> QED
      BY <1>1, <2>1, <2>4, <3>1, VisitNext
  <2>6. Len(visited') \in 0..(n + 2) /\ pos' = Bound(p, Len(visited') + 1)
    BY <1>1, <2>2, <2>3, <2>4, <2>5
  <2> QED
    BY <1>1, <2>1, <2>4, <2>5, <2>6 DEF AlignedInv
<1>6. CASE DisasmEnds
  <2>1. /\ phase' = "decompile" /\ pos' = headerlen /\ visited' = << >>
        /\ instrs' = instrs /\ layout' = layout
    BY <1>6 DEF DisasmEnds
  <2>2. Len(visited') = 0 /\ visited' = SubSeq(BoundariesOf(p), 1, 0)
    BY <2>1, SubSeqEmpty
  <2>3. 0 \in 0..(n + 2) /\ 0 <= n /\ 0 + 1 = 1
    BY <1>1
  <2> QED
    BY <1>1, <1>3, <2>1, <2>2, <2>3 DEF AlignedInv
<1>7. CASE Decompile
  <2>1. /\ phase = "decompile" /\ pos < codelen - 2 /\ pos = Bound(p, k)
        /\ k - 1 <= n /\ instrs' = instrs /\ layout' = layout
    BY <1>1, <1>2, <1>7 DEF Decompile, MoreToDecompile, AlignedInv
  <2>2. k <= n
    BY <1>1, <1>4, <2>1
  <2>3. /\ Found.size > 0 /\ pos + Found.size = Bound(p, k + 1)
        /\ Found.row = RowOf(p[k]) /\ SubSeq(code, pos + 1, pos + Found.size) = p[k]
    BY <1>1, <1>4, <2>1, <2>2
  <2>4. decompile1(Found.row, SubSeq(code, pos + 1, pos + Found.size)) # Unknown
    <3>1. p[k] \in Seq(Byte) /\ IsInstruction(p[k])
      BY <1>1, <2>2, ProgramType
    <3> QED
      BY <2>3, <3>1, StatementsKnown DEF Statements
  <2>5. visited' = Append(visited, pos) /\ pos' = pos + Found.size /\ phase' = phase
    BY <1>7, <2>3, <2>4 DEF Decompile
  <2>6. Len(visited') = k /\ visited' = SubSeq(BoundariesOf(p), 1, k)
    <3>1. Len(visited) \in 0..(n + 1)
      BY <1>1, <2>2
    <3> QED
      BY <1>1, <2>1, <2>5, <3>1, VisitNext
  <2>7. /\ Len(visited') \in 0..(n + 2) /\ pos' = Bound(p, Len(visited') + 1)
        /\ Len(visited') <= n
    BY <1>1, <2>2, <2>3, <2>5, <2>6
  <2> QED
    BY <1>1, <2>1, <2>5, <2>6, <2>7 DEF AlignedInv
<1>8. CASE DecompileEnds
  <2>1. /\ phase = "decompile" /\ ~(pos < codelen - 2) /\ pos = Bound(p, k)
        /\ k - 1 <= n /\ phase' = "execute"
        /\ instrs' = instrs /\ layout' = layout /\ visited' = visited
    BY <1>1, <1>2, <1>8 DEF DecompileEnds, MoreToDecompile, AlignedInv
  <2>2. Len(visited) = n
    <3>1. ~(k <= n)
      BY <1>1, <1>4, <2>1
    <3> QED
      BY <1>1, <2>1, <3>1
  <2> QED
    BY <1>1, <2>1, <2>2 DEF AlignedInv
<1>9. CASE Execute
  <2>1. phase = "execute" /\ phase' = "run" /\ UNCHANGED << instrs, layout, visited >>
    BY <1>9 DEF Execute
  <2> QED
    BY <2>1 DEF AlignedInv
<1>10. CASE Run
  <2>1. phase = "run" /\ phase' = "done" /\ UNCHANGED << instrs, layout, visited >>
    BY <1>10 DEF Run
  <2> QED
    BY <2>1 DEF AlignedInv
<1>11. CASE UNCHANGED vars
  <2>1. UNCHANGED << instrs, layout, phase, pos, visited >>
    BY <1>11 DEF vars
  <2> QED
    BY <2>1 DEF AlignedInv
<1> QED
  BY <1>5, <1>6, <1>7, <1>8, <1>9, <1>10, <1>11 DEF Next

\* It says that the walks are aligned.
LEMMA AlignedImplied == AlignedInv => Aligned
<1> SUFFICES ASSUME AlignedInv PROVE Aligned
  OBVIOUS
<1>1. Boundaries = BoundariesOf(instrs)
  BY OfProgram
<1> QED
  BY <1>1 DEF AlignedInv, Aligned

\* Aligned always holds: whatever instructions random_instruction has put
\* together, print_disasm and decompile find each of them again at its first
\* byte, and never meet an "Invalid instruction" (disasm.c:43,
\* decompile.c:459).
THEOREM WalksAligned == Spec => []Aligned
<1>1. Init => AlignedInv
  BY AlignedInit
<1>2. AlignedInv /\ [Next]_vars => AlignedInv'
  BY AlignedNext
<1>3. AlignedInv => Aligned
  BY AlignedImplied
<1> QED
  BY <1>1, <1>2, <1>3, PTL DEF Spec

---------------------------------------------------------------------------------
(***************************************************************************)
(* The C program, statement by statement.                                  *)
(***************************************************************************)
\* The variables of a C program.
IsEnv(g) == g = [i \in 0..9 |-> g[i]]
SetVar(g, i, value) == [g EXCEPT ![i] = value]

\* s is a sequence of statements after which the variables are g.
Ends(s, g) == IsSeq(s) /\ IsEnv(g) /\ RunC(s) = g

\* An assignment changes its variable and no other.
LEMMA SetVarIs ==
  ASSUME NEW g, IsEnv(g), NEW i \in 0..9, NEW value
  PROVE  /\ IsEnv(SetVar(g, i, value))
         /\ SetVar(g, i, value)[i] = value
         /\ \A j \in 0..9 : j # i => SetVar(g, i, value)[j] = g[j]
BY DEF IsEnv, SetVar

\* The C program begins with zeros in all its variables.
LEMMA Begins ==
  /\ Ends(<< >>, Cleared)
  /\ \A j \in 0..9 : Cleared[j] = << "0" >>
<1>1. Len(<< >>) = 0
  OBVIOUS
<1>2. PICK a : Iterates(a, OfC, << >>, 0) /\ RunC(<< >>) = a[0]
  BY <1>1, RunCIterates
<1>3. RunC(<< >>) = Cleared
  BY <1>2, IterateStep, Kinds
<1>4. IsSeq(<< >>)
  <2>1. << >> \in Seq({})
    OBVIOUS
  <2> QED
    BY <2>1 DEF IsSeq
<1> QED
  BY <1>3, <1>4 DEF Ends, IsEnv, Cleared, cflag

\* It goes on with an assignment.
LEMMA EndsAssign ==
  ASSUME NEW s, NEW g, Ends(s, g), NEW i \in 0..9, NEW exp, NEW value,
         Evaluate(exp, g) = value
  PROVE  Ends(s \o Assign(i, exp), SetVar(g, i, value))
<1> DEFINE t == Assign(i, exp)
           st == [dst |-> i, exp |-> exp]
<1>1. IsSeq(t) /\ Len(t) = 1 /\ t[1] = st
  BY AssignIs
<1>2. RunStatement(g, st) = SetVar(g, i, value)
  BY DEF RunStatement, SetVar
<1> HIDE DEF t, st
<1>3. PICK Elts : s \in Seq(Elts) /\ t \in Seq(Elts)
  BY <1>1, SeqsConcat DEF Ends
<1> DEFINE h == [k \in 0..1 |-> IF k = 0 THEN g ELSE SetVar(g, i, value)]
<1>4. h[0] = g /\ h[1] = SetVar(g, i, value)
  OBVIOUS
<1> HIDE DEF h
<1>5. h[0] = RunC(s) /\ \A k \in 1..Len(t) : h[k] = RunStatement(h[k - 1], t[k])
  <2>1. \A k \in 1..Len(t) : k = 1
    BY <1>1
  <2> QED
    BY <1>1, <1>2, <1>4, <2>1 DEF Ends
<1>6. RunC(s \o t) = h[Len(t)]
  BY <1>3, <1>5, RunCConcat
<1>7. IsSeq(s \o t)
  BY <1>1, SeqsConcat DEF Ends
<1>8. IsEnv(SetVar(g, i, value))
  BY SetVarIs DEF Ends
<1> QED
  BY <1>1, <1>4, <1>6, <1>7, <1>8 DEF Ends, t

\* Two environments that differ in one variable.
LEMMA OneSet ==
  ASSUME NEW x, NEW y, NEW i \in 0..9, NEW value, IsEnv(x), IsEnv(y), y[i] = value,
         \A j \in 0..9 : j # i => y[j] = x[j]
  PROVE  y = [x EXCEPT ![i] = value]
BY DEF IsEnv

\* The registers move up, down.
MovedUp(g, g2) ==
  IsEnv(g2) /\ g2[0] = g[0] /\ g2[8] = g[8] /\ g2[9] = g[9]
    /\ \A i \in 1..7 : g2[i] = g[i - 1]
MovedDown(g, g2) ==
  IsEnv(g2) /\ g2[7] = g[7] /\ g2[8] = g[8] /\ g2[9] = g[9]
    /\ \A i \in 0..6 : g2[i] = g[i + 1]

\* It goes on by moving the stack up, the way a push does.
LEMMA EndsUp ==
  ASSUME NEW s, NEW g, Ends(s, g)
  PROVE  \E g2 : MovedUp(g, g2) /\ Ends(s \o top_is_top_minus_1, g2)
<1> DEFINE t == top_is_top_minus_1
           h == [k \in 0..7 |-> [i \in 0..9 |-> IF i \in (8 - k)..7 THEN g[i - 1] ELSE g[i]]]
<1>1. /\ h[0] = g /\ MovedUp(g, h[7])
  BY DEF Ends, IsEnv, MovedUp
<1>2. ASSUME NEW k \in 1..7 PROVE h[k] = RunStatement(h[k - 1], t[k])
  <2>1. t[k].dst = 8 - k /\ t[k].exp = F(7 - k)
    BY DEF top_is_top_minus_1
  <2>2. Evaluate(F(7 - k), h[k - 1]) = h[k - 1][7 - k]
    BY DEF Evaluate, F, Leaf
  <2>3. h[k - 1][7 - k] = g[7 - k]
    OBVIOUS
  <2>4. h[k] = [h[k - 1] EXCEPT ![8 - k] = g[7 - k]]
    <3> DEFINE x == h[k - 1]
               y == h[k]
               i == 8 - k
    <3>1. i \in 0..9 /\ IsEnv(x) /\ IsEnv(y) /\ y[i] = g[7 - k]
      BY DEF IsEnv
    <3>2. \A j \in 0..9 : j # i => y[j] = x[j]
      OBVIOUS
    <3> HIDE DEF x, y, i
    <3>3. y = [x EXCEPT ![i] = g[7 - k]]
      BY <3>1, <3>2, OneSet
    <3> QED
      BY <3>3 DEF x, y, i
  <2> QED
    BY <2>1, <2>2, <2>3, <2>4 DEF RunStatement
<1> HIDE DEF h, t
<1>3. IsSeq(t) /\ Len(t) = 7
  BY ShiftsAre DEF t
<1>4. PICK Elts : s \in Seq(Elts) /\ t \in Seq(Elts)
  BY <1>3, SeqsConcat DEF Ends
<1>5. h[0] = RunC(s) /\ \A k \in 1..Len(t) : h[k] = RunStatement(h[k - 1], t[k])
  BY <1>1, <1>2, <1>3 DEF Ends
<1>6. RunC(s \o t) = h[Len(t)]
  BY <1>4, <1>5, RunCConcat
<1>7. IsSeq(s \o t)
  BY <1>3, SeqsConcat DEF Ends
<1>8. Ends(s \o t, h[7])
  BY <1>1, <1>3, <1>6, <1>7 DEF Ends, MovedUp
<1> QED
  BY <1>1, <1>8 DEF t

\* It goes on by moving the stack down, the way a pop does.
LEMMA EndsDown ==
  ASSUME NEW s, NEW g, Ends(s, g)
  PROVE  \E g2 : MovedDown(g, g2) /\ Ends(s \o Down, g2)
<1> DEFINE t == Down
           h == [k \in 0..7 |-> [i \in 0..9 |-> IF i \in 0..(k - 1) THEN g[i + 1] ELSE g[i]]]
<1>1. /\ h[0] = g /\ MovedDown(g, h[7])
  BY DEF Ends, IsEnv, MovedDown
<1>2. ASSUME NEW k \in 1..7 PROVE h[k] = RunStatement(h[k - 1], t[k])
  <2>1. t[k].dst = k - 1 /\ t[k].exp = F(k)
    BY DEF Down
  <2>2. Evaluate(F(k), h[k - 1]) = h[k - 1][k]
    BY DEF Evaluate, F, Leaf
  <2>3. h[k - 1][k] = g[k]
    OBVIOUS
  <2>4. h[k] = [h[k - 1] EXCEPT ![k - 1] = g[k]]
    <3> DEFINE x == h[k - 1]
               y == h[k]
               i == k - 1
    <3>1. i \in 0..9 /\ IsEnv(x) /\ IsEnv(y) /\ y[i] = g[k]
      BY DEF IsEnv
    <3>2. \A j \in 0..9 : j # i => y[j] = x[j]
      OBVIOUS
    <3> HIDE DEF x, y, i
    <3>3. y = [x EXCEPT ![i] = g[k]]
      BY <3>1, <3>2, OneSet
    <3> QED
      BY <3>3 DEF x, y, i
  <2> QED
    BY <2>1, <2>2, <2>3, <2>4 DEF RunStatement
<1> HIDE DEF h, t
<1>3. IsSeq(t) /\ Len(t) = 7
  BY ShiftsAre DEF t
<1>4. PICK Elts : s \in Seq(Elts) /\ t \in Seq(Elts)
  BY <1>3, SeqsConcat DEF Ends
<1>5. h[0] = RunC(s) /\ \A k \in 1..Len(t) : h[k] = RunStatement(h[k - 1], t[k])
  BY <1>1, <1>2, <1>3 DEF Ends
<1>6. RunC(s \o t) = h[Len(t)]
  BY <1>4, <1>5, RunCConcat
<1>7. IsSeq(s \o t)
  BY <1>3, SeqsConcat DEF Ends
<1>8. Ends(s \o t, h[7])
  BY <1>1, <1>3, <1>6, <1>7 DEF Ends, MovedDown
<1> QED
  BY <1>1, <1>8 DEF t

---------------------------------------------------------------------------------
(***************************************************************************)
(* The C program turns the stack, which is an array to it.                 *)
(***************************************************************************)
TurnedDown(g, g2) ==
  IsEnv(g2) /\ g2[7] = g[0] /\ g2[9] = g[9] /\ \A i \in 0..6 : g2[i] = g[i + 1]
TurnedUp(g, g2) ==
  IsEnv(g2) /\ g2[0] = g[7] /\ g2[9] = g[9] /\ \A i \in 1..7 : g2[i] = g[i - 1]

\* A variable is worth what it holds.
LEMMA EvaluateF ==
  ASSUME NEW g, NEW i
  PROVE  Evaluate(F(i), g) = g[i]
BY DEF Evaluate, F, Leaf

\* It ends the same however its statements are grouped.
LEMMA EndsSplit ==
  ASSUME NEW s, NEW x, NEW y, NEW g, IsSeq(s), IsSeq(x), IsSeq(y), Ends((s \o x) \o y, g)
  PROVE  Ends(s \o (x \o y), g)
<1> DEFINE u == s \o (x \o y)
           v == (s \o x) \o y
<1>1. u = v
  BY SeqsAssociative
<1>2. Ends(v, g)
  OBVIOUS
<1> HIDE DEF u, v
<1>3. Ends(u, g)
  BY <1>1, <1>2
<1> QED
  BY <1>3 DEF u

\* rotstack(1) turns the stack down: f[0] becomes f[7].
LEMMA EndsTurnDown ==
  ASSUME NEW s, NEW g, Ends(s, g)
  PROVE  \E g2 : TurnedDown(g, g2) /\ Ends(s \o rotstack(1), g2)
<1> DEFINE x == Assign(tmp, F(0))
           y == Assign(7, F(tmp))
           z == x \o Down
<1>1. IsSeq(s) /\ IsSeq(x) /\ IsSeq(y) /\ IsSeq(Down) /\ IsSeq(z)
  <2>1. IsSeq(s) /\ IsSeq(x) /\ IsSeq(y) /\ IsSeq(Down)
    BY AssignIs, ShiftsAre DEF Ends
  <2> HIDE DEF x, y
  <2> QED
    BY <2>1, SeqsConcat
<1>2. rotstack(1) = z \o y
  BY TurnsAre
<1> DEFINE g1 == SetVar(g, 8, g[0])
<1>3. Ends(s \o x, g1)
  <2>1. Evaluate(F(0), g) = g[0] /\ tmp = 8 /\ 8 \in 0..9
    BY EvaluateF DEF tmp
  <2> QED
    BY <2>1, EndsAssign
<1>4. IsEnv(g1) /\ g1[8] = g[0] /\ \A i \in 0..9 : i # 8 => g1[i] = g[i]
  BY SetVarIs DEF Ends
<1> HIDE DEF x, z, g1
<1>5. PICK g2 : MovedDown(g1, g2) /\ Ends((s \o x) \o Down, g2)
  BY <1>3, EndsDown
<1>6. Ends(s \o z, g2)
  BY <1>1, <1>5, EndsSplit DEF z
<1> DEFINE g3 == SetVar(g2, 7, g2[8])
<1>7. Ends((s \o z) \o y, g3)
  <2>1. Evaluate(F(8), g2) = g2[8] /\ tmp = 8 /\ 7 \in 0..9
    BY EvaluateF DEF tmp
  <2> QED
    BY <1>6, <2>1, EndsAssign
<1>8. IsEnv(g3) /\ g3[7] = g2[8] /\ \A i \in 0..9 : i # 7 => g3[i] = g2[i]
  BY <1>6, SetVarIs DEF Ends
<1> HIDE DEF y, g3
<1>9. Ends(s \o rotstack(1), g3)
  BY <1>1, <1>2, <1>7, EndsSplit
<1>10. TurnedDown(g, g3)
  BY <1>4, <1>5, <1>8 DEF TurnedDown, MovedDown
<1> QED
  BY <1>9, <1>10

\* rotstack(-1) turns the stack up: f[7] becomes f[0].
LEMMA EndsTurnUp ==
  ASSUME NEW s, NEW g, Ends(s, g)
  PROVE  \E g2 : TurnedUp(g, g2) /\ Ends(s \o rotstack(-1), g2)
<1> DEFINE x == Assign(tmp, F(7))
           y == Assign(0, F(tmp))
           z == x \o top_is_top_minus_1
<1>1. IsSeq(s) /\ IsSeq(x) /\ IsSeq(y) /\ IsSeq(top_is_top_minus_1) /\ IsSeq(z)
  <2>1. IsSeq(s) /\ IsSeq(x) /\ IsSeq(y) /\ IsSeq(top_is_top_minus_1)
    BY AssignIs, ShiftsAre DEF Ends
  <2> HIDE DEF x, y
  <2> QED
    BY <2>1, SeqsConcat
<1>2. rotstack(-1) = z \o y
  BY TurnsAre
<1> DEFINE g1 == SetVar(g, 8, g[7])
<1>3. Ends(s \o x, g1)
  <2>1. Evaluate(F(7), g) = g[7] /\ tmp = 8 /\ 8 \in 0..9
    BY EvaluateF DEF tmp
  <2> QED
    BY <2>1, EndsAssign
<1>4. IsEnv(g1) /\ g1[8] = g[7] /\ \A i \in 0..9 : i # 8 => g1[i] = g[i]
  BY SetVarIs DEF Ends
<1> HIDE DEF x, z, g1
<1>5. PICK g2 : MovedUp(g1, g2) /\ Ends((s \o x) \o top_is_top_minus_1, g2)
  BY <1>3, EndsUp
<1>6. Ends(s \o z, g2)
  BY <1>1, <1>5, EndsSplit DEF z
<1> DEFINE g3 == SetVar(g2, 0, g2[8])
<1>7. Ends((s \o z) \o y, g3)
  <2>1. Evaluate(F(8), g2) = g2[8] /\ tmp = 8 /\ 0 \in 0..9
    BY EvaluateF DEF tmp
  <2> QED
    BY <1>6, <2>1, EndsAssign
<1>8. IsEnv(g3) /\ g3[0] = g2[8] /\ \A i \in 0..9 : i # 0 => g3[i] = g2[i]
  BY <1>6, SetVarIs DEF Ends
<1> HIDE DEF y, g3
<1>9. Ends(s \o rotstack(-1), g3)
  BY <1>1, <1>2, <1>7, EndsSplit
<1>10. TurnedUp(g, g3)
  BY <1>4, <1>5, <1>8 DEF TurnedUp, MovedUp
<1> QED
  BY <1>9, <1>10

\* What a value is made of: two and one other values, under an operator.
Term1(op, x) == << op, x >>
Term2(op, x, y) == << op, x, y >>
Term3(x, y, z) == << "if", x, y, z >>
IsNumber(x) == \E i : x = << "v", i >> \/ x = Printed(i)

\* A function of one variable.
LEMMA EvaluateOf1 ==
  ASSUME NEW g, NEW op \in OneArgument, NEW i
  PROVE  Evaluate(Of1(op, i), g) = Term1(op, g[i])
BY DEF OneArgument, Evaluate, Of1, F, Leaf, Term1

\* An operation on two variables.
LEMMA EvaluateOf2 ==
  ASSUME NEW g, NEW op \in TwoArguments \cup {"less"}, NEW i, NEW j
  PROVE  Evaluate(Of2(op, i, j), g) = Term2(op, g[i], g[j])
BY DEF TwoArguments, Evaluate, Of2, F, Leaf, Term2

\* A choice between two variables by the flag.
LEMMA EvaluateIf3 ==
  ASSUME NEW g, NEW i, NEW j
  PROVE  Evaluate(If3(i, j), g) = Term3(g[9], g[i], g[j])
BY DEF Evaluate, If3, F, Leaf, Term3, cflag

\* Zero, one and the numbers of the arrays are worth themselves.
LEMMA EvaluateLeaf ==
  ASSUME NEW g, NEW x, x \in {<< "0" >>, << "1" >>} \/ IsNumber(x)
  PROVE  Evaluate(x, g) = x /\ x[1] # "f"
<1>1. ASSUME IsNumber(x) PROVE x[1] \in {"v", "decimals"} /\ Leaf(x) /\ x[1] # "f"
  <2>1. PICK k : x = << "v", k >> \/ x = Printed(k)
    BY <1>1 DEF IsNumber
  <2> QED
    BY <2>1 DEF Leaf, Printed
<1> QED
  BY <1>1 DEF Evaluate, Leaf

\* An operation on the top of the stack and a number.
LEMMA EvaluateOfNumber ==
  ASSUME NEW g, NEW op \in TwoArguments, NEW x, IsNumber(x)
  PROVE  Evaluate(OfNumber(op, x), g) = Term2(op, g[0], x)
<1>1. x[1] # "f"
  BY EvaluateLeaf
<1> QED
  BY <1>1 DEF TwoArguments, Evaluate, OfNumber, F, Leaf, Term2

---------------------------------------------------------------------------------
(***************************************************************************)
(* The machine, operation by operation.                                    *)
(***************************************************************************)
IsFPU(m) ==
  /\ DOMAIN m = { "top", "phys", "cf", "sigfpe" }
  /\ m.phys = [r \in 0..7 |-> m.phys[r]]
  /\ m.top \in 0..7 /\ m.sigfpe \in BOOLEAN

\* The registers follow each other round the stack.
LEMMA Modulo8 ==
  \A i, j \in 0..7 : (i + j) % 8 = IF i + j < 8 THEN i + j ELSE i + j - 8
OBVIOUS

\* After FINIT every register is empty and the flag is unset.
LEMMA FINITIs ==
  IsFPU(FINIT) /\ ~FINIT.sigfpe /\ FINIT.cf = Unset /\ \A i \in 0..7 : ST(FINIT, i) = Empty
<1>1. IsFPU(FINIT) /\ ~FINIT.sigfpe /\ FINIT.cf = Unset
  BY DEF IsFPU, FINIT
<1>2. ASSUME NEW i \in 0..7 PROVE ST(FINIT, i) = Empty
  BY DEF FINIT, ST
<1> QED
  BY <1>1, <1>2

\* Storing into a register changes that register and no other.
LEMMA StoreIs ==
  ASSUME NEW m, IsFPU(m), NEW i \in 0..7, NEW value, NEW m2, m2 = Store(m, i, value)
  PROVE  /\ IsFPU(m2) /\ m2.cf = m.cf /\ m2.sigfpe = m.sigfpe
         /\ ST(m2, i) = value
         /\ \A j \in 0..7 : j # i => ST(m2, j) = ST(m, j)
<1> DEFINE r == (m.top + i) % 8
<1>1. r \in 0..7 /\ m.top \in 0..7
  BY DEF IsFPU
<1>2. m2 = [m EXCEPT !.phys[r] = value]
  BY DEF Store
<1> HIDE DEF r
<1>3. /\ m2.top = m.top /\ m2.cf = m.cf /\ m2.sigfpe = m.sigfpe
      /\ m2.phys = [m.phys EXCEPT ![r] = value] /\ IsFPU(m2)
  BY <1>1, <1>2 DEF IsFPU
<1>4. m2.phys[r] = value /\ \A q \in 0..7 : q # r => m2.phys[q] = m.phys[q]
  BY <1>1, <1>3 DEF IsFPU
<1>5. ASSUME NEW j \in 0..7, j # i PROVE ST(m2, j) = ST(m, j)
  <2>1. (m.top + j) % 8 \in 0..7 /\ (m.top + j) % 8 # (m.top + i) % 8
    <3> DEFINE t == m.top
    <3>1. t \in 0..7
      BY <1>1
    <3> HIDE DEF t
    <3>2. /\ (t + j) % 8 = IF t + j < 8 THEN t + j ELSE t + j - 8
          /\ (t + i) % 8 = IF t + i < 8 THEN t + i ELSE t + i - 8
      BY <3>1, Modulo8
    <3>3. (t + j) % 8 \in 0..7 /\ (t + j) % 8 # (t + i) % 8
      BY <1>5, <3>1, <3>2
    <3> QED
      BY <3>3 DEF t
  <2> QED
    BY <1>3, <1>4, <2>1 DEF ST, r
<1> QED
  BY <1>3, <1>4, <1>5 DEF ST, r

\* Turning the stack renames its registers.
LEMMA TurnIs ==
  ASSUME NEW m, IsFPU(m), NEW k \in 0..7, NEW m2, m2 = Turn(m, k)
  PROVE  /\ IsFPU(m2) /\ m2.cf = m.cf /\ m2.sigfpe = m.sigfpe
         /\ \A j \in 0..7 : ST(m2, j) = ST(m, (j + k) % 8)
<1>1. m.top \in 0..7 /\ (m.top + k) % 8 \in 0..7
  BY DEF IsFPU
<1>2. m2 = [m EXCEPT !.top = (m.top + k) % 8]
  BY DEF Turn
<1>3. /\ m2.top = (m.top + k) % 8 /\ m2.cf = m.cf /\ m2.sigfpe = m.sigfpe
      /\ m2.phys = m.phys /\ IsFPU(m2)
  BY <1>1, <1>2 DEF IsFPU
<1>4. ASSUME NEW j \in 0..7 PROVE ST(m2, j) = ST(m, (j + k) % 8)
  <2>1. (((m.top + k) % 8) + j) % 8 = (m.top + ((j + k) % 8)) % 8
    BY <1>1, Modulo8
  <2> QED
    BY <1>3, <2>1 DEF ST
<1> QED
  BY <1>3, <1>4

\* Turning by one register either way.
LEMMA TurnsOne ==
  ASSUME NEW m, IsFPU(m), NEW m2
  PROVE  /\ m2 = Turn(m, 7) => /\ IsFPU(m2) /\ m2.cf = m.cf /\ m2.sigfpe = m.sigfpe
                               /\ ST(m2, 0) = ST(m, 7)
                               /\ \A j \in 1..7 : ST(m2, j) = ST(m, j - 1)
         /\ m2 = Turn(m, 1) => /\ IsFPU(m2) /\ m2.cf = m.cf /\ m2.sigfpe = m.sigfpe
                               /\ ST(m2, 7) = ST(m, 0)
                               /\ \A j \in 0..6 : ST(m2, j) = ST(m, j + 1)
<1>1. (0 + 7) % 8 = 7 /\ \A j \in 1..7 : (j + 7) % 8 = j - 1
  OBVIOUS
<1>2. (7 + 1) % 8 = 0 /\ \A j \in 0..6 : (j + 1) % 8 = j + 1
  OBVIOUS
<1>3. ASSUME m2 = Turn(m, 7)
      PROVE  /\ IsFPU(m2) /\ m2.cf = m.cf /\ m2.sigfpe = m.sigfpe
             /\ \A j \in 0..7 : ST(m2, j) = ST(m, (j + 7) % 8)
  BY <1>3, 7 \in 0..7, TurnIs
<1>4. ASSUME m2 = Turn(m, 1)
      PROVE  /\ IsFPU(m2) /\ m2.cf = m.cf /\ m2.sigfpe = m.sigfpe
             /\ \A j \in 0..7 : ST(m2, j) = ST(m, (j + 1) % 8)
  BY <1>4, 1 \in 0..7, TurnIs
<1> QED
  BY <1>1, <1>2, <1>3, <1>4

\* An exception leaves the registers alone.
LEMMA TrapIs ==
  ASSUME NEW m, IsFPU(m), NEW m2, m2 = Trap(m)
  PROVE  /\ IsFPU(m2) /\ m2.cf = m.cf /\ m2.sigfpe
         /\ \A j \in 0..7 : ST(m2, j) = ST(m, j)
<1>1. m2.sigfpe = TRUE /\ m2.top = m.top /\ m2.phys = m.phys /\ m2.cf = m.cf
  BY DEF Trap, IsFPU
<1>2. IsFPU(m2)
  BY <1>1 DEF Trap, IsFPU
<1> QED
  BY <1>1, <1>2 DEF ST

\* Setting the flag leaves the registers alone.
LEMMA SetFlagIs ==
  ASSUME NEW m, IsFPU(m), NEW value, NEW m2, m2 = [m EXCEPT !.cf = value]
  PROVE  /\ IsFPU(m2) /\ m2.cf = value /\ m2.sigfpe = m.sigfpe
         /\ \A j \in 0..7 : ST(m2, j) = ST(m, j)
<1>1. /\ m2.sigfpe = m.sigfpe /\ m2.top = m.top /\ m2.phys = m.phys /\ m2.cf = value
      /\ IsFPU(m2)
  BY DEF IsFPU
<1> QED
  BY <1>1 DEF ST

\* A push onto a full stack is an exception, otherwise it makes room at the top.
LEMMA PushIs ==
  ASSUME NEW m, IsFPU(m), NEW value, NEW m2, m2 = Push(m, value)
  PROVE  /\ IsFPU(m2) /\ m2.cf = m.cf
         /\ ST(m, 7) # Empty => m2 = Trap(m)
         /\ ST(m, 7) = Empty => /\ m2.sigfpe = m.sigfpe /\ ST(m2, 0) = value
                                /\ \A j \in 1..7 : ST(m2, j) = ST(m, j - 1)
<1>1. CASE ST(m, 7) # Empty
  <2>1. m2 = Trap(m)
    BY <1>1 DEF Push
  <2> QED
    BY <1>1, <2>1, TrapIs
<1>2. CASE ST(m, 7) = Empty
  <2> DEFINE m1 == Turn(m, 7)
  <2>1. m2 = Store(m1, 0, value)
    BY <1>2 DEF Push
  <2>2. /\ IsFPU(m1) /\ m1.cf = m.cf /\ m1.sigfpe = m.sigfpe
        /\ \A j \in 1..7 : ST(m1, j) = ST(m, j - 1)
    BY TurnsOne
  <2> HIDE DEF m1
  <2>3. /\ IsFPU(m2) /\ m2.cf = m1.cf /\ m2.sigfpe = m1.sigfpe /\ ST(m2, 0) = value
        /\ \A j \in 0..7 : j # 0 => ST(m2, j) = ST(m1, j)
    BY <2>1, <2>2, 0 \in 0..7, StoreIs
  <2> QED
    BY <1>2, <2>2, <2>3
<1> QED
  BY <1>1, <1>2

\* A pop moves the registers down and leaves the last one empty.
LEMMA PopIs ==
  ASSUME NEW m, IsFPU(m), NEW m2, m2 = Pop(m)
  PROVE  /\ IsFPU(m2) /\ m2.cf = m.cf /\ m2.sigfpe = m.sigfpe /\ ST(m2, 7) = Empty
         /\ \A j \in 0..6 : ST(m2, j) = ST(m, j + 1)
<1> DEFINE m1 == Store(m, 0, Empty)
<1>1. m2 = Turn(m1, 1)
  BY DEF Pop
<1>2. /\ IsFPU(m1) /\ m1.cf = m.cf /\ m1.sigfpe = m.sigfpe /\ ST(m1, 0) = Empty
      /\ \A j \in 0..7 : j # 0 => ST(m1, j) = ST(m, j)
  BY 0 \in 0..7, StoreIs
<1> HIDE DEF m1
<1>3. /\ IsFPU(m2) /\ m2.cf = m1.cf /\ m2.sigfpe = m1.sigfpe /\ ST(m2, 7) = ST(m1, 0)
      /\ \A j \in 0..6 : ST(m2, j) = ST(m1, j + 1)
  BY <1>1, <1>2, TurnsOne
<1> QED
  BY <1>2, <1>3

---------------------------------------------------------------------------------
(***************************************************************************)
(* The machine has the same registers empty, whether the constants are the *)
(* exact ones or the printed ones.                                         *)
(***************************************************************************)
SameShape(m, n) ==
  /\ IsFPU(m) /\ IsFPU(n)
  /\ (m.sigfpe <=> n.sigfpe)
  /\ \A i \in 0..7 : (ST(m, i) = Empty <=> ST(n, i) = Empty)

\* What is computed is never mistaken for an empty register or an unset flag.
LEMMA TermsFull ==
  ASSUME NEW op, NEW x, NEW y, NEW z
  PROVE  /\ Term1(op, x) # Empty /\ Term2(op, x, y) # Empty /\ Term3(x, y, z) # Empty
         /\ Term2(op, x, y) # Unset
         /\ << "0" >> # Empty /\ << "1" >> # Empty
<1>1. Len(Term1(op, x)) = 2 /\ Len(Term2(op, x, y)) = 3 /\ Len(Term3(x, y, z)) = 4
  BY DEF Term1, Term2, Term3
<1>2. Len(Empty) = 1 /\ Len(Unset) = 1
  BY DEF Empty, Unset
<1>3. << "0" >> # Empty /\ << "1" >> # Empty
  <2>1. << "0" >>[1] # Empty[1] /\ << "1" >>[1] # Empty[1]
    BY DEF Empty
  <2> QED
    BY <2>1
<1> QED
  BY <1>1, <1>2, <1>3

\* And neither is a number of the arrays.
LEMMA NumbersFull ==
  ASSUME NEW l, NEW addr, NEW printed
  PROVE  NumberAt(l, addr, printed) # Empty
<1>1. \E x, y : NumberAt(l, addr, printed) = << x, y >>
  BY DEF NumberAt, Printed
<1>2. PICK x, y : NumberAt(l, addr, printed) = << x, y >>
  BY <1>1
<1>3. Len(<< x, y >>) = 2 /\ Len(Empty) = 1
  BY DEF Empty
<1> QED
  BY <1>2, <1>3

\* Both machines store.
LEMMA SameStore ==
  ASSUME NEW m, NEW n, SameShape(m, n), NEW i \in 0..7, NEW x, NEW y,
         x = Empty <=> y = Empty
  PROVE  SameShape(Store(m, i, x), Store(n, i, y))
<1> DEFINE m2 == Store(m, i, x)
           n2 == Store(n, i, y)
<1>1. /\ IsFPU(m2) /\ m2.sigfpe = m.sigfpe /\ ST(m2, i) = x
      /\ \A j \in 0..7 : j # i => ST(m2, j) = ST(m, j)
  BY StoreIs DEF SameShape
<1>2. /\ IsFPU(n2) /\ n2.sigfpe = n.sigfpe /\ ST(n2, i) = y
      /\ \A j \in 0..7 : j # i => ST(n2, j) = ST(n, j)
  BY StoreIs DEF SameShape
<1> HIDE DEF m2, n2
<1>3. SameShape(m2, n2)
  BY <1>1, <1>2 DEF SameShape
<1> QED
  BY <1>3 DEF m2, n2

\* Both turn the stack.
LEMMA SameTurn ==
  ASSUME NEW m, NEW n, SameShape(m, n), NEW k \in {1, 7}
  PROVE  SameShape(Turn(m, k), Turn(n, k))
<1> DEFINE m2 == Turn(m, k)
           n2 == Turn(n, k)
<1>1. /\ IsFPU(m2) /\ m2.sigfpe = m.sigfpe
      /\ \A j \in 0..7 : ST(m2, j) = ST(m, (j + k) % 8)
  BY TurnIs DEF SameShape
<1>2. /\ IsFPU(n2) /\ n2.sigfpe = n.sigfpe
      /\ \A j \in 0..7 : ST(n2, j) = ST(n, (j + k) % 8)
  BY TurnIs DEF SameShape
<1> HIDE DEF m2, n2
<1>3. \A j \in 0..7 : (j + k) % 8 \in 0..7
  OBVIOUS
<1>4. SameShape(m2, n2)
  BY <1>1, <1>2, <1>3 DEF SameShape
<1> QED
  BY <1>4 DEF m2, n2

\* Both meet an exception.
LEMMA SameTrap ==
  ASSUME NEW m, NEW n, SameShape(m, n)
  PROVE  SameShape(Trap(m), Trap(n))
<1> DEFINE m2 == Trap(m)
           n2 == Trap(n)
<1>1. IsFPU(m2) /\ m2.sigfpe /\ \A j \in 0..7 : ST(m2, j) = ST(m, j)
  BY TrapIs DEF SameShape
<1>2. IsFPU(n2) /\ n2.sigfpe /\ \A j \in 0..7 : ST(n2, j) = ST(n, j)
  BY TrapIs DEF SameShape
<1> HIDE DEF m2, n2
<1>3. SameShape(m2, n2)
  BY <1>1, <1>2 DEF SameShape
<1> QED
  BY <1>3 DEF m2, n2

\* Both set the flag, whatever they set it to.
LEMMA SameSetFlag ==
  ASSUME NEW m, NEW n, SameShape(m, n), NEW x, NEW y, NEW m2, NEW n2,
         m2 = [m EXCEPT !.cf = x], n2 = [n EXCEPT !.cf = y]
  PROVE  SameShape(m2, n2)
<1>1. IsFPU(m2) /\ m2.sigfpe = m.sigfpe /\ \A j \in 0..7 : ST(m2, j) = ST(m, j)
  BY SetFlagIs DEF SameShape
<1>2. IsFPU(n2) /\ n2.sigfpe = n.sigfpe /\ \A j \in 0..7 : ST(n2, j) = ST(n, j)
  BY SetFlagIs DEF SameShape
<1> QED
  BY <1>1, <1>2 DEF SameShape

\* Both push, or both meet an exception.
LEMMA SamePush ==
  ASSUME NEW m, NEW n, SameShape(m, n), NEW x, NEW y, x = Empty <=> y = Empty
  PROVE  SameShape(Push(m, x), Push(n, y))
<1>1. ST(m, 7) = Empty <=> ST(n, 7) = Empty
  BY DEF SameShape
<1>2. CASE ST(m, 7) # Empty
  BY <1>1, <1>2, SameTrap DEF Push
<1>3. CASE ST(m, 7) = Empty
  <2> DEFINE m2 == Turn(m, 7)
             n2 == Turn(n, 7)
  <2>1. SameShape(m2, n2)
    BY SameTurn
  <2>2. Push(m, x) = Store(m2, 0, x) /\ Push(n, y) = Store(n2, 0, y)
    BY <1>1, <1>3 DEF Push
  <2> HIDE DEF m2, n2
  <2>3. SameShape(Store(m2, 0, x), Store(n2, 0, y))
    BY <2>1, 0 \in 0..7, SameStore
  <2> QED
    BY <2>2, <2>3
<1> QED
  BY <1>2, <1>3

\* Both pop, unless both have met an exception.
LEMMA SameThenPop ==
  ASSUME NEW m, NEW n, SameShape(m, n)
  PROVE  SameShape(ThenPop(m), ThenPop(n))
<1>1. CASE m.sigfpe
  <2>1. ThenPop(m) = m /\ ThenPop(n) = n
    BY <1>1 DEF ThenPop, SameShape
  <2> QED
    BY <2>1
<1>2. CASE ~m.sigfpe
  <2> DEFINE m2 == Store(m, 0, Empty)
             n2 == Store(n, 0, Empty)
  <2>1. SameShape(m2, n2)
    BY 0 \in 0..7, SameStore
  <2>2. ThenPop(m) = Turn(m2, 1) /\ ThenPop(n) = Turn(n2, 1)
    BY <1>2 DEF ThenPop, Pop, SameShape
  <2> HIDE DEF m2, n2
  <2>3. SameShape(Turn(m2, 1), Turn(n2, 1))
    BY <2>1, SameTurn
  <2> QED
    BY <2>2, <2>3
<1> QED
  BY <1>1, <1>2

\* Both find the registers they need, or both meet an exception.
LEMMA SameNeeds ==
  ASSUME NEW m, NEW n, SameShape(m, n), NEW regs \in SUBSET (0..7), NEW m2, NEW n2,
         SameShape(m2, n2)
  PROVE  SameShape(Needs(m, regs, m2), Needs(n, regs, n2))
<1>1. (\E i \in regs : ST(m, i) = Empty) <=> (\E i \in regs : ST(n, i) = Empty)
  BY DEF SameShape
<1>2. SameShape(Trap(m), Trap(n))
  BY SameTrap
<1>3. CASE \E i \in regs : ST(m, i) = Empty
  BY <1>1, <1>2, <1>3 DEF Needs
<1>4. CASE ~\E i \in regs : ST(m, i) = Empty
  BY <1>1, <1>4 DEF Needs
<1> QED
  BY <1>3, <1>4

\* The operations of the machine, with their terms named.
LEMMA TermsAre ==
  ASSUME NEW m, NEW op, NEW i, NEW j, NEW x
  PROVE  /\ Apply(m, op) = Needs(m, {0}, Store(m, 0, Term1(op, ST(m, 0))))
         /\ Combine(m, op, i, j) = Needs(m, {i, j}, Store(m, i, Term2(op, ST(m, i), ST(m, j))))
         /\ CombineNumber(m, op, x) = Needs(m, {0}, Store(m, 0, Term2(op, ST(m, 0), x)))
         /\ SetFlag(m, i) = Needs(m, {0, i}, [m EXCEPT !.cf = Term2("less", ST(m, 0), ST(m, i))])
         /\ Choose(m, i, j)
              = Needs(m, {i, j}, Store(m, 0, Term3(m.cf, ST(m, i), ST(m, j))))
BY DEF Apply, Combine, CombineNumber, SetFlag, Choose, Term1, Term2, Term3

\* Both combine two registers.
LEMMA SameCombine ==
  ASSUME NEW m, NEW n, SameShape(m, n), NEW op, NEW i \in 0..7, NEW j \in 0..7
  PROVE  SameShape(Combine(m, op, i, j), Combine(n, op, i, j))
<1> DEFINE regs == {i, j}
           x == Term2(op, ST(m, i), ST(m, j))
           y == Term2(op, ST(n, i), ST(n, j))
<1>1. x # Empty /\ y # Empty /\ regs \in SUBSET (0..7)
  BY TermsFull
<1>2. /\ Combine(m, op, i, j) = Needs(m, regs, Store(m, i, x))
      /\ Combine(n, op, i, j) = Needs(n, regs, Store(n, i, y))
  BY DEF Combine, Term2
<1> HIDE DEF regs, x, y
<1> QED
  BY <1>1, <1>2, SameStore, SameNeeds

\* Both apply a function to the top of the stack.
LEMMA SameApply ==
  ASSUME NEW m, NEW n, SameShape(m, n), NEW op
  PROVE  SameShape(Apply(m, op), Apply(n, op))
<1> DEFINE regs == {0}
           x == Term1(op, ST(m, 0))
           y == Term1(op, ST(n, 0))
<1>1. x # Empty /\ y # Empty /\ regs \in SUBSET (0..7)
  BY TermsFull
<1>2. Apply(m, op) = Needs(m, regs, Store(m, 0, x)) /\ Apply(n, op) = Needs(n, regs, Store(n, 0, y))
  BY TermsAre
<1> HIDE DEF regs, x, y
<1> QED
  BY <1>1, <1>2, 0 \in 0..7, SameStore, SameNeeds

\* Both combine the top of the stack with a number, each with its own.
LEMMA SameCombineNumber ==
  ASSUME NEW m, NEW n, SameShape(m, n), NEW op, NEW u, NEW v
  PROVE  SameShape(CombineNumber(m, op, u), CombineNumber(n, op, v))
<1> DEFINE regs == {0}
           x == Term2(op, ST(m, 0), u)
           y == Term2(op, ST(n, 0), v)
<1>1. x # Empty /\ y # Empty /\ regs \in SUBSET (0..7)
  BY TermsFull
<1>2. /\ CombineNumber(m, op, u) = Needs(m, regs, Store(m, 0, x))
      /\ CombineNumber(n, op, v) = Needs(n, regs, Store(n, 0, y))
  BY DEF CombineNumber, Term2
<1> HIDE DEF regs, x, y
<1> QED
  BY <1>1, <1>2, 0 \in 0..7, SameStore, SameNeeds

\* Both copy the top of the stack.
LEMMA SameCopyTop ==
  ASSUME NEW m, NEW n, SameShape(m, n), NEW i \in 0..7
  PROVE  SameShape(CopyTop(m, i), CopyTop(n, i))
<1> DEFINE regs == {0}
           x == ST(m, 0)
           y == ST(n, 0)
<1>1. regs \in SUBSET (0..7) /\ (x = Empty <=> y = Empty)
  BY DEF SameShape
<1>2. CopyTop(m, i) = Needs(m, regs, Store(m, i, x)) /\ CopyTop(n, i) = Needs(n, regs, Store(n, i, y))
  BY DEF CopyTop
<1> HIDE DEF regs, x, y
<1> QED
  BY <1>1, <1>2, SameStore, SameNeeds

\* Both push a copy of a register.
LEMMA SamePushCopy ==
  ASSUME NEW m, NEW n, SameShape(m, n), NEW i \in 0..7
  PROVE  SameShape(PushCopy(m, i), PushCopy(n, i))
<1> DEFINE regs == {i}
           x == ST(m, i)
           y == ST(n, i)
<1>1. regs \in SUBSET (0..7) /\ (x = Empty <=> y = Empty)
  BY DEF SameShape
<1>2. PushCopy(m, i) = Needs(m, regs, Push(m, x)) /\ PushCopy(n, i) = Needs(n, regs, Push(n, y))
  BY DEF PushCopy
<1> HIDE DEF regs, x, y
<1> QED
  BY <1>1, <1>2, SamePush, SameNeeds

\* Both exchange the top of the stack and a register.
LEMMA SameExchange ==
  ASSUME NEW m, NEW n, SameShape(m, n), NEW i \in 0..7
  PROVE  SameShape(Exchange(m, i), Exchange(n, i))
<1> DEFINE regs == {0, i}
           x0 == ST(m, 0)
           y0 == ST(n, 0)
           x == ST(m, i)
           y == ST(n, i)
           m1 == Store(m, 0, x)
           n1 == Store(n, 0, y)
<1>1. /\ regs \in SUBSET (0..7) /\ (x = Empty <=> y = Empty) /\ (x0 = Empty <=> y0 = Empty)
  BY DEF SameShape
<1>2. /\ Exchange(m, i) = Needs(m, regs, Store(m1, i, x0))
      /\ Exchange(n, i) = Needs(n, regs, Store(n1, i, y0))
  BY DEF Exchange
<1> HIDE DEF x, y, x0, y0, regs
<1>3. SameShape(m1, n1)
  BY <1>1, 0 \in 0..7, SameStore
<1> HIDE DEF m1, n1
<1> QED
  BY <1>1, <1>2, <1>3, SameStore, SameNeeds

\* Both compare.
LEMMA SameFlag ==
  ASSUME NEW m, NEW n, SameShape(m, n), NEW i \in 0..7
  PROVE  SameShape(SetFlag(m, i), SetFlag(n, i))
<1> DEFINE regs == {0, i}
           x == Term2("less", ST(m, 0), ST(m, i))
           y == Term2("less", ST(n, 0), ST(n, i))
           m2 == [m EXCEPT !.cf = x]
           n2 == [n EXCEPT !.cf = y]
<1>1. regs \in SUBSET (0..7)
  OBVIOUS
<1>2. SetFlag(m, i) = Needs(m, regs, m2) /\ SetFlag(n, i) = Needs(n, regs, n2)
  BY TermsAre
<1>3. SameShape(m2, n2)
  BY SameSetFlag
<1> HIDE DEF regs, m2, n2
<1> QED
  BY <1>1, <1>2, <1>3, SameNeeds

\* Both move a register or do not.
LEMMA SameChoose ==
  ASSUME NEW m, NEW n, SameShape(m, n), NEW i \in 0..7, NEW j \in 0..7
  PROVE  SameShape(Choose(m, i, j), Choose(n, i, j))
<1> DEFINE regs == {i, j}
           x == Term3(m.cf, ST(m, i), ST(m, j))
           y == Term3(n.cf, ST(n, i), ST(n, j))
<1>1. x # Empty /\ y # Empty /\ regs \in SUBSET (0..7)
  BY TermsFull
<1>2. /\ Choose(m, i, j) = Needs(m, regs, Store(m, 0, x))
      /\ Choose(n, i, j) = Needs(n, regs, Store(n, 0, y))
  BY DEF Choose, Term3
<1> HIDE DEF regs, x, y
<1> QED
  BY <1>1, <1>2, 0 \in 0..7, SameStore, SameNeeds

---------------------------------------------------------------------------------
\* An instruction changes the machine and the C program in one of these ways.
LEMMA Classes ==
  ASSUME NEW bytes \in Seq(Byte), IsInstruction(bytes)
  PROVE  \/ /\ ~Compare(bytes)
            /\ \/ \E op : Unary(bytes, op)
               \/ Len(bytes) = 6 /\ LoadsNumber(bytes)
               \/ Len(bytes) = 6 /\ \E op : CombinesNumber(bytes, op)
               \/ \E op, i, j : Combines(bytes, op, i, j) \/ CombinesPops(bytes, op, i, j)
               \/ \E x : PushesLiteral(bytes, x)
               \/ TurnsUp(bytes) \/ TurnsDown(bytes)
               \/ \E n : StoresTop(bytes, n) \/ Loads(bytes, n) \/ Exchanges(bytes, n)
               \/ \E n, i, j : MovesIf(bytes, n, i, j)
         \/ \E n : ComparesWith(bytes, n)
<1>1. \/ \E b2 \in NoArgBytes : bytes = << \hD9, b2 >>
      \/ \E b1, b2, n : RegisterForm(bytes, b1, b2, n)
      \/ MemoryForm(bytes)
  BY InstructionForms DEF Byte
<1>2. CASE \E b2 \in NoArgBytes : bytes = << \hD9, b2 >>
  <2>1. ~Compare(bytes)
    BY <1>2 DEF Compare
  <2> QED
    BY <1>2, <2>1, NoArgClasses
<1>3. CASE \E b1, b2, n : RegisterForm(bytes, b1, b2, n)
  BY <1>3, RegisterClasses
<1>4. CASE MemoryForm(bytes)
  <2>1. /\ bytes[1] \in {\hDC, \hDD}
        /\ LoadsNumber(bytes) \/ \E op : CombinesNumber(bytes, op)
    BY <1>4, MemoryClasses
  <2>2. ~Compare(bytes) /\ Len(bytes) = 6
    BY <1>4, <2>1 DEF Compare, MemoryForm
  <2> QED
    BY <2>1, <2>2
<1> QED
  BY <1>1, <1>2, <1>3, <1>4

\* An instruction leaves the same registers empty in both machines.
LEMMA SameExecutes ==
  ASSUME NEW bytes \in Seq(Byte), IsInstruction(bytes), NEW l, NEW m, NEW n, SameShape(m, n)
  PROVE  SameShape(Execute1(l, m, bytes, FALSE), Execute1(l, n, bytes, TRUE))
<1>1. CASE m.sigfpe
  <2>1. Execute1(l, m, bytes, FALSE) = m /\ Execute1(l, n, bytes, TRUE) = n
    BY <1>1 DEF Execute1, SameShape
  <2> QED
    BY <2>1
<1>2. CASE ~m.sigfpe
  <2> DEFINE m2 == Execute1(l, m, bytes, FALSE)
             n2 == Execute1(l, n, bytes, TRUE)
  <2>1. ~n.sigfpe
    BY <1>2 DEF SameShape
  <2>2. ASSUME NEW op, Unary(bytes, op) PROVE SameShape(m2, n2)
    <3>1. m2 = Apply(m, op) /\ n2 = Apply(n, op)
      BY <1>2, <2>1, <2>2 DEF Unary
    <3> QED
      BY <3>1, SameApply
  <2>3. ASSUME NEW op, CombinesNumber(bytes, op) PROVE SameShape(m2, n2)
    <3>1. \E u, v : m2 = CombineNumber(m, op, u) /\ n2 = CombineNumber(n, op, v)
      BY <1>2, <2>1, <2>3 DEF CombinesNumber
    <3> QED
      BY <3>1, SameCombineNumber
  <2>4. ASSUME NEW op, NEW i, NEW j, Combines(bytes, op, i, j) PROVE SameShape(m2, n2)
    <3>1. /\ m2 = Combine(m, op, i, j) /\ n2 = Combine(n, op, i, j)
          /\ i \in 0..7 /\ j \in 0..7
      BY <1>2, <2>1, <2>4 DEF Combines
    <3> QED
      BY <3>1, SameCombine
  <2>5. ASSUME NEW op, NEW i, NEW j, CombinesPops(bytes, op, i, j) PROVE SameShape(m2, n2)
    <3>1. /\ m2 = ThenPop(Combine(m, op, i, j)) /\ n2 = ThenPop(Combine(n, op, i, j))
          /\ i \in 0..7 /\ j \in 0..7
      BY <1>2, <2>1, <2>5 DEF CombinesPops
    <3> QED
      BY <3>1, SameCombine, SameThenPop
  <2>6. ASSUME NEW x, PushesLiteral(bytes, x) PROVE SameShape(m2, n2)
    <3>1. m2 = Push(m, x) /\ n2 = Push(n, x)
      BY <1>2, <2>1, <2>6 DEF PushesLiteral
    <3> QED
      BY <3>1, SamePush
  <2>7. ASSUME TurnsUp(bytes) PROVE SameShape(m2, n2)
    <3>1. m2 = Turn(m, 7) /\ n2 = Turn(n, 7)
      BY <1>2, <2>1, <2>7 DEF TurnsUp
    <3> QED
      BY <3>1, SameTurn
  <2>8. ASSUME TurnsDown(bytes) PROVE SameShape(m2, n2)
    <3>1. m2 = Turn(m, 1) /\ n2 = Turn(n, 1)
      BY <1>2, <2>1, <2>8 DEF TurnsDown
    <3> QED
      BY <3>1, SameTurn
  <2>9. ASSUME LoadsNumber(bytes) PROVE SameShape(m2, n2)
    <3> DEFINE u == NumberAt(l, Address(bytes), FALSE)
               v == NumberAt(l, Address(bytes), TRUE)
    <3>1. m2 = Push(m, u) /\ n2 = Push(n, v)
      BY <1>2, <2>1, <2>9 DEF LoadsNumber
    <3>2. u # Empty /\ v # Empty
      BY NumbersFull
    <3> HIDE DEF u, v
    <3> QED
      BY <3>1, <3>2, SamePush
  <2>10. ASSUME NEW k, StoresTop(bytes, k) PROVE SameShape(m2, n2)
    <3>1. m2 = CopyTop(m, k) /\ n2 = CopyTop(n, k) /\ k \in 0..7
      BY <1>2, <2>1, <2>10 DEF StoresTop
    <3> QED
      BY <3>1, SameCopyTop
  <2>11. ASSUME NEW k, Loads(bytes, k) PROVE SameShape(m2, n2)
    <3>1. m2 = PushCopy(m, k) /\ n2 = PushCopy(n, k) /\ k \in 0..7
      BY <1>2, <2>1, <2>11 DEF Loads
    <3> QED
      BY <3>1, SamePushCopy
  <2>12. ASSUME NEW k, Exchanges(bytes, k) PROVE SameShape(m2, n2)
    <3>1. m2 = Exchange(m, k) /\ n2 = Exchange(n, k) /\ k \in 0..7
      BY <1>2, <2>1, <2>12 DEF Exchanges
    <3> QED
      BY <3>1, SameExchange
  <2>13. ASSUME NEW k, ComparesWith(bytes, k) PROVE SameShape(m2, n2)
    <3>1. m2 = SetFlag(m, k) /\ n2 = SetFlag(n, k) /\ k \in 0..7
      BY <1>2, <2>1, <2>13 DEF ComparesWith
    <3> QED
      BY <3>1, SameFlag
  <2>14. ASSUME NEW k, NEW i, NEW j, MovesIf(bytes, k, i, j) PROVE SameShape(m2, n2)
    <3>1. m2 = Choose(m, i, j) /\ n2 = Choose(n, i, j)
      BY <1>2, <2>1, <2>14 DEF MovesIf
    <3>2. i \in 0..7 /\ j \in 0..7
      BY <2>14 DEF MovesIf
    <3> QED
      BY <3>1, <3>2, SameChoose
  <2> HIDE DEF m2, n2
  <2>15. SameShape(m2, n2)
    BY Classes, <2>2, <2>3, <2>4, <2>5, <2>6, <2>7, <2>8, <2>9, <2>10, <2>11, <2>12,
       <2>13, <2>14
  <2> QED
    BY <2>15 DEF m2, n2
<1> QED
  BY <1>1, <1>2

---------------------------------------------------------------------------------
(***************************************************************************)
(* What the machine and the C program have in common.                      *)
(***************************************************************************)
Matches(m, g) ==
  /\ \A i \in 0..7 : ST(m, i) # Empty => g[i] = ST(m, i)
  /\ m.cf # Unset => g[9] = m.cf

\* A store and an assignment to the same register keep them in agreement.
LEMMA MatchesStore ==
  ASSUME NEW m, NEW g, IsFPU(m), IsEnv(g), Matches(m, g), NEW i \in 0..7, NEW x,
         NEW m2, m2 = Store(m, i, x)
  PROVE  IsFPU(m2) /\ m2.cf = m.cf /\ Matches(m2, SetVar(g, i, x))
<1>1. /\ IsFPU(m2) /\ m2.cf = m.cf /\ ST(m2, i) = x
      /\ \A j \in 0..7 : j # i => ST(m2, j) = ST(m, j)
  BY StoreIs
<1> DEFINE g2 == SetVar(g, i, x)
<1>2. g2[i] = x /\ \A j \in 0..9 : j # i => g2[j] = g[j]
  BY SetVarIs
<1> HIDE DEF g2
<1>3. \A j \in 0..7 : ST(m2, j) # Empty => g2[j] = ST(m2, j)
  BY <1>1, <1>2 DEF Matches
<1>4. m2.cf # Unset => g2[9] = m2.cf
  BY <1>1, <1>2 DEF Matches
<1>5. Matches(m2, g2)
  BY <1>3, <1>4 DEF Matches
<1> QED
  BY <1>1, <1>5 DEF g2

\* Whatever is in tmp, which no register of the machine stands for.
LEMMA MatchesScratch ==
  ASSUME NEW m, NEW g, IsEnv(g), Matches(m, g), NEW x
  PROVE  Matches(m, SetVar(g, 8, x))
<1> DEFINE g2 == SetVar(g, 8, x)
<1>1. \A j \in 0..9 : j # 8 => g2[j] = g[j]
  BY SetVarIs
<1> HIDE DEF g2
<1>2. Matches(m, g2)
  BY <1>1 DEF Matches
<1> QED
  BY <1>2 DEF g2

\* A push, and the array moved up and assigned to at the top.
LEMMA MatchesPush ==
  ASSUME NEW m, NEW g, NEW g1, IsFPU(m), Matches(m, g), MovedUp(g, g1), NEW x,
         NEW m2, m2 = Push(m, x), ~m2.sigfpe
  PROVE  m2.cf = m.cf /\ Matches(m2, SetVar(g1, 0, x))
<1>1. ST(m, 7) = Empty
  BY PushIs, TrapIs
<1>2. m2.cf = m.cf /\ ST(m2, 0) = x /\ \A j \in 1..7 : ST(m2, j) = ST(m, j - 1)
  BY <1>1, PushIs
<1> DEFINE g2 == SetVar(g1, 0, x)
<1>3. g2[0] = x /\ \A j \in 0..9 : j # 0 => g2[j] = g1[j]
  BY SetVarIs DEF MovedUp
<1> HIDE DEF g2
<1>4. ASSUME NEW j \in 0..7, ST(m2, j) # Empty PROVE g2[j] = ST(m2, j)
  <2>1. CASE j = 0
    BY <1>2, <1>3, <2>1
  <2>2. CASE j # 0
    <3>1. j - 1 \in 0..7 /\ j \in 1..7
      BY <2>2
    <3>2. g2[j] = g[j - 1] /\ ST(m2, j) = ST(m, j - 1)
      BY <1>2, <1>3, <2>2, <3>1 DEF MovedUp
    <3> DEFINE k == j - 1
    <3> HIDE DEF k
    <3>3. g2[j] = g[k] /\ ST(m2, j) = ST(m, k) /\ k \in 0..7
      BY <3>1, <3>2 DEF k
    <3> QED
      BY <1>4, <3>3 DEF Matches
  <2> QED
    BY <2>1, <2>2
<1>5. m2.cf # Unset => g2[9] = m2.cf
  BY <1>2, <1>3 DEF Matches, MovedUp
<1>6. Matches(m2, g2)
  BY <1>4, <1>5 DEF Matches
<1> QED
  BY <1>2, <1>6 DEF g2

\* FDECSTP, and the array turned up.
LEMMA MatchesTurnUp ==
  ASSUME NEW m, NEW g, NEW g2, IsFPU(m), Matches(m, g), TurnedUp(g, g2),
         NEW m2, m2 = Turn(m, 7)
  PROVE  m2.cf = m.cf /\ Matches(m2, g2)
<1>1. /\ m2.cf = m.cf /\ ST(m2, 0) = ST(m, 7)
      /\ \A j \in 1..7 : ST(m2, j) = ST(m, j - 1)
  BY TurnsOne
<1>2. ASSUME NEW j \in 0..7, ST(m2, j) # Empty PROVE g2[j] = ST(m2, j)
  <2>1. CASE j = 0
    <3>1. g2[j] = g[7] /\ ST(m2, j) = ST(m, 7) /\ 7 \in 0..7
      BY <1>1, <2>1 DEF TurnedUp
    <3> QED
      BY <1>2, <3>1 DEF Matches
  <2>2. CASE j # 0
    <3> DEFINE k == j - 1
    <3>1. k \in 0..7 /\ j \in 1..7
      BY <2>2
    <3>2. g2[j] = g[k] /\ ST(m2, j) = ST(m, k)
      BY <1>1, <3>1 DEF TurnedUp
    <3> HIDE DEF k
    <3> QED
      BY <1>2, <3>1, <3>2 DEF Matches
  <2> QED
    BY <2>1, <2>2
<1> QED
  BY <1>1, <1>2 DEF Matches, TurnedUp

\* FINCSTP, and the array turned down.
LEMMA MatchesTurnDown ==
  ASSUME NEW m, NEW g, NEW g2, IsFPU(m), Matches(m, g), TurnedDown(g, g2),
         NEW m2, m2 = Turn(m, 1)
  PROVE  m2.cf = m.cf /\ Matches(m2, g2)
<1>1. /\ m2.cf = m.cf /\ ST(m2, 7) = ST(m, 0)
      /\ \A j \in 0..6 : ST(m2, j) = ST(m, j + 1)
  BY TurnsOne
<1>2. ASSUME NEW j \in 0..7, ST(m2, j) # Empty PROVE g2[j] = ST(m2, j)
  <2>1. CASE j = 7
    <3>1. g2[j] = g[0] /\ ST(m2, j) = ST(m, 0) /\ 0 \in 0..7
      BY <1>1, <2>1 DEF TurnedDown
    <3> QED
      BY <1>2, <3>1 DEF Matches
  <2>2. CASE j # 7
    <3> DEFINE k == j + 1
    <3>1. k \in 0..7 /\ j \in 0..6
      BY <2>2
    <3>2. g2[j] = g[k] /\ ST(m2, j) = ST(m, k)
      BY <1>1, <3>1 DEF TurnedDown
    <3> HIDE DEF k
    <3> QED
      BY <1>2, <3>1, <3>2 DEF Matches
  <2> QED
    BY <2>1, <2>2
<1> QED
  BY <1>1, <1>2 DEF Matches, TurnedDown

\* A pop, and the array turned down: what comes round to f[7] is empty in the machine.
LEMMA MatchesThenPop ==
  ASSUME NEW m, NEW g, NEW g2, IsFPU(m), Matches(m, g), TurnedDown(g, g2),
         NEW m2, m2 = ThenPop(m), ~m2.sigfpe
  PROVE  ~m.sigfpe /\ m2.cf = m.cf /\ Matches(m2, g2)
<1>1. ~m.sigfpe
  BY DEF ThenPop
<1>2. m2 = Pop(m)
  BY <1>1 DEF ThenPop
<1>3. m2.cf = m.cf /\ ST(m2, 7) = Empty /\ \A j \in 0..6 : ST(m2, j) = ST(m, j + 1)
  BY <1>2, PopIs
<1>4. ASSUME NEW j \in 0..7, ST(m2, j) # Empty PROVE g2[j] = ST(m2, j)
  <2>1. j # 7
    BY <1>3, <1>4
  <2> DEFINE k == j + 1
  <2>2. k \in 0..7 /\ j \in 0..6
    BY <2>1
  <2>3. g2[j] = g[k] /\ ST(m2, j) = ST(m, k)
    BY <1>3, <2>2 DEF TurnedDown
  <2> HIDE DEF k
  <2> QED
    BY <1>4, <2>2, <2>3 DEF Matches
<1> QED
  BY <1>1, <1>3, <1>4 DEF Matches, TurnedDown

\* An instruction that does not trap found its registers full.
LEMMA NeedsMet ==
  ASSUME NEW m, IsFPU(m), NEW regs, NEW m2, NEW result, m2 = Needs(m, regs, result), ~m2.sigfpe
  PROVE  m2 = result /\ \A i \in regs : ST(m, i) # Empty
<1>1. Trap(m).sigfpe
  BY TrapIs
<1> QED
  BY <1>1 DEF Needs

---------------------------------------------------------------------------------
(***************************************************************************)
(* Each class of instructions: the C program follows the machine.          *)
(***************************************************************************)
\* The C program stands where the machine does.
Stands(m, s, g) == IsFPU(m) /\ Ends(s, g) /\ Matches(m, g)
\* It follows the machine m to m2 with the statements t.
Follows(m, m2, t) == m2.cf = m.cf /\ \E g : Ends(t, g) /\ Matches(m2, g)

\* FCHS, FABS, FSQRT, FSIN, FCOS, F2XM1.
LEMMA FollowsApply ==
  ASSUME NEW m, NEW s, NEW g, Stands(m, s, g), NEW op \in OneArgument,
         NEW m2, m2 = Apply(m, op), ~m2.sigfpe
  PROVE  Follows(m, m2, s \o Assign(0, Of1(op, 0)))
<1> DEFINE regs == {0}
           x == Term1(op, ST(m, 0))
           exp == Of1(op, 0)
           m1 == Store(m, 0, x)
<1>1. m2 = Needs(m, regs, m1)
  BY TermsAre
<1>2. m2 = m1 /\ \A i \in regs : ST(m, i) # Empty
  BY <1>1, NeedsMet DEF Stands
<1>3. g[0] = ST(m, 0) /\ IsEnv(g)
  BY <1>2, 0 \in 0..7 DEF Stands, Matches, Ends
<1>4. Evaluate(exp, g) = x
  <2>1. Evaluate(Of1(op, 0), g) = Term1(op, g[0])
    BY EvaluateOf1
  <2> QED
    BY <1>3, <2>1
<1> HIDE DEF regs, x, exp, m1
<1>5. Ends(s \o Assign(0, exp), SetVar(g, 0, x))
  BY <1>4, 0 \in 0..9, EndsAssign DEF Stands
<1>6. m2.cf = m.cf /\ Matches(m2, SetVar(g, 0, x))
  BY <1>2, <1>3, 0 \in 0..7, MatchesStore DEF Stands, m1
<1> QED
  BY <1>5, <1>6 DEF Follows, exp

\* Arithmetic on two registers, with what the two are like afterwards.
LEMMA EndsCombine ==
  ASSUME NEW m, NEW s, NEW g, Stands(m, s, g), NEW op \in TwoArguments,
         NEW i \in 0..7, NEW j \in 0..7,
         NEW m2, m2 = Combine(m, op, i, j), ~m2.sigfpe
  PROVE  IsFPU(m2) /\ m2.cf = m.cf /\ \E g2 : Stands(m2, s \o Assign(i, Of2(op, i, j)), g2)
<1> DEFINE regs == {i, j}
           x == Term2(op, ST(m, i), ST(m, j))
           exp == Of2(op, i, j)
           m1 == Store(m, i, x)
<1>1. m2 = Needs(m, regs, m1)
  BY DEF Combine, Term2
<1>2. m2 = m1 /\ \A k \in regs : ST(m, k) # Empty
  BY <1>1, NeedsMet DEF Stands
<1>3. g[i] = ST(m, i) /\ g[j] = ST(m, j) /\ IsEnv(g)
  BY <1>2 DEF Stands, Matches, Ends
<1>4. Evaluate(exp, g) = x
  <2>1. Evaluate(Of2(op, i, j), g) = Term2(op, g[i], g[j])
    BY EvaluateOf2
  <2> QED
    BY <1>3, <2>1
<1> HIDE DEF regs, x, exp, m1
<1>5. Ends(s \o Assign(i, exp), SetVar(g, i, x))
  BY <1>4, i \in 0..9, EndsAssign DEF Stands
<1>6. IsFPU(m2) /\ m2.cf = m.cf /\ Matches(m2, SetVar(g, i, x))
  BY <1>2, <1>3, MatchesStore DEF Stands, m1
<1>7. Stands(m2, s \o Assign(i, exp), SetVar(g, i, x))
  BY <1>5, <1>6 DEF Stands
<1> QED
  BY <1>6, <1>7 DEF exp

\* FADD, FSUB, FMUL, FDIV on two registers, FSCALE.
LEMMA FollowsCombine ==
  ASSUME NEW m, NEW s, NEW g, Stands(m, s, g), NEW op \in TwoArguments,
         NEW i \in 0..7, NEW j \in 0..7,
         NEW m2, m2 = Combine(m, op, i, j), ~m2.sigfpe
  PROVE  Follows(m, m2, s \o Assign(i, Of2(op, i, j)))
BY EndsCombine DEF Follows, Stands

\* FADDP, FSUBP, FMULP, FDIVP, FYL2X: the same and popstack after it.
LEMMA FollowsCombinePop ==
  ASSUME NEW m, NEW s, NEW g, Stands(m, s, g), NEW op \in TwoArguments,
         NEW i \in 0..7, NEW j \in 0..7,
         NEW m2, m2 = ThenPop(Combine(m, op, i, j)), ~m2.sigfpe
  PROVE  Follows(m, m2, s \o (Assign(i, Of2(op, i, j)) \o popstack))
<1> DEFINE m1 == Combine(m, op, i, j)
           t == Assign(i, Of2(op, i, j))
<1>1. ~m1.sigfpe
  BY DEF ThenPop
<1>2. IsFPU(m1) /\ m1.cf = m.cf /\ \E g1 : Stands(m1, s \o t, g1)
  BY <1>1, EndsCombine
<1>3. IsSeq(t) /\ IsSeq(s) /\ IsSeq(rotstack(1)) /\ popstack = rotstack(1)
  BY AssignIs, TurnsAre DEF Stands, Ends, popstack
<1>4. m2 = ThenPop(m1)
  OBVIOUS
<1> HIDE DEF m1, t
<1>5. PICK g1 : Stands(m1, s \o t, g1)
  BY <1>2
<1>6. PICK g2 : TurnedDown(g1, g2) /\ Ends((s \o t) \o rotstack(1), g2)
  BY <1>5, EndsTurnDown DEF Stands
<1>7. Ends(s \o (t \o rotstack(1)), g2)
  BY <1>3, <1>6, EndsSplit
<1>8. m2.cf = m1.cf /\ Matches(m2, g2)
  BY <1>4, <1>5, <1>6, MatchesThenPop DEF Stands
<1>9. Follows(m, m2, s \o (t \o rotstack(1)))
  BY <1>2, <1>7, <1>8 DEF Follows
<1> QED
  BY <1>3, <1>9 DEF t

\* What is pushed is the value of the expression after the registers moved up.
LEMMA FollowsPush ==
  ASSUME NEW m, NEW s, NEW g, Stands(m, s, g), NEW x, NEW exp,
         \A g1 : MovedUp(g, g1) => Evaluate(exp, g1) = x,
         NEW m2, m2 = Push(m, x), ~m2.sigfpe
  PROVE  Follows(m, m2, s \o (top_is_top_minus_1 \o Assign(0, exp)))
<1> DEFINE t == Assign(0, exp)
<1>1. IsSeq(t) /\ IsSeq(s) /\ IsSeq(top_is_top_minus_1)
  BY AssignIs, ShiftsAre DEF Stands, Ends
<1>2. PICK g1 : MovedUp(g, g1) /\ Ends(s \o top_is_top_minus_1, g1)
  BY EndsUp DEF Stands
<1>3. Ends((s \o top_is_top_minus_1) \o t, SetVar(g1, 0, x))
  BY <1>2, 0 \in 0..9, EndsAssign
<1> HIDE DEF t
<1>4. Ends(s \o (top_is_top_minus_1 \o t), SetVar(g1, 0, x))
  BY <1>1, <1>3, EndsSplit
<1>5. m2.cf = m.cf /\ Matches(m2, SetVar(g1, 0, x))
  BY <1>2, MatchesPush DEF Stands
<1>6. Follows(m, m2, s \o (top_is_top_minus_1 \o t))
  BY <1>4, <1>5 DEF Follows
<1> QED
  BY <1>6 DEF t

\* FDECSTP and FINCSTP.
LEMMA FollowsTurns ==
  ASSUME NEW m, NEW s, NEW g, Stands(m, s, g), NEW m2
  PROVE  /\ m2 = Turn(m, 7) => Follows(m, m2, s \o rotstack(-1))
         /\ m2 = Turn(m, 1) => Follows(m, m2, s \o rotstack(1))
<1>1. ASSUME m2 = Turn(m, 7) PROVE Follows(m, m2, s \o rotstack(-1))
  <2>1. PICK g2 : TurnedUp(g, g2) /\ Ends(s \o rotstack(-1), g2)
    BY EndsTurnUp DEF Stands
  <2>2. m2.cf = m.cf /\ Matches(m2, g2)
    BY <1>1, <2>1, MatchesTurnUp DEF Stands
  <2> QED
    BY <2>1, <2>2 DEF Follows
<1>2. ASSUME m2 = Turn(m, 1) PROVE Follows(m, m2, s \o rotstack(1))
  <2>1. PICK g2 : TurnedDown(g, g2) /\ Ends(s \o rotstack(1), g2)
    BY EndsTurnDown DEF Stands
  <2>2. m2.cf = m.cf /\ Matches(m2, g2)
    BY <1>2, <2>1, MatchesTurnDown DEF Stands
  <2> QED
    BY <2>1, <2>2 DEF Follows
<1> QED
  BY <1>1, <1>2

\* FST.
LEMMA FollowsCopyTop ==
  ASSUME NEW m, NEW s, NEW g, Stands(m, s, g), NEW i \in 0..7,
         NEW m2, m2 = CopyTop(m, i), ~m2.sigfpe
  PROVE  Follows(m, m2, s \o Assign(i, F(0)))
<1> DEFINE regs == {0}
           x == ST(m, 0)
           exp == F(0)
           m1 == Store(m, i, x)
<1>1. m2 = Needs(m, regs, m1)
  BY DEF CopyTop
<1>2. m2 = m1 /\ \A k \in regs : ST(m, k) # Empty
  BY <1>1, NeedsMet DEF Stands
<1>3. g[0] = x /\ IsEnv(g)
  BY <1>2, 0 \in 0..7 DEF Stands, Matches, Ends
<1>4. Evaluate(exp, g) = x
  BY <1>3, EvaluateF
<1> HIDE DEF regs, x, exp, m1
<1>5. Ends(s \o Assign(i, exp), SetVar(g, i, x))
  BY <1>4, i \in 0..9, EndsAssign DEF Stands
<1>6. m2.cf = m.cf /\ Matches(m2, SetVar(g, i, x))
  BY <1>2, <1>3, MatchesStore DEF Stands, m1
<1> QED
  BY <1>5, <1>6 DEF Follows, exp

\* Arithmetic on the top of the stack and a number of the arrays.
LEMMA FollowsNumber ==
  ASSUME NEW m, NEW s, NEW g, Stands(m, s, g), NEW op \in TwoArguments, NEW v, IsNumber(v),
         NEW m2, m2 = CombineNumber(m, op, v), ~m2.sigfpe
  PROVE  Follows(m, m2, s \o Assign(0, OfNumber(op, v)))
<1> DEFINE regs == {0}
           x == Term2(op, ST(m, 0), v)
           exp == OfNumber(op, v)
           m1 == Store(m, 0, x)
<1>1. m2 = Needs(m, regs, m1)
  BY DEF CombineNumber, Term2
<1>2. m2 = m1 /\ \A k \in regs : ST(m, k) # Empty
  BY <1>1, NeedsMet DEF Stands
<1>3. g[0] = ST(m, 0) /\ IsEnv(g)
  BY <1>2, 0 \in 0..7 DEF Stands, Matches, Ends
<1>4. Evaluate(exp, g) = x
  <2>1. Evaluate(OfNumber(op, v), g) = Term2(op, g[0], v)
    BY EvaluateOfNumber
  <2> QED
    BY <1>3, <2>1
<1> HIDE DEF regs, x, exp, m1
<1>5. Ends(s \o Assign(0, exp), SetVar(g, 0, x))
  BY <1>4, 0 \in 0..9, EndsAssign DEF Stands
<1>6. m2.cf = m.cf /\ Matches(m2, SetVar(g, 0, x))
  BY <1>2, <1>3, 0 \in 0..7, MatchesStore DEF Stands, m1
<1> QED
  BY <1>5, <1>6 DEF Follows, exp

\* FCMOVB and FCMOVNB, when the flag has been set.
LEMMA FollowsChoose ==
  ASSUME NEW m, NEW s, NEW g, Stands(m, s, g), m.cf # Unset, NEW i \in 0..7, NEW j \in 0..7,
         NEW m2, m2 = Choose(m, i, j), ~m2.sigfpe
  PROVE  Follows(m, m2, s \o Assign(0, If3(i, j)))
<1> DEFINE regs == {i, j}
           x == Term3(m.cf, ST(m, i), ST(m, j))
           exp == If3(i, j)
           m1 == Store(m, 0, x)
<1>1. m2 = Needs(m, regs, m1)
  BY DEF Choose, Term3
<1>2. m2 = m1 /\ \A k \in regs : ST(m, k) # Empty
  BY <1>1, NeedsMet DEF Stands
<1>3. g[i] = ST(m, i) /\ g[j] = ST(m, j) /\ g[9] = m.cf /\ IsEnv(g)
  BY <1>2 DEF Stands, Matches, Ends
<1>4. Evaluate(exp, g) = x
  <2>1. Evaluate(If3(i, j), g) = Term3(g[9], g[i], g[j])
    BY EvaluateIf3
  <2> QED
    BY <1>3, <2>1
<1> HIDE DEF regs, x, exp, m1
<1>5. Ends(s \o Assign(0, exp), SetVar(g, 0, x))
  BY <1>4, 0 \in 0..9, EndsAssign DEF Stands
<1>6. m2.cf = m.cf /\ Matches(m2, SetVar(g, 0, x))
  BY <1>2, <1>3, 0 \in 0..7, MatchesStore DEF Stands, m1
<1> QED
  BY <1>5, <1>6 DEF Follows, exp

\* FCOMI, which sets the flag.
LEMMA FollowsFlag ==
  ASSUME NEW m, NEW s, NEW g, Stands(m, s, g), NEW i \in 0..7,
         NEW m2, m2 = SetFlag(m, i), ~m2.sigfpe
  PROVE  m2.cf # Unset /\ \E g2 : Ends(s \o Assign(cflag, Of2("less", 0, i)), g2) /\ Matches(m2, g2)
<1> DEFINE regs == {0, i}
           x == Term2("less", ST(m, 0), ST(m, i))
           exp == Of2("less", 0, i)
           m1 == [m EXCEPT !.cf = x]
           g2 == SetVar(g, 9, x)
<1>1. m2 = Needs(m, regs, m1)
  BY DEF SetFlag, Term2
<1>2. m2 = m1 /\ \A k \in regs : ST(m, k) # Empty
  BY <1>1, NeedsMet DEF Stands
<1>3. g[0] = ST(m, 0) /\ g[i] = ST(m, i) /\ IsEnv(g)
  BY <1>2, 0 \in 0..7 DEF Stands, Matches, Ends
<1>4. Evaluate(exp, g) = x /\ x # Unset
  <2>1. Evaluate(Of2("less", 0, i), g) = Term2("less", g[0], g[i])
    BY EvaluateOf2
  <2> QED
    BY <1>3, <2>1, TermsFull
<1>5. m2.cf = x /\ \A j \in 0..7 : ST(m2, j) = ST(m, j)
  BY <1>2, SetFlagIs DEF Stands
<1> HIDE DEF regs, x, exp, m1
<1>6. Ends(s \o Assign(9, exp), g2)
  BY <1>4, 9 \in 0..9, EndsAssign DEF Stands
<1>7. g2[9] = x /\ \A j \in 0..9 : j # 9 => g2[j] = g[j]
  BY <1>3, SetVarIs
<1> HIDE DEF g2
<1>8. Matches(m2, g2)
  BY <1>5, <1>7 DEF Matches, Stands
<1> QED
  BY <1>4, <1>5, <1>6, <1>8 DEF exp, cflag

\* FXCH, by way of tmp.
LEMMA FollowsExchange ==
  ASSUME NEW m, NEW s, NEW g, Stands(m, s, g), NEW n \in 0..7,
         NEW m2, m2 = Exchange(m, n), ~m2.sigfpe
  PROVE  Follows(m, m2, s \o (Assign(tmp, F(0)) \o Assign(0, F(n)) \o Assign(n, F(tmp))))
<1> DEFINE regs == {0, n}
           x0 == ST(m, 0)
           x == ST(m, n)
           m1 == Store(m, 0, x)
           m3 == Store(m1, n, x0)
<1>1. m2 = Needs(m, regs, m3)
  BY DEF Exchange
<1>2. m2 = m3 /\ \A k \in regs : ST(m, k) # Empty
  BY <1>1, NeedsMet DEF Stands
<1>3. g[0] = x0 /\ g[n] = x /\ IsEnv(g)
  BY <1>2, 0 \in 0..7 DEF Stands, Matches, Ends
<1> HIDE DEF regs, x, x0, m1, m3
<1> DEFINE g1 == SetVar(g, 8, x0)
           g2 == SetVar(g1, 0, x)
           g3 == SetVar(g2, n, x0)
           t1 == Assign(8, F(0))
           t2 == Assign(0, F(n))
           t3 == Assign(n, F(8))
<1>4. IsEnv(g1) /\ g1[8] = x0 /\ g1[n] = x /\ Ends(s \o t1, g1)
  <2>1. Evaluate(F(0), g) = x0 /\ n # 8 /\ 8 \in 0..9
    BY <1>3, EvaluateF
  <2>2. IsEnv(g1) /\ g1[8] = x0 /\ \A j \in 0..9 : j # 8 => g1[j] = g[j]
    BY <1>3, <2>1, SetVarIs
  <2>3. Ends(s \o t1, g1)
    BY <2>1, EndsAssign DEF Stands
  <2> HIDE DEF g1, t1
  <2> QED
    BY <1>3, <2>1, <2>2, <2>3
<1>5. Matches(m, g1)
  BY <1>3, MatchesScratch DEF Stands
<1> HIDE DEF g1, t1
<1>6. IsEnv(g2) /\ g2[8] = x0 /\ Ends((s \o t1) \o t2, g2)
  <2>1. Evaluate(F(n), g1) = x /\ 0 # 8 /\ 0 \in 0..9 /\ 8 \in 0..9
    BY <1>4, EvaluateF
  <2>2. IsEnv(g2) /\ g2[8] = g1[8]
    BY <1>4, <2>1, SetVarIs
  <2>3. Ends((s \o t1) \o t2, g2)
    BY <1>4, <2>1, EndsAssign
  <2> HIDE DEF g2, t2
  <2> QED
    BY <1>4, <2>2, <2>3
<1>7. IsFPU(m1) /\ m1.cf = m.cf /\ Matches(m1, g2)
  BY <1>4, <1>5, 0 \in 0..7, MatchesStore DEF Stands, m1
<1> HIDE DEF g2, t2
<1>8. Ends(((s \o t1) \o t2) \o t3, g3)
  <2>1. Evaluate(F(8), g2) = x0 /\ n \in 0..9
    BY <1>6, EvaluateF
  <2> QED
    BY <1>6, <2>1, EndsAssign
<1>9. m2.cf = m1.cf /\ Matches(m2, g3)
  BY <1>2, <1>6, <1>7, MatchesStore DEF m3
<1>10. IsSeq(s) /\ IsSeq(t1) /\ IsSeq(t2) /\ IsSeq(t3)
  BY AssignIs DEF Stands, Ends, t1, t2
<1> HIDE DEF g3, t3
<1> DEFINE t == t1 \o t2
<1>11. IsSeq(t) /\ (s \o t1) \o t2 = s \o t
  BY <1>10, SeqsConcat, SeqsAssociative
<1>12. Ends((s \o t) \o t3, g3)
  BY <1>8, <1>11
<1> HIDE DEF t
<1>13. Ends(s \o (t \o t3), g3)
  BY <1>10, <1>11, <1>12, EndsSplit
<1>14. Follows(m, m2, s \o (t \o t3))
  BY <1>7, <1>9, <1>13 DEF Follows
<1> QED
  BY <1>14 DEF t, t1, t2, t3, tmp

\* FLD of the top of the stack, by way of tmp.
LEMMA FollowsLoadTop ==
  ASSUME NEW m, NEW s, NEW g, Stands(m, s, g),
         NEW m2, m2 = PushCopy(m, 0), ~m2.sigfpe
  PROVE  Follows(m, m2, s \o (Assign(tmp, F(0)) \o top_is_top_minus_1 \o Assign(0, F(tmp))))
<1> DEFINE regs == {0}
           x == ST(m, 0)
           m3 == Push(m, x)
<1>1. m2 = Needs(m, regs, m3)
  BY DEF PushCopy
<1>2. m2 = m3 /\ \A k \in regs : ST(m, k) # Empty
  BY <1>1, NeedsMet DEF Stands
<1>3. g[0] = x /\ IsEnv(g)
  BY <1>2, 0 \in 0..7 DEF Stands, Matches, Ends
<1> HIDE DEF regs, x
<1> DEFINE g1 == SetVar(g, 8, x)
           t1 == Assign(8, F(0))
           t2 == top_is_top_minus_1
           t3 == Assign(0, F(8))
<1>4. IsEnv(g1) /\ g1[8] = x /\ Ends(s \o t1, g1)
  <2>1. Evaluate(F(0), g) = x /\ 8 \in 0..9
    BY <1>3, EvaluateF
  <2> QED
    BY <1>3, <2>1, SetVarIs, EndsAssign DEF Stands
<1>5. Matches(m, g1)
  BY <1>3, MatchesScratch DEF Stands
<1> HIDE DEF g1, t1
<1>6. PICK g2 : MovedUp(g1, g2) /\ Ends((s \o t1) \o t2, g2)
  BY <1>4, EndsUp
<1> DEFINE g3 == SetVar(g2, 0, x)
<1>7. Ends(((s \o t1) \o t2) \o t3, g3)
  <2>1. Evaluate(F(8), g2) = x /\ 0 \in 0..9
    BY <1>4, <1>6, EvaluateF DEF MovedUp
  <2> QED
    BY <1>6, <2>1, EndsAssign
<1>8. m2.cf = m.cf /\ Matches(m2, g3)
  BY <1>2, <1>5, <1>6, MatchesPush DEF Stands
<1>9. IsSeq(s) /\ IsSeq(t1) /\ IsSeq(t2) /\ IsSeq(t3)
  BY AssignIs, ShiftsAre DEF Stands, Ends, t1
<1> HIDE DEF g3, t3, t2
<1> DEFINE t == t1 \o t2
<1>10. IsSeq(t) /\ (s \o t1) \o t2 = s \o t
  BY <1>9, SeqsConcat, SeqsAssociative
<1>11. Ends((s \o t) \o t3, g3)
  BY <1>7, <1>10
<1> HIDE DEF t
<1>12. Ends(s \o (t \o t3), g3)
  BY <1>9, <1>10, <1>11, EndsSplit
<1>13. Follows(m, m2, s \o (t \o t3))
  BY <1>8, <1>12 DEF Follows
<1> QED
  BY <1>13 DEF t, t1, t2, t3, tmp

---------------------------------------------------------------------------------
\* The four bytes of an address are a number that is not negative.
LEMMA AddressIs ==
  ASSUME NEW bytes \in Seq(0..255), Len(bytes) = 6
  PROVE  Address(bytes) \in Nat
<1>1. ASSUME NEW k \in 1..6 PROVE bytes[k] \in 0..255
  BY ElementOfSeq
<1> DEFINE b3 == bytes[3]
           b4 == bytes[4]
           b5 == bytes[5]
           b6 == bytes[6]
<1>2. b3 \in 0..255 /\ b4 \in 0..255 /\ b5 \in 0..255 /\ b6 \in 0..255
  BY <1>1
<1>3. Address(bytes) = b3 + 256 * b4 + 65536 * b5 + 16777216 * b6
  BY DEF Address
<1> HIDE DEF b3, b4, b5, b6
<1>4. b3 \in Nat /\ b4 \in Nat /\ b5 \in Nat /\ b6 \in Nat
  BY <1>2
<1> QED
  BY <1>3, <1>4

\* The decompiler and the machine agree on which number is at an address.
LEMMA OperandIs ==
  ASSUME NEW l, layout = l, l \in Layouts,
         NEW bytes \in Instructions, Len(bytes) = 6
  PROVE  /\ Operand_of_address(Address(bytes)) = NumberAt(l, Address(bytes), TRUE)
         /\ IsNumber(NumberAt(l, Address(bytes), TRUE))
<1> DEFINE addr == Address(bytes)
<1>1. /\ l.variable \in Nat /\ l.constant \in Nat /\ l.variable # l.constant
      /\ addr >= l.variable \/ addr >= l.constant
      /\ bytes \in Seq(0..255)
  BY DecompileAssumption
<1>2. addr \in Nat
  BY <1>1, AddressIs
<1> DEFINE v == l.variable
           c == l.constant
<1>3. /\ v \in Nat /\ c \in Nat /\ v # c /\ (addr >= v \/ addr >= c)
      /\ Operand_of_address(addr)
           = IF addr - v >= 0 /\ (addr - c < 0 \/ addr - v < addr - c)
               THEN << "v", (addr - v) \div 8 >> ELSE Printed((addr - c) \div 8)
  BY <1>1 DEF Operand_of_address
<1>4. NumberAt(l, addr, TRUE)
        = IF v < c THEN IF addr < c THEN << "v", (addr - v) \div 8 >>
                                    ELSE Printed((addr - c) \div 8)
                   ELSE IF addr < v THEN Printed((addr - c) \div 8)
                                    ELSE << "v", (addr - v) \div 8 >>
  BY DEF NumberAt
<1> HIDE DEF addr, v, c
<1>5. Operand_of_address(addr) = NumberAt(l, addr, TRUE)
  <2> DEFINE i == (addr - v) \div 8
             j == (addr - c) \div 8
  <2> HIDE DEF i, j
  <2>1. (addr - v >= 0 /\ (addr - c < 0 \/ addr - v < addr - c))
          <=> IF v < c THEN addr < c ELSE ~(addr < v)
    BY <1>2, <1>3
  <2>2. Operand_of_address(addr)
          = IF IF v < c THEN addr < c ELSE ~(addr < v) THEN << "v", i >> ELSE Printed(j)
    BY <1>3, <2>1 DEF i, j
  <2>3. NumberAt(l, addr, TRUE)
          = IF v < c THEN IF addr < c THEN << "v", i >> ELSE Printed(j)
                     ELSE IF addr < v THEN Printed(j) ELSE << "v", i >>
    BY <1>4 DEF i, j
  <2>4. CASE v < c
    <3>1. CASE addr < c
      BY <2>2, <2>3, <2>4, <3>1
    <3>2. CASE ~(addr < c)
      BY <2>2, <2>3, <2>4, <3>2
    <3> QED
      BY <3>1, <3>2
  <2>5. CASE ~(v < c)
    <3>1. CASE addr < v
      BY <2>2, <2>3, <2>5, <3>1
    <3>2. CASE ~(addr < v)
      BY <2>2, <2>3, <2>5, <3>2
    <3> QED
      BY <3>1, <3>2
  <2> QED
    BY <2>4, <2>5
<1>6. IsNumber(NumberAt(l, addr, TRUE))
  BY <1>4 DEF IsNumber
<1> QED
  BY <1>5, <1>6 DEF addr

---------------------------------------------------------------------------------
(***************************************************************************)
(* The header leaves the machine with zeros, like the C program.           *)
(***************************************************************************)
LEMMA HeaderBytes ==
  /\ Len(header) = 31
  /\ \A k \in 1..7 : /\ header[4 * k - 3] = \hD9 /\ header[4 * k - 2] = \hEE
                     /\ header[4 * k - 1] = \hDD /\ header[4 * k] = \hD8 + k
<1> DEFINE pieces == [k \in 1..7 |-> << \hD9, \hEE, \hDD, \hD8 + k >>]
           start == << \h55, \h89, \hE5 >>
<1>1. pieces \in Seq(Seq(Byte)) /\ Len(pieces) = 7
  <2>1. \A k \in 1..7 : << \hD9, \hEE, \hDD, \hD8 + k >> \in Seq(Byte)
    BY DEF Byte
  <2> QED
    BY <2>1
<1>2. start \in Seq(Byte) /\ Len(start) = 3
  BY DEF Byte
<1>3. header = FlattenSeq(pieces) \o start
  BY DEF header
<1>4. \A k \in 1..7 : /\ Len(pieces[k]) = 4
                      /\ pieces[k][1] = \hD9 /\ pieces[k][2] = \hEE
                      /\ pieces[k][3] = \hDD /\ pieces[k][4] = \hD8 + k
  OBVIOUS
<1> HIDE DEF pieces, start
<1> DEFINE at(k) == Len(Joined(pieces, k))
<1>5. ASSUME NEW k \in 1..7
      PROVE  /\ at(k) = at(k - 1) + 4
             /\ \A i \in 1..4 : FlattenSeq(pieces)[at(k - 1) + i] = pieces[k][i]
  <2>1. k \in 1..Len(pieces) /\ Len(pieces[k]) = 4
    BY <1>1, <1>4
  <2> DEFINE size == Len(pieces[k])
  <2>2. /\ at(k) = at(k - 1) + size
        /\ \A i \in 1..size : FlattenSeq(pieces)[at(k - 1) + i] = pieces[k][i]
    BY <1>1, <2>1, PieceAt, ZenonT(40)
  <2>3. size = 4
    BY <2>1
  <2> HIDE DEF size
  <2> QED
    BY <2>2, <2>3
<1>6. at(0) = 0 /\ at(7) = Len(FlattenSeq(pieces))
  <2>1. Joined(pieces, 0) = << >> /\ Joined(pieces, 7) = FlattenSeq(pieces)
    BY <1>1, JoinedStep
  <2> QED
    BY <2>1
<1> HIDE DEF at
<1>7. \A k \in 1..7 : at(k) = at(k - 1) + 4
  BY <1>5
<1>8. /\ at(0) = 0 /\ at(1) = 4 /\ at(2) = 8 /\ at(3) = 12 /\ at(4) = 16 /\ at(5) = 20
      /\ at(6) = 24 /\ at(7) = 28
  <2>1. /\ at(1) = at(0) + 4 /\ at(2) = at(1) + 4 /\ at(3) = at(2) + 4 /\ at(4) = at(3) + 4
        /\ at(5) = at(4) + 4 /\ at(6) = at(5) + 4 /\ at(7) = at(6) + 4
    BY <1>7
  <2> QED
    BY <1>6, <2>1
<1>9. \A k \in 1..7 : at(k - 1) = 4 * k - 4
  BY <1>8
<1> DEFINE body == FlattenSeq(pieces)
<1>10. body \in Seq(Byte) /\ Len(body) = 28
  BY <1>1, <1>6, <1>8, FlattenType
<1>11. \A k \in 1..7, i \in 1..4 : body[4 * k - 4 + i] = pieces[k][i]
  BY <1>5, <1>9
<1>12. header = body \o start
  BY <1>3
<1> HIDE DEF body
<1>13. Len(header) = 31 /\ \A i \in 1..28 : header[i] = body[i]
  <2>1. /\ Len(body \o start) = Len(body) + Len(start)
        /\ \A i \in 1..(Len(body) + Len(start)) :
             (body \o start)[i] = IF i <= Len(body) THEN body[i] ELSE start[i - Len(body)]
    BY <1>2, <1>10, ConcatProperties
  <2> DEFINE y == body \o start
  <2>2. header = y
    BY <1>12
  <2> DEFINE size == Len(body) + Len(start)
  <2>3. /\ Len(y) = size
        /\ \A i \in 1..size : i <= Len(body) => y[i] = body[i]
    BY <2>1
  <2>4. size = 31
    BY <1>2, <1>10
  <2> HIDE DEF y, size
  <2>5. ASSUME NEW i \in 1..28 PROVE y[i] = body[i]
    <3>1. i \in 1..size
      BY <2>4
    <3>2. i <= Len(body)
      BY <1>10
    <3> QED
      BY <2>3, <3>1, <3>2
  <2> QED
    BY <2>2, <2>3, <2>4, <2>5
<1>14. ASSUME NEW k \in 1..7, NEW i \in 1..4 PROVE header[4 * k - 4 + i] = pieces[k][i]
  <2>1. 4 * k - 4 + i \in 1..28
    OBVIOUS
  <2> QED
    BY <1>11, <1>13, <2>1
<1>15. ASSUME NEW k \in 1..7
       PROVE  /\ header[4 * k - 3] = \hD9 /\ header[4 * k - 2] = \hEE
              /\ header[4 * k - 1] = \hDD /\ header[4 * k] = \hD8 + k
  <2>1. /\ 4 * k - 4 + 1 = 4 * k - 3 /\ 4 * k - 4 + 2 = 4 * k - 2
        /\ 4 * k - 4 + 3 = 4 * k - 1 /\ 4 * k - 4 + 4 = 4 * k
    OBVIOUS
  <2>2. /\ header[4 * k - 4 + 1] = pieces[k][1] /\ header[4 * k - 4 + 2] = pieces[k][2]
        /\ header[4 * k - 4 + 3] = pieces[k][3] /\ header[4 * k - 4 + 4] = pieces[k][4]
    BY <1>14
  <2> QED
    BY <1>4, <2>1, <2>2
<1> QED
  BY <1>13, <1>15

\* FLDZ, and FSTP of the top of the stack.
HeaderForm(x) ==
  /\ x \in Seq(Byte) /\ Len(x) = 2
  /\ \/ x[1] = \hD9 /\ x[2] = \hEE
     \/ x[1] = \hDD /\ \E n \in 1..7 : x[2] = \hD8 + n

\* The header pushes seven zeros and takes them off again.
LEMMA HeaderForms ==
  /\ HeaderInstructions \in Seq(Seq(Byte)) /\ Len(HeaderInstructions) = 14
  /\ \A k \in 1..14 : HeaderForm(HeaderInstructions[k])
<1>1. ASSUME NEW k \in 1..14
      PROVE  HeaderForm(HeaderInstructions[k])
  <2> DEFINE x == HeaderInstructions[k]
  <2>1. x = SubSeq(header, 2 * k - 1, 2 * k)
    BY DEF HeaderInstructions
  <2>2. x \in Seq(Byte) /\ Len(x) = 2 /\ x[1] = header[2 * k - 1] /\ x[2] = header[2 * k]
    <3> DEFINE i == 2 * k - 1
               j == 2 * k
    <3>1. i \in 1..Len(header) /\ j \in 1..Len(header) /\ j = i + 1
      BY HeaderBytes
    <3> HIDE DEF i, j
    <3>2. /\ SubSeq(header, i, j) \in Seq(Byte) /\ Len(SubSeq(header, i, j)) = 2
          /\ \A q \in 1..2 : SubSeq(header, i, j)[q] = header[i + q - 1]
      BY <3>1, HeaderType, SubSeqProperties
    <3>3. x = SubSeq(header, i, j) /\ i + 1 - 1 = i /\ i + 2 - 1 = j
      BY <2>1, <3>1 DEF i, j
    <3> QED
      BY <3>2, <3>3 DEF i, j
  <2> HIDE DEF x
  <2>3. \E n \in 1..7 : 2 * k = 4 * n - 2 \/ 2 * k = 4 * n
    OBVIOUS
  <2>4. PICK n \in 1..7 : 2 * k = 4 * n - 2 \/ 2 * k = 4 * n
    BY <2>3
  <2>5. CASE 2 * k = 4 * n - 2
    <3>1. 2 * k - 1 = 4 * n - 3
      BY <2>5
    <3>2. x[1] = \hD9 /\ x[2] = \hEE
      <4>1. header[4 * n - 3] = \hD9 /\ header[4 * n - 2] = \hEE
        BY HeaderBytes
      <4> DEFINE i == 4 * n - 3
                 j == 4 * n - 2
      <4>2. header[i] = \hD9 /\ header[j] = \hEE /\ 2 * k - 1 = i /\ 2 * k = j
        BY <2>5, <3>1, <4>1
      <4> HIDE DEF i, j
      <4> QED
        BY <2>2, <4>2
    <3>3. HeaderForm(x)
      BY <2>2, <3>2 DEF HeaderForm
    <3> QED
      BY <3>3 DEF x
  <2>6. CASE 2 * k = 4 * n
    <3>1. 2 * k - 1 = 4 * n - 1
      BY <2>6
    <3>2. x[1] = \hDD /\ x[2] = \hD8 + n
      <4>1. header[4 * n - 1] = \hDD /\ header[4 * n] = \hD8 + n
        BY HeaderBytes
      <4> DEFINE i == 4 * n - 1
                 j == 4 * n
      <4>2. header[i] = \hDD /\ header[j] = \hD8 + n /\ 2 * k - 1 = i /\ 2 * k = j
        BY <2>6, <3>1, <4>1
      <4> HIDE DEF i, j
      <4> QED
        BY <2>2, <4>2
    <3>3. HeaderForm(x)
      BY <2>2, <3>2 DEF HeaderForm
    <3> QED
      BY <3>3 DEF x
  <2> QED
    BY <2>4, <2>5, <2>6
<1>2. \A k \in 1..14 : HeaderInstructions[k] \in Seq(Byte)
  BY <1>1 DEF HeaderForm
<1>3. HeaderInstructions = [k \in 1..14 |-> HeaderInstructions[k]]
  BY DEF HeaderInstructions
<1>4. HeaderInstructions \in Seq(Seq(Byte)) /\ Len(HeaderInstructions) = 14
  BY <1>2, <1>3
<1> QED
  BY <1>1, <1>4

\* Zeros in some registers, the others empty.
Zeroed(m) ==
  IsFPU(m) /\ m.cf = Unset /\ \A i \in 0..7 : ST(m, i) \in {Empty, << "0" >>}

\* An instruction of the header leaves zeros, and reads no constant.
LEMMA HeaderStep ==
  ASSUME NEW x, HeaderForm(x), NEW l, NEW m, Zeroed(m), NEW printed, NEW other
  PROVE  /\ Zeroed(Execute1(l, m, x, printed))
         /\ Execute1(l, m, x, printed) = Execute1(l, m, x, other)
<1>1. Len(x) = 2 /\ x[1] \in {\hD9, \hDD}
  BY DEF HeaderForm
<1>2. Execute1(l, m, x, printed) = Execute1(l, m, x, other)
  BY <1>1 DEF Execute1
<1> DEFINE m2 == Execute1(l, m, x, printed)
<1>3. CASE m.sigfpe
  <2>1. m2 = m
    BY <1>3 DEF Execute1
  <2> QED
    BY <1>2, <2>1
<1>4. CASE ~m.sigfpe /\ x[1] = \hD9 /\ x[2] = \hEE
  <2>1. m2 = Push(m, << "0" >>)
    BY <1>1, <1>4 DEF Execute1, ExecuteNoArg
  <2> HIDE DEF m2
  <2> DEFINE zero == << "0" >>
  <2>2. m2 = Push(m, zero) /\ \A i \in 0..7 : ST(m, i) \in {Empty, zero}
    BY <2>1 DEF Zeroed
  <2> HIDE DEF zero
  <2>3. IsFPU(m2) /\ m2.cf = m.cf
    BY <2>2, PushIs DEF Zeroed
  <2>4. ASSUME NEW i \in 0..7 PROVE ST(m2, i) \in {Empty, zero}
    <3>1. CASE ST(m, 7) # Empty
      <4>1. m2 = Trap(m)
        BY <2>2, <3>1, PushIs DEF Zeroed
      <4> QED
        BY <2>2, <4>1, TrapIs DEF Zeroed
    <3>2. CASE ST(m, 7) = Empty
      <4>1. ST(m2, 0) = zero /\ \A j \in 1..7 : ST(m2, j) = ST(m, j - 1)
        BY <2>2, <3>2, PushIs DEF Zeroed
      <4>2. CASE i = 0
        BY <4>1, <4>2
      <4>3. CASE i # 0
        <5> DEFINE j == i - 1
        <5>1. j \in 0..7 /\ ST(m2, i) = ST(m, j)
          BY <4>1, <4>3
        <5> HIDE DEF j
        <5> QED
          BY <2>2, <5>1
      <4> QED
        BY <4>2, <4>3
    <3> QED
      BY <3>1, <3>2
  <2>5. Zeroed(m2)
    BY <2>3, <2>4 DEF Zeroed, zero
  <2> QED
    BY <1>2, <2>5 DEF m2
<1>5. CASE ~m.sigfpe /\ x[1] = \hDD /\ \E n \in 1..7 : x[2] = \hD8 + n
  <2>1. PICK n \in 1..7 : x[2] = \hD8 + n
    BY <1>5
  <2>2. m2 = ThenPop(CopyTop(m, n))
    <3>1. m2 = ExecuteRegister(m, \hDD, \hD8 + n)
      BY <1>1, <1>5, <2>1 DEF Execute1
    <3>2. (\hD8 + n) % 8 = n /\ (\hD8 + n) - n = \hD8
      OBVIOUS
    <3> DEFINE b1 == \hDD
               b2 == \hD8
               q == \hD8 + n
    <3>3. b1 = \hDD /\ b2 = \hD8 /\ q % 8 = n /\ q - n = b2
      BY <3>2
    <3> HIDE DEF b1, b2, q
    <3>4. ExecuteRegister(m, b1, q) = ThenPop(CopyTop(m, n))
      BY <3>3 DEF ExecuteRegister
    <3> QED
      BY <3>1, <3>4 DEF b1, q
  <2> HIDE DEF m2
  <2> DEFINE m1 == CopyTop(m, n)
  <2>3. Zeroed(m1)
    <3>1. m1 = Trap(m) \/ m1 = Store(m, n, ST(m, 0))
      BY DEF CopyTop, Needs
    <3> HIDE DEF m1
    <3>2. CASE m1 = Trap(m)
      BY <3>2, TrapIs DEF Zeroed
    <3>3. CASE m1 = Store(m, n, ST(m, 0))
      <4>1. /\ IsFPU(m1) /\ m1.cf = m.cf /\ ST(m1, n) = ST(m, 0)
            /\ \A j \in 0..7 : j # n => ST(m1, j) = ST(m, j)
        BY <3>3, StoreIs DEF Zeroed
      <4> QED
        BY <4>1, 0 \in 0..7 DEF Zeroed
    <3> QED
      BY <3>1, <3>2, <3>3
  <2>4. m2 = ThenPop(m1)
    BY <2>2
  <2> HIDE DEF m1
  <2>5. Zeroed(m2)
    <3>1. CASE m2 = m1
      BY <2>3, <3>1
    <3>2. CASE m2 = Pop(m1)
      <4>1. /\ IsFPU(m2) /\ m2.cf = m1.cf /\ ST(m2, 7) = Empty
            /\ \A j \in 0..6 : ST(m2, j) = ST(m1, j + 1)
        BY <2>3, <3>2, PopIs DEF Zeroed
      <4>2. ASSUME NEW i \in 0..7 PROVE ST(m2, i) \in {Empty, << "0" >>}
        <5>1. CASE i = 7
          BY <4>1, <5>1
        <5>2. CASE i # 7
          <6> DEFINE j == i + 1
          <6>1. j \in 0..7 /\ ST(m2, i) = ST(m1, j)
            BY <4>1, <5>2
          <6> HIDE DEF j
          <6> QED
            BY <2>3, <6>1 DEF Zeroed
        <5> QED
          BY <5>1, <5>2
      <4> QED
        BY <2>3, <4>1, <4>2 DEF Zeroed
    <3> QED
      BY <2>4, <3>1, <3>2 DEF ThenPop
  <2> QED
    BY <1>2, <2>5 DEF m2
<1> QED
  BY <1>3, <1>4, <1>5 DEF HeaderForm

---------------------------------------------------------------------------------
(***************************************************************************)
(* The C program follows the machine, instruction after instruction.       *)
(***************************************************************************)
\* What the machine executes, in n steps.
WithHeader(program, all, n) ==
  all = HeaderInstructions \o program /\ n \in Nat /\ n = Len(all)

\* What the machine is like after each instruction of header and program.
LEMMA MachineSteps ==
  ASSUME NEW l, NEW printed, NEW program, NEW all, NEW n, WithHeader(program, all, n)
  PROVE  \E a : /\ a[0] = FINIT /\ a[n] = RunMachine(l, program, printed)
                /\ \A k \in 1..n : a[k] = Execute1(l, a[k - 1], all[k], printed)
<1> DEFINE how == OfMachine(l, printed)
<1>1. \E a : Iterates(a, how, all, n) /\ RunMachine(l, program, printed) = a[n]
  BY RunMachineIterates DEF WithHeader
<1>2. /\ First(how) = FINIT
      /\ \A x, y : After1(how, x, y) = Execute1(l, x, y, printed)
  BY Kinds
<1> HIDE DEF how
<1>3. n \in Nat
  BY DEF WithHeader
<1>4. PICK a : Iterates(a, how, all, n) /\ RunMachine(l, program, printed) = a[n]
  BY <1>1
<1>5. /\ a[0] = First(how)
      /\ \A k \in 1..n : a[k] = After1(how, a[k - 1], all[k])
  BY <1>3, <1>4, IterateStep
<1> QED
  BY <1>2, <1>4, <1>5

\* What it is like after each instruction of the header.
LEMMA HeaderIterates ==
  ASSUME NEW l, NEW printed, NEW none, none = << >>
  PROVE  \E a : /\ a[0] = FINIT /\ a[14] = RunMachine(l, none, printed)
                /\ \A k \in 1..14 :
                     a[k] = Execute1(l, a[k - 1], HeaderInstructions[k], printed)
<1> DEFINE all == HeaderInstructions
           n == 14
<1>1. WithHeader(none, all, n)
  <2>1. all = HeaderInstructions \o << >>
    BY HeaderForms, ConcatEmptySeq
  <2> QED
    BY <2>1, HeaderForms DEF WithHeader
<1> HIDE DEF all, n
<1>2. \E a : /\ a[0] = FINIT /\ a[n] = RunMachine(l, none, printed)
             /\ \A k \in 1..n : a[k] = Execute1(l, a[k - 1], all[k], printed)
  BY <1>1, MachineSteps
<1> QED
  BY <1>2 DEF n, all

\* Both machines are the same after the header.
LEMMA HeaderRuns ==
  ASSUME NEW l, NEW none, none = << >>, NEW printed, NEW other,
         NEW m, m = RunMachine(l, none, other), NEW n, n = RunMachine(l, none, printed)
  PROVE  SameShape(m, n) /\ Matches(n, Cleared) /\ IsFPU(n) /\ n.cf = Unset
<1> DEFINE all == HeaderInstructions
<1>1. PICK a : /\ a[0] = FINIT /\ a[14] = m
               /\ \A k \in 1..14 : a[k] = Execute1(l, a[k - 1], all[k], other)
  BY HeaderIterates
<1>2. PICK c : /\ c[0] = FINIT /\ c[14] = n
               /\ \A k \in 1..14 : c[k] = Execute1(l, c[k - 1], all[k], printed)
  BY HeaderIterates
<1>4. \A k \in 1..14 : HeaderForm(all[k])
  BY HeaderForms
<1> HIDE DEF all
<1>5. a[0] = FINIT /\ c[0] = FINIT /\ Zeroed(FINIT)
  BY <1>1, <1>2, FINITIs DEF Zeroed
<1> DEFINE Wrong == {k \in 0..14 : ~(a[k] = c[k] /\ Zeroed(c[k]))}
<1>7. Wrong = {}
  <2> SUFFICES ASSUME Wrong # {} PROVE FALSE
    OBVIOUS
  <2>1. PICK k \in Wrong : \A j \in Wrong : k <= j
    <3>1. Wrong \subseteq Nat
      OBVIOUS
    <3> HIDE DEF Wrong
    <3> QED
      BY <3>1, LeastNumber
  <2>2. k \in 1..14
    BY <1>5, <2>1
  <2> DEFINE j == k - 1
  <2>3. j \in 0..14 /\ a[j] = c[j] /\ Zeroed(c[j])
    BY <2>1, <2>2
  <2>4. a[k] = Execute1(l, a[j], all[k], other) /\ c[k] = Execute1(l, c[j], all[k], printed)
    BY <1>1, <1>2, <2>2
  <2> HIDE DEF j
  <2>5. a[k] = c[k] /\ Zeroed(c[k])
    BY <1>4, <2>2, <2>3, <2>4, HeaderStep
  <2> QED
    BY <2>1, <2>5
<1>8. m = n /\ Zeroed(n)
  <2>1. 14 \notin Wrong /\ 14 \in 0..14
    BY <1>7
  <2> QED
    BY <1>1, <1>2, <2>1
<1>9. SameShape(m, n)
  BY <1>8 DEF SameShape, Zeroed
<1>10. Matches(n, Cleared)
  <2>1. \A i \in 0..7 : Cleared[i] = << "0" >>
    BY Begins
  <2> QED
    BY <1>8, <2>1 DEF Matches, Zeroed
<1> QED
  BY <1>8, <1>9, <1>10 DEF Zeroed

---------------------------------------------------------------------------------
LoadsOther(bytes) == bytes[1] = \hD9 /\ bytes[2] \in \hC1..\hC7
Move(bytes) == bytes[1] \in {\hDA, \hDB} /\ bytes[2] < \hE0

\* Every instruction keeps the machine and the C program together, but for those
\* that decompile1 gets wrong.
LEMMA FollowsInstruction ==
  ASSUME NEW bytes \in Instructions, NEW l, layout = l, l \in Layouts,
         NEW m, NEW s, NEW g, Stands(m, s, g), ~m.sigfpe,
         NEW m2, m2 = Execute1(l, m, bytes, TRUE), ~m2.sigfpe,
         ~LoadsOther(bytes), Move(bytes) => m.cf # Unset
  PROVE  /\ \E g2 : Ends(s \o Statements(bytes), g2) /\ Matches(m2, g2)
         /\ (m.cf # Unset \/ Compare(bytes)) => m2.cf # Unset
<1> DEFINE Goal == /\ \E g2 : Ends(s \o Statements(bytes), g2) /\ Matches(m2, g2)
                   /\ (m.cf # Unset \/ Compare(bytes)) => m2.cf # Unset
<1>1. bytes \in Seq(Byte) /\ IsInstruction(bytes)
  BY DecompileAssumption DEF Byte
<1>2. ASSUME NEW k, ComparesWith(bytes, k) PROVE Goal
  <2>1. /\ m2 = SetFlag(m, k) /\ k \in 0..7
        /\ Statements(bytes) = Assign(cflag, Of2("less", 0, k))
    BY <1>2 DEF ComparesWith
  <2>2. /\ m2.cf # Unset
        /\ \E g2 : Ends(s \o Assign(cflag, Of2("less", 0, k)), g2) /\ Matches(m2, g2)
    BY <2>1, FollowsFlag
  <2> QED
    BY <2>1, <2>2
<1>3. ASSUME Follows(m, m2, s \o Statements(bytes)), ~Compare(bytes) PROVE Goal
  BY <1>3 DEF Follows
<1> HIDE DEF Goal
<1>4. ASSUME NEW op, Unary(bytes, op), ~Compare(bytes) PROVE Goal
  <2>1. m2 = Apply(m, op) /\ op \in OneArgument /\ Statements(bytes) = Assign(0, Of1(op, 0))
    BY <1>4 DEF Unary
  <2>2. Follows(m, m2, s \o Assign(0, Of1(op, 0)))
    BY <2>1, FollowsApply
  <2> QED
    BY <1>3, <1>4, <2>1, <2>2
<1>5. ASSUME Len(bytes) = 6, LoadsNumber(bytes) \/ \E op : CombinesNumber(bytes, op),
             ~Compare(bytes)
      PROVE  Goal
  <2> DEFINE v == NumberAt(l, Address(bytes), TRUE)
  <2>1. Operand_of_address(Address(bytes)) = v /\ IsNumber(v)
    BY <1>5, OperandIs
  <2>2. ASSUME NEW op, CombinesNumber(bytes, op) PROVE Goal
    <3>1. /\ m2 = CombineNumber(m, op, v) /\ op \in TwoArguments
          /\ Statements(bytes) = Assign(0, OfNumber(op, v))
      BY <2>1, <2>2 DEF CombinesNumber
    <3> HIDE DEF v
    <3>2. Follows(m, m2, s \o Assign(0, OfNumber(op, v)))
      BY <2>1, <3>1, FollowsNumber
    <3> QED
      BY <1>3, <1>5, <3>1, <3>2
  <2>3. ASSUME LoadsNumber(bytes) PROVE Goal
    <3>1. /\ m2 = Push(m, v)
          /\ Statements(bytes) = top_is_top_minus_1 \o Assign(0, v)
      BY <2>1, <2>3 DEF LoadsNumber
    <3> HIDE DEF v
    <3>2. \A g1 : MovedUp(g, g1) => Evaluate(v, g1) = v
      BY <2>1, EvaluateLeaf
    <3>3. Follows(m, m2, s \o (top_is_top_minus_1 \o Assign(0, v)))
      BY <3>1, <3>2, FollowsPush
    <3> QED
      BY <1>3, <1>5, <3>1, <3>3
  <2> QED
    BY <1>5, <2>2, <2>3
<1>6. ASSUME NEW op, NEW i, NEW j, Combines(bytes, op, i, j), ~Compare(bytes) PROVE Goal
  <2>1. /\ m2 = Combine(m, op, i, j) /\ op \in TwoArguments /\ i \in 0..7 /\ j \in 0..7
        /\ Statements(bytes) = Assign(i, Of2(op, i, j))
    BY <1>6 DEF Combines
  <2>2. Follows(m, m2, s \o Assign(i, Of2(op, i, j)))
    BY <2>1, FollowsCombine
  <2> QED
    BY <1>3, <1>6, <2>1, <2>2
<1>7. ASSUME NEW op, NEW i, NEW j, CombinesPops(bytes, op, i, j), ~Compare(bytes) PROVE Goal
  <2>1. /\ m2 = ThenPop(Combine(m, op, i, j)) /\ op \in TwoArguments
        /\ i \in 0..7 /\ j \in 0..7
        /\ Statements(bytes) = Assign(i, Of2(op, i, j)) \o popstack
    BY <1>7 DEF CombinesPops
  <2>2. Follows(m, m2, s \o (Assign(i, Of2(op, i, j)) \o popstack))
    BY <2>1, FollowsCombinePop
  <2> QED
    BY <1>3, <1>7, <2>1, <2>2
<1>8. ASSUME NEW x, PushesLiteral(bytes, x), ~Compare(bytes) PROVE Goal
  <2>1. /\ m2 = Push(m, x) /\ x \in { << "0" >>, << "1" >> }
        /\ Statements(bytes) = top_is_top_minus_1 \o Assign(0, x)
    BY <1>8 DEF PushesLiteral
  <2>2. \A g1 : MovedUp(g, g1) => Evaluate(x, g1) = x
    BY <2>1, EvaluateLeaf
  <2>3. Follows(m, m2, s \o (top_is_top_minus_1 \o Assign(0, x)))
    BY <2>1, <2>2, FollowsPush
  <2> QED
    BY <1>3, <1>8, <2>1, <2>3
<1>9. ASSUME TurnsUp(bytes) \/ TurnsDown(bytes), ~Compare(bytes) PROVE Goal
  <2>1. \/ m2 = Turn(m, 7) /\ Statements(bytes) = rotstack(-1)
        \/ m2 = Turn(m, 1) /\ Statements(bytes) = rotstack(1)
    BY <1>9 DEF TurnsUp, TurnsDown
  <2>2. Follows(m, m2, s \o Statements(bytes))
    BY <2>1, FollowsTurns
  <2> QED
    BY <1>3, <1>9, <2>2
<1>10. ASSUME NEW k, StoresTop(bytes, k), ~Compare(bytes) PROVE Goal
  <2>1. m2 = CopyTop(m, k) /\ k \in 0..7 /\ Statements(bytes) = Assign(k, F(0))
    BY <1>10 DEF StoresTop
  <2>2. Follows(m, m2, s \o Assign(k, F(0)))
    BY <2>1, FollowsCopyTop
  <2> QED
    BY <1>3, <1>10, <2>1, <2>2
<1>11. ASSUME NEW k, Loads(bytes, k), ~Compare(bytes) PROVE Goal
  <2>1. k = 0
    BY <1>11 DEF Loads, LoadsOther
  <2>2. /\ m2 = PushCopy(m, 0)
        /\ Statements(bytes) = Assign(tmp, F(0)) \o top_is_top_minus_1 \o Assign(0, F(tmp))
    <3>0. \A x, y, printed : ~y.sigfpe => Execute1(x, y, bytes, printed) = PushCopy(y, k)
      BY <1>11 DEF Loads
    <3>1. Execute1(l, m, bytes, TRUE) = PushCopy(m, k)
      BY <3>0
    <3>2. Statements(bytes) = Assign(tmp, F(0)) \o top_is_top_minus_1 \o Assign(0, F(tmp))
      BY <1>11 DEF Loads
    <3> QED
      BY <2>1, <3>1, <3>2
  <2>3. Follows(m, m2, s \o (Assign(tmp, F(0)) \o top_is_top_minus_1 \o Assign(0, F(tmp))))
    BY <2>2, FollowsLoadTop
  <2> QED
    BY <1>3, <1>11, <2>2, <2>3
<1>12. ASSUME NEW k, Exchanges(bytes, k), ~Compare(bytes) PROVE Goal
  <2>1. /\ m2 = Exchange(m, k) /\ k \in 0..7
        /\ Statements(bytes) = Assign(tmp, F(0)) \o Assign(0, F(k)) \o Assign(k, F(tmp))
    BY <1>12 DEF Exchanges
  <2>2. Follows(m, m2, s \o (Assign(tmp, F(0)) \o Assign(0, F(k)) \o Assign(k, F(tmp))))
    BY <2>1, FollowsExchange
  <2> QED
    BY <1>3, <1>12, <2>1, <2>2
<1>13. ASSUME NEW k, NEW i, NEW j, MovesIf(bytes, k, i, j), ~Compare(bytes) PROVE Goal
  <2>1. /\ m2 = Choose(m, i, j) /\ Statements(bytes) = Assign(0, If3(i, j))
        /\ Move(bytes)
    <3>0. /\ \A x, y, printed : ~y.sigfpe => Execute1(x, y, bytes, printed) = Choose(y, i, j)
          /\ Statements(bytes) = Assign(0, If3(i, j))
      BY <1>13 DEF MovesIf
    <3>1. m2 = Choose(m, i, j) /\ Statements(bytes) = Assign(0, If3(i, j))
      BY <3>0
    <3>2. Move(bytes)
      BY <1>13 DEF MovesIf, Move
    <3> QED
      BY <3>1, <3>2
  <2>2. i \in 0..7 /\ j \in 0..7
    BY <1>13 DEF MovesIf
  <2>3. Follows(m, m2, s \o Assign(0, If3(i, j)))
    BY <2>1, <2>2, FollowsChoose
  <2> QED
    BY <1>3, <1>13, <2>1, <2>3
<1>15. Goal
  BY <1>1, <1>2, <1>4, <1>5, <1>6, <1>7, <1>8, <1>9, <1>10, <1>11, <1>12, <1>13, Classes
<1> QED
  BY <1>15 DEF Goal

---------------------------------------------------------------------------------
(***************************************************************************)
(* Agree.                                                                  *)
(***************************************************************************)
\* A program without the instructions that are decompiled wrongly.
Tame(p) ==
  \A k \in 1..Len(p) : /\ ~LoadsOther(p[k])
                       /\ Move(p[k]) => \E j \in 1..(k - 1) : Compare(p[j])

Together(n, p, s) ==
  /\ \E g : Ends(s, g) /\ Matches(n, g)
  /\ (\E k \in 1..Len(p) : Compare(p[k])) => n.cf # Unset

\* The statements s do what the program p does to the machine.
Simulates(l, p, s) ==
  /\ IsSeq(s)
  /\ SameShape(RunMachine(l, p, FALSE), RunMachine(l, p, TRUE))
  /\ Tame(p) /\ ~RunMachine(l, p, TRUE).sigfpe => Together(RunMachine(l, p, TRUE), p, s)

\* Before its first instruction, a program is simulated by no statement.
LEMMA SimulatesFirst ==
  ASSUME NEW l, NEW none, none = << >>
  PROVE  Simulates(l, none, none)
<1> DEFINE m == RunMachine(l, none, FALSE)
           n == RunMachine(l, none, TRUE)
<1>1. SameShape(m, n) /\ Matches(n, Cleared) /\ n.cf = Unset
  BY HeaderRuns
<1>2. Ends(none, Cleared) /\ Len(none) = 0
  BY Begins
<1> HIDE DEF m, n
<1>3. Together(n, none, none)
  BY <1>1, <1>2 DEF Together
<1>4. IsSeq(none)
  BY <1>2 DEF Ends
<1> QED
  BY <1>1, <1>3, <1>4 DEF Simulates, m, n

\* What comes before the last instruction is decompiled rightly too.
LEMMA TamePrefix ==
  ASSUME NEW p, IsProgram(p), NEW x \in Instructions, Tame(Append(p, x))
  PROVE  /\ Tame(p) /\ ~LoadsOther(x)
         /\ Move(x) => \E j \in 1..Len(p) : Compare(p[j])
<1> DEFINE q == Append(p, x)
           n == Len(p)
<1>1. /\ n \in Nat /\ Len(q) = n + 1 /\ q[n + 1] = x /\ \A k \in 1..n : q[k] = p[k]
  BY ProgramType, AppendProperties DEF IsProgram
<1>2. Tame(q)
  OBVIOUS
<1> HIDE DEF q
<1>3. \A k \in 1..(n + 1) : /\ ~LoadsOther(q[k])
                            /\ Move(q[k]) => \E j \in 1..(k - 1) : Compare(q[j])
  BY <1>1, <1>2 DEF Tame
<1>4. ASSUME NEW k \in 1..n
      PROVE  /\ ~LoadsOther(p[k])
             /\ Move(p[k]) => \E j \in 1..(k - 1) : Compare(p[j])
  <2>1. k \in 1..(n + 1) /\ q[k] = p[k]
    BY <1>1
  <2>2. \A j \in 1..(k - 1) : q[j] = p[j]
    BY <1>1
  <2> QED
    BY <1>3, <2>1, <2>2
<1>5. ~LoadsOther(x) /\ (Move(x) => \E j \in 1..n : Compare(p[j]))
  <2> DEFINE last == n + 1
  <2>1. last \in 1..(n + 1) /\ q[last] = x /\ last - 1 = n
    BY <1>1
  <2> HIDE DEF last
  <2>2. ~LoadsOther(x) /\ (Move(x) => \E j \in 1..n : Compare(q[j]))
    BY <1>3, <2>1
  <2> QED
    BY <1>1, <2>2
<1>6. Tame(p)
  BY <1>4 DEF Tame
<1> QED
  BY <1>5, <1>6

\* One more instruction is simulated by its statements, behind those so far.
LEMMA SimulatesNext ==
  ASSUME NEW l, layout = l, l \in Layouts, NEW p, IsProgram(p), NEW s, Simulates(l, p, s),
         NEW x \in Instructions
  PROVE  Simulates(l, Append(p, x), s \o Statements(x))
<1> DEFINE q == Append(p, x)
           t == s \o Statements(x)
           m == RunMachine(l, p, FALSE)
           n == RunMachine(l, p, TRUE)
           m2 == RunMachine(l, q, FALSE)
           n2 == RunMachine(l, q, TRUE)
<1>1. x \in Seq(Byte) /\ IsInstruction(x)
  BY DecompileAssumption DEF Byte
<1>2. \A printed : RunMachine(l, q, printed) = Execute1(l, RunMachine(l, p, printed), x, printed)
  BY <1>1, HeaderForms, ProgramType, RunMachineAppend
<1>3. m2 = Execute1(l, m, x, FALSE) /\ n2 = Execute1(l, n, x, TRUE)
  BY <1>2
<1>4. Len(q) = Len(p) + 1 /\ q[Len(p) + 1] = x /\ \A k \in 1..Len(p) : q[k] = p[k]
  BY ProgramType, AppendProperties DEF IsProgram
<1>5. Tame(q) => /\ Tame(p) /\ ~LoadsOther(x)
                 /\ Move(x) => \E j \in 1..Len(p) : Compare(p[j])
  BY TamePrefix
<1>6. IsSeq(t)
  BY <1>1, StatementsKnown, SeqsConcat DEF Simulates
<1>7. SameShape(m, n) /\ (Tame(p) /\ ~n.sigfpe => Together(n, p, s))
  BY DEF Simulates
<1> HIDE DEF q, t, m, n, m2, n2
<1>8. SameShape(m2, n2)
  BY <1>1, <1>3, <1>7, SameExecutes
<1>9. ASSUME Tame(q), ~n2.sigfpe PROVE Together(n2, q, t)
  <2>1. ~n.sigfpe
    <3>1. n.sigfpe => n2 = n
      BY <1>3 DEF Execute1
    <3> QED
      BY <1>9, <3>1
  <2>2. Together(n, p, s)
    BY <1>5, <1>7, <1>9, <2>1
  <2>3. PICK g : Ends(s, g) /\ Matches(n, g)
    BY <2>2 DEF Together
  <2>4. Stands(n, s, g)
    BY <1>7, <2>3 DEF Stands, SameShape
  <2>5. (\E j \in 1..Len(p) : Compare(p[j])) => n.cf # Unset
    BY <2>2 DEF Together
  <2>6. ~LoadsOther(x) /\ (Move(x) => n.cf # Unset)
    BY <1>5, <1>9, <2>5
  <2>7. /\ \E g2 : Ends(s \o Statements(x), g2) /\ Matches(n2, g2)
        /\ (n.cf # Unset \/ Compare(x)) => n2.cf # Unset
    BY <1>3, <1>9, <2>1, <2>4, <2>6, FollowsInstruction, ZenonT(40)
  <2>8. ASSUME NEW k \in 1..Len(q), Compare(q[k]) PROVE n2.cf # Unset
    <3>1. CASE k = Len(p) + 1
      BY <1>4, <2>7, <2>8, <3>1
    <3>2. CASE k # Len(p) + 1
      <4>1. k \in 1..Len(p)
        <5>1. Len(p) \in Nat
          BY ProgramType
        <5> QED
          BY <1>4, <3>2, <5>1
      <4> QED
        BY <1>4, <2>5, <2>7, <2>8, <4>1
    <3> QED
      BY <3>1, <3>2
  <2> QED
    BY <2>7, <2>8 DEF Together, t
<1> QED
  BY <1>6, <1>8, <1>9 DEF Simulates, q, t, m2, n2

---------------------------------------------------------------------------------
\* The statements so far do what the instructions visited so far do.
AgreeInv ==
  /\ AlignedInv
  /\ phase = "disasm" => emitted = << >>
  /\ phase # "disasm" => Simulates(layout, SubSeq(instrs, 1, Len(visited)), emitted)
  /\ phase \in {"run", "done"} => machine = RunMachine(layout, instrs, FALSE)
  /\ phase = "done" => f = RunC(emitted)

\* It holds when a program of any length has been put together.
LEMMA AgreeInit == Init => AgreeInv
<1> SUFFICES ASSUME Init PROVE AgreeInv
  OBVIOUS
<1>1. AlignedInv
  BY AlignedInit
<1>2. phase = "disasm" /\ emitted = << >>
  BY DEF Init
<1> QED
  BY <1>1, <1>2 DEF AgreeInv

\* Every step of the decompiler, and running the two programs, keeps it.
LEMMA AgreeNext == AgreeInv /\ [Next]_vars => AgreeInv'
<1> SUFFICES ASSUME AgreeInv, [Next]_vars PROVE AgreeInv'
  OBVIOUS
<1> DEFINE k == Len(visited) + 1
           upto(j) == SubSeq(instrs, 1, j)
<1>1. AlignedInv /\ AlignedInv' /\ IsProgram(instrs) /\ layout \in Layouts
  BY AlignedNext DEF AgreeInv, AlignedInv
<1>2. CASE Disasm
  <2>1. phase = "disasm" /\ UNCHANGED << instrs, layout, emitted >> /\ phase' \in {"disasm", "exited"}
    BY <1>2 DEF Disasm
  <2>2. phase' # "exited"
    BY <1>1 DEF AlignedInv
  <2> QED
    BY <1>1, <2>1, <2>2 DEF AgreeInv
<1>3. CASE DisasmEnds
  <2>1. /\ phase = "disasm" /\ phase' = "decompile" /\ visited' = << >>
        /\ UNCHANGED << instrs, layout, emitted >>
    BY <1>3 DEF DisasmEnds
  <2>2. emitted' = << >> /\ SubSeq(instrs, 1, 0) = << >> /\ Len(visited') = 0
    BY <2>1, SubSeqEmpty DEF AgreeInv
  <2>3. Simulates(layout, SubSeq(instrs, 1, 0), emitted')
    BY <2>2, SimulatesFirst
  <2> QED
    BY <1>1, <2>1, <2>2, <2>3 DEF AgreeInv
<1>4. CASE Decompile
  <2>1. /\ phase = "decompile" /\ UNCHANGED << instrs, layout >>
        /\ Len(visited) <= Len(instrs) /\ pos = Bound(instrs, k)
        /\ pos < codelen - 2
    <3>1. footerlen = 2
      BY HeaderType
    <3> QED
      BY <1>1, <1>4, <3>1 DEF Decompile, MoreToDecompile, AlignedInv
  <2>2. phase' # "exited"
    BY <1>1 DEF AlignedInv
  <2> DEFINE statements == decompile1(Found.row, SubSeq(code, pos + 1, pos + Found.size))
  <2>3. /\ phase' = "decompile" /\ visited' = Append(visited, pos)
        /\ emitted' = emitted \o statements
    BY <1>4, <2>1, <2>2 DEF Decompile
  <2>4. k \in 1..Len(instrs) /\ Len(visited) \in Nat /\ Len(instrs) \in Nat
    <3>1. Len(visited) \in 0..(Len(instrs) + 2) /\ Len(instrs) \in Nat
      BY <1>1, ProgramType DEF AlignedInv
    <3>2. k # Len(instrs) + 1
      BY <1>1, <2>1, BoundsOf, OfProgram
    <3> QED
      BY <2>1, <3>1, <3>2
  <2>5. /\ Found.row = RowOf(instrs[k])
        /\ SubSeq(code, pos + 1, pos + Found.size) = instrs[k]
    <3> DEFINE found == x86_disasm(CodeOf(instrs), Len(CodeOf(instrs)), Bound(instrs, k))
    <3>1. Found = found /\ code = CodeOf(instrs)
      BY <2>1, OfProgram DEF Found
    <3>2. /\ found.row = RowOf(instrs[k])
          /\ SubSeq(CodeOf(instrs), Bound(instrs, k) + 1, Bound(instrs, k) + found.size) = instrs[k]
      BY <1>1, <2>4, FoundAtInstruction
    <3> QED
      BY <2>1, <3>1, <3>2
  <2>6. statements = Statements(instrs[k])
    BY <2>5 DEF Statements
  <2> HIDE DEF statements
  <2>7. Simulates(layout, upto(Len(visited)), emitted)
    BY <2>1 DEF AgreeInv
  <2>8. /\ instrs[k] \in Instructions /\ IsProgram(upto(Len(visited)))
        /\ upto(k) = Append(upto(Len(visited)), instrs[k])
    <3> DEFINE j == Len(visited)
    <3>1. j \in Nat /\ k = j + 1
      BY <2>4
    <3> HIDE DEF j, k
    <3>2. instrs \in Seq(Instructions) /\ instrs[k] \in Instructions
      BY <1>1, <2>4, ElementOfSeq DEF IsProgram
    <3>3. SubSeq(instrs, 1, k) = SubSeq(instrs, 1, k - 1) \o << instrs[k] >>
      <4>1. 1 \in 1..Len(instrs)
        BY <2>4
      <4> QED
        BY <2>4, <3>2, <4>1, SubSeqRecursiveSecond
    <3>4. k - 1 = j
      BY <3>1
    <3>5. SubSeq(instrs, 1, j) \in Seq(Instructions)
      <4>1. \A i \in 1..j : instrs[i] \in Instructions
        BY <2>4, <3>1, <3>2, ElementOfSeq
      <4> QED
        BY <3>1, <4>1, SubSeqProperties
    <3>6. SubSeq(instrs, 1, k) = Append(SubSeq(instrs, 1, j), instrs[k])
      BY <3>2, <3>3, <3>4, <3>5, AppendIsConcat
    <3> QED
      BY <3>2, <3>5, <3>6 DEF IsProgram, j
  <2>9. Simulates(layout, upto(k), emitted \o Statements(instrs[k]))
    <3> DEFINE l == layout
               p == upto(Len(visited))
               x == instrs[k]
    <3>1. layout = l /\ l \in Layouts /\ IsProgram(p) /\ Simulates(l, p, emitted)
          /\ x \in Instructions
      BY <1>1, <2>7, <2>8
    <3> HIDE DEF l, p, x
    <3>2. Simulates(l, Append(p, x), emitted \o Statements(x))
      BY <3>1, SimulatesNext
    <3> QED
      BY <2>8, <3>2 DEF l, p, x
  <2>10. Len(visited') = k
    BY <1>1, <2>1, <2>3, <2>4, VisitNext DEF AlignedInv
  <2> HIDE DEF k
  <2>11. Simulates(layout', SubSeq(instrs', 1, Len(visited')), emitted')
    BY <2>1, <2>3, <2>6, <2>9, <2>10
  <2> QED
    BY <1>1, <2>3, <2>11 DEF AgreeInv
<1>5. CASE DecompileEnds
  <2>1. /\ phase = "decompile" /\ phase' = "execute"
        /\ UNCHANGED << instrs, layout, emitted, visited >>
    BY <1>5 DEF DecompileEnds
  <2> QED
    BY <1>1, <2>1 DEF AgreeInv
<1>6. CASE Execute
  <2>1. /\ phase = "execute" /\ phase' = "run" /\ machine' = RunMachine(layout, instrs, FALSE)
        /\ UNCHANGED << instrs, layout, emitted, visited >>
    BY <1>6 DEF Execute
  <2>2. machine' = RunMachine(layout', instrs', FALSE)
    BY <2>1
  <2> QED
    BY <1>1, <2>1, <2>2 DEF AgreeInv
<1>7. CASE Run
  <2>1. /\ phase = "run" /\ phase' = "done" /\ f' = RunC(emitted)
        /\ UNCHANGED << instrs, layout, emitted, visited, machine >>
    BY <1>7 DEF Run
  <2>2. f' = RunC(emitted') /\ machine' = RunMachine(layout', instrs', FALSE)
    BY <2>1 DEF AgreeInv
  <2> QED
    BY <1>1, <2>1, <2>2 DEF AgreeInv
<1>8. CASE UNCHANGED vars
  BY <1>1, <1>8 DEF AgreeInv, vars
<1> QED
  BY <1>2, <1>3, <1>4, <1>5, <1>6, <1>7, <1>8 DEF Next

\* It says that the two agree.
LEMMA AgreeImplied == AgreeInv => Agree
<1> SUFFICES ASSUME AgreeInv, phase = "done", ~machine.sigfpe, ~LoadsRegister, ~MovesUnset,
                    NEW i \in 0..7, ST(machine, i) # Empty
             PROVE  f[i] = ST(RunMachine(layout, instrs, TRUE), i)
  BY DEF Agree
<1> DEFINE m == RunMachine(layout, instrs, FALSE)
           n == RunMachine(layout, instrs, TRUE)
<1>1. IsProgram(instrs) /\ Len(visited) = Len(instrs)
  BY DEF AgreeInv, AlignedInv
<1>2. SubSeq(instrs, 1, Len(visited)) = instrs
  BY <1>1, SubSeqFull DEF IsProgram
<1>3. Simulates(layout, instrs, emitted) /\ machine = m /\ f = RunC(emitted)
  BY <1>2 DEF AgreeInv
<1>4. Tame(instrs)
  <2>1. DOMAIN instrs = 1..Len(instrs)
    BY <1>1 DEF IsProgram
  <2>2. ASSUME NEW k \in 1..Len(instrs) PROVE ~LoadsOther(instrs[k])
    BY <2>1 DEF LoadsRegister, LoadsOther
  <2>3. ASSUME NEW k \in 1..Len(instrs), Move(instrs[k])
        PROVE  \E j \in 1..(k - 1) : Compare(instrs[j])
    <3>1. Moves(k)
      BY <2>3 DEF Moves, Move
    <3>2. \E j \in 1..(k - 1) : Compares(j)
      BY <2>1, <3>1 DEF MovesUnset
    <3> QED
      BY <3>2 DEF Compares, Compare
  <2> QED
    BY <2>2, <2>3 DEF Tame
<1>5. SameShape(m, n) /\ (Tame(instrs) /\ ~n.sigfpe => Together(n, instrs, emitted))
  BY <1>3 DEF Simulates
<1> HIDE DEF m, n
<1>6. ~n.sigfpe /\ ST(n, i) # Empty
  BY <1>3, <1>5 DEF SameShape
<1>7. PICK g : Ends(emitted, g) /\ Matches(n, g)
  BY <1>4, <1>5, <1>6 DEF Together
<1>8. f[i] = ST(n, i)
  BY <1>3, <1>6, <1>7 DEF Ends, Matches
<1> QED
  BY <1>8 DEF n

\* Agree always holds: the program that decompile prints leaves in f[i] what
\* the machine code leaves in ST(i), for every program without an exception
\* and without the instructions that are decompiled wrongly: "verify that
\* decompiled code works exactly the same as the machine code" (lgp.c:1372).
THEOREM ProgramsAgree == Spec => []Agree
<1>1. Init => AgreeInv
  BY AgreeInit
<1>2. AgreeInv /\ [Next]_vars => AgreeInv'
  BY AgreeNext
<1>3. AgreeInv => Agree
  BY AgreeImplied
<1> QED
  BY <1>1, <1>2, <1>3, PTL DEF Spec
=================================================================================
