---------------------------- MODULE GenomeProofs ----------------------------
(***************************************************************************)
(* Proofs about Genome, for every instruction set, header, footer, size of  *)
(* population and bound on the number of instructions that its assumptions  *)
(* allow.                                                                  *)
(*                                                                         *)
(* The argument.  Executable is not inductive: that a spliced table has     *)
(* increasing boundaries does not follow from its instructions one by one.  *)
(* IndInv adds how far apart any two boundaries are (Spaced), so that a     *)
(* boundary of the head is never moved past one of the tail, and what the   *)
(* programs look like that init_programs has not finished (Growing).  The   *)
(* lemmas below show, of each operation on a program, that it leaves a      *)
(* Complete program complete: AppendGrowing and FooterComplete for          *)
(* init_programs, SpliceComplete for crossover, MutationComplete for        *)
(* mutate.                                                                 *)
(*                                                                         *)
(* That Genome implements Programs follows from the same lemmas, which also *)
(* say which instructions a new program has: instructions are read back     *)
(* from the bytes and the signs of the boundaries (InstructionRead), so     *)
(* what a program spells is known as soon as each of its instructions is    *)
(* (Spells).                                                               *)
(***************************************************************************)
EXTENDS Genome, SequenceTheorems, TLAPS

\* Each of the four bytes of an address is a byte (lgp.c:562-575).
LEMMA AddressByteType ==
  ASSUME NEW a \in Addresses, NEW k \in 0..3
  PROVE  AddressByte(a, k) \in Byte
<1>1. a \in Nat
  BY CodeAssumption
<1>2. AddressByte(a, k) \in {(a \div d) % 256 : d \in {1, 256, 65536, 16777216}}
  BY DEF AddressByte
<1>4. \A n \in Int : n % 256 \in 0..255
  OBVIOUS
<1>5. PICK d \in {1, 256, 65536, 16777216} : AddressByte(a, k) = (a \div d) % 256
  BY <1>2
<1>6. a \div d \in Int
  BY <1>1
<1>7. (a \div d) % 256 \in 0..255
  BY <1>4, <1>6
<1> QED
  BY <1>5, <1>7 DEF Byte

\* An address takes four bytes of code.
LEMMA AddressBytesType ==
  ASSUME NEW a \in Addresses
  PROVE  /\ Len(AddressBytes(a)) = 4
         /\ AddressBytes(a) \in Seq(Byte)
  BY AddressByteType, 0 \in 0..3, 1 \in 0..3, 2 \in 0..3, 3 \in 0..3 DEF AddressBytes

\* An opcode is two bytes.
LEMMA OpcodeType ==
  ASSUME NEW S, NEW T, NEW op \in S \X T
  PROVE  /\ op \in Seq(S \cup T)
         /\ Len(op) = 2
         /\ op[1] \in S /\ op[2] \in T
<1>1. PICK x \in S, y \in T : op = <<x, y>>
  OBVIOUS
<1>2. op = <<x, y>> /\ op[1] = x /\ op[2] = y 
  BY <1>1
<1>3. Len(<<x,y>>) = 2 /\ <<x,y>> \in Seq(S \cup T)
  OBVIOUS
<1> QED
  BY <1>2, <1>3

\* The ABS macro of lgp.h.
LEMMA AbsValue ==
  ASSUME NEW n \in Int
  PROVE  /\ Abs(n) \in Nat
         /\ n < 0 => Abs(n) = -n
         /\ ~(n < 0) => Abs(n) = n
  BY DEF Abs

\* What random_instruction returns is 2 or 6 bytes long, as its length says.
LEMMA InstructionShape ==
  ASSUME NEW ins \in Instructions
  PROVE  /\ ins.len \in {2, -2, 6}
         /\ ins.bytes \in Seq(Byte)
         /\ Len(ins.bytes) = Abs(ins.len)
<1>0. Abs(2) = 2 /\ Abs(-2) = 2 /\ Abs(6) = 6
  BY AbsValue
<1>1. CASE \E op \in NoArg : ins = [bytes |-> op, len |-> 2]
  BY <1>1, CodeAssumption, OpcodeType DEF Abs
<1>2. CASE \E op \in RegArg, r \in 0..NRegisters-1 :
              ins = [bytes |-> <<op[1], op[2] + r>>, len |-> -2]
  <2>1. PICK op \in RegArg, r \in 0..NRegisters-1 :
              ins = [bytes |-> <<op[1], op[2] + r>>, len |-> -2]
    BY <1>2
  <2>2. op[1] \in Byte /\ op[2] \in {8 * i : i \in 0..31}
    BY CodeAssumption, OpcodeType
  <2>3. op[2] + r \in Byte
    BY <2>2, SizeAssumption DEF Byte
  <2>4. \A x, y \in Byte : <<x, y>> \in Seq(Byte) /\ Len(<<x, y>>) = 2
    OBVIOUS
  <2>5. ins.len = -2 /\ ins.bytes = <<op[1], op[2] + r>>
    BY <2>1
  <2>6. ins.bytes \in Seq(Byte) /\ Len(ins.bytes) = 2
    BY <2>2, <2>3, <2>4, <2>5
  <2> QED
    BY <1>0, <2>5, <2>6
<1>3. CASE \E op \in SixByte, a \in Addresses :
              ins = [bytes |-> op \o AddressBytes(a), len |-> 6]
  <2>1. PICK op \in SixByte, a \in Addresses :
              ins = [bytes |-> op \o AddressBytes(a), len |-> 6]
    BY <1>3
  <2>2. op \in Seq(Byte) /\ Len(op) = 2
    BY CodeAssumption, OpcodeType
  <2>3. ins.len = 6 /\ ins.bytes = op \o AddressBytes(a)
    BY <2>1
  <2>4. ins.bytes \in Seq(Byte) /\ Len(ins.bytes) = 6
    <3>1. AddressBytes(a) \in Seq(Byte) /\ Len(AddressBytes(a)) = 4
      BY AddressBytesType
    <3>2. op \o AddressBytes(a) \in Seq(Byte)
      BY <2>2, <3>1
    <3>3. Len(op \o AddressBytes(a)) = Len(op) + Len(AddressBytes(a))
      BY <2>2, <3>1, ConcatProperties
    <3>4. Len(op \o AddressBytes(a)) = 6
      BY <2>2, <3>1, <3>3
    <3> QED
      BY <2>3, <3>2, <3>4
  <2> QED
    BY <1>0, <2>3, <2>4
<1> QED
  BY <1>1, <1>2, <1>3 DEF Instructions

\* The header and the footer are bytes.
LEMMA HeaderType ==
  /\ HeaderLen \in Nat \ {0} /\ FooterLen \in Nat
  /\ \A b \in 1..HeaderLen : Header[b] \in Byte
  /\ \A b \in 1..FooterLen : Footer[b] \in Byte
<1>1. Header \in Seq(Byte) /\ Header # << >> /\ Footer \in Seq(Byte)
  BY CodeAssumption
<1>2. HeaderLen \in Nat /\ FooterLen \in Nat /\ HeaderLen # 0
  BY <1>1, EmptySeq DEF HeaderLen, FooterLen
<1> QED
  BY <1>1, <1>2 DEF HeaderLen, FooterLen

\* The boundaries of a program lie between the end of its header and the end
\* of its code.
LEMMA StartType ==
  ASSUME NEW p, Laid(p), NEW j \in 0..p.ninstr
  PROVE  /\ Start(p, j) \in Nat
         /\ p.indices[j] \in Int
         /\ HeaderLen <= Start(p, j)
         /\ Start(p, j) <= p.codelen
<1>1. p.ninstr \in Nat /\ p.codelen \in Nat
  BY DEF Laid
<1>2. \A k \in 0..p.ninstr : p.indices[k] \in Int /\ Start(p, k) \in Nat
  BY AbsValue DEF Laid, Start
<1>3. Start(p, 0) = HeaderLen
  BY HeaderType, AbsValue DEF Laid, Start
<1>4. Start(p, 0) <= Start(p, j) /\ Start(p, j) <= Start(p, p.ninstr)
  <2>1. 0 \in 0..p.ninstr /\ p.ninstr \in 0..p.ninstr /\ 0 <= j /\ j <= p.ninstr
    BY <1>1
  <2>2. Spaced(p)
    BY DEF Laid
  <2>3. Start(p, 0) + 2 * (j - 0) <= Start(p, j)
    BY <2>1, <2>2 DEF Spaced
  <2>4. Start(p, j) + 2 * (p.ninstr - j) <= Start(p, p.ninstr)
    BY <2>1, <2>2 DEF Spaced
  <2> QED
    BY <1>1, <1>2, <2>1, <2>3, <2>4
<1> QED
  BY <1>1, <1>2, <1>3, <1>4, HeaderType DEF Laid

\* Spaced, for two given boundaries.
LEMMA SpacedBetween ==
  ASSUME NEW p, Laid(p), NEW j \in 0..p.ninstr, NEW k \in 0..p.ninstr, j <= k
  PROVE  /\ Start(p, j) + 2 * (k - j) <= Start(p, k)
         /\ Start(p, k) <= Start(p, j) + 6 * (k - j)
<1>1. Spaced(p)
  BY DEF Laid
<1> QED
  BY <1>1 DEF Spaced

\* One more instruction keeps the distance from boundary a in bounds.
LEMMA OneMore ==
  ASSUME NEW a \in Int, NEW c \in Int, NEW m \in Int, NEW d \in {2, 6},
         a + 2 * m <= c, c <= a + 6 * m
  PROVE  a + 2 * (m + 1) <= c + d /\ c + d <= a + 6 * (m + 1)
  OBVIOUS

\* init_programs starts from a program that has the header only.
LEMMA EmptyGrowing == Growing(EmptyProgram) /\ EmptyProgram.ninstr = 0
<1> DEFINE p == EmptyProgram
<1>1. p.ninstr = 0 /\ p.codelen = HeaderLen
      /\ p.indices = [j \in {0} |-> HeaderLen]
      /\ p.code = [b \in 0..HeaderLen-1 |-> Header[b+1]]
  BY DEF EmptyProgram
<1>2. p.indices \in [0..0 -> Int] /\ p.indices[0] = HeaderLen
  BY <1>1, HeaderType
<1>3. Start(p, 0) = HeaderLen
  BY <1>2, HeaderType, AbsValue DEF Start
<1>4. p.code \in [0..p.codelen-1 -> Byte]
  BY <1>1, HeaderType
<1>5. \A b \in 1..HeaderLen : p.code[b-1] = Header[b]
  BY <1>1, HeaderType
<1>6. Spaced(p)
  BY <1>1, <1>3, HeaderType DEF Spaced
<1>7. WholeInstructions(p)
  BY <1>1 DEF WholeInstructions
<1> HIDE DEF p
<1>8. Laid(p)
  BY <1>1, <1>2, <1>3, <1>4, <1>5, <1>6, <1>7, HeaderType DEF Laid
<1>9. Growing(p)
  BY <1>1, <1>3, <1>8 DEF Growing
<1> QED
  BY <1>1, <1>9 DEF p

\* An instruction of p is still there in a program r with the same bytes and
\* boundaries, both moved by d.
LEMMA InstructionMoved ==
  ASSUME NEW p, NEW r, NEW j, NEW k, NEW d \in Int, NEW ins \in Instructions,
         IsInstruction(p, j, ins),
         Start(p, j-1) \in Int, Start(p, j) \in Int,
         Start(r, k-1) = Start(p, j-1) + d,
         Start(r, k) = Start(p, j) + d,
         (r.indices[k] < 0) <=> (p.indices[j] < 0),
         \A b \in Start(p, j-1)..Start(p, j)-1 : r.code[b + d] = p.code[b],
         j \in Int, k \in Int
  PROVE  IsInstruction(r, k, ins)
<1>1. /\ Len(ins.bytes) \in Nat /\ Abs(ins.len) = Len(ins.bytes)
  BY InstructionShape, LenProperties
<1>2. (j-1) + 1 = j /\ (k-1) + 1 = k
  OBVIOUS
<1>3. Diff(p, j-1) = Start(p, j) - Start(p, j-1)
  BY <1>2 DEF Diff
<1>4. Diff(r, k-1) = Start(r, k) - Start(r, k-1)
  BY <1>2 DEF Diff
<1>5. Diff(r, k-1) = Diff(p, j-1)
  BY <1>3, <1>4
<1>6. ASSUME NEW b \in 1..Len(ins.bytes)
      PROVE  r.code[Start(r, k-1) + b - 1] = ins.bytes[b]
  <2>1. Start(p, j-1) + b - 1 \in Start(p, j-1)..Start(p, j)-1
    BY <1>1, <1>3 DEF IsInstruction
  <2>2. r.code[(Start(p, j-1) + b - 1) + d] = p.code[Start(p, j-1) + b - 1]
    BY <2>1
  <2>3. (Start(p, j-1) + b - 1) + d = Start(r, k-1) + b - 1
    BY <1>1
  <2> QED
    BY <2>2, <2>3 DEF IsInstruction
<1> QED
  BY <1>5, <1>6 DEF IsInstruction

\* Extend writes after the end of the code and nowhere else.
LEMMA ExtendCode ==
  ASSUME NEW p, p.codelen \in Nat, p.code \in [0..p.codelen-1 -> Byte],
         NEW s \in Seq(Byte)
  PROVE  /\ Extend(p, s).codelen = p.codelen + Len(s)
         /\ Extend(p, s).code \in [0..p.codelen + Len(s) - 1 -> Byte]
         /\ \A b \in 0..p.codelen-1 : Extend(p, s).code[b] = p.code[b]
         /\ \A b \in 1..Len(s) : Extend(p, s).code[p.codelen + b - 1] = s[b]
<1> DEFINE r == Extend(p, s)
<1>1. /\ r.codelen = p.codelen + Len(s)
      /\ r.code = [b \in 0..p.codelen + Len(s) - 1 |->
                      IF b < p.codelen THEN p.code[b] ELSE s[b - p.codelen + 1]]
  BY DEF Extend
<1> HIDE DEF r
<1>2. Len(s) \in Nat /\ \A b \in 1..Len(s) : s[b] \in Byte
  OBVIOUS
<1>3. \A b \in 0..p.codelen-1 : r.code[b] = p.code[b]
  BY <1>1, <1>2
<1>4. ASSUME NEW b \in 1..Len(s)
      PROVE  r.code[p.codelen + b - 1] = s[b]
  <2>1. /\ p.codelen + b - 1 \in 0..p.codelen + Len(s) - 1
        /\ ~(p.codelen + b - 1 < p.codelen)
        /\ (p.codelen + b - 1) - p.codelen + 1 = b
    BY <1>2
  <2> QED
    BY <1>1, <2>1
<1>5. ASSUME NEW b \in 0..p.codelen + Len(s) - 1
      PROVE  r.code[b] \in Byte
  <2>1. CASE b < p.codelen
    <3>1. b \in 0..p.codelen-1
      BY <1>2, <2>1
    <3> QED
      BY <1>3, <3>1
  <2>2. CASE ~(b < p.codelen)
    <3>1. b - p.codelen + 1 \in 1..Len(s)
      BY <1>2, <2>2
    <3>2. p.codelen + (b - p.codelen + 1) - 1 = b
      BY <1>2
    <3> QED
      BY <1>2, <1>4, <3>1, <3>2
  <2> QED
    BY <2>1, <2>2
<1>6. r.code \in [0..p.codelen + Len(s) - 1 -> Byte]
  BY <1>1, <1>5
<1> QED
  BY <1>1, <1>3, <1>4, <1>6 DEF r

\* Appending a random instruction leaves a program of whole instructions.
LEMMA AppendGrowing ==
  ASSUME NEW p, Growing(p), NEW ins \in Instructions
  PROVE  /\ Growing(AppendInstruction(p, ins))
         /\ AppendInstruction(p, ins).ninstr = p.ninstr + 1
         /\ \A j \in 1..p.ninstr, i \in Instructions :
               IsInstruction(p, j, i) => IsInstruction(AppendInstruction(p, ins), j, i)
         /\ IsInstruction(AppendInstruction(p, ins), p.ninstr + 1, ins)
<1> DEFINE r == AppendInstruction(p, ins)
           n == p.ninstr
           end == Abs(ins.len) + Start(p, n)
<1>1. /\ ins.len \in {2, -2, 6}
      /\ ins.bytes \in Seq(Byte)
      /\ Len(ins.bytes) = Abs(ins.len)
      /\ Abs(ins.len) \in {2, 6}
      /\ \A b \in 1..Len(ins.bytes) : ins.bytes[b] \in Byte
  BY InstructionShape, AbsValue
<1>2. /\ Laid(p) /\ p.codelen = Start(p, n)
      /\ n \in Nat /\ p.codelen \in Nat
  BY DEF Growing, Laid
<1>3. \A j \in 0..n : Start(p, j) \in Nat /\ Start(p, j) <= p.codelen
                      /\ HeaderLen <= Start(p, j) /\ p.indices[j] \in Int
  BY <1>2, StartType
<1>4. end \in Nat /\ end = p.codelen + Abs(ins.len) /\ n \in 0..n
  BY <1>1, <1>2, <1>3
<1>5. /\ r.ninstr = n + 1
      /\ r.codelen = p.codelen + Len(ins.bytes)
      /\ r.indices = [j \in 0..n+1 |-> IF j <= n THEN p.indices[j]
                        ELSE IF ins.len < 0 THEN -end ELSE end]
      /\ r.code = Extend(p, ins.bytes).code
  BY DEF AppendInstruction, Extend, Start
<1> HIDE DEF r, end
<1>6. r.codelen \in Nat /\ r.codelen = end /\ r.ninstr \in Nat
  BY <1>1, <1>2, <1>4, <1>5
<1>7. r.indices \in [0..r.ninstr -> Int]
  BY <1>2, <1>3, <1>4, <1>5
<1>8. \A j \in 0..n : r.indices[j] = p.indices[j] /\ Start(r, j) = Start(p, j)
  BY <1>2, <1>5 DEF Start
<1>9. r.indices[n+1] = (IF ins.len < 0 THEN -end ELSE end)
  BY <1>2, <1>5
<1>10. Start(r, n+1) = end
  BY <1>4, <1>9, AbsValue DEF Start
<1>11. /\ r.code \in [0..p.codelen + Len(ins.bytes) - 1 -> Byte]
       /\ \A b \in 0..p.codelen-1 : r.code[b] = p.code[b]
       /\ \A b \in 1..Len(ins.bytes) : r.code[p.codelen + b - 1] = ins.bytes[b]
  <2>1. p.codelen \in Nat /\ p.code \in [0..p.codelen-1 -> Byte]
    BY <1>2 DEF Laid
  <2>2. ins.bytes \in Seq(Byte)
    BY <1>1
  <2> DEFINE e == Extend(p, ins.bytes)
  <2>3. /\ e.code \in [0..p.codelen + Len(ins.bytes) - 1 -> Byte]
        /\ \A b \in 0..p.codelen-1 : e.code[b] = p.code[b]
        /\ \A b \in 1..Len(ins.bytes) : e.code[p.codelen + b - 1] = ins.bytes[b]
    BY <2>1, <2>2, ExtendCode
  <2>4. r.code = e.code
    BY <1>5
  <2> HIDE DEF e
  <2> QED
    BY <2>3, <2>4
<1>12. \A b \in 1..Len(ins.bytes) : r.code[p.codelen + b - 1] = ins.bytes[b]
  BY <1>11
<1>13. r.code \in [0..r.codelen-1 -> Byte]
  <2>1. p.codelen + Len(ins.bytes) - 1 = r.codelen - 1
    BY <1>1, <1>2, <1>5
  <2> QED
    BY <1>11, <2>1
<1>14. r.indices[0] = HeaderLen
  BY <1>2, <1>8 DEF Laid
<1>15. \A b \in 1..HeaderLen : r.code[b-1] = Header[b]
  <2>1. HeaderLen <= p.codelen
    BY <1>2, <1>3, <1>4
  <2> QED
    BY <1>2, <1>11, <2>1, HeaderType DEF Laid
<1>16. Spaced(r)
  <2> SUFFICES ASSUME NEW j \in 0..r.ninstr, NEW k \in 0..r.ninstr, j <= k
               PROVE  /\ Start(r, j) + 2 * (k - j) <= Start(r, k)
                      /\ Start(r, k) <= Start(r, j) + 6 * (k - j)
    BY DEF Spaced
  <2>1. CASE k <= n
    <3>1. j \in 0..n /\ k \in 0..n
      BY <2>1, <1>2, <1>5
    <3>2. /\ Start(p, j) + 2 * (k - j) <= Start(p, k)
          /\ Start(p, k) <= Start(p, j) + 6 * (k - j)
      BY <1>2, <3>1, SpacedBetween
    <3> QED
      BY <1>8, <3>1, <3>2
  <2>2. CASE k = n + 1 /\ j <= n
    <3>1. j \in 0..n
      BY <2>2, <1>2, <1>5
    <3>2. /\ Start(p, j) + 2 * (n - j) <= Start(p, n)
          /\ Start(p, n) <= Start(p, j) + 6 * (n - j)
      BY <1>2, <1>4, <3>1, SpacedBetween
    <3>3. Start(r, j) = Start(p, j) /\ Start(r, k) = Start(p, n) + Abs(ins.len)
      BY <1>2, <1>4, <1>8, <1>10, <2>2, <3>1
    <3>4. k - j = (n - j) + 1 /\ n - j \in Int
      BY <1>2, <2>2, <3>1
    <3>5. Start(p, j) \in Int /\ Start(p, n) \in Int
      BY <1>3, <1>4, <3>1
    <3> HIDE DEF n
    <3> QED
      BY <1>1, <3>2, <3>3, <3>4, <3>5, OneMore
  <2>3. CASE k = n + 1 /\ j = n + 1
    BY <1>2, <1>4, <1>10, <2>3
  <2> QED
    BY <1>2, <1>5, <2>1, <2>2, <2>3
<1>17. ASSUME NEW j \in 1..n, NEW i \in Instructions, IsInstruction(p, j, i)
       PROVE  IsInstruction(r, j, i)
  <2>1. j \in 0..n /\ j-1 \in 0..n /\ j \in Int
    BY <1>2
  <2>2. \A b \in Start(p, j-1)..Start(p, j)-1 : r.code[b + 0] = p.code[b]
    BY <1>2, <1>3, <1>11, <2>1
  <2>3. /\ Start(r, j-1) = Start(p, j-1) + 0
        /\ Start(r, j) = Start(p, j) + 0
        /\ Start(p, j-1) \in Int /\ Start(p, j) \in Int
        /\ r.indices[j] = p.indices[j]
    BY <1>3, <1>8, <2>1
  <2> QED
    BY <1>17, <2>1, <2>2, <2>3, InstructionMoved, 0 \in Int
<1>18. IsInstruction(r, n+1, ins)
  <2>1. Diff(r, n) = Abs(ins.len) /\ Start(r, n) = p.codelen /\ (n+1)-1 = n
    BY <1>1, <1>2, <1>4, <1>8, <1>10 DEF Diff
  <2>2. (r.indices[n+1] < 0) <=> (ins.len < 0)
    <3>1. end > 0
      BY <1>1, <1>2, <1>4
    <3> QED
      BY <1>1, <1>4, <1>9, <3>1
  <2> QED
    BY <1>12, <2>1, <2>2 DEF IsInstruction
<1>19. WholeInstructions(r)
  <2> SUFFICES ASSUME NEW j \in 1..r.ninstr
               PROVE  \E i \in Instructions : IsInstruction(r, j, i)
    BY DEF WholeInstructions
  <2>1. CASE j \in 1..n
    <3>1. PICK i \in Instructions : IsInstruction(p, j, i)
      BY <1>2, <2>1 DEF Laid, WholeInstructions
    <3> QED
      BY <1>17, <2>1, <3>1
  <2>2. CASE j = n + 1
    BY <1>18, <2>2
  <2> QED
    BY <1>2, <1>5, <2>1, <2>2
<1>20. Growing(r)
  BY <1>5, <1>6, <1>7, <1>10, <1>13, <1>14, <1>15, <1>16, <1>19 DEF Growing, Laid
<1> QED
  BY <1>5, <1>17, <1>18, <1>20 DEF r

\* p and r have the same boundaries.
LEMMA SameBoundaries ==
  ASSUME NEW p, NEW r, Laid(p), r.indices = p.indices, r.ninstr = p.ninstr
  PROVE  /\ r.ninstr \in Nat
         /\ r.indices \in [0..r.ninstr -> Int]
         /\ r.indices[0] = HeaderLen
         /\ Spaced(r)
         /\ \A j : Start(r, j) = Start(p, j)
<1>1. \A j : Start(r, j) = Start(p, j)
  BY DEF Start
<1>2. Spaced(r)
  BY <1>1 DEF Laid, Spaced
<1> QED
  BY <1>1, <1>2 DEF Laid

\* The footer completes a program.
LEMMA FooterComplete ==
  ASSUME NEW p, Growing(p)
  PROVE  /\ Complete(Extend(p, Footer))
         /\ Extend(p, Footer).ninstr = p.ninstr
         /\ \A j \in 1..p.ninstr, i \in Instructions :
               IsInstruction(p, j, i) => IsInstruction(Extend(p, Footer), j, i)
<1> DEFINE r == Extend(p, Footer)
           n == p.ninstr
<1>1. r.indices = p.indices /\ r.ninstr = n
  BY DEF Extend
<1>2. /\ Laid(p) /\ p.codelen = Start(p, n)
      /\ n \in Nat /\ p.codelen \in Nat /\ p.code \in [0..p.codelen-1 -> Byte]
  BY DEF Growing, Laid
<1>3. Footer \in Seq(Byte) /\ FooterLen \in Nat /\ FooterLen = Len(Footer)
  BY CodeAssumption, HeaderType DEF FooterLen
<1>4. /\ r.codelen = p.codelen + FooterLen
      /\ r.code \in [0..p.codelen + FooterLen - 1 -> Byte]
      /\ \A b \in 0..p.codelen-1 : r.code[b] = p.code[b]
      /\ \A b \in 1..FooterLen : r.code[p.codelen + b - 1] = Footer[b]
  BY <1>2, <1>3, ExtendCode
<1> HIDE DEF r
<1>5. r.codelen \in Nat /\ p.codelen + FooterLen - 1 = r.codelen - 1
  BY <1>2, <1>3, <1>4
<1>6. r.code \in [0..r.codelen-1 -> Byte]
  BY <1>4, <1>5
<1>7. /\ r.ninstr \in Nat
      /\ r.indices \in [0..r.ninstr -> Int]
      /\ r.indices[0] = HeaderLen
      /\ Spaced(r)
      /\ \A j : Start(r, j) = Start(p, j)
  BY <1>1, <1>2, SameBoundaries
<1>8. \A j \in 0..n : /\ Start(p, j) \in Nat /\ Start(p, j) <= p.codelen
                      /\ HeaderLen <= Start(p, j) /\ p.indices[j] \in Int
  BY <1>2, StartType
<1>9. \A b \in 1..HeaderLen : r.code[b-1] = Header[b]
  <2>1. HeaderLen <= p.codelen
    BY <1>2, <1>8
  <2> QED
    BY <1>2, <1>4, <2>1, HeaderType DEF Laid
<1>10. ASSUME NEW j \in 1..n, NEW i \in Instructions, IsInstruction(p, j, i)
       PROVE  IsInstruction(r, j, i)
  <2>1. j \in 0..n /\ j-1 \in 0..n /\ j \in Int
    BY <1>2
  <2>2. \A b \in Start(p, j-1)..Start(p, j)-1 : r.code[b + 0] = p.code[b]
    BY <1>2, <1>4, <1>8, <2>1
  <2>3. /\ Start(r, j-1) = Start(p, j-1) + 0
        /\ Start(r, j) = Start(p, j) + 0
        /\ Start(p, j-1) \in Int /\ Start(p, j) \in Int
        /\ r.indices[j] = p.indices[j]
    BY <1>1, <1>7, <1>8, <2>1
  <2> QED
    BY <1>10, <2>1, <2>2, <2>3, InstructionMoved, 0 \in Int
<1>15. WholeInstructions(r)
  BY <1>1, <1>2, <1>10 DEF Laid, WholeInstructions
<1>11. r.codelen = CodeLength(r.indices, r.ninstr)
  BY <1>1, <1>2, <1>4 DEF CodeLength, Start
<1>12. Start(r, r.ninstr) = p.codelen
  BY <1>1, <1>2, <1>7
<1>13. Laid(r)
  <2>1. Start(r, r.ninstr) <= r.codelen
    BY <1>2, <1>3, <1>4, <1>12
  <2> QED
    BY <1>5, <1>6, <1>7, <1>9, <1>15, <2>1 DEF Laid
<1>14. WellFormed(r)
  BY <1>4, <1>7, <1>9, <1>11, <1>12, <1>15 DEF WellFormed
<1> QED
  BY <1>1, <1>10, <1>13, <1>14 DEF Complete, r

\* A byte b of the part of the child's code that comes from q.
LEMMA TailByte ==
  ASSUME NEW from \in Nat, NEW cut \in Nat, NEW d \in Int, NEW len \in Int,
         NEW b \in Int, d = cut - from, cut <= b, b <= len + d - 1
  PROVE  b - d \in from..len-1 /\ b - d \in 0..len-1 /\ (b - d) + d = b
  OBVIOUS

\* A byte b of a footer that starts at s, and is moved to t.
LEMMA FooterByte ==
  ASSUME NEW from \in Int, NEW s \in Int, NEW d \in Int, NEW t \in Int,
         NEW len \in Int, NEW f \in Int, NEW b \in 1..f,
         from <= s, len = s + f, t = s + d
  PROVE  s + b - 1 \in from..len-1 /\ (s + b - 1) + d = t + b - 1
  OBVIOUS

\* A byte b of q's tail, in the part of the child's code that comes from q.
LEMMA TailByteMoved ==
  ASSUME NEW from \in Nat, NEW cut \in Nat, NEW d \in Int, NEW len \in Int,
         NEW b \in from..len-1, d = cut - from
  PROVE  b + d \in 0..len + d - 1 /\ ~(b + d < cut) /\ (b + d) - d = b
  OBVIOUS

\* A byte b of the footer, which starts at s, is not one of an instruction
\* that ends at v.
LEMMA FooterByteOutside ==
  ASSUME NEW s \in Nat, NEW u \in Nat, NEW v \in Nat, NEW len \in Int,
         NEW f \in Int, NEW b \in 1..f, len = s + f, v <= s
  PROVE  s + b - 1 \in 0..len-1 /\ ~(s + b - 1 \in u..v-1)
  OBVIOUS

\* Crossover: the child is a complete program, with the head of p and the
\* tail of q.
LEMMA SpliceComplete ==
  ASSUME NEW p, NEW q, Complete(p), Complete(q),
         NEW i \in 1..p.ninstr, NEW j \in 1..q.ninstr
  PROVE  /\ Complete(Splice(p, i, q, j))
         /\ Splice(p, i, q, j).ninstr = i + q.ninstr - j
         /\ Splice(p, i, q, j).codelen =
               q.codelen + Start(p, i-1) - Start(q, j-1)
         /\ \A k \in 1..i-1, ins \in Instructions :
               IsInstruction(p, k, ins) => IsInstruction(Splice(p, i, q, j), k, ins)
         /\ \A k \in i..(i + q.ninstr - j), ins \in Instructions :
               IsInstruction(q, k - i + j, ins) => IsInstruction(Splice(p, i, q, j), k, ins)
<1> DEFINE r == Splice(p, i, q, j)
           n == ChildSize(p, i, q, j)
           cut == Start(p, i-1)
           d == Shift(p, i, q, j)
<1>1. /\ Laid(p) /\ p.ninstr \in Nat /\ p.codelen \in Nat
      /\ p.code \in [0..p.codelen-1 -> Byte]
  BY DEF Complete, Laid
<1>2. /\ Laid(q) /\ q.ninstr \in Nat /\ q.codelen \in Nat
      /\ q.code \in [0..q.codelen-1 -> Byte]
  BY DEF Complete, Laid
<1>3. \A k \in 0..p.ninstr : /\ Start(p, k) \in Nat /\ Start(p, k) <= p.codelen
                             /\ HeaderLen <= Start(p, k) /\ p.indices[k] \in Int
  BY <1>1, StartType
<1>4. \A k \in 0..q.ninstr : /\ Start(q, k) \in Nat /\ Start(q, k) <= q.codelen
                             /\ HeaderLen <= Start(q, k) /\ q.indices[k] \in Int
  BY <1>2, StartType
<1>5. /\ n = i + q.ninstr - j /\ n \in Nat /\ n >= i
      /\ i-1 \in 0..p.ninstr /\ i \in Nat /\ j \in Nat
      /\ j-1 \in 0..q.ninstr /\ q.ninstr \in 0..q.ninstr
  BY <1>1, <1>2 DEF ChildSize
<1>6. d = cut - Start(q, j-1) /\ cut \in Nat /\ Start(q, j-1) \in Nat /\ d \in Int
  BY <1>3, <1>4, <1>5 DEF Shift, Start
<1>7. /\ r.ninstr = n
      /\ r.indices = [k \in 0..n |-> IF k < i THEN p.indices[k]
                                     ELSE Moved(q.indices[k - i + j], d)]
      /\ r.codelen = CodeLength(r.indices, n)
      /\ r.code = [b \in 0..q.codelen + d - 1 |->
                      IF b < cut THEN p.code[b] ELSE q.code[b - d]]
  BY DEF Splice, ChildIndices, ChildCode, Start
<1> HIDE DEF r, n, cut, d
<1>8. ASSUME NEW k \in 0..i-1
      PROVE  r.indices[k] = p.indices[k] /\ Start(r, k) = Start(p, k)
  <2>1. k \in 0..n /\ k < i
    BY <1>5
  <2> QED
    BY <1>7, <2>1 DEF Start
<1>9. ASSUME NEW k \in i..n
      PROVE  /\ k - i + j \in j..q.ninstr
             /\ Start(r, k) = Start(q, k - i + j) + d
             /\ (r.indices[k] < 0) <=> (q.indices[k - i + j] < 0)
             /\ r.indices[k] \in Int
  <2> DEFINE m == k - i + j
  <2>1. m \in j..q.ninstr /\ m \in 0..q.ninstr /\ j-1 <= m /\ m - (j-1) >= 1
    <3>1. m = k - i + j /\ k \in Int /\ i <= k /\ k <= i + q.ninstr - j
      BY <1>5
    <3>2. 1 <= j /\ j <= q.ninstr
      BY <1>2
    <3> HIDE DEF m
    <3>3. m \in Int /\ j <= m /\ m <= q.ninstr
      BY <1>2, <1>5, <3>1
    <3> QED
      BY <1>2, <1>5, <3>2, <3>3
  <2>2. r.indices[k] = Moved(q.indices[m], d)
    BY <1>5, <1>7
  <2> HIDE DEF m
  <2>3. Start(q, j-1) + 2 * (m - (j-1)) <= Start(q, m)
    BY <1>2, <1>5, <2>1, SpacedBetween
  <2>4. Start(q, m) + d > 0 /\ Start(q, m) \in Nat /\ q.indices[m] \in Int
    BY <1>4, <1>5, <1>6, <2>1, <2>3
  <2>5. /\ q.indices[m] < 0 => r.indices[k] = -(Start(q, m) + d)
        /\ ~(q.indices[m] < 0) => r.indices[k] = Start(q, m) + d
    BY <2>2 DEF Moved, Start
  <2>6. (r.indices[k] < 0) <=> (q.indices[m] < 0)
    BY <1>6, <2>4, <2>5
  <2>7. r.indices[k] \in Int
    BY <1>6, <2>4, <2>5
  <2>8. Start(r, k) = Start(q, m) + d
    <3>1. CASE q.indices[m] < 0
      BY <1>6, <2>4, <2>5, <2>7, <3>1, AbsValue DEF Start
    <3>2. CASE ~(q.indices[m] < 0)
      BY <1>6, <2>4, <2>5, <2>7, <3>2, AbsValue DEF Start
    <3> QED
      BY <3>1, <3>2
  <2> QED
    BY <2>1, <2>6, <2>7, <2>8 DEF m
<1>10. Start(r, i-1) = cut /\ Start(r, i-1) = Start(q, j-1) + d
  BY <1>5, <1>6, <1>8 DEF cut
<1>11. ASSUME NEW k \in i-1..n
       PROVE  /\ k - i + j \in 0..q.ninstr
              /\ Start(r, k) = Start(q, k - i + j) + d
  <2>1. CASE k = i-1
    <3>1. k - i + j = j-1
      BY <1>5, <2>1
    <3> QED
      BY <1>5, <1>10, <2>1, <3>1
  <2>2. CASE k \in i..n
    BY <1>2, <1>5, <1>9, <2>2
  <2> QED
    BY <1>5, <2>1, <2>2
<1>12. r.indices \in [0..r.ninstr -> Int]
  <2>1. ASSUME NEW k \in 0..n
        PROVE  r.indices[k] \in Int
    <3>1. CASE k \in 0..i-1
      <4>1. k \in 0..p.ninstr
        BY <1>1, <1>5, <3>1
      <4> QED
        BY <1>3, <1>8, <3>1, <4>1
    <3>2. CASE k \in i..n
      BY <1>9, <3>2
    <3> QED
      BY <1>5, <3>1, <3>2
  <2> QED
    BY <1>7, <2>1
<1>13. r.indices[0] = HeaderLen
  BY <1>1, <1>5, <1>8 DEF Laid
<1>14. Spaced(r)
  <2> SUFFICES ASSUME NEW a \in 0..n, NEW c \in 0..n, a <= c
               PROVE  /\ Start(r, a) + 2 * (c - a) <= Start(r, c)
                      /\ Start(r, c) <= Start(r, a) + 6 * (c - a)
    BY <1>7 DEF Spaced
  <2>1. CASE c <= i-1
    <3>1. a \in 0..i-1 /\ c \in 0..i-1 /\ a \in 0..p.ninstr /\ c \in 0..p.ninstr
      BY <1>1, <1>5, <2>1
    <3> QED
      BY <1>1, <1>8, <3>1, SpacedBetween
  <2>2. CASE i-1 <= a
    <3> DEFINE u == a - i + j
               v == c - i + j
    <3>1. a \in i-1..n /\ c \in i-1..n
      BY <1>5, <2>2
    <3>2. /\ u \in 0..q.ninstr /\ v \in 0..q.ninstr
          /\ Start(r, a) = Start(q, u) + d /\ Start(r, c) = Start(q, v) + d
      BY <1>11, <3>1
    <3>3. u <= v /\ v - u = c - a
      BY <1>5
    <3> HIDE DEF u, v
    <3>4. /\ Start(q, u) + 2 * (v - u) <= Start(q, v)
          /\ Start(q, v) <= Start(q, u) + 6 * (v - u)
      BY <1>2, <3>2, <3>3, SpacedBetween
    <3>5. Start(q, u) \in Int /\ Start(q, v) \in Int /\ v - u \in Int
      BY <1>4, <1>2, <3>2
    <3> QED
      BY <1>6, <3>2, <3>3, <3>4, <3>5
  <2>3. CASE a <= i-1 /\ i-1 <= c
    <3> DEFINE v == c - i + j
    <3>1. a \in 0..i-1 /\ a \in 0..p.ninstr /\ c \in i-1..n
      BY <1>1, <1>5, <2>3
    <3>2. /\ v \in 0..q.ninstr
          /\ Start(r, a) = Start(p, a) /\ Start(r, c) = Start(q, v) + d
      BY <1>8, <1>11, <3>1
    <3>3. j-1 <= v /\ v - (j-1) = c - (i-1) /\ a <= i-1
      BY <1>5, <2>3
    <3> HIDE DEF v
    <3>4. /\ Start(p, a) + 2 * ((i-1) - a) <= cut
          /\ cut <= Start(p, a) + 6 * ((i-1) - a)
      BY <1>1, <1>5, <3>1, <3>3, SpacedBetween DEF cut
    <3>5. /\ Start(q, j-1) + 2 * (v - (j-1)) <= Start(q, v)
          /\ Start(q, v) <= Start(q, j-1) + 6 * (v - (j-1))
      BY <1>2, <1>5, <3>2, <3>3, SpacedBetween
    <3>6. Start(p, a) \in Int /\ Start(q, v) \in Int
      BY <1>3, <1>4, <3>1, <3>2
    <3> QED
      BY <1>5, <1>6, <3>2, <3>3, <3>4, <3>5, <3>6
  <2> QED
    BY <1>5, <2>1, <2>2, <2>3
<1>15. /\ Start(r, n) = Start(q, q.ninstr) + d
       /\ r.codelen = q.codelen + d
  <2>1. n \in i-1..n /\ n - i + j = q.ninstr
    BY <1>2, <1>5
  <2>2. Start(r, n) = Start(q, q.ninstr) + d
    BY <1>11, <2>1
  <2>3. q.codelen = Start(q, q.ninstr) + FooterLen
    BY DEF Complete, WellFormed, CodeLength, Start
  <2>4. r.codelen = Start(r, n) + FooterLen
    BY <1>7 DEF CodeLength, Start
  <2>5. Start(q, q.ninstr) \in Int
    BY <1>4, <1>5
  <2> QED
    BY <1>6, <2>2, <2>3, <2>4, <2>5, HeaderType
<1>16. Start(q, j-1) <= q.codelen /\ cut <= p.codelen /\ HeaderLen <= cut
  BY <1>3, <1>4, <1>5 DEF cut
<1>17. r.codelen \in Nat /\ cut <= r.codelen
  BY <1>2, <1>6, <1>15, <1>16
<1>18. \A b \in 0..cut-1 : r.code[b] = p.code[b]
  <2> TAKE b \in 0..cut-1
  <2>1. b \in 0..q.codelen + d - 1 /\ b < cut
    BY <1>2, <1>6, <1>16
  <2> QED
    BY <1>7, <2>1
<1>19. \A b \in Start(q, j-1)..q.codelen-1 : r.code[b + d] = q.code[b]
  <2> TAKE b \in Start(q, j-1)..q.codelen-1
  <2>1. b + d \in 0..q.codelen + d - 1 /\ ~(b + d < cut) /\ (b + d) - d = b
    <3>1. Start(q, j-1) \in Nat /\ cut \in Nat /\ d \in Int /\ q.codelen \in Int
      BY <1>2, <1>6
    <3>2. d = cut - Start(q, j-1)
      BY <1>6
    <3> QED
      BY <3>1, <3>2, TailByteMoved
  <2> QED
    BY <1>7, <2>1
<1>20. r.code \in [0..r.codelen-1 -> Byte]
  <2>1. ASSUME NEW b \in 0..q.codelen + d - 1
        PROVE  r.code[b] \in Byte
    <3>1. CASE b < cut
      <4>1. b \in 0..cut-1 /\ b \in 0..p.codelen-1
        BY <1>1, <1>2, <1>6, <1>16, <3>1
      <4> QED
        BY <1>1, <1>18, <4>1
    <3>2. CASE ~(b < cut)
      <4>1. b \in Int /\ cut <= b /\ b <= q.codelen + d - 1 /\ q.codelen \in Int
        BY <1>2, <1>6, <3>2
      <4>2. /\ b - d \in Start(q, j-1)..q.codelen-1
            /\ b - d \in 0..q.codelen-1 /\ (b - d) + d = b
        BY <1>6, <4>1, TailByte
      <4> QED
        BY <1>2, <1>19, <4>2
    <3> QED
      BY <3>1, <3>2
  <2>2. r.code \in [0..q.codelen + d - 1 -> Byte]
    BY <1>7, <2>1
  <2>3. q.codelen + d - 1 = r.codelen - 1
    BY <1>2, <1>6, <1>15
  <2> QED
    BY <2>2, <2>3
<1>21. \A b \in 1..HeaderLen : r.code[b-1] = Header[b]
  <2> TAKE b \in 1..HeaderLen
  <2>1. b-1 \in 0..cut-1
    BY <1>6, <1>16, HeaderType
  <2> QED
    BY <1>1, <1>18, <2>1 DEF Laid
<1>27. ASSUME NEW k \in 1..i-1, NEW ins \in Instructions, IsInstruction(p, k, ins)
       PROVE  IsInstruction(r, k, ins)
  <2>1. /\ k \in 0..i-1 /\ k-1 \in 0..i-1 /\ k \in 1..p.ninstr
        /\ k \in 0..p.ninstr /\ k-1 \in 0..p.ninstr /\ k \in Int
    BY <1>1, <1>5
  <2>2. /\ Start(r, k-1) = Start(p, k-1) + 0
        /\ Start(r, k) = Start(p, k) + 0
        /\ Start(p, k-1) \in Int /\ Start(p, k) \in Int
        /\ Start(p, k-1) >= 0
        /\ r.indices[k] = p.indices[k]
    BY <1>3, <1>8, <2>1
  <2>3. Start(p, k) <= cut
    <3>1. Start(p, k) + 2 * ((i-1) - k) <= cut
      BY <1>1, <1>5, <2>1, SpacedBetween DEF cut
    <3> QED
      BY <1>5, <1>6, <2>1, <2>2, <3>1
  <2>4. \A b \in Start(p, k-1)..Start(p, k)-1 : r.code[b + 0] = p.code[b]
    BY <1>6, <1>18, <2>2, <2>3
  <2> QED
    BY <1>27, <2>1, <2>2, <2>4, InstructionMoved, 0 \in Int
<1>28. ASSUME NEW k \in i..n, NEW ins \in Instructions, IsInstruction(q, k - i + j, ins)
       PROVE  IsInstruction(r, k, ins)
  <2> DEFINE m == k - i + j
  <2>1. /\ k \in i-1..n /\ k-1 \in i-1..n
        /\ (k-1) - i + j = m-1 /\ m \in Int /\ k \in Int
    BY <1>5
  <2>2. /\ m \in j..q.ninstr /\ m \in 0..q.ninstr /\ m-1 \in 0..q.ninstr
        /\ Start(r, k) = Start(q, m) + d
        /\ Start(r, k-1) = Start(q, m-1) + d
        /\ (r.indices[k] < 0) <=> (q.indices[m] < 0)
        /\ IsInstruction(q, m, ins)
    BY <1>2, <1>5, <1>9, <1>11, <1>28, <2>1
  <2> HIDE DEF m
  <2>3. m \in 1..q.ninstr /\ j-1 <= m-1 /\ (m-1) - (j-1) >= 0
    <3>1. m \in Int /\ j <= m /\ m <= q.ninstr /\ 1 <= j
      BY <1>2, <1>5, <2>1, <2>2
    <3> QED
      BY <1>2, <1>5, <3>1
  <2>4. /\ Start(q, m) \in Int /\ Start(q, m-1) \in Int
        /\ Start(q, m) <= q.codelen
    BY <1>4, <2>2
  <2>5. Start(q, j-1) <= Start(q, m-1)
    <3>1. Start(q, j-1) + 2 * ((m-1) - (j-1)) <= Start(q, m-1)
      BY <1>2, <1>5, <2>2, <2>3, SpacedBetween
    <3> QED
      BY <1>5, <1>6, <2>1, <2>3, <2>4, <3>1
  <2>6. \A b \in Start(q, m-1)..Start(q, m)-1 : r.code[b + d] = q.code[b]
    <3>1. ASSUME NEW b \in Start(q, m-1)..Start(q, m)-1
          PROVE  b \in Start(q, j-1)..q.codelen-1
      BY <1>2, <1>6, <2>4, <2>5
    <3> QED
      BY <1>19, <3>1
  <2> QED
    BY <1>6, <2>1, <2>2, <2>4, <2>6, InstructionMoved
<1>22. WholeInstructions(r)
  <2> SUFFICES ASSUME NEW k \in 1..n
               PROVE  \E ins \in Instructions : IsInstruction(r, k, ins)
    BY <1>7 DEF WholeInstructions
  <2>1. CASE k < i
    <3>1. k \in 1..i-1 /\ k \in 1..p.ninstr
      BY <1>1, <1>5, <2>1
    <3>2. PICK ins \in Instructions : IsInstruction(p, k, ins)
      BY <1>1, <3>1 DEF Laid, WholeInstructions
    <3> QED
      BY <1>27, <3>1, <3>2
  <2>2. CASE k >= i
    <3>1. k \in i..n /\ k - i + j \in 1..q.ninstr
      BY <1>2, <1>5, <2>2
    <3>2. PICK ins \in Instructions : IsInstruction(q, k - i + j, ins)
      BY <1>2, <3>1 DEF Laid, WholeInstructions
    <3> QED
      BY <1>28, <3>1, <3>2
  <2> QED
    BY <1>5, <2>1, <2>2
<1>23. \A b \in 1..FooterLen : r.code[Start(r, n) + b - 1] = Footer[b]
  <2> TAKE b \in 1..FooterLen
  <2>1. q.code[Start(q, q.ninstr) + b - 1] = Footer[b]
    BY DEF Complete, WellFormed
  <2>2. q.codelen = Start(q, q.ninstr) + FooterLen
    BY DEF Complete, WellFormed, CodeLength, Start
  <2>3. Start(q, j-1) <= Start(q, q.ninstr) /\ Start(q, q.ninstr) \in Int
    <3>1. Start(q, j-1) + 2 * (q.ninstr - (j-1)) <= Start(q, q.ninstr)
      BY <1>2, <1>5, SpacedBetween
    <3>2. q.ninstr - (j-1) \in Nat
      BY <1>2, <1>5
    <3>3. Start(q, q.ninstr) \in Int
      BY <1>4, <1>5
    <3> QED
      BY <1>6, <3>1, <3>2, <3>3
  <2>4. /\ Start(q, q.ninstr) + b - 1 \in Start(q, j-1)..q.codelen-1
        /\ (Start(q, q.ninstr) + b - 1) + d = Start(r, n) + b - 1
    <3>1. FooterLen \in Int /\ q.codelen \in Int
      BY <1>2, HeaderType
    <3>2. Start(r, n) = Start(q, q.ninstr) + d /\ Start(r, n) \in Int
      BY <1>6, <1>15, <2>3
    <3> QED
      BY <1>6, <2>2, <2>3, <3>1, <3>2, FooterByte
  <2> QED
    BY <1>19, <2>1, <2>4
<1>24. Laid(r)
  <2>1. Start(r, n) <= r.codelen
    <3>1. r.codelen = Start(r, n) + FooterLen
      BY <1>7 DEF CodeLength, Start
    <3>2. Start(r, n) \in Int
      BY <1>4, <1>5, <1>6, <1>15
    <3> QED
      BY <3>1, <3>2, HeaderType
  <2> QED
    BY <1>5, <1>7, <1>12, <1>13, <1>14, <1>17, <1>20, <1>21, <1>22, <2>1 DEF Laid
<1>25. WellFormed(r)
  BY <1>7, <1>13, <1>21, <1>22, <1>23 DEF WellFormed
<1>26. r.codelen = q.codelen + cut - Start(q, j-1)
  BY <1>2, <1>6, <1>15
<1> QED
  BY <1>5, <1>7, <1>24, <1>25, <1>26, <1>27, <1>28 DEF Complete, r, cut, n

\* Instruction j of p is replaced by another of the same length.
LEMMA ReplaceComplete ==
  ASSUME NEW p, NEW r, Complete(p), NEW j \in 1..p.ninstr, NEW new \in Instructions,
         r.indices = p.indices, r.ninstr = p.ninstr, r.codelen = p.codelen,
         r.code \in [0..p.codelen-1 -> Byte],
         \A b \in 0..p.codelen-1 :
            ~(b \in Start(p, j-1)..Start(p, j)-1) => r.code[b] = p.code[b],
         IsInstruction(r, j, new)
  PROVE  /\ Complete(r)
         /\ \A k \in 1..p.ninstr \ {j}, ins \in Instructions :
               IsInstruction(p, k, ins) => IsInstruction(r, k, ins)
<1> DEFINE n == p.ninstr
<1>1. /\ Laid(p) /\ n \in Nat /\ p.codelen \in Nat
  BY DEF Complete, Laid
<1>2. \A k \in 0..n : /\ Start(p, k) \in Nat /\ Start(p, k) <= p.codelen
                      /\ HeaderLen <= Start(p, k) /\ p.indices[k] \in Int
  BY <1>1, StartType
<1>3. /\ r.ninstr \in Nat
      /\ r.indices \in [0..r.ninstr -> Int]
      /\ r.indices[0] = HeaderLen
      /\ Spaced(r)
      /\ \A k : Start(r, k) = Start(p, k)
  BY <1>1, SameBoundaries
<1>4. /\ j-1 \in 0..n /\ j \in 0..n /\ j \in Int
      /\ HeaderLen <= Start(p, j-1)
      /\ Start(p, j-1) \in Nat /\ Start(p, j) \in Nat
  BY <1>1, <1>2
<1>5. ASSUME NEW k \in 0..n, NEW m \in 0..n, k <= m
      PROVE  Start(p, k) <= Start(p, m)
  <2>1. Start(p, k) + 2 * (m - k) <= Start(p, m)
    BY <1>1, <1>5, SpacedBetween
  <2> QED
    BY <1>1, <1>2, <1>5, <2>1
<1>6. \A b \in 1..HeaderLen : r.code[b-1] = Header[b]
  <2> TAKE b \in 1..HeaderLen
  <2>1. b-1 \in 0..p.codelen-1 /\ ~(b-1 \in Start(p, j-1)..Start(p, j)-1)
    BY <1>1, <1>2, <1>4, HeaderType
  <2> QED
    BY <1>1, <2>1 DEF Laid
<1>12. ASSUME NEW k \in 1..n \ {j}, NEW ins \in Instructions, IsInstruction(p, k, ins)
       PROVE  IsInstruction(r, k, ins)
  <2>1. k \in 1..n /\ k \in 0..n /\ k-1 \in 0..n /\ k \in Int
    BY <1>1
  <2>3. /\ Start(p, k-1) \in Nat /\ Start(p, k) \in Nat
        /\ Start(p, k) <= p.codelen
    BY <1>2, <2>1
  <2>4. Start(p, k) <= Start(p, j-1) \/ Start(p, j) <= Start(p, k-1)
    <3>1. CASE k <= j-1
      BY <1>4, <1>5, <2>1, <3>1
    <3>2. CASE j <= k-1
      BY <1>4, <1>5, <2>1, <3>2
    <3> QED
      BY <1>4, <2>1, <3>1, <3>2
  <2>5. \A b \in Start(p, k-1)..Start(p, k)-1 : r.code[b + 0] = p.code[b]
    <3> TAKE b \in Start(p, k-1)..Start(p, k)-1
    <3>1. /\ b \in 0..p.codelen-1 /\ b + 0 = b
          /\ ~(b \in Start(p, j-1)..Start(p, j)-1)
      BY <1>1, <1>4, <2>3, <2>4
    <3> QED
      BY <3>1
  <2>6. /\ Start(r, k-1) = Start(p, k-1) + 0
        /\ Start(r, k) = Start(p, k) + 0
        /\ Start(p, k-1) \in Int /\ Start(p, k) \in Int
        /\ r.indices[k] = p.indices[k]
    BY <1>3, <2>3
  <2> QED
    BY <1>12, <2>1, <2>5, <2>6, InstructionMoved, 0 \in Int
<1>7. WholeInstructions(r)
  BY <1>1, <1>12 DEF Laid, WholeInstructions
<1>8. \A b \in 1..FooterLen : r.code[Start(r, n) + b - 1] = Footer[b]
  <2> TAKE b \in 1..FooterLen
  <2>1. /\ p.code[Start(p, n) + b - 1] = Footer[b]
        /\ p.codelen = Start(p, n) + FooterLen
    BY DEF Complete, WellFormed, CodeLength, Start
  <2>2. Start(p, j) <= Start(p, n) /\ Start(p, n) \in Nat
    BY <1>1, <1>2, <1>4, <1>5
  <2>3. /\ Start(p, n) + b - 1 \in 0..p.codelen-1
        /\ ~(Start(p, n) + b - 1 \in Start(p, j-1)..Start(p, j)-1)
    <3>1. Start(p, j-1) \in Nat /\ Start(p, j) \in Nat
      BY <1>4
    <3>2. p.codelen \in Int /\ FooterLen \in Int
      BY <1>1, HeaderType
    <3> QED
      BY <2>1, <2>2, <3>1, <3>2, FooterByteOutside
  <2> QED
    BY <1>3, <2>1, <2>3
<1>9. Laid(r)
  <2>1. Start(r, r.ninstr) <= r.codelen
    BY <1>1, <1>3 DEF Laid
  <2> QED
    BY <1>1, <1>3, <1>6, <1>7, <2>1 DEF Laid
<1>10. r.codelen = CodeLength(r.indices, r.ninstr)
  BY DEF Complete, WellFormed, CodeLength
<1>11. WellFormed(r)
  BY <1>3, <1>6, <1>7, <1>8, <1>10 DEF WellFormed
<1> QED
  BY <1>9, <1>11, <1>12 DEF Complete

\* The length of an instruction tells its kind.
LEMMA InstructionKinds ==
  ASSUME NEW ins \in Instructions
  PROVE  \/ ins.len = 2 /\ ins.bytes \in NoArg
         \/ /\ ins.len = -2
            /\ \E op \in RegArg, a \in 0..NRegisters-1 :
                  ins.bytes = <<op[1], op[2] + a>>
         \/ /\ ins.len = 6
            /\ \E op \in SixByte, a \in Addresses :
                  ins.bytes = op \o AddressBytes(a)
  BY DEF Instructions

\* In a 6-byte instruction, bytes 1-2 are the opcode, bytes 3-6 the address.
LEMMA LocatedBytes ==
  ASSUME NEW op \in SixByte, NEW a \in Addresses
  PROVE  /\ Len(op \o AddressBytes(a)) = 6
         /\ \A k \in 1..2 : (op \o AddressBytes(a))[k] = op[k]
         /\ \A k \in 3..6 : (op \o AddressBytes(a))[k] = AddressBytes(a)[k-2]
<1>1. op \in Seq(Byte) /\ Len(op) = 2
  BY CodeAssumption, OpcodeType
<1>2. AddressBytes(a) \in Seq(Byte) /\ Len(AddressBytes(a)) = 4
  BY AddressBytesType
<1>3. /\ Len(op \o AddressBytes(a)) = Len(op) + Len(AddressBytes(a))
      /\ \A k \in 1..Len(op) + Len(AddressBytes(a)) : (op \o AddressBytes(a))[k] =
            IF k <= Len(op) THEN op[k] ELSE AddressBytes(a)[k - Len(op)]
  BY <1>1, <1>2, ConcatProperties
<1>4. \A k \in 1..6 : (op \o AddressBytes(a))[k] =
            IF k <= 2 THEN op[k] ELSE AddressBytes(a)[k - 2]
  BY <1>1, <1>2, <1>3
<1> QED
  BY <1>1, <1>2, <1>3, <1>4

\* mutate replaces the register and keeps the opcode.
LEMMA RegisterReplaced ==
  ASSUME NEW op \in RegArg, NEW a \in 0..NRegisters-1, NEW b \in 0..NRegisters-1
  PROVE  WithRegister(op[2] + a, b) = op[2] + b
<1>1. PICK m \in 0..31 : op[2] = 8 * m
  <2>1. op[2] \in {8 * m : m \in 0..31}
    BY CodeAssumption, OpcodeType
  <2> QED
    BY <2>1
<1>2. a \in 0..7 /\ b \in 0..7
  BY SizeAssumption
<1>3. PICK h \in 0..15 : m = 2 * h \/ m = 2 * h + 1
  <2>1. m \div 2 \in 0..15
    OBVIOUS
  <2>2. m = 2 * (m \div 2) \/ m = 2 * (m \div 2) + 1
    OBVIOUS
  <2> QED
    BY <2>1, <2>2
<1>4. CASE m = 2 * h
  <2>1. op[2] + a = 16 * h + a
    BY <1>1, <1>4
  <2>2. (16 * h + a) % 16 = a
    BY <1>2
  <2> QED
    BY <1>1, <1>2, <1>4, <2>1, <2>2 DEF WithRegister
<1>5. CASE m = 2 * h + 1
  <2>1. op[2] + a = 16 * h + (8 + a)
    BY <1>1, <1>2, <1>5
  <2>2. (16 * h + (8 + a)) % 16 = 8 + a
    BY <1>2
  <2> QED
    BY <1>1, <1>2, <1>5, <2>1, <2>2 DEF WithRegister
<1> QED
  BY <1>3, <1>4, <1>5

\* Overwrite changes the given bytes and nothing else.
LEMMA OverwriteCode ==
  ASSUME NEW p, p.codelen \in Nat, p.code \in [0..p.codelen-1 -> Byte],
         NEW b \in Nat, NEW w \in Seq(Byte), b + Len(w) <= p.codelen
  PROVE  LET r == Overwrite(p, b, w)
         IN  /\ r.indices = p.indices /\ r.ninstr = p.ninstr
             /\ r.codelen = p.codelen
             /\ r.code \in [0..p.codelen-1 -> Byte]
             /\ \A c \in 0..p.codelen-1 :
                   ~(c \in b..b+Len(w)-1) => r.code[c] = p.code[c]
             /\ \A k \in 1..Len(w) : r.code[b + k - 1] = w[k]
<1> DEFINE r == Overwrite(p, b, w)
<1>1. /\ r.indices = p.indices /\ r.ninstr = p.ninstr
      /\ r.codelen = p.codelen
      /\ r.code = [c \in 0..p.codelen-1 |->
                     IF c \in b..b+Len(w)-1 THEN w[c - b + 1] ELSE p.code[c]]
  BY DEF Overwrite
<1> HIDE DEF r
<1>2. Len(w) \in Nat /\ \A k \in 1..Len(w) : w[k] \in Byte
  OBVIOUS
<1>3. \A c \in 0..p.codelen-1 : ~(c \in b..b+Len(w)-1) => r.code[c] = p.code[c]
  BY <1>1
<1>4. ASSUME NEW k \in 1..Len(w)
      PROVE  r.code[b + k - 1] = w[k]
  <2>1. /\ b + k - 1 \in 0..p.codelen-1 /\ b + k - 1 \in b..b+Len(w)-1
        /\ (b + k - 1) - b + 1 = k
    BY <1>2
  <2> QED
    BY <1>1, <2>1
<1>5. ASSUME NEW c \in 0..p.codelen-1
      PROVE  r.code[c] \in Byte
  <2>1. CASE c \in b..b+Len(w)-1
    <3>1. c - b + 1 \in 1..Len(w)
      BY <1>2, <2>1
    <3> QED
      BY <1>1, <1>2, <2>1, <3>1
  <2>2. CASE ~(c \in b..b+Len(w)-1)
    BY <1>3, <2>2
  <2> QED
    BY <2>1, <2>2
<1>6. r.code \in [0..p.codelen-1 -> Byte]
  BY <1>1, <1>5
<1> QED
  BY <1>1, <1>3, <1>4, <1>6 DEF r

\* Instructions has the instructions of every kind.
LEMMA InstructionsMember ==
  /\ \A op \in NoArg : [bytes |-> op, len |-> 2] \in Instructions
  /\ \A op \in RegArg, r \in 0..NRegisters-1 :
        [bytes |-> <<op[1], op[2] + r>>, len |-> -2] \in Instructions
  /\ \A op \in SixByte, a \in Addresses :
        [bytes |-> op \o AddressBytes(a), len |-> 6] \in Instructions
<1> DEFINE B(op, a) == op \o AddressBytes(a)
           I1 == {[bytes |-> op, len |-> 2] : op \in NoArg}
           I2 == {[bytes |-> <<op[1], op[2] + r>>, len |-> -2] :
                     op \in RegArg, r \in 0..NRegisters-1}
           I3 == {[bytes |-> B(op, a), len |-> 6] :
                     op \in SixByte, a \in Addresses}
<1>1. \A op \in NoArg : [bytes |-> op, len |-> 2] \in I1
  OBVIOUS
<1>2. \A op \in RegArg, r \in 0..NRegisters-1 :
         [bytes |-> <<op[1], op[2] + r>>, len |-> -2] \in I2
  OBVIOUS
<1>3. \A op \in SixByte, a \in Addresses :
         [bytes |-> B(op, a), len |-> 6] \in I3
  <2> HIDE DEF B
  <2> QED
    OBVIOUS
<1>4. Instructions = I1 \cup I2 \cup I3
  BY DEF Instructions
<1>5. \A op \in SixByte, a \in Addresses : B(op, a) = op \o AddressBytes(a)
  OBVIOUS
<1> HIDE DEF I1, I2, I3, B
<1> QED
  BY <1>1, <1>2, <1>3, <1>4, <1>5

\* r is p, but for instruction i, which is another of the same kind.
Mutated(p, i, r) ==
  /\ Complete(r) /\ r.ninstr = p.ninstr /\ r.codelen = p.codelen
  /\ \E old, new \in Instructions :
       new.len = old.len /\ IsInstruction(p, i+1, old) /\ IsInstruction(r, i+1, new)
  /\ \A k \in 1..p.ninstr \ {i+1}, ins \in Instructions :
       IsInstruction(p, k, ins) => IsInstruction(r, k, ins)

\* mutate: instruction i is 2 or 6 bytes long, and what mutate makes of p is a
\* complete program in which another instruction of its kind has taken its place.
LEMMA MutationComplete ==
  ASSUME NEW p, Complete(p), NEW i \in 0..p.ninstr-1
  PROVE  /\ Diff(p, i) \in {2, 6}
         /\ \A r \in Mutations(p, i) : Mutated(p, i, r)
<1> DEFINE s == Start(p, i)
<1>1. /\ Laid(p) /\ p.ninstr \in Nat /\ p.codelen \in Nat
      /\ p.code \in [0..p.codelen-1 -> Byte]
  BY DEF Complete, Laid
<1>2. i \in 0..p.ninstr /\ i+1 \in 1..p.ninstr /\ i+1 \in 0..p.ninstr
      /\ (i+1)-1 = i /\ i \in Int
  BY <1>1
<1>3. PICK old \in Instructions : IsInstruction(p, i+1, old)
  BY <1>1, <1>2 DEF Laid, WholeInstructions
<1>4. /\ s \in Nat /\ Start(p, i+1) \in Nat /\ Start(p, i+1) <= p.codelen
      /\ p.indices[i+1] \in Int /\ HeaderLen <= s
  BY <1>1, <1>2, StartType
<1>5. /\ Diff(p, i) = Abs(old.len)
      /\ Start(p, i+1) = s + Abs(old.len)
      /\ old.len \in {2, -2, 6} /\ Abs(old.len) = Len(old.bytes)
      /\ Abs(old.len) \in {2, 6}
      /\ (p.indices[i+1] < 0) <=> (old.len < 0)
      /\ \A k \in 1..Len(old.bytes) : p.code[s + k - 1] = old.bytes[k]
  <2>1. Diff(p, i) = Abs(old.len)
    BY <1>2, <1>3 DEF IsInstruction
  <2>2. old.len \in {2, -2, 6} /\ Abs(old.len) = Len(old.bytes)
    BY InstructionShape
  <2>3. Abs(old.len) \in {2, 6}
    <3>1. Abs(2) = 2 /\ Abs(-2) = 2 /\ Abs(6) = 6
      BY AbsValue
    <3> QED
      BY <2>2, <3>1
  <2>4. Start(p, i+1) = s + Abs(old.len)
    BY <1>4, <2>1, <2>3 DEF Diff
  <2> QED
    BY <1>2, <1>3, <2>1, <2>2, <2>3, <2>4 DEF IsInstruction
<1>6. p.indices[i+1] # 0
  <2> DEFINE a == Abs(old.len)
             t == Start(p, i+1)
  <2>0. t = s + a /\ a \in {2, 6} /\ s \in Nat
    BY <1>4, <1>5
  <2>1. t > 0
    <3> HIDE DEF a, t, s
    <3> QED
      BY <2>0
  <2> QED
    BY <2>1, <1>4, AbsValue DEF Start
<1> HIDE DEF s
\* What is to be shown of each mutation r with the bytes of instruction new.
<1>7. ASSUME NEW b \in Nat, NEW w \in Seq(Byte), NEW new \in Instructions,
             s <= b, b + Len(w) <= s + Abs(old.len),
             new.len = old.len,
             \A k \in 1..Len(new.bytes) :
                IF s + k - 1 \in b..b+Len(w)-1
                THEN w[(s + k - 1) - b + 1] = new.bytes[k]
                ELSE old.bytes[k] = new.bytes[k]
      PROVE  LET r == Overwrite(p, b, w)
             IN  Mutated(p, i, r)
  <2> DEFINE r == Overwrite(p, b, w)
  <2>0. Len(w) \in Nat /\ b + Len(w) <= p.codelen
    BY <1>1, <1>4, <1>5, <1>7
  <2>1. /\ r.indices = p.indices /\ r.ninstr = p.ninstr
        /\ r.codelen = p.codelen
        /\ r.code \in [0..p.codelen-1 -> Byte]
        /\ \A c \in 0..p.codelen-1 :
              ~(c \in b..b+Len(w)-1) => r.code[c] = p.code[c]
        /\ \A k \in 1..Len(w) : r.code[b + k - 1] = w[k]
    BY <1>1, <2>0, OverwriteCode
  <2> HIDE DEF r
  <2>2. \A c \in 0..p.codelen-1 :
           ~(c \in s..Start(p, i+1)-1) => r.code[c] = p.code[c]
    <3> SUFFICES ASSUME NEW c \in 0..p.codelen-1, ~(c \in s..Start(p, i+1)-1)
                 PROVE  r.code[c] = p.code[c]
      OBVIOUS
    <3>1. ~(c \in b..b+Len(w)-1)
      BY <1>1, <1>4, <1>5, <1>7, <2>0
    <3> QED
      BY <2>1, <3>1
  <2>3. Len(new.bytes) = Abs(old.len) /\ Abs(new.len) = Abs(old.len)
    BY <1>7, InstructionShape
  <2>4. ASSUME NEW k \in 1..Len(new.bytes)
        PROVE  r.code[s + k - 1] = new.bytes[k]
    <3>1. s + k - 1 \in 0..p.codelen-1 /\ k \in 1..Len(old.bytes)
      BY <1>1, <1>4, <1>5, <2>3
    <3>2. CASE s + k - 1 \in b..b+Len(w)-1
      <4> DEFINE c == s + k - 1
      <4>0. c \in Int /\ b <= c /\ c <= b + Len(w) - 1
        BY <1>4, <2>0, <3>1, <3>2
      <4>1. c - b + 1 \in 1..Len(w) /\ b + (c - b + 1) - 1 = c
        <5> HIDE DEF c
        <5> QED
          BY <2>0, <4>0
      <4> QED
        BY <1>7, <2>1, <3>2, <4>1
    <3>3. CASE ~(s + k - 1 \in b..b+Len(w)-1)
      BY <1>5, <1>7, <2>1, <3>1, <3>3
    <3> QED
      BY <3>2, <3>3
  <2>5. /\ Start(r, i) = s /\ Diff(r, i) = Diff(p, i)
    BY <2>1 DEF Diff, Start, s
  <2>6. IsInstruction(r, i+1, new)
    BY <1>2, <1>5, <1>7, <2>1, <2>3, <2>4, <2>5 DEF IsInstruction
  <2>7. /\ Complete(r)
        /\ \A k \in 1..p.ninstr \ {i+1}, ins \in Instructions :
             IsInstruction(p, k, ins) => IsInstruction(r, k, ins)
    BY <1>2, <2>1, <2>2, <2>6, ReplaceComplete DEF s
  <2>8. Mutated(p, i, r)
    BY <1>3, <1>7, <2>1, <2>6, <2>7 DEF Mutated
  <2> QED
    BY <2>8 DEF r
<1>8. CASE old.len = 2
  <2>0. Abs(old.len) = 2
    BY <1>8, AbsValue
  <2>1. Diff(p, i) = 2 /\ p.indices[i+1] > 0 /\ Abs(old.len) = 2
    <3>1. Diff(p, i) = 2
      BY <1>5, <2>0
    <3>2. ~(p.indices[i+1] < 0)
      BY <1>5, <1>8
    <3>3. p.indices[i+1] > 0
      BY <1>4, <1>6, <3>2
    <3> QED
      BY <2>0, <3>1, <3>3
  <2>2. Mutations(p, i) = {Overwrite(p, s, op) : op \in NoArg}
    BY <2>1 DEF Mutations, s
  <2>3. ASSUME NEW op \in NoArg
        PROVE  LET r == Overwrite(p, s, op)
               IN  Mutated(p, i, r)
    <3> DEFINE new == [bytes |-> op, len |-> 2]
    <3>1. new \in Instructions /\ new.bytes = op /\ new.len = old.len
      BY <1>8, InstructionsMember
    <3>2. op \in Seq(Byte) /\ Len(op) = 2
      BY CodeAssumption, OpcodeType
    <3> HIDE DEF new
    <3>3. ASSUME NEW k \in 1..Len(new.bytes)
          PROVE  s + k - 1 \in s..s+Len(op)-1 /\ op[(s + k - 1) - s + 1] = new.bytes[k]
      <4>1. k \in 1..2
        BY <3>1, <3>2
      <4>2. (s + k - 1) - s + 1 = k /\ s + k - 1 \in s..s+2-1
        BY <1>4, <4>1
      <4> QED
        BY <3>1, <3>2, <4>2
    <3>4. s <= s /\ s + Len(op) <= s + Abs(old.len)
      BY <1>4, <2>1, <3>2
    <3> QED
      BY <1>4, <1>7, <3>1, <3>2, <3>3, <3>4
  <2> QED
    BY <2>1, <2>2, <2>3
<1>9. CASE old.len = -2
  <2>0. Abs(old.len) = 2
    BY <1>9, AbsValue
  <2>1. Diff(p, i) = 2 /\ ~(p.indices[i+1] > 0) /\ Abs(old.len) = 2
    <3>1. Diff(p, i) = 2
      BY <1>5, <2>0
    <3>2. p.indices[i+1] < 0
      BY <1>5, <1>9
    <3>3. ~(p.indices[i+1] > 0)
      BY <1>4, <3>2
    <3> QED
      BY <2>0, <3>1, <3>3
  <2>2. Mutations(p, i) =
             {Overwrite(p, s, op) : op \in RegArg}
        \cup {Overwrite(p, s+1, <<WithRegister(p.code[s+1], b)>>) :
                 b \in 0..NRegisters-1}
    BY <2>1 DEF Mutations, s
  <2>3. PICK o \in RegArg, a \in 0..NRegisters-1 : old.bytes = <<o[1], o[2] + a>>
    BY <1>9, InstructionKinds
  <2>4. ASSUME NEW op \in RegArg
        PROVE  LET r == Overwrite(p, s, op)
               IN  Mutated(p, i, r)
    <3> DEFINE new == [bytes |-> <<op[1], op[2] + 0>>, len |-> -2]
    <3>1. new \in Instructions /\ new.len = old.len
      <4>1. 0 \in 0..NRegisters-1
        BY SizeAssumption
      <4> QED
        BY <1>9, <4>1, InstructionsMember
    <3>2. /\ op \in Seq(Byte \cup {8 * m : m \in 0..31}) /\ Len(op) = 2
          /\ op[1] \in Byte /\ op[2] \in {8 * m : m \in 0..31}
      BY CodeAssumption, OpcodeType
    <3>3. /\ op \in Seq(Byte)
          /\ \A k \in 1..2 : new.bytes[k] = op[k]
          /\ Len(new.bytes) = 2
      <4>1. PICK m \in 0..31 : op[2] = 8 * m
        BY <3>2
      <4>2. 8 * m \in Byte /\ 8 * m + 0 = 8 * m
        BY DEF Byte
      <4>3. new.bytes[1] = op[1] /\ new.bytes[2] = op[2] /\ Len(new.bytes) = 2
        BY <4>1, <4>2
      <4>4. \A k \in 1..2 : op[k] \in Byte
        BY <3>2, <4>1, <4>2
      <4>5. op \in Seq(Byte)
        <5>1. op = <<op[1], op[2]>>
          BY CodeAssumption
        <5>2. <<op[1], op[2]>> \in Seq(Byte)
          BY <4>4
        <5> QED
          BY <5>1, <5>2
      <4> QED
        BY <4>3, <4>5
    <3> HIDE DEF new
    <3>4. ASSUME NEW k \in 1..Len(new.bytes)
          PROVE  s + k - 1 \in s..s+Len(op)-1 /\ op[(s + k - 1) - s + 1] = new.bytes[k]
      <4>1. k \in 1..2
        BY <3>3
      <4>2. (s + k - 1) - s + 1 = k /\ s + k - 1 \in s..s+2-1
        BY <1>4, <4>1
      <4> QED
        BY <3>2, <3>3, <4>1, <4>2
    <3>5. s <= s /\ s + Len(op) <= s + Abs(old.len)
      BY <1>4, <2>1, <3>2
    <3> QED
      BY <1>4, <1>7, <3>1, <3>3, <3>4, <3>5
  <2>5. ASSUME NEW b \in 0..NRegisters-1
        PROVE  LET r == Overwrite(p, s+1, <<WithRegister(p.code[s+1], b)>>)
               IN  Mutated(p, i, r)
    <3> DEFINE new == [bytes |-> <<o[1], o[2] + b>>, len |-> -2]
               w == <<WithRegister(p.code[s+1], b)>>
    <3>1. new \in Instructions /\ new.len = old.len
      BY <1>9, InstructionsMember
    <3>2. Len(old.bytes) = 2 /\ old.bytes[1] = o[1] /\ old.bytes[2] = o[2] + a
      BY <2>3
    <3>3. p.code[s+1] = o[2] + a
      <4>1. s + 2 - 1 = s + 1 /\ 2 \in 1..2
        BY <1>4
      <4> QED
        BY <1>5, <3>2, <4>1
    <3>4. w[1] = o[2] + b /\ Len(w) = 1
      BY <3>3, RegisterReplaced
    <3>5. /\ Len(new.bytes) = 2
          /\ new.bytes[1] = old.bytes[1] /\ new.bytes[2] = w[1]
      BY <3>2, <3>4
    <3>6. w \in Seq(Byte)
      <4>1. new.bytes \in Seq(Byte)
        BY <3>1, InstructionShape
      <4>2. w[1] \in Byte
        BY <3>5, <4>1
      <4> QED
        BY <4>2
    <3> HIDE DEF new, w
    <3>7. ASSUME NEW k \in 1..Len(new.bytes)
          PROVE  IF s + k - 1 \in (s+1)..(s+1)+Len(w)-1
                 THEN w[(s + k - 1) - (s+1) + 1] = new.bytes[k]
                 ELSE old.bytes[k] = new.bytes[k]
      <4>1. CASE k = 1
        <5>1. ~(s + k - 1 \in (s+1)..(s+1)+Len(w)-1)
          BY <1>4, <3>4, <4>1
        <5> QED
          BY <3>5, <4>1, <5>1
      <4>2. CASE k = 2
        <5>1. (s + k - 1) - (s+1) + 1 = 1
          BY <1>4, <4>2
        <5>2. s + k - 1 \in (s+1)..(s+1)+Len(w)-1
          BY <1>4, <3>4, <4>2
        <5> QED
          BY <3>5, <4>2, <5>1, <5>2
      <4> QED
        BY <3>5, <4>1, <4>2
    <3>8. s <= s+1 /\ (s+1) + Len(w) <= s + Abs(old.len) /\ s+1 \in Nat
      BY <1>4, <2>1, <3>4
    <3>9. LET r == Overwrite(p, s+1, w)
          IN  Mutated(p, i, r)
      BY <1>7, <3>1, <3>6, <3>7, <3>8
    <3> QED
      BY <3>9 DEF w
  <2> QED
    BY <2>1, <2>2, <2>4, <2>5
<1>10. CASE old.len = 6
  <2>1. Diff(p, i) = 6 /\ Abs(old.len) = 6
    BY <1>5, <1>10, AbsValue
  <2>2. Mutations(p, i) =
             {Overwrite(p, s, op) : op \in SixByte}
        \cup {Overwrite(p, s+2, AddressBytes(a)) : a \in Addresses}
    BY <2>1 DEF Mutations, s
  <2>3. PICK o \in SixByte, a \in Addresses : old.bytes = o \o AddressBytes(a)
    BY <1>10, InstructionKinds
  <2>4. ASSUME NEW op \in SixByte
        PROVE  LET r == Overwrite(p, s, op)
               IN  Mutated(p, i, r)
    <3> DEFINE new == [bytes |-> op \o AddressBytes(a), len |-> 6]
    <3>1. /\ new \in Instructions /\ new.len = old.len
          /\ new.bytes = op \o AddressBytes(a)
      <4>1. new \in Instructions
        BY InstructionsMember
      <4> QED
        BY <1>10, <4>1
    <3>2. op \in Seq(Byte) /\ Len(op) = 2
      BY CodeAssumption, OpcodeType
    <3> HIDE DEF new
    <3>3. ASSUME NEW k \in 1..Len(new.bytes)
          PROVE  IF s + k - 1 \in s..s+Len(op)-1
                 THEN op[(s + k - 1) - s + 1] = new.bytes[k]
                 ELSE old.bytes[k] = new.bytes[k]
      <4>1. k \in 1..6
        BY <3>1, LocatedBytes
      <4>2. CASE k \in 1..2
        <5>1. (s + k - 1) - s + 1 = k /\ s + k - 1 \in s..s+2-1
          BY <1>4, <4>2
        <5> QED
          BY <3>1, <3>2, <4>2, <5>1, LocatedBytes
      <4>3. CASE k \in 3..6
        <5>1. ~(s + k - 1 \in s..s+2-1)
          BY <1>4, <4>3
        <5> QED
          BY <2>3, <3>1, <3>2, <4>3, <5>1, LocatedBytes
      <4> QED
        BY <4>1, <4>2, <4>3
    <3>4. s <= s /\ s + Len(op) <= s + Abs(old.len)
      BY <1>4, <2>1, <3>2
    <3> QED
      BY <1>4, <1>7, <3>1, <3>2, <3>3, <3>4
  <2>5. ASSUME NEW c \in Addresses
        PROVE  LET r == Overwrite(p, s+2, AddressBytes(c))
               IN  Mutated(p, i, r)
    <3> DEFINE new == [bytes |-> o \o AddressBytes(c), len |-> 6]
               w == AddressBytes(c)
    <3>1. /\ new \in Instructions /\ new.len = old.len
          /\ new.bytes = o \o AddressBytes(c)
      <4>1. new \in Instructions
        BY InstructionsMember
      <4> QED
        BY <1>10, <4>1
    <3>2. w \in Seq(Byte) /\ Len(w) = 4
      BY AddressBytesType
    <3> HIDE DEF new
    <3>3. ASSUME NEW k \in 1..Len(new.bytes)
          PROVE  IF s + k - 1 \in (s+2)..(s+2)+Len(w)-1
                 THEN w[(s + k - 1) - (s+2) + 1] = new.bytes[k]
                 ELSE old.bytes[k] = new.bytes[k]
      <4>1. k \in 1..6
        BY <3>1, LocatedBytes
      <4>2. CASE k \in 1..2
        <5>1. ~(s + k - 1 \in (s+2)..(s+2)+4-1)
          BY <1>4, <4>2
        <5> QED
          BY <2>3, <3>1, <3>2, <4>2, <5>1, LocatedBytes
      <4>3. CASE k \in 3..6
        <5>1. (s + k - 1) - (s+2) + 1 = k-2 /\ s + k - 1 \in (s+2)..(s+2)+4-1
          BY <1>4, <4>3
        <5>2. new.bytes[k] = AddressBytes(c)[k-2]
          BY <3>1, <4>3, LocatedBytes
        <5>3. w[k-2] = new.bytes[k]
          BY <5>2 DEF w
        <5> QED
          BY <3>2, <5>1, <5>3
      <4> QED
        BY <4>1, <4>2, <4>3
    <3>4. s <= s+2 /\ (s+2) + Len(w) <= s + Abs(old.len) /\ s+2 \in Nat
      BY <1>4, <2>1, <3>2
    <3> HIDE DEF w
    <3>5. LET r == Overwrite(p, s+2, w)
          IN  Mutated(p, i, r)
      BY <1>7, <3>1, <3>2, <3>3, <3>4
    <3> QED
      BY <3>5 DEF w
  <2> QED
    BY <2>1, <2>2, <2>4, <2>5
<1> QED
  BY <1>5, <1>8, <1>9, <1>10

-----------------------------------------------------------------------------
(***************************************************************************)
(* The points of a crossover, and what it conserves.                       *)
(***************************************************************************)

\* Both points lie within their programs, and both children are admissible.
LEMMA PointsInside ==
  ASSUME NEW p, NEW q, InBounds(p.ninstr), InBounds(q.ninstr),
         NEW pt \in CrossoverPoints(p, q)
  PROVE  /\ pt[1] \in 1..p.ninstr /\ pt[2] \in 1..q.ninstr
         /\ InBounds(pt[1] + q.ninstr - pt[2])
         /\ InBounds(pt[2] + p.ninstr - pt[1])
<1>1. \A n \in MinInstrs..MaxInstrs : Points(n) \subseteq 1..n
  BY SizeAssumption DEF Points, Larger
<1>2. p.ninstr \in MinInstrs..MaxInstrs /\ q.ninstr \in MinInstrs..MaxInstrs
  BY DEF InBounds
<1>3. CASE \E i \in Points(p.ninstr) \cap Points(q.ninstr) : pt = <<i, i>>
  <2>1. PICK i \in Points(p.ninstr) \cap Points(q.ninstr) : pt = <<i, i>>
    BY <1>3
  <2>2. i \in 1..p.ninstr /\ i \in 1..q.ninstr
    BY <1>1, <1>2
  <2>3. i + q.ninstr - i = q.ninstr /\ i + p.ninstr - i = p.ninstr
    BY <1>2, <2>2, SizeAssumption
  <2> QED
    BY <2>1, <2>2, <2>3
<1>4. CASE /\ pt \in Points(p.ninstr) \X Points(q.ninstr)
           /\ Admissible(p, pt[1], q, pt[2])
  BY <1>1, <1>2, <1>4 DEF Admissible
<1> QED
  BY <1>3, <1>4 DEF CrossoverPoints

\* The children between them have the instructions and the bytes of the
\* parents.
LEMMA CrossoverConserves ==
  ASSUME NEW p, NEW q, Complete(p), Complete(q),
         NEW i \in 1..p.ninstr, NEW j \in 1..q.ninstr
  PROVE  LET c == Splice(p, i, q, j)
             d == Splice(q, j, p, i)
         IN  /\ p.ninstr + q.ninstr = c.ninstr + d.ninstr
             /\ p.codelen + q.codelen = c.codelen + d.codelen
<1>1. /\ Laid(p) /\ p.ninstr \in Nat /\ p.codelen \in Nat
      /\ Laid(q) /\ q.ninstr \in Nat /\ q.codelen \in Nat
  BY DEF Complete, Laid
<1>2. i-1 \in 0..p.ninstr /\ j-1 \in 0..q.ninstr
  BY <1>1
<1>3. Start(p, i-1) \in Nat /\ Start(q, j-1) \in Nat
  BY <1>1, <1>2, StartType
<1> DEFINE c == Splice(p, i, q, j)
           d == Splice(q, j, p, i)
<1>4. /\ c.ninstr = i + q.ninstr - j
      /\ c.codelen = q.codelen + Start(p, i-1) - Start(q, j-1)
      /\ d.ninstr = j + p.ninstr - i
      /\ d.codelen = p.codelen + Start(q, j-1) - Start(p, i-1)
  BY SpliceComplete
<1> HIDE DEF c, d
<1>5. p.ninstr + q.ninstr = c.ninstr + d.ninstr
  BY <1>1, <1>4
<1>6. p.codelen + q.codelen = c.codelen + d.codelen
  BY <1>1, <1>3, <1>4
<1> QED
  BY <1>5, <1>6 DEF c, d

\* A program of n instructions ends at most 6n bytes after its header.
LEMMA EndBound ==
  ASSUME NEW p, Laid(p), p.ninstr \in 0..MaxInstrs
  PROVE  Start(p, p.ninstr) <= HeaderLen + 6 * MaxInstrs
<1>1. p.ninstr \in Nat /\ 0 \in 0..p.ninstr /\ p.ninstr \in 0..p.ninstr
  BY DEF Laid
<1>2. Start(p, 0) = HeaderLen
  BY HeaderType, AbsValue DEF Laid, Start
<1>3. Start(p, p.ninstr) <= Start(p, 0) + 6 * (p.ninstr - 0)
  BY <1>1, SpacedBetween
<1>4. Start(p, p.ninstr) \in Nat
  BY <1>1, StartType
<1> QED
  BY <1>1, <1>2, <1>3, <1>4, HeaderType, SizeAssumption

-----------------------------------------------------------------------------
(***************************************************************************)
(* The invariant holds initially, and every action preserves it.           *)
(***************************************************************************)

\* The initial state: no program is finished, the first has its header.
LEMMA InitInv == Init => IndInv
<1> SUFFICES ASSUME Init PROVE IndInv
  OBVIOUS
<1>1. /\ Popsize \in Nat \ {0} /\ MaxBreedings \in Nat
      /\ wanted \in Nat /\ wanted \in InitInstrs
  BY SizeAssumption DEF Init
<1>2. ControlInv
  BY <1>1 DEF Init, ControlInv
<1>3. 0 \in Slots /\ \A s \in Slots : pop[s] = EmptyProgram
  BY <1>1 DEF Init, Slots
<1>4. Finished = {}
  BY DEF Finished, Init
<1>5. /\ Growing(pop[filling]) /\ pop[filling].ninstr <= wanted
  BY <1>1, <1>3, EmptyGrowing DEF Init
<1>6. pop = [s \in Slots |-> pop[s]]
  BY DEF Init
<1> QED
  BY <1>2, <1>3, <1>4, <1>5, <1>6 DEF IndInv

\* init_programs appends an instruction to the program it fills.
LEMMA GenerateInv == IndInv /\ GenerateInstruction => IndInv'
<1> SUFFICES ASSUME IndInv, GenerateInstruction PROVE IndInv'
  OBVIOUS
<1>1. /\ pc = "generate" /\ filling \in Nat /\ filling < Popsize
      /\ filling \in Slots /\ Popsize \in Nat
      /\ wanted \in Nat /\ Growing(pop[filling])
  BY SizeAssumption DEF IndInv, ControlInv, GenerateInstruction, Slots
<1>2. PICK ins \in Instructions :
         pop' = [pop EXCEPT ![filling] = AppendInstruction(@, ins)]
  BY DEF GenerateInstruction
<1>3. pop' = [s \in Slots |-> IF s = filling
                              THEN AppendInstruction(pop[filling], ins)
                              ELSE pop[s]]
  BY <1>1, <1>2 DEF IndInv
<1>4. pop[filling].ninstr \in Nat /\ pop[filling].ninstr < wanted
  BY <1>1 DEF Growing, Laid, GenerateInstruction
<1>5. Growing(pop'[filling]) /\ pop'[filling].ninstr <= wanted
  <2>1. pop'[filling] = AppendInstruction(pop[filling], ins)
    BY <1>1, <1>3
  <2>2. /\ Growing(pop'[filling])
        /\ pop'[filling].ninstr = pop[filling].ninstr + 1
    BY <1>1, <2>1, AppendGrowing
  <2> QED
    BY <1>1, <1>4, <2>2
<1>6. \A s \in Slots : s # filling => pop'[s] = pop[s]
  BY <1>3
<1>7. ControlInv'
  BY DEF IndInv, ControlInv, GenerateInstruction
<1>8. Finished' = Finished /\ \A s \in Finished : s \in Slots /\ s # filling
  BY <1>1 DEF GenerateInstruction, Finished, Slots
<1>9. pop' = [s \in Slots |-> pop'[s]]
  BY <1>3
<1>10. \A s \in Finished' : Complete(pop'[s]) /\ InBounds(pop'[s].ninstr)
  BY <1>6, <1>8 DEF IndInv
<1>11. \A s \in Slots : s > filling => pop'[s] = EmptyProgram
  BY <1>1, <1>6 DEF IndInv, Slots
<1>12. UNCHANGED <<filling, wanted, pc>>
  BY DEF GenerateInstruction
<1> QED
  BY <1>5, <1>7, <1>9, <1>10, <1>11, <1>12 DEF IndInv

\* init_programs completes a program and goes on to the next.
LEMMA FinishInv == IndInv /\ FinishProgram => IndInv'
<1> SUFFICES ASSUME IndInv, FinishProgram PROVE IndInv'
  OBVIOUS
<1>1. /\ pc = "generate" /\ filling \in Nat /\ filling < Popsize
      /\ filling \in Slots /\ Popsize \in Nat
      /\ wanted \in InitInstrs /\ Growing(pop[filling])
      /\ pop[filling].ninstr = wanted
  BY SizeAssumption DEF IndInv, ControlInv, FinishProgram, Slots
<1>2. pop' = [s \in Slots |-> IF s = filling THEN Extend(pop[filling], Footer)
                              ELSE pop[s]]
  BY <1>1 DEF IndInv, FinishProgram
<1>3. \A s \in Slots : s # filling => pop'[s] = pop[s]
  BY <1>2
<1>4. Complete(pop'[filling]) /\ InBounds(pop'[filling].ninstr)
  <2>1. pop'[filling] = Extend(pop[filling], Footer)
    BY <1>1, <1>2
  <2>2. Complete(pop'[filling]) /\ pop'[filling].ninstr = pop[filling].ninstr
    BY <1>1, <2>1, FooterComplete
  <2> QED
    BY <1>1, <2>2, SizeAssumption DEF InBounds
<1>5. /\ filling' = filling + 1 /\ wanted' \in InitInstrs
      /\ pc' = IF filling' = Popsize THEN "breed" ELSE "generate"
      /\ children' = children /\ breedings' = breedings
  BY DEF FinishProgram
<1>6. ControlInv'
  BY <1>1, <1>5 DEF IndInv, ControlInv
<1>7. \A s \in Finished' : s \in Slots /\ (s = filling \/ s \in Finished)
  BY <1>1, <1>5 DEF Finished, Slots
<1>8. pop' = [s \in Slots |-> pop'[s]]
  BY <1>2
<1>9. \A s \in Finished' : Complete(pop'[s]) /\ InBounds(pop'[s].ninstr)
  BY <1>3, <1>4, <1>7 DEF IndInv
<1>10. ASSUME pc' = "generate"
       PROVE  /\ Growing(pop'[filling']) /\ pop'[filling'].ninstr <= wanted'
              /\ \A s \in Slots : s > filling' => pop'[s] = EmptyProgram
  <2>1. filling' \in Slots /\ filling' > filling /\ filling' # filling
    BY <1>1, <1>5, <1>10 DEF Slots
  <2>2. \A s \in Slots : s > filling => pop'[s] = EmptyProgram
    BY <1>1, <1>3 DEF IndInv, Slots
  <2>3. pop'[filling'] = EmptyProgram
    BY <2>1, <2>2
  <2>4. wanted' \in Nat
    BY <1>5, SizeAssumption
  <2>5. \A s \in Slots : s > filling' => s > filling
    BY <1>1, <1>5 DEF Slots
  <2> QED
    BY <2>2, <2>3, <2>4, <2>5, EmptyGrowing
<1> QED
  BY <1>6, <1>8, <1>9, <1>10 DEF IndInv

\* init_programs gives up a program and starts it again.
LEMMA RejectInv == IndInv /\ RejectProgram => IndInv'
<1> SUFFICES ASSUME IndInv, RejectProgram PROVE IndInv'
  OBVIOUS
<1>1. /\ pc = "generate" /\ filling \in Nat /\ filling < Popsize
      /\ filling \in Slots /\ Popsize \in Nat
  BY SizeAssumption DEF IndInv, ControlInv, RejectProgram, Slots
<1>2. pop' = [s \in Slots |-> IF s = filling THEN EmptyProgram ELSE pop[s]]
  BY <1>1 DEF IndInv, RejectProgram
<1>3. wanted' \in InitInstrs /\ wanted' \in Nat
  BY SizeAssumption DEF RejectProgram
<1>4. Growing(pop'[filling]) /\ pop'[filling].ninstr <= wanted'
  <2>1. pop'[filling] = EmptyProgram
    BY <1>1, <1>2
  <2> QED
    BY <1>3, <2>1, EmptyGrowing
<1>5. \A s \in Slots : s # filling => pop'[s] = pop[s]
  BY <1>2
<1>6. ControlInv'
  BY <1>3 DEF IndInv, ControlInv, RejectProgram
<1>7. Finished' = Finished /\ \A s \in Finished : s \in Slots /\ s # filling
  BY <1>1 DEF RejectProgram, Finished, Slots
<1>8. pop' = [s \in Slots |-> pop'[s]]
  BY <1>2
<1>9. \A s \in Finished' : Complete(pop'[s]) /\ InBounds(pop'[s].ninstr)
  BY <1>5, <1>7 DEF IndInv
<1>10. \A s \in Slots : s > filling => pop'[s] = EmptyProgram
  BY <1>1, <1>5 DEF IndInv, Slots
<1>11. UNCHANGED <<filling, pc>>
  BY DEF RejectProgram
<1> QED
  BY <1>4, <1>6, <1>8, <1>9, <1>10, <1>11 DEF IndInv

\* What one crossover does to the array.
LEMMA CrossoverStep ==
  ASSUME IndInv, Crossover
  PROVE  \E p1, p2, c1, c2 \in Slots :
            /\ Distinct(p1, p2, c1, c2) /\ children' = <<c1, c2>>
            /\ pop' = [s \in Slots |-> pop'[s]]
            /\ \A s \in Slots \ {c1, c2} : pop'[s] = pop[s]
            /\ Complete(pop'[c1]) /\ InBounds(pop'[c1].ninstr)
            /\ Complete(pop'[c2]) /\ InBounds(pop'[c2].ninstr)
            /\ pop[p1].ninstr + pop[p2].ninstr = pop'[c1].ninstr + pop'[c2].ninstr
            /\ pop[p1].codelen + pop[p2].codelen =
                  pop'[c1].codelen + pop'[c2].codelen
            /\ \E i \in 1..pop[p1].ninstr, j \in 1..pop[p2].ninstr :
                  /\ pop'[c1] = Splice(pop[p1], i, pop[p2], j)
                  /\ pop'[c2] = Splice(pop[p2], j, pop[p1], i)
<1>1. PICK p1, p2, c1, c2 \in Slots :
        /\ Distinct(p1, p2, c1, c2) /\ children' = <<c1, c2>>
        /\ \E pt \in CrossoverPoints(pop[p1], pop[p2]) :
              pop' = [pop EXCEPT
                        ![c1] = Splice(pop[p1], pt[1], pop[p2], pt[2]),
                        ![c2] = Splice(pop[p2], pt[2], pop[p1], pt[1])]
  BY DEF Crossover
<1> DEFINE p == pop[p1]
           q == pop[p2]
<1>2. PICK pt \in CrossoverPoints(p, q) :
              pop' = [pop EXCEPT ![c1] = Splice(p, pt[1], q, pt[2]),
                                 ![c2] = Splice(q, pt[2], p, pt[1])]
  BY <1>1
<1>3. /\ Complete(p) /\ InBounds(p.ninstr) /\ Complete(q) /\ InBounds(q.ninstr)
  BY DEF IndInv, Crossover, Finished
<1>4. c1 # c2
  BY <1>1 DEF Distinct
<1> DEFINE r1 == Splice(p, pt[1], q, pt[2])
           r2 == Splice(q, pt[2], p, pt[1])
<1>5. pop' = [s \in Slots |-> IF s = c2 THEN r2 ELSE IF s = c1 THEN r1 ELSE pop[s]]
  <2> HIDE DEF r1, r2
  <2>1. pop' = [pop EXCEPT ![c1] = r1, ![c2] = r2]
    BY <1>2 DEF r1, r2
  <2> QED
    BY <2>1 DEF IndInv
<1>6. pop'[c1] = r1 /\ pop'[c2] = r2 /\ pop' = [s \in Slots |-> pop'[s]]
      /\ \A s \in Slots \ {c1, c2} : pop'[s] = pop[s]
  <2> HIDE DEF r1, r2
  <2> QED
    BY <1>4, <1>5
<1>7. /\ pt[1] \in 1..p.ninstr /\ pt[2] \in 1..q.ninstr
      /\ InBounds(pt[1] + q.ninstr - pt[2])
      /\ InBounds(pt[2] + p.ninstr - pt[1])
  <2> HIDE DEF p, q
  <2> QED
    BY <1>3, PointsInside
<1>8. Complete(r1) /\ InBounds(r1.ninstr) /\ Complete(r2) /\ InBounds(r2.ninstr)
  <2> HIDE DEF p, q
  <2>1. Complete(r1) /\ r1.ninstr = pt[1] + q.ninstr - pt[2]
    BY <1>3, <1>7, SpliceComplete
  <2>2. Complete(r2) /\ r2.ninstr = pt[2] + p.ninstr - pt[1]
    BY <1>3, <1>7, SpliceComplete
  <2> HIDE DEF r1, r2
  <2> QED
    BY <1>7, <2>1, <2>2
<1>9. /\ p.ninstr + q.ninstr = r1.ninstr + r2.ninstr
      /\ p.codelen + q.codelen = r1.codelen + r2.codelen
  <2> HIDE DEF p, q
  <2> QED
    BY <1>3, <1>7, CrossoverConserves
<1>10. /\ Distinct(p1, p2, c1, c2) /\ children' = <<c1, c2>>
       /\ pop' = [s \in Slots |-> pop'[s]]
       /\ \A s \in Slots \ {c1, c2} : pop'[s] = pop[s]
       /\ Complete(pop'[c1]) /\ InBounds(pop'[c1].ninstr)
       /\ Complete(pop'[c2]) /\ InBounds(pop'[c2].ninstr)
       /\ p.ninstr + q.ninstr = pop'[c1].ninstr + pop'[c2].ninstr
       /\ p.codelen + q.codelen = pop'[c1].codelen + pop'[c2].codelen
       /\ \E i \in 1..p.ninstr, j \in 1..q.ninstr :
             pop'[c1] = Splice(p, i, q, j) /\ pop'[c2] = Splice(q, j, p, i)
  <2>1. \E i \in 1..p.ninstr, j \in 1..q.ninstr :
          pop'[c1] = Splice(p, i, q, j) /\ pop'[c2] = Splice(q, j, p, i)
    <3> HIDE DEF p, q
    <3> QED
      BY <1>6, <1>7
  <2> HIDE DEF r1, r2, p, q
  <2> QED
    BY <1>1, <1>6, <1>8, <1>9, <2>1
<1> QED
  <2> WITNESS p1 \in Slots, p2 \in Slots, c1 \in Slots, c2 \in Slots
  <2> QED
    BY <1>10

\* crossover overwrites two complete programs by two complete programs.
LEMMA CrossoverInv == IndInv /\ Crossover => IndInv'
<1> SUFFICES ASSUME IndInv, Crossover PROVE IndInv'
  OBVIOUS
<1>1. PICK p1, p2, c1, c2 \in Slots :
            /\ children' = <<c1, c2>>
            /\ pop' = [s \in Slots |-> pop'[s]]
            /\ \A s \in Slots \ {c1, c2} : pop'[s] = pop[s]
            /\ Complete(pop'[c1]) /\ InBounds(pop'[c1].ninstr)
            /\ Complete(pop'[c2]) /\ InBounds(pop'[c2].ninstr)
  BY CrossoverStep
<1>2. Finished = Slots /\ Finished' = Slots /\ pc' = "mutate"
  BY DEF Crossover, Finished
<1>3. \A s \in Slots : Complete(pop'[s]) /\ InBounds(pop'[s].ninstr)
  BY <1>1, <1>2 DEF IndInv
<1>4. children' \in Seq(Slots) /\ Len(children') = 2
  BY <1>1
<1>5. breedings' \in 0..MaxBreedings
  BY SizeAssumption DEF IndInv, ControlInv, Crossover
<1>6. ControlInv'
  BY <1>2, <1>4, <1>5 DEF IndInv, ControlInv, Crossover
<1> QED
  BY <1>1, <1>2, <1>3, <1>6 DEF IndInv

\* mutate replaces a complete program by a complete program.
LEMMA MutateInv == IndInv /\ Mutate => IndInv'
<1> SUFFICES ASSUME IndInv, Mutate PROVE IndInv'
  OBVIOUS
<1> DEFINE c == children[1]
<1>1. /\ pc = "mutate" /\ Len(children) \in 1..2 /\ children \in Seq(Slots)
      /\ c \in Slots /\ Finished = Slots
  <2>1. pc = "mutate" /\ Finished = Slots
    BY DEF Mutate, Finished
  <2>2. children \in Seq(Slots) /\ Len(children) <= 2 /\ Len(children) > 0
    BY <2>1 DEF IndInv, ControlInv
  <2>3. Len(children) \in 1..2
    <3>1. Len(children) \in Nat
      BY <2>2
    <3>2. \A n \in Nat : n <= 2 /\ n > 0 => n \in 1..2
      OBVIOUS
    <3> QED
      BY <2>2, <3>1, <3>2
  <2>4. children[1] \in Slots
    BY <2>2, <2>3
  <2> QED
    BY <2>1, <2>2, <2>3, <2>4
<1>2. Complete(pop[c]) /\ InBounds(pop[c].ninstr)
  BY <1>1 DEF IndInv
<1> HIDE DEF c
<1>3. ASSUME MutateReturns, pop' = [s \in Slots |-> pop'[s]],
             \A s \in Slots : Complete(pop'[s]) /\ InBounds(pop'[s].ninstr)
      PROVE  IndInv'
  <2>1. /\ Tail(children) \in Seq(Slots)
        /\ Len(Tail(children)) = Len(children) - 1
    BY <1>1
  <2>2. /\ children' \in Seq(Slots) /\ Len(children') \in 0..1
        /\ pc' \in {"breed", "mutate"}
        /\ pc' = "mutate" => Len(children') > 0
    BY <1>1, <1>3, <2>1 DEF MutateReturns
  <2>3. ControlInv'
    BY <1>1, <2>2 DEF IndInv, ControlInv, Mutate
  <2>4. Finished' = Slots /\ pc' # "generate"
    BY <2>2 DEF Finished
  <2> QED
    BY <1>3, <2>3, <2>4 DEF IndInv
<1>4. CASE UNCHANGED pop /\ MutateReturns
  BY <1>1, <1>3, <1>4 DEF IndInv
<1>5. ASSUME NEW i \in 0..pop[c].ninstr-1,
             IF Diff(pop[c], i) \in {2, 6}
             THEN /\ \E p \in Mutations(pop[c], i) : pop' = [pop EXCEPT ![c] = p]
                  /\ MutateReturns
             ELSE /\ pc' = "boom"
                  /\ UNCHANGED <<pop, children>>
      PROVE  IndInv'
  <2>1. Diff(pop[c], i) \in {2, 6}
    BY <1>2, MutationComplete
  <2>2. MutateReturns /\ \E p \in Mutations(pop[c], i) : pop' = [pop EXCEPT ![c] = p]
    BY <1>5, <2>1
  <2>3. PICK p \in Mutations(pop[c], i) : pop' = [pop EXCEPT ![c] = p]
    BY <2>2
  <2>4. Complete(p) /\ p.ninstr = pop[c].ninstr
    BY <1>2, MutationComplete DEF Mutated
  <2>5. pop' = [s \in Slots |-> IF s = c THEN p ELSE pop[s]]
    BY <1>1, <2>3 DEF IndInv
  <2>6. \A s \in Slots : Complete(pop'[s]) /\ InBounds(pop'[s].ninstr)
    BY <1>1, <1>2, <2>4, <2>5 DEF IndInv
  <2>7. pop' = [s \in Slots |-> pop'[s]]
    BY <2>5
  <2> QED
    BY <1>3, <2>2, <2>6, <2>7
<1> QED
  BY <1>4, <1>5 DEF Mutate, c

\* Every step preserves the invariant.
LEMMA NextInv == IndInv /\ [Next]_vars => IndInv'
<1>1. IndInv /\ UNCHANGED vars => IndInv'
  BY DEF vars, IndInv, ControlInv, Finished
<1>2. CrossoverFails => UNCHANGED vars
  BY DEF CrossoverFails
<1> QED
  BY <1>1, <1>2, GenerateInv, FinishInv, RejectInv, CrossoverInv, MutateInv DEF Next

-----------------------------------------------------------------------------
(***************************************************************************)
(* The theorems.                                                           *)
(***************************************************************************)

\* The inductive invariant holds in every reachable state.
THEOREM Invariance == Spec => []IndInv
BY InitInv, NextInv, PTL DEF Spec

\* Programs have their types and fit the arrays of struct pop, for any
\* instruction set and any population (lgp.h:89-98).
THEOREM TypeCorrect == Spec => []TypeOK
<1>1. IndInv => TypeOK
  <2> SUFFICES ASSUME IndInv PROVE TypeOK
    OBVIOUS
  <2>1. ASSUME NEW s \in Slots
        PROVE  /\ pop[s].ninstr \in 0..MaxInstrs
               /\ Laid(pop[s])
               /\ pop[s].codelen <= Start(pop[s], pop[s].ninstr) + FooterLen
    <3>1. CASE s \in Finished
      <4>1. Complete(pop[s]) /\ InBounds(pop[s].ninstr)
        BY <3>1 DEF IndInv
      <4>2. pop[s].codelen \in Nat
        BY <4>1 DEF Complete, Laid
      <4>3. pop[s].codelen = Start(pop[s], pop[s].ninstr) + FooterLen
        BY <4>1 DEF Complete, WellFormed, CodeLength, Start
      <4> QED
        BY <4>1, <4>2, <4>3, SizeAssumption DEF Complete, InBounds
    <3>2. CASE pc = "generate" /\ ~(s \in Finished)
      <4>1. Growing(pop[s]) /\ pop[s].ninstr \in 0..MaxInstrs
        <5>1. s = filling \/ s > filling
          <6>1. Popsize \in Nat
            BY SizeAssumption
          <6>2. s \in Nat /\ filling \in Int
            <7>1. filling \in 0..Popsize
              BY DEF IndInv, ControlInv
            <7>2. s \in 0..Popsize-1
              BY DEF Slots
            <7> QED
              BY <6>1, <7>1, <7>2
          <6>3. ~(s \in 0..filling-1)
            BY <3>2 DEF Finished
          <6> QED
            BY <6>2, <6>3
        <5>2. wanted \in 0..MaxInstrs
          BY SizeAssumption DEF IndInv, ControlInv
        <5>3. CASE s = filling
          <6>1. pop[s].ninstr \in Nat /\ pop[s].ninstr <= wanted /\ Growing(pop[s])
            BY <3>2, <5>3 DEF IndInv, Growing, Laid
          <6> QED
            BY <5>2, <6>1, SizeAssumption
        <5>4. CASE s > filling
          BY <3>2, <5>4, EmptyGrowing, SizeAssumption DEF IndInv
        <5> QED
          BY <5>1, <5>3, <5>4
      <4>2. /\ 0 <= FooterLen /\ FooterLen \in Nat
            /\ pop[s].codelen \in Nat
            /\ pop[s].codelen = Start(pop[s], pop[s].ninstr)
        BY <4>1, HeaderType DEF Growing, Laid
      <4> QED
        BY <4>1, <4>2 DEF Growing
    <3> QED
      BY <3>1, <3>2 DEF Finished
  <2>2. ASSUME NEW s \in Slots
        PROVE  /\ pop[s].ninstr \in 0..MaxInstrs
               /\ pop[s].indices \in [0..pop[s].ninstr -> Int]
               /\ pop[s].codelen \in 0..MaxCodeLen
               /\ pop[s].code \in [0..pop[s].codelen-1 -> Byte]
    <3>1. /\ pop[s].ninstr \in 0..MaxInstrs
          /\ pop[s].codelen <= Start(pop[s], pop[s].ninstr) + FooterLen
          /\ Start(pop[s], pop[s].ninstr) <= HeaderLen + 6 * MaxInstrs
      BY <2>1, EndBound
    <3>2. /\ pop[s].ninstr \in Nat /\ pop[s].codelen \in Nat
          /\ pop[s].indices \in [0..pop[s].ninstr -> Int]
          /\ pop[s].code \in [0..pop[s].codelen-1 -> Byte]
      BY <2>1 DEF Laid
    <3>3. Start(pop[s], pop[s].ninstr) \in Nat
      BY <2>1, <3>2, StartType
    <3>4. pop[s].codelen \in 0..MaxCodeLen
      BY <3>1, <3>2, <3>3, HeaderType, SizeAssumption DEF MaxCodeLen
    <3> QED
      BY <3>1, <3>2, <3>4
  <2> QED
    BY <2>2 DEF TypeOK, IndInv, ControlInv
<1> QED
  BY <1>1, Invariance, PTL

\* Only whole instructions of the instruction set are ever executed: no
\* crossover or mutation tears one apart (lgp.c:683-900).
THEOREM AlwaysExecutable == Spec => []Executable
<1>1. IndInv => Executable
  BY DEF IndInv, Executable, Complete
<1> QED
  BY <1>1, Invariance, PTL

\* Every finished program has between MININSTRS and MAXINSTRS instructions
\* (the asserts of lgp.c:1252-1255 and 1271-1274 cannot fail).
THEOREM AlwaysAdmitted == Spec => []Admitted
<1>1. IndInv => Admitted
  BY DEF IndInv, Admitted
<1> QED
  BY <1>1, Invariance, PTL

\* mutate never exits on an instruction of impossible length
\* (lgp.c:896-899).
THEOREM NeverBoom == Spec => []NoBoom
<1>1. IndInv => NoBoom
  BY DEF IndInv, ControlInv, NoBoom
<1> QED
  BY <1>1, Invariance, PTL

\* Crossover conserves instructions and bytes: the asserts of lgp.c:802-804
\* cannot fail.
THEOREM CrossoverConservation == Spec => Conservation
<1>1. ASSUME IndInv, [Next]_vars
      PROVE  [pc = "breed" /\ pc' = "mutate"
                 => Conserves(children'[1], children'[2])]_vars
  <2> SUFFICES ASSUME pc = "breed", pc' = "mutate"
               PROVE  Conserves(children'[1], children'[2])
    OBVIOUS
  <2>1. Crossover
    BY <1>1 DEF Next, vars, GenerateInstruction, FinishProgram,
                RejectProgram, CrossoverFails, Mutate
  <2>2. PICK p1, p2, c1, c2 \in Slots :
            /\ Distinct(p1, p2, c1, c2) /\ children' = <<c1, c2>>
            /\ \A s \in Slots \ {c1, c2} : pop'[s] = pop[s]
            /\ pop[p1].ninstr + pop[p2].ninstr = pop'[c1].ninstr + pop'[c2].ninstr
            /\ pop[p1].codelen + pop[p2].codelen =
                  pop'[c1].codelen + pop'[c2].codelen
    BY <1>1, <2>1, CrossoverStep
  <2>3. p1 \notin {c1, c2} /\ p2 \notin {c1, c2}
    BY <2>2 DEF Distinct
  <2>4. children'[1] = c1 /\ children'[2] = c2
    BY <2>2
  <2> QED
    BY <2>2, <2>3, <2>4 DEF Conserves
<1> QED
  BY <1>1, Invariance, PTL DEF Spec, Conservation

-----------------------------------------------------------------------------
(***************************************************************************)
(* Genome implements Programs: what the bytes spell changes as Programs     *)
(* says.                                                                   *)
(***************************************************************************)

\* A function on 1..n is a sequence of length n.
LEMMA FunctionSeq ==
  ASSUME NEW S, NEW n \in Nat, NEW f, f = [k \in 1..n |-> f[k]],
         \A k \in 1..n : f[k] \in S
  PROVE  f \in Seq(S) /\ Len(f) = n
<1>1. f \in [1..n -> S]
  OBVIOUS
<1>2. f \in Seq(S)
  BY <1>1
<1>3. DOMAIN f = 1..n
  BY <1>1
<1> QED
  BY <1>2, <1>3, LenProperties

\* Only one instruction is spelt between two boundaries.
LEMMA InstructionRead ==
  ASSUME NEW p, Laid(p), NEW j \in 1..p.ninstr, NEW ins \in Instructions,
         IsInstruction(p, j, ins)
  PROVE  Decoded(p)[j] = ins
<1>0. PICK n : n = Diff(p, j-1)
  OBVIOUS
<1> DEFINE bytes == [k \in 1..n |-> p.code[Start(p, j-1) + k - 1]]
           len == IF p.indices[j] < 0 THEN -n ELSE n
<1>1. /\ ins.len \in {2, -2, 6} /\ ins.bytes \in Seq(Byte)
      /\ Len(ins.bytes) = Abs(ins.len)
  BY InstructionShape
<1>2. /\ n = Abs(ins.len)
      /\ (p.indices[j] < 0) <=> (ins.len < 0)
      /\ \A k \in 1..Len(ins.bytes) : p.code[Start(p, j-1) + k - 1] = ins.bytes[k]
  BY <1>0 DEF IsInstruction
<1>3. Decoded(p)[j] = [bytes |-> bytes, len |-> len]
  BY <1>0 DEF Decoded
<1>a. Abs(2) = 2 /\ Abs(-2) = 2 /\ Abs(6) = 6
  BY AbsValue
<1>4. len = ins.len
  <2>1. CASE ins.len = -2
    BY <1>2, <1>a, <2>1
  <2>2. CASE ins.len = 2
    <3>1. ~(p.indices[j] < 0) /\ n = 2
      BY <1>2, <1>a, <2>2
    <3> QED
      BY <2>2, <3>1
  <2>3. CASE ins.len = 6
    <3>1. ~(p.indices[j] < 0) /\ n = 6
      BY <1>2, <1>a, <2>3
    <3> QED
      BY <2>3, <3>1
  <2> QED
    BY <1>1, <2>1, <2>2, <2>3
<1>5. bytes = ins.bytes
  <2>1. n \in Nat /\ Len(ins.bytes) = n
    <3>1. Abs(ins.len) \in Nat
      BY <1>1, <1>a
    <3>2. n = Abs(ins.len)
      BY <1>2
    <3> QED
      BY <1>1, <3>1, <3>2
  <2>2. \A k \in 1..n : bytes[k] = ins.bytes[k] /\ ins.bytes[k] \in Byte
    BY <1>1, <1>2, <2>1
  <2>3. bytes = [k \in 1..n |-> bytes[k]]
    OBVIOUS
  <2> HIDE DEF bytes
  <2>4. bytes \in Seq(Byte) /\ Len(bytes) = n
    BY <2>1, <2>2, <2>3, FunctionSeq
  <2> QED
    BY <1>1, <2>1, <2>2, <2>4, SeqEqual
<1>6. ins = [bytes |-> ins.bytes, len |-> ins.len]
  BY DEF Instructions
<1> QED
  BY <1>3, <1>4, <1>5, <1>6

\* A program spells as many instructions as it has.
LEMMA DecodedType ==
  ASSUME NEW p, Laid(p)
  PROVE  /\ Decoded(p) \in Seq(Instructions) /\ Len(Decoded(p)) = p.ninstr
         /\ \A j \in 1..p.ninstr : IsInstruction(p, j, Decoded(p)[j])
<1>1. p.ninstr \in Nat
  BY DEF Laid
<1>2. ASSUME NEW j \in 1..p.ninstr
      PROVE  Decoded(p)[j] \in Instructions /\ IsInstruction(p, j, Decoded(p)[j])
  <2>1. PICK ins \in Instructions : IsInstruction(p, j, ins)
    BY DEF Laid, WholeInstructions
  <2> QED
    BY <2>1, InstructionRead
<1>3. \A j \in 1..p.ninstr : Decoded(p)[j] \in Instructions
  BY <1>2
<1>4. Decoded(p) = [j \in 1..p.ninstr |-> Decoded(p)[j]]
  BY DEF Decoded
<1>5. Decoded(p) \in Seq(Instructions) /\ Len(Decoded(p)) = p.ninstr
  BY <1>1, <1>3, <1>4, FunctionSeq
<1> QED
  BY <1>2, <1>5

\* What a program spells is told instruction by instruction.
LEMMA Spells ==
  ASSUME NEW p, Laid(p), NEW t \in Seq(Instructions), Len(t) = p.ninstr,
         \A j \in 1..p.ninstr : IsInstruction(p, j, t[j])
  PROVE  Decoded(p) = t
<1>1. Decoded(p) \in Seq(Instructions) /\ Len(Decoded(p)) = p.ninstr
  BY DecodedType
<1>2. \A j \in 1..p.ninstr : Decoded(p)[j] = t[j]
  <2> TAKE j \in 1..p.ninstr
  <2>1. t[j] \in Instructions
    BY ElementOfSeq
  <2> QED
    BY <2>1, InstructionRead
<1> QED
  BY <1>1, <1>2, SeqEqual

LEMMA AppendSpells ==
  ASSUME NEW p, Growing(p), NEW ins \in Instructions
  PROVE  Decoded(AppendInstruction(p, ins)) = Append(Decoded(p), ins)
<1> DEFINE r == AppendInstruction(p, ins)
           d == Decoded(p)
           t == Append(d, ins)
<1>1. /\ Laid(r) /\ r.ninstr = p.ninstr + 1
      /\ \A j \in 1..p.ninstr, i \in Instructions :
            IsInstruction(p, j, i) => IsInstruction(r, j, i)
      /\ IsInstruction(r, p.ninstr + 1, ins)
  BY AppendGrowing DEF Growing
<1>2. /\ d \in Seq(Instructions) /\ Len(d) = p.ninstr /\ p.ninstr \in Nat
      /\ \A j \in 1..p.ninstr : d[j] \in Instructions /\ IsInstruction(p, j, d[j])
  BY DecodedType, ElementOfSeq DEF Growing, Laid
<1> HIDE DEF r, d
<1>3. /\ t \in Seq(Instructions) /\ Len(t) = p.ninstr + 1
      /\ \A j \in 1..p.ninstr : t[j] = d[j]
      /\ t[p.ninstr + 1] = ins
  BY <1>2, AppendProperties
<1> HIDE DEF t
<1>4. \A j \in 1..r.ninstr : IsInstruction(r, j, t[j])
  <2> TAKE j \in 1..r.ninstr
  <2>1. j \in 1..p.ninstr \/ j = p.ninstr + 1
    BY <1>1, <1>2
  <2> QED
    BY <1>1, <1>2, <1>3, <2>1
<1> QED
  BY <1>1, <1>3, <1>4, Spells DEF r, d, t

LEMMA FooterSpells ==
  ASSUME NEW p, Growing(p)
  PROVE  Decoded(Extend(p, Footer)) = Decoded(p)
<1> DEFINE r == Extend(p, Footer)
<1>1. /\ Laid(r) /\ r.ninstr = p.ninstr
      /\ \A j \in 1..p.ninstr, i \in Instructions :
            IsInstruction(p, j, i) => IsInstruction(r, j, i)
  BY FooterComplete DEF Complete
<1>2. /\ Decoded(p) \in Seq(Instructions) /\ Len(Decoded(p)) = p.ninstr
      /\ \A j \in 1..p.ninstr : /\ Decoded(p)[j] \in Instructions
                                /\ IsInstruction(p, j, Decoded(p)[j])
  BY DecodedType, ElementOfSeq DEF Growing
<1> HIDE DEF r
<1>3. Decoded(r) = Decoded(p)
  BY <1>1, <1>2, Spells
<1> QED
  BY <1>3 DEF r

\* crossover exchanges whole tails.
LEMMA SpliceSpells ==
  ASSUME NEW p, NEW q, Complete(p), Complete(q),
         NEW i \in 1..p.ninstr, NEW j \in 1..q.ninstr
  PROVE  Decoded(Splice(p, i, q, j)) = Abstract!Child(Decoded(p), i, Decoded(q), j)
<1> DEFINE r == Splice(p, i, q, j)
           n == i + q.ninstr - j
           head == SubSeq(Decoded(p), 1, i-1)
           tail == SubSeq(Decoded(q), j, Len(Decoded(q)))
<1>1. /\ Laid(r) /\ r.ninstr = n
      /\ \A k \in 1..i-1, ins \in Instructions :
            IsInstruction(p, k, ins) => IsInstruction(r, k, ins)
      /\ \A k \in i..n, ins \in Instructions :
            IsInstruction(q, k - i + j, ins) => IsInstruction(r, k, ins)
  BY SpliceComplete DEF Complete
<1>2. /\ p.ninstr \in Nat /\ q.ninstr \in Nat /\ i \in Nat /\ j \in Nat
      /\ Laid(p) /\ Laid(q)
  BY DEF Complete, Laid
<1>3. /\ Decoded(p) \in Seq(Instructions) /\ Len(Decoded(p)) = p.ninstr
      /\ \A k \in 1..p.ninstr : /\ Decoded(p)[k] \in Instructions
                                /\ IsInstruction(p, k, Decoded(p)[k])
  BY <1>2, DecodedType, ElementOfSeq
<1>4. /\ Decoded(q) \in Seq(Instructions) /\ Len(Decoded(q)) = q.ninstr
      /\ \A k \in 1..q.ninstr : /\ Decoded(q)[k] \in Instructions
                                /\ IsInstruction(q, k, Decoded(q)[k])
  BY <1>2, DecodedType, ElementOfSeq
<1>5. /\ head \in Seq(Instructions) /\ Len(head) = i - 1
      /\ \A k \in 1..i-1 : head[k] = Decoded(p)[k]
  <2>1. \A k \in 1..i-1 : Decoded(p)[k] \in Instructions
    BY <1>2, <1>3
  <2>2. /\ head \in Seq(Instructions)
        /\ Len(head) = IF 1 <= i-1 THEN (i-1) - 1 + 1 ELSE 0
        /\ \A k \in 1..((i-1) - 1 + 1) : head[k] = Decoded(p)[1 + k - 1]
    BY <1>2, <2>1, SubSeqProperties
  <2> HIDE DEF head
  <2>3. Len(head) = i - 1
    BY <1>2, <2>2
  <2>4. \A k \in 1..i-1 : head[k] = Decoded(p)[k]
    BY <1>2, <2>2
  <2> QED
    BY <2>2, <2>3, <2>4
<1>6. /\ tail \in Seq(Instructions) /\ Len(tail) = q.ninstr - j + 1
      /\ \A k \in 1..(q.ninstr - j + 1) : tail[k] = Decoded(q)[j + k - 1]
  <2>1. \A k \in j..q.ninstr : Decoded(q)[k] \in Instructions
    BY <1>2, <1>4
  <2>2. /\ tail \in Seq(Instructions)
        /\ Len(tail) = IF j <= q.ninstr THEN q.ninstr - j + 1 ELSE 0
        /\ \A k \in 1..(q.ninstr - j + 1) : tail[k] = Decoded(q)[j + k - 1]
    BY <1>2, <1>4, <2>1, SubSeqProperties
  <2> HIDE DEF tail
  <2> QED
    BY <1>2, <2>2
<1> HIDE DEF r, head, tail
<1> DEFINE t == head \o tail
<1>7. /\ t \in Seq(Instructions) /\ Len(t) = Len(head) + Len(tail)
      /\ \A k \in 1..(Len(head) + Len(tail)) :
            t[k] = IF k <= Len(head) THEN head[k] ELSE tail[k - Len(head)]
  BY <1>5, <1>6, ConcatProperties
<1> HIDE DEF t
<1>8. Len(t) = r.ninstr /\ n \in Nat
  BY <1>1, <1>2, <1>5, <1>6, <1>7
<1>a. 1..n = 1..(Len(head) + Len(tail))
  BY <1>2, <1>5, <1>6
<1>9. ASSUME NEW k \in 1..n
      PROVE  IsInstruction(r, k, t[k])
  <2>1. CASE k <= i-1
    <3>1. k \in 1..i-1 /\ k \in 1..p.ninstr
      BY <1>2, <2>1
    <3>2. t[k] = head[k]
      BY <1>2, <1>5, <1>7, <1>a, <2>1
    <3>3. head[k] = Decoded(p)[k]
      BY <1>5, <3>1
    <3> QED
      BY <1>1, <1>3, <3>1, <3>2, <3>3
  <2>2. CASE ~(k <= i-1)
    <3> DEFINE m == k - (i-1)
    <3>1. /\ k \in i..n /\ m \in 1..(q.ninstr - j + 1)
          /\ j + m - 1 = k - i + j /\ k - i + j \in 1..q.ninstr
      BY <1>2, <2>2
    <3>2. t[k] = tail[m]
      BY <1>2, <1>5, <1>7, <1>a, <2>2
    <3>3. tail[m] = Decoded(q)[k - i + j]
      <4> HIDE DEF m
      <4> QED
        BY <1>6, <3>1
    <3> QED
      BY <1>1, <1>4, <3>1, <3>2, <3>3
  <2> QED
    BY <2>1, <2>2
<1>10. Decoded(r) = t
  BY <1>1, <1>7, <1>8, <1>9, Spells
<1> QED
  BY <1>10 DEF Abstract!Child, r, t, head, tail

\* mutate exchanges one instruction for another of its kind.
LEMMA MutationSpells ==
  ASSUME NEW p, Complete(p), NEW i \in 0..p.ninstr-1, NEW r, Mutated(p, i, r)
  PROVE  \E kind \in KindSets, new \in Instructions :
            /\ Decoded(p)[i+1] \in kind /\ new \in kind
            /\ Decoded(r) = [Decoded(p) EXCEPT ![i+1] = new]
<1>1. PICK old \in Instructions, new \in Instructions :
        new.len = old.len /\ IsInstruction(p, i+1, old) /\ IsInstruction(r, i+1, new)
  BY DEF Mutated
<1>2. /\ Laid(p) /\ Laid(r) /\ r.ninstr = p.ninstr /\ p.ninstr \in Nat
      /\ i+1 \in 1..p.ninstr
  BY DEF Mutated, Complete, Laid
<1>3. Decoded(p)[i+1] = old
  BY <1>1, <1>2, InstructionRead
<1>4. KindOf(old.len) \in KindSets /\ old \in KindOf(old.len) /\ new \in KindOf(old.len)
  BY <1>1, InstructionShape DEF KindOf, KindSets
<1> DEFINE d == Decoded(p)
           t == [d EXCEPT ![i+1] = new]
<1>5. /\ d \in Seq(Instructions) /\ Len(d) = p.ninstr
      /\ \A k \in 1..p.ninstr : d[k] \in Instructions /\ IsInstruction(p, k, d[k])
  BY <1>2, DecodedType, ElementOfSeq
<1> HIDE DEF d
<1>6. /\ t \in Seq(Instructions) /\ Len(t) = p.ninstr
      /\ \A k \in 1..p.ninstr : t[k] = IF k = i+1 THEN new ELSE d[k]
  BY <1>2, <1>5, ExceptSeq
<1> HIDE DEF t
<1>7. \A k \in 1..r.ninstr : IsInstruction(r, k, t[k])
  BY <1>1, <1>2, <1>5, <1>6 DEF Mutated
<1>8. Decoded(r) = t
  BY <1>2, <1>6, <1>7, Spells
<1> QED
  BY <1>3, <1>4, <1>8 DEF d, t

-----------------------------------------------------------------------------
(***************************************************************************)
(* Each action changes the instructions as an action of Programs.           *)
(***************************************************************************)

\* In the places of what is spelt now stands what is spelt then.
LEMMA ProgThen == Prog' = [s \in Slots |-> Decoded(pop'[s])]
  BY DEF Prog, Slots, Decoded, Diff, Start, Abs

\* No program spells anything to begin with.
LEMMA NothingSpelt == Decoded(EmptyProgram) = << >>
<1>1. Decoded(EmptyProgram) \in Seq(Instructions) /\ Len(Decoded(EmptyProgram)) = 0
  BY EmptyGrowing, DecodedType DEF Growing
<1> QED
  BY <1>1, EmptySeq

\* The instructions of Programs are those of Genome.
LEMMA SameInstructions == Abstract!Instr = Instructions
<1>1. \A ins \in Instructions : ins \in KindOf(2) \/ ins \in KindOf(-2) \/ ins \in KindOf(6)
  BY InstructionShape DEF KindOf
<1>2. \A len : KindOf(len) \subseteq Instructions
  BY DEF KindOf
<1> QED
  BY <1>1, <1>2 DEF Abstract!Instr, KindSets

LEMMA InitRefines == Init => Abstract!Init
  BY NothingSpelt DEF Init, Prog, Abstract!Init

\* init_programs adds one instruction to what a program spells.
LEMMA GenerateRefines == IndInv /\ GenerateInstruction => Abstract!Generate
<1> SUFFICES ASSUME IndInv, GenerateInstruction
             PROVE  Abstract!Generate
  OBVIOUS
<1>1. /\ filling \in Slots /\ Growing(pop[filling])
      /\ pop[filling].ninstr < wanted /\ wanted <= MaxInstrs
      /\ wanted \in Nat /\ pop[filling].ninstr \in Nat
  <2>1. wanted \in InitInstrs /\ filling \in Slots /\ Growing(pop[filling])
    BY SizeAssumption DEF IndInv, ControlInv, GenerateInstruction, Slots
  <2>2. wanted \in Nat /\ wanted <= MaxInstrs
    BY <2>1, SizeAssumption
  <2> QED
    BY <2>1, <2>2 DEF GenerateInstruction, Growing, Laid
<1>2. PICK ins \in Instructions :
        pop' = [pop EXCEPT ![filling] = AppendInstruction(@, ins)]
  BY DEF GenerateInstruction
<1> DEFINE r == AppendInstruction(pop[filling], ins)
<1>3. Decoded(r) = Append(Decoded(pop[filling]), ins)
  BY <1>1, AppendSpells
<1>4. pop' = [s \in Slots |-> IF s = filling THEN r ELSE pop[s]]
  <2> HIDE DEF r
  <2>1. pop' = [pop EXCEPT ![filling] = r]
    BY <1>2 DEF r
  <2> QED
    BY <2>1 DEF IndInv
<1> HIDE DEF r
<1>5. Prog' = [Prog EXCEPT ![filling] = Append(@, ins)]
  BY <1>1, <1>3, <1>4, ProgThen DEF Prog
<1>6. \A s \in Slots \ {filling} : Prog'[s] = Prog[s]
  BY <1>5 DEF Prog
<1>7. Len(Prog[filling]) < MaxInstrs
  <2>1. Len(Prog[filling]) = pop[filling].ninstr
    BY <1>1, DecodedType DEF Prog, Growing
  <2> QED
    BY <1>1, <2>1, SizeAssumption
<1> QED
  BY <1>1, <1>5, <1>6, <1>7, SameInstructions DEF Abstract!Generate, Abstract!OthersUnchanged

\* The footer changes nothing of what is spelt.
LEMMA FinishRefines == IndInv /\ FinishProgram => UNCHANGED Prog
<1> SUFFICES ASSUME IndInv, FinishProgram
             PROVE  Prog' = Prog
  OBVIOUS
<1>1. filling \in Slots /\ Growing(pop[filling])
  BY SizeAssumption DEF IndInv, ControlInv, FinishProgram, Slots
<1> DEFINE r == Extend(pop[filling], Footer)
<1>2. Decoded(r) = Decoded(pop[filling])
  BY <1>1, FooterSpells
<1>3. pop' = [s \in Slots |-> IF s = filling THEN r ELSE pop[s]]
  BY DEF IndInv, FinishProgram
<1> HIDE DEF r
<1> QED
  BY <1>1, <1>2, <1>3, ProgThen DEF Prog

\* A program given up spells nothing.
LEMMA RejectRefines == IndInv /\ RejectProgram => Abstract!Restart
<1> SUFFICES ASSUME IndInv, RejectProgram
             PROVE  Abstract!Restart
  OBVIOUS
<1>1. filling \in Slots
  BY SizeAssumption DEF IndInv, ControlInv, RejectProgram, Slots
<1>2. pop' = [s \in Slots |-> IF s = filling THEN EmptyProgram ELSE pop[s]]
  BY DEF IndInv, RejectProgram
<1>3. Prog' = [Prog EXCEPT ![filling] = << >>]
  BY <1>1, <1>2, NothingSpelt, ProgThen DEF Prog
<1> QED
  BY <1>1, <1>3 DEF Abstract!Restart

\* crossover exchanges the tails of what two programs spell.
LEMMA CrossoverRefines == IndInv /\ Crossover => Abstract!Cross
<1> SUFFICES ASSUME IndInv, Crossover
             PROVE  Abstract!Cross
  OBVIOUS
<1>1. PICK p1, p2, c1, c2 \in Slots :
            /\ Distinct(p1, p2, c1, c2)
            /\ \A s \in Slots \ {c1, c2} : pop'[s] = pop[s]
            /\ Complete(pop'[c1]) /\ InBounds(pop'[c1].ninstr)
            /\ Complete(pop'[c2]) /\ InBounds(pop'[c2].ninstr)
            /\ \E i \in 1..pop[p1].ninstr, j \in 1..pop[p2].ninstr :
                  /\ pop'[c1] = Splice(pop[p1], i, pop[p2], j)
                  /\ pop'[c2] = Splice(pop[p2], j, pop[p1], i)
  BY CrossoverStep
<1>2. PICK i \in 1..pop[p1].ninstr, j \in 1..pop[p2].ninstr :
                  /\ pop'[c1] = Splice(pop[p1], i, pop[p2], j)
                  /\ pop'[c2] = Splice(pop[p2], j, pop[p1], i)
  BY <1>1
<1>3. Complete(pop[p1]) /\ Complete(pop[p2])
  BY DEF IndInv, Crossover, Finished
<1>4. /\ Prog'[c1] = Abstract!Child(Prog[p1], i, Prog[p2], j)
      /\ Prog'[c2] = Abstract!Child(Prog[p2], j, Prog[p1], i)
  <2>1. /\ Decoded(pop'[c1]) = Abstract!Child(Decoded(pop[p1]), i, Decoded(pop[p2]), j)
        /\ Decoded(pop'[c2]) = Abstract!Child(Decoded(pop[p2]), j, Decoded(pop[p1]), i)
    BY <1>2, <1>3, SpliceSpells
  <2> QED
    BY <2>1, ProgThen DEF Prog
<1>5. c1 # c2 /\ p1 # p2 /\ p1 \in Slots \ {c1, c2} /\ p2 \in Slots \ {c1, c2}
  BY <1>1 DEF Distinct
<1>6. \A s \in Slots \ {c1, c2} : Prog'[s] = Prog[s]
  BY <1>1, ProgThen DEF Prog
<1>7. DOMAIN Prog' = Slots
  BY ProgThen
<1>8. i \in 1..Len(Prog[p1]) /\ j \in 1..Len(Prog[p2])
  BY <1>3, DecodedType DEF Prog, Complete
<1>9. Abstract!InBounds(Prog'[c1]) /\ Abstract!InBounds(Prog'[c2])
  <2>1. /\ Len(Decoded(pop'[c1])) = pop'[c1].ninstr
        /\ Len(Decoded(pop'[c2])) = pop'[c2].ninstr
    BY <1>1, DecodedType DEF Complete
  <2>2. Prog'[c1] = Decoded(pop'[c1]) /\ Prog'[c2] = Decoded(pop'[c2])
    BY ProgThen
  <2> QED
    BY <1>1, <2>1, <2>2 DEF InBounds, Abstract!InBounds
<1> QED
  BY <1>4, <1>5, <1>6, <1>7, <1>8, <1>9 DEF Abstract!Cross, Abstract!OthersUnchanged

\* mutate replaces one of the instructions spelt by one of its kind.
LEMMA MutateRefines == IndInv /\ Mutate => Abstract!Mutate \/ UNCHANGED Prog
<1> SUFFICES ASSUME IndInv, Mutate, pop' # pop
             PROVE  Abstract!Mutate
  BY ProgThen DEF Prog
<1> DEFINE c == children[1]
<1>1. c \in Slots /\ Complete(pop[c])
  <2>1. children \in Seq(Slots) /\ Len(children) > 0 /\ Finished = Slots
    BY DEF IndInv, ControlInv, Mutate, Finished
  <2>2. children[1] \in Slots
    BY <2>1
  <2> QED
    BY <2>1, <2>2 DEF IndInv
<1> HIDE DEF c
<1>2. PICK i \in 0..pop[c].ninstr-1 :
        \E r \in Mutations(pop[c], i) : pop' = [pop EXCEPT ![c] = r]
  BY DEF Mutate, c
<1>0. PICK r \in Mutations(pop[c], i) : pop' = [pop EXCEPT ![c] = r]
  BY <1>2
<1>3. Mutated(pop[c], i, r)
  BY <1>1, MutationComplete
<1>4. PICK kind \in KindSets, new \in Instructions :
            /\ Decoded(pop[c])[i+1] \in kind /\ new \in kind
            /\ Decoded(r) = [Decoded(pop[c]) EXCEPT ![i+1] = new]
  BY <1>1, <1>3, MutationSpells
<1>5. pop' = [s \in Slots |-> IF s = c THEN r ELSE pop[s]]
  BY <1>0 DEF IndInv
<1>6. Prog[c] = Decoded(pop[c])
  BY <1>1 DEF Prog
<1>7. Prog' = [Prog EXCEPT ![c] = [Prog[c] EXCEPT ![i+1] = new]]
  BY <1>1, <1>4, <1>5, <1>6, ProgThen DEF Prog
<1>8. \A s \in Slots \ {c} : Prog'[s] = Prog[s]
  BY <1>7 DEF Prog
<1>9. i+1 \in 1..Len(Prog[c])
  <2>1. Len(Prog[c]) = pop[c].ninstr /\ pop[c].ninstr \in Nat
    BY <1>1, <1>6, DecodedType DEF Complete, Laid
  <2> QED
    BY <2>1
<1>10. Prog' = [Prog EXCEPT ![c][i+1] = new]
  BY <1>7
<1> QED
  BY <1>1, <1>4, <1>6, <1>8, <1>9, <1>10 DEF Abstract!Mutate, Abstract!OthersUnchanged

\* Genome implements Programs: crossover and mutate do to the bytes and the
\* boundaries what Programs says of instructions, and nothing else, whatever
\* the programs (lgp.c:683-900).
THEOREM GenomeImplementsPrograms == Spec => ImplementsPrograms
<1>1. ASSUME IndInv, [Next]_vars
      PROVE  [Abstract!Next]_Prog
  <2>1. CASE UNCHANGED vars
    BY <2>1, ProgThen DEF vars, Prog
  <2>2. CASE GenerateInstruction
    BY <1>1, <2>2, GenerateRefines DEF Abstract!Next
  <2>3. CASE FinishProgram
    BY <1>1, <2>3, FinishRefines
  <2>4. CASE RejectProgram
    BY <1>1, <2>4, RejectRefines DEF Abstract!Next
  <2>5. CASE Crossover
    BY <1>1, <2>5, CrossoverRefines DEF Abstract!Next
  <2>6. CASE CrossoverFails
    BY <2>6, ProgThen DEF CrossoverFails, vars, Prog
  <2>7. CASE Mutate
    BY <1>1, <2>7, MutateRefines DEF Abstract!Next
  <2> QED
    BY <1>1, <2>1, <2>2, <2>3, <2>4, <2>5, <2>6, <2>7 DEF Next
<1> QED
  BY <1>1, InitRefines, Invariance, PTL DEF Spec, ImplementsPrograms, Abstract!Spec

=============================================================================
