------------------------------- MODULE Genome -------------------------------
(***************************************************************************)
(* The machine-code programs that evolve, and the three operations that     *)
(* make them: random generation (init_programs), crossover and mutate.      *)
(*                                                                         *)
(* A program is one variable-length stretch of x86 bytes, a fixed header,   *)
(* some instructions of 2 or 6 bytes and a fixed footer, with a table       *)
(* `indices' of instruction boundaries.  The boundary that ends an          *)
(* instruction is stored negated when the instruction takes a register      *)
(* argument; nothing else tells the two kinds of 2-byte instruction apart.  *)
(* Crossover splices code and boundaries separately, and mutate trusts the  *)
(* boundaries to decide which bytes to overwrite and with what: a table     *)
(* and a code that disagree by one byte make the program jump into the      *)
(* middle of an instruction.                                                *)
(*                                                                         *)
(* Fitness plays no part here: which programs are crossed and which are     *)
(* overwritten is any choice of four distinct ones (see Demes for the       *)
(* tournament that chooses them).                                          *)
(***************************************************************************)
EXTENDS Integers, Sequences

CONSTANTS
  Popsize,       \* number of programs in the array pop
  MinInstrs,     \* MININSTRS
  MaxInstrs,     \* MAXINSTRS
  InitInstrs,    \* how many instructions init_programs may give a program
  Header,        \* the header's bytes, a sequence
  Footer,        \* the footer's bytes, a sequence
  NoArg,         \* opcodes of 2-byte instructions without argument: byte pairs
  RegArg,        \* opcodes of 2-byte instructions with a register argument
  SixByte,       \* opcodes of 6-byte instructions
  Addresses,     \* where the constants and the input variables are in memory
  NRegisters,    \* nregisters1, registers in use in this trial
  InitialFitness, \* is --initialfitness given?
  MaxBreedings   \* bound on the breedings of a behaviour

Byte == 0..255

Slots == 0..Popsize-1

ASSUME SizeAssumption ==
  /\ Popsize \in Nat \ {0}
  /\ MinInstrs \in Nat /\ MaxInstrs \in Nat /\ 2 <= MinInstrs
  /\ InitInstrs \subseteq MinInstrs..MaxInstrs
  /\ NRegisters \in 1..8
  /\ MaxBreedings \in Nat
  /\ InitialFitness \in BOOLEAN

ASSUME CodeAssumption ==
  /\ Header \in Seq(Byte) /\ Header # << >>
  /\ Footer \in Seq(Byte)
  /\ NoArg \subseteq Byte \X Byte
  /\ SixByte \subseteq Byte \X Byte
  /\ RegArg \subseteq Byte \X {8 * i : i \in 0..31}
  /\ Addresses \subseteq Nat

HeaderLen == Len(Header)
FooterLen == Len(Footer)

-----------------------------------------------------------------------------
(***************************************************************************)
(* Instructions.                                                           *)
(***************************************************************************)

Abs(n) == IF n < 0 THEN -n ELSE n

Larger(m, n) == IF m < n THEN n ELSE m

\* Byte k of an address, least significant first.
AddressByte(a, k) == (a \div <<1, 256, 65536, 16777216>>[k+1]) % 256

AddressBytes(a) ==
  <<AddressByte(a, 0), AddressByte(a, 1), AddressByte(a, 2), AddressByte(a, 3)>>

\* What random_instruction can return: the bytes, and the length, which is
\* negated for an instruction that takes a register argument.
Instructions ==
       {[bytes |-> op, len |-> 2] : op \in NoArg}
  \cup {[bytes |-> <<op[1], op[2] + r>>, len |-> -2] :
            op \in RegArg, r \in 0..NRegisters-1}
  \cup {[bytes |-> op \o AddressBytes(a), len |-> 6] :
            op \in SixByte, a \in Addresses}

-----------------------------------------------------------------------------
(***************************************************************************)
(* Programs.  code holds the bytes written so far, from index 0.           *)
(***************************************************************************)

\* A program with the header and no instruction yet (init_programs).
EmptyProgram ==
  [indices |-> [j \in {0} |-> HeaderLen],
   ninstr  |-> 0,
   codelen |-> HeaderLen,
   code    |-> [b \in 0..HeaderLen-1 |-> Header[b+1]]]

\* The program p with the bytes s added at the end of its code.
Extend(p, s) ==
  [indices |-> p.indices,
   ninstr  |-> p.ninstr,
   codelen |-> p.codelen + Len(s),
   code    |-> [b \in 0..p.codelen + Len(s) - 1 |->
                   IF b < p.codelen THEN p.code[b] ELSE s[b - p.codelen + 1]]]

\* The program p with the random instruction ins added at its end.
AppendInstruction(p, ins) ==
  LET end == Abs(ins.len) + Abs(p.indices[p.ninstr])
  IN  [indices |-> [j \in 0..p.ninstr+1 |->
                       IF j <= p.ninstr THEN p.indices[j]
                       ELSE IF ins.len < 0 THEN -end ELSE end],
       ninstr  |-> p.ninstr + 1,
       codelen |-> Extend(p, ins.bytes).codelen,
       code    |-> Extend(p, ins.bytes).code]

-----------------------------------------------------------------------------
(***************************************************************************)
(* Crossover of two programs p and q, at point i of p and j of q.  Points   *)
(* count from 1, so that the head before point i has i-1 instructions.      *)
(***************************************************************************)

\* Fault: the sign of the boundary is forgotten (no ABS).
MovedRaw(m, d) == m + d

\* The boundary m of a program, moved by d bytes, with its sign kept.
Moved(m, d) == IF m < 0 THEN -(Abs(m) + d) ELSE Abs(m) + d

\* How far the tail of q moves to follow the head of p.
Shift(p, i, q, j) == Abs(p.indices[i-1]) - Abs(q.indices[j-1])

\* The number of instructions of the child.
ChildSize(p, i, q, j) == (i - 1) + (q.ninstr - j + 1)

\* The boundaries of the child: those of the head of p, then those of the
\* tail of q.  The code's loop adds up the lengths of the instructions in the
\* tail; the sum telescopes to a move of the whole tail.
ChildIndices(p, i, q, j) ==
  [k \in 0..ChildSize(p, i, q, j) |->
      IF k < i THEN p.indices[k]
      ELSE Moved(q.indices[k - i + j], Shift(p, i, q, j))]

\* The code of the child, copied as far as q's codelen.
ChildCode(p, i, q, j) ==
  [b \in 0..q.codelen + Shift(p, i, q, j) - 1 |->
      IF b < Abs(p.indices[i-1]) THEN p.code[b]
      ELSE q.code[b - Shift(p, i, q, j)]]

\* Fault: the sign of the last boundary is kept (no ABS).
CodeLengthRaw(indices, n) == indices[n] + FooterLen

\* The code length of a program of n instructions with these boundaries.
CodeLength(indices, n) == Abs(indices[n]) + FooterLen

\* The child with the head of p and the tail of q.
Splice(p, i, q, j) ==
  [indices |-> ChildIndices(p, i, q, j),
   ninstr  |-> ChildSize(p, i, q, j),
   codelen |-> CodeLength(ChildIndices(p, i, q, j), ChildSize(p, i, q, j)),
   code    |-> ChildCode(p, i, q, j)]

\* The values of 1+(long)((ninstr-1)*fastrand()).
Points(n) == 1..Larger(1, n-1)

InBounds(n) == n \in MinInstrs..MaxInstrs

\* Fault: only the first child is measured.
AdmissibleFirst(p, i, q, j) == InBounds(i + q.ninstr - j)

\* Fault: children of too many instructions are accepted.
AdmissibleLong(p, i, q, j) ==
  i + q.ninstr - j >= MinInstrs /\ j + p.ninstr - i >= MinInstrs

\* Both children have an admissible number of instructions.
Admissible(p, i, q, j) ==
  /\ InBounds(i + q.ninstr - j)
  /\ InBounds(j + p.ninstr - i)

\* The points at which p and q can be crossed: one point for both
\* (homogeneous crossover, whose children need no measuring), or one for each.
CrossoverPoints(p, q) ==
       {<<i, i>> : i \in Points(p.ninstr) \cap Points(q.ninstr)}
  \cup {pt \in Points(p.ninstr) \X Points(q.ninstr) :
            Admissible(p, pt[1], q, pt[2])}

\* Crossover can fail if there are points it rejects: it may draw them
\* MAXCROSSOVERTRIALS times in a row.
CanFail(p, q) ==
  \E i \in Points(p.ninstr), j \in Points(q.ninstr) : ~Admissible(p, i, q, j)

-----------------------------------------------------------------------------
(***************************************************************************)
(* Mutation of instruction i (from 0) of program p.                        *)
(***************************************************************************)

Start(p, i) == Abs(p.indices[i])
Diff(p, i)  == Start(p, i+1) - Start(p, i)

\* p with the bytes s written from position b on.
Overwrite(p, b, s) ==
  [indices |-> p.indices,
   ninstr  |-> p.ninstr,
   codelen |-> p.codelen,
   code    |-> [c \in DOMAIN p.code |->
                   IF c \in b..b+Len(s)-1 THEN s[c - b + 1] ELSE p.code[c]]]

\* Fault: bit 3 of the byte is taken for a part of the register.
WithRegisterNibble(byte, r) == byte - (byte % 16) + r

\* The second byte of a register instruction holds the opcode in its high
\* nibble and in bit 3, and the register below.
WithRegister(byte, r) ==
  LET hinib == byte - (byte % 16)
      lonib == byte % 16
  IN  hinib + (IF lonib >= 8 THEN 8 + r ELSE r)

\* Fault: the sign of the boundary is not looked at.
MutationsBySize(p, i) ==
  IF Diff(p, i) = 6 THEN {Overwrite(p, Start(p, i), op) : op \in SixByte}
                    ELSE {Overwrite(p, Start(p, i), op) : op \in NoArg}

\* The programs mutate can turn p into by changing instruction i: none if the
\* instruction has an impossible length.
Mutations(p, i) ==
  LET s == Start(p, i)
  IN  CASE Diff(p, i) = 6 ->
                {Overwrite(p, s, op) : op \in SixByte}
           \cup {Overwrite(p, s+2, AddressBytes(a)) : a \in Addresses}
        [] Diff(p, i) = 2 /\ p.indices[i+1] > 0 ->
                {Overwrite(p, s, op) : op \in NoArg}
        [] Diff(p, i) = 2 /\ ~(p.indices[i+1] > 0) ->
                {Overwrite(p, s, op) : op \in RegArg}
           \cup {Overwrite(p, s+1, <<WithRegister(p.code[s+1], r)>>) :
                    r \in 0..NRegisters-1}
        [] OTHER -> {}

-----------------------------------------------------------------------------
VARIABLES
  pop,        \* the programs, a function on Slots
  pc,         \* what the program is doing
  filling,    \* the program being generated
  wanted,     \* how many instructions that program is to have
  children,   \* the slots just written by crossover and still to be mutated
  breedings   \* how many crossovers succeeded

vars == <<pop, pc, filling, wanted, children, breedings>>

Init ==
  /\ pop = [s \in Slots |-> EmptyProgram]
  /\ pc = "generate"
  /\ filling = 0
  /\ wanted \in InitInstrs
  /\ children = << >>
  /\ breedings = 0

\* init_programs: one more instruction for the program being generated.
GenerateInstruction ==
  /\ pc = "generate"
  /\ pop[filling].ninstr < wanted
  /\ \E ins \in Instructions :
        pop' = [pop EXCEPT ![filling] = AppendInstruction(@, ins)]
  /\ UNCHANGED <<pc, filling, wanted, children, breedings>>

\* init_programs: the footer, and on to the next program.
FinishProgram ==
  /\ pc = "generate"
  /\ pop[filling].ninstr = wanted
  /\ pop' = [pop EXCEPT ![filling] = Extend(@, Footer)]
  /\ filling' = filling + 1
  /\ pc' = IF filling' = Popsize THEN "breed" ELSE "generate"
  /\ wanted' \in InitInstrs
  /\ UNCHANGED <<children, breedings>>

\* init_programs: the program is finished, but its answers are stuck, and it
\* is generated anew (whether they are is up to its error).
RejectProgram ==
  /\ pc = "generate" /\ InitialFitness
  /\ pop[filling].ninstr = wanted
  /\ pop' = [pop EXCEPT ![filling] = EmptyProgram]
  /\ wanted' \in InitInstrs
  /\ UNCHANGED <<pc, filling, children, breedings>>

\* Four individuals drawn one after the other, each unlike the ones before.
Distinct(a, b, c, d) == b # a /\ c \notin {a, b} /\ d \notin {a, b, c}

\* crossover succeeds: the programs in c1 and c2 are overwritten.
Crossover ==
  /\ pc = "breed" /\ breedings < MaxBreedings
  /\ \E p1, p2, c1, c2 \in Slots :
        /\ Distinct(p1, p2, c1, c2)
        /\ \E pt \in CrossoverPoints(pop[p1], pop[p2]) :
              pop' = [pop EXCEPT
                        ![c1] = Splice(pop[p1], pt[1], pop[p2], pt[2]),
                        ![c2] = Splice(pop[p2], pt[2], pop[p1], pt[1])]
        /\ children' = <<c1, c2>>
  /\ pc' = "mutate"
  /\ breedings' = breedings + 1
  /\ UNCHANGED <<filling, wanted>>

\* crossover gives up: nothing has been written, new parents will be drawn.
CrossoverFails ==
  /\ pc = "breed"
  /\ \E p1, p2 \in Slots : p1 # p2 /\ CanFail(pop[p1], pop[p2])
  /\ UNCHANGED vars

\* What remains to be done when mutate returns.
MutateReturns ==
  /\ children' = Tail(children)
  /\ pc' = IF Len(children) = 1 THEN "breed" ELSE "mutate"

\* mutate of the next child.  It may leave the child as it is; an instruction
\* that is neither 2 nor 6 bytes long makes the program exit ("BOOM").
Mutate ==
  /\ pc = "mutate"
  /\ LET c == children[1]
     IN  \/ UNCHANGED pop /\ MutateReturns
         \/ \E i \in 0..pop[c].ninstr-1 :
               IF Diff(pop[c], i) \in {2, 6}
               THEN /\ \E p \in Mutations(pop[c], i) : pop' = [pop EXCEPT ![c] = p]
                    /\ MutateReturns
               ELSE /\ pc' = "boom"
                    /\ UNCHANGED <<pop, children>>
  /\ UNCHANGED <<filling, wanted, breedings>>

Next ==
  \/ GenerateInstruction \/ FinishProgram \/ RejectProgram
  \/ Crossover \/ CrossoverFails \/ Mutate

Spec == Init /\ [][Next]_vars

-----------------------------------------------------------------------------
(***************************************************************************)
(* Properties.                                                             *)
(***************************************************************************)

MaxCodeLen == 6 * MaxInstrs + HeaderLen + FooterLen

\* The programs that init_programs has finished.
Finished == IF pc = "generate" THEN 0..filling-1 ELSE Slots

\* The variables have their types.  The bounds on a program are those of the
\* arrays in struct pop (lgp.h:89-98): indices[MAXINSTRS+1] and
\* code[6*MAXINSTRS+MAXHEADERLEN+MAXFOOTERLEN].
TypeOK ==
  /\ pop = [s \in Slots |-> pop[s]]
  /\ \A s \in Slots :
        /\ pop[s].ninstr \in 0..MaxInstrs
        /\ pop[s].indices \in [0..pop[s].ninstr -> Int]
        /\ pop[s].codelen \in 0..MaxCodeLen
        /\ pop[s].code \in [0..pop[s].codelen-1 -> Byte]
  /\ pc \in {"generate", "breed", "mutate", "boom"}
  /\ filling \in 0..Popsize
  /\ wanted \in InitInstrs
  /\ children \in Seq(Slots) /\ Len(children) <= 2
  /\ breedings \in 0..MaxBreedings

\* The bytes between boundaries j-1 and j of p are those of instruction ins,
\* and boundary j is negated if and only if ins takes a register argument.
IsInstruction(p, j, ins) ==
  /\ Diff(p, j-1) = Abs(ins.len)
  /\ (p.indices[j] < 0) <=> (ins.len < 0)
  /\ \A k \in 1..Len(ins.bytes) : p.code[Start(p, j-1) + k - 1] = ins.bytes[k]

WholeInstructions(p) ==
  \A j \in 1..p.ninstr : \E ins \in Instructions : IsInstruction(p, j, ins)

WellFormed(p) ==
  /\ p.indices[0] = HeaderLen
  /\ \A b \in 1..HeaderLen : p.code[b-1] = Header[b]
  /\ WholeInstructions(p)
  /\ p.codelen = CodeLength(p.indices, p.ninstr)
  /\ \A b \in 1..FooterLen : p.code[Start(p, p.ninstr) + b - 1] = Footer[b]

\* Every program that may be executed is the header, whole instructions of
\* the instruction set laid end to end, and the footer with its return: no
\* crossover tears an instruction apart, and no mutation writes an opcode or
\* an argument over bytes of another kind (lgp.c:654, 1275-1276).
Executable == \A s \in Finished : WellFormed(pop[s])

\* Parents and children always have an admissible number of instructions, so
\* that indices and code stay within their arrays (asserts of lgp.c:1252-1255
\* and 1271-1274).
Admitted == \A s \in Finished : InBounds(pop[s].ninstr)

\* mutate never meets an instruction whose length it does not know (the
\* "BOOM" branch of lgp.c:896-899 is dead code).
NoBoom == pc # "boom"

\* c1 and c2 are the children of two other programs, which stay as they are.
Conserves(c1, c2) ==
  \E p1, p2 \in Slots :
     /\ Distinct(p1, p2, c1, c2)
     /\ pop'[p1] = pop[p1] /\ pop'[p2] = pop[p2]
     /\ pop[p1].ninstr + pop[p2].ninstr = pop'[c1].ninstr + pop'[c2].ninstr
     /\ pop[p1].codelen + pop[p2].codelen = pop'[c1].codelen + pop'[c2].codelen

\* A crossover conserves the number of instructions and the length of the
\* code of the two parents, which it does not touch (asserts of lgp.c:802-804).
Conservation ==
  [][pc = "breed" /\ pc' = "mutate" => Conserves(children'[1], children'[2])]_vars

-----------------------------------------------------------------------------
(***************************************************************************)
(* What Genome is to Programs.                                             *)
(***************************************************************************)

\* A program is the sequence of the instructions its bytes spell.
Decoded(p) ==
  [j \in 1..p.ninstr |->
      [bytes |-> [k \in 1..Diff(p, j-1) |-> p.code[Start(p, j-1) + k - 1]],
       len   |-> IF p.indices[j] < 0 THEN -Diff(p, j-1) ELSE Diff(p, j-1)]]

KindOf(len) == {ins \in Instructions : ins.len = len}

KindSets == {KindOf(2), KindOf(-2), KindOf(6)}

Prog == [s \in Slots |-> Decoded(pop[s])]

Abstract == INSTANCE Programs WITH prog <- Prog, Kinds <- KindSets

\* Genome's operators do to the bytes what Programs says they do to the
\* instructions: children are exact exchanges of whole tails (crossover,
\* lgp.c:683-808) and a mutation changes one instruction within its kind
\* (mutate, lgp.c:812-900).
ImplementsPrograms == Abstract!Spec

-----------------------------------------------------------------------------
(***************************************************************************)
(* The inductive invariant.  It adds to the properties how far apart any    *)
(* two boundaries are, which the splicing of two tables must preserve, and  *)
(* what the programs not yet finished look like.                           *)
(***************************************************************************)

\* k - j instructions are between 2(k-j) and 6(k-j) bytes long.
Spaced(p) ==
  \A j, k \in 0..p.ninstr :
     j <= k => /\ Start(p, j) + 2 * (k - j) <= Start(p, k)
               /\ Start(p, k) <= Start(p, j) + 6 * (k - j)

Laid(p) ==
  /\ p.ninstr \in Nat
  /\ p.indices \in [0..p.ninstr -> Int]
  /\ p.indices[0] = HeaderLen
  /\ Spaced(p)
  /\ p.codelen \in Nat
  /\ p.code \in [0..p.codelen-1 -> Byte]
  /\ Start(p, p.ninstr) <= p.codelen
  /\ \A b \in 1..HeaderLen : p.code[b-1] = Header[b]
  /\ WholeInstructions(p)

\* A program being generated has no footer yet.
Growing(p) == Laid(p) /\ p.codelen = Start(p, p.ninstr)

Complete(p) == Laid(p) /\ WellFormed(p)

ControlInv ==
  /\ pc \in {"generate", "breed", "mutate"}
  /\ filling \in 0..Popsize
  /\ pc = "generate" <=> filling < Popsize
  /\ wanted \in InitInstrs
  /\ children \in Seq(Slots)
  /\ Len(children) <= 2
  /\ pc = "mutate" => Len(children) > 0
  /\ breedings \in 0..MaxBreedings

\* Every finished program is laid out as Complete says, and the one being
\* generated as Growing says (crossover and mutate, lgp.c:683-900).
IndInv ==
  /\ ControlInv
  /\ pop = [s \in Slots |-> pop[s]]
  /\ \A s \in Finished : Complete(pop[s]) /\ InBounds(pop[s].ninstr)
  /\ pc = "generate" =>
        /\ Growing(pop[filling])
        /\ pop[filling].ninstr <= wanted
        /\ \A s \in Slots : s > filling => pop[s] = EmptyProgram

=============================================================================
