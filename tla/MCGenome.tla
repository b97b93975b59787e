------------------------------ MODULE MCGenome ------------------------------
(***************************************************************************)
(* A small instance of Genome for TLC, with opcodes, header bytes and       *)
(* addresses of the real instruction set.  The random programs of the       *)
(* initial population are limited to the prefixes of four founders, which   *)
(* between them have every kind of instruction first, in the middle, last   *)
(* and next to every other kind.                                           *)
(***************************************************************************)
EXTENDS Genome

MCHeader    == <<155, 219>>
MCFooter    == <<195>>
MCNoArg     == {<<217, 224>>}                       \* FCHS
MCRegArg    == {<<220, 192>>, <<216, 200>>}         \* FADD ST(n),ST(0); FMUL
MCSixByte   == {<<220, 5>>}                         \* FADD m64fp
MCAddresses == {134520832}

fchs    == [bytes |-> <<217, 224>>, len |-> 2]
fadd(r) == [bytes |-> <<220, 192 + r>>, len |-> -2]
fmul(r) == [bytes |-> <<216, 200 + r>>, len |-> -2]
faddm   == [bytes |-> <<220, 5, 0, 160, 4, 8>>, len |-> 6]

Founders == <<<<faddm, fadd(1), fchs>>, <<fmul(0), fchs, faddm>>,
              <<fchs, faddm, fmul(1)>>, <<fmul(1), fadd(0), fchs>>>>

FewFounders ==
  pc = "generate" =>
     \A s \in Slots : \A j \in 1..pop[s].ninstr :
        IsInstruction(pop[s], j, Founders[s+1][j])

=============================================================================
