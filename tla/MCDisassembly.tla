----------------------------- MODULE MCDisassembly ------------------------------
(***************************************************************************)
(* Images for Disassembly: a loop of jumps, code that a jump enters in the *)
(* middle of an instruction, a call and a far jump, an indirect jump,      *)
(* undecodable bytes, an instruction cut off by the end and one with more  *)
(* prefixes than an instruction has room for.  What is mapped next to an   *)
(* image has a jump, too.                                                  *)
(***************************************************************************)
EXTENDS Disassembly

MCImages ==
  { << \hD9, \hE0, \h74, \hFC, \hEB, \hFC >>,              \* fchs; jz 0; jmp 2
    << \hEB, \h01, \hB8, \h75, \hFD, \hC3 >>,              \* jmp 3, into mov
    << \h90, \hE8, \h01, \h00, \h00, \h00, \hC3, \hFF, \hE0 >>,
                                     \* nop; call 7; ret; jmp *eax
    << \h66, \hE9, \hFD, \hFF, \h0F, \h04, \hDC, \h05 >>,  \* jmp 1; bad bytes
    << \h74, \h00, \h74, \hFE, \hEA, \h01, \h00, \h00, \h00, \h00, \h00 >>,
    [k \in 1..20 |-> \h2E] \o << \h90, \hC3 >> }          \* 20 prefixes; nop; ret
MCTails == { << >>, << \hEB, \hFE, \h0F, \h90, \hC3, \h90, \h90, \h66 >> }
MCOffsets == 0..12
MCBeyond == << \h90 >>
=================================================================================
