------------------------------ MODULE MCDecompile -------------------------------
(***************************************************************************)
(* The instructions of Decompile for TLC: all that it knows, on the        *)
(* registers 0, 1 and 7 and on two variables and two constants.  The       *)
(* arrays are in either order.  The programs are all those of one or two   *)
(* instructions, and those of three that compare, move and calculate on    *)
(* the registers next to the top of the stack.                             *)
(***************************************************************************)
EXTENDS Decompile

Low  == 134520832      \* 0804a000
High == 134586368      \* 0805a000
MCLayouts == { [variable |-> Low, constant |-> High],
               [variable |-> High, constant |-> Low] }
AddressBytes == { << 8 * i, \hA0, page, \h08 >> : i \in 0..1, page \in {\h04, \h05} }

MCInstructions ==
  twobyte_noarg \cup commented_noarg
    \cup { << op[1], op[2] + n >> : op \in twobyte_regarg \cup commented_regarg,
                                    n \in {0, 1, 7} }
    \cup { op \o addr : op \in sixbyte \cup commented_sixbyte, addr \in AddressBytes }

\* fcomi, fcmovb, fcmovnb and an fxch; fsub and fsubp, a function, fyl2x, a sum
\* with a variable or a constant, and fincstp.
Flagged ==
  { << op[1], op[2] + n >> : op \in {<< \hDB, \hF0 >>, << \hDA, \hC0 >>, << \hDB, \hC0 >>},
                             n \in {1, 7} }
    \cup { << \hD9, \hC9 >>, << \hD8, \hE1 >>, << \hDE, \hE9 >>, << \hD9, \hE0 >>,
           << \hD9, \hF1 >>, << \hDC, \h05, \h00, \hA0, \h04, \h08 >>, << \hD9, \hF7 >> }

MCPrograms == [1..1 -> MCInstructions] \cup [1..2 -> MCInstructions] \cup [1..3 -> Flagged]
MCBeyond == << >>
=================================================================================
