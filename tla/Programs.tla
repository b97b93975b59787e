------------------------------ MODULE Programs ------------------------------
(***************************************************************************)
(* What the genetic operators promise, with no bytes and no boundaries: a   *)
(* program is a sequence of instructions, crossover exchanges the tails of  *)
(* two programs, and mutation replaces one instruction by another of its    *)
(* kind.  Genome implements this specification.                            *)
(***************************************************************************)
EXTENDS Integers, Sequences

CONSTANTS
  Slots,       \* the places of the population
  Kinds,       \* the instructions, a set of disjoint sets, one for each kind
  MinInstrs, MaxInstrs

VARIABLE prog  \* the program in each place

Instr == UNION Kinds

InBounds(s) == Len(s) \in MinInstrs..MaxInstrs

Init == prog = [s \in Slots |-> << >>]

\* The child with the head of p, before point i, and the tail of q, from j on.
Child(p, i, q, j) == SubSeq(p, 1, i-1) \o SubSeq(q, j, Len(q))

OthersUnchanged(changed) == \A s \in Slots \ changed : prog'[s] = prog[s]

\* A program under construction gets one more instruction.
Generate ==
  \E s \in Slots, ins \in Instr :
     /\ Len(prog[s]) < MaxInstrs
     /\ OthersUnchanged({s})
     /\ prog' = [prog EXCEPT ![s] = Append(@, ins)]

\* A program under construction is given up.
Restart == \E s \in Slots : prog' = [prog EXCEPT ![s] = << >>]

\* Two programs are overwritten by the offspring of two others.
Cross ==
  \E c1, c2 \in Slots :
     /\ c1 # c2
     /\ OthersUnchanged({c1, c2})
     /\ DOMAIN prog' = Slots
     /\ \E p1, p2 \in Slots \ {c1, c2} :
           /\ p1 # p2
           /\ InBounds(prog'[c1]) /\ InBounds(prog'[c2])
           /\ \E i \in 1..Len(prog[p1]), j \in 1..Len(prog[p2]) :
                 /\ prog'[c1] = Child(prog[p1], i, prog[p2], j)
                 /\ prog'[c2] = Child(prog[p2], j, prog[p1], i)

\* One instruction is replaced by another of the same kind.
Mutate ==
  \E s \in Slots :
     \E i \in 1..Len(prog[s]), kind \in Kinds :
        /\ OthersUnchanged({s})
        /\ prog[s][i] \in kind
        /\ \E ins \in kind : prog' = [prog EXCEPT ![s][i] = ins]

Next == Generate \/ Restart \/ Cross \/ Mutate

Spec == Init /\ [][Next]_prog

=============================================================================
