-------------------------------- MODULE MCInputs --------------------------------
(***************************************************************************)
(* Files of up to three lines for Inputs: patterns of two columns, and one *)
(* of every other shape; options with windows that fit and that do not.    *)
(***************************************************************************)
EXTENDS Inputs

MCValues == {-1, 0, 1}

Pairs == { << 0, Blank, -1 >>, << 1, Blank, 1 >>, << 0, Blank, 1 >>, << 1, Blank, 0 >> }

\* In one file, the lines that are not such pairs are of one kind.
Kinds == { {<< Comment >>}, {<< Garbage >>}, {<< 1 >>},
           {<< Blank, 0, Blank, 1 >>, << Blank, 1, Blank, -1 >>},
           {<< 0, Blank, 1, Blank >>},
           {<< 1, Blank, 0, Blank, -1 >>},
           {<< 0, Blank, 0, Blank, 0, Blank, 0 >>} }

Contents == UNION {[1..n -> Pairs \cup kind] : n \in 0..3, kind \in Kinds}
MCFiles == [lines : Contents, ended : BOOLEAN]

With(train, validate, test, early, bagging) ==
  [train |-> train, validate |-> validate, test |-> test, early |-> early,
   bagging |-> bagging]

MCOptions ==
  { With(<< 0, 2 >>, NoWindow, << 2, 3 >>, 0, FALSE),
    With(<< 0, 1 >>, << 1, 2 >>, << 1, 2 >>, 20, TRUE),
    With(<< 1, 3 >>, << 0, 1 >>, << 0, 3 >>, 0, TRUE),
    With(<< 0, 3 >>, NoWindow, << 1, 2 >>, 0, FALSE),
    With(<< 0, 1 >>, << 0, 3 >>, << 0, 2 >>, 0, FALSE),
    With(<< 0, 1 >>, NoWindow, << 0, 0 >>, 0, FALSE),
    With(<< 0, 2 >>, NoWindow, << 2, 3 >>, 20, FALSE),
    With(NoWindow, NoWindow, << 0, 1 >>, 0, FALSE) }
=================================================================================
