-------------------------------- MODULE Trial --------------------------------
(***************************************************************************)
(* The trial loop and the generation loop of main (lgp.c): how the best     *)
(* program is kept, and what ends a trial and the run.                     *)
(*                                                                         *)
(* A trial breeds from a new population until the best program stops        *)
(* improving (stagnation), its validation error rises again (early          *)
(* stopping), or it has had all its breedings.  `best' is one global, which *)
(* each trial overwrites, and three pairs of variables follow it along:     *)
(* best.error and lowest_error, validateerror and lastvalidateerror, gen    *)
(* and genimproved.                                                        *)
(*                                                                         *)
(* The population is left to Demes: a breeding yields two children of any   *)
(* training error, and a new best has any validation error.                *)
(***************************************************************************)
EXTENDS Integers

CONSTANTS
  Maxtrials,       \* maximum number of trials
  MaxBreedings,    \* Maxgenerations*Popsize, the breedings of a trial
  Stagnation,      \* breedings without improvement that end a trial
  Worst,           \* LDBL_MAX, the error of a program that raises SIGFPE
  Validating,      \* was --validate given?
  EarlyLimit       \* Earlystopping*validatesize, or 0 for no early stopping

ASSUME TrialAssumption ==
  /\ Maxtrials \in Nat /\ MaxBreedings \in Nat /\ Stagnation \in Nat \ {0}
  /\ Worst \in Nat \ {0}
  /\ Validating \in BOOLEAN
  /\ EarlyLimit \in Nat
  /\ EarlyLimit # 0 => Validating /\ EarlyLimit < Worst

\* Training and validation errors.  0 stands for an error below FUZZ.
Errors == 0..Worst

\* A value that no error has: that of a variable not assigned yet.
Unset == Worst + 1

\* What compute_error makes of data outside the arrays.
Stray == Worst + 2

\* No trial: the program that the zeroed global `best' holds at first.
NoTrial == -1

VARIABLES
  trial,              \* number of the trial
  gen,                \* breedings so far in this trial
  lowest_error,       \* lowest error so far in this trial
  best,               \* the best program: its error, and what it really is:
                      \* its validation error and the trial that bred it
  validateerror,
  lastvalidateerror,
  genimproved,        \* gen at which best was last replaced
  pc,                 \* "start", "breed", "end" (of a trial), "done", "perfect"
  reason,             \* why the trial ended: "none", "early", "stagnated" or "spent"
  lowestbred,         \* history: the lowest error of all children of this trial
  unimproved          \* history: breedings since the last one that improved on
                      \* lowest_error, or since the start of the trial

errorvars == <<lowest_error, best, validateerror, lastvalidateerror, genimproved>>
history == <<lowestbred, unimproved>>
vars == <<trial, gen, errorvars, pc, reason, history>>

-----------------------------------------------------------------------------

Lower(m, n) == IF m < n THEN m ELSE n

\* Fault: the worse child is taken.
BetterFlipped(e1, e2) == IF e1 < e2 THEN e2 ELSE e1

\* The error of betterchild.
Better(e1, e2) == IF e1 < e2 THEN e1 ELSE e2

Init ==
  /\ trial = 0 /\ gen = 0 /\ genimproved = 0
  /\ best = [error |-> 0, val |-> Unset, trial |-> NoTrial]
  /\ lowest_error = 0
  /\ validateerror = Unset /\ lastvalidateerror = Unset
  /\ pc = "start" /\ reason = "none" /\ lowestbred = Worst /\ unimproved = 0

\* What every trial begins with: fresh errors, but the program in best stays.
StartTrial ==
  /\ pc = "start" /\ trial < Maxtrials
  /\ gen' = 0 /\ genimproved' = 0
  /\ lowest_error' = Worst /\ lastvalidateerror' = Worst
  /\ best' = [best EXCEPT !.error = Worst]
  /\ pc' = "breed" /\ reason' = "none" /\ lowestbred' = Worst /\ unimproved' = 0
  /\ UNCHANGED <<trial, validateerror>>

\* Fault: stagnation is one breeding late.
ContinueLate(improved) ==
  IF gen - improved > Stagnation
  THEN pc' = "end" /\ reason' = "stagnated" /\ gen' = gen
  ELSE gen' = gen + 1 /\ UNCHANGED <<pc, reason>>

\* The end of the generation loop; the last improvement was at `improved'.
Continue(improved) ==
  IF gen - improved >= Stagnation
  THEN pc' = "end" /\ reason' = "stagnated" /\ gen' = gen
  ELSE gen' = gen + 1 /\ UNCHANGED <<pc, reason>>

\* What the history makes of a breeding.
Remembered(e1, e2) ==
  /\ lowestbred' = Lower(lowestbred, Lower(e1, e2))
  /\ unimproved' = IF Better(e1, e2) < lowest_error THEN 0 ELSE unimproved + 1

\* Fault: one breeding too many.
BredOnceMore(e1, e2) ==
  /\ pc = "breed" /\ gen <= MaxBreedings
  /\ e1 # 0
  /\ Remembered(e1, e2)

\* A breeding gives children with errors e1 and e2, and goes on.  The test for
\* a perfect solution looks at the first child twice.
Bred(e1, e2) ==
  /\ pc = "breed" /\ gen < MaxBreedings
  /\ e1 # 0
  /\ Remembered(e1, e2)

\* The first child is perfect: the program prints it and exits.
PerfectFound ==
  /\ pc = "breed" /\ gen < MaxBreedings
  /\ pc' = "perfect"
  /\ UNCHANGED <<trial, gen, errorvars, reason, history>>

NoImprovement ==
  /\ \E e1, e2 \in Errors :
        Bred(e1, e2) /\ ~(Better(e1, e2) < lowest_error)
  /\ Continue(genimproved)
  /\ UNCHANGED <<trial, errorvars>>

\* The validation error computed for a new best, if there is a validation set.
Validated(v) == validateerror' = IF Validating THEN v ELSE validateerror

\* Fault: the last validation error may be anything.
EarlyStopsAlways == EarlyLimit # 0 /\ validateerror' > lastvalidateerror

\* The new best has a higher validation error than the one before, which had
\* come below the limit.
EarlyStops ==
  /\ EarlyLimit # 0
  /\ lastvalidateerror <= EarlyLimit
  /\ validateerror' > lastvalidateerror

\* Fault: the error is copied, and the program is not.
NewBestErrorOnly(e, v) == [best EXCEPT !.error = e]

\* copy(betterchild,&best), for a child with these errors.
NewBest(e, v) == [error |-> e, val |-> v, trial |-> trial]

Improvement ==
  /\ \E e1, e2 \in Errors, v \in Errors :
        /\ Bred(e1, e2) /\ Better(e1, e2) < lowest_error
        /\ Validated(v) /\ ~EarlyStops
        /\ best' = NewBest(Better(e1, e2), v)
  /\ lastvalidateerror' = validateerror'
  /\ lowest_error' = best'.error
  /\ genimproved' = gen
  /\ Continue(gen)
  /\ UNCHANGED trial

\* Early stopping: the trial ends, and keeps the best from before.
EarlyStop ==
  /\ \E e1, e2 \in Errors, v \in Errors :
        /\ Bred(e1, e2) /\ Better(e1, e2) < lowest_error
        /\ Validated(v) /\ EarlyStops
  /\ pc' = "end" /\ reason' = "early"
  /\ UNCHANGED <<trial, gen, lowest_error, best, lastvalidateerror, genimproved>>

\* The trial has had all its breedings.
Spent ==
  /\ pc = "breed" /\ gen = MaxBreedings
  /\ pc' = "end" /\ reason' = "spent"
  /\ UNCHANGED <<trial, gen, errorvars, history>>

\* What the validation at the end of the trial can give.  A program from an
\* earlier trial runs with other constants than those it was bred with.
\* Without a validation set, the loop runs over timestep -1.
FinalErrors ==
  IF ~Validating THEN {Stray}
  ELSE IF best.trial = trial THEN {best.val} ELSE Errors

\* Fault: a trial that was stopped early does not count.
NextTrialUncounted == IF reason = "early" THEN trial ELSE trial + 1

NextTrial == trial + 1

\* The best program is validated, for the ensemble (see Ensemble).
EndTrial ==
  /\ pc = "end"
  /\ validateerror' \in FinalErrors
  /\ trial' = NextTrial
  /\ pc' = "start"
  /\ UNCHANGED <<gen, lowest_error, best, lastvalidateerror, genimproved,
                 reason, history>>

\* All trials are over.
Finish ==
  /\ pc = "start" /\ trial >= Maxtrials
  /\ pc' = "done"
  /\ UNCHANGED <<trial, gen, errorvars, reason, history>>

Next ==
  \/ StartTrial \/ PerfectFound \/ NoImprovement \/ Improvement \/ EarlyStop
  \/ Spent \/ EndTrial \/ Finish

Spec == Init /\ [][Next]_vars

\* A sequential program: it takes a step whenever it can.
FairSpec == Spec /\ WF_vars(Next)

-----------------------------------------------------------------------------
(***************************************************************************)
(* Properties.                                                             *)
(***************************************************************************)

TypeOK ==
  /\ trial \in 0..Maxtrials
  /\ gen \in 0..MaxBreedings /\ genimproved \in 0..MaxBreedings
  /\ lowest_error \in Errors
  /\ best \in [error : Errors, val : 0..Unset, trial : NoTrial..Maxtrials-1]
  /\ validateerror \in 0..Stray /\ lastvalidateerror \in 0..Stray
  /\ pc \in {"start", "breed", "end", "done", "perfect"}
  /\ reason \in {"none", "early", "stagnated", "spent"}
  /\ lowestbred \in Errors /\ unimproved \in 0..MaxBreedings

InTrial == pc \in {"breed", "end"}

\* best is the best of all children that this trial has bred, in spite of the
\* restarts and of the three copies of its error; only early stopping leaves
\* the last child aside (lgp.c:1319-1360, "is the better child the best
\* individual so far in this trial?").
BestSoFar ==
  InTrial =>
     /\ lowest_error = best.error
     /\ reason # "early" => lowest_error = lowestbred
     /\ reason = "early" => lowest_error > lowestbred

\* A trial that improved at all hands over a program of its own, never one
\* that an earlier trial left in best.
OwnBest == InTrial /\ lowest_error < Worst => best.trial = trial

\* Early stopping happens only after an improvement whose validation error
\* came below the limit, and keeps that program (README, --earlystopping: "We
\* use the best individual before the fall in validation performance").
EarlyStopKeepsBest ==
  pc = "end" /\ reason = "early" =>
     /\ best.trial = trial
     /\ best.val <= EarlyLimit /\ best.val < validateerror
     /\ lastvalidateerror = best.val

\* A trial that has improved stagnates after exactly Stagnation breedings
\* without improvement.  One whose children all raised exceptions gets one
\* breeding more, as genimproved starts at 0, which is also the number of the
\* first breeding (lgp.c:1171, 1406), where README.md:110-111 says that a trial
\* ends "if this many breedings have occured, without improvement on the training
\* set".  No trial stagnates if Stagnation is at least its number of breedings
\* (lgp.h:28-30: "if STAGNATION >= maxgenerations*popsize, then it has no effect").
StagnatesInTime ==
  LET allowed == IF lowest_error = Worst THEN Stagnation + 1 ELSE Stagnation
  IN  /\ pc = "breed" => unimproved < allowed
      /\ pc = "end" /\ reason = "stagnated" =>
            unimproved = allowed /\ Stagnation < MaxBreedings

\* The run ends: in a perfect solution or after all trials.
Terminates == <>(pc \in {"done", "perfect"})

\* A perfect program ends the run (README, --maxtrials: "Termination can occur
\* earlier if a perfect solution is found"; lgp.c:1298).
PerfectEndsRun == InTrial => lowestbred # 0

=============================================================================
