------------------------------ MODULE Ensemble ------------------------------
(***************************************************************************)
(* The majority vote of the best programs of the trials (addto_ensemble,    *)
(* update_ensembled_indicator, ensemble_error and the end of the trial loop *)
(* of main, lgp.c), for a classification problem with a validation set.     *)
(*                                                                         *)
(* The ensemble is an array of output vectors.  The indicator, its vote, is *)
(* a global of its own: every change of the array is followed by a call     *)
(* that computes it again, and the errors before and after an addition are  *)
(* both measured on it.  A member whose addition does harm is removed.      *)
(*                                                                         *)
(* A program is what it answers at each timestep: 1, -1, or a floating      *)
(* point exception.  The exception ends the computation of the vector, and  *)
(* leaves the rest of it as malloc returned it.                            *)
(***************************************************************************)
EXTENDS Integers, Sequences, FiniteSets, SequencesExt

CONSTANTS
  TestStop,                      \* the data are timesteps 0..TestStop-1
  TrainStart, TrainStop,         \* the training window
  ValidateStart, ValidateStop,   \* the validation window
  Outputs,                       \* the right answers, a function on timesteps
  Junk,                          \* values that memory may hold
  Maxtrials                      \* number of trials

Times == 0..TestStop-1

\* A floating point exception.
Fpe == 0

ASSUME EnsembleAssumption ==
  /\ TestStop \in Nat
  /\ TrainStart \in Nat /\ TrainStop \in Nat /\ TrainStop <= TestStop
  /\ ValidateStart \in Nat /\ ValidateStop \in Nat /\ ValidateStop <= TestStop
  /\ ValidateStart < ValidateStop
  /\ Outputs \in [Times -> {-1, 1}]
  /\ Junk \subseteq Int /\ Junk # {}
  /\ Maxtrials \in Nat

\* What bestoutputs and the indicator may hold.
Values == {-1, 1} \cup Junk

-----------------------------------------------------------------------------

\* The programs a trial can end with.  Its own best raises no exception on the
\* training data, but a trial that never improves offers what an earlier one
\* left in best, which now runs with other constants (see Trial!OwnBest).
Programs == [Times -> {-1, 1, Fpe}]

\* Is timestep t reached when b runs from timestep `start' on?
Reached(b, start, t) == \A u \in start..t : b[u] # Fpe

\* The vectors that addto_ensemble may compute for b.
Vectors(b) ==
  {out \in [Times -> Values] :
      \A t \in Times : IF Reached(b, 0, t) THEN out[t] = b[t] ELSE out[t] \in Junk}

\* Misclassifications of vector v (compute_error and ensemble_error).
Misclassified(v, start, stop) ==
  Cardinality({t \in start..stop-1 : v[t] # Outputs[t]})

TrainError(v)    == Misclassified(v, TrainStart, TrainStop)
ValidateError(v) == Misclassified(v, ValidateStart, ValidateStop)

\* validateerror <= 0.5*validatesize, where the error is LDBL_MAX after an
\* exception.
Competent(b) ==
  /\ Reached(b, ValidateStart, ValidateStop-1)
  /\ 2 * ValidateError(b) <= ValidateStop - ValidateStart

\* Fault: vectors are not compared.
RecordAll(e, out) == Append(e, out)

\* The ensemble e with out, if it is not there yet (addto_ensemble).
Record(e, out) ==
  IF \E i \in 1..Len(e) : e[i] = out THEN e ELSE Append(e, out)

\* Fault: a tie is no vote.
VoteUndecided(e) ==
  [t \in Times |-> LET sum == SumFunction([i \in 1..Len(e) |-> e[i][t]])
                   IN  IF sum > 0 THEN 1 ELSE IF sum < 0 THEN -1 ELSE 0]

\* The vote of a non-empty ensemble (update_ensembled_indicator): the sign of
\* the average, and -1 if it is 0.
Vote(e) ==
  [t \in Times |-> IF SumFunction([i \in 1..Len(e) |-> e[i][t]]) > 0 THEN 1 ELSE -1]

\* Fault: a member that changes nothing is no use.
HarmsOrNot(before, after) ==
  \/ TrainError(after) >= TrainError(before)
  \/ ValidateError(after) >= ValidateError(before)

\* Fault: the validation error is forgotten.
HarmsTraining(before, after) == TrainError(after) > TrainError(before)

\* Has the error of the indicator grown on either set?
Harms(before, after) ==
  \/ TrainError(after) > TrainError(before)
  \/ ValidateError(after) > ValidateError(before)

\* Fault: the vote is not computed again after the removal.
VoteAfterRemoval(e, ind) == ind

\* The indicator after a removal that leaves ensemble e.
VoteAgain(e, ind) == Vote(e)

-----------------------------------------------------------------------------
VARIABLES
  trial,      \* trials so far
  ensemble,   \* bestoutputs[0..ensemblesize-1], a sequence of vectors
  indicator   \* the vote, or what malloc returned

vars == <<trial, ensemble, indicator>>

Init ==
  /\ trial = 0
  /\ ensemble = << >>
  /\ indicator \in [Times -> Junk]

\* The best program of the trial is no better than a coin, or there is only
\* one trial.
Ignore ==
  /\ trial < Maxtrials
  /\ \E b \in Programs : ~(Maxtrials > 1 /\ Competent(b))
  /\ trial' = trial + 1
  /\ UNCHANGED <<ensemble, indicator>>

\* The ensembles that addto_ensemble may make of the one there is, for the
\* programs that are considered.
Additions == {Record(ensemble, out) : out \in
                UNION {Vectors(b) : b \in {c \in Programs : Competent(c)}}}

\* The ensemble with the new vector does no harm, or it is the first.
Accept ==
  /\ trial < Maxtrials /\ Maxtrials > 1
  /\ \E added \in Additions :
        /\ ~(Len(added) > 1 /\ Harms(indicator, Vote(added)))
        /\ ensemble' = added
        /\ indicator' = Vote(added)
  /\ trial' = trial + 1

\* It does harm: the last member, whoever it is, is removed again.
TakeBack ==
  /\ trial < Maxtrials /\ Maxtrials > 1
  /\ \E added \in Additions :
        /\ Len(added) > 1 /\ Harms(indicator, Vote(added))
        /\ ensemble' = Front(added)
        /\ indicator' = VoteAgain(Front(added), Vote(added))
  /\ trial' = trial + 1

Next == Ignore \/ Accept \/ TakeBack

Spec == Init /\ [][Next]_vars

-----------------------------------------------------------------------------
(***************************************************************************)
(* Properties.                                                             *)
(***************************************************************************)

TypeOK ==
  /\ trial \in 0..Maxtrials
  /\ ensemble \in Seq([Times -> Values]) /\ Len(ensemble) <= trial
  /\ indicator \in [Times -> Values]

\* The indicator is the vote of the ensemble as it is, also after a removal
\* (lgp.c:991-992: "Whenever the ensemble changes, this must be called prior
\* to calling ensemble_error()").
IndicatorFresh == ensemble # << >> => indicator = Vote(ensemble)

\* No two members answer alike (lgp.c:969-970, "very simple diversity
\* enforced").
Diverse ==
  \A i, j \in 1..Len(ensemble) : ensemble[i] = ensemble[j] => i = j

\* A trial never takes a member away: the vector that is removed is always the
\* one just added, even when a duplicate was not added at all.
OnlyGrows == [][IsPrefix(ensemble, ensemble')]_vars

\* From the first member on, no trial makes the ensemble worse on the training
\* or the validation set (lgp.c:1479-1480: "We insist that addition of members
\* to ensemble improve performance on training (and validation?)").
NeverWorse ==
  [][ensemble # << >> =>
        /\ TrainError(indicator') <= TrainError(indicator)
        /\ ValidateError(indicator') <= ValidateError(indicator)]_vars

=============================================================================
