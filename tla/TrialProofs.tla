----------------------------- MODULE TrialProofs -----------------------------
(***************************************************************************)
(* For any number of trials and breedings, any range of errors, and with or *)
(* without validation and early stopping: the safety properties of Trial,   *)
(* from one inductive invariant.                                           *)
(***************************************************************************)
EXTENDS Trial, TLAPS

\* Where in the trial loop the program can be, with which errors.
Phases ==
  /\ InTrial => trial < Maxtrials
  /\ pc = "breed" => reason = "none"
  /\ pc = "end" => reason # "none"

\* The three copies of the best error agree with each other and with the
\* history.  This is what each improvement and each restart must keep up.
Copies ==
  /\ InTrial => lowest_error = best.error
  /\ InTrial /\ reason # "early" => lowest_error = lowestbred
  /\ InTrial /\ reason = "early" => lowest_error > lowestbred

\* best is of this trial from the first improvement on, and lastvalidateerror
\* follows it.
Followed ==
  \/ lowest_error = Worst /\ lastvalidateerror = Worst
  \/ best.trial = trial /\ (Validating => lastvalidateerror = best.val)

\* How genimproved counts the breedings since the last improvement.  The trial
\* has had the breedings 0 to gen - 1, and without an improvement among them
\* genimproved is not the number of one.
Patience ==
  /\ pc = "breed" =>
        /\ unimproved = IF lowest_error = Worst THEN gen ELSE gen - 1 - genimproved
        /\ genimproved <= gen /\ gen - genimproved <= Stagnation
        /\ lowest_error = Worst => genimproved = 0
  /\ pc = "end" /\ reason = "stagnated" =>
        /\ gen < MaxBreedings /\ Stagnation < MaxBreedings
        /\ unimproved = IF lowest_error = Worst THEN Stagnation + 1 ELSE Stagnation

\* What is known of a trial that was stopped early.
Stopped ==
  pc = "end" /\ reason = "early" =>
     /\ best.trial = trial
     /\ best.val <= EarlyLimit /\ best.val < validateerror
     /\ lastvalidateerror = best.val

TrialInv ==
  TypeOK /\ Phases /\ Copies /\ (InTrial => Followed) /\ Patience /\ Stopped

-----------------------------------------------------------------------------

\* Nothing is known of the global best before the first trial, and nothing
\* needs to be.
LEMMA InitTrial == Init => TrialInv
<1> SUFFICES ASSUME Init PROVE TrialInv
  OBVIOUS
<1>1. /\ Worst \in Nat /\ Maxtrials \in Nat /\ MaxBreedings \in Nat
      /\ Stagnation \in Nat
  BY TrialAssumption
<1>2. TypeOK
  BY <1>1 DEF Init, TypeOK, Errors, Unset, Stray, NoTrial
<1> QED
  BY <1>2 DEF Init, TrialInv, Phases, Copies, Followed, Patience, Stopped, InTrial

\* A trial begins.
LEMMA StartTrialInv == TrialInv /\ StartTrial => TrialInv'
<1> SUFFICES ASSUME TrialInv, StartTrial PROVE TrialInv'
  OBVIOUS
<1>1. /\ Worst \in Nat /\ Maxtrials \in Nat /\ MaxBreedings \in Nat
      /\ Stagnation \in Nat /\ Stagnation > 0
  BY TrialAssumption
<1>2. TypeOK'
  BY <1>1 DEF TrialInv, TypeOK, StartTrial, Errors, Unset, Stray, NoTrial
<1>3. best'.error = Worst
  BY DEF TrialInv, TypeOK, StartTrial
<1> QED
  BY <1>1, <1>2, <1>3
  DEF StartTrial, TrialInv, Phases, Copies, Followed, Patience, Stopped, InTrial

\* A perfect first child ends everything.
LEMMA PerfectInv == TrialInv /\ PerfectFound => TrialInv'
  BY DEF PerfectFound, TrialInv, TypeOK, errorvars, history,
         Phases, Copies, Followed, Patience, Stopped, InTrial

\* The children's errors are errors, so the better one is, and is no higher
\* than either.
LEMMA BetterError ==
  ASSUME NEW e1 \in Errors, NEW e2 \in Errors
  PROVE  /\ Better(e1, e2) \in Errors
         /\ Better(e1, e2) = Lower(e1, e2)
         /\ \A m \in Errors : Lower(m, Lower(e1, e2)) \in Errors
  BY TrialAssumption DEF Better, Lower, Errors

\* A breeding without improvement.
LEMMA NoImprovementInv == TrialInv /\ NoImprovement => TrialInv'
<1> SUFFICES ASSUME TrialInv, NoImprovement PROVE TrialInv'
  OBVIOUS
<1>1. PICK e1 \in Errors, e2 \in Errors :
         Bred(e1, e2) /\ ~(Better(e1, e2) < lowest_error)
  BY DEF NoImprovement
<1>2. /\ Worst \in Nat /\ Maxtrials \in Nat /\ MaxBreedings \in Nat
      /\ Stagnation \in Nat
  BY TrialAssumption
<1>3. Continue(genimproved) /\ UNCHANGED <<trial, errorvars>>
  BY DEF NoImprovement
<1>4. /\ pc = "breed" /\ gen < MaxBreedings
      /\ reason = "none" /\ lowest_error = lowestbred /\ gen \in Nat
      /\ genimproved \in Nat /\ genimproved <= gen
      /\ gen - genimproved <= Stagnation
  BY <1>1, <1>2 DEF Bred, TrialInv, TypeOK, Phases, Copies, Patience, InTrial
<1>5. lowestbred' = lowestbred
  <2>1. lowestbred' = Lower(lowestbred, Better(e1, e2))
    BY <1>1, BetterError DEF Bred, Remembered
  <2>2. Better(e1, e2) \in Int /\ lowestbred \in Int
    BY <1>2, BetterError DEF Errors, TrialInv, TypeOK
  <2> QED
    BY <1>1, <1>4, <2>1, <2>2 DEF Lower
<1>6. /\ gen' \in 0..MaxBreedings
      /\ \/ /\ pc' = "breed" /\ reason' = "none" /\ gen' = gen + 1
            /\ gen' - genimproved <= Stagnation /\ genimproved <= gen'
         \/ /\ pc' = "end" /\ reason' = "stagnated"
            /\ gen' = gen /\ gen - genimproved = Stagnation
  BY <1>2, <1>3, <1>4 DEF Continue
<1>7. /\ unimproved' = unimproved + 1
      /\ unimproved' = IF lowest_error = Worst THEN gen + 1 ELSE gen - genimproved
      /\ lowest_error = Worst => genimproved = 0
      /\ unimproved' \in 0..MaxBreedings
  <2>1. unimproved' = unimproved + 1
    BY <1>1 DEF Bred, Remembered
  <2>2. /\ unimproved = IF lowest_error = Worst THEN gen ELSE gen - 1 - genimproved
        /\ lowest_error = Worst => genimproved = 0
        /\ unimproved \in Nat
    BY <1>2, <1>4 DEF TrialInv, TypeOK, Patience
  <2> QED
    BY <1>2, <1>4, <2>1, <2>2
<1>8. TypeOK'
  BY <1>3, <1>5, <1>6, <1>7 DEF TrialInv, TypeOK, errorvars
<1>9. UNCHANGED <<trial, lowest_error, best, lastvalidateerror, genimproved>>
  BY <1>3 DEF errorvars
<1>10. Patience'
  <2>1. CASE pc' = "breed" /\ gen' = gen + 1 /\ gen' - genimproved <= Stagnation
             /\ genimproved <= gen'
    BY <1>2, <1>4, <1>9, <1>7, <2>1 DEF Patience
  <2>2. CASE pc' = "end" /\ gen' = gen /\ gen - genimproved = Stagnation
    <3>1. gen < MaxBreedings /\ Stagnation < MaxBreedings
      BY <1>2, <1>4, <2>2
    <3>2. unimproved' = IF lowest_error = Worst THEN Stagnation + 1 ELSE Stagnation
      BY <1>2, <1>4, <1>7, <2>2
    <3> QED
      BY <1>9, <2>2, <3>1, <3>2 DEF Patience
  <2> QED
    BY <1>6, <2>1, <2>2
<1> QED
  BY <1>4, <1>5, <1>6, <1>8, <1>9, <1>10
  DEF TrialInv, Phases, Copies, Followed, Stopped, InTrial

\* A breeding that improves on the best.
LEMMA ImprovementInv == TrialInv /\ Improvement => TrialInv'
<1> SUFFICES ASSUME TrialInv, Improvement PROVE TrialInv'
  OBVIOUS
<1>1. PICK e1 \in Errors, e2 \in Errors, v \in Errors :
        /\ Bred(e1, e2) /\ Better(e1, e2) < lowest_error
        /\ Validated(v)
        /\ best' = NewBest(Better(e1, e2), v)
  BY DEF Improvement
<1>2. /\ Worst \in Nat /\ Maxtrials \in Nat /\ MaxBreedings \in Nat
      /\ Stagnation \in Nat /\ Stagnation > 0
  BY TrialAssumption
<1>3. /\ Continue(gen) /\ trial' = trial /\ genimproved' = gen
      /\ lowest_error' = best'.error /\ lastvalidateerror' = validateerror'
  BY DEF Improvement
<1>4. /\ pc = "breed" /\ gen < MaxBreedings /\ trial < Maxtrials
      /\ lowest_error = lowestbred /\ gen \in Nat /\ trial \in Nat
      /\ lowest_error \in Errors
  BY <1>1, <1>2 DEF Bred, TrialInv, TypeOK, Phases, Copies, InTrial
<1>5. /\ best'.error = Better(e1, e2) /\ best'.val = v /\ best'.trial = trial
      /\ best' \in [error : Errors, val : 0..Unset, trial : NoTrial..Maxtrials-1]
  BY <1>1, <1>2, <1>4, BetterError DEF NewBest, Errors, Unset, NoTrial
<1>6. lowestbred' = Better(e1, e2)
  <2>1. lowestbred' = Lower(lowestbred, Better(e1, e2))
    BY <1>1, BetterError DEF Bred, Remembered
  <2>2. Better(e1, e2) \in Int /\ lowestbred \in Int
    BY <1>2, <1>4, BetterError DEF Errors
  <2> QED
    BY <1>1, <1>4, <2>1, <2>2 DEF Lower
<1>7. /\ gen' = gen + 1 /\ gen' \in 0..MaxBreedings
      /\ pc' = "breed" /\ reason' = reason
  BY <1>2, <1>3, <1>4 DEF Continue
<1>8. /\ validateerror' \in 0..Stray
      /\ Validating => lastvalidateerror' = best'.val
  BY <1>1, <1>2, <1>3, <1>5 DEF Validated, TrialInv, TypeOK, Errors, Stray
<1>9. reason = "none"
  BY <1>4 DEF TrialInv, Phases
<1>10. unimproved' = 0 /\ lowest_error' # Worst
  BY <1>1, <1>2, <1>3, <1>4, <1>5, BetterError DEF Bred, Remembered, Errors
<1>11. TypeOK'
  BY <1>1, <1>2, <1>3, <1>4, <1>5, <1>6, <1>7, <1>8, <1>9, <1>10, BetterError
  DEF TrialInv, TypeOK
<1>12. Patience'
  BY <1>2, <1>3, <1>4, <1>7, <1>10 DEF Patience
<1> QED
  BY <1>2, <1>3, <1>4, <1>5, <1>6, <1>7, <1>8, <1>9, <1>11, <1>12
  DEF TrialInv, Phases, Copies, Followed, Stopped, InTrial

\* Early stopping.  The last validation error is below the limit and so below
\* Worst: there has been an improvement, and it is the one in best.
LEMMA EarlyStopInv == TrialInv /\ EarlyStop => TrialInv'
<1> SUFFICES ASSUME TrialInv, EarlyStop PROVE TrialInv'
  OBVIOUS
<1>1. PICK e1 \in Errors, e2 \in Errors, v \in Errors :
        /\ Bred(e1, e2) /\ Better(e1, e2) < lowest_error
        /\ Validated(v) /\ EarlyStops
  BY DEF EarlyStop
<1>2. /\ Worst \in Nat /\ EarlyLimit \in Nat /\ EarlyLimit < Worst
      /\ Validating
  BY <1>1, TrialAssumption DEF EarlyStops
<1>3. /\ pc' = "end" /\ reason' = "early"
      /\ UNCHANGED <<trial, gen, lowest_error, best, lastvalidateerror, genimproved>>
  BY DEF EarlyStop
<1>4. /\ pc = "breed" /\ trial < Maxtrials /\ lowest_error = best.error
      /\ lowest_error = lowestbred /\ lowest_error \in Errors /\ Followed
  BY <1>1 DEF Bred, TrialInv, TypeOK, Phases, Copies, InTrial
<1>5. lowestbred' = Better(e1, e2) /\ lowestbred' \in Errors
  <2>1. lowestbred' = Lower(lowestbred, Better(e1, e2))
    BY <1>1, BetterError DEF Bred, Remembered
  <2>2. /\ Better(e1, e2) \in Int /\ lowestbred \in Int
        /\ Better(e1, e2) \in Errors
    BY <1>2, <1>4, BetterError DEF Errors
  <2> QED
    BY <1>1, <1>4, <2>1, <2>2 DEF Lower
<1>6. validateerror' = v /\ v \in 0..Stray
  BY <1>1, <1>2 DEF Validated, Errors, Stray
<1>7. best.trial = trial /\ lastvalidateerror = best.val
  BY <1>1, <1>2, <1>4 DEF EarlyStops, Followed
<1>8. best.val <= EarlyLimit /\ best.val < validateerror'
  BY <1>1, <1>2, <1>6, <1>7 DEF EarlyStops, TrialInv, TypeOK, Errors, Unset
<1>9. unimproved' = 0
  BY <1>1 DEF Bred, Remembered
<1>10. TypeOK'
  BY <1>3, <1>5, <1>6, <1>9, TrialAssumption DEF TrialInv, TypeOK
<1>11. lowestbred' < lowest_error
  BY <1>1, <1>5
<1> QED
  BY <1>2, <1>3, <1>4, <1>5, <1>7, <1>8, <1>10, <1>11
  DEF TrialInv, Phases, Copies, Followed, Patience, Stopped, InTrial, Errors

\* The other steps: the last breeding, the end of the trial, of the run.
LEMMA EndInv == TrialInv /\ (Spent \/ EndTrial \/ Finish) => TrialInv'
<1> SUFFICES ASSUME TrialInv PROVE Spent \/ EndTrial \/ Finish => TrialInv'
  OBVIOUS
<1>1. CASE Spent
  BY <1>1 DEF Spent, TrialInv, TypeOK, errorvars, history,
              Phases, Copies, Followed, Patience, Stopped, InTrial
<1>2. CASE EndTrial
  <2>1. FinalErrors \subseteq 0..Stray
    BY TrialAssumption DEF FinalErrors, TrialInv, TypeOK, Errors, Unset, Stray
  <2>2. trial' \in 0..Maxtrials
    BY <1>2, TrialAssumption DEF EndTrial, NextTrial, TrialInv, TypeOK, Phases, InTrial
  <2> QED
    BY <1>2, <2>1, <2>2
    DEF EndTrial, history, NextTrial, TrialInv, TypeOK, Phases, Copies, Followed, Patience, Stopped, InTrial
<1>3. CASE Finish
  BY <1>3 DEF Finish, TrialInv, TypeOK, errorvars, history,
              Phases, Copies, Followed, Patience, Stopped, InTrial
<1> QED
  BY <1>1, <1>2, <1>3

LEMMA NextTrialInv == TrialInv /\ [Next]_vars => TrialInv'
<1> SUFFICES ASSUME TrialInv, [Next]_vars PROVE TrialInv'
  OBVIOUS
<1>1. CASE UNCHANGED vars
  BY <1>1 DEF vars, errorvars, history, TrialInv, TypeOK,
              Phases, Copies, Followed, Patience, Stopped, InTrial
<1> QED
  BY <1>1, StartTrialInv, PerfectInv, NoImprovementInv, ImprovementInv,
     EarlyStopInv, EndInv DEF Next

\* The invariant of the trial loop.
THEOREM TrialInvariance == Spec => []TrialInv
  BY InitTrial, NextTrialInv, PTL DEF Spec

-----------------------------------------------------------------------------

\* All variables of the trial loop keep their types.
THEOREM TrialTypes == Spec => []TypeOK
<1>1. TrialInv => TypeOK
  BY DEF TrialInv
<1> QED
  BY <1>1, TrialInvariance, PTL

\* best is the best of all children of the trial, except the one that stopped
\* it early, for every sequence of improvements, restarts and trials.
THEOREM BestIsBest == Spec => []BestSoFar
<1>1. TrialInv => BestSoFar
  BY DEF TrialInv, Copies, BestSoFar
<1> QED
  BY <1>1, TrialInvariance, PTL

\* After any improvement, best is a program of this trial.
THEOREM BestIsOwn == Spec => []OwnBest
<1>1. TrialInv => OwnBest
  BY TrialAssumption DEF TrialInv, TypeOK, Errors, Followed, OwnBest
<1> QED
  BY <1>1, TrialInvariance, PTL

\* Early stopping hands over a program that validates below the limit, and
\* better than the one that made the trial stop.
THEOREM EarlyStopKeeps == Spec => []EarlyStopKeepsBest
<1>1. TrialInv => EarlyStopKeepsBest
  BY DEF TrialInv, Stopped, EarlyStopKeepsBest
<1> QED
  BY <1>1, TrialInvariance, PTL

\* Counted by the history and not by genimproved, a trial stagnates after
\* exactly Stagnation breedings without improvement once it has improved, after
\* exactly one more if it never has, and not at all if it has no more than
\* Stagnation breedings.
THEOREM StagnationExact == Spec => []StagnatesInTime
<1>1. TrialInv => StagnatesInTime
  BY TrialAssumption DEF TrialInv, TypeOK, Patience, StagnatesInTime
<1> QED
  BY <1>1, TrialInvariance, PTL

=============================================================================
