--------------------------- MODULE EnsembleProofs ---------------------------
(***************************************************************************)
(* For any data, windows, memory contents and number of trials: the         *)
(* indicator is always the vote of the ensemble as it is, no member is ever *)
(* recorded twice or lost, and no trial makes the ensemble worse.           *)
(*                                                                         *)
(* Nothing is used of the vote but its type, nor of the error but that it   *)
(* is a number: what matters is the order in which the array and the        *)
(* indicator change.                                                       *)
(***************************************************************************)
EXTENDS Ensemble, FiniteSetTheorems, SequenceTheorems, TLAPS

EnsembleInv == TypeOK /\ IndicatorFresh /\ Diverse

-----------------------------------------------------------------------------

\* The number of misclassifications is a number.
LEMMA ErrorType == \A v : TrainError(v) \in Nat /\ ValidateError(v) \in Nat
<1>1. ASSUME NEW v, NEW start \in Int, NEW stop \in Int
      PROVE  Misclassified(v, start, stop) \in Nat
  <2>1. IsFiniteSet(start..stop-1)
    BY FS_Interval
  <2>2. {t \in start..stop-1 : v[t] # Outputs[t]} \in SUBSET (start..stop-1)
    OBVIOUS
  <2>3. IsFiniteSet({t \in start..stop-1 : v[t] # Outputs[t]})
    BY <2>1, <2>2, FS_Subset
  <2> QED
    BY <2>3, FS_CardinalityType DEF Misclassified
<1> QED
  BY <1>1, EnsembleAssumption DEF TrainError, ValidateError

\* Nothing harms itself, and what does no harm is no worse.
LEMMA HarmsStrict ==
  ASSUME NEW v, NEW w
  PROVE  /\ ~Harms(v, v)
         /\ ~Harms(v, w) => /\ TrainError(w) <= TrainError(v)
                            /\ ValidateError(w) <= ValidateError(v)
  BY ErrorType DEF Harms

\* The vote is a vector.
LEMMA VoteType == \A e : Vote(e) \in [Times -> Values]
  BY DEF Vote, Values

\* What addto_ensemble makes of an ensemble: either a duplicate is dropped, or
\* one vector that is not there yet comes at the end.
LEMMA AddedShape ==
  ASSUME ensemble \in Seq([Times -> Values]), NEW added \in Additions
  PROVE  \/ added = ensemble
         \/ \E out \in [Times -> Values] :
               /\ added = Append(ensemble, out)
               /\ \A i \in 1..Len(ensemble) : ensemble[i] # out
<1>1. PICK b \in Programs : \E out \in Vectors(b) : added = Record(ensemble, out)
  BY DEF Additions
<1>2. PICK out \in Vectors(b) : added = Record(ensemble, out)
  BY <1>1
<1>3. out \in [Times -> Values]
  BY DEF Vectors
<1> QED
  BY <1>2, <1>3 DEF Record

\* The ensemble with a new vector at its end, and what remains without it.
LEMMA Appended ==
  ASSUME NEW e \in Seq([Times -> Values]), NEW out \in [Times -> Values]
  PROVE  /\ Append(e, out) \in Seq([Times -> Values])
         /\ Len(Append(e, out)) = Len(e) + 1
         /\ Front(Append(e, out)) = e
         /\ IsPrefix(e, Append(e, out))
<1>1. /\ Append(e, out) \in Seq([Times -> Values])
      /\ Len(Append(e, out)) = Len(e) + 1
      /\ \A i \in 1..Len(e) : Append(e, out)[i] = e[i]
      /\ Len(e) \in Nat
  BY AppendProperties, LenProperties
<1>2. SubSeq(Append(e, out), 1, Len(e)) = e
  BY <1>1, SubSeqFull
<1>3. SubSeq(e, 1, Len(e)) = e
  BY SubSeqFull
<1> QED
  BY <1>1, <1>2, <1>3 DEF Front, IsPrefix

LEMMA PrefixSelf == \A e \in Seq([Times -> Values]) : IsPrefix(e, e)
  BY LenProperties DEF IsPrefix

\* A new vector keeps the members different.
LEMMA AppendDiverse ==
  ASSUME NEW e \in Seq([Times -> Values]), NEW out \in [Times -> Values],
         \A i, j \in 1..Len(e) : e[i] = e[j] => i = j,
         \A i \in 1..Len(e) : e[i] # out,
         NEW f, f = Append(e, out)
  PROVE  \A i, j \in 1..Len(f) : f[i] = f[j] => i = j
<1>1. /\ Len(f) = Len(e) + 1 /\ Len(e) \in Nat
      /\ \A i \in 1..Len(e) : f[i] = e[i]
      /\ f[Len(e)+1] = out
  BY AppendProperties, LenProperties
<1>2. \A i \in 1..Len(f) : i \in 1..Len(e) \/ i = Len(e) + 1
  BY <1>1
<1> QED
  BY <1>1, <1>2

-----------------------------------------------------------------------------

\* There is nothing in the ensemble, and anything in the indicator.
LEMMA InitEnsemble == Init => EnsembleInv
<1> SUFFICES ASSUME Init PROVE EnsembleInv
  OBVIOUS
<1>1. ensemble \in Seq([Times -> Values]) /\ Len(ensemble) = 0
  BY EmptySeq DEF Init
<1>2. trial = 0 /\ 0 \in 0..Maxtrials
  BY EnsembleAssumption DEF Init
<1>3. indicator \in [Times -> Values]
  BY DEF Init, Values
<1>4. Diverse
  BY <1>1 DEF Diverse
<1> QED
  BY <1>1, <1>2, <1>3, <1>4 DEF Init, EnsembleInv, TypeOK, IndicatorFresh

\* One more trial.
LEMMA TrialCounted ==
  EnsembleInv /\ trial < Maxtrials /\ trial' = trial + 1
  => /\ trial' \in 0..Maxtrials /\ trial \in Nat
     /\ Len(ensemble) \in Nat /\ Len(ensemble) <= trial
  BY EnsembleAssumption, LenProperties DEF EnsembleInv, TypeOK

\* A trial that is ignored.
LEMMA IgnoreInv == EnsembleInv /\ Ignore => EnsembleInv'
<1> SUFFICES ASSUME EnsembleInv, Ignore PROVE EnsembleInv'
  OBVIOUS
<1>1. trial < Maxtrials /\ trial' = trial + 1 /\ UNCHANGED <<ensemble, indicator>>
  BY DEF Ignore
<1>2. trial' \in 0..Maxtrials /\ Len(ensemble) <= trial'
  BY <1>1, TrialCounted
<1> QED
  BY <1>1, <1>2 DEF EnsembleInv, TypeOK, IndicatorFresh, Diverse

\* A trial whose program becomes a member, or is one already.
LEMMA AcceptInv == EnsembleInv /\ Accept => EnsembleInv'
<1> SUFFICES ASSUME EnsembleInv, Accept PROVE EnsembleInv'
  OBVIOUS
<1>1. PICK added \in Additions : ensemble' = added /\ indicator' = Vote(added)
  BY DEF Accept
<1>2. /\ trial' = trial + 1 /\ trial' \in 0..Maxtrials /\ trial \in Nat
      /\ Len(ensemble) \in Nat /\ Len(ensemble) <= trial
  BY TrialCounted DEF Accept
<1>3. ensemble \in Seq([Times -> Values])
  BY DEF EnsembleInv, TypeOK
<1>4. CASE added = ensemble
  BY <1>1, <1>2, <1>4, VoteType
  DEF EnsembleInv, TypeOK, IndicatorFresh, Diverse
<1>5. ASSUME NEW out \in [Times -> Values], added = Append(ensemble, out),
             \A i \in 1..Len(ensemble) : ensemble[i] # out
      PROVE  EnsembleInv'
  <2>1. ensemble' \in Seq([Times -> Values]) /\ Len(ensemble') = Len(ensemble) + 1
    BY <1>1, <1>3, <1>5, Appended
  <2>2. \A i, j \in 1..Len(added) : added[i] = added[j] => i = j
    BY <1>3, <1>5, AppendDiverse DEF EnsembleInv, Diverse
  <2> QED
    BY <1>1, <1>2, <2>1, <2>2, VoteType
    DEF EnsembleInv, TypeOK, IndicatorFresh, Diverse
<1> QED
  BY <1>3, <1>4, <1>5, AddedShape

\* A trial whose program does harm.  A duplicate cannot: it leaves the vote as
\* it was.  So the removal undoes an addition, and the vote computed again is
\* the one from before.
LEMMA TakeBackRestores ==
  EnsembleInv /\ TakeBack => UNCHANGED <<ensemble, indicator>>
<1> SUFFICES ASSUME EnsembleInv, TakeBack PROVE UNCHANGED <<ensemble, indicator>>
  OBVIOUS
<1>1. PICK added \in Additions :
         /\ Len(added) > 1 /\ Harms(indicator, Vote(added))
         /\ ensemble' = Front(added)
         /\ indicator' = VoteAgain(Front(added), Vote(added))
  BY DEF TakeBack
<1>2. ensemble \in Seq([Times -> Values])
  BY DEF EnsembleInv, TypeOK
<1>3. added # ensemble
  <2> SUFFICES ASSUME added = ensemble PROVE FALSE
    OBVIOUS
  <2>1. ensemble # << >>
    BY <1>1, EmptySeq
  <2>2. indicator = Vote(added)
    BY <2>1 DEF EnsembleInv, IndicatorFresh
  <2> QED
    BY <1>1, <2>2, HarmsStrict
<1>4. PICK out \in [Times -> Values] : added = Append(ensemble, out)
  BY <1>2, <1>3, AddedShape
<1>5. Front(added) = ensemble /\ Len(ensemble) > 0
  <2>1. Len(added) = Len(ensemble) + 1 /\ Front(added) = ensemble
    BY <1>2, <1>4, Appended
  <2>2. Len(ensemble) \in Nat
    BY <1>2, LenProperties
  <2> QED
    BY <1>1, <2>1, <2>2
<1>6. ensemble # << >>
  BY <1>5, EmptySeq
<1>7. indicator = Vote(ensemble)
  BY <1>6 DEF EnsembleInv, IndicatorFresh
<1> QED
  BY <1>1, <1>5, <1>7 DEF VoteAgain

LEMMA TakeBackInv == EnsembleInv /\ TakeBack => EnsembleInv'
<1> SUFFICES ASSUME EnsembleInv, TakeBack PROVE EnsembleInv'
  OBVIOUS
<1>1. trial < Maxtrials /\ trial' = trial + 1
  BY DEF TakeBack
<1>2. trial' \in 0..Maxtrials /\ Len(ensemble) <= trial'
  BY <1>1, TrialCounted
<1>3. UNCHANGED <<ensemble, indicator>>
  BY TakeBackRestores
<1> QED
  BY <1>2, <1>3 DEF EnsembleInv, TypeOK, IndicatorFresh, Diverse

LEMMA NextEnsembleInv == EnsembleInv /\ [Next]_vars => EnsembleInv'
<1> SUFFICES ASSUME EnsembleInv, [Next]_vars PROVE EnsembleInv'
  OBVIOUS
<1>1. CASE UNCHANGED vars
  BY <1>1 DEF vars, EnsembleInv, TypeOK, IndicatorFresh, Diverse
<1> QED
  BY <1>1, IgnoreInv, AcceptInv, TakeBackInv DEF Next

\* The invariant of the ensemble.
THEOREM EnsembleInvariance == Spec => []EnsembleInv
  BY InitEnsemble, NextEnsembleInv, PTL DEF Spec

-----------------------------------------------------------------------------

\* The variables of the ensemble keep their types, and it has at most one
\* member for each trial.
THEOREM EnsembleTypes == Spec => []TypeOK
<1>1. EnsembleInv => TypeOK
  BY DEF EnsembleInv
<1> QED
  BY <1>1, EnsembleInvariance, PTL

\* The indicator is never stale.
THEOREM AlwaysFresh == Spec => []IndicatorFresh
<1>1. EnsembleInv => IndicatorFresh
  BY DEF EnsembleInv
<1> QED
  BY <1>1, EnsembleInvariance, PTL

\* No two members are the same.
THEOREM AlwaysDiverse == Spec => []Diverse
<1>1. EnsembleInv => Diverse
  BY DEF EnsembleInv
<1> QED
  BY <1>1, EnsembleInvariance, PTL

\* No trial removes a member that it did not add.
THEOREM MembersStay == Spec => OnlyGrows
<1>1. EnsembleInv /\ [Next]_vars => [IsPrefix(ensemble, ensemble')]_vars
  <2> SUFFICES ASSUME EnsembleInv, Next PROVE IsPrefix(ensemble, ensemble')
    OBVIOUS
  <2>1. ensemble \in Seq([Times -> Values])
    BY DEF EnsembleInv, TypeOK
  <2>2. CASE Ignore \/ TakeBack
    BY <2>1, <2>2, PrefixSelf, TakeBackRestores DEF Ignore
  <2>3. CASE Accept
    <3>1. PICK added \in Additions : ensemble' = added
      BY <2>3 DEF Accept
    <3> QED
      BY <2>1, <3>1, AddedShape, Appended, PrefixSelf
  <2> QED
    BY <2>2, <2>3 DEF Next
<1> QED
  BY <1>1, EnsembleInvariance, PTL DEF Spec, OnlyGrows

\* From the first member on, no trial raises the error of the vote on the
\* training or the validation set.
THEOREM NoTrialHarms == Spec => NeverWorse
<1> DEFINE NoWorse == ensemble # << >> =>
                        /\ TrainError(indicator') <= TrainError(indicator)
                        /\ ValidateError(indicator') <= ValidateError(indicator)
<1>1. EnsembleInv /\ [Next]_vars => [NoWorse]_vars
  <2> SUFFICES ASSUME EnsembleInv, Next, ensemble # << >>
               PROVE  /\ TrainError(indicator') <= TrainError(indicator)
                      /\ ValidateError(indicator') <= ValidateError(indicator)
    OBVIOUS
  <2>1. /\ ensemble \in Seq([Times -> Values])
        /\ indicator = Vote(ensemble)
    BY DEF EnsembleInv, TypeOK, IndicatorFresh
  <2>2. SUFFICES ~Harms(indicator, indicator')
    BY HarmsStrict
  <2>3. CASE Ignore \/ TakeBack
    BY <2>3, HarmsStrict, TakeBackRestores DEF Ignore
  <2>4. CASE Accept
    <3>1. PICK added \in Additions :
             /\ ~(Len(added) > 1 /\ Harms(indicator, Vote(added)))
             /\ indicator' = Vote(added)
      BY <2>4 DEF Accept
    <3>2. CASE added = ensemble
      BY <2>1, <3>1, <3>2, HarmsStrict
    <3>3. CASE added # ensemble
      <4>1. PICK out \in [Times -> Values] : added = Append(ensemble, out)
        BY <2>1, <3>3, AddedShape
      <4>2. Len(added) = Len(ensemble) + 1
        BY <2>1, <4>1, Appended
      <4>3. Len(ensemble) \in Nat /\ Len(ensemble) # 0
        BY <2>1, EmptySeq, LenProperties
      <4> QED
        BY <3>1, <4>2, <4>3
    <3> QED
      BY <3>2, <3>3
  <2> QED
    BY <2>3, <2>4 DEF Next
<1> QED
  BY <1>1, EnsembleInvariance, PTL DEF Spec, NeverWorse

=============================================================================
