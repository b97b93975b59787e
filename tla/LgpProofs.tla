------------------------------- MODULE LgpProofs --------------------------------
(***************************************************************************)
(* Theorems about Lgp, for populations, demes and trials of any size: its  *)
(* steps are steps of Demes and of Trial, so that what is proved of each   *)
(* holds of the two together; the statistics that are plotted at the end   *)
(* of a trial are of this trial; and the best program of a trial goes on   *)
(* breeding.                                                               *)
(***************************************************************************)
EXTENDS Lgp, TLAPS

\* P and T, with what is proved of them.
PP == INSTANCE DemesProofs WITH
        Errors <- 0..Worst, Codelens <- {Codelen},
        pc <- IF stage \in {"breed", "tail"} THEN stage ELSE "done"

TP == INSTANCE TrialProofs WITH pc <- IF stage = "tail" THEN "breed" ELSE stage

---------------------------------------------------------------------------------
(***************************************************************************)
(* PP is P, and TP is T.                                                   *)
(***************************************************************************)
LEMMA Assumptions ==
  /\ PP!DemesAssumption /\ TP!TrialAssumption
  /\ Maxtrials \in Nat /\ MaxBreedings \in Nat /\ Worst \in Nat \ {0}
  /\ InitialErrors \subseteq 0..Worst /\ Huge \in 0..Worst
<1>1. /\ P!DemesAssumption /\ T!TrialAssumption
      /\ InitialErrors \subseteq 0..Worst /\ Huge \in 0..Worst
  BY LgpAssumption DEF LgpAssumption
<1> QED
  BY <1>1 DEF P!DemesAssumption, PP!DemesAssumption, T!TrialAssumption, TP!TrialAssumption

LEMMA SameDemes ==
  /\ P!Slots = PP!Slots /\ P!DemeIds = PP!DemeIds
  /\ PP!Pops = [P!Slots -> [error : 0..Worst, codelen : {Codelen}]]
  /\ P!NMigrate = PP!NMigrate /\ P!DemeSize = PP!DemeSize
  /\ \A d : P!Deme(d) = PP!Deme(d) /\ P!NextDeme(d) = PP!NextDeme(d)
  /\ \A p, d : P!Tournaments(p, d) = PP!Tournaments(p, d)
  /\ \A p : P!SortedPops(p) = PP!SortedPops(p) /\ P!Migrated(p) = PP!Migrated(p)
<1>1. \A d : P!DemeStart(d) = PP!DemeStart(d) /\ P!Deme(d) = PP!Deme(d)
              /\ P!NextDeme(d) = PP!NextDeme(d)
              /\ P!From(d) = PP!From(d) /\ P!To(d) = PP!To(d)
  BY DEF P!DemeStart, PP!DemeStart, P!Deme, PP!Deme, P!DemeSize, PP!DemeSize,
         P!NextDeme, PP!NextDeme, P!From, PP!From, P!To, PP!To
<1>2. /\ P!Slots = PP!Slots /\ P!DemeIds = PP!DemeIds
      /\ PP!Pops = [P!Slots -> [error : 0..Worst, codelen : {Codelen}]]
      /\ P!NMigrate = PP!NMigrate /\ P!DemeSize = PP!DemeSize
  BY DEF P!Slots, PP!Slots, P!DemeIds, PP!DemeIds, PP!Pops, PP!Individuals,
         P!NMigrate, PP!NMigrate, P!DemeSize, PP!DemeSize
<1>3. \A p, d : P!Tournaments(p, d) = PP!Tournaments(p, d)
  BY <1>1 DEF P!Tournaments, PP!Tournaments, P!Drawn, PP!Drawn,
              P!Winner, PP!Winner, P!Loser, PP!Loser
<1>4. \A p : P!SortedPops(p) = PP!SortedPops(p)
  BY DEF P!SortedPops, PP!SortedPops, P!SortedDeme, PP!SortedDeme,
         P!Slots, PP!Slots, P!DemeIds, PP!DemeIds, P!Deme, PP!Deme,
         P!DemeStart, PP!DemeStart, P!DemeSize, PP!DemeSize,
         P!Bijection, PP!Bijection, P!Injection, PP!Injection,
         P!Surjection, PP!Surjection, P!IsInjective, PP!IsInjective
<1>5. \A p : P!Migrated(p) = PP!Migrated(p)
  BY DEF P!Migrated, PP!Migrated, P!NMigrate, PP!NMigrate,
         P!From, PP!From, P!To, PP!To, P!NextDeme, PP!NextDeme
<1> QED
  BY <1>1, <1>2, <1>3, <1>4, <1>5

LEMMA SameTrial ==
  /\ T!Init <=> TP!Init
  /\ [T!Next]_T!vars <=> [TP!Next]_TP!vars
<1>1. T!Init <=> TP!Init
  BY DEF T!Init, TP!Init, T!Unset, TP!Unset, T!NoTrial, TP!NoTrial
<1>2. UNCHANGED T!vars <=> UNCHANGED TP!vars
  BY DEF T!vars, TP!vars, T!errorvars, TP!errorvars, T!history, TP!history
<1>3. T!Next <=> TP!Next
  BY DEF T!Next, TP!Next, T!errorvars, TP!errorvars, T!history, TP!history,
         T!Remembered, TP!Remembered,
         T!StartTrial, TP!StartTrial, T!PerfectFound, TP!PerfectFound,
         T!NoImprovement, TP!NoImprovement, T!Improvement, TP!Improvement,
         T!EarlyStop, TP!EarlyStop, T!Spent, TP!Spent,
         T!EndTrial, TP!EndTrial, T!Finish, TP!Finish,
         T!Errors, TP!Errors, T!Bred, TP!Bred, T!Better, TP!Better,
         T!Lower, TP!Lower, T!Continue, TP!Continue, T!Validated, TP!Validated,
         T!EarlyStops, TP!EarlyStops, T!NewBest, TP!NewBest,
         T!FinalErrors, TP!FinalErrors, T!NextTrial, TP!NextTrial, T!Stray, TP!Stray
<1> QED
  BY <1>1, <1>2, <1>3

---------------------------------------------------------------------------------
(***************************************************************************)
(* Breedings and generational equivalents: division by Popsize.            *)
(***************************************************************************)
\* The quotient and the remainder of two numbers.
LEMMA Division ==
  ASSUME NEW n \in Nat, NEW p \in Nat \ {0}
  PROVE  /\ n \div p \in Nat
         /\ p * (n \div p) <= n
         /\ n < p * (n \div p) + p
         /\ n % p = 0 <=> n = p * (n \div p)
<1>1. n \div p \in Nat /\ n % p \in 0..(p - 1)
  OBVIOUS
<1>2. n = p * (n \div p) + (n % p)
  OBVIOUS
<1> QED
  BY <1>1, <1>2

\* Of a product of numbers, the larger has the larger factor.
LEMMA Factors ==
  ASSUME NEW p \in Nat \ {0}, NEW j \in Nat, NEW k \in Nat
  PROVE  /\ j < k => p * j + p <= p * k
         /\ p * j < p * k => j < k
         /\ p * j = p * k => j = k
<1>1. ASSUME NEW a \in Nat, NEW b \in Nat, a < b
      PROVE  p * a + p <= p * b
  <2>1. PICK d \in Nat : b = a + 1 + d
    <3>1. b - a - 1 \in Nat /\ b = a + 1 + (b - a - 1)
      BY <1>1
    <3> QED
      BY <3>1
  <2>2. p * b = p * a + p + p * d
    BY <2>1
  <2>3. p * d >= 0 /\ p * a \in Nat /\ p * d \in Nat
    OBVIOUS
  <2> QED
    BY <2>2, <2>3
<1>2. p * j \in Nat /\ p * k \in Nat
  OBVIOUS
<1> QED
  BY <1>1, <1>2

\* A trial has Popsize breedings for each of its generational equivalents.
LEMMA Generations ==
  /\ Popsize \in Nat \ {0} /\ MaxBreedings \in Nat
  /\ Maxgenerations \in Nat /\ MaxBreedings = Popsize * Maxgenerations
<1>1. Popsize \in Nat \ {0} /\ MaxBreedings \in Nat /\ MaxBreedings % Popsize = 0
  BY LgpAssumption DEF LgpAssumption, P!DemesAssumption, T!TrialAssumption
<1> QED
  BY <1>1, Division DEF Maxgenerations

---------------------------------------------------------------------------------
(***************************************************************************)
(* The inductive invariant.                                                *)
(***************************************************************************)
Counted ==
  /\ gen \in 0..MaxBreedings
  /\ stage = "tail" => gen < MaxBreedings

\* Statistics have been recorded for all generational equivalents, the first of
\* which is not one, that ended before this breeding.
Fresh ==
  /\ stats \in [Recorded -> Int]
  /\ 0 \in Recorded => stats[0] = Never
  /\ stage \in {"breed", "tail", "end"} =>
       \A k \in Recorded : (k # 0 /\ Popsize * k < gen) => stats[k] = trial

FreshInv == trial \in Int /\ Counted /\ Fresh

\* Nothing is recorded at first.
LEMMA InitFresh == Init => FreshInv
  BY Generations DEF Init, T!Init, FreshInv, Counted, Fresh, Recorded, Never

\* The end of the generation loop records what Fresh asks of the next breeding.
LEMMA EndOfBreedingFresh ==
  ASSUME FreshInv, stage = "tail", EndOfBreeding, UNCHANGED trial
  PROVE  FreshInv'
<1> DEFINE q == gen \div Popsize
<1> USE DEF FreshInv
<1>1. gen \in Nat /\ gen < MaxBreedings /\ trial \in Int
  BY Generations DEF Counted
<1>2. stage' = "breed" /\ gen' = gen + 1 /\ trial' = trial
  BY DEF EndOfBreeding
<1>3. Counted'
  BY <1>1, <1>2, Generations DEF Counted
<1>4. /\ q \in Nat /\ Popsize * q <= gen
      /\ gen % Popsize = 0 <=> gen = Popsize * q
  BY <1>1, Generations, Division
<1> HIDE DEF q
<1>5. q \in Recorded
  <2>1. Popsize * q < Popsize * Maxgenerations
    BY <1>1, <1>4, Generations
  <2> QED
    BY <2>1, <1>4, Generations, Factors DEF Recorded
<1>6. \A k \in Recorded : Popsize * k = gen => k = q /\ gen % Popsize = 0
  <2> SUFFICES ASSUME NEW k \in Recorded, Popsize * k = gen
               PROVE  k = q /\ gen % Popsize = 0
    OBVIOUS
  <2>1. k \in Nat
    BY DEF Recorded
  <2>3. ~(q < k)
    BY <1>1, <1>4, <2>1, Factors, Generations, Division DEF q
  <2>4. ~(k < q)
    BY <1>4, <2>1, Factors, Generations
  <2> QED
    BY <1>4, <2>1, <2>3, <2>4
<1>7. CASE gen # 0 /\ gen % Popsize = 0
  <2>1. stats' = [stats EXCEPT ![q] = trial]
    BY <1>7 DEF EndOfBreeding, RecordStats, q
  <2>2. q # 0
    BY <1>4, <1>7, Generations
  <2>3. stats' \in [Recorded -> Int] /\ (0 \in Recorded => stats'[0] = Never)
    BY <1>1, <1>5, <2>1, <2>2 DEF Fresh
  <2>4. ASSUME NEW k \in Recorded, k # 0, Popsize * k < gen + 1
        PROVE  stats'[k] = trial
    <3>1. Popsize * k \in Nat
      BY Generations DEF Recorded
    <3>2. CASE Popsize * k < gen
      BY <1>5, <2>1, <2>4, <3>2 DEF Fresh
    <3>3. CASE Popsize * k = gen
      BY <1>5, <1>6, <2>1, <3>3 DEF Fresh
    <3> QED
      BY <1>1, <2>4, <3>1, <3>2, <3>3
  <2>5. Fresh'
    BY <1>2, <2>3, <2>4 DEF Fresh, Recorded, Maxgenerations
  <2> QED
    BY <1>1, <1>2, <1>3, <2>5
<1>8. CASE ~(gen # 0 /\ gen % Popsize = 0)
  <2>1. stats' = stats
    BY <1>8 DEF EndOfBreeding, RecordStats
  <2>2. ASSUME NEW k \in Recorded, k # 0, Popsize * k < gen + 1
        PROVE  stats[k] = trial
    <3>1. Popsize * k \in Nat
      BY Generations DEF Recorded
    <3>2. Popsize * k # gen
      <4>1. k >= 1 /\ k \in Nat
        BY <2>2 DEF Recorded
      <4>2. Popsize * k # 0
        BY <4>1, Generations
      <4> QED
        BY <1>6, <1>8, <2>2, <4>2
    <3>3. Popsize * k < gen
      BY <1>1, <2>2, <3>1, <3>2
    <3> QED
      BY <2>2, <3>3 DEF Fresh
  <2>3. Fresh'
    BY <1>2, <2>1, <2>2 DEF Fresh, Recorded, Maxgenerations
  <2> QED
    BY <1>1, <1>2, <1>3, <2>3
<1> QED
  BY <1>7, <1>8

\* When the loop is left, nothing has been recorded for this breeding.
LEMMA LeaveFresh ==
  ASSUME FreshInv, stage = "tail", NEW why, Leave(why), UNCHANGED trial
  PROVE  FreshInv'
  BY DEF FreshInv, Counted, Fresh, Leave

\* Judging the children does one or the other.
LEMMA ContinueFresh ==
  ASSUME FreshInv, stage = "tail", NEW improved, Continue(improved), UNCHANGED trial
  PROVE  FreshInv'
  BY EndOfBreedingFresh, LeaveFresh DEF Continue

\* Every step keeps the statistics fresh.
LEMMA NextFresh ==
  ASSUME FreshInv, [Next]_vars
  PROVE  FreshInv'
<1>1. CASE StartTrial
  <2>1. /\ gen' = 0 /\ stage' = "breed" /\ UNCHANGED << trial, stats >>
    BY <1>1 DEF StartTrial, T!StartTrial
  <2>2. \A k \in Recorded : ~(Popsize * k < 0)
    BY Generations DEF Recorded
  <2> QED
    BY <2>1, <2>2, Generations DEF FreshInv, Counted, Fresh
<1>2. CASE Breed
  BY <1>2, Generations DEF FreshInv, Counted, Fresh, Breed
<1>3. CASE PerfectFound
  BY <1>3 DEF FreshInv, Counted, Fresh, PerfectFound
<1>4. CASE NoImprovement
  BY <1>4, ContinueFresh DEF NoImprovement, Judging
<1>5. CASE Improvement
  BY <1>5, ContinueFresh DEF Improvement, Judging
<1>6. CASE EarlyStop
  BY <1>6, LeaveFresh DEF EarlyStop, Judging
<1>7. CASE Spent
  BY <1>7 DEF FreshInv, Counted, Fresh, Spent
<1>8. CASE EndTrial
  BY <1>8 DEF FreshInv, Counted, Fresh, EndTrial, T!EndTrial, T!NextTrial
<1>9. CASE Finish
  BY <1>9 DEF FreshInv, Counted, Fresh, Finish, T!Finish
<1>10. CASE CrossoverFails \/ UNCHANGED vars
  BY <1>10 DEF FreshInv, Counted, Fresh, CrossoverFails, vars
<1> QED
  BY <1>1, <1>2, <1>3, <1>4, <1>5, <1>6, <1>7, <1>8, <1>9, <1>10 DEF Next

\* All that is plotted at the end of a trial was recorded in this trial
\* (lgp.c:1411-1446, 1506-1514).
THEOREM PlotsAreFresh == Spec => []PlotFresh
<1>1. FreshInv => PlotFresh
  <2> SUFFICES ASSUME FreshInv, stage = "end", NEW k \in Plotted(0, gen \div Popsize)
               PROVE  stats[k] = IF k = 0 THEN Never ELSE trial
    BY DEF PlotFresh
  <2> DEFINE q == gen \div Popsize
  <2>1. gen \in Nat /\ gen <= MaxBreedings
    BY Generations DEF FreshInv, Counted
  <2>2. q \in Nat /\ Popsize * q <= gen
    BY <2>1, Generations, Division
  <2>3. k \in 0..(q - 1)
    BY DEF Plotted
  <2> HIDE DEF q
  <2>4. k \in Nat /\ k < q
    BY <2>2, <2>3
  <2>5. Popsize * k + Popsize <= Popsize * q
    BY <2>2, <2>4, Generations, Factors
  <2>6. Popsize * k < gen /\ Popsize * k < Popsize * Maxgenerations
    BY <2>1, <2>2, <2>4, <2>5, Generations
  <2>7. k \in Recorded
    BY <2>4, <2>6, Generations, Factors DEF Recorded
  <2> QED
    BY <2>6, <2>7 DEF FreshInv, Fresh
<1> QED
  BY <1>1, InitFresh, NextFresh, PTL DEF Spec
---------------------------------------------------------------------------------
(***************************************************************************)
(* The population and the children.                                        *)
(***************************************************************************)
\* Children wait to be judged in two slots of the deme in which they were bred.
Bred ==
  /\ pop \in PP!Pops
  /\ deme \in PP!DemeIds
  /\ stage \in {"start", "breed", "tail", "end", "done", "perfect"}
  /\ IF stage \in {"tail", "perfect"}
       THEN children \in PP!Slots \X PP!Slots /\ children[1] # children[2]
       ELSE children = << >>
  /\ stage = "tail" => {children[1], children[2]} \subseteq PP!Deme(deme)

\* A new population is one.
LEMMA NewPopsType == NewPops \subseteq PP!Pops
  BY Assumptions, SameDemes DEF NewPops

LEMMA FirstDeme == P!NextDeme(0) \in PP!DemeIds
<1>1. 0 \in PP!DemeIds
  BY Assumptions DEF PP!DemesAssumption, PP!DemeIds
<1> QED
  BY <1>1, SameDemes, Assumptions, PP!NextDemeType

LEMMA InitBred == Init => Bred
  BY NewPopsType, FirstDeme DEF Init, Bred

\* A breeding overwrites the errors of two losers of the deme.
LEMMA BreedStep ==
  ASSUME Bred, Breed
  PROVE  \E t \in PP!Tournaments(pop, deme), e1 \in 0..Worst, e2 \in 0..Worst :
           /\ children' = << t.loser1, t.loser2 >>
           /\ {t.parent1, t.parent2, t.loser1, t.loser2} \subseteq PP!Deme(deme)
           /\ {t.parent1, t.parent2, t.loser1, t.loser2} \subseteq PP!Slots
           /\ t.loser1 # t.loser2
           /\ pop' \in PP!Pops
           /\ pop' = [pop EXCEPT ![t.loser1] = [error |-> e1, codelen |-> Codelen],
                                 ![t.loser2] = [error |-> e2, codelen |-> Codelen]]
<1>1. PICK t \in PP!Tournaments(pop, deme), e1 \in 0..Worst, e2 \in 0..Worst :
        /\ children' = << t.loser1, t.loser2 >>
        /\ pop' = [pop EXCEPT ![t.loser1].error = e1, ![t.loser2].error = e2]
  <2>1. PICK t \in P!Tournaments(pop, deme), e1 \in 0..Worst, e2 \in 0..Worst :
          /\ children' = Replaced(t)
          /\ pop' = [pop EXCEPT ![Replaced(t)[1]].error = e1, ![Replaced(t)[2]].error = e2]
    BY DEF Breed
  <2>2. t \in PP!Tournaments(pop, deme)
    BY SameDemes
  <2>3. Replaced(t) = << t.loser1, t.loser2 >>
    BY DEF Replaced
  <2>4. Replaced(t)[1] = t.loser1 /\ Replaced(t)[2] = t.loser2
    BY <2>3
  <2>5. pop' = [pop EXCEPT ![t.loser1].error = e1, ![t.loser2].error = e2]
    BY <2>1, <2>4
  <2> QED
    BY <2>1, <2>2, <2>3, <2>5
<1>2. /\ {t.parent1, t.parent2, t.loser1, t.loser2} \subseteq PP!Deme(deme)
      /\ t.loser1 # t.loser2
  BY Assumptions, PP!TournamentInDeme DEF Bred
<1>3. PP!Deme(deme) \subseteq PP!Slots
  BY Assumptions, PP!DemeInSlots DEF Bred
<1>4. pop \in [PP!Slots -> [error : 0..Worst, codelen : {Codelen}]]
  BY SameDemes DEF Bred
<1>5. \A x \in [error : 0..Worst, codelen : {Codelen}] : \A e \in 0..Worst :
        [x EXCEPT !.error = e] = [error |-> e, codelen |-> Codelen]
  OBVIOUS
<1>6. pop' = [pop EXCEPT ![t.loser1] = [error |-> e1, codelen |-> Codelen],
                         ![t.loser2] = [error |-> e2, codelen |-> Codelen]]
  <2>1. /\ pop[t.loser1] \in [error : 0..Worst, codelen : {Codelen}]
        /\ pop[t.loser2] \in [error : 0..Worst, codelen : {Codelen}]
    BY <1>2, <1>3, <1>4
  <2>2. /\ [pop[t.loser1] EXCEPT !.error = e1] = [error |-> e1, codelen |-> Codelen]
        /\ [pop[t.loser2] EXCEPT !.error = e2] = [error |-> e2, codelen |-> Codelen]
    BY <1>5, <2>1
  <2> QED
    BY <1>1, <1>2, <1>3, <1>4, <2>2
<1>7. pop' \in PP!Pops
  <2>1. pop' \in [PP!Slots -> [error : 0..Worst, codelen : {Codelen}]]
    BY <1>4, <1>6
  <2> QED
    BY <2>1, SameDemes
<1>8. {t.parent1, t.parent2, t.loser1, t.loser2} \subseteq PP!Slots
  BY <1>2, <1>3
<1> WITNESS t \in PP!Tournaments(pop, deme), e1 \in 0..Worst, e2 \in 0..Worst
<1> QED
  BY <1>1, <1>2, <1>6, <1>7, <1>8

\* Migration gives a population.
LEMMA EndOfBreedingBred ==
  ASSUME Bred, EndOfBreeding, children' = << >>
  PROVE  Bred'
<1>1. pop' \in PP!Pops
  <2>1. CASE P!Due
    <3>1. PICK q \in PP!SortedPops(pop) : pop' = PP!Migrated(q)
      BY <2>1, SameDemes DEF EndOfBreeding
    <3>2. q \in PP!Pops
      BY Assumptions, PP!SortedPopsType DEF Bred
    <3> QED
      BY <3>1, <3>2, Assumptions, PP!MigratedType
  <2>2. CASE ~P!Due
    BY <2>2 DEF EndOfBreeding, Bred
  <2> QED
    BY <2>1, <2>2
<1>2. deme' \in PP!DemeIds /\ stage' = "breed"
  BY SameDemes, Assumptions, PP!NextDemeType DEF EndOfBreeding, Bred
<1> QED
  BY <1>1, <1>2 DEF Bred

LEMMA ContinueBred ==
  ASSUME Bred, NEW improved, Continue(improved), children' = << >>
  PROVE  Bred'
  BY EndOfBreedingBred DEF Continue, Leave, Bred

LEMMA NextBred ==
  ASSUME Bred, [Next]_vars
  PROVE  Bred'
<1>1. CASE StartTrial
  BY <1>1, NewPopsType, FirstDeme DEF StartTrial, Bred
<1>2. CASE Breed
  <2>1. PICK t \in PP!Tournaments(pop, deme) :
          /\ children' = << t.loser1, t.loser2 >> /\ t.loser1 # t.loser2
          /\ {t.loser1, t.loser2} \subseteq PP!Deme(deme)
          /\ {t.loser1, t.loser2} \subseteq PP!Slots
          /\ pop' \in PP!Pops
    BY <1>2, BreedStep
  <2>2. stage' = "tail" /\ deme' = deme
    BY <1>2 DEF Breed
  <2> QED
    BY <2>1, <2>2 DEF Bred
<1>3. CASE PerfectFound
  BY <1>3 DEF PerfectFound, Bred
<1>4. CASE NoImprovement
  BY <1>4, ContinueBred DEF NoImprovement, Judging
<1>5. CASE Improvement
  BY <1>5, ContinueBred DEF Improvement, Judging
<1>6. CASE EarlyStop
  BY <1>6 DEF EarlyStop, Judging, Leave, Bred
<1>7. CASE Spent
  BY <1>7 DEF Spent, Bred
<1>8. CASE EndTrial
  BY <1>8 DEF EndTrial, Bred
<1>9. CASE Finish
  BY <1>9 DEF Finish, Bred
<1>10. CASE CrossoverFails \/ UNCHANGED vars
  BY <1>10 DEF CrossoverFails, vars, Bred
<1> QED
  BY <1>1, <1>2, <1>3, <1>4, <1>5, <1>6, <1>7, <1>8, <1>9, <1>10 DEF Next

---------------------------------------------------------------------------------
(***************************************************************************)
(* The steps are those of Demes and of Trial.                              *)
(***************************************************************************)
\* The generation loop treats the population as Demes says (lgp.c:1195-1460).
LEMMA NextBreeds ==
  ASSUME Bred, Next, stage = "breed" \/ stage = "tail"
  PROVE  P!Next \/ UNCHANGED << pop, gen, deme, stage >>
<1>1. CASE Breed
  <2>1. PICK t \in PP!Tournaments(pop, deme), e1 \in 0..Worst, e2 \in 0..Worst :
          /\ {t.parent1, t.parent2} \subseteq PP!Slots
          /\ pop' = [pop EXCEPT ![t.loser1] = [error |-> e1, codelen |-> Codelen],
                                ![t.loser2] = [error |-> e2, codelen |-> Codelen]]
    BY <1>1, BreedStep
  <2>2. pop[t.parent1].codelen = Codelen /\ pop[t.parent2].codelen = Codelen
    BY <2>1, SameDemes DEF Bred
  <2>3. t \in P!Tournaments(pop, deme)
    BY SameDemes
  <2>4. /\ stage = "breed" /\ stage' = "tail" /\ gen < MaxBreedings
        /\ UNCHANGED << gen, deme >>
    BY <1>1 DEF Breed
  <2>5. Codelen \in {Codelen}
        /\ Codelen + Codelen = pop[t.parent1].codelen + pop[t.parent2].codelen
    BY <2>2
  <2>6. P!Breed
    BY <2>1, <2>3, <2>4, <2>5 DEF P!Breed
  <2> QED
    BY <2>6 DEF P!Next
<1>2. ASSUME NEW improved, Judging, Continue(improved)
      PROVE  P!Next
  <2>1. CASE EndOfBreeding
    BY <1>2, <2>1 DEF Judging, EndOfBreeding, P!Next, P!EndOfBreeding
  <2>2. CASE Leave("stagnated")
    BY <1>2, <2>2 DEF Judging, Leave, P!Next, P!Break
  <2> QED
    BY <1>2, <2>1, <2>2 DEF Continue
<1>3. CASE NoImprovement
  BY <1>2, <1>3 DEF NoImprovement
<1>4. CASE Improvement
  BY <1>2, <1>4 DEF Improvement
<1>5. CASE EarlyStop
  BY <1>5 DEF EarlyStop, Judging, Leave, P!Next, P!Break
<1>6. CASE PerfectFound
  BY <1>6 DEF PerfectFound, P!Next, P!Break
<1>7. CASE Spent
  BY <1>7 DEF Spent, P!Next, P!EndOfTrial
<1>8. CASE CrossoverFails
  BY <1>8 DEF CrossoverFails, vars
<1>9. CASE StartTrial \/ EndTrial \/ Finish
  BY <1>9 DEF StartTrial, EndTrial, Finish
<1> QED
  BY <1>1, <1>3, <1>4, <1>5, <1>6, <1>7, <1>8, <1>9 DEF Next

\* The children's errors are errors.
LEMMA ChildErrors ==
  ASSUME Bred, stage = "tail"
  PROVE  ChildError(1) \in T!Errors /\ ChildError(2) \in T!Errors
  BY SameDemes DEF Bred, ChildError, T!Errors

\* What is judged goes as Trial says: the breeding of the children and their
\* judging are there one step (lgp.c:1298-1404).
LEMMA NextJudges ==
  ASSUME Bred, Counted, [Next]_vars
  PROVE  [T!Next]_T!vars
<1>1. CASE StartTrial
  BY <1>1 DEF StartTrial, T!Next
<1>2. CASE Breed
  BY <1>2 DEF Breed, T!vars, errorvars, T!errorvars, history, T!history
<1>3. CASE PerfectFound
  BY <1>3 DEF PerfectFound, Counted, errorvars, T!Next, T!PerfectFound, T!errorvars,
     history, T!history
<1>4. ASSUME Judging
      PROVE  T!Bred(ChildError(1), ChildError(2)) /\ trial' = trial
  BY <1>4 DEF Judging, T!Bred, Counted
<1>5. ASSUME NEW improved, Continue(improved), stage = "tail"
      PROVE  T!Continue(improved)
  BY <1>5 DEF Continue, Leave, EndOfBreeding, T!Continue
<1>6. CASE NoImprovement
  <2>1. stage = "tail" /\ UNCHANGED << trial, errorvars >>
    BY <1>6 DEF NoImprovement, Judging
  <2>2. /\ T!Bred(ChildError(1), ChildError(2)) /\ T!Continue(genimproved)
        /\ ~(T!Better(ChildError(1), ChildError(2)) < lowest_error)
    BY <1>4, <1>5, <1>6, <2>1 DEF NoImprovement, BetterError
  <2>3. T!NoImprovement
    BY <2>1, <2>2, ChildErrors DEF T!NoImprovement, errorvars, T!errorvars
  <2> QED
    BY <2>3 DEF T!Next
<1>7. CASE Improvement
  <2>1. PICK v \in 0..Worst :
          /\ T!Validated(v) /\ ~T!EarlyStops /\ best' = T!NewBest(BetterError, v)
    BY <1>7 DEF Improvement
  <2>2. /\ Judging /\ stage = "tail" /\ BetterError < lowest_error
        /\ lastvalidateerror' = validateerror' /\ lowest_error' = best'.error
        /\ genimproved' = gen /\ Continue(gen)
    BY <1>7 DEF Improvement, Judging
  <2>3. /\ T!Bred(ChildError(1), ChildError(2)) /\ T!Continue(gen) /\ trial' = trial
        /\ v \in T!Errors
    BY <1>4, <1>5, <2>2 DEF T!Errors
  <2>4. T!Improvement
    BY <2>1, <2>2, <2>3, ChildErrors DEF T!Improvement, BetterError
  <2> QED
    BY <2>4 DEF T!Next
<1>8. CASE EarlyStop
  <2>1. PICK v \in 0..Worst : T!Validated(v) /\ T!EarlyStops
    BY <1>8 DEF EarlyStop
  <2>2. /\ Judging /\ stage = "tail" /\ BetterError < lowest_error /\ Leave("early")
        /\ UNCHANGED << lowest_error, best, lastvalidateerror, genimproved >>
    BY <1>8 DEF EarlyStop, Judging
  <2>3. /\ T!Bred(ChildError(1), ChildError(2)) /\ trial' = trial /\ v \in T!Errors
        /\ gen' = gen /\ stage' = "end" /\ reason' = "early"
    BY <1>4, <2>2 DEF T!Errors, Leave
  <2>4. T!EarlyStop
    BY <2>1, <2>2, <2>3, ChildErrors DEF T!EarlyStop, BetterError
  <2> QED
    BY <2>4 DEF T!Next
<1>9. CASE Spent
  BY <1>9 DEF Spent, errorvars, T!Next, T!Spent, T!errorvars, history, T!history
<1>10. CASE EndTrial \/ Finish
  BY <1>10 DEF EndTrial, Finish, T!Next
<1>11. CASE CrossoverFails \/ UNCHANGED vars
  BY <1>11 DEF CrossoverFails, vars, errorvars, T!vars, T!errorvars, history, T!history
<1> QED
  BY <1>1, <1>2, <1>3, <1>6, <1>7, <1>8, <1>9, <1>10, <1>11 DEF Next

---------------------------------------------------------------------------------
(***************************************************************************)
(* What Lgp, Demes and Trial keep up together.                             *)
(***************************************************************************)
LgpInv ==
  /\ Bred /\ FreshInv /\ TP!TrialInv
  /\ stats \in [Recorded -> Never..(Maxtrials - 1)]

LEMMA InitLgp == Init => LgpInv
<1> SUFFICES ASSUME Init PROVE LgpInv
  OBVIOUS
<1>1. TP!TrialInv
  BY Assumptions, SameTrial, TP!InitTrial DEF Init
<1>2. stats \in [Recorded -> Never..(Maxtrials - 1)]
  BY Assumptions DEF Init, Never
<1> QED
  BY <1>1, <1>2, InitBred, InitFresh DEF LgpInv

\* What is recorded is the number of a trial of the run.
LEMMA NextStats ==
  ASSUME LgpInv, [Next]_vars
  PROVE  stats' \in [Recorded -> Never..(Maxtrials - 1)]
<1>1. CASE UNCHANGED stats
  BY <1>1 DEF LgpInv, Recorded, Maxgenerations
<1>2. CASE stage = "tail" /\ RecordStats
  <2>1. trial \in 0..Maxtrials /\ trial < Maxtrials
    BY <1>2 DEF LgpInv, TP!TrialInv, TP!TypeOK, TP!Phases, TP!InTrial
  <2>2. trial \in Never..(Maxtrials - 1)
    BY <2>1, Assumptions DEF Never
  <2> QED
    BY <1>2, <2>2 DEF LgpInv, RecordStats, Recorded, Maxgenerations
<1> QED
  BY <1>1, <1>2 DEF Next, vars, StartTrial, Breed, PerfectFound, NoImprovement,
     Improvement, EarlyStop, Judging, Continue, Leave, EndOfBreeding, Spent, EndTrial,
     Finish, CrossoverFails

LEMMA NextLgp ==
  ASSUME LgpInv, [Next]_vars
  PROVE  LgpInv'
<1>1. TP!TrialInv'
  <2>1. [TP!Next]_TP!vars
    BY NextJudges, SameTrial DEF LgpInv, FreshInv
  <2> QED
    BY <2>1, Assumptions, TP!NextTrialInv DEF LgpInv
<1> QED
  BY <1>1, NextBred, NextFresh, NextStats DEF LgpInv

\* The invariant of the loops of main: a trial of a population, its best
\* program and its statistics (lgp.c:1142-1517).
THEOREM LgpInvariance == Spec => []LgpInv
  BY InitLgp, NextLgp, PTL DEF Spec

\* Children wait in two different slots until they are judged, the population
\* stays one and the deme a deme, through all trials (lgp.c:1183-1460).
THEOREM LgpTypes == Spec => []TypeOK
<1>1. LgpInv => TypeOK
  BY SameDemes DEF LgpInv, Bred, TypeOK
<1> QED
  BY <1>1, LgpInvariance, PTL

\* Every step of the generation loop is one of Demes, in which migration and
\* tournaments have been proved about: nothing else touches the population.
THEOREM LoopBreedsLikeDemes == Spec => BreedsLikeDemes
<1>1. ASSUME LgpInv, [Next]_vars
      PROVE  [stage = "breed" \/ stage = "tail" => P!Next]_<< pop, gen, deme, stage >>
  BY <1>1, NextBreeds DEF LgpInv, vars
<1> QED
  BY <1>1, LgpInvariance, PTL DEF Spec, BreedsLikeDemes

\* The loops of main judge the children of the population as Trial does those
\* of any errors: the breeding and the judging of the children are there one
\* step.
THEOREM LoopJudgesLikeTrial == Spec => JudgesLikeTrial
<1>1. Init => T!Init
  BY DEF Init
<1>2. ASSUME LgpInv, [Next]_vars
      PROVE  [T!Next]_T!vars
  BY <1>2, NextJudges DEF LgpInv, FreshInv
<1> QED
  BY <1>1, <1>2, LgpInvariance, PTL DEF Spec, JudgesLikeTrial, T!Spec

\* What holds of Trial for children of any errors holds for those of the
\* population: best is the best of all children of the trial, and of this trial
\* once one is found (lgp.c:1319-1360).
THEOREM LoopKeepsBest == Spec => [](T!BestSoFar /\ T!OwnBest)
<1>1. LgpInv => T!BestSoFar /\ T!OwnBest
  BY Assumptions DEF LgpInv, TP!TrialInv, TP!Copies, TP!Followed, TP!InTrial,
         T!BestSoFar, T!OwnBest, T!InTrial
<1> QED
  BY <1>1, LgpInvariance, PTL

---------------------------------------------------------------------------------
(***************************************************************************)
(* The best program goes on breeding.                                      *)
(***************************************************************************)
\* There are fewer migrants than a deme has members, or none at all.
FewMigrants == Ndemes = 1 \/ MigrationPercent = 0 \/ PP!NMigrate < PP!DemeSize

\* A member of a deme is as good as e.  (One in a slot between the demes would
\* not do: migrants may be copied there.)
Alive(e) == \E d \in PP!DemeIds : \E s \in PP!Deme(d) : pop[s].error <= e

\* A best program of this trial has such a rival, and at the start of a trial
\* best is of an earlier one.
Rivalled ==
  /\ best.trial <= trial
  /\ stage = "start" => best.trial < trial
  /\ stage \in {"breed", "tail", "end"} /\ best.trial = trial => Alive(best.error)

\* The parents of children that take the places of losers are as good.
LEMMA BreedAlive ==
  ASSUME Bred, Breed, NEW e \in Nat, Alive(e)
  PROVE  Alive(e)'
<1>1. PICK t \in PP!Tournaments(pop, deme), e1 \in 0..Worst, e2 \in 0..Worst :
        /\ {t.parent1, t.parent2, t.loser1, t.loser2} \subseteq PP!Deme(deme)
        /\ {t.parent1, t.parent2, t.loser1, t.loser2} \subseteq PP!Slots
        /\ pop' = [pop EXCEPT ![t.loser1] = [error |-> e1, codelen |-> Codelen],
                              ![t.loser2] = [error |-> e2, codelen |-> Codelen]]
  BY BreedStep
<1>2. /\ pop[t.parent1].error <= pop[t.loser1].error
      /\ pop[t.parent2].error <= pop[t.loser2].error
      /\ {t.parent1, t.parent2} \cap {t.loser1, t.loser2} = {}
  BY Assumptions, PP!LosersHaveRivals DEF Bred
<1>3. PICK d \in PP!DemeIds : \E s \in PP!Deme(d) : pop[s].error <= e
  BY DEF Alive
<1> PICK s \in PP!Deme(d) : pop[s].error <= e
  BY <1>3
<1>4. s \in PP!Slots
  BY <1>3, Assumptions, PP!DemeInSlots
<1>5. \A x \in PP!Slots : pop[x].error \in Nat
  BY SameDemes DEF Bred
<1>6. \A x \in PP!Slots : x \notin {t.loser1, t.loser2} => pop'[x] = pop[x]
  BY <1>1, SameDemes DEF Bred
<1>7. deme' = deme
  BY DEF Breed
<1>8. CASE s \notin {t.loser1, t.loser2}
  <2>1. pop'[s].error <= e
    BY <1>3, <1>4, <1>6, <1>8
  <2> QED
    BY <1>3, <2>1 DEF Alive
<1>9. ASSUME NEW p \in {t.parent1, t.parent2}, pop[p].error <= pop[s].error
      PROVE  Alive(e)'
  <2>1. p \in PP!Deme(deme) /\ pop'[p] = pop[p]
    BY <1>1, <1>2, <1>6, <1>9
  <2>2. pop'[p].error <= e
    BY <1>1, <1>3, <1>4, <1>5, <1>9, <2>1
  <2>3. deme \in PP!DemeIds
    BY DEF Bred
  <2> QED
    BY <2>1, <2>2, <2>3 DEF Alive
<1> QED
  BY <1>2, <1>8, <1>9

\* Migration keeps the best of each deme.
LEMMA EndOfBreedingAlive ==
  ASSUME FewMigrants, Bred, EndOfBreeding, NEW e \in Nat, Alive(e)
  PROVE  Alive(e)'
<1>1. CASE P!Due
  <2>1. PICK q \in PP!SortedPops(pop) : pop' = PP!Migrated(q)
    BY <1>1, SameDemes DEF EndOfBreeding
  <2>2. PICK d \in PP!DemeIds : \E s \in PP!Deme(d) : pop[s].error <= e
    BY DEF Alive
  <2> PICK s \in PP!Deme(d) : pop[s].error <= e
    BY <2>2
  <2>3. PP!NMigrate < PP!DemeSize
    BY <1>1 DEF P!Due, FewMigrants
  <2>4. PP!BestError(pop', d) <= PP!BestError(pop, d)
    BY <2>1, <2>3, Assumptions, PP!MigrationKeepsBest DEF Bred
  <2>5. pop' \in PP!Pops
    BY <2>1, Assumptions, PP!SortedPopsType, PP!MigratedType DEF Bred
  <2>6. PP!BestError(pop, d) <= pop[s].error /\ PP!BestError(pop, d) \in Nat
    BY <2>2, Assumptions, PP!BestExists DEF Bred
  <2>7. PICK r \in PP!Deme(d) : PP!BestError(pop', d) = pop'[r].error
    BY <2>5, Assumptions, PP!BestExists
  <2>8. PP!BestError(pop', d) \in Nat
    BY <2>5, Assumptions, PP!BestExists
  <2>9. pop[s].error \in Nat
    BY <2>2, Assumptions, SameDemes, PP!DemeInSlots DEF Bred
  <2>10. pop'[r].error <= e
    BY <2>2, <2>4, <2>6, <2>7, <2>8, <2>9
  <2> QED
    BY <2>10 DEF Alive
<1>2. CASE ~P!Due
  BY <1>2 DEF EndOfBreeding, Alive
<1> QED
  BY <1>1, <1>2

LEMMA ContinueAlive ==
  ASSUME FewMigrants, Bred, NEW improved, Continue(improved), NEW e \in Nat, Alive(e)
  PROVE  Alive(e)'
<1>1. CASE EndOfBreeding
  BY <1>1, EndOfBreedingAlive
<1>2. CASE Leave("stagnated")
  BY <1>2 DEF Leave, Alive
<1> QED
  BY <1>1, <1>2 DEF Continue

LEMMA InitRivalled == Init => Rivalled
  BY DEF Init, T!Init, T!NoTrial, Rivalled

LEMMA NextRivalled ==
  ASSUME FewMigrants, LgpInv, Rivalled, [Next]_vars
  PROVE  Rivalled'
<1>1. /\ trial \in Nat /\ best.trial \in Int /\ best.error \in Nat
      /\ best'.error \in Nat
  BY NextLgp, Assumptions DEF LgpInv, TP!TrialInv, TP!TypeOK, TP!Errors, TP!NoTrial
<1>2. CASE StartTrial
  <2>1. best'.trial = best.trial
    BY <1>2 DEF StartTrial, T!StartTrial, LgpInv, TP!TrialInv, TP!TypeOK
  <2>2. trial' = trial /\ stage = "start"
    BY <1>2 DEF StartTrial, T!StartTrial
  <2> QED
    BY <1>1, <2>1, <2>2 DEF Rivalled
<1>3. CASE Breed
  <2>1. UNCHANGED << best, trial >> /\ stage = "breed" /\ stage' = "tail"
    BY <1>3 DEF Breed, errorvars
  <2>2. best.trial = trial => Alive(best.error)'
    BY <1>1, <1>3, <2>1, BreedAlive DEF LgpInv, Rivalled
  <2> QED
    BY <2>1, <2>2 DEF Rivalled, Alive
<1>4. CASE NoImprovement
  <2>1. UNCHANGED << best, trial >> /\ stage = "tail" /\ stage' \in {"breed", "end"}
    BY <1>4 DEF NoImprovement, Judging, errorvars, Continue, Leave, EndOfBreeding
  <2>2. best.trial = trial => Alive(best.error)'
    BY <1>1, <1>4, <2>1, ContinueAlive DEF LgpInv, Rivalled, NoImprovement
  <2> QED
    BY <2>1, <2>2 DEF Rivalled, Alive
<1>5. CASE Improvement
  <2>1. /\ stage = "tail" /\ stage' \in {"breed", "end"} /\ trial' = trial
        /\ best'.trial = trial /\ best'.error = BetterError
    BY <1>5 DEF Improvement, Judging, Continue, Leave, EndOfBreeding, T!NewBest
  <2>2. PICK i \in {1, 2} : BetterError = pop[children[i]].error
    BY DEF BetterError, T!Better, ChildError
  <2>3. children[i] \in PP!Deme(deme) /\ deme \in PP!DemeIds
    BY <2>1 DEF LgpInv, Bred
  <2>4. Alive(BetterError)
    BY <1>1, <2>1, <2>2, <2>3 DEF Alive
  <2> PICK e \in Nat : e = BetterError
    BY <1>1, <2>1
  <2>5. Alive(e)'
    BY <1>5, <2>4, ContinueAlive DEF LgpInv, Improvement
  <2> QED
    BY <1>1, <2>1, <2>5 DEF Rivalled, Alive
<1>6. CASE EarlyStop
  BY <1>6 DEF EarlyStop, Judging, Leave, Rivalled, Alive
<1>7. CASE Spent
  BY <1>7 DEF Spent, errorvars, Rivalled, Alive
<1>8. CASE EndTrial
  BY <1>1, <1>8 DEF EndTrial, T!EndTrial, T!NextTrial, Rivalled
<1>9. CASE PerfectFound \/ Finish
  BY <1>9 DEF PerfectFound, Finish, T!Finish, errorvars, T!errorvars, Rivalled
<1>10. CASE CrossoverFails \/ UNCHANGED vars
  BY <1>10 DEF CrossoverFails, vars, errorvars, Rivalled, Alive
<1> QED
  BY <1>2, <1>3, <1>4, <1>5, <1>6, <1>7, <1>8, <1>9, <1>10 DEF Next

LEMMA RivalInvariance ==
  ASSUME FewMigrants
  PROVE  Spec => []Rivalled
<1>1. ASSUME LgpInv, Rivalled, [Next]_vars
      PROVE  Rivalled'
  BY <1>1, NextRivalled
<1> QED
  BY <1>1, InitRivalled, LgpInvariance, PTL DEF Spec

\* As long as a trial lasts, a member of the population is at least as good as
\* the best program of the trial, whatever is bred and wherever the best of a
\* deme migrate, provided that fewer migrate than a deme has members
\* (lgp.c:917-950, 1195-1250, 1353).
THEOREM BestGoesOnBreeding ==
  ASSUME FewMigrants
  PROVE  Spec => []BestSurvives
<1>1. Rivalled => BestSurvives
  <2> SUFFICES ASSUME Rivalled, stage \in {"breed", "tail", "end"}, best.trial = trial
               PROVE  \E s \in P!Slots : pop[s].error <= best.error
    BY DEF BestSurvives
  <2>1. PICK d \in PP!DemeIds : \E s \in PP!Deme(d) : pop[s].error <= best.error
    BY DEF Rivalled, Alive
  <2> QED
    BY <2>1, Assumptions, SameDemes, PP!DemeInSlots
<1> QED
  BY <1>1, RivalInvariance, PTL

\* The average is over no errors at all only in a trial that has bred no program
\* with an error below 1.0e10 (lgp.c:1420-1434).
THEOREM AveragesAreOfSome ==
  ASSUME FewMigrants
  PROVE  Spec => AveragesExist
<1>1. ASSUME LgpInv, LgpInv', Rivalled', [Next]_vars,
             stage = "tail", stats' # stats, Averaged(pop') = {}
      PROVE  lowest_error' >= Huge
  <2>1. stage' = "breed"
    BY <1>1 DEF Next, vars, StartTrial, Breed, PerfectFound, NoImprovement,
       Improvement, EarlyStop, Judging, Continue, Leave, EndOfBreeding, Spent, EndTrial,
       Finish, CrossoverFails
  <2>2. /\ lowest_error' \in 0..Worst /\ best'.error = lowest_error'
        /\ lowest_error' = Worst \/ best'.trial = trial'
    BY <1>1, <2>1 DEF LgpInv, TP!TrialInv, TP!TypeOK, TP!Errors, TP!Copies,
       TP!Followed, TP!InTrial
  <2>3. ASSUME best'.trial = trial'
        PROVE  lowest_error' >= Huge
    <3>1. PICK d \in PP!DemeIds : \E s \in PP!Deme(d) : pop'[s].error <= best'.error
      BY <1>1, <2>1, <2>3 DEF Rivalled, Alive
    <3> PICK s \in PP!Deme(d) : pop'[s].error <= best'.error
      BY <3>1
    <3>2. s \in P!Slots
      BY <3>1, Assumptions, SameDemes, PP!DemeInSlots
    <3>3. pop'[s].error \in 0..Worst
      BY <1>1, <3>2, SameDemes DEF LgpInv, Bred
    <3>4. ~(pop'[s].error < Huge)
      BY <1>1, <3>2 DEF Averaged
    <3> QED
      BY <2>2, <3>1, <3>3, <3>4, Assumptions
  <2> QED
    BY <2>2, <2>3, Assumptions
<1>2. ASSUME LgpInv, LgpInv', Rivalled', [Next]_vars
      PROVE  [stage = "tail" /\ stats' # stats /\ Averaged(pop') = {}
                => lowest_error' >= Huge]_vars
  BY <1>1, <1>2
<1> QED
  BY <1>2, RivalInvariance, LgpInvariance, PTL DEF Spec, AveragesExist
=================================================================================
