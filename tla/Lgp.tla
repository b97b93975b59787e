----------------------------------- MODULE Lgp ----------------------------------
(***************************************************************************)
(* The two loops of main (lgp.c) together: the breedings of Demes on the   *)
(* population, and the trials of Trial, which judge the children that are  *)
(* bred.  The generation loop is here what it is in the program: children  *)
(* are put in the places of the losers, measured, compared with the best   *)
(* so far, and then the loop is left, or migration and statistics follow.  *)
(*                                                                         *)
(* P and T are the two modules on this state: what they leave open, the    *)
(* errors of children and the ways a trial can end, each finds in the      *)
(* other.                                                                  *)
(***************************************************************************)
EXTENDS Integers, FiniteSets

CONSTANTS
  Popsize, Ndemes, MigrationPercent,      \* as in Demes
  Codelen,                                \* the length of all programs
  InitialErrors,                          \* errors of initial programs
  Maxtrials, MaxBreedings, Stagnation,    \* as in Trial
  Worst, Validating, EarlyLimit,
  Huge,                                   \* 1.0e10, from which on errors are not averaged
  MAXPLOTSIZE                             \* elements of a plot (plot.c)

VARIABLES
  pop, gen, deme,                         \* as in Demes
  stage,                                  \* "start", "breed", "tail", "end", "done", "perfect"
  children,                               \* the slots of the two children, or << >>
  trial, lowest_error, best,              \* as in Trial
  validateerror, lastvalidateerror, genimproved, reason, lowestbred, unimproved,
  stats                                   \* for each generational equivalent, the
                                          \* trial that recorded its statistics

errorvars == << lowest_error, best, validateerror, lastvalidateerror, genimproved >>
history == << lowestbred, unimproved >>
vars == << pop, gen, deme, stage, children, trial, errorvars, reason, history, stats >>

P == INSTANCE Demes WITH
       Errors <- 0..Worst, Codelens <- {Codelen},
       pc <- IF stage \in {"breed", "tail"} THEN stage ELSE "done"

T == INSTANCE Trial WITH pc <- IF stage = "tail" THEN "breed" ELSE stage

ASSUME LgpAssumption ==
  /\ P!DemesAssumption /\ T!TrialAssumption
  /\ InitialErrors \subseteq 0..Worst /\ InitialErrors # {}
  /\ MAXPLOTSIZE \in Nat \ {0}
  /\ Huge \in 0..Worst
  /\ MaxBreedings % Popsize = 0

Never == -1

\* An element for each generational equivalent of a trial.
Maxgenerations == MaxBreedings \div Popsize
Recorded == 0..Maxgenerations - 1

---------------------------------------------------------------------------------
NewPops == [P!Slots -> [error : InitialErrors, codelen : {Codelen}]]

Init ==
  /\ stage = "start" /\ T!Init
  /\ pop \in NewPops /\ deme = P!NextDeme(0)
  /\ children = << >>
  /\ stats = [k \in Recorded |-> Never]

\* A trial begins with a new population, all of it measured.
StartTrial ==
  /\ stage = "start" /\ trial < Maxtrials
  /\ stage' = "breed"
  /\ T!StartTrial
  /\ pop' \in NewPops /\ deme' = P!NextDeme(0)
  /\ UNCHANGED << children, stats >>

\* Fault: the children take the places of their parents.
OverParents(t) == << t.parent1, t.parent2 >>

\* The children take the places of the losers.
Replaced(t) == << t.loser1, t.loser2 >>

Breed ==
  /\ stage = "breed" /\ gen < MaxBreedings
  /\ \E t \in P!Tournaments(pop, deme), e1, e2 \in 0..Worst :
       /\ children' = Replaced(t)
       /\ pop' = [pop EXCEPT ![Replaced(t)[1]].error = e1, ![Replaced(t)[2]].error = e2]
  /\ stage' = "tail"
  /\ UNCHANGED << gen, deme, trial, errorvars, reason, history, stats >>

ChildError(i) == pop[children[i]].error

\* Fault: only the first child is looked at.
BetterErrorFirst == ChildError(1)

BetterError == T!Better(ChildError(1), ChildError(2))

\* The first child is perfect.
PerfectFound ==
  /\ stage = "tail" /\ ChildError(1) = 0
  /\ stage' = "perfect"
  /\ UNCHANGED << pop, gen, deme, children, trial, errorvars, reason, history, stats >>

\* Statistics of the population, once every generational equivalent.
\* Fault: one element too early.
RecordStatsBefore ==
  stats' = IF gen # 0 /\ gen % Popsize = 0
             THEN [stats EXCEPT ![gen \div Popsize - 1] = trial]
             ELSE stats

RecordStats ==
  stats' = IF gen # 0 /\ gen % Popsize = 0
             THEN [stats EXCEPT ![gen \div Popsize] = trial]
             ELSE stats

\* The rest of the generation loop, for a trial that goes on.
EndOfBreeding ==
  /\ IF P!Due THEN \E q \in P!SortedPops(pop) : pop' = P!Migrated(q) ELSE pop' = pop
  /\ RecordStats
  /\ gen' = gen + 1
  /\ deme' = P!NextDeme(deme)
  /\ stage' = "breed"
  /\ UNCHANGED reason

Leave(why) ==
  /\ stage' = "end" /\ reason' = why
  /\ UNCHANGED << pop, gen, deme, stats >>

Continue(improved) ==
  IF gen - improved >= Stagnation THEN Leave("stagnated") ELSE EndOfBreeding

\* The children of the last breeding, none of them a perfect first child.
Judging ==
  /\ stage = "tail" /\ ChildError(1) # 0
  /\ T!Remembered(ChildError(1), ChildError(2))
  /\ children' = << >>
  /\ UNCHANGED trial

NoImprovement ==
  /\ Judging /\ ~(BetterError < lowest_error)
  /\ UNCHANGED errorvars
  /\ Continue(genimproved)

Improvement ==
  /\ Judging /\ BetterError < lowest_error
  /\ \E v \in 0..Worst :
       /\ T!Validated(v) /\ ~T!EarlyStops
       /\ best' = T!NewBest(BetterError, v)
  /\ lastvalidateerror' = validateerror'
  /\ lowest_error' = best'.error
  /\ genimproved' = gen
  /\ Continue(gen)

EarlyStop ==
  /\ Judging /\ BetterError < lowest_error
  /\ \E v \in 0..Worst : T!Validated(v) /\ T!EarlyStops
  /\ UNCHANGED << lowest_error, best, lastvalidateerror, genimproved >>
  /\ Leave("early")

\* The trial has had all its breedings.
Spent ==
  /\ stage = "breed" /\ gen = MaxBreedings
  /\ stage' = "end" /\ reason' = "spent"
  /\ UNCHANGED << pop, gen, deme, children, trial, errorvars, history, stats >>

\* The elements that plot reads, the last of them before stop.
Plotted(start, stop) ==
  LET decimate == (stop - start) \div MAXPLOTSIZE
      step == IF decimate < 1 THEN 1 ELSE decimate
  IN  {i \in start..(stop - 1) : (i - start) % step = 0}

\* Validation of the best program; plots are drawn of Plotted(0, gen \div Popsize).
EndTrial ==
  /\ stage = "end" /\ stage' = "start"
  /\ T!EndTrial
  /\ UNCHANGED << pop, deme, children, stats >>

Finish ==
  /\ stage = "start" /\ stage' = "done"
  /\ T!Finish
  /\ UNCHANGED << pop, deme, children, stats >>

\* No crossover of these parents is admissible: others are drawn.
CrossoverFails ==
  /\ stage = "breed" /\ gen < MaxBreedings
  /\ UNCHANGED vars

Next ==
  \/ StartTrial
  \/ Breed
  \/ CrossoverFails
  \/ PerfectFound
  \/ NoImprovement
  \/ Improvement
  \/ EarlyStop
  \/ Spent
  \/ EndTrial
  \/ Finish

Spec == Init /\ [][Next]_vars

---------------------------------------------------------------------------------
(***************************************************************************)
(* Properties                                                              *)
(***************************************************************************)
\* TypeOK: the children are two of the population, from the breeding on until
\* they are judged; a perfect program is printed from its slot.
TypeOK ==
  /\ pop \in [P!Slots -> [error : 0..Worst, codelen : {Codelen}]]
  /\ deme \in P!DemeIds
  /\ stage \in {"start", "breed", "tail", "end", "done", "perfect"}
  /\ IF stage \in {"tail", "perfect"}
       THEN children \in P!Slots \X P!Slots /\ children[1] # children[2]
       ELSE children = << >>
  /\ stats \in [Recorded -> Never..(Maxtrials - 1)]

\* The generation loop treats the population as Demes says ...
BreedsLikeDemes ==
  [][stage = "breed" \/ stage = "tail" => P!Next]_<< pop, gen, deme, stage >>

\* ... and everything that is judged goes as Trial says.
JudgesLikeTrial == T!Spec

\* BestSurvives: as long as a trial lasts, the population has a member at least
\* as good as the best program of the trial, which goes on breeding: it is
\* copied to best (lgp.c:1353) and never replaced by a child.  (That migration
\* replaces no such member either is Elitism of Demes.)
BestSurvives ==
  (stage \in {"breed", "tail", "end"} /\ best.trial = trial) =>
    \E s \in P!Slots : pop[s].error <= best.error

\* PlotFresh: every statistic that is plotted at the end of a trial is of this
\* trial, whichever way it ended: none is left from a longer one before.  Only
\* element 0 is never recorded (lgp.c:1508-1514).
PlotFresh ==
  stage = "end" =>
    \A k \in Plotted(0, gen \div Popsize) : stats[k] = IF k = 0 THEN Never ELSE trial

\* The members whose errors are averaged.
Averaged(p) == {s \in P!Slots : p[s].error < Huge}

\* AveragesExist: the number of errors below 1.0e10, by which their sum is
\* divided, is 0 only if the trial has bred no program with such an error: none
\* but programs that raise exceptions or, in regression, are that far off
\* (lgp.c:1420-1434).
AveragesExist ==
  [][stage = "tail" /\ stats' # stats /\ Averaged(pop') = {}
        => lowest_error' >= Huge]_vars
=================================================================================
