-------------------------------- MODULE Demes --------------------------------
(***************************************************************************)
(* The population during one trial: steady-state breeding in one deme after *)
(* the other, and the migration between them (main and migrate of lgp.c).   *)
(*                                                                         *)
(* The demes are stretches of one array.  deme d starts at                  *)
(* Popsize*d/Ndemes and has Popsize/Ndemes members, both rounded down, so   *)
(* that slots between two demes belong to neither when Ndemes does not      *)
(* divide Popsize.  A breeding draws four distinct members of the deme      *)
(* whose turn it is; the winners of two pairs are crossed and their         *)
(* children take the place of the losers.  Every Popsize breedings the best *)
(* of each deme are copied over the worst of the next, in place and deme by *)
(* deme.                                                                   *)
(*                                                                         *)
(* An individual is what selection looks at: its error on the training set  *)
(* and the length of its code (see Genome for what is in the code).  Errors *)
(* and lengths are numbers of the same scale, because the code compares     *)
(* one with the other.  The rejection loops that draw four distinct slots   *)
(* are one choice: they end as soon as the draws allow, and never if there  *)
(* is nothing to choose.                                                   *)
(***************************************************************************)
EXTENDS Integers, FiniteSets, Functions

CONSTANTS
  Popsize,          \* number of individuals
  Ndemes,           \* number of demes
  MigrationPercent, \* Migration, in percent
  Errors,           \* errors an individual can have
  Codelens,         \* lengths of code
  MaxBreedings      \* Maxgenerations*Popsize

ASSUME DemesAssumption ==
  /\ Popsize \in Nat \ {0}
  /\ Ndemes \in 1..Popsize
  /\ MigrationPercent \in 0..100
  /\ Errors \subseteq Nat /\ Errors # {}
  /\ Codelens \subseteq Nat /\ Codelens # {}
  /\ MaxBreedings \in Nat

Slots == 0..Popsize-1
DemeIds == 0..Ndemes-1

Individuals == [error : Errors, codelen : Codelens]

-----------------------------------------------------------------------------
(***************************************************************************)
(* The demes in the array.                                                 *)
(***************************************************************************)

DemeStart(d) == (Popsize * d) \div Ndemes

\* Fault: the size is rounded up.
DemeSizeUp == (Popsize + Ndemes - 1) \div Ndemes

DemeSize == Popsize \div Ndemes

\* Fault: the last member is never drawn.
DemeButLast(d) == DemeStart(d)..DemeStart(d) + DemeSize - 2

\* The slots the tournament draws from, and that migrate sorts.
Deme(d) == DemeStart(d)..DemeStart(d) + DemeSize - 1

\* Fault: the ring is not closed.
NextDemeOpen(d) == d + 1

NextDeme(d) == (d + 1) % Ndemes

-----------------------------------------------------------------------------
(***************************************************************************)
(* Tournament.                                                             *)
(***************************************************************************)

\* Fault: the comparison is the wrong way round.
WinnerFlipped(p, s, t) == IF p[s].error > p[t].error THEN s ELSE t

\* Which of slots s and t, drawn in this order, becomes a parent.  If they are
\* equally fit, the code compares the length of s with the error of t.
Winner(p, s, t) ==
  IF p[s].error = p[t].error
  THEN IF p[s].codelen < p[t].error THEN s ELSE t
  ELSE IF p[s].error < p[t].error THEN s ELSE t

Loser(p, s, t) == IF Winner(p, s, t) = s THEN t ELSE s

\* s1, s2, s3, s4 as the rejection loops draw them.
Drawn(d) ==
  {s \in Deme(d) \X Deme(d) \X Deme(d) \X Deme(d) :
      /\ s[2] # s[1]
      /\ s[3] \notin {s[1], s[2]}
      /\ s[4] \notin {s[1], s[2], s[3]}}

\* Who may breed, and who is then replaced.
Tournaments(p, d) ==
  {[parent1 |-> Winner(p, s[1], s[2]), loser1 |-> Loser(p, s[1], s[2]),
    parent2 |-> Winner(p, s[3], s[4]), loser2 |-> Loser(p, s[3], s[4])] :
      s \in Drawn(d)}

-----------------------------------------------------------------------------
(***************************************************************************)
(* Migration.                                                              *)
(***************************************************************************)

\* (long)(0.5+Popsize*Migration/Ndemes)
NMigrate == (50 * Ndemes + Popsize * MigrationPercent) \div (100 * Ndemes)

\* The ways qsort may leave deme d of p: it does not say how it orders equals.
SortedDeme(p, d) ==
  {[k \in 0..DemeSize-1 |-> p[DemeStart(d) + f[k]]] :
      f \in {g \in Bijection(0..DemeSize-1, 0..DemeSize-1) :
                \A k \in 1..DemeSize-1 :
                   p[DemeStart(d) + g[k-1]].error <= p[DemeStart(d) + g[k]].error}}

\* p with every deme sorted.
SortedPops(p) ==
  {[s \in Slots |->
       IF \E d \in DemeIds : s \in Deme(d)
       THEN LET d == CHOOSE d \in DemeIds : s \in Deme(d)
            IN  order[d][s - DemeStart(d)]
       ELSE p[s]] :
     order \in {o \in [DemeIds -> UNION {SortedDeme(p, d) : d \in DemeIds}] :
                   \A d \in DemeIds : o[d] \in SortedDeme(p, d)}}

\* Where the first migrant of deme d comes from and goes to.
From(d) == (d * Popsize) \div Ndemes

\* Fault: the migrants go to the best places of the next deme.
ToBest(d) == From(NextDeme(d)) + NMigrate - 1

To(d) == ((NextDeme(d) + 1) * Popsize) \div Ndemes - 1

\* q after all copies: migrant i of deme d is copy d*NMigrate + i, and is read
\* from the array as the copies before it have left it.
Migrated(q) ==
  LET copied[k \in 0..Ndemes * NMigrate] ==
        IF k = 0 THEN q
        ELSE LET d == (k-1) \div NMigrate
                 i == (k-1) % NMigrate
             IN  [copied[k-1] EXCEPT ![To(d) - i] = copied[k-1][From(d) + i]]
  IN  copied[Ndemes * NMigrate]

-----------------------------------------------------------------------------
VARIABLES
  pop,    \* the population, a function on Slots
  gen,    \* number of breedings
  deme,   \* the deme in which the next breeding takes place
  pc      \* "breed", "tail" (the end of the generation loop) or "done"

vars == <<pop, gen, deme, pc>>

Init ==
  /\ pop \in [Slots -> Individuals]
  /\ gen = 0
  /\ deme = NextDeme(0)
  /\ pc = "breed"

\* One breeding: four individuals are drawn, the winners of the two pairs are
\* crossed, the children are mutated and measured.  The children share out the
\* bytes of the parents (Genome!Conservation).
Breed ==
  /\ pc = "breed" /\ gen < MaxBreedings
  /\ \E t \in Tournaments(pop, deme), e1, e2 \in Errors, l1, l2 \in Codelens :
        /\ l1 + l2 = pop[t.parent1].codelen + pop[t.parent2].codelen
        /\ pop' = [pop EXCEPT ![t.loser1] = [error |-> e1, codelen |-> l1],
                              ![t.loser2] = [error |-> e2, codelen |-> l2]]
  /\ pc' = "tail"
  /\ UNCHANGED <<gen, deme>>

\* No admissible crossover of these parents: others are drawn.
CrossoverFails ==
  /\ pc = "breed" /\ gen < MaxBreedings
  /\ Drawn(deme) # {}
  /\ UNCHANGED vars

\* Is there a migration at the end of this breeding?
Due == gen # 0 /\ gen % Popsize = 0 /\ Ndemes > 1 /\ MigrationPercent > 0

\* The end of the generation loop: migration, and on to the next deme.
EndOfBreeding ==
  /\ pc = "tail"
  /\ IF Due THEN \E q \in SortedPops(pop) : pop' = Migrated(q)
            ELSE pop' = pop
  /\ gen' = gen + 1
  /\ deme' = NextDeme(deme)
  /\ pc' = "breed"

\* The generation loop is left in the middle, without a migration: stagnation,
\* early stopping or a perfect solution (see Trial).
Break ==
  /\ pc = "tail"
  /\ pc' = "done"
  /\ UNCHANGED <<pop, gen, deme>>

\* The trial has had all its breedings.
EndOfTrial ==
  /\ pc = "breed" /\ gen = MaxBreedings
  /\ pc' = "done"
  /\ UNCHANGED <<pop, gen, deme>>

Next == Breed \/ CrossoverFails \/ EndOfBreeding \/ Break \/ EndOfTrial

Spec == Init /\ [][Next]_vars

\* The program runs as long as it can, and of the parents it draws again and
\* again some can be crossed: a homogeneous crossover never fails.
FairSpec == Spec /\ WF_vars(Breed) /\ WF_vars(EndOfBreeding \/ Break \/ EndOfTrial)

-----------------------------------------------------------------------------
(***************************************************************************)
(* Properties.                                                             *)
(***************************************************************************)

\* The variables have their types.
TypeOK ==
  /\ pop \in [Slots -> Individuals]
  /\ gen \in 0..MaxBreedings
  /\ deme \in DemeIds
  /\ pc \in {"breed", "tail", "done"}

BestError(p, d) ==
  CHOOSE e \in {p[s].error : s \in Deme(d)} : \A s \in Deme(d) : e <= p[s].error

\* The best of a deme is never lost: not to a child, which takes the place of
\* a loser, and not to a migrant, which takes the place of one of the worst
\* (lgp.c:1195-1250, 917-950).
Elitism == [][\A d \in DemeIds : BestError(pop', d) <= BestError(pop, d)]_vars

\* A breeding leaves the other demes alone: the rounded bounds of two demes
\* never overlap (README: "Breeding always occurs intra-deme").
IntraDeme ==
  [][pc = "breed" =>
        \A d \in DemeIds \ {deme} : \A s \in Deme(d) : pop'[s] = pop[s]]_vars

\* How many of the m best members of deme d have error e.
AmongBest(p, d, m, e) ==
  LET better == Cardinality({s \in Deme(d) : p[s].error < e})
      same   == Cardinality({s \in Deme(d) : p[s].error = e})
  IN  IF better >= m THEN 0 ELSE IF better + same >= m THEN m - better ELSE same

\* How many migrants of deme d, the best of them, go to slots of no deme: those
\* that rounding leaves between their deme and the one after it.
Astray(d) ==
  LET gap == To(d) - (DemeStart(NextDeme(d)) + DemeSize - 1)
  IN  IF NMigrate < gap THEN NMigrate ELSE gap

\* Migration gives every deme the best of the deme before it, for its own
\* worst (README: "The best individuals from each deme d overwrite the worst
\* individuals in deme (d+1)%ndemes"; lgp.c:913-916), but for those that go
\* astray when the demes are uneven.
RingMigration ==
  [][pc = "tail" /\ pc' = "breed" /\ Due =>
        \A d \in DemeIds, e \in Errors :
           AmongBest(pop', NextDeme(d), DemeSize, e) =
              AmongBest(pop, NextDeme(d), DemeSize - (NMigrate - Astray(d)), e)
              + (AmongBest(pop, d, NMigrate, e) - AmongBest(pop, d, Astray(d), e))]_vars

\* Every breeding finds its four individuals, until the trial has had all its
\* breedings (lgp.c:1198-1199: "Four distinct individuals are chosen at random
\* from within the current deme").
Completes == <>(pc = "done")

=============================================================================
