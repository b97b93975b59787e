------------------------------- MODULE DemesProofs ------------------------------
(***************************************************************************)
(* Theorems about Demes, for populations and demes of any size, whether    *)
(* Ndemes divides Popsize or not: types, breedings that stay in their deme *)
(* and breedings and migrations that keep the best of it; and what a       *)
(* migration takes from where.                                             *)
(***************************************************************************)
EXTENDS Demes, FiniteSetTheorems, WellFoundedInduction, TLAPS

---------------------------------------------------------------------------------
(***************************************************************************)
(* Numbers.                                                                *)
(***************************************************************************)
\* A set of numbers has a least one.
LEMMA LeastNumber ==
  ASSUME NEW T, T \subseteq Nat, T # {}
  PROVE  \E x \in T : \A y \in T : x <= y
<1>1. PICK x \in T : \A y \in T : ~(<< y, x >> \in OpToRel(<, Nat))
  BY WFMin, NatLessThanWellFounded
<1>2. \A y \in T : ~(y < x)
  BY <1>1 DEF OpToRel
<1> QED
  BY <1>2

\* A function that is given by its first value and its steps.
LEMMA StepsExist ==
  ASSUME NEW S, NEW c \in S, NEW N \in Nat, NEW step \in [1..N -> [S -> S]]
  PROVE  \E f \in [0..N -> S] : f[0] = c /\ \A k \in 1..N : f[k] = step[k][f[k-1]]
<1> DEFINE Steps(f, n) == f[0] = c /\ \A k \in 1..n : f[k] = step[k][f[k-1]]
<1> DEFINE Partial(n) == \E f \in [0..n -> S] : Steps(f, n)
<1> DEFINE Missing == {n \in 0..N : ~Partial(n)}
<1>1. Missing \subseteq Nat
  OBVIOUS
<1>2. Partial(0)
  <2>1. [k \in 0..0 |-> c] \in [0..0 -> S] /\ Steps([k \in 0..0 |-> c], 0)
    OBVIOUS
  <2> QED
    BY <2>1
<1>3. ASSUME NEW n \in 1..N, Partial(n - 1)
      PROVE  Partial(n)
  <2>1. PICK f \in [0..(n-1) -> S] : Steps(f, n - 1)
    BY <1>3
  <2> DEFINE g == [k \in 0..n |-> IF k = n THEN step[n][f[n-1]] ELSE f[k]]
  <2>2. f[n-1] \in S /\ step[n] \in [S -> S]
    OBVIOUS
  <2>3. g \in [0..n -> S]
    <3>1. step[n][f[n-1]] \in S
      BY <2>2
    <3>2. \A k \in 0..n : k # n => f[k] \in S
      OBVIOUS
    <3> QED
      BY <3>1, <3>2
  <2>4. g[0] = c /\ g[n] = step[n][f[n-1]] /\ \A k \in 0..(n-1) : g[k] = f[k]
    BY <2>1
  <2> HIDE DEF g
  <2>5. \A k \in 1..n : g[k] = step[k][g[k-1]]
    <3> TAKE k \in 1..n
    <3>1. k - 1 \in 0..(n-1) /\ g[k-1] = f[k-1]
      BY <2>4
    <3>2. CASE k = n
      BY <2>4, <3>1, <3>2
    <3>3. CASE k # n
      BY <2>1, <2>4, <3>1, <3>3
    <3> QED
      BY <3>2, <3>3
  <2> QED
    BY <2>3, <2>4, <2>5
<1> HIDE DEF Partial
<1>4. Missing = {}
  <2> SUFFICES ASSUME Missing # {} PROVE FALSE
    OBVIOUS
  <2> HIDE DEF Missing
  <2>1. PICK n \in Missing : \A m \in Missing : n <= m
    BY <1>1, LeastNumber
  <2> USE DEF Missing
  <2>2. n \in 1..N
    BY <1>2
  <2>3. n - 1 \in 0..N /\ n - 1 \notin Missing
    BY <2>1, <2>2
  <2>4. Partial(n - 1)
    BY <2>3
  <2> QED
    BY <1>3, <2>2, <2>4
<1>5. Partial(N)
  BY <1>4
<1> QED
  BY <1>5 DEF Partial

\* The quotient of two numbers.
LEMMA Quotient ==
  ASSUME NEW x \in Nat, NEW n \in Nat \ {0}
  PROVE  x \div n \in Nat /\ n * (x \div n) <= x
<1>1. x \div n \in Nat /\ x % n \in 0..(n - 1)
  OBVIOUS
<1>2. x = n * (x \div n) + (x % n)
  OBVIOUS
<1> QED
  BY <1>1, <1>2

\* A factor can be taken from both sides.
LEMMA Cancel ==
  ASSUME NEW n \in Nat \ {0}, NEW a \in Int, NEW b \in Int, n * a < n * b + n
  PROVE  a <= b
<1> SUFFICES ASSUME a > b PROVE FALSE
  OBVIOUS
<1>1. n * (a - b - 1) >= 0
  OBVIOUS
<1>2. n * (a - b - 1) = n * a - n * b - n
  OBVIOUS
<1>3. n * a \in Int /\ n * b \in Int
  OBVIOUS
<1> QED
  BY <1>1, <1>2, <1>3

\* The quotient is the largest number with a multiple that is not above.
LEMMA QuotientIsLargest ==
  ASSUME NEW x \in Nat, NEW n \in Nat \ {0}, NEW a \in Nat, n * a <= x
  PROVE  a <= x \div n
<1>1. x \div n \in Nat /\ x % n \in 0..(n - 1)
  OBVIOUS
<1>2. x = n * (x \div n) + (x % n)
  OBVIOUS
<1>3. n * a < n * (x \div n) + n
  <2>1. n * a \in Nat /\ n * (x \div n) \in Nat
    BY <1>1
  <2> QED
    BY <1>1, <1>2, <2>1
<1> QED
  BY <1>1, <1>3, Cancel

---------------------------------------------------------------------------------
(***************************************************************************)
(* The demes in the array.                                                 *)
(***************************************************************************)
LEMMA Sizes ==
  /\ Popsize \in Nat \ {0} /\ Ndemes \in Nat \ {0} /\ DemeSize \in Nat
  /\ Ndemes * DemeSize <= Popsize
<1>1. Popsize \in Nat \ {0} /\ Ndemes \in Nat \ {0}
  BY DemesAssumption DEF DemesAssumption
<1> QED
  BY <1>1, Quotient DEF DemeSize

LEMMA DemeStartType ==
  ASSUME NEW d \in Nat
  PROVE  DemeStart(d) \in Nat /\ Ndemes * DemeStart(d) <= Popsize * d
<1>1. Popsize * d \in Nat
  BY Sizes
<1> QED
  BY <1>1, Sizes, Quotient DEF DemeStart

\* A deme ends before a later one begins, however its bounds are rounded.
LEMMA DemeEnds ==
  ASSUME NEW d \in Nat, NEW e \in Nat, d < e
  PROVE  DemeStart(d) + DemeSize <= DemeStart(e)
<1> DEFINE a == DemeStart(d) + DemeSize
<1>1. DemeStart(d) \in Nat /\ Ndemes * DemeStart(d) <= Popsize * d
  BY DemeStartType
<1>2. a \in Nat /\ Ndemes * a = Ndemes * DemeStart(d) + Ndemes * DemeSize
  BY <1>1, Sizes
<1>3. Popsize * d + Popsize <= Popsize * e
  <2>1. Popsize * (e - d - 1) >= 0
    BY Sizes
  <2>2. Popsize * (e - d - 1) = Popsize * e - Popsize * d - Popsize
    BY Sizes
  <2>3. Popsize * d \in Nat /\ Popsize * e \in Nat
    BY Sizes
  <2> QED
    BY <2>1, <2>2, <2>3, Sizes
<1>4. Ndemes * a <= Popsize * e
  <2>1. /\ Ndemes * DemeStart(d) \in Nat /\ Ndemes * DemeSize \in Nat
        /\ Popsize * d \in Nat /\ Popsize * e \in Nat
    BY <1>1, Sizes
  <2> QED
    BY <1>1, <1>2, <1>3, <2>1, Sizes
<1>5. Popsize * e \in Nat
  BY Sizes
<1> HIDE DEF a
<1>6. a <= (Popsize * e) \div Ndemes
  BY <1>2, <1>4, <1>5, Sizes, QuotientIsLargest
<1> QED
  BY <1>6 DEF a, DemeStart

\* The demes lie in the array.
LEMMA DemeInSlots ==
  ASSUME NEW d \in DemeIds
  PROVE  Deme(d) \subseteq Slots
<1>1. d \in Nat /\ d < Ndemes
  BY Sizes DEF DemeIds
<1>2. DemeStart(d) + DemeSize <= DemeStart(Ndemes)
  BY <1>1, Sizes, DemeEnds
<1>3. Ndemes * DemeStart(Ndemes) <= Popsize * Ndemes /\ DemeStart(Ndemes) \in Nat
  BY Sizes, DemeStartType
<1>4. DemeStart(Ndemes) <= Popsize
  <2>1. Popsize * Ndemes = Ndemes * Popsize /\ Ndemes * Popsize \in Nat
    BY Sizes
  <2>2. Ndemes * DemeStart(Ndemes) < Ndemes * Popsize + Ndemes
    <3>1. Ndemes * DemeStart(Ndemes) \in Nat
      BY <1>3, Sizes
    <3> QED
      BY <1>3, <2>1, <3>1, Sizes
  <2> QED
    BY <1>3, <2>2, Sizes, Cancel
<1>5. DemeStart(d) \in Nat
  BY <1>1, DemeStartType
<1> QED
  BY <1>2, <1>3, <1>4, <1>5, Sizes DEF Deme, Slots

\* No slot belongs to two demes.
THEOREM DemesDisjoint ==
  ASSUME NEW d \in DemeIds, NEW e \in DemeIds, d # e
  PROVE  Deme(d) \cap Deme(e) = {}
<1>1. ASSUME NEW a \in DemeIds, NEW b \in DemeIds, a < b
      PROVE  Deme(a) \cap Deme(b) = {}
  <2>1. a \in Nat /\ b \in Nat
    BY DEF DemeIds
  <2>2. DemeStart(a) + DemeSize <= DemeStart(b)
    BY <1>1, <2>1, DemeEnds
  <2> QED
    BY <2>1, <2>2, DemeStartType, Sizes DEF Deme
<1>2. d < e \/ e < d
  BY DEF DemeIds
<1> QED
  BY <1>1, <1>2

LEMMA NextDemeType ==
  ASSUME NEW d \in DemeIds
  PROVE  NextDeme(d) \in DemeIds
  BY Sizes DEF DemeIds, NextDeme

---------------------------------------------------------------------------------
(***************************************************************************)
(* Migration.                                                              *)
(***************************************************************************)
\* Migrants come out of the array, even where a rounded number of them is
\* larger than a deme.
LEMMA FromInSlots ==
  ASSUME NEW d \in DemeIds, NEW i \in 0..(NMigrate - 1)
  PROVE  From(d) + i \in Slots
<1> DEFINE n == NMigrate
<1>1. d \in Nat /\ d + 1 <= Ndemes
  BY Sizes DEF DemeIds
<1>2. MigrationPercent \in 0..100
  BY DemesAssumption DEF DemesAssumption
<1>3. n \in Nat /\ (100 * Ndemes) * n <= 50 * Ndemes + Popsize * MigrationPercent
  <2>1. 50 * Ndemes + Popsize * MigrationPercent \in Nat /\ 100 * Ndemes \in Nat \ {0}
    BY <1>2, Sizes
  <2> QED
    BY <2>1, Quotient DEF NMigrate
<1>4. Popsize * MigrationPercent <= 100 * Popsize
  BY <1>2, Sizes
<1> DEFINE f == From(d)
<1>5. f \in Nat /\ Ndemes * f <= d * Popsize
  <2>1. d * Popsize \in Nat
    BY <1>1, Sizes
  <2> QED
    BY <2>1, Sizes, Quotient DEF From
<1>6. d * Popsize + Popsize <= Ndemes * Popsize
  <2>1. (Ndemes - d - 1) * Popsize >= 0
    BY <1>1, Sizes
  <2>2. (Ndemes - d - 1) * Popsize = Ndemes * Popsize - d * Popsize - Popsize
    BY <1>1, Sizes
  <2>3. Ndemes * Popsize \in Nat /\ d * Popsize \in Nat
    BY <1>1, Sizes
  <2> QED
    BY <2>1, <2>2, <2>3, Sizes
<1> HIDE DEF n, f
<1>7. (100 * Ndemes) * n = 100 * (Ndemes * n) /\ Ndemes * n \in Nat /\ Ndemes * f \in Nat
  BY <1>3, <1>5, Sizes
<1>8. 100 * (Ndemes * n) <= 50 * Ndemes + 100 * Popsize
  <2>1. Popsize * MigrationPercent \in Nat
    BY <1>2, Sizes
  <2> QED
    BY <1>3, <1>4, <1>7, <2>1, Sizes
<1>9. Ndemes * f + Ndemes * n < Ndemes * Popsize + Ndemes
  <2>1. d * Popsize \in Nat /\ Ndemes * Popsize \in Nat
    BY <1>1, Sizes
  <2> QED
    BY <1>5, <1>6, <1>7, <1>8, <2>1, Sizes
<1>10. Ndemes * (f + n) < Ndemes * Popsize + Ndemes
  <2>1. Ndemes * (f + n) = Ndemes * f + Ndemes * n
    BY <1>3, <1>5, Sizes
  <2> QED
    BY <1>9, <2>1
<1>11. f + n <= Popsize
  BY <1>3, <1>5, <1>10, Sizes, Cancel
<1> QED
  BY <1>3, <1>5, <1>11, Sizes DEF Slots, n, f

Pops == [Slots -> Individuals]

\* Sorting the demes gives a population.
LEMMA SortedPopsType ==
  ASSUME NEW p \in Pops, NEW q \in SortedPops(p)
  PROVE  q \in Pops
<1>1. ASSUME NEW d \in DemeIds, NEW o \in SortedDeme(p, d)
      PROVE  o \in [0..DemeSize-1 -> Individuals]
  <2>1. PICK f \in Bijection(0..DemeSize-1, 0..DemeSize-1) :
          o = [k \in 0..DemeSize-1 |-> p[DemeStart(d) + f[k]]]
    BY DEF SortedDeme
  <2>2. f \in [0..DemeSize-1 -> 0..DemeSize-1]
    BY DEF Bijection, Injection
  <2>3. \A k \in 0..DemeSize-1 : DemeStart(d) + k \in Slots
    <3>1. d \in Nat
      BY Sizes DEF DemeIds
    <3>2. DemeStart(d) \in Nat
      BY <3>1, DemeStartType
    <3>3. \A k \in 0..DemeSize-1 : DemeStart(d) + k \in Deme(d)
      BY <3>2, Sizes DEF Deme
    <3> QED
      BY <3>3, DemeInSlots
  <2> QED
    BY <2>1, <2>2, <2>3 DEF Pops
<1>2. PICK order \in [DemeIds -> UNION {SortedDeme(p, d) : d \in DemeIds}] :
        /\ \A d \in DemeIds : order[d] \in SortedDeme(p, d)
        /\ q = [s \in Slots |->
                 IF \E d \in DemeIds : s \in Deme(d)
                 THEN LET d == CHOOSE d \in DemeIds : s \in Deme(d)
                      IN  order[d][s - DemeStart(d)]
                 ELSE p[s]]
  BY DEF SortedPops
<1>3. ASSUME NEW s \in Slots
      PROVE  q[s] \in Individuals
  <2>1. CASE \E d \in DemeIds : s \in Deme(d)
    <3> DEFINE d == CHOOSE d \in DemeIds : s \in Deme(d)
    <3>1. d \in DemeIds /\ s \in Deme(d)
      BY <2>1
    <3>2. q[s] = order[d][s - DemeStart(d)]
      BY <1>2, <2>1
    <3> HIDE DEF d
    <3>3. s - DemeStart(d) \in 0..DemeSize-1
      <4>1. d \in Nat
        BY <3>1, Sizes DEF DemeIds
      <4>2. DemeStart(d) \in Nat /\ s \in DemeStart(d)..DemeStart(d) + DemeSize - 1
        BY <3>1, <4>1, DemeStartType DEF Deme
      <4> QED
        BY <4>2, Sizes
    <3>4. order[d] \in [0..DemeSize-1 -> Individuals]
      BY <1>1, <1>2, <3>1
    <3> QED
      BY <3>2, <3>3, <3>4
  <2>2. CASE ~\E d \in DemeIds : s \in Deme(d)
    BY <1>2, <2>2 DEF Pops
  <2> QED
    BY <2>1, <2>2
<1> QED
  BY <1>2, <1>3 DEF Pops

\* How many migrate from each deme, and how many copies that makes.
Copies == Ndemes * NMigrate

LEMMA CopiesType == NMigrate \in Nat /\ Copies \in Nat
<1>1. 50 * Ndemes + Popsize * MigrationPercent \in Nat /\ 100 * Ndemes \in Nat \ {0}
  BY Sizes, DemesAssumption DEF DemesAssumption
<1>2. NMigrate \in Nat
  BY <1>1, Quotient DEF NMigrate
<1> QED
  BY <1>2, Sizes DEF Copies

\* Copy k is that of migrant IthOf(k) of deme OfDeme(k).
OfDeme(k) == (k-1) \div NMigrate
IthOf(k) == (k-1) % NMigrate
CopyFrom(k) == From(OfDeme(k)) + IthOf(k)
CopyTo(k) == To(OfDeme(k)) - IthOf(k)

LEMMA CopyNumbers ==
  ASSUME NEW k \in 1..Copies
  PROVE  /\ OfDeme(k) \in DemeIds /\ IthOf(k) \in 0..(NMigrate - 1)
         /\ k = NMigrate * OfDeme(k) + IthOf(k) + 1
<1>1. NMigrate \in Nat \ {0}
  <2>1. NMigrate # 0
    BY CopiesType, Sizes DEF Copies
  <2> QED
    BY <2>1, CopiesType
<1>2. k - 1 \in Nat /\ k - 1 < Ndemes * NMigrate
  BY CopiesType DEF Copies
<1> DEFINE d == OfDeme(k)
<1>3. IthOf(k) \in 0..(NMigrate - 1)
  BY <1>1, <1>2 DEF IthOf
<1>4. k - 1 = NMigrate * d + IthOf(k) /\ d \in Nat /\ NMigrate * d <= k - 1
  BY <1>1, <1>2, Quotient DEF OfDeme, IthOf
<1> HIDE DEF d
<1>5. NMigrate * (d + 1) = NMigrate * d + NMigrate /\ NMigrate * d \in Nat
  BY <1>1, <1>4
<1>6. NMigrate * (d + 1) < NMigrate * Ndemes + NMigrate
  BY <1>1, <1>2, <1>4, <1>5, Sizes
<1>7. d + 1 <= Ndemes
  BY <1>1, <1>4, <1>6, Sizes, Cancel
<1>8. d \in DemeIds
  BY <1>4, <1>7, Sizes DEF DemeIds
<1> QED
  BY <1>3, <1>4, <1>5, <1>8, CopiesType DEF d

\* The population after each copy.
CopiesOf(q, f) ==
  /\ f \in [0..Copies -> Pops]
  /\ f[0] = q
  /\ \A k \in 1..Copies : f[k] = [f[k-1] EXCEPT ![CopyTo(k)] = f[k-1][CopyFrom(k)]]

\* A migration does one copy after the other.
LEMMA MigrationCopies ==
  ASSUME NEW q \in Pops
  PROVE  \E f : CopiesOf(q, f) /\ Migrated(q) = f[Copies]
<1> DEFINE Copy(k, p) == [p EXCEPT ![CopyTo(k)] = p[CopyFrom(k)]]
           Done(f) == f = [k \in 0..Copies |-> IF k = 0 THEN q ELSE Copy(k, f[k-1])]
           step == [k \in 1..Copies |-> [p \in Pops |-> Copy(k, p)]]
<1>1. Copies \in Nat
  BY CopiesType
<1>2. \A k \in 1..Copies, p \in Pops : Copy(k, p) \in Pops
  <2> TAKE k \in 1..Copies, p \in Pops
  <2>1. CopyFrom(k) \in Slots
    BY CopyNumbers, FromInSlots DEF CopyFrom
  <2> QED
    BY <2>1 DEF Pops
<1>3. step \in [1..Copies -> [Pops -> Pops]]
  <2> HIDE DEF Copy
  <2> QED
    BY <1>2
<1>4. PICK f \in [0..Copies -> Pops] : f[0] = q /\ \A k \in 1..Copies : f[k] = step[k][f[k-1]]
  <2> HIDE DEF step
  <2> QED
    BY <1>1, <1>3, StepsExist
<1>5. \A k \in 1..Copies : f[k] = Copy(k, f[k-1])
  <2> TAKE k \in 1..Copies
  <2>1. k - 1 \in 0..Copies
    BY <1>1
  <2>2. f[k-1] \in Pops
    BY <2>1
  <2> HIDE DEF Copy
  <2> QED
    BY <1>4, <2>2
<1>6. Done(f)
  <2> HIDE DEF Copy
  <2>1. \A k \in 0..Copies : f[k] = IF k = 0 THEN q ELSE Copy(k, f[k-1])
    BY <1>1, <1>4, <1>5
  <2> QED
    BY <2>1
<1> DEFINE copied == CHOOSE g : Done(g)
<1>7. Done(copied)
  <2> HIDE DEF Done
  <2> QED
    BY <1>6
<1>8. Migrated(q) = copied[Copies]
  BY DEF Migrated, Copies, CopyTo, CopyFrom, OfDeme, IthOf
<1> HIDE DEF copied
<1>9. \A k \in 0..Copies : copied[k] = f[k]
  <2> HIDE DEF Copy
  <2> DEFINE Wrong == {k \in 0..Copies : copied[k] # f[k]}
  <2>1. ASSUME NEW k \in Wrong, \A j \in Wrong : k <= j
        PROVE  FALSE
    <3>1. k \in 1..Copies
      BY <1>1, <1>4, <1>7
    <3>2. k - 1 \in 0..Copies /\ k - 1 \notin Wrong
      BY <1>1, <2>1, <3>1
    <3>3. copied[k-1] = f[k-1]
      BY <3>2
    <3>4. copied[k] = Copy(k, copied[k-1])
      BY <1>1, <1>7, <3>1
    <3>5. copied[k] = f[k]
      BY <1>5, <3>1, <3>3, <3>4
    <3> QED
      BY <3>5
  <2>2. Wrong = {}
    <3>1. Wrong \subseteq Nat
      OBVIOUS
    <3> HIDE DEF Wrong
    <3> QED
      BY <2>1, <3>1, LeastNumber
  <2> QED
    BY <2>2
<1>10. CopiesOf(q, f)
  BY <1>4, <1>5 DEF CopiesOf
<1> QED
  BY <1>1, <1>8, <1>9, <1>10

\* All copies of a migration leave a population.
LEMMA MigratedType ==
  ASSUME NEW q \in Pops
  PROVE  Migrated(q) \in Pops
  BY MigrationCopies, CopiesType DEF CopiesOf

\* What a slot holds after copy n stays until the next copy that goes there.
LEMMA CopyLasts ==
  ASSUME NEW q \in Pops, NEW f, CopiesOf(q, f), NEW s \in Slots,
         NEW n \in 0..Copies, \A k \in 1..Copies : k > n => CopyTo(k) # s
  PROVE  \A k \in n..Copies : f[k][s] = f[n][s]
<1> DEFINE Wrong == {k \in n..Copies : f[k][s] # f[n][s]}
<1>1. Wrong \subseteq Nat
  BY CopiesType
<1>2. ASSUME NEW k \in Wrong, \A j \in Wrong : k <= j
      PROVE  FALSE
  <2>1. k \in 1..Copies /\ k > n /\ k - 1 \in n..Copies /\ k - 1 \in 0..Copies
    BY CopiesType
  <2>2. k - 1 \notin Wrong
    BY <1>2, <2>1
  <2>3. f[k-1][s] = f[n][s]
    BY <2>1, <2>2
  <2>4. f[k] = [f[k-1] EXCEPT ![CopyTo(k)] = f[k-1][CopyFrom(k)]] /\ f[k-1] \in Pops
    BY <2>1 DEF CopiesOf
  <2>5. f[k][s] = f[k-1][s]
    BY <2>1, <2>4 DEF Pops
  <2> QED
    BY <2>3, <2>5
<1>3. Wrong = {}
  <2> HIDE DEF Wrong
  <2> QED
    BY <1>1, <1>2, LeastNumber
<1> QED
  BY <1>3

\* Where no migrant goes, a migration changes nothing.
LEMMA KeptSlot ==
  ASSUME NEW q \in Pops, NEW s \in Slots, \A k \in 1..Copies : CopyTo(k) # s
  PROVE  Migrated(q)[s] = q[s]
<1>1. PICK f : CopiesOf(q, f) /\ Migrated(q) = f[Copies]
  BY MigrationCopies
<1>2. \A k \in 0..Copies : f[k][s] = f[0][s]
  BY <1>1, CopyLasts, CopiesType
<1> QED
  BY <1>1, <1>2, CopiesType DEF CopiesOf

---------------------------------------------------------------------------------
(***************************************************************************)
(* Breeding.                                                               *)
(***************************************************************************)
\* A tournament is among members of the deme, and replaces two of them that do
\* not breed.
LEMMA TournamentInDeme ==
  ASSUME NEW d \in DemeIds, NEW t \in Tournaments(pop, d)
  PROVE  /\ {t.parent1, t.parent2, t.loser1, t.loser2} \subseteq Deme(d)
         /\ t.loser1 # t.loser2
<1>1. PICK s \in Drawn(d) :
        t = [parent1 |-> Winner(pop, s[1], s[2]), loser1 |-> Loser(pop, s[1], s[2]),
             parent2 |-> Winner(pop, s[3], s[4]), loser2 |-> Loser(pop, s[3], s[4])]
  BY DEF Tournaments
<1>2. /\ s[1] \in Deme(d) /\ s[2] \in Deme(d) /\ s[3] \in Deme(d) /\ s[4] \in Deme(d)
      /\ {s[1], s[2]} \cap {s[3], s[4]} = {}
  BY DEF Drawn
<1>3. \A x, y : Winner(pop, x, y) \in {x, y} /\ Loser(pop, x, y) \in {x, y}
  BY DEF Winner, Loser
<1>4. /\ t.parent1 \in {s[1], s[2]} /\ t.loser1 \in {s[1], s[2]}
      /\ t.parent2 \in {s[3], s[4]} /\ t.loser2 \in {s[3], s[4]}
  BY <1>1, <1>3
<1> QED
  BY <1>2, <1>4

\* A breeding puts two individuals into the deme whose turn it is, and writes
\* nowhere else.
LEMMA BreedWrites ==
  ASSUME TypeOK, Breed
  PROVE  /\ pop' \in Pops
         /\ \A s \in Slots \ Deme(deme) : pop'[s] = pop[s]
<1>1. PICK t \in Tournaments(pop, deme), e1, e2 \in Errors, l1, l2 \in Codelens :
        pop' = [pop EXCEPT ![t.loser1] = [error |-> e1, codelen |-> l1],
                           ![t.loser2] = [error |-> e2, codelen |-> l2]]
  BY DEF Breed
<1>2. deme \in DemeIds /\ pop \in Pops
  BY DEF TypeOK, Pops
<1>3. t.loser1 \in Deme(deme) /\ t.loser2 \in Deme(deme)
  BY <1>2, TournamentInDeme
<1>4. [error |-> e1, codelen |-> l1] \in Individuals
      /\ [error |-> e2, codelen |-> l2] \in Individuals
  BY DEF Individuals
<1> QED
  BY <1>1, <1>2, <1>3, <1>4 DEF Pops

\* The number of breedings is counted after the breeding, so that it is still
\* below its limit at the end of the loop.
Counted == pc = "tail" => gen < MaxBreedings

IndInv == TypeOK /\ Counted

LEMMA IndInvInit == Init => IndInv
<1> SUFFICES ASSUME Init PROVE IndInv
  OBVIOUS
<1>1. deme \in DemeIds
  BY Sizes, NextDemeType DEF Init, DemeIds
<1>2. 0 \in 0..MaxBreedings
  BY DemesAssumption DEF DemesAssumption
<1> QED
  BY <1>1, <1>2 DEF Init, IndInv, TypeOK, Counted

\* The population and the counters keep their types, migration included.
LEMMA IndInvStep == IndInv /\ [Next]_vars => IndInv'
<1> SUFFICES ASSUME IndInv, [Next]_vars PROVE IndInv'
  OBVIOUS
<1>1. /\ pop \in Pops /\ gen \in 0..MaxBreedings /\ deme \in DemeIds
      /\ pc \in {"breed", "tail", "done"} /\ MaxBreedings \in Nat
  BY DemesAssumption DEF IndInv, TypeOK, Pops, DemesAssumption
<1>2. CASE Breed
  <2>1. pop' \in Pops
    BY <1>2, BreedWrites DEF IndInv
  <2> QED
    BY <1>1, <1>2, <2>1 DEF Breed, IndInv, TypeOK, Counted, Pops
<1>3. CASE CrossoverFails
  BY <1>3 DEF CrossoverFails, IndInv, TypeOK, Counted, vars
<1>4. CASE EndOfBreeding
  <2>1. pop' \in Pops
    BY <1>1, <1>4, SortedPopsType, MigratedType DEF EndOfBreeding
  <2>2. deme' \in DemeIds
    BY <1>1, <1>4, NextDemeType DEF EndOfBreeding
  <2>3. gen' \in 0..MaxBreedings
    BY <1>1, <1>4 DEF EndOfBreeding, IndInv, Counted
  <2> QED
    BY <1>4, <2>1, <2>2, <2>3 DEF EndOfBreeding, IndInv, TypeOK, Counted, Pops
<1>5. CASE Break \/ EndOfTrial \/ UNCHANGED vars
  BY <1>5 DEF Break, EndOfTrial, IndInv, TypeOK, Counted, vars
<1> QED
  BY <1>2, <1>3, <1>4, <1>5 DEF Next

\* The invariant of one trial: the types, and a breeding that is counted only
\* after it has taken place (lgp.c:1190-1448).
THEOREM Invariance == Spec => []IndInv
  BY IndInvInit, IndInvStep, PTL DEF Spec

\* The population stays a population, whatever the demes and the number of
\* migrants, rounded up or larger than a deme: no copy of a migration reads
\* outside the array (lgp.c:917-950).
THEOREM DemesTypes == Spec => []TypeOK
<1>1. IndInv => TypeOK
  BY DEF IndInv
<1> QED
  BY <1>1, Invariance, PTL

\* A breeding changes no other deme, for demes of any size and rounded in any
\* way (lgp.c:1201, 1195-1250).
THEOREM BreedingIsLocal == Spec => IntraDeme
<1> DEFINE Local == pc = "breed" =>
              \A d \in DemeIds \ {deme} : \A s \in Deme(d) : pop'[s] = pop[s]
<1>1. IndInv /\ [Next]_vars => [Local]_vars
  <2> SUFFICES ASSUME IndInv, Next, pc = "breed",
                      NEW d \in DemeIds \ {deme}, NEW s \in Deme(d)
               PROVE  pop'[s] = pop[s]
    OBVIOUS
  <2>1. s \in Slots \ Deme(deme)
    BY DemesDisjoint, DemeInSlots DEF IndInv, TypeOK
  <2>2. CASE Breed
    BY <2>1, <2>2, BreedWrites DEF IndInv
  <2>3. CASE CrossoverFails \/ EndOfTrial
    BY <2>3 DEF CrossoverFails, EndOfTrial, vars
  <2>4. ~EndOfBreeding /\ ~Break
    BY DEF EndOfBreeding, Break
  <2> QED
    BY <2>2, <2>3, <2>4 DEF Next
<1> QED
  BY <1>1, Invariance, PTL DEF Spec, IntraDeme

---------------------------------------------------------------------------------
(***************************************************************************)
(* The best of a deme.                                                     *)
(***************************************************************************)
LEMMA BestExists ==
  ASSUME NEW p \in Pops, NEW d \in DemeIds
  PROVE  /\ \E s \in Deme(d) : BestError(p, d) = p[s].error
         /\ \A s \in Deme(d) : BestError(p, d) <= p[s].error
         /\ BestError(p, d) \in Nat
<1> DEFINE errors == {p[s].error : s \in Deme(d)}
<1>1. errors \subseteq Nat
  <2>1. \A s \in Deme(d) : p[s] \in Individuals
    BY DemeInSlots DEF Pops
  <2>2. \A i \in Individuals : i.error \in Nat
    BY DemesAssumption DEF Individuals, DemesAssumption
  <2> QED
    BY <2>1, <2>2
<1>2. errors # {}
  <2>1. d \in Nat
    BY Sizes DEF DemeIds
  <2>2. Ndemes * 1 <= Popsize
    BY DemesAssumption DEF DemesAssumption
  <2>3. 1 <= DemeSize
    BY <2>2, Sizes, QuotientIsLargest DEF DemeSize
  <2>4. DemeStart(d) \in Deme(d)
    BY <2>1, <2>3, DemeStartType, Sizes DEF Deme
  <2> QED
    BY <2>4
<1>3. \E e \in errors : \A s \in Deme(d) : e <= p[s].error
  <2>1. \E e \in errors : \A f \in errors : e <= f
    <3> HIDE DEF errors
    <3> QED
      BY <1>1, <1>2, LeastNumber
  <2> QED
    BY <2>1
<1>4. BestError(p, d) \in errors /\ \A s \in Deme(d) : BestError(p, d) <= p[s].error
  BY <1>3 DEF BestError
<1> QED
  BY <1>1, <1>4

\* Whatever the order of the draws and the odd comparison of equals, who is
\* replaced has a rival at least as good that is not.
LEMMA LosersHaveRivals ==
  ASSUME pop \in Pops, NEW d \in DemeIds, NEW t \in Tournaments(pop, d)
  PROVE  /\ pop[t.parent1].error <= pop[t.loser1].error
         /\ pop[t.parent2].error <= pop[t.loser2].error
         /\ {t.parent1, t.parent2} \cap {t.loser1, t.loser2} = {}
<1>1. PICK s \in Drawn(d) :
        t = [parent1 |-> Winner(pop, s[1], s[2]), loser1 |-> Loser(pop, s[1], s[2]),
             parent2 |-> Winner(pop, s[3], s[4]), loser2 |-> Loser(pop, s[3], s[4])]
  BY DEF Tournaments
<1>2. /\ s[1] \in Deme(d) /\ s[2] \in Deme(d) /\ s[3] \in Deme(d) /\ s[4] \in Deme(d)
      /\ {s[1], s[2]} \cap {s[3], s[4]} = {} /\ s[1] # s[2] /\ s[3] # s[4]
  BY DEF Drawn
<1>3. \A x \in Slots : pop[x].error \in Nat
  BY DemesAssumption DEF Pops, Individuals, DemesAssumption
<1>4. ASSUME NEW x \in Slots, NEW y \in Slots, x # y
      PROVE  /\ pop[Winner(pop, x, y)].error <= pop[Loser(pop, x, y)].error
             /\ Winner(pop, x, y) # Loser(pop, x, y)
             /\ Winner(pop, x, y) \in {x, y} /\ Loser(pop, x, y) \in {x, y}
  BY <1>3, <1>4 DEF Winner, Loser
<1>5. s[1] \in Slots /\ s[2] \in Slots /\ s[3] \in Slots /\ s[4] \in Slots
  BY <1>2, DemeInSlots
<1>6. /\ pop[t.parent1].error <= pop[t.loser1].error /\ t.parent1 # t.loser1
      /\ t.parent1 \in {s[1], s[2]} /\ t.loser1 \in {s[1], s[2]}
  BY <1>1, <1>2, <1>4, <1>5
<1>7. /\ pop[t.parent2].error <= pop[t.loser2].error /\ t.parent2 # t.loser2
      /\ t.parent2 \in {s[3], s[4]} /\ t.loser2 \in {s[3], s[4]}
  BY <1>1, <1>2, <1>4, <1>5
<1> QED
  BY <1>2, <1>6, <1>7

LEMMA BreedKeepsBest ==
  ASSUME TypeOK, Breed, NEW d \in DemeIds
  PROVE  BestError(pop', d) <= BestError(pop, d)
<1>1. pop \in Pops /\ deme \in DemeIds /\ pop' \in Pops
  BY BreedWrites DEF TypeOK, Pops
<1>2. PICK best \in Deme(d) : BestError(pop, d) = pop[best].error
  BY <1>1, BestExists
<1>3. \E s \in Deme(d) : pop'[s] = pop[s] /\ pop[s].error <= pop[best].error
  <2>1. pop[best].error \in Nat
    BY <1>1, <1>2, BestExists
  <2>2. CASE d # deme
    BY <1>1, <2>1, <2>2, BreedWrites, DemesDisjoint, DemeInSlots
  <2>3. CASE d = deme
    <3>1. PICK t \in Tournaments(pop, deme), e1, e2 \in Errors, l1, l2 \in Codelens :
            pop' = [pop EXCEPT ![t.loser1] = [error |-> e1, codelen |-> l1],
                               ![t.loser2] = [error |-> e2, codelen |-> l2]]
      BY DEF Breed
    <3>2. \A s \in Slots \ {t.loser1, t.loser2} : pop'[s] = pop[s]
      BY <1>1, <3>1 DEF Pops
    <3>3. {t.parent1, t.parent2, t.loser1, t.loser2} \subseteq Deme(deme)
      BY <1>1, TournamentInDeme
    <3>4. /\ pop[t.parent1].error <= pop[t.loser1].error
          /\ pop[t.parent2].error <= pop[t.loser2].error
          /\ {t.parent1, t.parent2} \cap {t.loser1, t.loser2} = {}
      BY <1>1, LosersHaveRivals
    <3>5. Deme(deme) \subseteq Slots
      BY <1>1, DemeInSlots
    <3>6. CASE best \notin {t.loser1, t.loser2}
      BY <2>1, <2>3, <3>2, <3>5, <3>6
    <3>7. CASE best = t.loser1
      BY <2>3, <3>2, <3>3, <3>4, <3>5, <3>7
    <3>8. CASE best = t.loser2
      BY <2>3, <3>2, <3>3, <3>4, <3>5, <3>8
    <3> QED
      BY <3>6, <3>7, <3>8
  <2> QED
    BY <2>2, <2>3
<1>4. PICK s \in Deme(d) : pop'[s] = pop[s] /\ pop[s].error <= pop[best].error
  BY <1>3
<1>5. BestError(pop', d) <= pop'[s].error /\ BestError(pop', d) \in Nat
  BY <1>1, BestExists
<1>6. pop[s].error \in Nat /\ pop[best].error \in Nat
  <2>1. pop[s] \in Individuals /\ pop[best] \in Individuals
    BY <1>1, DemeInSlots DEF Pops
  <2> QED
    BY <2>1, DemesAssumption DEF Individuals, DemesAssumption
<1> QED
  BY <1>2, <1>4, <1>5, <1>6

\* After sorting, the members of a deme are those from before, by their errors.
LEMMA SortedDemes ==
  ASSUME NEW p \in Pops, NEW q \in SortedPops(p), NEW d \in DemeIds
  PROVE  \E f \in Bijection(0..DemeSize-1, 0..DemeSize-1) :
           /\ \A k \in 0..DemeSize-1 : q[DemeStart(d) + k] = p[DemeStart(d) + f[k]]
           /\ \A k \in 0..DemeSize-1, j \in 0..DemeSize-1 :
                j <= k => q[DemeStart(d) + j].error <= q[DemeStart(d) + k].error
<1>1. PICK order \in [DemeIds -> UNION {SortedDeme(p, e) : e \in DemeIds}] :
        /\ \A e \in DemeIds : order[e] \in SortedDeme(p, e)
        /\ q = [s \in Slots |->
                 IF \E e \in DemeIds : s \in Deme(e)
                 THEN LET e == CHOOSE e \in DemeIds : s \in Deme(e)
                      IN  order[e][s - DemeStart(e)]
                 ELSE p[s]]
  BY DEF SortedPops
<1>2. PICK f \in Bijection(0..DemeSize-1, 0..DemeSize-1) :
        /\ order[d] = [k \in 0..DemeSize-1 |-> p[DemeStart(d) + f[k]]]
        /\ \A k \in 1..DemeSize-1 :
             p[DemeStart(d) + f[k-1]].error <= p[DemeStart(d) + f[k]].error
  BY <1>1 DEF SortedDeme
<1>3. d \in Nat /\ DemeStart(d) \in Nat
  <2>1. d \in Nat
    BY Sizes DEF DemeIds
  <2> QED
    BY <2>1, DemeStartType
<1>4. \A k \in 0..DemeSize-1 : DemeStart(d) + k \in Deme(d)
  BY <1>3, Sizes DEF Deme
<1>5. \A k \in 0..DemeSize-1 : q[DemeStart(d) + k] = p[DemeStart(d) + f[k]]
  <2> TAKE k \in 0..DemeSize-1
  <2> DEFINE s == DemeStart(d) + k
             e == CHOOSE e \in DemeIds : s \in Deme(e)
  <2>1. s \in Deme(d) /\ s \in Slots
    BY <1>4, DemeInSlots
  <2>2. e \in DemeIds /\ s \in Deme(e)
    BY <2>1
  <2>3. q[s] = order[e][s - DemeStart(e)]
    BY <1>1, <2>1
  <2> HIDE DEF e
  <2>4. e = d
    BY <2>1, <2>2, DemesDisjoint
  <2>5. s - DemeStart(e) = k
    BY <1>3, <2>4
  <2> QED
    BY <1>2, <2>3, <2>4, <2>5
<1>6. \A k \in 1..DemeSize-1 :
        q[DemeStart(d) + (k-1)].error <= q[DemeStart(d) + k].error
  BY <1>2, <1>5, Sizes
<1>7. \A k \in 0..DemeSize-1 : q[DemeStart(d) + k].error \in Nat
  <2>1. \A k \in 0..DemeSize-1 : q[DemeStart(d) + k] \in Individuals
    BY <1>4, SortedPopsType, DemeInSlots DEF Pops
  <2> QED
    BY <2>1, DemesAssumption DEF Individuals, DemesAssumption
<1>8. ASSUME NEW j \in 0..DemeSize-1
      PROVE  \A k \in j..DemeSize-1 : q[DemeStart(d) + j].error <= q[DemeStart(d) + k].error
  <2> DEFINE e(k) == q[DemeStart(d) + k].error
             Wrong == {k \in j..DemeSize-1 : ~(e(j) <= e(k))}
  <2>1. Wrong \subseteq Nat
    OBVIOUS
  <2>2. ASSUME NEW k \in Wrong, \A i \in Wrong : k <= i
        PROVE  FALSE
    <3>1. k \in j..DemeSize-1 /\ k \in 0..DemeSize-1 /\ ~(e(j) <= e(k))
      BY Sizes
    <3>2. k # j
      BY <1>7, <3>1
    <3>3. k - 1 \in j..DemeSize-1 /\ k - 1 \in 0..DemeSize-1 /\ k \in 1..DemeSize-1
      BY <3>1, <3>2, Sizes
    <3>4. e(j) <= e(k-1)
      BY <2>2, <3>1, <3>3
    <3>5. e(k-1) <= e(k)
      BY <1>6, <3>3
    <3>6. e(j) \in Nat /\ e(k-1) \in Nat /\ e(k) \in Nat
      BY <1>7, <3>1, <3>3
    <3> HIDE DEF e
    <3> QED
      BY <3>1, <3>4, <3>5, <3>6
  <2>3. Wrong = {}
    <3> HIDE DEF Wrong
    <3> QED
      BY <2>1, <2>2, LeastNumber
  <2> QED
    BY <2>3
<1>9. \A k \in 0..DemeSize-1, j \in 0..DemeSize-1 :
        j <= k => q[DemeStart(d) + j].error <= q[DemeStart(d) + k].error
  BY <1>8, Sizes
<1> QED
  BY <1>5, <1>9

\* Migrants go to the end of the next deme, or behind it up to the one after.
LEMMA CopyToPlace ==
  ASSUME NEW k \in 1..Copies
  PROVE  LET e == NextDeme(OfDeme(k))
         IN  /\ e \in DemeIds /\ DemeStart(e) \in Nat /\ DemeStart(e + 1) \in Nat
             /\ CopyTo(k) = DemeStart(e + 1) - 1 - IthOf(k)
<1> DEFINE e == NextDeme(OfDeme(k))
<1>1. e \in DemeIds /\ e \in Nat
  BY CopyNumbers, NextDemeType, Sizes DEF DemeIds
<1>2. DemeStart(e) \in Nat /\ DemeStart(e + 1) \in Nat
  BY <1>1, DemeStartType
<1>3. To(OfDeme(k)) = DemeStart(e + 1) - 1
  <2>1. (e + 1) * Popsize = Popsize * (e + 1)
    BY <1>1, Sizes
  <2> QED
    BY <2>1 DEF To, DemeStart
<1> QED
  BY <1>1, <1>2, <1>3 DEF CopyTo

\* Where fewer migrate than a deme has members, the best of each, which sorting
\* has put first, stays.
LEMMA FirstIsKept ==
  ASSUME NMigrate < DemeSize, NEW q \in Pops, NEW d \in DemeIds
  PROVE  Migrated(q)[DemeStart(d)] = q[DemeStart(d)]
<1>1. d \in Nat /\ DemeStart(d) \in Nat
  BY DemeStartType, Sizes DEF DemeIds
<1>2. DemeStart(d) \in Slots
  <2>1. DemeStart(d) \in Deme(d)
    BY <1>1, CopiesType, Sizes DEF Deme
  <2> QED
    BY <2>1, DemeInSlots
<1>3. ASSUME NEW k \in 1..Copies
      PROVE  CopyTo(k) # DemeStart(d)
  <2> DEFINE e == NextDeme(OfDeme(k))
  <2>1. /\ e \in DemeIds /\ DemeStart(e) \in Nat /\ DemeStart(e + 1) \in Nat
        /\ CopyTo(k) = DemeStart(e + 1) - 1 - IthOf(k)
    BY CopyToPlace
  <2> HIDE DEF e
  <2>2. e \in Nat
    BY <2>1, Sizes DEF DemeIds
  <2>3. IthOf(k) \in 0..(NMigrate - 1) /\ NMigrate \in Nat
    BY CopyNumbers, CopiesType
  <2>4. DemeStart(e) + DemeSize <= DemeStart(e + 1)
    BY <2>2, DemeEnds
  <2>5. DemeStart(e) < CopyTo(k) /\ CopyTo(k) < DemeStart(e + 1)
    BY <2>1, <2>3, <2>4, Sizes
  <2>6. CASE d <= e
    <3>1. DemeStart(d) <= DemeStart(e)
      BY <1>1, <2>1, <2>2, <2>6, DemeEnds, Sizes
    <3> QED
      BY <1>1, <2>1, <2>3, <2>5, <3>1
  <2>7. CASE e < d
    <3>1. DemeStart(e + 1) <= DemeStart(d)
      BY <1>1, <2>1, <2>2, <2>7, DemeEnds, Sizes
    <3> QED
      BY <1>1, <2>1, <2>3, <2>5, <3>1
  <2> QED
    BY <1>1, <2>2, <2>6, <2>7
<1> QED
  BY <1>2, <1>3, KeptSlot

LEMMA MigrationKeepsBest ==
  ASSUME NMigrate < DemeSize, NEW p \in Pops, NEW q \in SortedPops(p), NEW d \in DemeIds
  PROVE  BestError(Migrated(q), d) <= BestError(p, d)
<1>1. q \in Pops /\ Migrated(q) \in Pops
  BY SortedPopsType, MigratedType
<1>2. d \in Nat /\ DemeStart(d) \in Nat
  BY DemeStartType, Sizes DEF DemeIds
<1>3. 0 \in 0..DemeSize-1 /\ DemeStart(d) \in Deme(d)
  BY <1>2, CopiesType, Sizes DEF Deme
<1>4. PICK best \in Deme(d) : BestError(p, d) = p[best].error
  BY BestExists
<1>5. q[DemeStart(d)].error <= p[best].error
  <2>1. PICK f \in Bijection(0..DemeSize-1, 0..DemeSize-1) :
          /\ \A k \in 0..DemeSize-1 : q[DemeStart(d) + k] = p[DemeStart(d) + f[k]]
          /\ \A k \in 0..DemeSize-1, j \in 0..DemeSize-1 :
               j <= k => q[DemeStart(d) + j].error <= q[DemeStart(d) + k].error
    BY SortedDemes
  <2>2. best - DemeStart(d) \in 0..DemeSize-1
    BY <1>2, Sizes DEF Deme
  <2>3. PICK k \in 0..DemeSize-1 : f[k] = best - DemeStart(d)
    BY <2>2 DEF Bijection, Surjection
  <2>4. DemeStart(d) + f[k] = best
    BY <1>2, <2>3, Sizes DEF Deme
  <2>5. q[DemeStart(d) + 0].error <= q[DemeStart(d) + k].error
    BY <1>3, <2>1
  <2>6. DemeStart(d) + 0 = DemeStart(d)
    BY <1>2
  <2> QED
    BY <2>1, <2>4, <2>5, <2>6
<1>6. BestError(Migrated(q), d) <= Migrated(q)[DemeStart(d)].error
  BY <1>1, <1>3, BestExists
<1>7. Migrated(q)[DemeStart(d)] = q[DemeStart(d)]
  BY <1>1, FirstIsKept
<1>8. q[DemeStart(d)].error \in Nat
  <2>1. q[DemeStart(d)] \in Individuals
    BY <1>1, <1>3, DemeInSlots DEF Pops
  <2> QED
    BY <2>1, DemesAssumption DEF Individuals, DemesAssumption
<1>9. BestError(p, d) \in Nat /\ BestError(Migrated(q), d) \in Nat
  BY <1>1, BestExists
<1> QED
  BY <1>4, <1>5, <1>6, <1>7, <1>8, <1>9

\* The best of a deme is never lost, neither to children, in demes of any size,
\* nor to migrants, as long as fewer migrate than a deme has members; where as
\* many do, they take the places of all (lgp.c:1195-1262, 917-950).
THEOREM BestIsKept ==
  ASSUME Ndemes = 1 \/ MigrationPercent = 0 \/ NMigrate < DemeSize
  PROVE  Spec => Elitism
<1> DEFINE Kept == \A d \in DemeIds : BestError(pop', d) <= BestError(pop, d)
<1>1. IndInv /\ [Next]_vars => [Kept]_vars
  <2> SUFFICES ASSUME IndInv, Next, NEW d \in DemeIds
               PROVE  BestError(pop', d) <= BestError(pop, d)
    OBVIOUS
  <2>1. TypeOK /\ pop \in Pops
    BY DEF IndInv, TypeOK, Pops
  <2>2. CASE Breed
    BY <2>1, <2>2, BreedKeepsBest
  <2>3. ASSUME pop' = pop
        PROVE  BestError(pop', d) <= BestError(pop, d)
    <3>1. BestError(pop, d) \in Nat
      BY <2>1, BestExists
    <3> QED
      BY <2>3, <3>1
  <2>4. CASE EndOfBreeding
    <3>1. CASE Due
      <4>1. NMigrate < DemeSize
        BY <3>1 DEF Due
      <4> QED
        BY <2>1, <2>4, <3>1, <4>1, MigrationKeepsBest DEF EndOfBreeding
    <3>2. CASE ~Due
      BY <2>3, <2>4, <3>2 DEF EndOfBreeding
    <3> QED
      BY <3>1, <3>2
  <2>5. CASE CrossoverFails \/ Break \/ EndOfTrial
    BY <2>3, <2>5 DEF CrossoverFails, Break, EndOfTrial, vars
  <2> QED
    BY <2>2, <2>4, <2>5 DEF Next
<1> QED
  BY <1>1, Invariance, PTL DEF Spec, Elitism

---------------------------------------------------------------------------------
(***************************************************************************)
(* What migration takes from where, in demes without slots between them.   *)
(***************************************************************************)
\* An exact quotient.
LEMMA ExactQuotient ==
  ASSUME NEW n \in Nat \ {0}, NEW a \in Nat
  PROVE  (n * a) \div n = a
<1>1. n * a \in Nat /\ n * a <= n * a
  OBVIOUS
<1>2. a <= (n * a) \div n
  BY <1>1, QuotientIsLargest
<1>3. (n * a) \div n \in Nat /\ n * ((n * a) \div n) <= n * a
  BY <1>1, Quotient
<1> DEFINE b == (n * a) \div n
<1>4. n * b < n * a + n /\ b \in Nat
  <2>1. n * b \in Nat
    BY <1>3
  <2> QED
    BY <1>1, <1>3, <2>1
<1> HIDE DEF b
<1>5. b <= a
  BY <1>4, Cancel
<1> QED
  BY <1>2, <1>4, <1>5 DEF b

\* If Ndemes divides Popsize, a deme ends where the next begins.
LEMMA EvenDemes ==
  ASSUME Popsize % Ndemes = 0, NEW d \in Nat
  PROVE  DemeStart(d + 1) = DemeStart(d) + DemeSize
<1>1. Popsize = Ndemes * DemeSize
  <2>1. Popsize = Ndemes * (Popsize \div Ndemes) + (Popsize % Ndemes)
    BY Sizes
  <2> QED
    BY <2>1, Sizes DEF DemeSize
<1>2. ASSUME NEW c \in Nat
      PROVE  DemeStart(c) = DemeSize * c
  <2>1. Popsize * c = Ndemes * (DemeSize * c)
    BY <1>1, Sizes
  <2>2. DemeSize * c \in Nat
    BY Sizes
  <2> QED
    BY <2>1, <2>2, ExactQuotient, Sizes DEF DemeStart
<1>3. DemeSize * (d + 1) = DemeSize * d + DemeSize
  BY Sizes
<1> QED
  BY <1>2, <1>3

\* The ring: each deme comes after one other.
LEMMA NextDemeOnce ==
  ASSUME NEW c \in DemeIds, NEW d \in DemeIds, NextDeme(c) = NextDeme(d)
  PROVE  c = d
<1>1. \A e \in DemeIds : NextDeme(e) = IF e + 1 = Ndemes THEN 0 ELSE e + 1
  BY Sizes DEF DemeIds, NextDeme
<1> QED
  BY <1>1, Sizes DEF DemeIds

\* The copy of migrant i of deme d.
LEMMA CopyOf ==
  ASSUME NEW d \in DemeIds, NEW i \in 0..(NMigrate - 1)
  PROVE  \E k \in 1..Copies : OfDeme(k) = d /\ IthOf(k) = i
<1> DEFINE k == NMigrate * d + i + 1
<1>1. NMigrate \in Nat \ {0} /\ d \in Nat /\ d + 1 <= Ndemes /\ i \in Nat /\ i < NMigrate
  BY CopiesType, Sizes DEF DemeIds
<1>2. NMigrate * d \in Nat
  BY <1>1
<1>3. k \in 1..Copies
  <2>1. NMigrate * (Ndemes - d - 1) >= 0
    BY <1>1, Sizes
  <2>2. NMigrate * (Ndemes - d - 1) = Ndemes * NMigrate - NMigrate * d - NMigrate
    BY <1>1, Sizes
  <2>3. Ndemes * NMigrate \in Nat
    BY <1>1, Sizes
  <2> QED
    BY <1>1, <1>2, <2>1, <2>2, <2>3 DEF Copies
<1>4. k = NMigrate * d + i + 1
  OBVIOUS
<1> HIDE DEF k
<1> DEFINE c == OfDeme(k)
           j == IthOf(k)
<1>5. c \in Nat /\ j \in Nat /\ j < NMigrate /\ k = NMigrate * c + j + 1
  BY <1>1, <1>3, CopyNumbers, Sizes DEF DemeIds
<1> HIDE DEF c, j
<1>6. NMigrate * c \in Nat
  BY <1>1, <1>5
<1>7. c <= d /\ d <= c
  <2>1. NMigrate * c < NMigrate * d + NMigrate /\ NMigrate * d < NMigrate * c + NMigrate
    BY <1>1, <1>2, <1>4, <1>5, <1>6
  <2> QED
    BY <1>1, <1>5, <2>1, Cancel
<1>8. c = d
  BY <1>1, <1>5, <1>7
<1>9. j = i
  BY <1>1, <1>2, <1>4, <1>5, <1>8
<1> QED
  BY <1>3, <1>8, <1>9 DEF c, j

\* Each migrant arrives as it was when the demes were sorted, and the others
\* stay, if no more than half of a deme migrate.
LEMMA MigrantsArrive ==
  ASSUME Popsize % Ndemes = 0, 2 * NMigrate <= DemeSize,
         NEW q \in Pops, NEW d \in DemeIds
  PROVE  LET new(j) == Migrated(q)[DemeStart(NextDeme(d)) + j]
         IN  /\ \A j \in 0..(DemeSize - NMigrate - 1) :
                  new(j) = q[DemeStart(NextDeme(d)) + j]
             /\ \A i \in 0..(NMigrate - 1) : new(DemeSize - 1 - i) = q[DemeStart(d) + i]
<1>1. NMigrate \in Nat /\ DemeSize \in Nat
  BY CopiesType, Sizes
<1>2. \A e \in DemeIds : e \in Nat /\ DemeStart(e) \in Nat
  BY DemeStartType, Sizes DEF DemeIds
<1>3. ASSUME NEW k \in 1..Copies
      PROVE  LET e == NextDeme(OfDeme(k))
             IN  /\ e \in DemeIds
                 /\ CopyTo(k) = DemeStart(e) + (DemeSize - 1 - IthOf(k))
                 /\ DemeSize - 1 - IthOf(k) \in (DemeSize - NMigrate)..(DemeSize - 1)
  <2> DEFINE e == NextDeme(OfDeme(k))
  <2>1. /\ e \in DemeIds /\ DemeStart(e) \in Nat /\ DemeStart(e + 1) \in Nat
        /\ CopyTo(k) = DemeStart(e + 1) - 1 - IthOf(k)
    BY CopyToPlace
  <2> HIDE DEF e
  <2>2. DemeStart(e + 1) = DemeStart(e) + DemeSize
    BY <1>2, <2>1, EvenDemes
  <2>3. IthOf(k) \in 0..(NMigrate - 1)
    BY CopyNumbers
  <2>4. /\ CopyTo(k) = DemeStart(e) + (DemeSize - 1 - IthOf(k))
        /\ DemeSize - 1 - IthOf(k) \in (DemeSize - NMigrate)..(DemeSize - 1)
    BY <1>1, <2>1, <2>2, <2>3
  <2> QED
    BY <2>1, <2>4 DEF e
\* Places with the same number in two demes differ.
<1>4. ASSUME NEW a \in DemeIds, NEW b \in DemeIds,
             NEW i \in 0..(DemeSize - 1), NEW j \in 0..(DemeSize - 1),
             DemeStart(a) + i = DemeStart(b) + j
      PROVE  a = b /\ i = j
  <2>1. DemeStart(a) + i \in Deme(a) /\ DemeStart(b) + j \in Deme(b)
    BY <1>1, <1>2 DEF Deme
  <2>2. a = b
    BY <1>4, <2>1, DemesDisjoint
  <2> QED
    BY <1>2, <1>4, <2>2
<1>5. ASSUME NEW e \in DemeIds, NEW j \in 0..(DemeSize - NMigrate - 1)
      PROVE  /\ DemeStart(e) + j \in Slots
             /\ \A k \in 1..Copies : CopyTo(k) # DemeStart(e) + j
  <2>1. j \in 0..(DemeSize - 1)
    BY <1>1
  <2>2. DemeStart(e) + j \in Deme(e)
    BY <1>1, <1>2, <2>1 DEF Deme
  <2>3. ASSUME NEW k \in 1..Copies, CopyTo(k) = DemeStart(e) + j
        PROVE  FALSE
    <3> DEFINE c == NextDeme(OfDeme(k))
               i == DemeSize - 1 - IthOf(k)
    <3>1. /\ c \in DemeIds /\ CopyTo(k) = DemeStart(c) + i
          /\ i \in (DemeSize - NMigrate)..(DemeSize - 1)
      BY <1>3
    <3> HIDE DEF c, i
    <3>2. i \in 0..(DemeSize - 1)
      BY <1>1, <3>1
    <3>3. i = j
      BY <1>4, <2>1, <2>3, <3>1, <3>2
    <3> QED
      BY <1>1, <3>1, <3>3
  <2> QED
    BY <2>2, <2>3, DemeInSlots
<1>6. NextDeme(d) \in DemeIds
  BY NextDemeType
<1>7. \A j \in 0..(DemeSize - NMigrate - 1) :
        Migrated(q)[DemeStart(NextDeme(d)) + j] = q[DemeStart(NextDeme(d)) + j]
  BY <1>5, <1>6, KeptSlot
<1>8. ASSUME NEW i \in 0..(NMigrate - 1)
      PROVE  Migrated(q)[DemeStart(NextDeme(d)) + (DemeSize - 1 - i)] = q[DemeStart(d) + i]
  <2>1. PICK k \in 1..Copies : OfDeme(k) = d /\ IthOf(k) = i
    BY CopyOf
  <2>2. PICK f : CopiesOf(q, f) /\ Migrated(q) = f[Copies]
    BY MigrationCopies
  <2> DEFINE s == DemeStart(NextDeme(d)) + (DemeSize - 1 - i)
  <2>3. CopyTo(k) = s /\ DemeSize - 1 - i \in 0..(DemeSize - 1)
    BY <1>1, <1>3, <2>1
  <2>4. s \in Slots
    <3>1. s \in Deme(NextDeme(d))
      BY <1>1, <1>2, <1>6, <2>3 DEF Deme
    <3> QED
      BY <1>6, <3>1, DemeInSlots
  <2>5. CopyFrom(k) = DemeStart(d) + i
    <3>1. d * Popsize = Popsize * d
      BY <1>2, Sizes
    <3> QED
      BY <2>1, <3>1 DEF CopyFrom, From, DemeStart
  <2>6. i \in 0..(DemeSize - NMigrate - 1)
    BY <1>1
  <2>7. k - 1 \in 0..Copies /\ k \in 0..Copies /\ Copies \in k..Copies /\ 0 \in 0..Copies
    BY CopiesType
  <2>8. f[k-1][DemeStart(d) + i] = q[DemeStart(d) + i]
    <3>1. \A j \in 0..Copies : f[j][DemeStart(d) + i] = f[0][DemeStart(d) + i]
      BY <1>5, <2>2, <2>6, <2>7, CopyLasts
    <3> QED
      BY <2>2, <2>7, <3>1 DEF CopiesOf
  <2>9. f[k][s] = q[DemeStart(d) + i]
    <3>1. f[k] = [f[k-1] EXCEPT ![CopyTo(k)] = f[k-1][CopyFrom(k)]] /\ f[k-1] \in Pops
      BY <2>2, <2>7 DEF CopiesOf
    <3> QED
      BY <2>3, <2>4, <2>5, <2>8, <3>1 DEF Pops
  <2>10. ASSUME NEW c \in 1..Copies, c > k, CopyTo(c) = s
         PROVE  FALSE
    <3> DEFINE e == NextDeme(OfDeme(c))
               j == DemeSize - 1 - IthOf(c)
    <3>1. /\ e \in DemeIds /\ CopyTo(c) = DemeStart(e) + j
          /\ j \in (DemeSize - NMigrate)..(DemeSize - 1)
      BY <1>3
    <3>2. j \in 0..(DemeSize - 1)
      BY <1>1, <3>1
    <3>3. e = NextDeme(d) /\ j = DemeSize - 1 - i
      <4> HIDE DEF e, j
      <4>1. DemeStart(NextDeme(d)) + (DemeSize - 1 - i) = DemeStart(e) + j
        BY <2>10, <3>1
      <4> QED
        BY <1>4, <1>6, <2>3, <3>1, <3>2, <4>1
    <3>4. OfDeme(c) = d /\ IthOf(c) = i
      <4>1. OfDeme(c) \in DemeIds /\ IthOf(c) \in 0..(NMigrate - 1)
        BY CopyNumbers
      <4> QED
        BY <1>1, <3>3, <4>1, NextDemeOnce
    <3>5. c = NMigrate * d + i + 1 /\ k = NMigrate * d + i + 1
      BY <2>1, <3>4, CopyNumbers
    <3> QED
      BY <2>10, <3>5
  <2>11. \A j \in k..Copies : f[j][s] = f[k][s]
    <3> HIDE DEF s
    <3> QED
      BY <2>2, <2>4, <2>7, <2>10, CopyLasts
  <2> QED
    BY <2>2, <2>7, <2>9, <2>11
<1> QED
  BY <1>7, <1>8

\* A set of numbers below n that has all numbers below each of its members.
LEMMA InitialSegment ==
  ASSUME NEW n \in Nat, NEW T \in SUBSET (0..(n - 1)),
         \A k \in T : \A j \in 0..k : j \in T
  PROVE  \E m \in 0..n : T = 0..(m - 1)
<1> DEFINE Others == (0..n) \ T
<1>1. Others \subseteq Nat /\ n \in Others
  OBVIOUS
<1>2. PICK m \in Others : \A k \in Others : m <= k
  BY <1>1, LeastNumber
<1>3. m \in 0..n /\ m \notin T
  OBVIOUS
<1>4. \A k \in 0..(m - 1) : k \in T
  <2> TAKE k \in 0..(m - 1)
  <2>1. k \in 0..n /\ ~(m <= k)
    BY <1>3
  <2> QED
    BY <1>2, <2>1
<1>5. \A k \in T : k \in 0..(m - 1)
  <2> TAKE k \in T
  <2>1. k \in 0..(n - 1)
    OBVIOUS
  <2>2. ~(m <= k)
    BY <1>3, <2>1
  <2> QED
    BY <1>3, <2>1, <2>2
<1> QED
  BY <1>3, <1>4, <1>5

\* The size of a stretch of numbers, and of two sets with nothing in common.
LEMMA Stretch ==
  ASSUME NEW a \in Int, NEW b \in Int, a <= b
  PROVE  IsFiniteSet(a..(b - 1)) /\ Cardinality(a..(b - 1)) = b - a
<1> DEFINE c == b - 1
<1>1. c \in Int /\ c - a + 1 = b - a /\ (a > c => b - a = 0)
  OBVIOUS
<1> HIDE DEF c
<1>2. IsFiniteSet(a..c) /\ Cardinality(a..c) = IF a > c THEN 0 ELSE c - a + 1
  BY <1>1, FS_Interval
<1> QED
  BY <1>1, <1>2 DEF c

LEMMA Disjoint ==
  ASSUME NEW S, NEW T, IsFiniteSet(S), IsFiniteSet(T), S \cap T = {}
  PROVE  /\ Cardinality(S) \in Nat /\ Cardinality(T) \in Nat
         /\ Cardinality(S \cup T) = Cardinality(S) + Cardinality(T)
<1>1. Cardinality(S) \in Nat /\ Cardinality(T) \in Nat
  BY FS_CardinalityType
<1>2. Cardinality(S \cap T) = 0
  BY FS_EmptySet
<1>3. Cardinality(S \cup T) = Cardinality(S) + Cardinality(T) - Cardinality(S \cap T)
  BY FS_Union
<1> QED
  BY <1>1, <1>2, <1>3

Positions == 0..(DemeSize - 1)

\* The members of a deme that some numbering of them has at positions K.
LEMMA CountPositions ==
  ASSUME NEW d \in DemeIds, NEW f \in Bijection(Positions, Positions),
         NEW T \in SUBSET Deme(d), NEW K \in SUBSET Positions,
         \A k \in Positions : k \in K <=> DemeStart(d) + f[k] \in T
  PROVE  IsFiniteSet(T) /\ Cardinality(T) = Cardinality(K)
<1>1. d \in Nat /\ DemeStart(d) \in Nat /\ DemeSize \in Nat
  BY DemeStartType, Sizes DEF DemeIds
<1> DEFINE g == [k \in K |-> DemeStart(d) + f[k]]
<1>2. \A k \in Positions : f[k] \in Positions
  BY DEF Bijection, Injection
<1>3. g \in [K -> T]
  OBVIOUS
<1>4. \A j \in K, k \in K : g[j] = g[k] => j = k
  <2> TAKE j \in K, k \in K
  <2>1. f[j] \in Int /\ f[k] \in Int
    BY <1>2 DEF Positions
  <2>2. g[j] = g[k] => f[j] = f[k]
    BY <1>1, <2>1
  <2> QED
    BY <2>2 DEF Bijection, Injection, IsInjective
<1>5. \A s \in T : \E k \in K : g[k] = s
  <2> TAKE s \in T
  <2>1. s - DemeStart(d) \in Positions /\ s = DemeStart(d) + (s - DemeStart(d))
    BY <1>1 DEF Deme, Positions
  <2>2. PICK k \in Positions : f[k] = s - DemeStart(d)
    BY <2>1 DEF Bijection, Surjection
  <2>3. DemeStart(d) + f[k] = s
    BY <2>1, <2>2
  <2>4. k \in K
    BY <2>3
  <2> QED
    BY <2>3, <2>4
<1>6. g \in Bijection(K, T)
  <2> HIDE DEF g
  <2> QED
    BY <1>3, <1>4, <1>5 DEF Bijection, Injection, Surjection, IsInjective
<1>7. IsFiniteSet(K)
  <2>1. IsFiniteSet(Positions)
    BY <1>1, Stretch DEF Positions
  <2> QED
    BY <2>1, FS_Subset
<1> QED
  BY <1>6, <1>7, FS_Bijection DEF ExistsBijection

\* Of a sorted deme, the best members are those at the first positions.
LEMMA CountBest ==
  ASSUME NEW p \in Pops, NEW q \in SortedPops(p), NEW d \in DemeIds,
         NEW m \in 0..DemeSize, NEW e \in Nat
  PROVE  AmongBest(p, d, m, e) =
           Cardinality({k \in 0..(m - 1) : q[DemeStart(d) + k].error = e})
<1>1. PICK f \in Bijection(Positions, Positions) :
        /\ \A k \in Positions : q[DemeStart(d) + k] = p[DemeStart(d) + f[k]]
        /\ \A k \in Positions, j \in Positions :
             j <= k => q[DemeStart(d) + j].error <= q[DemeStart(d) + k].error
  BY SortedDemes DEF Positions
<1> DEFINE err(k) == q[DemeStart(d) + k].error
           Lower == {k \in Positions : err(k) < e}
           Upto == {k \in Positions : err(k) <= e}
           Same == {k \in Positions : err(k) = e}
<1>2. d \in Nat /\ DemeStart(d) \in Nat /\ DemeSize \in Nat
  BY DemeStartType, Sizes DEF DemeIds
<1>3. \A k \in Positions : err(k) \in Nat
  <2> TAKE k \in Positions
  <2>1. DemeStart(d) + k \in Deme(d)
    BY <1>2 DEF Positions, Deme
  <2>2. q[DemeStart(d) + k] \in Individuals
    BY <2>1, SortedPopsType, DemeInSlots DEF Pops
  <2> QED
    BY <2>2, DemesAssumption DEF Individuals, DemesAssumption
<1>4. \A k \in Positions, j \in Positions : j <= k => err(j) <= err(k)
  BY <1>1
<1>5. \A k \in Positions : err(k) = p[DemeStart(d) + f[k]].error
  BY <1>1
<1> HIDE DEF err
<1>6. \A k \in Positions : \A j \in 0..k : j \in Positions /\ j <= k
  BY <1>2 DEF Positions
<1>7. PICK b \in 0..DemeSize : Lower = 0..(b - 1)
  <2>1. Lower \in SUBSET (0..(DemeSize - 1))
    BY DEF Positions
  <2>2. \A k \in Lower : \A j \in 0..k : j \in Lower
    <3> TAKE k \in Lower
    <3> TAKE j \in 0..k
    <3>1. j \in Positions /\ j <= k /\ k \in Positions
      BY <1>6
    <3>2. err(j) <= err(k) /\ err(j) \in Nat /\ err(k) \in Nat
      BY <1>3, <1>4, <3>1
    <3> QED
      BY <3>1, <3>2
  <2> HIDE DEF Lower
  <2> QED
    BY <1>2, <2>1, <2>2, InitialSegment
<1>8. PICK l \in 0..DemeSize : Upto = 0..(l - 1)
  <2>1. Upto \in SUBSET (0..(DemeSize - 1))
    BY DEF Positions
  <2>2. \A k \in Upto : \A j \in 0..k : j \in Upto
    <3> TAKE k \in Upto
    <3> TAKE j \in 0..k
    <3>1. j \in Positions /\ j <= k /\ k \in Positions
      BY <1>6
    <3>2. err(j) <= err(k) /\ err(j) \in Nat /\ err(k) \in Nat
      BY <1>3, <1>4, <3>1
    <3> QED
      BY <3>1, <3>2
  <2> HIDE DEF Upto
  <2> QED
    BY <1>2, <2>1, <2>2, InitialSegment
<1>9. b <= l
  <2>1. Lower \subseteq Upto
    BY <1>3
  <2>2. b > 0 => b - 1 \in 0..(l - 1)
    BY <1>7, <1>8, <2>1
  <2> QED
    BY <2>2
<1>10. Same = b..(l - 1)
  <2>1. \A k \in Positions : k \in Same <=> k \in Upto /\ k \notin Lower
    BY <1>3
  <2>2. \A k \in Same : k \in b..(l - 1)
    <3> TAKE k \in Same
    <3>1. k \in 0..(l - 1) /\ k \notin 0..(b - 1)
      BY <1>7, <1>8, <2>1
    <3> QED
      BY <3>1
  <2>3. \A k \in b..(l - 1) : k \in Same
    <3> TAKE k \in b..(l - 1)
    <3>1. k \in 0..(l - 1) /\ k \notin 0..(b - 1)
      OBVIOUS
    <3>2. k \in Upto /\ k \notin Lower
      BY <1>7, <1>8, <3>1
    <3> QED
      BY <2>1, <3>2
  <2> HIDE DEF Same
  <2> QED
    BY <2>2, <2>3
<1>11. Cardinality({s \in Deme(d) : p[s].error < e}) = b
  <2> DEFINE T == {s \in Deme(d) : p[s].error < e}
  <2>1. \A k \in Positions : DemeStart(d) + f[k] \in Deme(d)
    BY <1>2 DEF Positions, Deme, Bijection, Injection
  <2>2. \A k \in Positions : k \in Lower <=> DemeStart(d) + f[k] \in T
    BY <1>5, <2>1
  <2>3. T \in SUBSET Deme(d) /\ Lower \in SUBSET Positions
    OBVIOUS
  <2>4. Cardinality(T) = Cardinality(Lower)
    <3> HIDE DEF T, Lower
    <3> QED
      BY <2>2, <2>3, CountPositions
  <2>5. Cardinality(0..(b - 1)) = b
    BY Stretch
  <2> QED
    BY <1>7, <2>4, <2>5
<1>12. Cardinality({s \in Deme(d) : p[s].error = e}) = l - b
  <2> DEFINE T == {s \in Deme(d) : p[s].error = e}
  <2>1. \A k \in Positions : DemeStart(d) + f[k] \in Deme(d)
    BY <1>2 DEF Positions, Deme, Bijection, Injection
  <2>2. \A k \in Positions : k \in Same <=> DemeStart(d) + f[k] \in T
    BY <1>5, <2>1
  <2>3. T \in SUBSET Deme(d) /\ Same \in SUBSET Positions
    OBVIOUS
  <2>4. Cardinality(T) = Cardinality(Same)
    <3> HIDE DEF T, Same
    <3> QED
      BY <2>2, <2>3, CountPositions
  <2>5. Cardinality(b..(l - 1)) = l - b
    BY <1>9, Stretch
  <2> QED
    BY <1>10, <2>4, <2>5
<1>13. AmongBest(p, d, m, e) = IF b >= m THEN 0 ELSE IF l >= m THEN m - b ELSE l - b
  BY <1>2, <1>9, <1>11, <1>12 DEF AmongBest
<1> DEFINE First == {k \in 0..(m - 1) : err(k) = e}
<1>14. First = {k \in 0..(m - 1) : k \in b..(l - 1)}
  <2>1. \A k \in 0..(m - 1) : k \in Positions
    BY <1>2 DEF Positions
  <2>2. \A k \in 0..(m - 1) : err(k) = e <=> k \in Same
    BY <2>1
  <2>3. \A k \in 0..(m - 1) : err(k) = e <=> k \in b..(l - 1)
    BY <1>10, <2>2
  <2> HIDE DEF Same
  <2> QED
    BY <2>3
<1>15. First = b..((IF l >= m THEN m ELSE l) - 1)
  BY <1>2, <1>14
<1>16. Cardinality(First) = IF b >= m THEN 0 ELSE IF l >= m THEN m - b ELSE l - b
  <2> HIDE DEF First
  <2>1. CASE b >= m
    <3>1. First = {}
      BY <1>2, <1>15, <2>1
    <3> QED
      BY <2>1, <3>1, FS_EmptySet
  <2>2. CASE b < m /\ l >= m
    BY <1>2, <1>15, <2>2, Stretch
  <2>3. CASE b < m /\ l < m
    BY <1>2, <1>9, <1>15, <2>3, Stretch
  <2> QED
    BY <1>2, <2>1, <2>2, <2>3
<1> QED
  BY <1>13, <1>16 DEF err

\* Of all members of a deme, those with an error are counted.
LEMMA CountAll ==
  ASSUME NEW p \in Pops, NEW d \in DemeIds, NEW e \in Nat
  PROVE  AmongBest(p, d, DemeSize, e) =
           Cardinality({k \in Positions : p[DemeStart(d) + k].error = e})
<1> DEFINE Lower == {s \in Deme(d) : p[s].error < e}
           Same == {s \in Deme(d) : p[s].error = e}
           K == {k \in Positions : p[DemeStart(d) + k].error = e}
           id == [k \in Positions |-> k]
<1>1. d \in Nat /\ DemeStart(d) \in Nat /\ DemeSize \in Nat
  BY DemeStartType, Sizes DEF DemeIds
<1>2. IsFiniteSet(Deme(d)) /\ Cardinality(Deme(d)) = DemeSize
  <2> DEFINE last == DemeStart(d) + DemeSize
  <2>1. last \in Int /\ DemeStart(d) <= last /\ last - DemeStart(d) = DemeSize
    BY <1>1
  <2>2. Deme(d) = DemeStart(d)..(last - 1)
    BY <1>1, <2>1 DEF Deme
  <2> HIDE DEF last
  <2>3. IsFiniteSet(DemeStart(d)..(last - 1)) /\ Cardinality(DemeStart(d)..(last - 1)) = DemeSize
    BY <1>1, <2>1, Stretch
  <2> QED
    BY <2>2, <2>3
<1>3. Lower \in SUBSET Deme(d) /\ Same \in SUBSET Deme(d)
  OBVIOUS
<1>4. Lower \cap Same = {}
  <2>1. \A s \in Deme(d) : p[s].error \in Nat
    BY DemeInSlots, DemesAssumption DEF Pops, Individuals, DemesAssumption
  <2> QED
    BY <2>1
<1>5. Cardinality(Same) = Cardinality(K)
  <2>1. id \in Bijection(Positions, Positions)
    BY DEF Bijection, Injection, Surjection, IsInjective
  <2>2. \A k \in Positions : DemeStart(d) + id[k] \in Deme(d)
    BY <1>1 DEF Positions, Deme
  <2>3. \A k \in Positions : k \in K <=> DemeStart(d) + id[k] \in Same
    BY <2>2
  <2>4. K \in SUBSET Positions
    OBVIOUS
  <2> HIDE DEF id, K, Same
  <2> QED
    BY <1>3, <2>1, <2>3, <2>4, CountPositions
<1> HIDE DEF Lower, Same, K
<1>6. IsFiniteSet(Lower) /\ IsFiniteSet(Same) /\ IsFiniteSet(Lower \cup Same)
  <2>1. Lower \cup Same \in SUBSET Deme(d)
    BY <1>3
  <2> QED
    BY <1>2, <1>3, <2>1, FS_Subset
<1>7. /\ Cardinality(Lower) \in Nat /\ Cardinality(Same) \in Nat
      /\ Cardinality(Lower \cup Same) = Cardinality(Lower) + Cardinality(Same)
  BY <1>4, <1>6, Disjoint
<1>8. Cardinality(Lower) + Cardinality(Same) <= DemeSize
  <2>1. Lower \cup Same \in SUBSET Deme(d)
    BY <1>3
  <2> QED
    BY <1>2, <1>7, <2>1, FS_Subset
<1>9. AmongBest(p, d, DemeSize, e) = Cardinality(Same)
  <2>1. AmongBest(p, d, DemeSize, e) =
          IF Cardinality(Lower) >= DemeSize THEN 0
          ELSE IF Cardinality(Lower) + Cardinality(Same) >= DemeSize
            THEN DemeSize - Cardinality(Lower) ELSE Cardinality(Same)
    BY DEF AmongBest, Lower, Same
  <2> QED
    BY <1>1, <1>7, <1>8, <2>1
<1> QED
  BY <1>5, <1>9 DEF K

\* A deme consists of its own best and of the best of the deme before.
LEMMA MigrationCounts ==
  ASSUME Popsize % Ndemes = 0, 2 * NMigrate <= DemeSize,
         NEW p \in Pops, NEW q \in SortedPops(p), NEW d \in DemeIds, NEW e \in Nat
  PROVE  AmongBest(Migrated(q), NextDeme(d), DemeSize, e) =
           AmongBest(p, NextDeme(d), DemeSize - NMigrate, e) + AmongBest(p, d, NMigrate, e)
<1> DEFINE n == NextDeme(d)
           r == Migrated(q)
           Own == {k \in 0..(DemeSize - NMigrate - 1) : q[DemeStart(n) + k].error = e}
           Come == {i \in 0..(NMigrate - 1) : q[DemeStart(d) + i].error = e}
           All == {k \in Positions : r[DemeStart(n) + k].error = e}
           Place == [i \in Come |-> DemeSize - 1 - i]
           Places == {k \in (DemeSize - NMigrate)..(DemeSize - 1) :
                        r[DemeStart(n) + k].error = e}
<1>1. NMigrate \in Nat /\ DemeSize \in Nat /\ n \in DemeIds /\ q \in Pops /\ r \in Pops
  BY CopiesType, Sizes, NextDemeType, SortedPopsType, MigratedType
<1>2. /\ \A j \in 0..(DemeSize - NMigrate - 1) : r[DemeStart(n) + j] = q[DemeStart(n) + j]
      /\ \A i \in 0..(NMigrate - 1) : r[DemeStart(n) + (DemeSize - 1 - i)] = q[DemeStart(d) + i]
  BY <1>1, MigrantsArrive
<1>3. AmongBest(r, n, DemeSize, e) = Cardinality(All)
  BY <1>1, CountAll
<1>4. DemeSize - NMigrate \in 0..DemeSize /\ NMigrate \in 0..DemeSize
  BY <1>1
<1>5. AmongBest(p, n, DemeSize - NMigrate, e) = Cardinality(Own)
  BY <1>1, <1>4, CountBest
<1>6. AmongBest(p, d, NMigrate, e) = Cardinality(Come)
  BY <1>4, CountBest
<1> HIDE DEF n, r
<1>7. All = Own \cup Places /\ Own \cap Places = {}
  <2>1. \A k \in Positions : \/ k \in 0..(DemeSize - NMigrate - 1)
                             \/ k \in (DemeSize - NMigrate)..(DemeSize - 1)
    BY <1>1 DEF Positions
  <2>2. \A k \in 0..(DemeSize - NMigrate - 1) :
          k \in Positions /\ k \notin (DemeSize - NMigrate)..(DemeSize - 1)
    BY <1>1 DEF Positions
  <2>3. \A k \in (DemeSize - NMigrate)..(DemeSize - 1) : k \in Positions
    BY <1>1 DEF Positions
  <2> QED
    BY <1>2, <2>1, <2>2, <2>3
<1>8. Place \in Bijection(Come, Places)
  <2>1. \A i \in 0..(NMigrate - 1) : DemeSize - 1 - i \in (DemeSize - NMigrate)..(DemeSize - 1)
    BY <1>1
  <2>2. Place \in [Come -> Places]
    BY <1>2, <2>1
  <2>3. \A i \in Come, j \in Come : Place[i] = Place[j] => i = j
    BY <1>1
  <2>4. \A k \in Places : \E i \in Come : Place[i] = k
    <3> TAKE k \in Places
    <3> DEFINE i == DemeSize - 1 - k
    <3>1. i \in 0..(NMigrate - 1) /\ DemeSize - 1 - i = k
      BY <1>1
    <3>2. i \in Come
      BY <1>2, <3>1
    <3> QED
      BY <3>1, <3>2
  <2> HIDE DEF Place, Come, Places
  <2> QED
    BY <2>2, <2>3, <2>4 DEF Bijection, Injection, Surjection, IsInjective
<1>9. IsFiniteSet(Own) /\ IsFiniteSet(Come)
  <2>1. Own \in SUBSET (0..(DemeSize - NMigrate - 1)) /\ Come \in SUBSET (0..(NMigrate - 1))
    OBVIOUS
  <2>2. IsFiniteSet(0..(DemeSize - NMigrate - 1)) /\ IsFiniteSet(0..(NMigrate - 1))
    <3> DEFINE kept == DemeSize - NMigrate
    <3>1. kept \in Nat
      BY <1>1
    <3> HIDE DEF kept
    <3>2. IsFiniteSet(0..(kept - 1)) /\ IsFiniteSet(0..(NMigrate - 1))
      BY <1>1, <3>1, Stretch
    <3> QED
      BY <3>2 DEF kept
  <2> HIDE DEF Own, Come
  <2> QED
    BY <2>1, <2>2, FS_Subset
<1>10. IsFiniteSet(Places) /\ Cardinality(Places) = Cardinality(Come)
  <2> HIDE DEF Place, Come, Places
  <2> QED
    BY <1>8, <1>9, FS_Bijection DEF ExistsBijection
<1>11. Cardinality(All) = Cardinality(Own) + Cardinality(Places)
  <2> HIDE DEF All, Own, Places
  <2> QED
    BY <1>7, <1>9, <1>10, Disjoint
<1> QED
  BY <1>3, <1>5, <1>6, <1>10, <1>11 DEF n, r

\* In even demes no migrant goes astray, and none of the best no members has an error.
LEMMA NoneAstray ==
  ASSUME Popsize % Ndemes = 0, NEW d \in DemeIds
  PROVE  /\ Astray(d) = 0
         /\ \A p \in Pops, e \in Nat : AmongBest(p, d, 0, e) = 0
<1>1. NextDeme(d) \in DemeIds /\ NextDeme(d) \in Nat
  BY NextDemeType, Sizes DEF DemeIds
<1>2. NMigrate \in Nat
  BY CopiesType
<1>3. To(d) = DemeStart(NextDeme(d) + 1) - 1
  <2>1. (NextDeme(d) + 1) * Popsize = Popsize * (NextDeme(d) + 1)
    BY <1>1, Sizes
  <2> QED
    BY <2>1 DEF To, DemeStart
<1>4. DemeStart(NextDeme(d) + 1) = DemeStart(NextDeme(d)) + DemeSize
  BY <1>1, EvenDemes
<1>5. DemeStart(NextDeme(d)) \in Nat /\ DemeSize \in Nat
  BY <1>1, DemeStartType, Sizes
<1>6. To(d) - (DemeStart(NextDeme(d)) + DemeSize - 1) = 0
  BY <1>3, <1>4, <1>5
<1>7. Astray(d) = 0
  BY <1>2, <1>6 DEF Astray
<1>8. ASSUME NEW p \in Pops, NEW e \in Nat
      PROVE  AmongBest(p, d, 0, e) = 0
  <2> DEFINE Lower == {s \in Deme(d) : p[s].error < e}
  <2>1. IsFiniteSet(Deme(d))
    <3> DEFINE a == DemeStart(d)
               b == DemeStart(d) + DemeSize
    <3>1. DemeStart(d) \in Nat /\ DemeSize \in Nat
      BY DemeStartType, Sizes DEF DemeIds
    <3>2. a \in Int /\ b \in Int /\ a <= b
      BY <3>1
    <3>3. Deme(d) = a..(b - 1)
      BY <3>1 DEF Deme
    <3> HIDE DEF a, b
    <3> QED
      BY <3>2, <3>3, Stretch
  <2>2. Cardinality(Lower) \in Nat
    <3>1. Lower \in SUBSET Deme(d)
      OBVIOUS
    <3> HIDE DEF Lower
    <3> QED
      BY <2>1, <3>1, FS_Subset, FS_CardinalityType
  <2> QED
    BY <2>2 DEF AmongBest
<1> QED
  BY <1>7, <1>8

\* Migration gives every deme the best of the deme before it, for its own worst:
\* for even demes of which no more than half migrate, although the copies are
\* made in one array, one deme after the other (lgp.c:913-950).  None of their
\* migrants goes astray.
THEOREM RingMigrates ==
  ASSUME Popsize % Ndemes = 0, 2 * NMigrate <= DemeSize
  PROVE  Spec => RingMigration
<1> DEFINE Ring ==
      pc = "tail" /\ pc' = "breed" /\ Due =>
        \A d \in DemeIds, e \in Errors :
           AmongBest(pop', NextDeme(d), DemeSize, e) =
              AmongBest(pop, NextDeme(d), DemeSize - (NMigrate - Astray(d)), e)
              + (AmongBest(pop, d, NMigrate, e) - AmongBest(pop, d, Astray(d), e))
<1>1. IndInv /\ [Next]_vars => [Ring]_vars
  <2> SUFFICES ASSUME IndInv, Next, pc = "tail", pc' = "breed", Due,
                      NEW d \in DemeIds, NEW e \in Errors
               PROVE  AmongBest(pop', NextDeme(d), DemeSize, e) =
                        AmongBest(pop, NextDeme(d), DemeSize - (NMigrate - Astray(d)), e)
                        + (AmongBest(pop, d, NMigrate, e) - AmongBest(pop, d, Astray(d), e))
    OBVIOUS
  <2>1. EndOfBreeding
    BY DEF Next, Breed, CrossoverFails, Break, EndOfTrial
  <2>2. PICK q \in SortedPops(pop) : pop' = Migrated(q)
    BY <2>1 DEF EndOfBreeding
  <2>3. pop \in Pops /\ e \in Nat
    BY DemesAssumption DEF IndInv, TypeOK, Pops, DemesAssumption
  <2>4. AmongBest(pop', NextDeme(d), DemeSize, e) =
          AmongBest(pop, NextDeme(d), DemeSize - NMigrate, e) + AmongBest(pop, d, NMigrate, e)
    BY <2>2, <2>3, MigrationCounts
  <2>5. Astray(d) = 0 /\ AmongBest(pop, d, Astray(d), e) = 0
    BY <2>3, NoneAstray
  <2>6. NMigrate \in Nat /\ AmongBest(pop, d, NMigrate, e) \in Int
    <3>1. NMigrate \in 0..DemeSize
      BY CopiesType, Sizes
    <3>2. AmongBest(pop, d, NMigrate, e) =
            Cardinality({k \in 0..(NMigrate - 1) : q[DemeStart(d) + k].error = e})
      BY <2>2, <2>3, <3>1, CountBest
    <3>3. IsFiniteSet(0..(NMigrate - 1))
      BY CopiesType, Stretch
    <3> DEFINE Migrants == {k \in 0..(NMigrate - 1) : q[DemeStart(d) + k].error = e}
    <3>4. Migrants \in SUBSET (0..(NMigrate - 1))
      OBVIOUS
    <3>5. Cardinality(Migrants) \in Nat
      <4> HIDE DEF Migrants
      <4> QED
        BY <3>3, <3>4, FS_Subset, FS_CardinalityType
    <3> QED
      BY CopiesType, <3>2, <3>5
  <2>7. /\ DemeSize - (NMigrate - Astray(d)) = DemeSize - NMigrate
        /\ AmongBest(pop, d, NMigrate, e) - AmongBest(pop, d, Astray(d), e)
             = AmongBest(pop, d, NMigrate, e)
    BY <2>5, <2>6, Sizes
  <2> QED
    BY <2>4, <2>7
<1> QED
  BY <1>1, Invariance, PTL DEF Spec, RingMigration
=============================================================================
