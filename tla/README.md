# Linear-Genetic-Programming in TLA+

`lgp` evolves x86 machine code. A population of byte strings, each a fixed
header, some two- and six-byte x87 instructions and a footer, is bred by
tournament, crossover and mutation, and every program is *executed* to measure
its error. The best program of each trial is disassembled, translated to C and,
for classification, given a vote in an ensemble.

This directory holds TLA+ modules for `lgp`, for the program `decompiled` that
runs its C output, and for the parts of the vendored disassembler libdisasm on which
both depend; TLC configurations that check the modules on small instances; and
proofs by TLAPS that properties hold for every value of the constants.
Line numbers refer to `src/`; those of libdisasm to `src/libdisasm-0.23/`.

## The system

| part | code | state | operations | module |
|---|---|---|---|---|
| genetic operators | `lgp.c:523-900` | `pop[]`: `code`, `indices`, `ninstr`, `codelen` | `random_instruction`, `init_programs`, `crossover`, `mutate` | Genome, Programs |
| demes and migration | `lgp.c:903-950`, `1187-1448` | order of `pop[]`, `error`, `deme`, `gen` | tournament, replacement, `migrate` | Demes |
| trial control | `lgp.c:1142-1517` | `best`, `lowest_error`, `validateerror`, `lastvalidateerror`, `genimproved`, `trial` | improvement, early stopping, stagnation, perfect test, restart | Trial |
| both together | `lgp.c:1182-1517`, `plot.c` | all of these, statistics | the loops of `main` | Lgp |
| ensemble | `lgp.c:956-1043`, `1464-1490` | `bestoutputs[]`, `ensemblesize`, `indicator` | `addto_ensemble`, `update_ensembled_indicator`, `ensemble_error`, removal | Ensemble |
| fitness | `compute_error.c` | FPU state, `input[]` | run a program over a window, catch SIGFPE | Ensemble, Inputs, Decompile |
| options, input, bagging | `lgp.c:414-474`, `1046-1152`, `load.c` | `inputs[]`, `outputs[]`, `inputsresampled[]` | `scanargs`, `load`, resampling | Inputs |
| decompiled program | `decompiled.c` | a second copy of the data | load, classify, recompute the error | Inputs |
| decompiler | `decompile.c`, `disasm.c` | C statements | one or more statements for each instruction | Decompile |
| decoder | `libdisasm/ia32_*.c`, `x86_disasm.c` | none | table lookup, operands, sizes | Ia32, Ia32Tables |
| disassembly driver | `x86dis/x86dis.c`, `x86_disasm.c` | list of requests, list of jumps seen | ranges, recursive disassembly | Disassembly |
| random numbers | `util.c` | four seeds | xorshift, scaling to [0,1) | Fastrand |

Everything runs in one thread. The parts share globals: the breeding loop
writes `pop[]` and calls `crossover` and `mutate` on pointers into it; the
improvement test copies a member of `pop[]` to `best`; the end of a trial runs
`best` over the data and appends a vector to `bestoutputs`; `indicator` caches
the vote over that array; the decompiler finds the instructions of `best` again
without its boundary table. What is hard is therefore not concurrency but

* long sequences of legal steps on data that are kept in two places: code and
  boundaries, the array and its vote, the best program and three copies of its error,
  inputs and resampled inputs, a request list and the order in which it came;
* the same thing done twice by different code: instructions put together and
  decoded, machine code and its C translation, a file loaded and its error
  computed by two programs;
* rounding and limits: bounds of demes, program sizes, windows of data,
  growth of arrays, instructions cut off by the end of a buffer, a quotient next to 1;
* an exception that ends a computation in the middle, and loops that end only
  if there is something to find or to remember.

`PROJECT.json` lists these hazards at their lines, with the properties that
would notice, or the reason why none does.

## Modules

### Genome, MCGenome, Programs, GenomeProofs

`Genome` is the code and boundary level. `pop[s]` is a record with the fields of
`struct pop` except `error`; `code` has exactly the bytes written so far.

| action | code |
|---|---|
| `GenerateInstruction` | one iteration of the loop in `init_programs` (629-647) |
| `FinishProgram` | the footer and the next program (649-674) |
| `RejectProgram` | `--initialfitness`: the program is made again (658-670) |
| `Crossover` | `crossover` returning 1 (730-784), on any four distinct programs and any points that 692-725 can draw |
| `CrossoverFails` | `crossover` returning 0: nothing is written |
| `Mutate` | `mutate` of the next child, all five kinds of change, no change, and the "BOOM" exit |

Three loops are closed forms. The loop that adds up the lengths of tail
instructions (752-761) is a move of the tail's boundaries by one distance,
because the sum telescopes; the byte-copying loops are functions; and the ten
draws of crossover points are a choice among the admissible ones, or failure if
some pair is inadmissible. The header is taken from the first parent, while the
code leaves in place the child's own, which is the same bytes. Probabilities and which
individuals are drawn are nondeterministic; register arguments range below
`nregisters1`, addresses over a set.

`Programs` is the abstract specification: a program is a sequence of
instructions; crossover exchanges tails; mutation replaces one instruction by
one of its kind. `Genome` decodes bytes by the boundaries (`Decoded`, `Abstract`)
and implements `Programs` under that mapping (`ImplementsPrograms`), which is both
checked and proved.

### Demes, DemesProofs

One trial's population. An individual is its error and its code length, all
that selection looks at. `Breed` is the tournament, crossover, mutation and the
replacement of both losers (1195-1296); `EndOfBreeding` the end of the loop with
the migration when one is due (1411-1448), in the order of the code: all demes
are sorted, then copied one after the other *in place*; `Break` the ways out of the
loop before the migration (see Trial); `EndOfTrial` the loop condition.
`qsort` may order equals in any way, and does in the model. A `do`/`while` round whose
crossover fails is the stuttering action `CrossoverFails`. The tie break is
taken as it is written, with a length compared to an error (`1207`).

### Trial, TrialProofs

The loops of `main` around the population: `StartTrial` (1142-1190),
`PerfectFound` (1298-1316), `NoImprovement`, `Improvement` (1326-1375 with the
stagnation test 1404-1409), `EarlyStop` (1335-1347), `Spent`, `EndTrial`
(1450-1517) and `Finish`. A breeding gives two children of any training error,
a new best has any validation error. `best` remembers which trial bred it and
its validation error, which the code does not store. `lowestbred` and `unimproved` are history
variables for the properties: the lowest error of all children, and the number of breedings since the
last improvement, which `gen - genimproved` is not when there was none yet. Error 0 stands for any below `FUZZ`; `Worst` for
`LDBL_MAX`; `Unset` and `Stray` for uninitialised variables and out-of-range data.

### Lgp, LgpProofs

The composition of Demes and Trial, which are instances on its state: the loop
as it is in `main`, where children replace losers, are judged, and then either the
loop is left or migration, statistics and the next breeding follow. What each part
leaves open, it finds in the other: Demes' `Break` is Trial's judgement, and the
errors Trial takes from anywhere are those of the children in the population.
`BreedsLikeDemes` and `JudgesLikeTrial` say that the composed steps are steps of
the parts. `stats` keeps, for each generational equivalent, which trial
recorded it, since `plot` reads arrays that all trials write. `Huge` stands for the
1.0e10 from which on errors are not averaged; `Worst`, for `LDBL_MAX`, is above it, and the errors of
regression may lie between the two.

### Ensemble, MCEnsemble, EnsembleProofs

The end of a trial, for classification. A program is its answer at each
timestep or an exception, on the training data too, since a stale `best` runs with
new constants; an exception ends the computation of the vector: the rest of
it is any memory (`Junk`). `Ignore`, `Accept` and `TakeBack` are the outcomes of
1464-1490: not considered; added (or dropped as a duplicate) and kept; added and
removed again. The indicator starts with any memory, too, and the code measures
errors on it before the first member exists; only `ensemblesize>1` keeps them
from mattering.

### Inputs, MCInputs, InputsProofs

The data of a run, in the order of the program: `Scanargs` (its checks on windows
and early stopping), one action for every outcome of a line in `load`
(`SkipComment`, `GarbageFound`, `TooWide`, `ReadPattern`, `ReadFails`), `LoadEnds`,
`Classify`, then for each trial `StartTrial` with bagging and `ComputeError` of any program, a
function of the inputs; then `StartDecompiled`, which loads the same file again
for the training window, and `Rerun` or, after an exception, `Sigfpe`. A line is a sequence of numbers, blanks
and marks, in which a run of blanks is one element and so is what stands between two runs
(`Alternates`; the loops at `load.c:70` and `97-98` take them as one); the pointer that `load` moves over it is modelled, including what it
does after a trailing blank or on a line without its newline, where it runs past the line
and finds any number or none. `Undefined` is a window that reads memory never written;
nothing is said of the program after it.

### Ia32, Ia32Tables

libdisasm's decoder as operators. `Ia32Tables` has the rows of
`ia32_opcode_tables.c`, an operand being its addressing method and type; `Ia32` the
lookup through prefix, extension, FPU and suffix tables
(`ia32_table_lookup`), the ModR/M and SIB bytes, the sizes of operands, and
`x86_disasm`, which decodes a zero-padded copy of 20 bytes with the length of all that is left in
the buffer, and then checks whether the instruction ends inside the buffer. A decoder that reads on after
the copy reads `Beyond`, whatever the stack has there; an instruction that is longer than the copy is
`TooLong` for the array it is put in. The lookup, which calls itself for
the table that a row names, is a recursive function of the number of calls that are left
(`MostCalls`): each is for a further byte, but one that extends an opcode. While it was written, this model was compared
with the compiled library on more than 100,000 random byte strings, cut off at every
length; kinds and sizes agreed.

### Disassembly, MCDisassembly, DisassemblyProofs

`x86dis` on a mapped file: `AddRequest` inserts a request into the sorted list
(208-225), `StartRequest` takes the next, `DisasmAddress`, `DisasmRange`/`RangeEnds`
and `DisasmForward`/`ForwardReturns` carry it out. `frames` is the call stack of
`x86_disasm_forward`, which calls itself for jump targets; `seen` the resolver's
list of addresses, whose head, address 0, counts as seen from the start. Requests may
lie anywhere. `Clamped` is the length of a range after `x86dis.c:263`, which leaves its end where
it is; after the image come the zeros of its last page (`Page`, `Mapped`), then what is mapped next to
it (`Tails`), if anything is: behind that a range is killed (`RangeKilled`). `DisasmOverflows` is an
instruction that is `TooLong`; nothing is said of the program after it.

### Decompile, MCDecompile, DecompileProofs

A program of any instructions is walked over with `Ia32!x86_disasm` twice, by
`Disasm` to print it and by `Decompile` to emit C statements (`decompile1`). Then the
bytes run on a model of the FPU register stack (`Execute`), the statements on the array
`f` of the C program (`Run`). Numbers are terms, so that two results are equal
only if they were computed in the same way. The decompiler prints a constant with some of
its decimals, so `RunMachine` runs the bytes with the constants as they are, which is what
`Execute` does, or as they are printed, which is what `Agree` compares the C program with.
`IsInstruction` says which byte strings are instructions of `opcodes.h`. The processor itself is external to
the repository: `Execute1` is what the header, the instruction set and the comments of `opcodes.h`
use of it.

### Fastrand

The generator of `util.c` on words of any width, given by their bits, and the
scaling of a seed to a number below 1. Its numbers are too large for TLC; it is only proved about, in
InputsProofs, since bagging draws its indices with it.

## Runs

| run | checks | bounds |
|---|---|---|
| `genome` | type, whole instructions, sizes, dead "BOOM", conservation | 4 programs, 2 or 3 instructions, 2 breedings |
| `genome_refinement` | `Genome` implements `Programs` | 1 breeding |
| `demes` | elitism, ring migration, breeding stays in its deme, trials end | 9 individuals in 2 demes, 2 errors, 10 breedings, half a deme migrates |
| `trial` | best so far, best of its own trial, early stopping, stagnation, termination | 2 trials, 5 breedings, errors 0..4, stagnation 3 |
| `lgp` | the composed loop is that of Demes and of Trial; the best survives; plots are fresh; averages have members | 4 individuals, 1 deme, 2 trials of 8 breedings; errors 0, 1 (`Huge`) and 2 (`Worst`) |
| `ensemble` | fresh vote, no doubles, nothing lost, nothing worse | 5 timesteps, 3 trials, exceptions at any timestep |
| `inputs` | types and sizes of arrays; tidy files load; only what was loaded is used; bagging; both programs report one error | files of up to 3 lines of 7 kinds, 8 option sets, 2 trials |
| `disassembly` | requests in order, ranges tiled, addresses and entries stay inside, jumps followed once, it ends | 6 images, 2 requests of any kind at offsets 0 to 12, ranges of 2, 5 and 40 bytes, pages of 8 |
| `decompile` | instructions found again; machine code and C compute the same | all programs of 1 or 2 of 78 instructions, and of 3 of 13; 2 layouts |
| `trial_perfect` (violation) | a perfect child ends the run | as `trial` |
| `decompiled_agrees` (violation) | both programs report one error, for all outputs | as `inputs` |
| `disassembly_overrun` (violation) | nothing after the image is printed | as `disassembly`, 1 request |

Why the bounds are enough. *Genome*: an operator works on two parents and two
children, so four programs have every role; two breedings put a child of a
mutated child through another crossover; programs of 2 and 3 instructions have
children at, below and above both limits; the founders have each of the
three kinds of instruction first, in the middle, last and next to each other.
Real `MININSTRS` and `MAXINSTRS` (10 and 100) are for the proofs. *Demes*: four is
the smallest deme in which a tournament exists, two demes the smallest ring; the ninth
individual belongs to neither, and takes one of the two migrants of a deme; and
at the end of the tenth breeding (`gen` = `Popsize`) a migration takes place. Errors are only
compared, so that two are better, equal and worse, and of larger numbers of them the theorems speak. The program
refuses `--popsize` below 10; the runs are smaller than that to be finished in
a minute, and the bounds of demes, which is where size matters, are computed by the same
divisions. *Trial*: five
breedings with stagnation 3 let a trial stagnate, improve late, be spent and stop
early, and two trials show what one leaves to the next. *Lgp*: the errors are
perfect, too large to be averaged and `LDBL_MAX`, and the initial programs have the last; eight breedings are
two generational equivalents, so that a second trial can end before, at and after
the statistics that the first has left; there is one deme, because eight
individuals with migration have too many states, and that migration loses no best is
`Elitism` of Demes. *Ensemble*: two
training, two validation and one test timestep; a third trial can repeat a
member of a two-member ensemble, which is when a removal could take the wrong one.
*Inputs*: arrays grow by two lines, so that the third makes them grow;
windows fit, touch, overlap, are empty, missing or end after the test window.
*Disassembly*: loops, a jump into an instruction, a call, far, indirect and
16-bit jumps, undecodable bytes, instructions cut off by the end, and 20 prefixes, with a second request
before, at and after the first; ranges inside the image, across its end and after it, in its last page,
in what is mapped next to it and where nothing is. *Decompile*: two instructions are a push after a
pop, a use of what the other wrote, and every pair of positions a decoder could
confuse; all instructions of `opcodes.h` and those it has commented out, on the
first, second and last register. Three instructions are a comparison, something that calculates
and a conditional move, in every order of 13 such instructions.

Fairness. The programs are sequential and always run on: `WF_vars(Next)` in
Trial and Disassembly. In Demes, weak fairness of `Breed` says in addition that parents whose
crossover fails are not drawn for ever. The code draws until it succeeds, and 95%
of the draws are homogeneous crossovers, which never fail. Nothing else is assumed; in
particular fairness does not help a tournament that has nobody to draw.

Deadlock checking is off where the program stops: all models end when their bound of
breedings, trials, lines or requests is reached.

### Disagreements with the documentation

Three are runs (`findings` in `PROJECT.json`):

* `trial_perfect`: the test for a perfect solution looks at the first child twice
  (`lgp.c:1300`), so that a perfect second child does not end the run;
* `decompiled_agrees`: `decompiled` takes the outputs 0 and 1 for a
  classification, `lgp` -1 and 1, so that on one file they report different errors
  (`decompiled.c:153`); `SameError` holds where they take it for the same kind;
* `disassembly_overrun`: a range that ends after the image is not cut off, because its length is
  clamped and not its end (`x86dis.c:263`, `x86_disasm.c:80`), so that bytes after the image are printed,
  or `x86dis` is killed. The copy in `x86_disasm` is made against that (`x86_disasm.c:44-45`). `StaysInside` holds of
  addresses and entries.

Others were met on the way and are kept as they are in the models:

* a trial that never improves is ended after one breeding more than
  `README.md:109-111` (in `src/`) says, since `genimproved` starts at 0, the number of the first breeding
  (`lgp.c:1171`, `1406`). `StagnatesInTime` counts the breedings and has the exact number for both cases;
* a comment (`decompile.c:247-248`) calls the decompilation of FCOMI, FCMOVB and
  FCMOVNB broken, because arithmetic in between resets CF. The arithmetic of these programs is that of the FPU,
  which leaves CF alone: the comment is wrong, the C program is right. `Agree`
  holds, and is proved, with any arithmetic between comparison and move;
* requests for one offset should "follow precedence of request types"
  (`x86dis.c:214`), but a new one is compared with the first of them only, so that an address, an address and an
  entry in this order are served as address, entry, address. `InOrder` has what is left: the first
  is of the type that comes first;
* the tie break compares a length with an error, against its comment (`1207`, `1234`);
* the default ten demes with `--popsize` below 40 have no four members to
  draw, and the loop never ends (`1203-1230`);
* `best` outlives its trial when the next has no valid child (`1177`), and is
  validated and offered to the ensemble again;
* without `--validate`, index -1 is validated (`1462`);
* an output vector is recorded although an exception cut it short (`967`);
* with `Ndemes` not dividing `Popsize` (a warning only), migrants are written up to
  slot `(todeme+1)*Popsize/Ndemes-1`, which may belong to no deme: `RingMigration` says how many go astray (`Astray`). With more
  than half a deme migrating, in-place copies overwrite migrants before they
  have left, and it does not hold;
* bagging resamples inputs and leaves the desired outputs in place (`1146`);
* `load` writes a line before it grows the arrays for it (`load.c:105`), so that for one
  line they are one element too short: `TypeOK` of Inputs has the exact bound;
* the decompiler reads FLD ST(n) as a load of ST(0), and a conditional move
  before any comparison has an unset flag in the machine and a clear one in C: both are premises of `Agree`.
  The first is commented out in `opcodes.h`;
* `opcodes.h:15` is commented FABS but encodes a subtraction;
* a jump at address 0 is never followed by `x86dis`;
* an average over a population without an error below 1.0e10 is 0/0, and so is the deviation if
  one member has such an error (`1429-1444`). `AveragesExist` bounds the first: in regression it takes a
  trial whose children are all that far off, otherwise one whose children all raise exceptions;
* a training or validation window that ends after the test window is read from memory that was never
  written (`436`): `OnlyLoaded` says that only such windows are;
* 20 prefixes fill the copy that `x86_disasm` decodes, the decoder reads on behind it, and the bytes of
  what it finds do not fit where they are copied to (`x86_disasm.c:52`, `68`): the end of a run of
  Disassembly called `undefined`.

One more is outside of the models: on standard input, `x86dis` gives a request a buffer that
starts at its offset, and the offset once more (`x86dis.c:389`).

## Proofs

Assumptions are the named `ASSUME`s of the modules, which TLC checks in the
runs, and those in the theorems themselves. Induction over numbers, where it is
needed, goes by the least counterexample (`LeastNumber`), and recursive functions
are shown to exist from their steps (`StepsExist`). All invariants and action properties of the
passing runs are proved, for all values of the constants that the theorem's assumptions allow; the inductive invariants they
need are proved too, and are no runs of their own.

**GenomeProofs** assumes of the instruction set only its shape: opcodes
are two bytes, and those with a register have the low three bits of the second byte zero; at
most eight registers; header not empty; at least two instructions in a program.
The properties are not inductive. That a child is made of whole instructions
needs to know where the cut instruction boundaries are relative to *all* others, so the
invariant `IndInv` adds `Spaced`: any two boundaries, k instructions apart, are
between 2k and 6k bytes apart. This gives injectivity (no byte belongs to two
instructions), the bound on code length, and survives splicing because the
tail moves as a whole. `Growing` and `Complete` say what a program looks like before
and after its footer. The lemmas go bottom up: instructions and their bytes
(`InstructionShape`, `InstructionMoved`), appending (`AppendGrowing`,
`FooterComplete`), crossover (`SpliceComplete`), mutation (`ReplaceComplete`,
`RegisterReplaced`, `MutationComplete`), then one lemma for each action.
Theorems: `Invariance`, `TypeCorrect`, `AlwaysExecutable`, `AlwaysAdmitted`,
`NeverBoom`, `CrossoverConservation`.

`GenomeImplementsPrograms` is the refinement. The mapping reads an instruction from the
bytes between two boundaries and its kind from their signs; `InstructionRead` says that what
`random_instruction` wrote is read back, wherever it lies, and `Spells` that a
program is known once each of its instructions is. Each lemma about a complete program
then has a counterpart about what it spells: a
crossover spells the exchange of tails, a mutation the replacement of one instruction by one of its kind,
`GenerateInstruction` appends one to the program under construction, and the footer is a stutter.

**DemesProofs** is arithmetic of rounded bounds. Multiplying by `Ndemes` turns the
quotients into inequalities: a deme ends before the next begins (`DemeEnds`), so
demes are disjoint (`DemesDisjoint`) and inside the array, and so are all migrants,
even when their number is rounded up or larger than a deme (`FromInSlots`). The in-place
copies of a migration are a recursive function; that it exists and gives a
population at every copy are `StepsExist` and `MigratedType`. The invariant adds to the
types only that a breeding is counted after it has taken place (`Counted`).
Theorems: `DemesTypes`; `DemesDisjoint`; `BreedingIsLocal` (IntraDeme, for any sizes);
`BestIsKept` (Elitism); `RingMigrates` (RingMigration). For a breeding, whoever is replaced has a
rival at least as good that is not (`LosersHaveRivals`), odd tie break included. For
a migration, the first member of a sorted deme is overwritten only if at least as many migrate
as a deme has members; `BestIsKept` assumes that fewer do (`NMigrate < DemeSize`), that there is one deme or that
nothing migrates. With as many, the best of a deme can be lost. `RingMigrates` assumes what the code
only warns about, `Popsize % Ndemes = 0`, and `2 * NMigrate <= DemeSize`: the slots that are
copied from and those that are copied to are then disjoint, so that every copy reads what the
sorted population had there, and the counts of a sorted deme's errors are those of its
two parts; no migrant goes astray (`NoneAstray`). Uneven demes are left to the run. The defaults, 10 demes of 100 of which 1% migrates, satisfy all three.

**TrialProofs**: the invariant ties the copies of the best error to each other
and to the history (`Copies`), and says that either nothing has improved yet or
`best` is of this trial and `lastvalidateerror` is its validation error
(`Followed`). Early stopping needs `EarlyLimit < Worst`, which the option check
(`--earlystopping` at most 0.5) gives: only then does a last validation error
under the limit prove that there was an improvement. `Patience` ties the history to `genimproved`: the
breedings without improvement are `gen - genimproved`, less one after an improvement.
Theorems: `TrialTypes`, `BestIsBest`, `BestIsOwn`, `EarlyStopKeeps`, `StagnationExact`.

**LgpProofs** puts the two together. The theorems about Demes and Trial are instantiated on Lgp's
state, and the invariant `LgpInv` is made of theirs (`Bred` of the population,
`TrialInv` of the trial) and of Lgp's own: the children that wait to be judged are in two
different slots of the deme that was bred in. `LoopBreedsLikeDemes` and
`LoopJudgesLikeTrial` are the two refinements: every step of the loop is a step of the
part or leaves it alone. `LoopKeepsBest` states what follows, `BestSoFar` and `OwnBest`
for the children of the population. `LgpTypes` proves Lgp's `TypeOK`, which no run checks. `BestGoesOnBreeding`
(BestSurvives) needs an invariant that relates the two parts, `Rivalled`: in the trial that bred it, some member of a
*deme*, not only of the array, is as good as `best`; it assumes that fewer
migrate than a deme has members (`FewMigrants`), and `AveragesAreOfSome` (AveragesExist), which
rests on it, does too; it is for any `Huge` up to `Worst`. `PlotsAreFresh`: in every trial all elements up to the
last multiple of `Popsize` that `gen` has gone past are of this trial; the
arithmetic is that `gen \div Popsize` elements are plotted and that a trial left in the middle
of a breeding has recorded all of those. `MaxBreedings` is a multiple of `Popsize`, as in the code.

**EnsembleProofs**: freshness, diversity and types are inductive together. The
heart is `TakeBackRestores`: a removal always undoes the addition of the same
trial, since a duplicate leaves the vote, and so the errors, as they were,
*because* the indicator was fresh before. Nothing is used of the vote but its type. Theorems:
`EnsembleTypes`, `AlwaysFresh`, `AlwaysDiverse`, `MembersStay`, `NoTrialHarms`.

**InputsProofs**: a first invariant says how many patterns are loaded in each phase,
and that while trials run, the resampled inputs are, inside the training window, inputs of the training window
as they were loaded, and outside of it the inputs themselves. This gives `BaggingBootstraps`
and `OnlyLoadedUsed`, for all files and options; what lgp reads with a window that ends after the test
window is the exception the latter names.

`InputsTypes` and `ErrorsAreSame` need to know what a scan reads. Between two columns
the pointer of `load` passes one run of blanks (`PointersAdvance`), so that a pattern with
n inputs has at least n of them (`ColumnsBound`) and the width found in the first line is
the number of its runs, unless the scan went past the line (`WidthOfLine`); and a line that is not run past is read in
one way (`RowUnique`). The invariant `FromFile` numbers the patterns of the file
by counting lines that are no comments (`Rank`) and says that pattern k is `FileRow(file, k)`, which does not mention the
program that loads it. `decompiled`, which loads fewer lines, therefore has the same patterns in the training window;
`Reported` keeps what lgp has computed of them until they are compared. Errors are sums over a
window, which are natural numbers (`SumType`) and equal if their terms are.

`TidyFilesAreLoaded` (TidyFilesLoad) goes on from there: numbers and blanks alternate, so the columns of a line are
at every second place (`Alternation`); the first line has one column more than blanks
between them (`TidyLength`); and the pointer stops at each number (`TidyPointers`), in every line of
the same layout. The invariant `TidyLoaded` says that all lines read so far are stored
in this way, with as many inputs as the first pattern has.

Of the random numbers, `NeverNegative`: a word xor its own arithmetic shift has no sign, because
the sign is shifted into itself; so no seed is negative although an intermediate
result may be. `BelowOne`: the largest seed is not rounded to 1, and a denominator
smaller by one would do so, as the comment says (`util.c:80`), with the exact quotient of the FPU.

**DisassemblyProofs**: of the decoder nothing is used but the check at the end of `x86_disasm`
that an instruction has bytes and ends inside the buffer; requests are not assumed to lie in the image, nor
is anything of the bytes after it or beyond the copy. The invariant `LoopInv` describes
the driver: what is served and what waits (`Served`), that they are in order (`InOrder`), and that the call
stack is no deeper than the resolver has seen addresses (`Called`); `Printed` says
of every instruction on the output that it belongs to a request that was served and, but for
ranges, ends inside the image. These give `DisassemblyTypes`, `RequestsInOrder` and `StaysInsideImage` (StaysInside).
That the list stays in order is `AddedInOrder`: only the first request of an offset is looked at, so that its
type comes first and nothing more (`FirstRanks`). `RangesAreTiled` (RangeTiles), for ranges anywhere, is inductive
on top of them. `JumpsAreFollowed` (JumpsFollowed) is about a recursion that is still going on:
`Resolved` says that what was printed is what decoding gives there, that each jump
has been shown to the resolver, and that where one leads to code, that code is printed or a
call that starts there is on the stack (`Pending`); when no request is left the
stack is empty.

**DecompileProofs** assumes that the instructions are byte strings of `IsInstruction`, which is what
`random_instruction` puts together, with any register and any address; that the two arrays
start at different addresses, and that no address in an instruction is below both. Programs have
any length and the arrays any layout. What is decoded is the copy of `x86_disasm`, which has the
bytes of the instruction, for these are no more than six (`CopiedBytes`).

`WalksAligned` (Aligned) needs what the decoder finds in the bytes of an instruction, whatever
follows them. The recursion of the lookup is replaced by its step equation (`LookupIs`);
a first byte of D8 to DF leads to one of sixteen x87 tables (`EscapeRow`), the second to
a row of it (`LookupRegister`, `LookupMemory`), and the rows say that an instruction ends after two
bytes or after an address (`DecodeTwo`, `DecodeSix`). That the bytes of one instruction stand
unchanged between those of the others is `PieceAt`. The invariant `AlignedInv` adds to the
property where the walk stands: at the boundary after those it has visited.

`ProgramsAgree` (Agree) is a simulation. Each instruction belongs to one of a dozen classes
(`NoArgClasses`, `RegisterClasses`, `MemoryClasses`), with what is printed for it and what it does to the stack.
The C program matches the machine (`Matches`) if it has in f[i] what is in ST(i), where ST(i) is not
empty, and the flag, where it is set; the machine moves its top and the C program its whole
array, in seven assignments for a push and nine for a turn (`EndsUp`, `EndsTurnDown`), and each class keeps them matching
(`FollowsApply` to `FollowsLoadTop`). `OperandIs` is the choice of the array an address is in, made
by two different computations. The property itself is not inductive, for it speaks of
finished runs only and looks at one machine for exceptions and empty registers and at another for numbers. The
invariant `AgreeInv` says of every prefix the decompiler has been through (`Simulates`) that the
statements so far follow the machine with the printed constants, if that prefix is free of
the two kinds of instruction that are decompiled wrongly, that the flag is set once there was a
comparison, and that the machines with printed and with
exact constants have met the same exceptions and have the same registers empty (`SameShape`): no
instruction here looks at a number to decide that. The header leaves seven zeros to start from (`HeaderRuns`).

Only model-checked, and why:

* Liveness under fairness: `Completes` (a trial ends), `Terminates` (the run ends) and
  `Finishes` (the disassembly ends).
* What a function that is defined by recursion over data computes, beyond its type and its steps.
* What the decoder finds in bytes that are no instructions of `opcodes.h`: x86dis may meet any, and
  its theorems use of the decoder only the check at its end.

## Not modelled

* Output: text formats of libdisasm (`x86_format.c`), dumps, verbose messages,
  the pipe to gnuplot. They keep no state.
* In libdisasm: implicit operands, register names, signatures of instructions and the stack pointer's change,
  which nothing in the repository reads; two small opcode tables to which no entry refers; the
  options of x86dis for 16-bit mode (`-L`; 16-bit operands and addresses by prefix are modelled) and to
  end at four zero bytes (`-N`, `ia32_insn.c:581`); `act_on_stream`, which on standard input hands requests
  other buffers and offsets than the mapped file, unless one is an entry; offsets and lengths whose sum has more than 32 bits.
* Parsing of option strings, and options that no check relates to others.
* The digits of numbers in files, and `fgets` splitting lines longer than its buffer.
* Regression ensembles, of which `README.md` says that they may not work.
* Values of floating point: an error is a small number, a result a term.
* The Perl filters, `simple.c` and `randtest.c`, which are not part of the program.
* Probabilities. Every draw is a choice.
