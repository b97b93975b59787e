------------------------------ MODULE InputsProofs ------------------------------
(***************************************************************************)
(* Theorems about Inputs, for all files, options and sizes: what bagging   *)
(* may put into the arrays that programs are evaluated on, when memory     *)
(* that was never read from the file is used, how far the arrays of load   *)
(* reach, that both programs report the same error, and that tidy files    *)
(* are loaded as they stand.                                               *)
(*                                                                         *)
(* The pointer of load passes one run of blanks for every column it        *)
(* counts, so a line has as many columns as runs of blanks (WidthOfLine);  *)
(* patterns are therefore the same lines of the file whichever program     *)
(* reads them (FileRow), and equal patterns give equal errors.             *)
(***************************************************************************)
EXTENDS Inputs, FiniteSetTheorems, WellFoundedInduction, TLAPS

(***************************************************************************)
(* The inductive invariant.                                                *)
(***************************************************************************)
Given == opts \in Options /\ file \in Files

\* The patterns stored so far.
Stores ==
  /\ inputs \in Seq(Seq(Values))
  /\ nlines = Len(inputs)
  /\ ninputs \in Int
  /\ line \in Nat

Running == {"trial", "evaluate", "decompile", "undefined"}

\* Only lgp evaluates programs, and it does so with options that were checked.
Checked ==
  /\ program \in {"lgp", "decompiled"}
  /\ phase # "options" /\ phase # "exited" => Sane
  /\ phase \in Running => program = "lgp"

\* Nothing is classified that was not loaded.
Loaded == phase = "classify" => nlines >= LoadStop

\* The copy of the inputs reaches up to the end of the test window.
Copied ==
  phase \in Running =>
    /\ resampled \in Seq(Seq(Values))
    /\ Len(resampled) = Stop(opts.test)
    /\ Len(resampled) <= nlines

\* Bootstrap, in the phase that it leaves out, too.
Resampled ==
  phase \in Running =>
    \A k \in DOMAIN resampled :
      \/ resampled[k] = inputs[k]
      \/ /\ opts.bagging /\ k - 1 \in Training
         /\ \E t \in Training : resampled[k] = inputs[t + 1]

IInv == Given /\ Stores /\ Checked /\ Loaded /\ Copied /\ Resampled /\ OnlyLoaded

---------------------------------------------------------------------------------
\* Windows end at natural numbers.
LEMMA WindowType ==
  ASSUME NEW o \in Options
  PROVE  /\ Start(o.train) \in Int /\ Stop(o.train) \in Nat
         /\ Start(o.test) \in Int /\ Stop(o.test) \in Nat
         /\ Start(o.validate) \in Int /\ Stop(o.validate) \in Nat
  BY InputsAssumption DEF InputsAssumption, Start, Stop

\* The number of columns counted in a line is a number, whatever is in the line.
LEMMA FieldCountType ==
  ASSUME NEW l, NEW S, l \in Seq(S), NEW k, NEW c \in FieldCounts(l, k)
  PROVE  c \in Int
<1>1. IsFiniteSet(DOMAIN l)
  BY FS_Interval, Len(l) \in Nat
<1>2. Blanks(l) \in Nat
  BY <1>1, FS_Subset, FS_CardinalityType DEF Blanks
<1> QED
  BY <1>2, InputsAssumption DEF FieldCounts, InputsAssumption

\* A function on the first numbers is a sequence.
LEMMA FunctionIsSequence ==
  ASSUME NEW S, NEW n \in Nat, NEW f \in [1..n -> S]
  PROVE  f \in Seq(S) /\ Len(f) = n
  OBVIOUS

\* A row without its last column is a sequence of numbers.
LEMMA FrontOfRow ==
  ASSUME NEW n \in Int, NEW row \in [1..(n + 1) -> Values]
  PROVE  Front(row) \in Seq(Values)
<1>1. CASE n + 1 >= 0
  <2>1. row \in Seq(Values) /\ Len(row) = n + 1
    BY <1>1
  <2> QED
    BY <2>1 DEF Front
<1>2. CASE n + 1 < 0
  <2>1. row = << >>
    BY <1>2
  <2> QED
    BY <2>1 DEF Front
<1> QED
  BY <1>1, <1>2

---------------------------------------------------------------------------------
\* No file has been read and nothing has been copied when the program starts.
LEMMA InitIInv == Init => IInv
  BY DEF Init, IInv, Given, Stores, Checked, Loaded, Copied, Resampled, OnlyLoaded, Running

\* A pattern is added to those stored before.
LEMMA ReadPatternIInv ==
  ASSUME IInv, ReadPattern
  PROVE  IInv'
<1> DEFINE l == file.lines[line + 1]
<1> USE DEF IInv
<1>1. l \in Seq(Values \cup Marks)
  <2>1. file.lines \in Seq(Seq(Values \cup Marks))
    BY InputsAssumption DEF InputsAssumption, Given
  <2>2. line \in Nat /\ line < Len(file.lines)
    BY DEF Stores, ReadPattern, MoreLines
  <2> QED
    BY <2>1, <2>2
<1>2. PICK n \in Widths : /\ \E row \in Rows(l, n) : Stored(row)
                          /\ ninputs' = n
  BY DEF ReadPattern
<1>3. n \in Int
  <2>1. CASE ninputs >= 0
    BY <2>1 DEF Widths, Stores
  <2>2. CASE ~(ninputs >= 0)
    <3>1. PICK c \in FieldCounts(l, line + 1) : n = c - 1
      BY <2>2 DEF Widths
    <3>2. c \in Int
      BY <1>1, FieldCountType
    <3> QED
      BY <3>1, <3>2
  <2> QED
    BY <2>1, <2>2
<1>4. PICK row \in Rows(l, n) : Stored(row)
  BY <1>2
<1>5. row \in [1..(n + 1) -> Values]
  BY <1>4 DEF Rows
<1>6. Front(row) \in Seq(Values)
  BY <1>3, <1>5, FrontOfRow
<1>7. inputs' = Append(inputs, Front(row))
  BY <1>4 DEF Stored
<1>8. phase = "load" /\ UNCHANGED << opts, file, program, phase, classify, evaluating >>
  BY DEF ReadPattern
<1>9. nlines' = nlines + 1 /\ line' = line + 1
  BY DEF ReadPattern
<1>10. Stores'
  BY <1>2, <1>3, <1>6, <1>7, <1>9 DEF Stores
<1>11. Given' /\ Checked' /\ Loaded' /\ Copied' /\ Resampled' /\ OnlyLoaded'
  BY <1>8 DEF Given, Checked, Loaded, Copied, Resampled, OnlyLoaded, Running, Sane
<1> QED
  BY <1>10, <1>11

\* The end of the file or of the window decides what has been loaded.
LEMMA LoadEndsIInv ==
  ASSUME IInv, LoadEnds
  PROVE  IInv'
  BY DEF IInv, LoadEnds, LongEnough, loading, evaluating, LoadStop, Given, Stores, Checked,
         Loaded, Copied, Resampled, OnlyLoaded, Running, Sane

\* The inputs are copied for lgp.
LEMMA ClassifyIInv ==
  ASSUME IInv, Classify
  PROVE  IInv'
<1> USE DEF IInv
<1>1. UNCHANGED << opts, file, program, loading >> /\ phase = "classify"
  BY DEF Classify
<1>2. Given' /\ Stores'
  BY <1>1 DEF Given, Stores, loading
<1>3. phase' \in {"rerun", "exited", "trial"}
  BY DEF Classify
<1>4. Checked'
  <2>1. phase' = "trial" => program # "decompiled"
    BY DEF Classify
  <2>2. program \in {"lgp", "decompiled"}
    BY DEF IInv, Checked
  <2> QED
    BY <1>1, <1>3, <2>1, <2>2 DEF Checked, Running, Sane
<1>5. Loaded' /\ OnlyLoaded'
  <2>1. phase' = "rerun" => Stop(opts.train) <= nlines
    BY <1>1 DEF Classify, Loaded, LoadStop, Checked
  <2> QED
    BY <1>1, <1>3, <2>1 DEF Loaded, OnlyLoaded, loading
<1>6. CASE phase' # "trial"
  BY <1>2, <1>3, <1>4, <1>5, <1>6 DEF Copied, Resampled, Running
<1>7. CASE phase' = "trial"
  <2> DEFINE stop == Stop(opts.test)
  <2>1. program = "lgp"
    BY <1>1, <1>4, <1>7 DEF Checked, Running
  <2>2. stop \in Nat /\ stop <= Len(inputs)
    BY <1>1, <2>1, WindowType DEF Given, Stores, Loaded, LoadStop
  <2>3. Smaller(nlines, stop) = stop
    BY <2>2 DEF Smaller, Stores
  <2>4. resampled' = SubSeq(inputs, 1, stop)
    BY <2>1, <2>3 DEF Classify
  <2> HIDE DEF stop
  <2>5. /\ resampled' \in Seq(Seq(Values)) /\ Len(resampled') = stop
        /\ \A k \in 1..stop : resampled'[k] = inputs[k]
    BY <2>2, <2>4 DEF Stores
  <2>6. Copied'
    BY <1>1, <2>2, <2>5 DEF Copied, Stores, loading, stop
  <2>7. Resampled'
    BY <1>1, <2>5 DEF Resampled, loading
  <2> QED
    BY <1>2, <1>4, <1>5, <2>6, <2>7
<1> QED
  BY <1>6, <1>7

\* Only a window that ends after the test window goes past what was copied.
LEMMA UndefinedIInv ==
  ASSUME IInv, Undefined
  PROVE  IInv'
<1> USE DEF IInv
<1>1. UNCHANGED << opts, file, program, loading, evaluating >> /\ phase = "trial"
      /\ phase' = "undefined"
  BY DEF Undefined
<1>2. Given' /\ Stores' /\ Checked' /\ Loaded' /\ Copied' /\ Resampled'
  BY <1>1 DEF Given, Stores, Checked, Loaded, Copied, Resampled, Running, Sane, Training,
              loading, evaluating
<1>3. OnlyLoaded'
  <2>1. PICK w \in Windows : Stop(w) > Stop(opts.test)
    BY <1>1 DEF Undefined, Copied, Running
  <2>2. Stop(opts.test) \in Nat
    BY WindowType DEF Given
  <2>3. w # opts.test
    BY <2>1, <2>2
  <2> QED
    BY <1>1, <2>1, <2>3 DEF OnlyLoaded, Windows
<1> QED
  BY <1>2, <1>3

\* Bagging puts training inputs of the file in the place of training inputs.
LEMMA StartTrialIInv ==
  ASSUME IInv, StartTrial
  PROVE  IInv'
<1> USE DEF IInv
<1>1. UNCHANGED << opts, file, program, loading >> /\ phase = "trial" /\ phase' = "evaluate"
  BY DEF StartTrial
<1>2. Given' /\ Stores' /\ Checked' /\ Loaded' /\ OnlyLoaded'
  BY <1>1 DEF Given, Stores, Checked, Loaded, OnlyLoaded, Running, Sane, loading
<1>3. CASE ~opts.bagging
  <2>1. UNCHANGED resampled
    BY <1>3 DEF StartTrial
  <2> QED
    BY <1>1, <1>2, <2>1 DEF Copied, Resampled, Running, Training, loading
<1>4. CASE opts.bagging
  <2>1. PICK resample \in Draws :
          resampled' = [k \in DOMAIN resampled |->
             IF k - 1 \in Training THEN inputs[resample[k - 1] + 1] ELSE resampled[k]]
    BY <1>4 DEF StartTrial
  <2>2. \A t \in Training : resample[t] \in Training
    BY <2>1 DEF Draws
  <2>3. \A t \in Training : t + 1 \in DOMAIN inputs
    <3>1. Start(opts.train) >= 0
      BY <1>1 DEF Checked, Sane
    <3>2. Stop(opts.train) <= nlines /\ nlines \in Nat
      BY <1>1, WindowType, SMTT(30) DEF StartTrial, Windows, Copied, Running, Given, Stores
    <3> QED
      BY <3>1, <3>2, WindowType DEF Training, Given, Stores
  <2>4. resampled \in Seq(Seq(Values)) /\ DOMAIN resampled = 1..Len(resampled)
    BY <1>1 DEF Copied, Running
  <2>5. \A k \in DOMAIN resampled : resampled'[k] \in Seq(Values)
    BY <2>1, <2>2, <2>3, <2>4 DEF Stores
  <2>6. resampled' \in [1..Len(resampled) -> Seq(Values)]
    BY <2>1, <2>4, <2>5
  <2>7. resampled' \in Seq(Seq(Values)) /\ Len(resampled') = Len(resampled)
    BY <2>4, <2>6, FunctionIsSequence, Len(resampled) \in Nat
  <2>8. Copied'
    BY <1>1, <2>7 DEF Copied, Running, loading
  <2>9. \A k \in DOMAIN resampled :
          k - 1 \in Training => \E t \in Training : resampled'[k] = inputs[t + 1]
    BY <2>1, <2>2
  <2>10. \A k \in DOMAIN resampled : k - 1 \notin Training => resampled'[k] = resampled[k]
    BY <2>1
  <2>11. Resampled'
    <3>1. DOMAIN resampled' = DOMAIN resampled /\ Training' = Training
      BY <1>1, <2>1 DEF Training
    <3> QED
      BY <1>1, <1>4, <2>9, <2>10, <3>1 DEF Resampled, Running, loading
  <2> QED
    BY <1>2, <2>8, <2>11
<1> QED
  BY <1>3, <1>4

\* Steps that neither read nor copy patterns.
LEMMA OthersIInv ==
  ASSUME IInv,
         Scanargs \/ SkipComment \/ GarbageFound \/ TooWide \/ ReadFails
           \/ ComputeError \/ Rerun \/ Sigfpe \/ UNCHANGED vars
  PROVE  IInv'
<1> USE DEF IInv, Given, Stores, Checked, Loaded, Copied, Resampled, OnlyLoaded, Running, Sane,
            Training
<1>1. CASE Scanargs
  BY <1>1 DEF Scanargs, loading, evaluating
<1>2. CASE SkipComment
  BY <1>2 DEF SkipComment, evaluating
<1>3. CASE GarbageFound \/ TooWide \/ ReadFails
  BY <1>3 DEF GarbageFound, TooWide, ReadFails, LoadFails, loading, evaluating
<1>4. CASE ComputeError
  BY <1>4 DEF ComputeError, loading
<1>5. CASE Rerun \/ Sigfpe
  BY <1>5 DEF Rerun, Sigfpe, loading
<1>6. CASE UNCHANGED vars
  BY <1>6 DEF vars, loading, evaluating, LoadStop
<1> QED
  BY <1>1, <1>2, <1>3, <1>4, <1>5, <1>6

\* The decompiled program begins with no pattern.
LEMMA StartDecompiledIInv ==
  ASSUME IInv, StartDecompiled
  PROVE  IInv'
  BY DEF IInv, StartDecompiled, Given, Stores, Checked, Loaded, Copied, Resampled, OnlyLoaded,
         Running, Sane

\* The invariant of loading, copying and resampling.
THEOREM InputsInvariance == Spec => []IInv
<1>1. IInv /\ [Next]_vars => IInv'
  BY ReadPatternIInv, LoadEndsIInv, ClassifyIInv, UndefinedIInv, StartTrialIInv, OthersIInv,
     StartDecompiledIInv DEF Next
<1> QED
  BY <1>1, InitIInv, PTL DEF Spec

\* In all trials, bagging has replaced training inputs by training inputs of the
\* file, and no others (lgp.c:1135).
THEOREM BaggingBootstraps == Spec => []Bootstrap
<1>1. IInv => Bootstrap
  BY DEF IInv, Resampled, Running, Bootstrap
<1> QED
  BY <1>1, InputsInvariance, PTL

\* Windows that end no later than the test window cover only timesteps that were
\* loaded, for every file; and the decompiled program's window always does
\* (load.c:47, 125, lgp.c:1133-1140, decompiled.c:149).  Nothing is said of a
\* training or a validation window that ends after the test window: with one,
\* lgp does read what was never loaded.
THEOREM OnlyLoadedUsed == Spec => []OnlyLoaded
<1>1. IInv => OnlyLoaded
  BY DEF IInv
<1> QED
  BY <1>1, InputsInvariance, PTL

---------------------------------------------------------------------------------
(***************************************************************************)
(* Numbers.                                                                *)
(***************************************************************************)
\* A set of numbers has a least one.
LEMMA LeastNumber ==
  ASSUME NEW T, T \subseteq Nat, T # {}
  PROVE  \E x \in T : \A y \in T : x <= y
<1>1. PICK x \in T : \A y \in T : ~(<< y, x >> \in OpToRel(<, Nat))
  BY WFMin, NatLessThanWellFounded
<1>2. \A y \in T : ~(y < x)
  BY <1>1 DEF OpToRel
<1> QED
  BY <1>2

\* A function that is given by its first value and its steps.
Follows(f, c, N, step) == f[0] = c /\ \A k \in 1..N : f[k] = step[f[k-1]]

LEMMA StepsExist ==
  ASSUME NEW S, NEW c \in S, NEW N \in Nat, NEW step \in [S -> S]
  PROVE  \E f \in [0..N -> S] : Follows(f, c, N, step)
<1> DEFINE Steps(f, n) == f[0] = c /\ \A k \in 1..n : f[k] = step[f[k-1]]
<1> DEFINE Partial(n) == \E f \in [0..n -> S] : Steps(f, n)
<1> DEFINE Missing == {n \in 0..N : ~Partial(n)}
<1>1. Missing \subseteq Nat
  OBVIOUS
<1>2. Partial(0)
  <2>1. [k \in 0..0 |-> c] \in [0..0 -> S] /\ Steps([k \in 0..0 |-> c], 0)
    OBVIOUS
  <2> QED
    BY <2>1
<1>3. ASSUME NEW n \in 1..N, Partial(n - 1)
      PROVE  Partial(n)
  <2>1. PICK f \in [0..(n-1) -> S] : Steps(f, n - 1)
    BY <1>3
  <2> DEFINE g == [k \in 0..n |-> IF k = n THEN step[f[n-1]] ELSE f[k]]
  <2>2. f[n-1] \in S
    OBVIOUS
  <2>3. g \in [0..n -> S]
    <3>1. step[f[n-1]] \in S
      BY <2>2
    <3>2. \A k \in 0..n : k # n => f[k] \in S
      OBVIOUS
    <3> QED
      BY <3>1, <3>2
  <2>4. g[0] = c /\ g[n] = step[f[n-1]] /\ \A k \in 0..(n-1) : g[k] = f[k]
    BY <2>1
  <2> HIDE DEF g
  <2>5. \A k \in 1..n : g[k] = step[g[k-1]]
    <3> TAKE k \in 1..n
    <3>1. k - 1 \in 0..(n-1) /\ g[k-1] = f[k-1]
      BY <2>4
    <3>2. CASE k = n
      BY <2>4, <3>1, <3>2
    <3>3. CASE k # n
      BY <2>1, <2>4, <3>1, <3>3
    <3> QED
      BY <3>2, <3>3
  <2> QED
    BY <2>3, <2>4, <2>5
<1> HIDE DEF Partial
<1>4. Missing = {}
  <2> SUFFICES ASSUME Missing # {} PROVE FALSE
    OBVIOUS
  <2> HIDE DEF Missing
  <2>1. PICK n \in Missing : \A m \in Missing : n <= m
    BY <1>1, LeastNumber
  <2> USE DEF Missing
  <2>2. n \in 1..N
    BY <1>2
  <2>3. n - 1 \in 0..N /\ n - 1 \notin Missing
    BY <2>1, <2>2
  <2>4. Partial(n - 1)
    BY <2>3
  <2> QED
    BY <1>3, <2>2, <2>4
<1>5. Partial(N)
  BY <1>4
<1> QED
  BY <1>5 DEF Partial, Follows

---------------------------------------------------------------------------------
(***************************************************************************)
(* Scans of one line.  A scan that neither fails nor runs past the line    *)
(* steps over one run of blanks for each column but the first, so it finds *)
(* no more columns than were counted.                                      *)
(***************************************************************************)
\* The pointer before each column, given by the one before it (load.c:92-95).
LEMMA PointerSteps ==
  ASSUME NEW S, NEW l \in Seq(S), NEW n \in Nat
  PROVE  /\ Pointers(l, n) \in [0..n -> Nat]
         /\ Pointers(l, n)[0] = 1
         /\ \A i \in 1..n :
              Pointers(l, n)[i] = IF Pointers(l, n)[i - 1] > Len(l) THEN Pointers(l, n)[i - 1]
                                  ELSE NextField(l, Pointers(l, n)[i - 1])
<1> DEFINE Next1(b) == IF b > Len(l) THEN b ELSE NextField(l, b)
           Given1(g) == g = [i \in 0..n |-> IF i = 0 THEN 1 ELSE Next1(g[i - 1])]
           bp == Pointers(l, n)
<1>1. \A b \in Nat : Next1(b) \in Nat
  BY Len(l) \in Nat DEF NextField, Past
<1> HIDE DEF Next1
<1>2. PICK step \in [Nat -> Nat] : \A b \in Nat : step[b] = Next1(b)
  <2>1. [b \in Nat |-> Next1(b)] \in [Nat -> Nat]
    BY <1>1
  <2> QED
    BY <2>1
<1>0. PICK f \in [0..n -> Nat] : Follows(f, 1, n, step)
  BY StepsExist
<1>3. f[0] = 1 /\ \A i \in 1..n : f[i] = step[f[i - 1]]
  BY <1>0 DEF Follows
<1>4. \A i \in 1..n : f[i] = Next1(f[i - 1])
  <2> TAKE i \in 1..n
  <2>0. i - 1 \in 0..n
    OBVIOUS
  <2>1. f[i - 1] \in Nat
    BY <1>0, <2>0
  <2> QED
    BY <1>2, <1>3, <2>1
<1>5. Given1(f)
  <2>1. ASSUME NEW i \in 0..n
        PROVE  f[i] = IF i = 0 THEN 1 ELSE Next1(f[i - 1])
    <3>1. CASE i = 0
      BY <1>3, <3>1
    <3>2. CASE i # 0
      <4>1. i \in 1..n
        BY <3>2
      <4> QED
        BY <1>4, <3>2, <4>1
    <3> QED
      BY <3>1, <3>2
  <2>2. f = [i \in 0..n |-> f[i]]
    OBVIOUS
  <2> QED
    BY <2>1, <2>2
<1>6. bp = CHOOSE g : Given1(g)
  BY DEF Pointers, Next1
<1>7. Given1(bp)
  <2> HIDE DEF Given1, bp
  <2> QED
    BY <1>5, <1>6
<1> HIDE DEF bp
<1>8. /\ bp = [i \in 0..n |-> bp[i]] /\ bp[0] = 1
      /\ \A i \in 1..n : bp[i] = Next1(bp[i - 1])
  <2>1. bp = [i \in 0..n |-> IF i = 0 THEN 1 ELSE Next1(bp[i - 1])]
    BY <1>7
  <2>2. \A i \in 0..n : bp[i] = IF i = 0 THEN 1 ELSE Next1(bp[i - 1])
    BY <2>1
  <2>3. bp = [i \in 0..n |-> bp[i]]
    BY <2>1
  <2>4. bp[0] = 1
    <3>1. 0 \in 0..n
      OBVIOUS
    <3> QED
      BY <2>2, <3>1
  <2>5. ASSUME NEW i \in 1..n
        PROVE  bp[i] = Next1(bp[i - 1])
    <3>1. i \in 0..n /\ i # 0
      OBVIOUS
    <3> QED
      BY <2>2, <3>1
  <2> QED
    BY <2>3, <2>4, <2>5
<1> HIDE DEF Given1
<1> DEFINE Wrong == {i \in 0..n : bp[i] # f[i]}
<1>9. Wrong \subseteq Nat
  OBVIOUS
<1>10. ASSUME NEW i \in Wrong, \A j \in Wrong : i <= j
       PROVE  FALSE
  <2>1. i \in 0..n /\ bp[i] # f[i]
    OBVIOUS
  <2>2. i # 0
    BY <1>3, <1>8, <2>1
  <2>3. i \in 1..n /\ i - 1 \in 0..n /\ ~(i <= i - 1)
    BY <2>1, <2>2
  <2>4. bp[i - 1] = f[i - 1]
    BY <1>10, <2>3
  <2> QED
    BY <1>4, <1>8, <2>1, <2>3, <2>4
<1>11. Wrong = {}
  <2> HIDE DEF Wrong
  <2> QED
    BY <1>9, <1>10, LeastNumber
<1>12. bp \in [0..n -> Nat]
  BY <1>3, <1>8, <1>11
<1> QED
  BY <1>8, <1>12 DEF bp, Next1

\* Where a number is read there is something of the line.
LEMMA NumberWithin ==
  ASSUME NEW S, NEW l \in Seq(S), NEW b \in Nat, b # Past, NEW x \in NumberAt(l, b)
  PROVE  /\ b \in 1..Len(l)
         /\ x = IF l[b] = Blank THEN l[b + 1] ELSE l[b]
<1>1. PICK j \in DOMAIN l : /\ j \in b..(b + 1) /\ l[j] \in Values /\ x = l[j]
                            /\ j > b => l[b] = Blank
  BY DEF NumberAt
<1>2. DOMAIN l = 1..Len(l) /\ Len(l) \in Nat
  OBVIOUS
<1>3. b \in 1..Len(l)
  BY <1>1, <1>2 DEF Past
<1>4. l[j] # Blank
  BY <1>1, InputsAssumption DEF Marks
<1>5. CASE l[b] = Blank
  <2>1. j = b + 1
    BY <1>1, <1>4, <1>5
  <2> QED
    BY <1>1, <1>3, <1>5, <2>1
<1>6. CASE l[b] # Blank
  <2>1. j = b
    BY <1>1, <1>6
  <2> QED
    BY <1>1, <1>3, <1>6, <2>1
<1> QED
  BY <1>5, <1>6

\* A line is read in one way, unless the scan runs past it.
LEMMA RowUnique ==
  ASSUME NEW S, NEW l \in Seq(S), NEW n \in Nat, ~RunsPast(l, n),
         NEW r1 \in Rows(l, n), NEW r2 \in Rows(l, n)
  PROVE  r1 = r2
<1> DEFINE bp == Pointers(l, n)
<1>1. /\ r1 \in [1..(n + 1) -> Values] /\ \A i \in 1..(n + 1) : r1[i] \in NumberAt(l, bp[i - 1])
      /\ r2 \in [1..(n + 1) -> Values] /\ \A i \in 1..(n + 1) : r2[i] \in NumberAt(l, bp[i - 1])
  BY DEF Rows
<1>2. \A i \in 0..n : bp[i] \in Nat /\ bp[i] # Past
  BY PointerSteps DEF RunsPast
<1> HIDE DEF bp
<1>3. \A i \in 1..(n + 1) : r1[i] = r2[i]
  <2> TAKE i \in 1..(n + 1)
  <2> DEFINE b == bp[i - 1]
  <2>1. b \in Nat /\ b # Past
    BY <1>2
  <2>2. r1[i] \in NumberAt(l, b) /\ r2[i] \in NumberAt(l, b)
    BY <1>1
  <2> HIDE DEF b
  <2>3. r1[i] = IF l[b] = Blank THEN l[b + 1] ELSE l[b]
    BY <2>1, <2>2, NumberWithin
  <2>4. r2[i] = IF l[b] = Blank THEN l[b + 1] ELSE l[b]
    BY <2>1, <2>2, NumberWithin
  <2> QED
    BY <2>3, <2>4
<1> QED
  BY <1>1, <1>3

\* Before each column but the first the scan has met a run of blanks.
LEMMA PointersAdvance ==
  ASSUME NEW S, NEW l \in Seq(S), Alternates(l), NEW n \in Nat, ~RunsPast(l, n),
         NEW r \in Rows(l, n), NEW i \in 1..n
  PROVE  /\ Pointers(l, n)[i - 1] \in 1..Len(l) /\ Pointers(l, n)[i] \in 1..Len(l)
         /\ Pointers(l, n)[i - 1] < Pointers(l, n)[i]
         /\ l[Pointers(l, n)[i] - 1] = Blank
<1> DEFINE bp == Pointers(l, n)
<1>1. \A j \in 1..(n + 1) : r[j] \in NumberAt(l, bp[j - 1])
  BY DEF Rows
<1>2. \A j \in 0..n : bp[j] \in Nat /\ bp[j] # Past
  BY PointerSteps DEF RunsPast
<1>3. bp[i] = IF bp[i - 1] > Len(l) THEN bp[i - 1] ELSE NextField(l, bp[i - 1])
  BY PointerSteps
<1> HIDE DEF bp
<1>4. bp[i - 1] \in 1..Len(l)
  <2>1. i \in 1..(n + 1) /\ i - 1 \in 0..n
    OBVIOUS
  <2> QED
    BY <1>1, <1>2, <2>1, NumberWithin
<1>5. bp[i] \in 1..Len(l)
  <2>1. i + 1 \in 1..(n + 1) /\ (i + 1) - 1 = i /\ i \in 0..n
    OBVIOUS
  <2>2. r[i + 1] \in NumberAt(l, bp[i]) /\ bp[i] \in Nat /\ bp[i] # Past
    BY <1>1, <1>2, <2>1
  <2> QED
    BY <2>2, NumberWithin
<1>6. bp[i] = NextField(l, bp[i - 1]) /\ bp[i] # Past
  BY <1>3, <1>4, <1>5, Len(l) \in Nat DEF Past
<1>7. CASE l[bp[i - 1]] = Blank
  <2>1. bp[i] = bp[i - 1] + 1
    BY <1>4, <1>6, <1>7 DEF NextField, Past
  <2> QED
    BY <1>4, <1>5, <1>7, <2>1 DEF bp
<1>8. CASE l[bp[i - 1]] # Blank
  <2>1. bp[i] = bp[i - 1] + 2 /\ bp[i - 1] < Len(l)
    BY <1>4, <1>6, <1>8, Len(l) \in Nat DEF NextField, Past
  <2>2. bp[i - 1] \in 1..(Len(l) - 1)
    BY <1>4, <2>1, Len(l) \in Nat
  <2>3. l[bp[i - 1] + 1] = Blank
    BY <1>8, <2>2 DEF Alternates
  <2>4. bp[i] - 1 = bp[i - 1] + 1 /\ bp[i - 1] < bp[i]
    BY <1>4, <2>1
  <2> QED
    BY <1>4, <1>5, <2>3, <2>4 DEF bp
<1> QED
  BY <1>7, <1>8

\* No scan finds more columns than were counted.
LEMMA ColumnsBound ==
  ASSUME NEW S, NEW l \in Seq(S), Alternates(l), NEW n \in Nat, ~RunsPast(l, n),
         NEW r \in Rows(l, n)
  PROVE  n <= Blanks(l)
<1> DEFINE bp == Pointers(l, n)
           blanks == {i \in DOMAIN l : l[i] = Blank}
<1>1. \A i \in 1..n : /\ bp[i - 1] \in 1..Len(l) /\ bp[i] \in 1..Len(l)
                      /\ bp[i - 1] < bp[i] /\ l[bp[i] - 1] = Blank
  BY PointersAdvance
<1> HIDE DEF bp
<1>2. \A i \in 1..n : bp[i] \in Nat /\ bp[i] - 1 \in blanks
  <2> TAKE i \in 1..n
  <2>1. bp[i] - 1 \in 1..Len(l) /\ DOMAIN l = 1..Len(l) /\ Len(l) \in Nat
    BY <1>1, SMTT(30)
  <2> QED
    BY <1>1, <2>1
<1>3. ASSUME NEW i \in 1..n
      PROVE  \A j \in (i + 1)..n : bp[i] < bp[j]
  <2> DEFINE Wrong == {j \in (i + 1)..n : ~(bp[i] < bp[j])}
  <2>1. Wrong \subseteq Nat
    OBVIOUS
  <2>2. ASSUME NEW j \in Wrong, \A k \in Wrong : j <= k
        PROVE  FALSE
    <3>1. j \in (i + 1)..n /\ j \in 1..n /\ ~(bp[i] < bp[j])
      OBVIOUS
    <3>2. bp[j - 1] < bp[j] /\ bp[j] \in Nat /\ bp[i] \in Nat
      BY <1>1, <1>2, <3>1
    <3>3. j # i + 1
      BY <3>1, <3>2
    <3>4. j - 1 \in (i + 1)..n /\ j - 1 \in 1..n /\ ~(j <= j - 1)
      BY <3>1, <3>3
    <3>5. bp[i] < bp[j - 1]
      BY <2>2, <3>4
    <3> QED
      BY <1>2, <3>1, <3>2, <3>4, <3>5
  <2>3. Wrong = {}
    <3> HIDE DEF Wrong
    <3> QED
      BY <2>1, <2>2, LeastNumber
  <2> QED
    BY <2>3
<1>4. \A i \in 1..n, j \in 1..n : i # j => bp[i] # bp[j]
  <2> TAKE i \in 1..n, j \in 1..n
  <2>1. CASE i < j
    <3>1. j \in (i + 1)..n
      BY <2>1
    <3> QED
      BY <1>2, <1>3, <3>1
  <2>2. CASE j < i
    <3>1. i \in (j + 1)..n
      BY <2>2
    <3> QED
      BY <1>2, <1>3, <3>1
  <2> QED
    BY <2>1, <2>2
<1> DEFINE f == [i \in 1..n |-> bp[i] - 1]
<1>5. IsFiniteSet(blanks)
  <2>1. IsFiniteSet(DOMAIN l)
    BY FS_Interval, Len(l) \in Nat
  <2> QED
    BY <2>1, FS_Subset
<1>6. f \in Injection(1..n, blanks)
  <2>1. f \in [1..n -> blanks]
    BY <1>2
  <2>2. \A i \in 1..n, j \in 1..n : f[i] = f[j] => i = j
    <3> TAKE i \in 1..n, j \in 1..n
    <3>1. bp[i] \in Nat /\ bp[j] \in Nat
      BY <1>2
    <3> QED
      BY <1>4, <3>1
  <2> HIDE DEF f
  <2> QED
    BY <2>1, <2>2 DEF Injection, IsInjective
<1>7. Cardinality(1..n) <= Cardinality(blanks)
  <2> HIDE DEF f, blanks
  <2> QED
    BY <1>5, <1>6, FS_Injection
<1>8. Cardinality(1..n) = n
  BY FS_Interval
<1> QED
  BY <1>7, <1>8 DEF Blanks

\* The number of inputs found in the first line is that of its runs of blanks,
\* unless the scan of the line runs past it (load.c:54-75).
LEMMA WidthOfLine ==
  ASSUME NEW S, NEW l \in Seq(S), Alternates(l), NEW k, NEW c \in FieldCounts(l, k)
  PROVE  /\ c - 1 \in Nat
         /\ ~RunsPast(l, c - 1) /\ Rows(l, c - 1) # {} => c - 1 = Blanks(l)
<1>1. Blanks(l) \in Nat
  <2>1. IsFiniteSet(DOMAIN l)
    BY FS_Interval, Len(l) \in Nat
  <2> QED
    BY <2>1, FS_Subset, FS_CardinalityType DEF Blanks
<1>2. PICK more \in Nat : c = 1 + Blanks(l) + more
  BY InputsAssumption DEF FieldCounts
<1>3. c - 1 \in Nat /\ c - 1 >= Blanks(l)
  BY <1>1, <1>2
<1>4. ASSUME ~RunsPast(l, c - 1), Rows(l, c - 1) # {}
      PROVE  c - 1 = Blanks(l)
  <2>1. PICK r \in Rows(l, c - 1) : TRUE
    BY <1>4
  <2>2. c - 1 <= Blanks(l)
    BY <1>3, <1>4, <2>1, ColumnsBound
  <2> QED
    BY <1>1, <1>3, <2>2
<1> QED
  BY <1>3, <1>4

---------------------------------------------------------------------------------
(***************************************************************************)
(* The patterns of a file, numbered as a load that runs past no line       *)
(* stores them.                                                            *)
(***************************************************************************)
Commented(f, i) == f.lines[i] # << >> /\ f.lines[i][1] = Comment

\* How many patterns the lines 1 to i are.
Uncommented(f, i) == {j \in 1..i : ~Commented(f, j)}
Rank(f, i) == Cardinality(Uncommented(f, i))

\* Line i is pattern k.
Nth(f, i, k) == i \in 1..Len(f.lines) /\ ~Commented(f, i) /\ Rank(f, i) = k

\* The number of inputs.
Width(f) == Blanks(f.lines[CHOOSE i : Nth(f, i, 1)])

\* The numbers of pattern k.
RowOf(f, r, k) ==
  \E i : /\ Nth(f, i, k) /\ Width(f) \in Nat
         /\ r \in Rows(f.lines[i], Width(f)) /\ ~RunsPast(f.lines[i], Width(f))
FileRow(f, k) == CHOOSE r : RowOf(f, r, k)

\* What it is stored as.
In(f, k) == Front(FileRow(f, k))
Out(f, k) == Last(FileRow(f, k))

LEMMA LineType ==
  ASSUME NEW f \in Files, NEW i \in 1..Len(f.lines)
  PROVE  f.lines[i] \in Seq(Values \cup Marks) /\ Alternates(f.lines[i])
<1>1. f.lines \in Seq(Seq(Values \cup Marks))
  BY InputsAssumption
<1>2. DOMAIN f.lines = 1..Len(f.lines)
  BY <1>1
<1> QED
  BY <1>1, <1>2, InputsAssumption

\* A line that is no comment adds one to the patterns.
LEMMA RankSteps ==
  ASSUME NEW f, NEW i \in Nat
  PROVE  /\ IsFiniteSet(Uncommented(f, i)) /\ Rank(f, i) \in Nat
         /\ Rank(f, i + 1) = IF Commented(f, i + 1) THEN Rank(f, i) ELSE Rank(f, i) + 1
         /\ Rank(f, 0) = 0
<1>1. IsFiniteSet(1..i) /\ Uncommented(f, i) \in SUBSET (1..i)
  BY FS_Interval DEF Uncommented
<1>2. IsFiniteSet(Uncommented(f, i))
  BY <1>1, FS_Subset
<1>3. Rank(f, i) \in Nat
  BY <1>2, FS_CardinalityType DEF Rank
<1>4. 1..(i + 1) = 1..i \cup {i + 1} /\ i + 1 \notin 1..i
  OBVIOUS
<1>5. ASSUME Commented(f, i + 1)
      PROVE  Rank(f, i + 1) = Rank(f, i)
  <2>1. Uncommented(f, i + 1) = Uncommented(f, i)
    BY <1>4, <1>5 DEF Uncommented
  <2> QED
    BY <1>5, <2>1 DEF Rank
<1>6. Rank(f, 0) = 0
  <2>1. Uncommented(f, 0) = {}
    BY 1..0 = {} DEF Uncommented
  <2> QED
    BY <2>1, FS_EmptySet DEF Rank
<1>7. ASSUME ~Commented(f, i + 1)
      PROVE  Rank(f, i + 1) = Rank(f, i) + 1
  <2>1. Uncommented(f, i + 1) = Uncommented(f, i) \cup {i + 1} /\ i + 1 \notin Uncommented(f, i)
    BY <1>4, <1>7 DEF Uncommented
  <2>2. Cardinality(Uncommented(f, i) \cup {i + 1}) = Cardinality(Uncommented(f, i)) + 1
    BY <1>2, <2>1, FS_AddElement
  <2> QED
    BY <1>7, <2>1, <2>2 DEF Rank
<1> QED
  BY <1>2, <1>3, <1>5, <1>6, <1>7

\* No two lines are the same pattern.
LEMMA NthUnique ==
  ASSUME NEW f, NEW i, NEW j, NEW k, Nth(f, i, k), Nth(f, j, k), Len(f.lines) \in Nat
  PROVE  i = j
<1>1. ASSUME NEW a \in Nat, NEW b \in Nat, a < b, ~Commented(f, b), b > 0
      PROVE  Rank(f, a) < Rank(f, b)
  <2>1. Uncommented(f, a) \in SUBSET (Uncommented(f, b) \ {b}) /\ b \in Uncommented(f, b)
    BY <1>1 DEF Uncommented
  <2>2. IsFiniteSet(Uncommented(f, b)) /\ Rank(f, b) \in Nat /\ Rank(f, a) \in Nat
    BY RankSteps
  <2>3. /\ IsFiniteSet(Uncommented(f, b) \ {b})
        /\ Cardinality(Uncommented(f, b) \ {b}) = Rank(f, b) - 1
    BY <2>1, <2>2, FS_RemoveElement DEF Rank
  <2>4. Rank(f, a) <= Rank(f, b) - 1
    BY <2>1, <2>3, FS_Subset DEF Rank
  <2> QED
    BY <2>2, <2>4
<1>2. i \in Nat /\ j \in Nat /\ i > 0 /\ j > 0
  BY DEF Nth
<1>3. Rank(f, i) = k /\ Rank(f, j) = k /\ ~Commented(f, i) /\ ~Commented(f, j)
  BY DEF Nth
<1>4. k \in Nat
  BY <1>2, <1>3, RankSteps
<1>5. ~(i < j) /\ ~(j < i)
  BY <1>1, <1>2, <1>3, <1>4
<1> QED
  BY <1>2, <1>5

\* What pattern k is does not depend on how it has been found.
LEMMA FileRowIs ==
  ASSUME NEW f \in Files, NEW k, NEW r, RowOf(f, r, k)
  PROVE  FileRow(f, k) = r
<1> DEFINE r2 == FileRow(f, k)
<1>1. RowOf(f, r2, k)
  BY DEF FileRow
<1>2. PICK i : /\ Nth(f, i, k) /\ Width(f) \in Nat
               /\ r \in Rows(f.lines[i], Width(f)) /\ ~RunsPast(f.lines[i], Width(f))
  BY DEF RowOf
<1> HIDE DEF r2
<1>3. PICK j : /\ Nth(f, j, k) /\ Width(f) \in Nat
               /\ r2 \in Rows(f.lines[j], Width(f)) /\ ~RunsPast(f.lines[j], Width(f))
  BY <1>1 DEF RowOf
<1>4. f.lines \in Seq(Seq(Values \cup Marks))
  BY InputsAssumption
<1>5. i = j
  BY <1>2, <1>3, <1>4, NthUnique
<1>6. f.lines[i] \in Seq(Values \cup Marks)
  BY <1>2, LineType DEF Nth
<1>7. r = r2
  BY <1>2, <1>3, <1>5, <1>6, RowUnique
<1> QED
  BY <1>7 DEF r2

\* A row is split into the inputs and the output.
LEMMA RowParts ==
  ASSUME NEW n \in Nat, NEW r \in [1..(n + 1) -> Values]
  PROVE  /\ Front(r) \in Seq(Values) /\ Len(Front(r)) = n
         /\ Last(r) \in Values
<1>1. r \in Seq(Values) /\ Len(r) = n + 1
  BY FunctionIsSequence, n + 1 \in Nat
<1>2. Front(r) \in Seq(Values) /\ Len(Front(r)) = n
  <2>1. Front(r) = SubSeq(r, 1, n)
    BY <1>1 DEF Front
  <2> QED
    BY <1>1, <2>1
<1>3. Last(r) \in Values
  BY <1>1 DEF Last
<1> QED
  BY <1>2, <1>3

---------------------------------------------------------------------------------
(***************************************************************************)
(* What is loaded: its types, and, as long as no scan runs past a line,    *)
(* that it is what the file says.                                          *)
(***************************************************************************)
LoadTypes ==
  /\ line \in 0..Len(file.lines) /\ nlines \in 0..line
  /\ phase = "options" => nlines = 0
  /\ maxlines \in Nat /\ nlines <= maxlines
  /\ IF nlines = 0 THEN ninputs = -1 ELSE ninputs \in 0..(MAXINPUTS - 2)
  /\ \A k \in DOMAIN inputs : Len(inputs[k]) = ninputs
  /\ outputs \in Seq(Values) /\ Len(outputs) = nlines

FromFile ==
  /\ nlines = Rank(file, line)
  /\ ~stray /\ nlines > 0 => ninputs = Width(file)
  /\ ~stray => \A k \in 1..nlines : inputs[k] = In(file, k) /\ outputs[k] = Out(file, k)

LInv == LoadTypes /\ FromFile

LEMMA FileType ==
  ASSUME Given
  PROVE  file \in Files /\ file.lines \in Seq(Seq(Values \cup Marks)) /\ Len(file.lines) \in Nat
<1>1. file \in Files /\ file.lines \in Seq(Seq(Values \cup Marks))
  BY InputsAssumption DEF Given
<1> QED
  BY <1>1

\* One line more is a pattern of the file, with the inputs of its first line.
LEMMA ReadPatternLInv ==
  ASSUME IInv, LInv, ReadPattern
  PROVE  LInv'
<1> DEFINE l == file.lines[line + 1]
<1>1. /\ file \in Files /\ Len(file.lines) \in Nat /\ line \in Nat /\ nlines \in Nat
      /\ line + 1 \in 1..Len(file.lines)
  BY FileType DEF IInv, Stores, ReadPattern, MoreLines
<1>2. l \in Seq(Values \cup Marks) /\ Alternates(l)
  BY <1>1, LineType
<1>3. /\ phase = "load" /\ phase' = phase /\ file' = file /\ Numeric(l)
      /\ line' = line + 1 /\ nlines' = nlines + 1
      /\ maxlines' = IF nlines = maxlines THEN maxlines + CHUNKSIZE ELSE maxlines
  BY DEF ReadPattern
<1> HIDE DEF l
<1>4. PICK n \in Widths :
         /\ ninputs >= 0 \/ n + 1 < MAXINPUTS
         /\ \E row \in Rows(l, n) : Stored(row)
         /\ ninputs' = n
         /\ stray' = (stray \/ RunsPast(l, n))
  BY DEF ReadPattern, l
<1>5. PICK row \in Rows(l, n) : Stored(row)
  BY <1>4
<1>6. ~Commented(file, line + 1)
  <2>1. l # << >> /\ l[1] \in Values \cup {Blank}
    BY <1>3 DEF Numeric
  <2>2. l[1] # Comment
    BY <2>1, InputsAssumption DEF Marks, Blank, Comment
  <2> QED
    BY <2>2 DEF Commented, l
<1>7. Rank(file, line + 1) = nlines + 1
  BY <1>1, <1>6, RankSteps DEF LInv, FromFile
<1>8. /\ n \in 0..(MAXINPUTS - 2)
      /\ nlines > 0 => n = ninputs
      /\ ~stray' => n = Width(file)
  <2>1. CASE nlines = 0
    <3>1. ninputs = -1
      BY <2>1 DEF LInv, LoadTypes
    <3>2. PICK c \in FieldCounts(l, line + 1) : n = c - 1
      BY <3>1 DEF Widths, l
    <3>3. n \in Nat /\ (~RunsPast(l, n) => n = Blanks(l))
      BY <1>2, <1>5, <3>2, WidthOfLine
    <3>4. n \in 0..(MAXINPUTS - 2)
      BY <1>4, <3>1, <3>3, InputsAssumption
    <3>5. Width(file) = Blanks(l)
      <4>1. Nth(file, line + 1, 1)
        BY <1>1, <1>6, <1>7, <2>1 DEF Nth
      <4>2. (CHOOSE i : Nth(file, i, 1)) = line + 1
        BY <1>1, <4>1, NthUnique
      <4> QED
        BY <4>2 DEF Width, l
    <3>6. ~stray' => ~RunsPast(l, n)
      BY <1>4
    <3> QED
      BY <2>1, <3>3, <3>4, <3>5, <3>6
  <2>2. CASE nlines # 0
    <3>1. ninputs \in 0..(MAXINPUTS - 2)
      BY <2>2 DEF LInv, LoadTypes
    <3>2. n = ninputs
      BY <3>1 DEF Widths
    <3>3. ~stray => n = Width(file)
      BY <1>1, <2>2, <3>2 DEF LInv, FromFile
    <3> QED
      BY <1>4, <3>1, <3>2, <3>3
  <2> QED
    BY <2>1, <2>2
<1>9. n \in Nat /\ row \in [1..(n + 1) -> Values]
  BY <1>5, <1>8, InputsAssumption DEF Rows
<1>10. /\ Front(row) \in Seq(Values) /\ Len(Front(row)) = n /\ Last(row) \in Values
       /\ inputs' = Append(inputs, Front(row)) /\ outputs' = Append(outputs, Last(row))
  BY <1>5, <1>9, RowParts DEF Stored
<1>11. /\ inputs \in Seq(Seq(Values)) /\ Len(inputs) = nlines
       /\ outputs \in Seq(Values) /\ Len(outputs) = nlines
  BY DEF IInv, Stores, LInv, LoadTypes
<1>12. /\ DOMAIN inputs' = 1..(nlines + 1)
       /\ outputs' \in Seq(Values) /\ Len(outputs') = nlines + 1
       /\ \A k \in 1..nlines : inputs'[k] = inputs[k] /\ outputs'[k] = outputs[k]
       /\ inputs'[nlines + 1] = Front(row) /\ outputs'[nlines + 1] = Last(row)
  BY <1>1, <1>10, <1>11
<1>13. LoadTypes'
  <2>1. line' \in 0..Len(file'.lines) /\ nlines' \in 0..line' /\ nlines' # 0
    BY <1>1, <1>3 DEF LInv, LoadTypes
  <2>2. maxlines' \in Nat /\ nlines' <= maxlines'
    BY <1>1, <1>3, InputsAssumption DEF LInv, LoadTypes
  <2>3. \A k \in DOMAIN inputs' : Len(inputs'[k]) = ninputs'
    <3> TAKE k \in DOMAIN inputs'
    <3>1. CASE k = nlines + 1
      BY <1>4, <1>10, <1>12, <3>1
    <3>2. CASE k # nlines + 1
      <4>1. k \in 1..nlines /\ nlines > 0 /\ DOMAIN inputs = 1..nlines
        BY <1>1, <1>11, <1>12, <3>2
      <4>2. Len(inputs[k]) = ninputs
        BY <4>1 DEF LInv, LoadTypes
      <4> QED
        BY <1>4, <1>8, <1>12, <4>1, <4>2
    <3> QED
      BY <3>1, <3>2
  <2>4. ninputs' \in 0..(MAXINPUTS - 2)
    BY <1>4, <1>8
  <2> QED
    BY <1>3, <1>12, <2>1, <2>2, <2>3, <2>4 DEF LoadTypes
<1>14. FromFile'
  <2>1. nlines' = Rank(file', line')
    BY <1>3, <1>7
  <2>2. ~stray' => ninputs' = Width(file')
    BY <1>3, <1>4, <1>8
  <2>3. ASSUME ~stray', NEW k \in 1..(nlines + 1)
        PROVE  inputs'[k] = In(file, k) /\ outputs'[k] = Out(file, k)
    <3>1. CASE k = nlines + 1
      <4>1. RowOf(file, row, k)
        <5>1. Nth(file, line + 1, k)
          BY <1>1, <1>6, <1>7, <3>1 DEF Nth
        <5>2. Width(file) \in Nat /\ row \in Rows(l, Width(file)) /\ ~RunsPast(l, Width(file))
          BY <1>4, <1>5, <1>8, <1>9, <2>3
        <5> QED
          BY <5>1, <5>2 DEF RowOf, l
      <4>2. FileRow(file, k) = row
        BY <1>1, <4>1, FileRowIs
      <4> QED
        BY <1>12, <3>1, <4>2 DEF In, Out
    <3>2. CASE k # nlines + 1
      <4>0. ~stray
        BY <1>4, <2>3
      <4>1. k \in 1..nlines /\ ~stray
        BY <1>1, <3>2, <4>0
      <4> QED
        BY <1>12, <4>1 DEF LInv, FromFile
    <3> QED
      BY <3>1, <3>2
  <2> QED
    BY <1>3, <2>1, <2>2, <2>3 DEF FromFile
<1> QED
  BY <1>13, <1>14 DEF LInv

\* All other steps leave what is loaded, skip a comment or begin again.
LEMMA OthersLInv ==
  ASSUME IInv, LInv, [Next]_vars, ~ReadPattern
  PROVE  LInv'
<1>0. Given /\ Len(file.lines) \in Nat /\ Rank(file, 0) = 0
  BY FileType, RankSteps, 0 \in Nat DEF IInv
<1>1. CASE SkipComment
  <2>1. Commented(file, line + 1) /\ line \in Nat
    BY <1>1 DEF SkipComment, Commented, LInv, LoadTypes
  <2>2. Rank(file, line + 1) = Rank(file, line)
    BY <2>1, RankSteps
  <2>3. /\ line' = line + 1 /\ line < Len(file.lines) /\ phase' = phase
        /\ UNCHANGED << file, nlines, ninputs, maxlines, stray, inputs, outputs >>
    BY <1>1 DEF SkipComment, MoreLines
  <2>4. LoadTypes'
    BY <1>0, <2>1, <2>3 DEF LInv, LoadTypes
  <2>5. FromFile'
    BY <2>2, <2>3 DEF LInv, FromFile
  <2> QED
    BY <2>4, <2>5 DEF LInv
<1>2. CASE StartDecompiled
  <2>1. /\ line' = 0 /\ nlines' = 0 /\ ninputs' = -1 /\ maxlines' = CHUNKSIZE
        /\ inputs' = << >> /\ outputs' = << >> /\ file' = file
    BY <1>2 DEF StartDecompiled
  <2>2. LoadTypes'
    BY <1>0, <2>1, InputsAssumption DEF LoadTypes
  <2>3. FromFile'
    BY <1>0, <2>1 DEF FromFile
  <2> QED
    BY <2>2, <2>3 DEF LInv
<1>3. CASE Scanargs
  <2>1. /\ UNCHANGED << file, line, nlines, ninputs, stray, inputs, outputs >>
        /\ nlines = 0 /\ maxlines' = CHUNKSIZE
    BY <1>3 DEF Scanargs, LInv, LoadTypes
  <2>2. LoadTypes'
    BY <2>1, InputsAssumption DEF LInv, LoadTypes
  <2>3. FromFile'
    BY <2>1 DEF LInv, FromFile
  <2> QED
    BY <2>2, <2>3 DEF LInv
<1>4. ASSUME UNCHANGED << file, loading >>, phase' # "options" \/ phase' = phase
      PROVE  LInv'
  BY <1>4 DEF LInv, LoadTypes, FromFile, loading
<1>5. CASE UNCHANGED vars
  BY <1>4, <1>5 DEF vars
<1>6. CASE GarbageFound \/ TooWide \/ ReadFails
  BY <1>4, <1>6 DEF GarbageFound, TooWide, ReadFails, LoadFails
<1>7. CASE LoadEnds
  BY <1>4, <1>7 DEF LoadEnds
<1>8. CASE Classify
  BY <1>4, <1>8 DEF Classify
<1>9. CASE Undefined
  BY <1>4, <1>9 DEF Undefined
<1>10. CASE StartTrial
  BY <1>4, <1>10 DEF StartTrial
<1>11. CASE ComputeError
  BY <1>4, <1>11 DEF ComputeError
<1>12. CASE Rerun \/ Sigfpe
  BY <1>4, <1>12 DEF Rerun, Sigfpe
<1> QED
  BY <1>1, <1>2, <1>3, <1>5, <1>6, <1>7, <1>8, <1>9, <1>10, <1>11, <1>12 DEF Next

LEMMA InitLInv == Init => LInv
<1> SUFFICES ASSUME Init PROVE LInv
  OBVIOUS
<1>1. Given
  BY DEF Init, Given
<1>2. Len(file.lines) \in Nat /\ Rank(file, 0) = 0
  BY <1>1, FileType, RankSteps, 0 \in Nat
<1>3. LoadTypes
  BY <1>2 DEF Init, LoadTypes
<1>4. FromFile
  BY <1>2 DEF Init, FromFile
<1> QED
  BY <1>3, <1>4 DEF LInv

---------------------------------------------------------------------------------
(***************************************************************************)
(* Sums of errors.                                                         *)
(***************************************************************************)
Some(s) == CHOOSE x \in s : TRUE

\* A finite sum of natural numbers is one.
LEMMA SumType ==
  ASSUME NEW D, IsFiniteSet(D), NEW f \in [D -> Nat]
  PROVE  SumFunction(f) \in Nat
<1> DEFINE Family(m) == {s \in SUBSET D : Cardinality(s) <= m}
           Next1(g, s) == IF s = {} THEN 0 ELSE f[Some(s)] + g[s \ {Some(s)}]
           Sums(g, m) == \A s \in Family(m) : g[s] = Next1(g, s)
           Partial(m) == \E g \in [Family(m) -> Nat] : Sums(g, m)
           Missing == {m \in Nat : ~Partial(m)}
<1>1. \A s \in SUBSET D : IsFiniteSet(s) /\ Cardinality(s) \in Nat
  BY FS_Subset, FS_CardinalityType
<1>2. ASSUME NEW s \in SUBSET D, s # {}
      PROVE  /\ Some(s) \in s /\ f[Some(s)] \in Nat /\ s \ {Some(s)} \in SUBSET D
             /\ Cardinality(s \ {Some(s)}) = Cardinality(s) - 1
  <2>1. Some(s) \in s
    BY <1>2 DEF Some
  <2>2. Cardinality(s \ {Some(s)}) = Cardinality(s) - 1
    BY <1>1, <2>1, FS_RemoveElement
  <2> QED
    BY <2>1, <2>2
<1>3. Partial(0)
  <2>1. \A s \in Family(0) : s = {}
    BY <1>1, FS_EmptySet
  <2>2. [s \in Family(0) |-> 0] \in [Family(0) -> Nat]
    OBVIOUS
  <2>3. Sums([s \in Family(0) |-> 0], 0)
    BY <2>1
  <2> QED
    BY <2>2, <2>3
<1>4. ASSUME NEW m \in Nat, m # 0, Partial(m - 1)
      PROVE  Partial(m)
  <2>1. PICK g \in [Family(m - 1) -> Nat] : Sums(g, m - 1)
    BY <1>4
  <2> DEFINE h == [s \in Family(m) |-> Next1(g, s)]
  <2>2. ASSUME NEW s \in Family(m), s # {}
        PROVE  s \ {Some(s)} \in Family(m - 1) /\ s \ {Some(s)} \in Family(m)
    <3>1. s \in SUBSET D /\ Cardinality(s) <= m /\ Cardinality(s) \in Nat
      BY <1>1
    <3>2. /\ s \ {Some(s)} \in SUBSET D
          /\ Cardinality(s \ {Some(s)}) = Cardinality(s) - 1
      BY <1>2, <2>2, <3>1
    <3> QED
      BY <3>1, <3>2
  <2>3. ASSUME NEW s \in Family(m)
        PROVE  Next1(g, s) \in Nat
    <3>1. CASE s = {}
      BY <3>1
    <3>2. CASE s # {}
      <4>1. f[Some(s)] \in Nat
        BY <1>2, <3>2
      <4>2. g[s \ {Some(s)}] \in Nat
        <5> HIDE DEF Family
        <5> QED
          BY <2>1, <2>2, <3>2
      <4> QED
        BY <3>2, <4>1, <4>2
    <3> QED
      BY <3>1, <3>2
  <2>4. h \in [Family(m) -> Nat]
    <3> HIDE DEF Family, Next1
    <3> QED
      BY <2>3
  <2>5. ASSUME NEW s \in Family(m)
        PROVE  h[s] = Next1(h, s)
    <3>1. h[s] = Next1(g, s)
      <4> HIDE DEF Family, Next1
      <4> QED
        OBVIOUS
    <3>2. CASE s = {}
      BY <3>1, <3>2
    <3>3. CASE s # {}
      <4> DEFINE r == s \ {Some(s)}
      <4>1. r \in Family(m - 1) /\ r \in Family(m)
        BY <2>2, <3>3
      <4> HIDE DEF r, Family
      <4>2. h[r] = Next1(g, r) /\ g[r] = Next1(g, r)
        <5> HIDE DEF Next1
        <5> QED
          BY <2>1, <4>1
      <4> HIDE DEF h
      <4> QED
        BY <3>1, <3>3, <4>2 DEF r
    <3> QED
      BY <3>2, <3>3
  <2> HIDE DEF h, Next1, Family
  <2> QED
    BY <2>4, <2>5
<1> HIDE DEF Partial
<1>5. Missing = {}
  <2> SUFFICES ASSUME Missing # {} PROVE FALSE
    OBVIOUS
  <2>1. PICK m \in Missing : \A k \in Missing : m <= k
    BY LeastNumber, Missing \subseteq Nat
  <2>2. m \in Nat /\ ~Partial(m)
    BY <2>1
  <2>3. m # 0
    BY <1>3, <2>2
  <2>4. m - 1 \in Nat /\ ~(m <= m - 1)
    BY <2>2, <2>3
  <2>5. Partial(m - 1)
    BY <2>1, <2>4
  <2> QED
    BY <1>4, <2>2, <2>3, <2>5
<1>6. Partial(Cardinality(D))
  BY <1>1, <1>5
<1> DEFINE Iter(g) == g = [s \in SUBSET D |-> Next1(g, s)]
<1>7. PICK g \in [SUBSET D -> Nat] : \A s \in SUBSET D : g[s] = Next1(g, s)
  <2>1. Family(Cardinality(D)) = SUBSET D
    BY FS_Subset
  <2> HIDE DEF Family, Next1
  <2> QED
    BY <1>6, <2>1 DEF Partial
<1> DEFINE it == CHOOSE g2 : Iter(g2)
<1>8. SumFunction(f) = it[D]
  <2>1. DOMAIN f = D
    OBVIOUS
  <2>2. SumFunction(f) = SumFunctionOnSet(f, D)
    BY <2>1 DEF SumFunction
  <2> QED
    BY <2>2 DEF SumFunctionOnSet, FoldFunctionOnSet, MapThenFoldSet, Some
<1>9. Iter(it)
  <2>1. Iter(g)
    <3> HIDE DEF Next1
    <3> QED
      BY <1>7
  <2> HIDE DEF Iter
  <2> QED
    BY <2>1
<1> HIDE DEF it
<1>10. \A s \in SUBSET D : it[s] = Next1(it, s)
  <2> HIDE DEF Next1
  <2> QED
    BY <1>9
<1> DEFINE Wrong == {k \in Nat : \E s \in SUBSET D : Cardinality(s) = k /\ it[s] \notin Nat}
<1>11. Wrong = {}
  <2> SUFFICES ASSUME Wrong # {} PROVE FALSE
    OBVIOUS
  <2>1. PICK k \in Wrong : \A j \in Wrong : k <= j
    BY LeastNumber, Wrong \subseteq Nat
  <2>2. PICK s \in SUBSET D : Cardinality(s) = k /\ it[s] \notin Nat
    BY <2>1
  <2>3. s # {}
    BY <1>10, <2>2
  <2>4. /\ f[Some(s)] \in Nat /\ s \ {Some(s)} \in SUBSET D
        /\ Cardinality(s \ {Some(s)}) = k - 1 /\ k - 1 \in Nat
    <3>1. Cardinality(s \ {Some(s)}) \in Nat
      BY <1>1, <1>2, <2>3
    <3> QED
      BY <1>2, <2>2, <2>3, <3>1
  <2>5. it[s \ {Some(s)}] \in Nat
    BY <2>1, <2>4
  <2>6. it[s] = f[Some(s)] + it[s \ {Some(s)}]
    BY <1>10, <2>3
  <2> HIDE DEF Wrong
  <2> QED
    BY <2>2, <2>4, <2>5, <2>6
<1>12. it[D] \in Nat
  BY <1>1, <1>11
<1> QED
  BY <1>8, <1>12

LEMMA DistanceType ==
  ASSUME NEW x \in Int, NEW y \in Int
  PROVE  Distance(x, y) \in Nat
  BY DEF Distance

\* The error on one pattern is a natural number, in either program.
LEMMA PatternErrorType ==
  ASSUME NEW x \in Int, NEW y \in Int
  PROVE  PatternError(x, y) \in Nat /\ DecompiledError(x, y) \in Nat
<1>1. Distance(y, x) \in Nat
  BY DistanceType
<1> QED
  BY <1>1 DEF PatternError, DecompiledError

LEMMA TrainingFinite ==
  ASSUME Given
  PROVE  /\ IsFiniteSet(Training)
         /\ \A t \in Training : t \in Int /\ t >= Start(opts.train) /\ t < Stop(opts.train)
<1>1. Start(opts.train) \in Int /\ Stop(opts.train) \in Int
  BY WindowType DEF Given
<1> QED
  BY <1>1, FS_Interval DEF Training

---------------------------------------------------------------------------------
(***************************************************************************)
(* The results: what lgp found out about the file and about its last       *)
(* program still holds when the decompiled program reports the error.      *)
(***************************************************************************)
ResultTypes ==
  /\ DOMAIN classify = {"lgp", "decompiled"}
  /\ Len(resampled) \in {0, Stop(opts.test)}
  /\ trial \in 0..Maxtrials
  /\ \A x \in DOMAIN prog : prog[x] \in Results
  /\ error \in Nat /\ decompiled \in Nat
  /\ phase = "evaluate" => trial < Maxtrials /\ \A w \in Windows : Stop(w) <= Len(resampled)
  /\ phase = "options" => program = "lgp"
  /\ phase = "rerun" => program = "decompiled" /\ Stop(opts.train) <= nlines

\* What both programs say of the outputs of the file is true.
Judged ==
  /\ ~stray /\ classify.lgp => \A k \in 1..Stop(opts.test) : Out(file, k) \in {-1, 1}
  /\ ~stray /\ classify.decompiled => \A k \in 1..Stop(opts.train) : Out(file, k) \in {0, 1}

\* The error of lgp is that of its last program on the patterns of the file.
Reported ==
  /\ Stop(opts.train) <= Stop(opts.test)
  /\ \A t \in Training : In(file, t + 1) \in DOMAIN prog /\ prog[In(file, t + 1)] # Fpe
  /\ error = SumFunction([t \in Training |->
                 PatternError(prog[In(file, t + 1)], Out(file, t + 1))])

\* From the end of the last trial until the decompiled program runs.
Awaited == phase = "decompile" \/ (program = "decompiled" /\ phase \in {"load", "classify", "rerun"})

Evaluated == (Awaited /\ ~opts.bagging /\ ~stray) => Reported

RInv == ResultTypes /\ Judged /\ Evaluated /\ SameError

LEMMA InitRInv == Init => RInv
<1> SUFFICES ASSUME Init PROVE RInv
  OBVIOUS
<1>1. ResultTypes
  BY InputsAssumption DEF Init, ResultTypes
<1>2. Judged
  BY DEF Init, Judged
<1>3. Evaluated /\ SameError
  BY DEF Init, Evaluated, Awaited, SameError, Comparable
<1> QED
  BY <1>1, <1>2, <1>3 DEF RInv

\* Steps that change neither the options nor the results; they may run past a
\* line.
LEMMA QuietRInv ==
  ASSUME RInv, UNCHANGED << opts, file, classify, evaluating >>, ~stray' => ~stray,
         phase' \notin {"options", "evaluate", "rerun", "done", "trapped"},
         Awaited' => Awaited
  PROVE  RInv'
<1>1. ResultTypes'
  BY DEF RInv, ResultTypes, evaluating
<1>2. Judged'
  BY DEF RInv, Judged
<1>3. Evaluated'
  BY DEF RInv, Evaluated, Reported, evaluating, Training, PatternError, Distance
<1>4. SameError'
  BY DEF SameError, Comparable
<1> QED
  BY <1>1, <1>2, <1>3, <1>4 DEF RInv

\* The options, the loading and the step to the decompiled program are quiet.
LEMMA LoadingRInv ==
  ASSUME RInv,
         Scanargs \/ SkipComment \/ GarbageFound \/ TooWide \/ ReadPattern \/ ReadFails
           \/ LoadEnds \/ Undefined \/ StartDecompiled
  PROVE  RInv'
<1>1. CASE Scanargs
  <2>1. program = "lgp" /\ program' = program
    BY <1>1 DEF Scanargs, RInv, ResultTypes
  <2> QED
    BY <1>1, <2>1, QuietRInv DEF Scanargs, Awaited
<1>2. CASE SkipComment
  BY <1>2, QuietRInv DEF SkipComment, Awaited
<1>3. CASE GarbageFound \/ TooWide \/ ReadFails
  BY <1>3, QuietRInv DEF GarbageFound, TooWide, ReadFails, LoadFails, loading, Awaited
<1>4. CASE ReadPattern
  <2>1. /\ phase = "load" /\ UNCHANGED << opts, file, program, phase, classify, evaluating >>
        /\ ~stray' => ~stray
    BY <1>4 DEF ReadPattern
  <2> QED
    BY <2>1, QuietRInv DEF Awaited
<1>5. CASE LoadEnds
  BY <1>5, QuietRInv DEF LoadEnds, loading, Awaited
<1>6. CASE Undefined
  BY <1>6, QuietRInv DEF Undefined, loading, Awaited
<1>7. CASE StartDecompiled
  BY <1>7, QuietRInv DEF StartDecompiled, Awaited
<1> QED
  BY <1>1, <1>2, <1>3, <1>4, <1>5, <1>6, <1>7

\* What is reported stays so while the options, the file, the program and what
\* lgp takes the problem for stay.
LEMMA ReportedStays ==
  ASSUME Reported, UNCHANGED << opts, file, prog, error >>, classify'.lgp = classify.lgp
  PROVE  Reported'
  BY DEF Reported, Training, PatternError, Distance

\* A pattern of the training window, where that ends in time.
LEMMA TrainingWithin ==
  ASSUME Given, Sane, NEW m \in Nat, Stop(opts.train) <= m, NEW t \in Training
  PROVE  t \in Nat /\ t + 1 \in 1..m /\ t + 1 \in 1..Stop(opts.train)
  BY TrainingFinite, WindowType DEF Given, Sane

\* A program finds out whether the problem is one of classification.
LEMMA ClassifyRInv ==
  ASSUME IInv, LInv, RInv, Classify
  PROVE  RInv'
<1>1. /\ UNCHANGED << opts, file, program, stray, nlines, trial, prog, error, decompiled >>
      /\ phase = "classify" /\ phase' \in {"rerun", "exited", "trial"}
      /\ phase' = "rerun" <=> program = "decompiled"
  BY DEF Classify, loading
<1>2. program \in {"lgp", "decompiled"} /\ LoadStop \in Nat /\ nlines \in Nat
      /\ LoadStop <= nlines
  BY <1>1, WindowType DEF IInv, Checked, Loaded, LoadStop, Given, Stores
<1>3. DOMAIN classify = {"lgp", "decompiled"} /\ DOMAIN classify' = {"lgp", "decompiled"}
  BY DEF RInv, ResultTypes, Classify
<1>4. \A x \in {"lgp", "decompiled"} :
         classify'[x] = IF x = program THEN IsClassification ELSE classify[x]
  BY <1>2, <1>3 DEF Classify
<1>5. ~stray /\ IsClassification => \A k \in 1..LoadStop : Out(file, k) \in Binary
  <2> SUFFICES ASSUME ~stray, IsClassification, NEW k \in 1..LoadStop
               PROVE  Out(file, k) \in Binary
    OBVIOUS
  <2>1. k - 1 \in 0..(LoadStop - 1) /\ k \in 1..nlines /\ (k - 1) + 1 = k
    BY <1>2
  <2>2. outputs[k] \in Binary
    BY <2>1 DEF IsClassification
  <2> QED
    BY <2>1, <2>2 DEF LInv, FromFile
<1>6. CASE program = "lgp"
  <2>1. classify'.lgp = IsClassification /\ classify'.decompiled = classify.decompiled
    BY <1>4, <1>6
  <2>2. Judged'
    BY <1>1, <1>5, <1>6, <2>1 DEF RInv, Judged, LoadStop, Binary
  <2>3. Len(resampled') = Stop(opts.test)
    <3>1. Stop(opts.test) \in Nat /\ Stop(opts.test) <= Len(inputs) /\ nlines = Len(inputs)
      BY <1>2, <1>6 DEF LoadStop, IInv, Stores
    <3>2. resampled' = SubSeq(inputs, 1, Stop(opts.test))
      BY <1>6, <3>1 DEF Classify, Smaller
    <3> QED
      BY <3>1, <3>2 DEF IInv, Stores
  <2>4. ResultTypes'
    BY <1>1, <1>3, <1>6, <2>3 DEF RInv, ResultTypes
  <2>5. Evaluated' /\ SameError'
    BY <1>1, <1>6 DEF Evaluated, Awaited, SameError, Comparable
  <2> QED
    BY <2>2, <2>4, <2>5 DEF RInv
<1>7. CASE program = "decompiled"
  <2>1. classify'.decompiled = IsClassification /\ classify'.lgp = classify.lgp
    BY <1>4, <1>7
  <2>2. Judged'
    BY <1>1, <1>5, <1>7, <2>1 DEF RInv, Judged, LoadStop, Binary
  <2>3. resampled' = resampled
    BY <1>7 DEF Classify
  <2>4. ResultTypes'
    BY <1>1, <1>2, <1>3, <1>7, <2>3 DEF RInv, ResultTypes, LoadStop
  <2>5. Evaluated'
    BY <1>1, <1>7, <2>1, ReportedStays DEF RInv, Evaluated, Awaited
  <2>6. SameError'
    BY <1>1 DEF SameError, Comparable
  <2> QED
    BY <2>2, <2>4, <2>5, <2>6 DEF RInv
<1> QED
  BY <1>2, <1>6, <1>7

\* A trial begins.
LEMMA StartTrialRInv ==
  ASSUME IInv, IInv', RInv, StartTrial
  PROVE  RInv'
<1>1. /\ UNCHANGED << opts, file, program, stray, nlines, trial, classify, decompiled >>
      /\ phase = "trial" /\ phase' = "evaluate" /\ trial < Maxtrials
      /\ prog' = << >> /\ error' = 0
      /\ \A w \in Windows : Stop(w) <= Len(resampled)
  BY DEF StartTrial, loading
<1>2. Len(resampled) = Stop(opts.test) /\ Len(resampled') = Stop(opts.test)
  BY <1>1 DEF IInv, Copied, Running
<1>3. ResultTypes'
  BY <1>1, <1>2 DEF RInv, ResultTypes, Windows
<1>4. Judged'
  BY <1>1 DEF RInv, Judged
<1>5. Evaluated' /\ SameError'
  BY <1>1 DEF Evaluated, Awaited, SameError, Comparable, IInv, Checked, Running
<1> QED
  BY <1>3, <1>4, <1>5 DEF RInv

\* Results are integers.
LEMMA ResultsInt == Results \subseteq Int
  BY InputsAssumption DEF Results, Fpe

\* A program is evaluated.
LEMMA ComputeErrorRInv ==
  ASSUME IInv, LInv, RInv, ComputeError
  PROVE  RInv'
<1>1. /\ UNCHANGED << opts, file, program, stray, nlines, classify, resampled, decompiled >>
      /\ phase = "evaluate" /\ phase' \in {"trial", "decompile"} /\ trial' = trial + 1
  BY DEF ComputeError, loading
<1>2. PICK p \in [Range(inputs) -> Results] :
        /\ ~Raises(p, resampled)
        /\ prog' = p
        /\ error' = SumFunction([t \in Training |->
                        PatternError(p[resampled[t + 1]], outputs[t + 1])])
  BY DEF ComputeError
<1>3. /\ program = "lgp" /\ Given /\ Sane
      /\ Len(resampled) = Stop(opts.test) /\ Len(resampled) <= nlines
      /\ nlines = Len(inputs) /\ nlines \in Nat /\ inputs \in Seq(Seq(Values))
      /\ outputs \in Seq(Values) /\ Len(outputs) = nlines
  BY <1>1 DEF IInv, Checked, Copied, Running, Stores, LInv, LoadTypes
<1>4. Stop(opts.train) \in Nat /\ Stop(opts.test) \in Nat
  BY <1>3, WindowType DEF Given
<1>5. Stop(opts.train) <= Stop(opts.test) /\ Stop(opts.train) <= nlines /\ trial < Maxtrials
  BY <1>1, <1>3, <1>4 DEF RInv, ResultTypes, Windows
<1>6. \A t \in Training : /\ t + 1 \in 1..nlines /\ t + 1 \in DOMAIN resampled
                          /\ inputs[t + 1] \in Range(inputs)
                          /\ outputs[t + 1] \in Int
  <2> TAKE t \in Training
  <2>1. t + 1 \in 1..nlines /\ t + 1 \in 1..Len(resampled)
    BY <1>3, <1>4, <1>5, TrainingWithin
  <2>2. resampled \in Seq(Seq(Values))
    BY <1>1 DEF IInv, Copied, Running
  <2>3. outputs[t + 1] \in Int
    <3>1. outputs[t + 1] \in Values
      BY <1>3, <2>1
    <3> QED
      BY <3>1, InputsAssumption
  <2>4. inputs[t + 1] \in Range(inputs)
    BY <1>3, <2>1 DEF Range
  <2> QED
    BY <2>1, <2>2, <2>3, <2>4
<1>7. \A t \in Training : resampled[t + 1] \in Range(inputs)
  BY <1>1, <1>6 DEF IInv, Resampled, Running
<1>8. error' \in Nat
  <2> DEFINE f == [t \in Training |-> PatternError(p[resampled[t + 1]], outputs[t + 1])]
  <2>1. \A t \in Training : PatternError(p[resampled[t + 1]], outputs[t + 1]) \in Nat
    BY <1>2, <1>6, <1>7, PatternErrorType, ResultsInt
  <2>2. f \in [Training -> Nat]
    BY <2>1
  <2>3. error' = SumFunction(f)
    BY <1>2
  <2> HIDE DEF f
  <2> QED
    BY <1>3, <2>2, <2>3, TrainingFinite, SumType
<1>9. ResultTypes'
  BY <1>1, <1>2, <1>3, <1>5, <1>8, InputsAssumption DEF RInv, ResultTypes
<1>10. Judged'
  BY <1>1 DEF RInv, Judged
<1>11. Evaluated'
  <2> SUFFICES ASSUME ~opts.bagging, ~stray
               PROVE  Reported'
    BY <1>1 DEF Evaluated
  <2>1. \A t \in Training : /\ resampled[t + 1] = inputs[t + 1]
                            /\ inputs[t + 1] = In(file, t + 1)
                            /\ outputs[t + 1] = Out(file, t + 1)
    BY <1>1, <1>6 DEF IInv, Resampled, Running, LInv, FromFile
  <2>2. [t \in Training |-> PatternError(p[resampled[t + 1]], outputs[t + 1])]
          = [t \in Training |-> PatternError(p[In(file, t + 1)], Out(file, t + 1))]
    BY <2>1
  <2>3. \A x, y : PatternError(x, y)' = PatternError(x, y)
    BY <1>1 DEF PatternError, Distance
  <2>4. error' = SumFunction([t \in Training |->
                     PatternError(prog'[In(file, t + 1)], Out(file, t + 1))])
    BY <1>2, <2>2
  <2>5. \A t \in Training : In(file, t + 1) \in DOMAIN prog' /\ prog'[In(file, t + 1)] # Fpe
    BY <1>2, <1>6, <2>1 DEF Raises
  <2> QED
    BY <1>1, <1>5, <2>3, <2>4, <2>5 DEF Reported, Training
<1>12. SameError'
  BY <1>1 DEF SameError, Comparable
<1> QED
  BY <1>9, <1>10, <1>11, <1>12 DEF RInv

\* On an output that both programs take for one of classification, they agree
\* on what an error is.
LEMMA ErrorsAgree ==
  ASSUME NEW x \in Int, NEW y \in Int, classify.lgp = classify.decompiled,
         classify.lgp => y \in {-1, 1}, classify.decompiled => y \in {0, 1}
  PROVE  PatternError(x, y) = DecompiledError(x, y)
<1>1. CASE classify.lgp
  <2>1. y = 1
    BY <1>1
  <2> QED
    BY <1>1, <2>1 DEF PatternError, DecompiledError
<1>2. CASE ~classify.lgp
  BY <1>2 DEF PatternError, DecompiledError
<1> QED
  BY <1>1, <1>2

\* The decompiled program evaluates itself, or is stopped by an exception.
LEMMA RerunRInv ==
  ASSUME IInv, LInv, RInv, Rerun \/ Sigfpe
  PROVE  RInv'
<1>1. /\ UNCHANGED << opts, file, program, stray, nlines, inputs, outputs, classify, resampled,
                      trial, error >>
      /\ phase = "rerun" /\ phase' \in {"done", "trapped"}
      /\ Again
  BY DEF Rerun, Sigfpe, loading
<1>2. PICK p \in [Range(inputs) \ DOMAIN prog -> Results] :
       prog' = [x \in DOMAIN prog \cup DOMAIN p |->
                  IF x \in DOMAIN prog THEN prog[x] ELSE p[x]]
  BY <1>1 DEF Again
<1>3. \/ /\ phase' = "done"
         /\ decompiled' = SumFunction([t \in Training |->
                              DecompiledError(prog'[inputs[t + 1]], outputs[t + 1])])
      \/ /\ phase' = "trapped" /\ decompiled' = decompiled /\ Raises(prog', inputs)
  BY DEF Rerun, Sigfpe
<1>4. /\ program = "decompiled" /\ Given /\ Sane /\ Stop(opts.train) <= nlines
      /\ nlines = Len(inputs) /\ nlines \in Nat /\ inputs \in Seq(Seq(Values))
      /\ outputs \in Seq(Values) /\ Len(outputs) = nlines
  BY <1>1 DEF IInv, Checked, Stores, LInv, LoadTypes, RInv, ResultTypes
<1>5. \A x \in DOMAIN prog' : prog'[x] \in Results
  BY <1>2 DEF RInv, ResultTypes
<1>6. \A t \in Training : /\ t + 1 \in 1..nlines /\ t + 1 \in 1..Stop(opts.train)
                          /\ inputs[t + 1] \in DOMAIN prog'
                          /\ prog'[inputs[t + 1]] \in Int /\ outputs[t + 1] \in Int
  <2> TAKE t \in Training
  <2>1. t + 1 \in 1..nlines /\ t + 1 \in 1..Stop(opts.train)
    BY <1>4, TrainingWithin
  <2>2. outputs[t + 1] \in Int
    <3>1. outputs[t + 1] \in Values
      BY <1>4, <2>1
    <3> QED
      BY <3>1, InputsAssumption
  <2>3. inputs[t + 1] \in Range(inputs)
    BY <1>4, <2>1 DEF Range
  <2>4. inputs[t + 1] \in DOMAIN prog'
    BY <1>2, <2>3
  <2> QED
    BY <1>5, <2>1, <2>2, <2>4, ResultsInt
<1>7. decompiled' \in Nat
  <2> DEFINE f == [t \in Training |-> DecompiledError(prog'[inputs[t + 1]], outputs[t + 1])]
  <2>1. CASE phase' = "trapped"
    BY <1>3, <2>1 DEF RInv, ResultTypes
  <2>2. SUFFICES ASSUME phase' = "done"
                 PROVE  decompiled' \in Nat
    BY <1>1, <2>1
  <2>3. f \in [Training -> Nat]
    BY <1>6, PatternErrorType
  <2>4. decompiled' = SumFunction(f)
    BY <1>3, <2>2
  <2> HIDE DEF f
  <2> QED
    BY <1>4, <2>3, <2>4, TrainingFinite, SumType
<1>8. ResultTypes'
  BY <1>1, <1>5, <1>7 DEF RInv, ResultTypes
<1>9. Judged'
  BY <1>1 DEF RInv, Judged
<1>10. Evaluated'
  BY <1>1 DEF Evaluated, Awaited
<1>11. SameError'
  <2> SUFFICES ASSUME ~opts.bagging, ~stray, classify.lgp = classify.decompiled
               PROVE  phase' = "done" /\ error = decompiled'
    BY <1>1 DEF SameError, Comparable
  <2>1. Reported
    BY <1>1, <1>4 DEF RInv, Evaluated, Awaited
  <2>2. \A t \in Training : PatternError(prog[In(file, t + 1)], Out(file, t + 1))
                              = DecompiledError(prog'[inputs[t + 1]], outputs[t + 1])
    <3> TAKE t \in Training
    <3>1. inputs[t + 1] = In(file, t + 1) /\ outputs[t + 1] = Out(file, t + 1)
      BY <1>6 DEF LInv, FromFile
    <3>2. prog'[inputs[t + 1]] = prog[In(file, t + 1)]
      BY <1>2, <2>1, <3>1 DEF Reported
    <3>3. classify.lgp => outputs[t + 1] \in {-1, 1}
      <4>1. t + 1 \in 1..Stop(opts.test)
        BY <1>4, <1>6, <2>1, WindowType DEF Reported, Given
      <4> QED
        BY <3>1, <4>1 DEF RInv, Judged
    <3>4. classify.decompiled => outputs[t + 1] \in {0, 1}
      BY <1>6, <3>1 DEF RInv, Judged
    <3>5. PatternError(prog'[inputs[t + 1]], outputs[t + 1])
            = DecompiledError(prog'[inputs[t + 1]], outputs[t + 1])
      BY <1>6, <3>3, <3>4, ErrorsAgree
    <3> QED
      BY <3>1, <3>2, <3>5
  <2>3. [t \in Training |-> PatternError(prog[In(file, t + 1)], Out(file, t + 1))]
          = [t \in Training |-> DecompiledError(prog'[inputs[t + 1]], outputs[t + 1])]
    BY <2>2
  <2>4. ~Raises(prog', inputs)
    <3> SUFFICES ASSUME NEW t \in Training
                 PROVE  prog'[inputs[t + 1]] # Fpe
      BY DEF Raises
    <3>1. inputs[t + 1] = In(file, t + 1)
      BY <1>6 DEF LInv, FromFile
    <3> QED
      BY <1>2, <2>1, <3>1 DEF Reported
  <2> QED
    BY <1>3, <2>1, <2>3, <2>4 DEF Reported
<1> QED
  BY <1>8, <1>9, <1>10, <1>11 DEF RInv

LEMMA StutterRInv ==
  ASSUME RInv, UNCHANGED vars
  PROVE  RInv'
<1>1. UNCHANGED << opts, file, program, phase, stray, nlines, classify, resampled, trial, prog,
                   error, decompiled >>
  BY DEF vars, loading, evaluating
<1>2. ResultTypes' /\ Judged' /\ SameError'
  BY <1>1 DEF RInv, ResultTypes, Judged, SameError, Comparable, Windows
<1>3. Evaluated'
  BY <1>1, ReportedStays DEF RInv, Evaluated, Awaited
<1> QED
  BY <1>2, <1>3 DEF RInv

---------------------------------------------------------------------------------
\* The invariant of what is loaded, classified and evaluated.
THEOREM ResultsInvariance == Spec => [](IInv /\ LInv /\ RInv)
<1>1. IInv /\ [Next]_vars => IInv'
  BY ReadPatternIInv, LoadEndsIInv, ClassifyIInv, UndefinedIInv, StartTrialIInv, OthersIInv,
     StartDecompiledIInv DEF Next
<1>2. IInv /\ LInv /\ [Next]_vars => LInv'
  BY ReadPatternLInv, OthersLInv
<1>3. IInv /\ IInv' /\ LInv /\ RInv /\ [Next]_vars => RInv'
  BY LoadingRInv, ClassifyRInv, StartTrialRInv, ComputeErrorRInv, RerunRInv, StutterRInv DEF Next
<1> QED
  BY <1>1, <1>2, <1>3, InitIInv, InitLInv, InitRInv, PTL DEF Spec

\* All variables keep their types, and the arrays of patterns are never written
\* further than one past the size that load grows them to (load.c:104-121).
THEOREM InputsTypes == Spec => []TypeOK
<1>1. IInv /\ LInv /\ RInv => TypeOK
  <2> SUFFICES ASSUME IInv, LInv, RInv PROVE TypeOK
    OBVIOUS
  <2>1. ninputs \in -1..(MAXINPUTS - 2)
    BY InputsAssumption DEF LInv, LoadTypes
  <2>2. \A k \in DOMAIN inputs : inputs[k] \in Seq(Values)
    BY DEF IInv, Stores
  <2> QED
    BY <2>1, <2>2 DEF TypeOK, IInv, Checked, Stores, LInv, LoadTypes, RInv, ResultTypes
<1> QED
  BY <1>1, ResultsInvariance, PTL

\* Where both programs take the problem as the same kind, they report the same
\* error, although each loads the file for itself and as far as it needs it
\* (compute_error.c:121, decompiled.c:8).
THEOREM ErrorsAreSame == Spec => []SameError
<1>1. RInv => SameError
  BY DEF RInv
<1> QED
  BY <1>1, ResultsInvariance, PTL

---------------------------------------------------------------------------------
(***************************************************************************)
(* Tidy files.  Numbers and blanks alternate, so the columns of a line are *)
(* at every second place, and with as many columns as the first line has,  *)
(* the pointer of load stops at each of them.                              *)
(***************************************************************************)
\* Where the numbers and the blanks of a line are.
LEMMA Alternation ==
  ASSUME NEW S, NEW l \in Seq(S), l # << >>, Alternates(l), NEW c \in Nat, c > 0
  PROVE  /\ Lead(l) \in {0, 1}
         /\ 2 * c - 1 + Lead(l) <= Len(l) => l[2 * c - 1 + Lead(l)] # Blank
         /\ 2 * c - Lead(l) <= Len(l) => l[2 * c - Lead(l)] = Blank
<1>1. PICK d \in {0, 1} : d = Lead(l) /\ (d = 1 <=> l[1] = Blank)
  BY DEF Lead
<1>2. Len(l) \in Nat /\ Len(l) >= 1
  OBVIOUS
<1>3. \A i \in Nat : (i >= 1 /\ i + 1 <= Len(l)) => ((l[i] = Blank) # (l[i + 1] = Blank))
  BY <1>2 DEF Alternates
<1> DEFINE Wrong == {k \in Nat : /\ k > 0 /\ 2 * k - 1 + d <= Len(l)
                                 /\ l[2 * k - 1 + d] = Blank}
<1>4. ASSUME NEW k \in Wrong, \A j \in Wrong : k <= j
      PROVE  FALSE
  <2>1. k \in Nat /\ k > 0 /\ 2 * k - 1 + d <= Len(l) /\ l[2 * k - 1 + d] = Blank
    OBVIOUS
  <2>2. CASE k = 1
    <3>1. CASE d = 0
      BY <1>1, <2>1, <2>2, <3>1
    <3>2. CASE d = 1
      <4>1. l[2] = Blank /\ 2 <= Len(l) /\ l[1] = Blank
        BY <1>1, <2>1, <2>2, <3>2
      <4>2. (l[1] = Blank) # (l[1 + 1] = Blank)
        BY <1>2, <1>3, <4>1
      <4> QED
        BY <4>1, <4>2
    <3> QED
      BY <3>1, <3>2
  <2>3. CASE k # 1
    <3>1. PICK j \in Nat : j = k - 1 /\ j > 0
      BY <2>1, <2>3
    <3>2. PICK i \in Nat : i = 2 * j - 1 + d /\ i >= 1
      BY <3>1
    <3>3. 2 * k - 1 + d = i + 2 /\ i + 2 <= Len(l) /\ l[i + 2] = Blank
      BY <2>1, <3>1, <3>2
    <3>4. l[i] # Blank
      <4>1. j \notin Wrong
        BY <1>4, <2>1, <3>1
      <4>2. i <= Len(l)
        BY <1>2, <3>2, <3>3
      <4> QED
        BY <3>1, <3>2, <4>1, <4>2
    <3>5. (l[i] = Blank) # (l[i + 1] = Blank)
      BY <1>2, <1>3, <3>2, <3>3
    <3>6. (l[i + 1] = Blank) # (l[(i + 1) + 1] = Blank)
      <4>1. i + 1 \in Nat /\ i + 1 >= 1 /\ (i + 1) + 1 <= Len(l)
        BY <1>2, <3>2, <3>3
      <4> QED
        BY <1>3, <4>1
    <3>7. (i + 1) + 1 = i + 2
      BY <3>2
    <3> QED
      BY <3>3, <3>4, <3>5, <3>6, <3>7
  <2> QED
    BY <2>2, <2>3
<1>5. Wrong = {}
  <2>1. Wrong \subseteq Nat
    OBVIOUS
  <2> HIDE DEF Wrong
  <2> QED
    BY <1>4, <2>1, LeastNumber
<1>6. \A k \in Nat : (k > 0 /\ 2 * k - 1 + d <= Len(l)) => l[2 * k - 1 + d] # Blank
  BY <1>5
<1>7. ASSUME 2 * c - d <= Len(l)
      PROVE  l[2 * c - d] = Blank
  <2>1. CASE d = 0
    <3>1. l[2 * c - 1] # Blank
      <4>1. 2 * c - 1 + d = 2 * c - 1 /\ 2 * c - 1 + d <= Len(l)
        BY <1>2, <1>7, <2>1
      <4> QED
        BY <1>6, <4>1
    <3>2. PICK i \in Nat : i = 2 * c - 1 /\ i >= 1 /\ i + 1 = 2 * c /\ 2 * c - d = i + 1
      BY <2>1
    <3> QED
      BY <1>3, <1>7, <3>1, <3>2
  <2>2. CASE d = 1 /\ c = 1
    BY <1>1, <2>2
  <2>3. CASE d = 1 /\ c # 1
    <3>1. PICK j \in Nat : j = c - 1 /\ j > 0
      BY <2>3
    <3>2. PICK i \in Nat : i = 2 * j - 1 + d /\ i >= 1 /\ i + 1 = 2 * c - d
      BY <2>3, <3>1
    <3>3. 2 * j - 1 + d <= Len(l) /\ i + 1 <= Len(l)
      BY <1>2, <1>7, <3>2
    <3>4. l[i] # Blank
      BY <1>6, <3>1, <3>2, <3>3
    <3>5. l[i + 1] = Blank
      BY <1>3, <3>2, <3>3, <3>4
    <3> QED
      BY <3>2, <3>5
  <2> QED
    BY <2>1, <2>2, <2>3
<1> QED
  BY <1>1, <1>6, <1>7

LEMMA Halves ==
  ASSUME NEW n \in Nat
  PROVE  \E q \in Nat : n = 2 * q \/ n = 2 * q + 1
<1>1. n \div 2 \in Nat /\ (n = 2 * (n \div 2) \/ n = 2 * (n \div 2) + 1)
  OBVIOUS
<1> QED
  BY <1>1

\* A line that does not end with a blank has one number more than blanks
\* between them, so it is as long as its columns say.
LEMMA TidyLength ==
  ASSUME NEW S, NEW l \in Seq(S), l # << >>, Alternates(l), Last(l) # Blank
  PROVE  Blanks(l) \in Nat /\ Len(l) = 2 * Blanks(l) + 1 - Lead(l)
<1>1. PICK d \in {0, 1} : d = Lead(l) /\ (d = 1 <=> l[1] = Blank)
  BY DEF Lead
<1>2. PICK len \in Nat : len = Len(l) /\ len >= 1 /\ l[len] # Blank
  BY DEF Last
<1>3. \A c \in Nat : c > 0 => /\ 2 * c - 1 + d <= len => l[2 * c - 1 + d] # Blank
                              /\ 2 * c - d <= len => l[2 * c - d] = Blank
  BY <1>1, <1>2, Alternation
<1>4. PICK m \in Nat : len = 2 * m + 1 - d
  <2>1. PICK q \in Nat : len = 2 * q \/ len = 2 * q + 1
    BY <1>2, Halves
  <2>2. CASE d = 0
    <3>1. len # 2 * q
      <4> SUFFICES ASSUME len = 2 * q PROVE FALSE
        OBVIOUS
      <4>1. q > 0 /\ 2 * q - d = len
        BY <1>2, <2>2
      <4> QED
        BY <1>2, <1>3, <4>1
    <3> QED
      BY <2>1, <2>2, <3>1
  <2>3. CASE d = 1
    <3>1. len # 2 * q + 1
      <4> SUFFICES ASSUME len = 2 * q + 1 PROVE FALSE
        OBVIOUS
      <4>1. q + 1 \in Nat /\ q + 1 > 0 /\ 2 * (q + 1) - d = len
        BY <2>3
      <4> QED
        BY <1>2, <1>3, <4>1
    <3> QED
      BY <2>1, <2>3, <3>1
  <2> QED
    BY <2>2, <2>3
<1> DEFINE blanks == {i \in DOMAIN l : l[i] = Blank}
           f == [c \in 1..m |-> 2 * c - d]
<1>5. \A c \in 1..m : 2 * c - d \in 1..len /\ l[2 * c - d] = Blank
  <2> TAKE c \in 1..m
  <2>1. 2 * c - d \in 1..len /\ c \in Nat /\ c > 0 /\ 2 * c - d <= len
    BY <1>4
  <2> QED
    BY <1>3, <2>1
<1>6. ASSUME NEW i \in 1..len, l[i] = Blank
      PROVE  \E c \in 1..m : i = 2 * c - d
  <2>1. PICK c \in Nat : c > 0 /\ (i = 2 * c - d \/ i = 2 * c - 1 + d)
    <3>1. PICK q \in Nat : i = 2 * q \/ i = 2 * q + 1
      BY Halves, i \in Nat
    <3>2. CASE i = 2 * q
      <4>1. q > 0 /\ (i = 2 * q - d \/ i = 2 * q - 1 + d)
        BY <3>2
      <4> QED
        BY <4>1
    <3>3. CASE i = 2 * q + 1
      <4>1. q + 1 > 0 /\ q + 1 \in Nat /\ (i = 2 * (q + 1) - d \/ i = 2 * (q + 1) - 1 + d)
        BY <3>3
      <4> QED
        BY <4>1
    <3> QED
      BY <3>1, <3>2, <3>3
  <2>2. i <= len
    OBVIOUS
  <2>3. i = 2 * c - d
    <3>1. ~(i = 2 * c - 1 + d)
      BY <1>3, <1>6, <2>1, <2>2
    <3> QED
      BY <2>1, <3>1
  <2>4. c \in 1..m
    BY <1>4, <2>1, <2>2, <2>3
  <2> QED
    BY <2>3, <2>4
<1>7. f \in Bijection(1..m, blanks)
  <2>1. DOMAIN l = 1..len
    BY <1>2
  <2>2. f \in [1..m -> blanks]
    BY <1>5, <2>1
  <2>3. \A a \in 1..m, b \in 1..m : f[a] = f[b] => a = b
    OBVIOUS
  <2>4. \A i \in blanks : \E c \in 1..m : f[c] = i
    <3> TAKE i \in blanks
    <3>1. PICK c \in 1..m : i = 2 * c - d
      BY <1>6, <2>1
    <3> QED
      BY <3>1
  <2> HIDE DEF f, blanks
  <2> QED
    BY <2>2, <2>3, <2>4 DEF Bijection, Injection, Surjection, IsInjective
<1>8. Cardinality(blanks) = m
  <2>1. IsFiniteSet(1..m) /\ Cardinality(1..m) = m
    BY FS_Interval
  <2> HIDE DEF f, blanks
  <2> QED
    BY <1>7, <2>1, FS_Bijection DEF ExistsBijection
<1> QED
  BY <1>1, <1>2, <1>4, <1>8 DEF Blanks

\* The pointer stops at every number.
LEMMA TidyPointers ==
  ASSUME NEW S, NEW l \in Seq(S), l # << >>, Alternates(l),
         NEW m \in Nat, 2 * m + 1 - Lead(l) <= Len(l)
  PROVE  /\ Pointers(l, m)[0] = 1
         /\ \A i \in 1..m : Pointers(l, m)[i] = 2 * i + 1 - Lead(l)
         /\ ~RunsPast(l, m)
<1> DEFINE bp == Pointers(l, m)
<1>1. PICK d \in {0, 1} : d = Lead(l) /\ (d = 1 <=> l[1] = Blank)
  BY DEF Lead
<1>2. PICK len \in Nat : len = Len(l) /\ len >= 1 /\ 2 * m + 1 - d <= len
  BY <1>1
<1>3. \A c \in Nat : c > 0 => /\ 2 * c - 1 + d <= len => l[2 * c - 1 + d] # Blank
                              /\ 2 * c - d <= len => l[2 * c - d] = Blank
  BY <1>1, <1>2, Alternation
<1>4. /\ bp[0] = 1
      /\ \A i \in 1..m : bp[i] = IF bp[i - 1] > len THEN bp[i - 1] ELSE NextField(l, bp[i - 1])
  BY <1>2, PointerSteps
<1> HIDE DEF bp
<1> DEFINE Wrong == {i \in 1..m : bp[i] # 2 * i + 1 - d}
<1>5. ASSUME NEW i \in Wrong, \A j \in Wrong : i <= j
      PROVE  FALSE
  <2>1. i \in 1..m /\ bp[i] # 2 * i + 1 - d
    OBVIOUS
  <2>2. CASE i = 1
    <3>1. bp[i] = NextField(l, 1)
      <4>1. bp[i - 1] = 1
        BY <1>4, <2>2
      <4> QED
        BY <1>2, <1>4, <2>1, <4>1
    <3>2. bp[i] = IF d = 1 THEN 2 ELSE 3
      <4>1. 1 < len
        BY <1>2, <2>1
      <4>2. CASE d = 1
        BY <1>1, <3>1, <4>2 DEF NextField, Past
      <4>3. CASE d = 0
        <5>1. l[1] # Blank
          BY <1>1, <4>3
        <5> QED
          BY <1>2, <3>1, <4>1, <4>3, <5>1 DEF NextField, Past
      <4> QED
        BY <4>2, <4>3
    <3>3. 2 * i + 1 - d = IF d = 1 THEN 2 ELSE 3
      BY <2>2
    <3> QED
      BY <2>1, <3>2, <3>3
  <2>3. CASE i # 1
    <3>1. PICK j \in Nat : j = i - 1 /\ j > 0 /\ j \in 1..m
      BY <2>1, <2>3
    <3>2. bp[j] = 2 * j + 1 - d
      <4>1. j \notin Wrong
        BY <1>5, <2>1, <3>1
      <4> QED
        BY <3>1, <4>1
    <3>3. PICK b \in Nat : b = 2 * j + 1 - d /\ b > 0 /\ b + 2 = 2 * i + 1 - d /\ b < len
      BY <1>2, <2>1, <3>1
    <3>4. l[b] # Blank
      <4>1. PICK c \in Nat : c > 0 /\ 2 * c - 1 + d = b
        <5>1. CASE d = 0
          <6>1. j + 1 \in Nat /\ j + 1 > 0 /\ 2 * (j + 1) - 1 + d = b
            BY <3>3, <5>1
          <6> QED
            BY <6>1
        <5>2. CASE d = 1
          <6>1. 2 * j - 1 + d = b
            BY <3>3, <5>2
          <6> QED
            BY <3>1, <6>1
        <5> QED
          BY <5>1, <5>2
      <4>2. 2 * c - 1 + d <= len
        BY <1>2, <3>3, <4>1
      <4> QED
        BY <1>3, <4>1, <4>2
    <3>5. bp[i] = NextField(l, b)
      <4>1. bp[i - 1] = b /\ ~(b > len)
        BY <1>2, <3>1, <3>2, <3>3
      <4> QED
        BY <1>4, <2>1, <4>1
    <3>6. NextField(l, b) = b + 2
      BY <1>2, <3>3, <3>4 DEF NextField, Past
    <3> QED
      BY <2>1, <3>3, <3>5, <3>6
  <2> QED
    BY <2>2, <2>3
<1>6. Wrong = {}
  <2>1. Wrong \subseteq Nat
    OBVIOUS
  <2> HIDE DEF Wrong
  <2> QED
    BY <1>5, <2>1, LeastNumber
<1>7. \A i \in 1..m : bp[i] = 2 * i + 1 - d
  BY <1>6
<1>8. \A i \in 0..m : bp[i] # Past
  <2> TAKE i \in 0..m
  <2>1. CASE i = 0
    BY <1>4, <2>1 DEF Past
  <2>2. CASE i # 0
    <3>1. i \in 1..m
      BY <2>2
    <3>2. 2 * i + 1 - d # 0
      BY <3>1
    <3> QED
      BY <1>7, <3>1, <3>2 DEF Past
  <2> QED
    BY <2>1, <2>2
<1> QED
  BY <1>1, <1>4, <1>7, <1>8 DEF bp, RunsPast

\* What is read there.
LEMMA TidyRow ==
  ASSUME NEW S, NEW l \in Seq(S), l # << >>, Alternates(l),
         NEW m \in Nat, 2 * m + 1 - Lead(l) <= Len(l), NEW r \in Rows(l, m)
  PROVE  /\ r \in [1..(m + 1) -> Values]
         /\ \A i \in 1..(m + 1) :
              r[i] = IF i = 1 THEN l[1 + Lead(l)] ELSE l[2 * i - 1 - Lead(l)]
<1> DEFINE bp == Pointers(l, m)
<1>1. PICK d \in {0, 1} : d = Lead(l) /\ (d = 1 <=> l[1] = Blank)
  BY DEF Lead
<1>2. PICK len \in Nat : len = Len(l) /\ len >= 1 /\ 2 * m + 1 - d <= len
  BY <1>1
<1>3. \A c \in Nat : c > 0 => (2 * c - 1 + d <= len => l[2 * c - 1 + d] # Blank)
  BY <1>1, <1>2, Alternation
<1>4. bp[0] = 1 /\ \A i \in 1..m : bp[i] = 2 * i + 1 - d
  BY <1>1, TidyPointers
<1>5. r \in [1..(m + 1) -> Values] /\ \A i \in 1..(m + 1) : r[i] \in NumberAt(l, bp[i - 1])
  BY DEF Rows
<1> HIDE DEF bp
<1>6. ASSUME NEW i \in 1..(m + 1)
      PROVE  r[i] = IF i = 1 THEN l[1 + d] ELSE l[2 * i - 1 - d]
  <2>1. CASE i = 1
    <3>1. r[1] \in NumberAt(l, 1)
      <4>1. bp[i - 1] = 1
        BY <1>4, <2>1
      <4> QED
        BY <1>5, <2>1, <4>1
    <3>2. r[1] = IF l[1] = Blank THEN l[1 + 1] ELSE l[1]
      BY <3>1, NumberWithin, 1 \in Nat DEF Past
    <3>3. CASE d = 1
      BY <1>1, <2>1, <3>2, <3>3
    <3>4. CASE d = 0
      <4>1. l[1] # Blank
        BY <1>1, <3>4
      <4> QED
        BY <2>1, <3>2, <3>4, <4>1
    <3> QED
      BY <3>3, <3>4
  <2>2. CASE i # 1
    <3>1. PICK j \in Nat : j = i - 1 /\ j > 0 /\ j \in 1..m
      BY <2>2
    <3>2. PICK b \in Nat : b = 2 * j + 1 - d /\ b > 0 /\ b = 2 * i - 1 - d /\ b <= len
      BY <1>2, <3>1
    <3>3. l[b] # Blank
      <4>1. PICK c \in Nat : c > 0 /\ 2 * c - 1 + d = b
        <5>1. CASE d = 0
          <6>1. j + 1 \in Nat /\ j + 1 > 0 /\ 2 * (j + 1) - 1 + d = b
            BY <3>2, <5>1
          <6> QED
            BY <6>1
        <5>2. CASE d = 1
          <6>1. 2 * j - 1 + d = b
            BY <3>2, <5>2
          <6> QED
            BY <3>1, <6>1
        <5> QED
          BY <5>1, <5>2
      <4>2. 2 * c - 1 + d <= len
        BY <1>2, <3>2, <4>1
      <4> QED
        BY <1>3, <4>1, <4>2
    <3>4. r[i] \in NumberAt(l, b)
      <4>1. bp[i - 1] = b
        BY <1>4, <3>1, <3>2
      <4> QED
        BY <1>5, <4>1
    <3>5. r[i] = l[b]
      BY <3>2, <3>3, <3>4, NumberWithin DEF Past
    <3> QED
      BY <2>2, <3>2, <3>5
  <2> QED
    BY <2>1, <2>2
<1> QED
  BY <1>1, <1>5, <1>6

\* A line of the same layout as the first has as many columns.
LEMMA TidyColumns ==
  ASSUME NEW S, NEW first \in Seq(S), first # << >>, Alternates(first), Last(first) # Blank,
         NEW l \in Seq(S), l # << >>, Layout(l) = Layout(first)
  PROVE  /\ Blanks(first) \in Nat /\ Lead(l) \in {0, 1}
         /\ Blanks(first) + 1 - Lead(l) >= 1
         /\ 2 * Blanks(first) + 1 - Lead(l) <= Len(l)
         /\ (Len(l) + 1 - Lead(l)) \div 2 = Blanks(first) + 1 - Lead(l)
<1>1. PICK m \in Nat : m = Blanks(first) /\ Len(first) = 2 * m + 1 - Lead(first)
  BY TidyLength
<1>2. Len(first) \in Nat /\ Len(first) >= 1 /\ Len(l) \in Nat /\ Len(l) >= 1
  OBVIOUS
<1>3. Body(first) = first
  BY DEF Body
<1>4. /\ Body(l) \in Seq(S)
      /\ Len(Body(l)) = Len(l) \/ Len(Body(l)) = Len(l) - 1
      /\ \A i \in 1..Len(Body(l)) : Body(l)[i] = l[i]
  <2>1. Front(l) = SubSeq(l, 1, Len(l) - 1)
    BY DEF Front
  <2>2. /\ Front(l) \in Seq(S) /\ Len(Front(l)) = Len(l) - 1
        /\ \A i \in 1..Len(Front(l)) : Front(l)[i] = l[i]
    <3>1. PICK n \in Nat : Len(l) = n + 1
      <4>1. Len(l) - 1 \in Nat /\ Len(l) = (Len(l) - 1) + 1
        BY <1>2
      <4> QED
        BY <4>1
    <3>2. Front(l) = SubSeq(l, 1, n)
      BY <2>1, <3>1
    <3>3. SubSeq(l, 1, n) \in Seq(S) /\ Len(SubSeq(l, 1, n)) = n
      BY <3>1
    <3>4. \A i \in 1..n : SubSeq(l, 1, n)[i] = l[i]
      BY <3>1
    <3> QED
      BY <3>1, <3>2, <3>3, <3>4
  <2>3. CASE Last(l) = Blank
    <3>1. Body(l) = Front(l)
      BY <2>3 DEF Body
    <3> QED
      BY <2>2, <3>1
  <2>4. CASE Last(l) # Blank
    <3>1. Body(l) = l
      BY <2>4 DEF Body
    <3> QED
      BY <3>1
  <2> QED
    BY <2>3, <2>4
<1>5. DOMAIN Layout(l) = 1..Len(Body(l)) /\ DOMAIN Layout(first) = 1..Len(first)
  BY <1>2, <1>3, <1>4 DEF Layout
<1>6. Len(Body(l)) = Len(first)
  <2>1. Len(Body(l)) \in Nat /\ 1..Len(Body(l)) = 1..Len(first)
    BY <1>4, <1>5
  <2> QED
    BY <1>2, <2>1
<1>7. (l[1] = Blank) <=> (first[1] = Blank)
  <2>1. 1 \in DOMAIN Layout(first) /\ 1 \in DOMAIN Layout(l)
    BY <1>2, <1>5, <1>6
  <2>2. Layout(l)[1] = (l[1] = Blank) /\ Layout(first)[1] = (first[1] = Blank)
    BY <1>3, <2>1 DEF Layout
  <2> QED
    BY <2>2
<1>8. PICK d \in {0, 1} : d = Lead(l) /\ d = Lead(first)
  BY <1>7 DEF Lead
<1>9. Len(l) = 2 * m + 1 - d \/ Len(l) = 2 * m + 2 - d
  BY <1>1, <1>2, <1>4, <1>6, <1>8
<1>10. m + 1 - d >= 1
  <2>1. CASE d = 0
    BY <2>1
  <2>2. CASE d = 1
    <3>1. Len(first) # 1
      BY <1>8, <2>2 DEF Last, Lead
    <3> QED
      BY <1>1, <1>2, <1>8, <2>2, <3>1
  <2> QED
    BY <2>1, <2>2
<1>11. (Len(l) + 1 - d) \div 2 = m + 1 - d
  <2>1. CASE d = 0
    BY <1>2, <1>9, <2>1
  <2>2. CASE d = 1
    BY <1>2, <1>9, <2>2
  <2> QED
    BY <2>1, <2>2
<1> QED
  BY <1>1, <1>8, <1>9, <1>10, <1>11

\* What a line with these columns is stored as.
StoredAs(l, ins, out) ==
  /\ out = Last(Numbers(l))
  /\ ins = (IF l[1] = Blank THEN << l[2] >> ELSE << >>) \o Front(Numbers(l))

LEMMA TidyStored ==
  ASSUME NEW S, NEW l \in Seq(S), l # << >>, Alternates(l),
         NEW m \in Nat, m + 1 - Lead(l) >= 1, 2 * m + 1 - Lead(l) <= Len(l),
         (Len(l) + 1 - Lead(l)) \div 2 = m + 1 - Lead(l), NEW r \in Rows(l, m)
  PROVE  StoredAs(l, Front(r), Last(r))
<1>1. PICK d \in {0, 1} : d = Lead(l) /\ (d = 1 <=> l[1] = Blank)
  BY DEF Lead
<1>2. /\ r \in [1..(m + 1) -> Values]
      /\ \A i \in 1..(m + 1) : r[i] = IF i = 1 THEN l[1 + d] ELSE l[2 * i - 1 - d]
  BY <1>1, TidyRow
<1>3. r \in Seq(Values) /\ Len(r) = m + 1
  BY <1>2, FunctionIsSequence, m + 1 \in Nat
<1>4. /\ Front(r) \in Seq(Values) /\ Len(Front(r)) = m
      /\ \A i \in 1..m : Front(r)[i] = r[i]
      /\ Last(r) = r[m + 1]
  <2>1. Front(r) = SubSeq(r, 1, m)
    BY <1>3 DEF Front
  <2> QED
    BY <1>3, <2>1 DEF Last
<1>5. PICK q \in Nat : q = m + 1 - d /\ q >= 1
  BY <1>1
<1> DEFINE ns == Numbers(l)
           T == {ns[c] : c \in 1..q}
<1>6. ns = [c \in 1..q |-> l[2 * c - 1 + d]]
  BY <1>1, <1>5 DEF Numbers
<1>7. ns \in Seq(T) /\ Len(ns) = q /\ \A c \in 1..q : ns[c] = l[2 * c - 1 + d]
  <2>1. ns \in [1..q -> T] /\ \A c \in 1..q : ns[c] = l[2 * c - 1 + d]
    BY <1>6
  <2> HIDE DEF ns, T
  <2>2. ns \in Seq(T) /\ Len(ns) = q
    BY <2>1, FunctionIsSequence
  <2> QED
    BY <2>1, <2>2
<1> HIDE DEF ns, T
<1>8. /\ Front(ns) \in Seq(T) /\ Len(Front(ns)) = q - 1
      /\ \A c \in 1..(q - 1) : Front(ns)[c] = l[2 * c - 1 + d]
      /\ Last(ns) = l[2 * q - 1 + d]
  <2>1. Front(ns) = SubSeq(ns, 1, q - 1)
    BY <1>7 DEF Front
  <2> QED
    BY <1>5, <1>7, <2>1 DEF Last
<1>9. Last(r) = Last(ns)
  <2>1. CASE m = 0
    <3>1. d = 0 /\ q = 1
      BY <1>5, <2>1
    <3> QED
      BY <1>2, <1>4, <1>8, <2>1, <3>1
  <2>2. CASE m # 0
    <3>1. r[m + 1] = l[2 * (m + 1) - 1 - d]
      BY <1>2, <2>2
    <3>2. 2 * (m + 1) - 1 - d = 2 * q - 1 + d
      BY <1>5
    <3> QED
      BY <1>4, <1>8, <3>1, <3>2
  <2> QED
    BY <2>1, <2>2
<1>10. CASE d = 0
  <2>1. q = m + 1
    BY <1>5, <1>10
  <2>2. \A i \in 1..m : Front(r)[i] = Front(ns)[i]
    <3> TAKE i \in 1..m
    <3>1. r[i] = l[2 * i - 1]
      <4>1. CASE i = 1
        BY <1>2, <1>10, <4>1
      <4>2. CASE i # 1
        <5>1. 2 * i - 1 - d = 2 * i - 1
          BY <1>10
        <5> QED
          BY <1>2, <4>2, <5>1
      <4> QED
        BY <4>1, <4>2
    <3>2. 2 * i - 1 + d = 2 * i - 1 /\ i \in 1..(q - 1)
      BY <1>10, <2>1
    <3> QED
      BY <1>4, <1>8, <3>1, <3>2
  <2>3. Front(r) = Front(ns)
    BY <1>4, <1>8, <2>1, <2>2
  <2>4. << >> \o Front(ns) = Front(ns)
    BY <1>8
  <2>5. l[1] # Blank
    BY <1>1, <1>10
  <2> QED
    BY <1>9, <2>3, <2>4, <2>5 DEF StoredAs, ns
<1>11. CASE d = 1
  <2>1. q = m /\ m >= 1
    BY <1>5, <1>11
  <2> DEFINE whole == << l[2] >> \o Front(ns)
  <2>2. /\ whole \in Seq({l[2]} \cup T) /\ Len(whole) = m
        /\ whole[1] = l[2] /\ \A i \in 2..m : whole[i] = Front(ns)[i - 1]
    <3>1. << l[2] >> \in Seq({l[2]} \cup T) /\ Front(ns) \in Seq({l[2]} \cup T)
          /\ Len(<< l[2] >>) = 1 /\ << l[2] >>[1] = l[2]
      BY <1>8
    <3> QED
      BY <1>8, <2>1, <3>1
  <2>3. \A i \in 1..m : Front(r)[i] = whole[i]
    <3> TAKE i \in 1..m
    <3>1. CASE i = 1
      <4>1. r[1] = l[2]
        BY <1>2, <1>11, <2>1
      <4> QED
        BY <1>4, <2>2, <3>1, <4>1
    <3>2. CASE i # 1
      <4>1. PICK c \in 1..(q - 1) : c = i - 1
        BY <2>1, <3>2
      <4>2. 2 * c - 1 + d = 2 * i - 1 - d
        BY <1>11, <4>1
      <4>3. Front(ns)[c] = l[2 * i - 1 - d]
        BY <1>8, <4>2
      <4>4. r[i] = l[2 * i - 1 - d]
        BY <1>2, <3>2
      <4>5. i \in 2..m
        BY <3>2
      <4> QED
        BY <1>4, <2>2, <4>1, <4>3, <4>4, <4>5
    <3> QED
      BY <3>1, <3>2
  <2>4. Front(r) = whole
    <3> HIDE DEF whole
    <3> QED
      BY <1>4, <2>2, <2>3
  <2>5. l[1] = Blank
    BY <1>1, <1>11
  <2> QED
    BY <1>9, <2>4, <2>5 DEF StoredAs, ns
<1> QED
  BY <1>10, <1>11

---------------------------------------------------------------------------------
(***************************************************************************)
(* The invariant: every line that was read is a comment or a pattern, and  *)
(* of a tidy file, the patterns are stored with the columns of the first.  *)
(***************************************************************************)
ReadLines == \A i \in 1..line : Commented(file, i) \/ Numeric(file.lines[i])

First(i) == i \in PatternLines /\ \A j \in PatternLines : i <= j

TidyLoaded ==
  /\ ~stray
  /\ nlines > 0 => \A i : First(i) => ninputs = Blanks(file.lines[i])
  /\ \A j \in PatternLines :
       j <= line => /\ Rank(file, j) \in 1..nlines
                    /\ StoredAs(file.lines[j], inputs[Rank(file, j)], outputs[Rank(file, j)])

TInv == ReadLines /\ (Tidy => TidyLoaded)

\* A pattern is no comment.
LEMMA NumericLines ==
  ASSUME Given, NEW j \in PatternLines
  PROVE  /\ j \in 1..Len(file.lines) /\ ~Commented(file, j)
         /\ file.lines[j] \in Seq(Values \cup Marks) /\ Alternates(file.lines[j])
         /\ file.lines[j] # << >>
<1>1. /\ file \in Files /\ file.lines \in Seq(Seq(Values \cup Marks))
      /\ DOMAIN file.lines = 1..Len(file.lines)
  BY FileType
<1>2. j \in 1..Len(file.lines) /\ Numeric(file.lines[j])
  BY <1>1 DEF PatternLines
<1>3. file.lines[j] # << >> /\ file.lines[j][1] \in Values \cup {Blank}
  BY <1>2 DEF Numeric
<1>4. file.lines[j][1] # Comment
  BY <1>3, InputsAssumption DEF Marks, Blank, Comment
<1> QED
  BY <1>1, <1>2, <1>3, <1>4, LineType DEF Commented

\* Of the lines that were read, those that are no comments are the patterns.
LEMMA PatternNumberIsRank ==
  ASSUME Given, ReadLines, line \in 0..Len(file.lines), NEW j \in 0..line
  PROVE  PatternNumber(j) = Rank(file, j)
<1>1. DOMAIN file.lines = 1..Len(file.lines) /\ Len(file.lines) \in Nat
  BY FileType
<1>2. \A i \in PatternLines : i \in 1..Len(file.lines) /\ ~Commented(file, i)
  BY NumericLines
<1>3. ASSUME NEW i \in 1..j, ~Commented(file, i)
      PROVE  i \in PatternLines
  <2>1. i \in 1..line /\ i \in 1..Len(file.lines)
    BY <1>1
  <2> QED
    BY <1>1, <1>3, <2>1 DEF ReadLines, PatternLines
<1>4. {i \in PatternLines : i <= j} = Uncommented(file, j)
  BY <1>1, <1>2, <1>3 DEF Uncommented
<1> QED
  BY <1>4 DEF PatternNumber, Rank

\* A line more adds a pattern with as many inputs as the first.
LEMMA ReadPatternTInv ==
  ASSUME IInv, LInv, TInv, ReadPattern
  PROVE  TInv'
<1> DEFINE l == file.lines[line + 1]
<1>1. /\ Given /\ Len(file.lines) \in Nat /\ line \in Nat /\ nlines \in Nat
      /\ line + 1 \in 1..Len(file.lines) /\ DOMAIN file.lines = 1..Len(file.lines)
  BY FileType DEF IInv, Stores, ReadPattern, MoreLines
<1>2. Numeric(l) /\ line + 1 \in PatternLines
  BY <1>1 DEF ReadPattern, PatternLines
<1>3. /\ l \in Seq(Values \cup Marks) /\ l # << >> /\ Alternates(l)
      /\ ~Commented(file, line + 1)
  BY <1>1, <1>2, NumericLines
<1>4. file' = file /\ line' = line + 1 /\ nlines' = nlines + 1
  BY DEF ReadPattern
<1> HIDE DEF l
<1>5. PICK n \in Widths :
         /\ \E row \in Rows(l, n) : Stored(row)
         /\ ninputs' = n
         /\ stray' = (stray \/ RunsPast(l, n))
  BY DEF ReadPattern, l
<1>6. PICK row \in Rows(l, n) : Stored(row)
  BY <1>5
<1>7. Rank(file, line) = nlines /\ Rank(file, line + 1) = nlines + 1
  BY <1>1, <1>3, RankSteps DEF LInv, FromFile
<1>8. ReadLines'
  <2>1. \A i \in 1..(line + 1) : Commented(file, i) \/ Numeric(file.lines[i])
    BY <1>1, <1>2 DEF TInv, ReadLines, l
  <2> QED
    BY <1>4, <2>1 DEF ReadLines, Commented
<1>9. (Tidy' <=> Tidy) /\ PatternLines' = PatternLines
  BY <1>4 DEF Tidy, PatternLines
<1>10. ASSUME Tidy
       PROVE  TidyLoaded'
  <2>1. PICK first \in PatternLines :
          /\ file.ended /\ Last(file.lines[first]) # Blank
          /\ \A j \in PatternLines : /\ first <= j
                                     /\ Layout(file.lines[j]) = Layout(file.lines[first])
    BY <1>10 DEF Tidy
  <2> DEFINE fl == file.lines[first]
  <2>2. /\ first \in 1..Len(file.lines) /\ First(first) /\ fl # << >> /\ Alternates(fl)
        /\ fl \in Seq(Values \cup Marks) /\ Last(fl) # Blank /\ Layout(l) = Layout(fl)
    BY <1>1, <1>2, <2>1, NumericLines DEF First, l
  <2>3. /\ TidyLoaded
        /\ nlines > 0 => ninputs = Blanks(fl)
    BY <1>10, <2>2 DEF TInv, TidyLoaded
  <2>4. \A i : First(i) => i = first
    <3>1. ASSUME NEW i, First(i)
          PROVE  i = first
      <4>1. i \in PatternLines /\ i <= first /\ first <= i
        BY <2>1, <3>1 DEF First
      <4>2. i \in 1..Len(file.lines)
        BY <1>1, <4>1, NumericLines
      <4> QED
        BY <1>1, <2>2, <4>1, <4>2
    <3> QED
      BY <3>1
  <2>5. n = Blanks(fl)
    <3>1. CASE nlines > 0
      <4>1. ninputs \in 0..(MAXINPUTS - 2)
        BY <1>1, <3>1 DEF LInv, LoadTypes
      <4> QED
        BY <2>3, <3>1, <4>1 DEF Widths
    <3>2. CASE nlines = 0
      <4>1. first = line + 1
        <5>1. first <= line + 1
          BY <1>2, <2>1
        <5>2. ~(first <= line)
          <6> SUFFICES ASSUME first <= line PROVE FALSE
            OBVIOUS
          <6>1. Rank(file, first) \in 1..nlines
            BY <2>3 DEF TidyLoaded
          <6> QED
            BY <3>2, <6>1
        <5> QED
          BY <1>1, <2>2, <5>1, <5>2
      <4>2. fl = l
        BY <4>1 DEF l
      <4>3. ~Overruns(l, line + 1)
        BY <2>1, <2>2, <4>2 DEF Overruns, Ended
      <4>4. FieldCounts(l, line + 1) = {1 + Blanks(l) + 0}
        BY <4>3 DEF FieldCounts
      <4>5. ninputs = -1
        BY <3>2 DEF LInv, LoadTypes
      <4>6. n = (1 + Blanks(l) + 0) - 1
        BY <4>4, <4>5 DEF Widths, l
      <4>7. Blanks(l) \in Nat
        BY <1>3, <2>2, <4>2, TidyLength
      <4> HIDE DEF fl
      <4> QED
        BY <4>2, <4>6, <4>7
    <3> QED
      BY <1>1, <3>1, <3>2
  <2>6. PICK m \in Nat : /\ m = n /\ Lead(l) \in {0, 1} /\ m + 1 - Lead(l) >= 1
                         /\ 2 * m + 1 - Lead(l) <= Len(l)
                         /\ (Len(l) + 1 - Lead(l)) \div 2 = m + 1 - Lead(l)
    <3> HIDE DEF fl
    <3> QED
      BY <1>3, <2>2, <2>5, TidyColumns
  <2>7. ~RunsPast(l, n)
    BY <1>3, <2>6, TidyPointers
  <2>8. StoredAs(l, Front(row), Last(row))
    BY <1>3, <1>6, <2>6, TidyStored
  <2>9. /\ inputs' = Append(inputs, Front(row)) /\ outputs' = Append(outputs, Last(row))
        /\ inputs \in Seq(Seq(Values)) /\ Len(inputs) = nlines
        /\ outputs \in Seq(Values) /\ Len(outputs) = nlines
    BY <1>6 DEF Stored, IInv, Stores, LInv, LoadTypes
  <2>10. /\ \A k \in 1..nlines : inputs'[k] = inputs[k] /\ outputs'[k] = outputs[k]
         /\ inputs'[nlines + 1] = Front(row) /\ outputs'[nlines + 1] = Last(row)
    BY <1>1, <2>9
  <2>11. ~stray'
    BY <1>5, <2>3, <2>7 DEF TidyLoaded
  <2>12. \A i : First(i) => ninputs' = Blanks(file.lines[i])
    BY <1>5, <2>4, <2>5
  <2>13. ASSUME NEW j \in PatternLines, j <= line + 1
         PROVE  /\ Rank(file, j) \in 1..(nlines + 1)
                /\ StoredAs(file.lines[j], inputs'[Rank(file, j)], outputs'[Rank(file, j)])
    <3>1. CASE j = line + 1
      BY <1>1, <1>7, <2>8, <2>10, <3>1 DEF l
    <3>2. CASE j # line + 1
      <4>1. j \in Nat
        BY <1>1, NumericLines
      <4>2. j <= line
        BY <1>1, <2>13, <3>2, <4>1
      <4>3. /\ Rank(file, j) \in 1..nlines
            /\ StoredAs(file.lines[j], inputs[Rank(file, j)], outputs[Rank(file, j)])
        BY <2>3, <4>2 DEF TidyLoaded
      <4> QED
        BY <1>1, <2>10, <4>3
    <3> QED
      BY <3>1, <3>2
  <2>14. \A i : First(i)' <=> First(i)
    BY <1>9 DEF First
  <2> QED
    BY <1>4, <1>9, <2>11, <2>12, <2>13, <2>14 DEF TidyLoaded, Rank, Uncommented, Commented
<1> QED
  BY <1>8, <1>9, <1>10 DEF TInv

\* All other steps read no pattern.
LEMMA OthersTInv ==
  ASSUME IInv, LInv, TInv, [Next]_vars, ~ReadPattern
  PROVE  TInv'
<1>1. CASE SkipComment
  <2>1. /\ line \in Nat /\ line' = line + 1 /\ Commented(file, line + 1)
        /\ UNCHANGED << file, nlines, ninputs, stray, inputs, outputs >>
    BY <1>1 DEF SkipComment, Commented, LInv, LoadTypes
  <2>2. \A i \in 1..(line + 1) : Commented(file, i) \/ Numeric(file.lines[i])
    BY <2>1 DEF TInv, ReadLines
  <2>3. ReadLines'
    BY <2>1, <2>2 DEF ReadLines, Commented
  <2>4. \A j \in PatternLines : j <= line + 1 => j <= line
    <3> TAKE j \in PatternLines
    <3>1. j \in Nat /\ ~Commented(file, j)
      BY NumericLines, FileType DEF IInv
    <3> QED
      BY <2>1, <3>1
  <2>5. (Tidy' <=> Tidy) /\ PatternLines' = PatternLines /\ (TidyLoaded => TidyLoaded')
    BY <2>1, <2>4 DEF Tidy, PatternLines, TidyLoaded, First, Rank, Uncommented, Commented
  <2> QED
    BY <2>3, <2>5 DEF TInv
<1>2. CASE StartDecompiled
  <2>1. line' = 0 /\ nlines' = 0 /\ file' = file /\ stray' = stray
    BY <1>2 DEF StartDecompiled
  <2>2. ReadLines'
    BY <2>1 DEF ReadLines
  <2>3. (Tidy' <=> Tidy) /\ PatternLines' = PatternLines
    BY <2>1 DEF Tidy, PatternLines
  <2>4. \A j \in PatternLines : ~(j <= 0)
    <3> TAKE j \in PatternLines
    <3>1. j \in 1..Len(file.lines)
      BY NumericLines DEF IInv
    <3> QED
      BY <3>1, FileType DEF IInv
  <2>5. Tidy => TidyLoaded'
    BY <2>1, <2>3, <2>4 DEF TInv, TidyLoaded
  <2> QED
    BY <2>2, <2>3, <2>5 DEF TInv
<1>3. ASSUME UNCHANGED << file, line, nlines, ninputs, stray, inputs, outputs >>
      PROVE  TInv'
  <2>1. ReadLines' <=> ReadLines
    BY <1>3 DEF ReadLines, Commented
  <2>2. (Tidy' <=> Tidy) /\ PatternLines' = PatternLines /\ (TidyLoaded' <=> TidyLoaded)
    BY <1>3 DEF Tidy, PatternLines, TidyLoaded, First, Rank, Uncommented, Commented
  <2> QED
    BY <2>1, <2>2 DEF TInv
<1>4. CASE Scanargs
  BY <1>3, <1>4 DEF Scanargs
<1>5. CASE UNCHANGED vars
  BY <1>3, <1>5 DEF vars, loading
<1>6. CASE GarbageFound \/ TooWide \/ ReadFails
  BY <1>3, <1>6 DEF GarbageFound, TooWide, ReadFails, LoadFails, loading
<1>7. CASE LoadEnds \/ Classify \/ Undefined \/ StartTrial \/ ComputeError \/ Rerun
             \/ Sigfpe
  BY <1>3, <1>7 DEF LoadEnds, Classify, Undefined, StartTrial, ComputeError, Rerun, Sigfpe,
     loading
<1> QED
  BY <1>1, <1>2, <1>4, <1>5, <1>6, <1>7 DEF Next

LEMMA InitTInv == Init => TInv
<1> SUFFICES ASSUME Init PROVE TInv
  OBVIOUS
<1>1. Given /\ line = 0 /\ nlines = 0 /\ stray = FALSE
  BY DEF Init, Given
<1>2. \A j \in PatternLines : ~(j <= 0)
  <2> TAKE j \in PatternLines
  <2>1. j \in 1..Len(file.lines) /\ Len(file.lines) \in Nat
    BY <1>1, NumericLines, FileType
  <2> QED
    BY <2>1
<1> QED
  BY <1>1, <1>2 DEF TInv, ReadLines, TidyLoaded

\* Each pattern of a tidy file is stored once, in the order of the file, with
\* the last number of its line as output and the others as inputs, and no scan
\* runs past a line (load.c:54-102).
THEOREM TidyFilesAreLoaded == Spec => []TidyFilesLoad
<1>1. IInv /\ LInv /\ TInv /\ [Next]_vars => TInv'
  BY ReadPatternTInv, OthersTInv
<1>2. IInv /\ LInv /\ TInv => TidyFilesLoad
  <2> SUFFICES ASSUME IInv, LInv, TInv, Tidy
               PROVE  /\ ~stray
                      /\ nlines = PatternNumber(line)
                      /\ \A j \in PatternLines : j <= line =>
                           StoredAs(file.lines[j], inputs[PatternNumber(j)],
                                    outputs[PatternNumber(j)])
    BY DEF TidyFilesLoad, StoredAs
  <2>1. Given /\ ReadLines /\ line \in 0..Len(file.lines) /\ Len(file.lines) \in Nat
    BY FileType DEF IInv, TInv, LInv, LoadTypes
  <2>2. nlines = PatternNumber(line)
    BY <2>1, PatternNumberIsRank DEF LInv, FromFile
  <2>3. ASSUME NEW j \in PatternLines, j <= line
        PROVE  PatternNumber(j) = Rank(file, j)
    <3>1. j \in 1..Len(file.lines)
      BY <2>1, NumericLines
    <3>2. j \in 0..line
      BY <2>1, <2>3, <3>1
    <3> QED
      BY <2>1, <3>2, PatternNumberIsRank
  <2> QED
    BY <2>2, <2>3 DEF TInv, TidyLoaded
<1> QED
  BY <1>1, <1>2, InitTInv, ResultsInvariance, PTL DEF Spec

---------------------------------------------------------------------------------
(***************************************************************************)
(* The random numbers that bagging draws its indices with, for words of    *)
(* any width and any shifts.                                               *)
(***************************************************************************)
CONSTANTS Bits, ShiftX, ShiftTmp, ShiftW, HalfUlps
VARIABLES seedx, seedy, seedz, seedw

Rand == INSTANCE Fastrand

\* A word xor its own arithmetic shift has no sign, whatever the word: the
\* sign is copied into itself (util.c:76).
LEMMA SignCancels ==
  ASSUME Bits \in Nat \ {0}, NEW a \in Rand!Words, NEW n \in Nat
  PROVE  Rand!Xor(a, Rand!ShiftRight(a, n)) \in Rand!NotNegative
<1>1. Rand!Sign \in Rand!Bit
  BY DEF Rand!Sign, Rand!Bit
<1>2. \A i \in Rand!Bit : i + n < Bits => i + n \in Rand!Bit
  BY DEF Rand!Bit
<1>3. Rand!ShiftRight(a, n) \in Rand!Words
  BY <1>1, <1>2 DEF Rand!ShiftRight, Rand!Words
<1>4. Rand!ShiftRight(a, n)[Rand!Sign] = a[Rand!Sign]
  BY <1>1, Rand!Sign + 0 = Rand!Sign DEF Rand!ShiftRight, Rand!Sign
<1>5. Rand!Xor(a, Rand!ShiftRight(a, n))[Rand!Sign]
      = (a[Rand!Sign] # Rand!ShiftRight(a, n)[Rand!Sign])
  BY <1>1 DEF Rand!Xor
<1>6. Rand!Xor(a, Rand!ShiftRight(a, n)) \in Rand!Words
  BY <1>3 DEF Rand!Xor, Rand!Words
<1> QED
  BY <1>4, <1>5, <1>6 DEF Rand!NotNegative

\* Words without a sign have an xor without a sign.
LEMMA XorNotNegative ==
  ASSUME Bits \in Nat \ {0}, NEW a \in Rand!NotNegative, NEW b \in Rand!NotNegative
  PROVE  Rand!Xor(a, b) \in Rand!NotNegative
  BY DEF Rand!Xor, Rand!NotNegative, Rand!Words, Rand!Sign, Rand!Bit

\* The generator keeps its seeds from turning negative, for words of any width
\* and any shifts (util.c:66-83).
THEOREM NeverNegative ==
  ASSUME Bits \in Nat \ {0}, ShiftX \in Nat, ShiftTmp \in Nat, ShiftW \in Nat
  PROVE  Rand!Spec => []Rand!SeedsNotNegative
<1>1. Rand!Init => Rand!SeedsNotNegative
  BY DEF Rand!Init, Rand!SeedsNotNegative
<1>2. Rand!SeedsNotNegative /\ [Rand!fastrand]_Rand!vars => Rand!SeedsNotNegative'
  <2> SUFFICES ASSUME Rand!SeedsNotNegative, Rand!fastrand
               PROVE  Rand!SeedsNotNegative'
    BY DEF Rand!SeedsNotNegative, Rand!vars
  <2> DEFINE tmp == Rand!Xor(seedx, Rand!ShiftLeft(seedx, ShiftX))
  <2>1. seedx \in Rand!Words /\ seedw \in Rand!Words
    BY DEF Rand!SeedsNotNegative, Rand!NotNegative
  <2>2. \A i \in Rand!Bit : i >= ShiftX => i - ShiftX \in Rand!Bit
    BY DEF Rand!Bit
  <2>3. Rand!ShiftLeft(seedx, ShiftX) \in Rand!Words
    BY <2>1, <2>2 DEF Rand!ShiftLeft, Rand!Words
  <2>4. tmp \in Rand!Words
    BY <2>1, <2>3 DEF Rand!Xor, Rand!Words
  <2>5. Rand!Xor(tmp, Rand!ShiftRight(tmp, ShiftTmp)) \in Rand!NotNegative
    BY <2>4, SignCancels
  <2>6. Rand!Xor(seedw, Rand!ShiftRight(seedw, ShiftW)) \in Rand!NotNegative
    BY <2>1, SignCancels
  <2>7. seedw' \in Rand!NotNegative
    BY <2>5, <2>6, XorNotNegative DEF Rand!fastrand
  <2>8. seedx' \in Rand!NotNegative /\ seedy' \in Rand!NotNegative /\ seedz' \in Rand!NotNegative
    BY DEF Rand!fastrand, Rand!SeedsNotNegative
  <2> QED
    BY <2>7, <2>8 DEF Rand!SeedsNotNegative
<1> QED
  BY <1>1, <1>2, PTL DEF Rand!Spec

\* No random number is 1: the largest seed is just not rounded up, and with a
\* denominator that is smaller by one it would be ("if denominator is any
\* smaller, then when seedw=2147483647 r==1.0 in single precision", util.c:80).
THEOREM BelowOne ==
  ASSUME HalfUlps \in Nat, HalfUlps > 64
  PROVE  /\ \A seed \in 0..Rand!MaxSeed : ~Rand!RoundedToOne(seed, Rand!Denominator)
         /\ Rand!RoundedToOne(Rand!MaxSeed, Rand!Denominator - 1)
<1> DEFINE square == HalfUlps * HalfUlps
<1>1. Rand!Denominator * (HalfUlps - 1) = 64 * square - 64
  BY DEF Rand!Denominator
<1>2. (Rand!Denominator - 1) * (HalfUlps - 1) = 64 * square - HalfUlps - 63
  BY DEF Rand!Denominator
<1>3. Rand!MaxSeed * HalfUlps = 64 * square - HalfUlps
  BY DEF Rand!MaxSeed
<1>4. ASSUME NEW seed \in 0..Rand!MaxSeed
      PROVE  seed * HalfUlps <= Rand!MaxSeed * HalfUlps
  BY <1>4 DEF Rand!MaxSeed
<1>5. square \in Nat /\ Rand!MaxSeed \in Nat /\ Rand!Denominator \in Nat
  BY DEF Rand!MaxSeed, Rand!Denominator
<1> HIDE DEF square
<1>6. Rand!RoundedToOne(Rand!MaxSeed, Rand!Denominator - 1)
  BY <1>2, <1>3, <1>5 DEF Rand!RoundedToOne
<1>7. ASSUME NEW seed \in 0..Rand!MaxSeed
      PROVE  ~Rand!RoundedToOne(seed, Rand!Denominator)
  BY <1>1, <1>3, <1>4, <1>5, <1>7 DEF Rand!RoundedToOne
<1> QED
  BY <1>6, <1>7
=================================================================================
