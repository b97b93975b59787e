--------------------------------- MODULE Inputs ---------------------------------
(***************************************************************************)
(* The data of a run: the options (scanargs), the file of input patterns   *)
(* (load.c), the choice between classification and regression, bagging,    *)
(* the errors of one program on the training window (compute_error.c), and *)
(* those that the stand-alone program decompiled.c reports, which loads    *)
(* the same file again.                                                    *)
(*                                                                         *)
(* A line of the file is a sequence of numbers and of runs of blanks.  The *)
(* pattern of timestep t is element t + 1 of the arrays.                   *)
(***************************************************************************)
EXTENDS Integers, SequencesExt

CONSTANTS
  Files,         \* contents of files: their lines, and whether the last one is ended
  Options,       \* options: windows <<start, stop>> or NoWindow, early, bagging
  Values,        \* the numbers in files
  Outcomes,      \* the outputs of programs
  CHUNKSIZE,     \* lines that the arrays grow by
  MAXINPUTS,     \* limit to the number of columns
  MaxOverrun,    \* a bound: blanks met when a scan runs past a line
  Maxtrials      \* number of trials

\* What a line holds besides numbers: blanks, the mark of a comment, garbage.
Blank == -100
Comment == -101
Garbage == -102
Marks == {Blank, Comment, Garbage}
NoWindow == << -1, 0 >>

\* What a program gives for a pattern: an output, or a floating point exception.
Fpe == -103
Results == Outcomes \cup {Fpe}

\* A run of blanks is one element, and so is what stands between two of them.
Alternates(l) == \A i \in 1..(Len(l) - 1) : (l[i] = Blank) # (l[i + 1] = Blank)

ASSUME InputsAssumption ==
  /\ \A f \in Files : /\ f.lines \in Seq(Seq(Values \cup Marks))
                      /\ \A k \in DOMAIN f.lines : Alternates(f.lines[k])
  /\ Values \subseteq Int /\ Values \cap Marks = {}
  /\ Outcomes \subseteq Int /\ Fpe \notin Outcomes
  /\ \A o \in Options : /\ o.train \in Int \X Nat /\ o.validate \in Int \X Nat
                        /\ o.test \in Int \X Nat
  /\ CHUNKSIZE \in Nat \ {0} /\ MAXINPUTS \in Nat \ {0} /\ MaxOverrun \in Nat
  /\ Maxtrials \in Nat

VARIABLES
  opts, file,
  program,       \* the program that runs: "lgp" or "decompiled"
  phase,
  line,          \* lines of the file read by fgets
  nlines,        \* patterns stored
  ninputs,       \* number of inputs of a pattern; -1 before the first line
  maxlines,      \* size of the arrays
  stray,         \* did a scan run past the end of a line?
  inputs, outputs,
  classify,      \* for each program, does it take the problem as classification?
  resampled,     \* inputsresampled
  trial,
  prog,          \* the program that is evaluated: its result for each pattern
  error,         \* its error on the training window, as lgp computes it
  decompiled     \* and as decompiled prints it

loading == << line, nlines, ninputs, maxlines, stray, inputs, outputs >>
evaluating == << resampled, trial, prog, error, decompiled >>
vars == << opts, file, program, phase, loading, classify, evaluating >>

---------------------------------------------------------------------------------
(***************************************************************************)
(* load.c: scans of one line                                               *)
(***************************************************************************)
Start(window) == window[1]
Stop(window) == window[2]

\* Fault: both programs load the file for the training window only.
LoadStopTrain == Stop(opts.train)

\* The window that the program reads the file for.
LoadStop == IF program = "lgp" THEN Stop(opts.test) ELSE Stop(opts.train)

Ended(k) == k < Len(file.lines) \/ file.ended
Numeric(l) == l # << >> /\ l[1] \in Values \cup {Blank}

\* The columns counted in the first line: one more than its runs of blanks.
\* After a trailing blank the scan steps over the end of the line.
Blanks(l) == Cardinality({i \in DOMAIN l : l[i] = Blank})
Overruns(l, k) == Last(l) = Blank \/ ~Ended(k)
FieldCounts(l, k) ==
  {1 + Blanks(l) + more : more \in IF Overruns(l, k) THEN 0..MaxOverrun ELSE {0}}

\* The pointer bp goes over a line; Past stands for the memory after it.
Past == 0
NextField(l, bp) ==
  IF bp = Past THEN Past
  ELSE IF l[bp] = Blank THEN bp + 1
  ELSE IF bp < Len(l) THEN bp + 2
  ELSE Past

\* What sscanf may read at bp; none if it fails.
NumberAt(l, bp) ==
  IF bp = Past THEN Values
  ELSE {l[i] : i \in {j \in DOMAIN l : /\ j \in bp..(bp + 1) /\ l[j] \in Values
                                       /\ j > bp => l[bp] = Blank}}

\* The pointers before each column of a pattern with n inputs.
Pointers(l, n) ==
  LET bp[i \in 0..n] == IF i = 0 THEN 1
                        ELSE IF bp[i - 1] > Len(l) THEN bp[i - 1]
                        ELSE NextField(l, bp[i - 1])
  IN  bp

\* All the rows that a line may be read as; none if the program exits.
Rows(l, n) ==
  LET bp == Pointers(l, n)
  IN  {row \in [1..(n + 1) -> Values] : \A i \in 1..(n + 1) : row[i] \in NumberAt(l, bp[i - 1])}

RunsPast(l, n) == \E i \in 0..n : Pointers(l, n)[i] = Past

---------------------------------------------------------------------------------
Init ==
  /\ opts \in Options /\ file \in Files
  /\ program = "lgp" /\ phase = "options"
  /\ line = 0 /\ nlines = 0 /\ ninputs = -1 /\ maxlines = 0 /\ stray = FALSE
  /\ inputs = << >> /\ outputs = << >>
  /\ classify = [lgp |-> FALSE, decompiled |-> FALSE]
  /\ resampled = << >> /\ trial = 0 /\ prog = << >>
  /\ error = 0 /\ decompiled = 0

\* scanargs: the checks on the options.
Sane ==
  /\ opts.early # 0 => Start(opts.validate) >= 0
  /\ opts.early <= 50
  /\ Start(opts.train) >= 0
  /\ Start(opts.test) >= 0

Scanargs ==
  /\ phase = "options"
  /\ phase' = IF Sane THEN "load" ELSE "exited"
  /\ maxlines' = CHUNKSIZE
  /\ UNCHANGED << opts, file, program, line, nlines, ninputs, stray, inputs, outputs,
                  classify, evaluating >>

MoreLines ==
  /\ line < Len(file.lines)
  /\ LoadStop # 0 => nlines < LoadStop

SkipComment ==
  /\ phase = "load" /\ MoreLines
  /\ LET l == file.lines[line + 1] IN l # << >> /\ l[1] = Comment
  /\ line' = line + 1
  /\ UNCHANGED << opts, file, program, phase, nlines, ninputs, maxlines, stray,
                  inputs, outputs, classify, evaluating >>

LoadFails ==
  /\ phase = "load"
  /\ phase' = "exited"
  /\ UNCHANGED << opts, file, program, loading, classify, evaluating >>

GarbageFound ==
  /\ MoreLines
  /\ LET l == file.lines[line + 1] IN l = << >> \/ l[1] = Garbage
  /\ LoadFails

\* The number of inputs: found in the first line, kept for the others.
Widths == LET l == file.lines[line + 1]
          IN  IF ninputs >= 0 THEN {ninputs} ELSE {c - 1 : c \in FieldCounts(l, line + 1)}

TooWide ==
  /\ MoreLines /\ Numeric(file.lines[line + 1])
  /\ ninputs < 0 /\ \E n \in Widths : n + 1 >= MAXINPUTS
  /\ LoadFails

\* Fault: the output of a pattern is its first column.
FirstIsOutput(row) == /\ inputs' = Append(inputs, Tail(row))
                      /\ outputs' = Append(outputs, Head(row))

\* Fault: the output is kept among the inputs, too.
StoredWhole(row) == /\ inputs' = Append(inputs, row)
                    /\ outputs' = Append(outputs, Last(row))

\* The last column is the output.
Stored(row) == /\ inputs' = Append(inputs, Front(row))
               /\ outputs' = Append(outputs, Last(row))

\* The arrays grow after line number maxlines has been written.
ReadPattern ==
  /\ phase = "load" /\ MoreLines
  /\ LET l == file.lines[line + 1]
     IN  /\ Numeric(l)
         /\ \E n \in Widths :
              /\ ninputs >= 0 \/ n + 1 < MAXINPUTS
              /\ \E row \in Rows(l, n) : Stored(row)
              /\ ninputs' = n
              /\ stray' = (stray \/ RunsPast(l, n))
  /\ line' = line + 1
  /\ nlines' = nlines + 1
  /\ maxlines' = IF nlines = maxlines THEN maxlines + CHUNKSIZE ELSE maxlines
  /\ UNCHANGED << opts, file, program, phase, classify, evaluating >>

ReadFails ==
  /\ MoreLines
  /\ LET l == file.lines[line + 1]
     IN  /\ Numeric(l)
         /\ \E n \in Widths : Rows(l, n) = {} \/ RunsPast(l, n)
  /\ LoadFails

LongEnough == nlines >= LoadStop

\* At the end of the window or of the file.
LoadEnds ==
  /\ phase = "load" /\ ~MoreLines
  /\ phase' = IF LongEnough THEN "classify" ELSE "exited"
  /\ UNCHANGED << opts, file, program, loading, classify, evaluating >>

\* Both programs test the outputs they have read; lgp up to the end of the test
\* window for the values -1 and 1, decompiled in its window for 0 and 1.
Binary == IF program = "lgp" THEN {-1, 1} ELSE {0, 1}
IsClassification == \A t \in 0..(LoadStop - 1) : outputs[t + 1] \in Binary

\* lgp copies the inputs of the patterns up to the end of the test window.
Smaller(m, n) == IF m < n THEN m ELSE n

Classify ==
  /\ phase = "classify"
  /\ classify' = [classify EXCEPT ![program] = IsClassification]
  /\ phase' = IF program = "decompiled" THEN "rerun"
              ELSE IF opts.early # 0 /\ ~IsClassification THEN "exited"
              ELSE "trial"
  /\ resampled' = IF program = "lgp" THEN SubSeq(inputs, 1, Smaller(nlines, Stop(opts.test)))
                                     ELSE resampled
  /\ UNCHANGED << opts, file, program, loading, trial, prog, error, decompiled >>

Training == Start(opts.train)..(Stop(opts.train) - 1)
Windows == {opts.train, opts.validate, opts.test}

\* A window that ends after the patterns copied: the program uses memory that it
\* never wrote, and nothing more is said of it here.
Undefined ==
  /\ phase = "trial"
  /\ \E w \in Windows : Stop(w) > Len(resampled)
  /\ phase' = "undefined"
  /\ UNCHANGED << opts, file, program, loading, classify, evaluating >>

\* Fault: the draws are those of all patterns up to the end of the test window.
DrawsAll == [Training -> 0..(Stop(opts.test) - 1)]

\* The index drawn for each pattern of the training window.
Draws == [Training -> Training]

\* A trial begins: with bagging, the inputs are drawn again from the file's.
StartTrial ==
  /\ phase = "trial" /\ trial < Maxtrials
  /\ \A w \in Windows : Stop(w) <= Len(resampled)
  /\ IF opts.bagging
       THEN \E resample \in Draws :
              resampled' = [k \in DOMAIN resampled |->
                 IF k - 1 \in Training THEN inputs[resample[k - 1] + 1] ELSE resampled[k]]
       ELSE UNCHANGED resampled
  /\ prog' = << >> /\ error' = 0
  /\ phase' = "evaluate"
  /\ UNCHANGED << opts, file, program, loading, classify, trial, decompiled >>

Distance(x, y) == IF x < y THEN y - x ELSE x - y

\* compute_error: misclassifications, or the distance of the outputs (NORM1).
PatternError(output, desired) ==
  IF classify.lgp
    THEN IF (output > 0 /\ desired = -1) \/ (output <= 0 /\ desired = 1) THEN 1 ELSE 0
    ELSE Distance(desired, output)

\* Fault: another norm than in compute_error.
DecompiledErrorSquared(output, desired) ==
  IF classify.decompiled
    THEN IF (IF output > 0 THEN 1 ELSE 0) # desired THEN 1 ELSE 0
    ELSE (desired - output) * (desired - output)

\* Its counterpart in decompiled.c: a Boolean is compared with the output.
DecompiledError(output, desired) ==
  IF classify.decompiled
    THEN IF (IF output > 0 THEN 1 ELSE 0) # desired THEN 1 ELSE 0
    ELSE Distance(desired, output)

\* Does the program raise an exception in the training window of these patterns?
Raises(p, patterns) == \E t \in Training : p[patterns[t + 1]] = Fpe

\* The best program of this trial, any function of the inputs, is evaluated.  Its
\* error is the lowest, so it raises no exception on the inputs it is bred with.
ComputeError ==
  /\ phase = "evaluate"
  /\ \E p \in [Range(inputs) -> Results] :
       /\ ~Raises(p, resampled)
       /\ prog' = p
       /\ error' = SumFunction([t \in Training |->
                       PatternError(p[resampled[t + 1]], outputs[t + 1])])
  /\ trial' = trial + 1
  /\ phase' = IF trial + 1 < Maxtrials THEN "trial" ELSE "decompile"
  /\ UNCHANGED << opts, file, program, loading, classify, resampled, decompiled >>

\* The decompiled program starts, and loads the file up to its window's end.
StartDecompiled ==
  /\ phase = "decompile"
  /\ program' = "decompiled" /\ phase' = "load"
  /\ line' = 0 /\ nlines' = 0 /\ ninputs' = -1 /\ maxlines' = CHUNKSIZE
  /\ inputs' = << >> /\ outputs' = << >>
  /\ UNCHANGED << opts, file, stray, classify, evaluating >>

\* The program as it was decompiled: on patterns that lgp has not read, it may
\* do anything.
Again ==
  \E p \in [Range(inputs) \ DOMAIN prog -> Results] :
     prog' = [x \in DOMAIN prog \cup DOMAIN p |->
                IF x \in DOMAIN prog THEN prog[x] ELSE p[x]]

Rerun ==
  /\ phase = "rerun"
  /\ Again /\ ~Raises(prog', inputs)
  /\ decompiled' = SumFunction([t \in Training |->
                       DecompiledError(prog'[inputs[t + 1]], outputs[t + 1])])
  /\ phase' = "done"
  /\ UNCHANGED << opts, file, program, loading, classify, resampled, trial, error >>

\* An exception: no error is summed up, and the handler exits.
Sigfpe ==
  /\ phase = "rerun"
  /\ Again /\ Raises(prog', inputs)
  /\ phase' = "trapped"
  /\ UNCHANGED << opts, file, program, loading, classify, resampled, trial, error,
                  decompiled >>

Next ==
  \/ Scanargs
  \/ SkipComment
  \/ GarbageFound
  \/ TooWide
  \/ ReadPattern
  \/ ReadFails
  \/ LoadEnds
  \/ Classify
  \/ Undefined
  \/ StartTrial
  \/ ComputeError
  \/ StartDecompiled
  \/ Rerun
  \/ Sigfpe

Spec == Init /\ [][Next]_vars

---------------------------------------------------------------------------------
(***************************************************************************)
(* Properties                                                              *)
(***************************************************************************)
TypeOK ==
  /\ program \in {"lgp", "decompiled"}
  /\ line \in 0..Len(file.lines) /\ nlines \in 0..line
  /\ ninputs \in -1..(MAXINPUTS - 2)
  /\ Len(inputs) = nlines
  /\ \A k \in DOMAIN inputs : inputs[k] \in Seq(Values) /\ Len(inputs[k]) = ninputs
  /\ outputs \in Seq(Values) /\ Len(outputs) = nlines
  /\ Len(resampled) \in {0, Stop(opts.test)}
  /\ trial \in 0..Maxtrials
  /\ {error, decompiled} \subseteq Nat
  \* A line that did not fit was one too many, and the arrays have grown since.
  /\ nlines <= maxlines

\* The lines that are patterns; line j is pattern number PatternNumber(j).
PatternLines == {j \in DOMAIN file.lines : Numeric(file.lines[j])}
PatternNumber(j) == Cardinality({i \in PatternLines : i <= j})

\* The layout of a line but for a trailing blank, and its numbers: every second
\* element, from the first that is not blank.
Body(l) == IF Last(l) = Blank THEN Front(l) ELSE l
Layout(l) == [i \in DOMAIN Body(l) |-> l[i] = Blank]
Lead(l) == IF l[1] = Blank THEN 1 ELSE 0
Numbers(l) == [c \in 1..((Len(l) + 1 - Lead(l)) \div 2) |-> l[2 * c - 1 + Lead(l)]]

Tidy ==
  /\ file.ended
  /\ \E first \in PatternLines :
       /\ Last(file.lines[first]) # Blank
       /\ \A j \in PatternLines : /\ first <= j
                                  /\ Layout(file.lines[j]) = Layout(file.lines[first])

\* TidyFilesLoad: when all lines have the columns of the first one, no scan
\* runs past a line, each pattern is stored once and in the order of the file,
\* with the last number of its line as output ("last field is the pattern
\* output", load.c:79) and the others as inputs, the first of them twice when
\* the lines begin with a blank.
TidyFilesLoad ==
  Tidy =>
    /\ ~stray
    /\ nlines = PatternNumber(line)
    /\ \A j \in PatternLines :
         j <= line =>
           LET l == file.lines[j]
               k == PatternNumber(j)
           IN  /\ outputs[k] = Last(Numbers(l))
               /\ inputs[k] = (IF l[1] = Blank THEN << l[2] >> ELSE << >>)
                                \o Front(Numbers(l))

\* OnlyLoaded: lgp uses array elements that were never read from the file only
\* if the training or the validation window ends after the test window, which
\* no check of the options refuses (lgp.c:417-441); a file too short for the
\* test window is refused (load.c:125).  decompiled, which loads the file for
\* the window it uses, never does (decompiled.c:149).
OnlyLoaded ==
  /\ phase = "undefined" =>
       \E w \in {opts.train, opts.validate} : Stop(w) > Stop(opts.test)
  /\ phase = "rerun" => Stop(opts.train) <= nlines

\* Bootstrap: in all trials, bagging has replaced training inputs by training
\* inputs of the file, and no others: "The validation and test regions never
\* bootstrap resampled" (lgp.c:1135).
Bootstrap ==
  (program = "lgp" /\ phase \in {"trial", "evaluate", "decompile"}) =>
    \A k \in DOMAIN resampled :
      \/ resampled[k] = inputs[k]
      \/ /\ opts.bagging /\ k - 1 \in Training
         /\ \E t \in Training : resampled[k] = inputs[t + 1]

Comparable == phase \in {"done", "trapped"} /\ ~opts.bagging /\ ~stray

\* SameError: where both programs take the problem as the same kind, decompiled
\* raises no exception and the error it prints is that of lgp, although each has
\* loaded the file for a window of its own and computes the error with code of
\* its own ("should do the same in decompiled(), or #define PARANOID will
\* break", compute_error.c:121).
SameError ==
  (Comparable /\ classify.lgp = classify.decompiled) =>
    phase = "done" /\ error = decompiled

\* DecompiledAgrees: "This had better agree with the output of compute_error()"
\* (decompiled.c:8), whatever the problem.
DecompiledAgrees == Comparable => error = decompiled
=================================================================================
