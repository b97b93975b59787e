-------------------------------- MODULE Fastrand --------------------------------
(***************************************************************************)
(* The random numbers of lgp (util.c): an xorshift generator on four       *)
(* signed words, and the scaling of one of them to [0, 1).  A word is a    *)
(* function from its bits, the last of which is the sign.  The shifts of   *)
(* the code are parameters, with the values that keep them inside a word.  *)
(***************************************************************************)
EXTENDS Integers

CONSTANTS
  Bits,              \* bits of a long, 32 with gcc -m32
  ShiftX,            \* 15
  ShiftTmp, ShiftW,  \* 4 and 21
  HalfUlps           \* 2^25

VARIABLES seedx, seedy, seedz, seedw

vars == << seedx, seedy, seedz, seedw >>

Bit == 0..(Bits - 1)
Sign == Bits - 1
Words == [Bit -> BOOLEAN]

\* The operators of C: ^, << (a bit that reaches the sign makes the word negative)
\* and >> of a signed word, which copies the sign.
Xor(a, b) == [i \in Bit |-> a[i] # b[i]]
ShiftLeft(a, n) == [i \in Bit |-> i >= n /\ a[i - n]]
ShiftRight(a, n) == [i \in Bit |-> IF i + n < Bits THEN a[i + n] ELSE a[Sign]]

NotNegative == {a \in Words : ~a[Sign]}

\* fastrandseed: lrand48, and the fixed seeds, give words that are not negative.
Init == seedx \in NotNegative /\ seedy \in NotNegative /\ seedz \in NotNegative
        /\ seedw \in NotNegative

fastrand ==
  LET tmp == Xor(seedx, ShiftLeft(seedx, ShiftX))
  IN  /\ seedx' = seedy
      /\ seedy' = seedz
      /\ seedz' = seedw
      /\ seedw' = Xor(Xor(seedw, ShiftRight(seedw, ShiftW)),
                      Xor(tmp, ShiftRight(tmp, ShiftTmp)))

Spec == Init /\ [][fastrand]_vars

\* SeedsNotNegative: although tmp can be negative, no seed ever is, so that no
\* random number is (util.c:79: "seedw is [0,2^31-1]").
SeedsNotNegative == {seedx, seedy, seedz, seedw} \subseteq NotNegative

---------------------------------------------------------------------------------
(***************************************************************************)
(* The quotient of a seed and Denominator becomes a number of single       *)
(* precision, which has 24 bits.  The largest below 1 is 1 - 1/2^24; a     *)
(* quotient is rounded to 1 from halfway between them on, from             *)
(* 1 - 1/HalfUlps.  The program is built with gcc -m32, which divides on   *)
(* the FPU in extended precision: the seed is not rounded before, as it    *)
(* would be in SSE registers, where the largest ones do become 1.          *)
(***************************************************************************)
MaxSeed == 64 * HalfUlps - 1          \* 2147483647
Denominator == 64 * HalfUlps + 64     \* 2147483712

RoundedToOne(seed, denominator) == seed * HalfUlps >= denominator * (HalfUlps - 1)
=================================================================================
