--------------------------- MODULE DisassemblyProofs ----------------------------
(***************************************************************************)
(* Theorems about Disassembly, for images and requests of any number and   *)
(* size: the requests are served in order, no instruction is printed for   *)
(* an address or an entry that ends after the image, a range is tiled by   *)
(* its instructions, and the target of every jump is disassembled, however *)
(* the jumps are nested.                                                   *)
(* Of the decoder only the check is used that an instruction has bytes and *)
(* ends inside the buffer (x86_disasm.c:51-66).                            *)
(***************************************************************************)
EXTENDS Disassembly, TLAPS, SequenceTheorems, FiniteSetTheorems, WellFoundedInduction

---------------------------------------------------------------------------------
(***************************************************************************)
(* Sequences.                                                              *)
(***************************************************************************)
LEMMA LeastNumber ==
  ASSUME NEW N, N \subseteq Nat, N # {}
  PROVE  \E x \in N : \A y \in N : x <= y
<1>1. PICK x \in N : \A y \in N : ~(<< y, x >> \in OpToRel(<, Nat))
  BY WFMin, NatLessThanWellFounded
<1>2. \A y \in N : ~(y < x)
  BY <1>1 DEF OpToRel
<1> QED
  BY <1>2

\* What is inserted, and where the rest of the list is then.
LEMMA Inserted ==
  ASSUME NEW Elems, NEW list \in Seq(Elems), NEW i \in 1..(Len(list) + 1), NEW r \in Elems
  PROVE  /\ InsertAt(list, i, r) \in Seq(Elems)
         /\ Len(InsertAt(list, i, r)) = Len(list) + 1
         /\ \A k \in 1..(Len(list) + 1) :
              InsertAt(list, i, r)[k] = IF k < i THEN list[k]
                                        ELSE IF k = i THEN r ELSE list[k - 1]
<1> DEFINE front == SubSeq(list, 1, i - 1)
           back == SubSeq(list, i, Len(list))
<1>1. /\ Len(list) \in Nat /\ i \in Nat /\ i >= 1 /\ i <= Len(list) + 1
      /\ \A k \in 1..Len(list) : list[k] \in Elems
  BY LenProperties, ElementOfSeq
<1>2. /\ front \in Seq(Elems) /\ Len(front) = i - 1
      /\ \A k \in 1..(i - 1) : front[k] = list[k]
  <2>1. \A k \in 1..(i - 1) : list[k] \in Elems
    BY <1>1
  <2>2. /\ front \in Seq(Elems)
        /\ Len(front) = IF 1 <= i - 1 THEN (i - 1) - 1 + 1 ELSE 0
        /\ \A k \in 1..((i - 1) - 1 + 1) : front[k] = list[1 + k - 1]
    BY <1>1, <2>1, SubSeqProperties
  <2> HIDE DEF front
  <2>3. Len(front) = i - 1
    BY <1>1, <2>2
  <2>4. \A k \in 1..(i - 1) : front[k] = list[k]
    BY <1>1, <2>2
  <2> QED
    BY <2>2, <2>3, <2>4
<1>3. /\ back \in Seq(Elems) /\ Len(back) = Len(list) - i + 1
      /\ \A k \in 1..(Len(list) - i + 1) : back[k] = list[i + k - 1]
  <2>1. \A k \in i..Len(list) : list[k] \in Elems
    BY <1>1
  <2>2. /\ back \in Seq(Elems)
        /\ Len(back) = IF i <= Len(list) THEN Len(list) - i + 1 ELSE 0
        /\ \A k \in 1..(Len(list) - i + 1) : back[k] = list[i + k - 1]
    BY <1>1, <2>1, SubSeqProperties
  <2> HIDE DEF back
  <2> QED
    BY <1>1, <2>2
<1> HIDE DEF front, back
<1>4. /\ << r >> \in Seq(Elems) /\ Len(<< r >>) = 1 /\ << r >>[1] = r
  OBVIOUS
<1> DEFINE upto == front \o << r >>
<1>5. /\ upto \in Seq(Elems) /\ Len(upto) = i
      /\ \A k \in 1..i : upto[k] = IF k <= i - 1 THEN front[k] ELSE << r >>[k - (i - 1)]
  BY <1>1, <1>2, <1>4, ConcatProperties
<1> HIDE DEF upto
<1>6. /\ upto \o back \in Seq(Elems)
      /\ Len(upto \o back) = Len(list) + 1
      /\ \A k \in 1..(Len(list) + 1) :
           (upto \o back)[k] = IF k <= i THEN upto[k] ELSE back[k - i]
  BY <1>1, <1>3, <1>5, ConcatProperties
<1>7. InsertAt(list, i, r) = upto \o back
  BY DEF InsertAt, upto, front, back
<1>8. ASSUME NEW k \in 1..(Len(list) + 1)
      PROVE  (upto \o back)[k] = IF k < i THEN list[k]
                                 ELSE IF k = i THEN r ELSE list[k - 1]
  <2>1. CASE k < i
    BY <1>1, <1>2, <1>5, <1>6, <2>1
  <2>2. CASE k = i
    <3>1. k - (i - 1) = 1 /\ ~(k <= i - 1) /\ k <= i /\ k \in 1..i
      BY <1>1, <2>2
    <3> QED
      BY <1>4, <1>5, <1>6, <2>2, <3>1
  <2>3. CASE k > i
    <3> DEFINE j == k - i
    <3>1. j \in 1..(Len(list) - i + 1) /\ i + j - 1 = k - 1 /\ ~(k <= i) /\ ~(k < i)
      BY <1>1, <2>3
    <3>2. back[j] = list[i + j - 1]
      BY <1>3, <3>1
    <3>3. (upto \o back)[k] = back[j]
      BY <1>6, <3>1
    <3> QED
      BY <2>3, <3>1, <3>2, <3>3
  <2>4. k < i \/ k = i \/ k > i
    BY <1>1
  <2> QED
    BY <2>1, <2>2, <2>3, <2>4
<1> QED
  BY <1>6, <1>7, <1>8
\* A list is in order.
Sorted(list) ==
  \A i, j \in DOMAIN list : i < j => list[i].offset <= list[j].offset

\* Where it has the first request of an offset, there is none of a type that comes
\* before its type.
IsFirst(list, i) == \A h \in 1..(i - 1) : list[h].offset < list[i].offset
FirstRanks(list) ==
  \A i, j \in DOMAIN list :
    i < j /\ list[j].offset = list[i].offset /\ IsFirst(list, i)
      => Rank(list[i].type) <= Rank(list[j].type)

\* add_request keeps a list in order (x86dis.c:208-225).
LEMMA AddedInOrder ==
  ASSUME NEW Elems, \A x \in Elems : x.offset \in Int /\ Rank(x.type) \in Int,
         NEW list \in Seq(Elems), Sorted(list), FirstRanks(list), NEW r \in Elems
  PROVE  /\ add_request(list, r) \in Seq(Elems)
         /\ Len(add_request(list, r)) = Len(list) + 1
         /\ Sorted(add_request(list, r)) /\ FirstRanks(add_request(list, r))
<1> DEFINE stops == {i \in DOMAIN list : list[i].offset >= r.offset}
           i == CHOOSE j \in stops : \A k \in stops : j <= k
           before == list[i].offset > r.offset \/ Rank(list[i].type) > Rank(r.type)
           at == IF before THEN i ELSE i + 1
<1>1. /\ Len(list) \in Nat /\ DOMAIN list = 1..Len(list)
      /\ \A k \in 1..Len(list) : list[k] \in Elems
      /\ \A k \in 1..Len(list) : list[k].offset \in Int
      /\ r.offset \in Int
  BY LenProperties, ElementOfSeq
<1>r. Rank(r.type) \in Int /\ \A k \in 1..Len(list) : Rank(list[k].type) \in Int
  BY LenProperties, ElementOfSeq
<1>2. \A j \in 1..Len(list), k \in 1..Len(list) :
        j <= k => list[j].offset <= list[k].offset
  <2> SUFFICES ASSUME NEW j \in 1..Len(list), NEW k \in 1..Len(list), j <= k
               PROVE  list[j].offset <= list[k].offset
    OBVIOUS
  <2>1. j \in DOMAIN list /\ k \in DOMAIN list
    BY <1>1
  <2>2. CASE j = k
    BY <1>1, <2>2
  <2>3. CASE j < k
    BY <2>1, <2>3 DEF Sorted
  <2> QED
    BY <2>2, <2>3
<1>3. CASE stops = {}
  <2>1. add_request(list, r) = Append(list, r)
    BY <1>3 DEF add_request
  <2>2. /\ Append(list, r) \in Seq(Elems)
        /\ Len(Append(list, r)) = Len(list) + 1
        /\ \A k \in 1..Len(list) : Append(list, r)[k] = list[k]
        /\ Append(list, r)[Len(list) + 1] = r
    BY AppendProperties
  <2>3. \A k \in 1..Len(list) : list[k].offset < r.offset
    BY <1>1, <1>3
  <2>4. DOMAIN Append(list, r) = 1..(Len(list) + 1)
    BY <2>2, LenProperties
  <2>5. Sorted(Append(list, r))
    <3> SUFFICES ASSUME NEW j \in 1..(Len(list) + 1), NEW k \in 1..(Len(list) + 1), j < k
                 PROVE  Append(list, r)[j].offset <= Append(list, r)[k].offset
      BY <2>4 DEF Sorted
    <3>1. j \in 1..Len(list)
      BY <1>1
    <3>2. CASE k \in 1..Len(list)
      BY <1>2, <2>2, <3>1, <3>2
    <3>3. CASE k = Len(list) + 1
      BY <1>1, <2>2, <2>3, <3>1, <3>3
    <3> QED
      BY <1>1, <3>2, <3>3
  <2> DEFINE new == Append(list, r)
  <2>6. FirstRanks(new)
    <3> HIDE DEF new
    <3> SUFFICES ASSUME NEW j \in 1..(Len(list) + 1), NEW k \in 1..(Len(list) + 1), j < k,
                        new[k].offset = new[j].offset, IsFirst(new, j)
                 PROVE  Rank(new[j].type) <= Rank(new[k].type)
      BY <2>4 DEF FirstRanks, new
    <3>0. (\A h \in 1..Len(list) : new[h] = list[h]) /\ new[Len(list) + 1] = r
      BY <2>2 DEF new
    <3>1. j \in 1..Len(list) /\ new[j] = list[j]
      BY <1>1, <3>0
    <3>2. k \in 1..Len(list)
      <4>1. k # Len(list) + 1
        BY <1>1, <2>3, <3>0, <3>1
      <4> DEFINE n == Len(list)
      <4>2. n \in Nat /\ k \in 1..(n + 1) /\ k # n + 1
        BY <1>1, <4>1
      <4> HIDE DEF n
      <4>3. k \in 1..n
        BY <4>2
      <4> QED
        BY <4>3 DEF n
    <3>3. IsFirst(list, j)
      BY <1>1, <3>0, <3>1 DEF IsFirst
    <3> QED
      <4>1. list[k].offset = list[j].offset
        BY <3>0, <3>1, <3>2
      <4>2. Rank(list[j].type) <= Rank(list[k].type)
        BY <1>1, <3>1, <3>2, <3>3, <4>1 DEF FirstRanks
      <4> QED
        BY <3>0, <3>1, <3>2, <4>2
  <2> QED
    BY <2>1, <2>2, <2>5, <2>6
<1>4. CASE stops # {}
  <2>1. i \in stops /\ \A k \in stops : i <= k
    <3>1. stops \subseteq Nat
      BY <1>1
    <3>2. \E j \in stops : \A k \in stops : j <= k
      BY <1>4, <3>1, LeastNumber
    <3> QED
      BY <3>2
  <2>2. add_request(list, r) = InsertAt(list, at, r)
    BY <1>4 DEF add_request
  <2> HIDE DEF i
  <2>3. i \in 1..Len(list) /\ list[i].offset >= r.offset
    BY <1>1, <2>1
  <2>4. \A k \in 1..Len(list) : k < i => list[k].offset < r.offset
    <3> SUFFICES ASSUME NEW k \in 1..Len(list), k < i, ~(list[k].offset < r.offset)
                 PROVE  FALSE
      OBVIOUS
    <3>1. k \in stops
      BY <1>1
    <3> QED
      BY <1>1, <2>1, <2>3, <3>1
  <2>5. \A k \in 1..Len(list) : k >= i => r.offset <= list[k].offset
    <3> SUFFICES ASSUME NEW k \in 1..Len(list), k >= i
                 PROVE  r.offset <= list[k].offset
      OBVIOUS
    <3>1. list[i].offset <= list[k].offset
      BY <1>2, <2>3
    <3> QED
      BY <1>1, <2>3, <3>1
  <2>6. ~before => list[i].offset = r.offset
    BY <1>1, <2>3
  <2>7. at \in 1..(Len(list) + 1)
    BY <1>1, <2>3
  <2>8. \A k \in 1..Len(list) : k < at => list[k].offset <= r.offset
    <3> SUFFICES ASSUME NEW k \in 1..Len(list), k < at
                 PROVE  list[k].offset <= r.offset
      OBVIOUS
    <3>1. CASE k < i
      BY <1>1, <2>4, <3>1
    <3>2. CASE k = i /\ ~before
      BY <1>1, <2>6, <3>2
    <3>3. k < i \/ (k = i /\ ~before)
      BY <1>1, <2>3
    <3> QED
      BY <3>1, <3>2, <3>3
  \* Where r may come to stand behind, or before, those of its offset.
  <2>e. /\ i <= at /\ at <= i + 1
        /\ at = i => list[i].offset > r.offset \/ Rank(r.type) <= Rank(list[i].type)
        /\ at # i => list[i].offset = r.offset /\ Rank(list[i].type) <= Rank(r.type)
    BY <1>1, <1>r, <2>3, <2>6
  <2>f. \A k \in 1..Len(list) : list[k].offset = r.offset => i <= k
    BY <1>1, <2>3, <2>4
  <2>g. IsFirst(list, i) \/ list[i].offset > r.offset
    BY <1>1, <2>3, <2>4 DEF IsFirst
  <2>9. \A k \in 1..Len(list) : k >= at => r.offset <= list[k].offset
    <3> SUFFICES ASSUME NEW k \in 1..Len(list), k >= at
                 PROVE  r.offset <= list[k].offset
      OBVIOUS
    <3>1. k >= i
      BY <1>1, <2>3
    <3> QED
      BY <2>5, <3>1
  <2> HIDE DEF at
  <2> DEFINE new == InsertAt(list, at, r)
  <2>10. /\ new \in Seq(Elems) /\ Len(new) = Len(list) + 1
         /\ \A k \in 1..(Len(list) + 1) :
              new[k] = IF k < at THEN list[k] ELSE IF k = at THEN r ELSE list[k - 1]
    BY <2>7, Inserted
  <2> HIDE DEF new
  <2>11. DOMAIN new = 1..(Len(list) + 1)
    BY <2>10, LenProperties
  <2>12. Sorted(new)
    <3> SUFFICES ASSUME NEW j \in 1..(Len(list) + 1), NEW k \in 1..(Len(list) + 1), j < k
                 PROVE  new[j].offset <= new[k].offset
      BY <2>11 DEF Sorted
    <3>1. CASE k < at
      <4>1. j < at /\ new[j] = list[j] /\ new[k] = list[k]
        BY <2>7, <2>10, <3>1
      <4>2. j \in 1..Len(list) /\ k \in 1..Len(list)
        BY <1>1, <2>7, <3>1
      <4> QED
        BY <1>2, <4>1, <4>2
    <3>2. CASE k = at
      <4>1. new[j] = list[j] /\ new[k] = r /\ j < at
        BY <2>7, <2>10, <3>2
      <4>2. j \in 1..Len(list)
        BY <1>1, <2>7, <3>2
      <4> QED
        BY <2>8, <4>1, <4>2
    <3>3. CASE k > at
      <4> DEFINE l == k - 1
      <4>1. new[k] = list[l] /\ l \in 1..Len(list) /\ l >= at
        BY <1>1, <2>7, <2>10, <3>3
      <4>2. CASE j < at
        <5>1. new[j] = list[j] /\ j \in 1..Len(list) /\ j <= l
          BY <1>1, <2>7, <2>10, <3>3, <4>2
        <5> QED
          BY <1>2, <4>1, <5>1
      <4>3. CASE j = at
        <5>1. new[j] = r
          BY <2>10, <4>3
        <5> QED
          BY <2>9, <4>1, <5>1
      <4>4. CASE j > at
        <5> DEFINE m == j - 1
        <5>1. new[j] = list[m] /\ m \in 1..Len(list) /\ m <= l
          BY <1>1, <2>7, <2>10, <4>4
        <5> QED
          BY <1>2, <4>1, <5>1
      <4> QED
        BY <1>1, <2>7, <4>2, <4>3, <4>4
    <3> QED
      BY <1>1, <2>7, <3>1, <3>2, <3>3
  <2>13. FirstRanks(new)
    <3> SUFFICES ASSUME NEW j \in 1..(Len(list) + 1), NEW k \in 1..(Len(list) + 1), j < k,
                        new[k].offset = new[j].offset, IsFirst(new, j)
                 PROVE  Rank(new[j].type) <= Rank(new[k].type)
      BY <2>11 DEF FirstRanks
    <3>a. \A x, y \in 1..Len(list) :
            x < y /\ list[y].offset = list[x].offset /\ IsFirst(list, x)
              => Rank(list[x].type) <= Rank(list[y].type)
      BY <1>1 DEF FirstRanks
    <3>b. at \in Int /\ i \in Int /\ at >= 1 /\ at <= Len(list) + 1
      BY <1>1, <2>3, <2>7
    <3>1. CASE j < at
      <4>1. /\ j \in 1..Len(list) /\ new[j] = list[j]
            /\ \A h \in 1..(j - 1) : new[h] = list[h]
        BY <1>1, <2>10, <3>b, <3>1
      <4>2. IsFirst(list, j)
        BY <4>1 DEF IsFirst
      <4>3. CASE k < at
        <5>1. k \in 1..Len(list) /\ new[k] = list[k]
          BY <1>1, <2>10, <3>b, <4>3
        <5> QED
          BY <3>a, <4>1, <4>2, <5>1
      <4>4. CASE k = at
        <5>1. new[k] = r
          BY <2>10, <3>b, <4>4
        <5>2. i <= j
          BY <2>f, <4>1, <5>1
        <5>3. j = i /\ at # i
          BY <2>e, <3>b, <3>1, <5>2
        <5> QED
          BY <2>e, <4>1, <5>1, <5>3
      <4>5. CASE k > at
        <5> DEFINE l == k - 1
        <5>1. l \in 1..Len(list) /\ new[k] = list[l] /\ j < l
          BY <1>1, <2>10, <3>b, <3>1, <4>5
        <5> QED
          BY <3>a, <4>1, <4>2, <5>1
      <4> QED
        BY <3>b, <4>3, <4>4, <4>5
    <3>2. CASE j = at
      <4> DEFINE l == k - 1
      <4>1. new[j] = r /\ new[k] = list[l] /\ l \in 1..Len(list) /\ l >= at
        BY <1>1, <2>10, <3>b, <3>2
      <4> HIDE DEF l
      <4>2. list[l].offset = r.offset
        BY <4>1
      <4>3. at = i
        <5> SUFFICES ASSUME at # i PROVE FALSE
          OBVIOUS
        <5>1. i \in 1..(j - 1) /\ new[i] = list[i]
          BY <1>1, <2>3, <2>e, <2>10, <3>b, <3>2
        <5>2. new[i].offset < new[j].offset
          BY <5>1 DEF IsFirst
        <5> QED
          BY <1>1, <2>e, <4>1, <5>1, <5>2
      <4>4. list[i].offset <= list[l].offset
        BY <1>2, <2>3, <4>1, <4>3
      <4>5. ~(list[i].offset > r.offset) /\ list[i].offset = r.offset
        BY <1>1, <2>3, <4>2, <4>4
      <4>6. Rank(r.type) <= Rank(list[i].type) /\ IsFirst(list, i)
        BY <2>e, <2>g, <4>3, <4>5
      <4>7. Rank(list[i].type) <= Rank(list[l].type)
        <5>1. CASE l = i
          BY <1>1, <2>3, <5>1
        <5>2. CASE l # i
          <6>1. i < l
            BY <3>b, <4>1, <4>3, <5>2
          <6> QED
            BY <2>3, <3>a, <4>1, <4>2, <4>5, <4>6, <6>1
        <5> QED
          BY <5>1, <5>2
      <4> QED
        BY <1>1, <2>3, <4>1, <4>6, <4>7
    <3>3. CASE j > at
      <4> DEFINE l == k - 1
                 m == j - 1
      <4>1. /\ m \in 1..Len(list) /\ l \in 1..Len(list) /\ m < l
            /\ new[j] = list[m] /\ new[k] = list[l]
        BY <1>1, <2>10, <3>b, <3>3
      <4>2. IsFirst(list, m)
        <5> SUFFICES ASSUME NEW h \in 1..(m - 1) PROVE list[h].offset < list[m].offset
          BY DEF IsFirst
        <5>1. CASE h < at
          <6>1. h \in 1..(j - 1) /\ new[h] = list[h]
            BY <1>1, <2>10, <3>b, <5>1
          <6> QED
            BY <4>1, <6>1 DEF IsFirst
        <5>2. CASE h >= at
          <6> DEFINE g == h + 1
          <6>1. g \in 1..(j - 1) /\ g \in 1..(Len(list) + 1) /\ g > at /\ g - 1 = h
            BY <1>1, <3>b, <5>2
          <6> HIDE DEF g
          <6>2. new[g] = list[h]
            <7>1. ~(g < at) /\ g # at
              BY <3>b, <6>1
            <7>2. new[g] = list[g - 1]
              BY <2>10, <6>1, <7>1
            <7> QED
              BY <6>1, <7>2
          <6> QED
            BY <4>1, <6>1, <6>2 DEF IsFirst
        <5> QED
          BY <3>b, <5>1, <5>2
      <4> HIDE DEF l, m
      <4> QED
        BY <3>a, <4>1, <4>2
    <3> QED
      BY <3>b, <3>1, <3>2, <3>3
  <2> QED
    BY <2>2, <2>10, <2>12, <2>13 DEF new
<1> QED
  BY <1>3, <1>4

LEMMA NotLast ==
  ASSUME NEW n \in Nat \ {0}
  PROVE  n \in 1..n /\ \A k \in 1..(n - 1) : k \in 1..n /\ k # n
  OBVIOUS

---------------------------------------------------------------------------------
(***************************************************************************)
(* The decoder.                                                            *)
(***************************************************************************)
\* Where a buffer may end.
LEMMA StopFacts ==
  ASSUME image \in Images
  PROVE  /\ Len(image) \in Nat /\ Len(image) \in Stops(image)
         /\ \A stop \in Stops(image) : stop \in Nat
         /\ \A len \in Nat : Clamped(len, image) \in 0..Len(image)
         /\ \A offset \in Offsets, len \in Lengths : offset + Clamped(len, image) \in Stops(image)
<1>1. Len(image) \in Nat /\ Offsets \subseteq Nat /\ Lengths \subseteq Nat
  BY DisassemblyAssumption, LenProperties DEF DisassemblyAssumption
<1>2. \A len \in Nat : Clamped(len, image) \in 0..Len(image)
  BY <1>1 DEF Clamped
<1>3. ASSUME NEW stop \in Stops(image) PROVE stop \in Nat
  <2>1. CASE stop = Len(image)
    BY <1>1, <2>1
  <2>2. ASSUME NEW offset \in Offsets, NEW len \in Lengths, stop = offset + Clamped(len, image)
        PROVE  stop \in Nat
    <3> DEFINE length == Clamped(len, image)
    <3>1. length \in Nat /\ offset \in Nat
      BY <1>1, <1>2
    <3>2. stop = offset + length
      BY <2>2
    <3> HIDE DEF length
    <3> QED
      BY <3>1, <3>2
  <2> QED
    BY <2>1, <2>2 DEF Stops
<1>4. /\ Len(image) \in Stops(image)
      /\ \A offset \in Offsets, len \in Lengths : offset + Clamped(len, image) \in Stops(image)
  BY DEF Stops
<1> QED
  BY <1>1, <1>2, <1>3, <1>4

\* What the end of x86_disasm promises of any decoder (x86_disasm.c:51-66): an
\* instruction ends inside the buffer, and what has no bytes is no jump.
LEMMA DecodeInside ==
  ASSUME image \in Images, tail \in Tails, NEW stop \in Stops(image), NEW offset \in Nat
  PROVE  LET insn == Decode(stop, offset)
         IN  /\ insn.size \in Nat
             /\ insn.size # 0 => offset + insn.size <= stop
             /\ insn.size = 0 => ~Follows(insn)
<1>1. NoInsn.size = 0 /\ ~Follows(NoInsn)
  BY DEF NoInsn, Follows, Invalid, Entry
<1>2. stop \in Nat
  BY StopFacts
<1>3. CASE offset > stop
  BY <1>1, <1>3 DEF Decode
<1>4. CASE ~(offset > stop)
  <2> DEFINE insn == x86_disasm(Mapped(image) \o tail, stop, offset)
             n == stop - offset
  <2>1. Decode(stop, offset) = insn
    <3>1. offset \in 0..stop
      BY <1>2, <1>4
    <3> QED
      BY <1>4, <3>1 DEF Decode, Decoded
  <2>3. insn = NoInsn \/ insn.size \in 1..n
    BY DEF x86_disasm, Inside
  <2> HIDE DEF insn
  <2>4. CASE insn = NoInsn
    BY <1>1, <2>1, <2>4
  <2>5. CASE insn.size \in 1..n
    BY <1>2, <2>1, <2>5
  <2> QED
    BY <2>3, <2>4, <2>5
<1> QED
  BY <1>3, <1>4

\* The driver goes on after it.
LEMMA AdvanceInside ==
  ASSUME image \in Images, tail \in Tails, NEW stop \in Stops(image), NEW offset \in Nat
  PROVE  /\ Advance(Decode(stop, offset)) \in Nat \ {0}
         /\ offset < stop => offset + Advance(Decode(stop, offset)) <= stop
<1>1. stop \in Nat
  BY StopFacts
<1> QED
  BY <1>1, DecodeInside DEF Advance
---------------------------------------------------------------------------------
(***************************************************************************)
(* The requests and the calls.                                             *)
(***************************************************************************)
\* The types of requests have a precedence.
LEMMA Ranks == \A type \in {"addr", "entry", "range"} : Rank(type) \in 1..3
<1> TAKE type \in {"addr", "entry", "range"}
<1>1. \E k \in 1..3 : Types[k] = type
  <2>1. Types[1] = "addr" /\ Types[2] = "range" /\ Types[3] = "entry"
    BY DEF Types
  <2>2. 1 \in 1..3 /\ 2 \in 1..3 /\ 3 \in 1..3
    OBVIOUS
  <2> QED
    BY <2>1, <2>2
<1> QED
  BY <1>1 DEF Rank

\* What a request asks for.
LEMMA RequestFacts ==
  ASSUME image \in Images, NEW r \in Requests
  PROVE  /\ Len(image) \in Nat
         /\ r.offset \in Nat /\ r.len \in Nat
         /\ r.type \in {"addr", "entry", "range"}
         /\ r.type = "range" => r.offset + Clamped(r.len, image) \in Stops(image)
         /\ Rank(r.type) \in 1..3
         /\ r # NoRequest
<1>1. Len(image) \in Nat /\ Offsets \subseteq Nat /\ Lengths \subseteq Nat
  BY DisassemblyAssumption, LenProperties DEF DisassemblyAssumption
<1>2. CASE r \in [type : {"addr", "entry"}, offset : Offsets, len : {0}]
  <2>1. r.type \in {"addr", "entry"} /\ r.offset \in Offsets /\ r.len = 0
    BY <1>2
  <2>2. r # NoRequest
    BY <2>1 DEF NoRequest
  <2>3. r.type \in {"addr", "entry", "range"} /\ r.type # "range"
    BY <2>1
  <2>4. Rank(r.type) \in 1..3
    BY <2>3, Ranks
  <2>5. r.offset \in Nat
    BY <1>1, <2>1, Zenon
  <2>6. r.len \in Nat
    BY <2>1
  <2> QED
    BY <1>1, <2>2, <2>3, <2>4, <2>5, <2>6
<1>3. CASE r \in [type : {"range"}, offset : Offsets, len : Lengths]
  <2>1. r.type = "range" /\ r.offset \in Offsets /\ r.len \in Lengths
    BY <1>3
  <2>2. r # NoRequest
    BY <2>1 DEF NoRequest
  <2>3. r.offset + Clamped(r.len, image) \in Stops(image)
    BY <2>1, StopFacts
  <2>4. r.offset \in Nat /\ r.len \in Nat
    BY <1>1, <2>1, Zenon
  <2> QED
    BY <1>1, <2>1, <2>2, <2>3, <2>4, Ranks
<1> QED
  BY <1>2, <1>3 DEF Requests

Frame == [start : Nat, bytes : 0..Len(image), cont : BOOLEAN]

\* Requests are read before they are served; only an entry request calls
\* x86_disasm_forward.
Served ==
  /\ image \in Images /\ tail \in Tails
  /\ phase \in {"options", "acting", "killed", "undefined"}
  /\ requests \in Seq(Requests)
  /\ current \in Requests \cup {NoRequest}
  /\ served \in Nat /\ served + Len(requests) <= MaxRequests
  /\ phase = "options" => current = NoRequest /\ served = 0
  /\ bytes \in 0..Len(image)
  /\ current.type = "range" => bytes <= RangeLen
  /\ current.type # "entry" => frames = << >>

\* Each call but the first was made for a jump the resolver had not seen, and
\* goes on for one instruction at least.
Called ==
  /\ frames \in Seq(Frame)
  /\ \A k \in DOMAIN frames : frames[k].bytes = 0 => frames[k].cont
  /\ seen \subseteq {0} \cup Base..(Base + Len(image)) /\ 0 \in seen
  /\ Len(frames) <= Cardinality(seen)

LoopInv == Served /\ Called /\ InOrder

\* How many jumps the resolver can have seen.
LEMMA SeenFinite ==
  ASSUME Called, image \in Images
  PROVE  /\ IsFiniteSet(seen) /\ Cardinality(seen) \in Nat /\ Cardinality(seen) >= 1
         /\ \A x : x \notin seen => Cardinality(seen \cup {x}) = Cardinality(seen) + 1
<1>1. Len(image) \in Nat /\ Base \in Nat
  BY DisassemblyAssumption, LenProperties DEF DisassemblyAssumption
<1>2. IsFiniteSet(Base..(Base + Len(image)))
  BY <1>1, FS_Interval
<1>3. IsFiniteSet({0} \cup Base..(Base + Len(image)))
  BY <1>2, FS_Singleton, FS_Union
<1>4. IsFiniteSet(seen)
  BY <1>3, FS_Subset DEF Called
<1>5. Cardinality(seen) \in Nat
  BY <1>4, FS_CardinalityType
<1>6. Cardinality(seen) # 0
  BY <1>4, FS_EmptySet DEF Called
<1>7. \A x : x \notin seen => Cardinality(seen \cup {x}) = Cardinality(seen) + 1
  BY <1>4, FS_AddElement
<1> QED
  BY <1>4, <1>5, <1>6, <1>7

LEMMA InitLoop == Init => LoopInv
<1> SUFFICES ASSUME Init PROVE LoopInv
  OBVIOUS
<1>1. Len(image) \in Nat /\ MaxRequests \in Nat
  BY DisassemblyAssumption, LenProperties DEF DisassemblyAssumption, Init
<1>2. Served
  <2>1. current.type = "none"
    BY DEF Init, NoRequest
  <2>2. requests \in Seq(Requests) /\ Len(requests) = 0
    BY EmptySeq DEF Init
  <2>3. /\ image \in Images /\ tail \in Tails /\ phase = "options" /\ current = NoRequest
        /\ served = 0 /\ bytes = 0 /\ frames = << >>
    BY DEF Init
  <2>4. served + Len(requests) <= MaxRequests /\ bytes \in 0..Len(image)
    BY <1>1, <2>2, <2>3
  <2> QED
    BY <2>1, <2>2, <2>3, <2>4 DEF Served
<1>3. Called
  <2>1. Cardinality({0}) = 1
    BY FS_Singleton
  <2> QED
    BY <2>1 DEF Init, Called
<1>4. InOrder
  BY DEF Init, InOrder
<1> QED
  BY <1>2, <1>3, <1>4 DEF LoopInv

\* Options add to a list in order.
LEMMA AddRequestLoop ==
  ASSUME LoopInv, NEW r \in Requests, AddRequest(r)
  PROVE  LoopInv'
<1>1. \A x \in Requests : x.offset \in Int /\ Rank(x.type) \in Int
  BY RequestFacts DEF LoopInv, Served
<1>2. /\ requests' \in Seq(Requests) /\ Len(requests') = Len(requests) + 1
      /\ Sorted(requests') /\ FirstRanks(requests')
  <2>1. requests \in Seq(Requests) /\ Sorted(requests) /\ FirstRanks(requests)
    BY DEF AddRequest, LoopInv, Served, InOrder, Sorted, FirstRanks, IsFirst
  <2> QED
    BY <1>1, <2>1, AddedInOrder DEF AddRequest
<1>3. Served'
  <2>1. Len(requests) \in Nat /\ MaxRequests \in Nat
    BY LenProperties, DisassemblyAssumption DEF DisassemblyAssumption, LoopInv, Served
  <2>2. served' + Len(requests') <= MaxRequests
    BY <1>2, <2>1 DEF AddRequest, LoopInv, Served
  <2>3. UNCHANGED << image, tail, phase, current, served, bytes, frames >>
    BY DEF AddRequest
  <2> QED
    BY <1>2, <2>2, <2>3 DEF LoopInv, Served, RangeLen, NoRequest, AddRequest
<1>4. Called'
  BY DEF AddRequest, LoopInv, Called, Frame
<1>5. InOrder'
  BY <1>2 DEF AddRequest, LoopInv, Served, InOrder, Sorted, FirstRanks, IsFirst
<1> QED
  BY <1>3, <1>4, <1>5 DEF LoopInv

\* The first request of the list has the least offset.
LEMMA StartRequestLoop ==
  ASSUME LoopInv, StartRequest
  PROVE  LoopInv'
<1>1. /\ requests \in Seq(Requests) /\ requests # << >>
      /\ image \in Images /\ image' = image
  BY DEF LoopInv, Served, StartRequest
<1>2. /\ Head(requests) \in Requests /\ Head(requests) = requests[1]
      /\ Tail(requests) \in Seq(Requests)
      /\ Len(requests) \in Nat /\ Len(requests) >= 1
      /\ Len(Tail(requests)) = Len(requests) - 1
      /\ \A i \in 1..Len(Tail(requests)) : Tail(requests)[i] = requests[i + 1]
      /\ DOMAIN requests = 1..Len(requests)
      /\ DOMAIN Tail(requests) = 1..(Len(requests) - 1)
  <2>1. Len(requests) \in Nat \ {0}
    BY <1>1, EmptySeq
  <2>2. /\ Head(requests) \in Requests
        /\ Tail(requests) \in Seq(Requests)
        /\ Len(Tail(requests)) = Len(requests) - 1
        /\ \A i \in 1..Len(Tail(requests)) : Tail(requests)[i] = requests[i + 1]
    BY <1>1, HeadTailProperties
  <2>3. DOMAIN requests = 1..Len(requests) /\ DOMAIN Tail(requests) = 1..Len(Tail(requests))
    BY <1>1, <2>2, LenProperties
  <2>4. Head(requests) = requests[1]
    BY <1>1, <2>1
  <2> QED
    BY <2>1, <2>2, <2>3, <2>4
<1>3. /\ current' = Head(requests) /\ requests' = Tail(requests)
      /\ served' = served + 1 /\ bytes' = 0 /\ phase = "acting"
      /\ UNCHANGED << image, tail, phase, seen >>
      /\ frames' = IF Head(requests).type = "entry" THEN << Call(Head(requests).offset) >>
                                                    ELSE << >>
  BY DEF StartRequest
<1>4. Len(image) \in Nat /\ Head(requests).offset \in Nat /\ Head(requests).len \in Nat
  BY <1>1, <1>2, RequestFacts
<1>5. Served'
  <2>1. served' \in Nat /\ served' + Len(requests') <= MaxRequests
    <3>1. MaxRequests \in Nat /\ served \in Nat /\ served + Len(requests) <= MaxRequests
      BY DisassemblyAssumption DEF DisassemblyAssumption, LoopInv, Served
    <3> QED
      BY <1>2, <1>3, <3>1
  <2>2. bytes' \in 0..Len(image) /\ (current'.type = "range" => bytes' <= RangeLen')
    <3>1. Clamped(Head(requests).len, image) \in 0..Len(image)
      BY <1>1, <1>4, StopFacts
    <3>2. RangeLen' = Clamped(current'.len, image')
      BY DEF RangeLen
    <3>3. RangeLen' = Clamped(Head(requests).len, image)
      BY <1>1, <1>3, <3>2
    <3>4. RangeLen' \in 0..Len(image)
      BY <3>1, <3>3
    <3>5. 0 \in 0..Len(image) /\ 0 <= RangeLen'
      BY <1>4, <3>4
    <3> QED
      BY <1>3, <3>5
  <2> QED
    BY <1>1, <1>2, <1>3, <2>1, <2>2 DEF Served, LoopInv
<1>6. Called'
  <2>1. Call(Head(requests).offset) \in Frame /\ Call(Head(requests).offset).cont
    BY <1>4 DEF Call, Frame
  <2>2. /\ frames' \in Seq(Frame) /\ Len(frames') <= 1
        /\ \A k \in DOMAIN frames' : frames'[k].cont
    BY <1>3, <2>1
  <2>3. Len(frames') <= Cardinality(seen)
    <3>1. Len(frames') \in Nat
      BY <2>2, LenProperties
    <3> QED
      BY <1>1, <2>2, <3>1, SeenFinite DEF LoopInv
  <2> QED
    BY <1>3, <2>2, <2>3 DEF Called, LoopInv, Frame
<1>7. InOrder'
  <2>1. \A i \in 1..Len(requests), j \in 1..Len(requests) :
          i < j => requests[i].offset <= requests[j].offset
    BY <1>2 DEF LoopInv, InOrder
  <2>2. ASSUME NEW i \in 1..(Len(requests) - 1), NEW j \in 1..(Len(requests) - 1), i < j
        PROVE  Tail(requests)[i].offset <= Tail(requests)[j].offset
    <3>1. i + 1 \in 1..Len(requests) /\ j + 1 \in 1..Len(requests) /\ i + 1 < j + 1
      BY <1>2, <2>2
    <3> QED
      BY <1>2, <2>1, <3>1
  <2>3. ASSUME NEW i \in 1..(Len(requests) - 1)
        PROVE  Head(requests).offset <= Tail(requests)[i].offset
    <3>1. i + 1 \in 1..Len(requests) /\ 1 \in 1..Len(requests) /\ 1 < i + 1
      BY <1>2
    <3> QED
      BY <1>2, <2>1, <3>1
  <2> QED
    BY <1>2, <1>3, <2>2, <2>3 DEF InOrder
<1> QED
  BY <1>5, <1>6, <1>7 DEF LoopInv

\* A range request goes on inside its range.
LEMMA DisasmRangeLoop ==
  ASSUME LoopInv, DisasmRange
  PROVE  /\ LoopInv'
         /\ RangeStop \in Stops(image) /\ RangeStop \in Nat
         /\ current.offset + bytes \in Nat /\ bytes < RangeLen
         /\ RangeLen \in 0..Len(image) /\ current.offset \in Nat /\ bytes \in Nat
         /\ RangeStop = current.offset + RangeLen /\ current # NoRequest
<1>1. /\ current \in Requests /\ image \in Images /\ tail \in Tails /\ bytes \in Nat
      /\ current.type = "range" /\ bytes < RangeLen
  BY DEF LoopInv, Served, DisasmRange, RangeGoesOn, NoRequest
<1>2. /\ Len(image) \in Nat /\ current.offset \in Nat /\ RangeLen \in 0..Len(image)
      /\ RangeStop \in Stops(image) /\ current # NoRequest
  BY <1>1, RequestFacts, StopFacts DEF RangeLen, RangeStop
<1>3. RangeStop = current.offset + RangeLen /\ RangeStop \in Nat /\ current.offset + bytes \in Nat
  BY <1>1, <1>2 DEF RangeStop
<1>4. /\ Advance(RangeInsn) \in Nat \ {0}
      /\ current.offset + bytes + Advance(RangeInsn) <= RangeStop
  <2>1. current.offset + bytes < RangeStop
    BY <1>1, <1>2, <1>3
  <2> QED
    BY <1>1, <1>2, <1>3, <2>1, AdvanceInside DEF RangeInsn
<1>5. bytes' \in 0..Len(image) /\ bytes' <= RangeLen
  BY <1>1, <1>2, <1>3, <1>4 DEF DisasmRange
<1>6. UNCHANGED << image, tail, phase, requests, current, served, frames, seen >>
  BY DEF DisasmRange
<1>7. Served'
  BY <1>5, <1>6 DEF LoopInv, Served, RangeLen
<1>8. Called' /\ InOrder'
  BY <1>6 DEF LoopInv, Called, Frame, InOrder
<1> QED
  BY <1>1, <1>2, <1>3, <1>7, <1>8 DEF LoopInv

\* The call of x86_disasm_forward that goes on, and where.
LEMMA ForwardFacts ==
  ASSUME LoopInv, frames # << >>
  PROVE  /\ Len(frames) \in Nat \ {0} /\ DOMAIN frames = 1..Len(frames)
         /\ \A k \in 1..Len(frames) : frames[k] \in Frame
         /\ Len(image) \in Nat /\ Len(image) \in Stops(image)
         /\ image \in Images /\ tail \in Tails
         /\ current \in Requests /\ current.type = "entry"
         /\ current # NoRequest /\ phase # "options"
<1>1. frames \in Seq(Frame)
  BY DEF LoopInv, Called
<1>2. Len(frames) \in Nat \ {0} /\ DOMAIN frames = 1..Len(frames)
  BY <1>1, EmptySeq, LenProperties
<1>3. \A k \in 1..Len(frames) : frames[k] \in Frame
  BY <1>1, ElementOfSeq
<1>4. image \in Images /\ Len(image) \in Nat /\ Len(image) \in Stops(image)
  BY StopFacts DEF LoopInv, Served
<1>5. current.type = "entry"
  BY DEF LoopInv, Served
<1>6. current # NoRequest
  BY <1>5 DEF NoRequest
<1> QED
  BY <1>2, <1>3, <1>4, <1>5, <1>6 DEF LoopInv, Served

\* The innermost call, the instruction it comes to, and where that jumps to if
\* the jump is followed.
Innermost == frames[Len(frames)]
Offset == Innermost.start + Innermost.bytes
InsnHere == Decode(Len(image), Offset)
Into == NextOffset(InsnHere, Offset)
Followed ==
  /\ Follows(InsnHere) /\ IsNew(Base + Offset)
  /\ Target(InsnHere, Offset) # -1 /\ InBuffer(Into)

LEMMA FrameGoesOn ==
  ASSUME NEW f \in Frame, NEW b, NEW c
  PROVE  [f EXCEPT !.bytes = b, !.cont = c] = [start |-> f.start, bytes |-> b, cont |-> c]
<1> DEFINE g == [f EXCEPT !.bytes = b]
<1>1. g = [start |-> f.start, bytes |-> b, cont |-> f.cont]
  BY DEF Frame
<1>2. g \in [start : {f.start}, bytes : {b}, cont : {f.cont}]
  BY <1>1
<1>3. g.start = f.start /\ g.bytes = b
  BY <1>1
<1> HIDE DEF g
<1>4. [g EXCEPT !.cont = c] = [start |-> g.start, bytes |-> g.bytes, cont |-> c]
  BY <1>2
<1>5. [f EXCEPT !.bytes = b, !.cont = c] = [g EXCEPT !.cont = c]
  BY DEF g
<1> QED
  BY <1>3, <1>4, <1>5

\* The step of the innermost call, and the call it may make.
LEMMA DisasmForwardStep ==
  ASSUME LoopInv, DisasmForward
  PROVE  /\ frames # << >> /\ Offset \in Nat
         /\ Callback(InsnHere, Offset)
         /\ seen' = IF Follows(InsnHere) THEN seen \cup {Base + Offset} ELSE seen
         /\ Follows(InsnHere) => Offset \in 0..Len(image)
         /\ frames' \in Seq(Frame)
         /\ Len(frames') = IF Followed THEN Len(frames) + 1 ELSE Len(frames)
         /\ \A k \in 1..(Len(frames) - 1) : frames'[k] = frames[k]
         /\ frames'[Len(frames)].start = Innermost.start
         /\ frames'[Len(frames)].bytes # 0
         /\ Followed => /\ frames'[Len(frames) + 1] = Call(Into)
                        /\ Into \in 0..(Len(image) - 1)
<1> DEFINE n == Len(frames)
           after == [frames EXCEPT ![n].bytes = @ + Advance(InsnHere),
                                   ![n].cont = ~DoesntReturn(InsnHere)]
<1>1. /\ frames # << >> /\ Innermost.cont /\ Innermost.bytes < Len(image)
      /\ Callback(InsnHere, Offset)
      /\ seen' = IF Follows(InsnHere) THEN seen \cup {Base + Offset} ELSE seen
      /\ frames' = IF Followed THEN Append(after, Call(Into)) ELSE after
  BY DEF DisasmForward, ForwardGoesOn, ForwardInsn, ForwardOffset, Last, rva_list_add,
         Innermost, Offset, InsnHere, Into, Followed
<1>2. /\ n \in Nat \ {0} /\ n \in 1..n /\ DOMAIN frames = 1..n /\ Innermost \in Frame
      /\ Len(image) \in Nat /\ Len(image) \in Stops(image)
      /\ image \in Images /\ tail \in Tails /\ frames \in Seq(Frame)
  BY <1>1, ForwardFacts DEF LoopInv, Called, Innermost
<1>3. /\ Innermost.start \in Nat /\ Innermost.bytes \in Nat
      /\ Innermost = [start |-> Innermost.start, bytes |-> Innermost.bytes,
                      cont |-> Innermost.cont]
  BY <1>2 DEF Frame
<1>4. Offset \in Nat
  BY <1>3 DEF Offset
<1>5. /\ InsnHere.size \in Nat /\ (InsnHere.size # 0 => Offset + InsnHere.size <= Len(image))
      /\ (InsnHere.size = 0 => ~Follows(InsnHere))
  BY <1>2, <1>4, DecodeInside DEF InsnHere
<1> DEFINE b == Innermost.bytes + Advance(InsnHere)
           g == [start |-> Innermost.start, bytes |-> b, cont |-> ~DoesntReturn(InsnHere)]
<1>6. b \in 1..Len(image)
  <2>1. CASE InsnHere.size = 0
    BY <1>1, <1>2, <1>3, <2>1 DEF Advance
  <2>2. CASE InsnHere.size # 0
    <3>1. Innermost.start + Innermost.bytes + InsnHere.size <= Len(image)
      BY <1>5, <2>2 DEF Offset
    <3> QED
      BY <1>2, <1>3, <1>5, <2>2, <3>1 DEF Advance
  <2> QED
    BY <2>1, <2>2
<1>7. Follows(InsnHere) => Offset \in 0..Len(image)
  BY <1>2, <1>4, <1>5
<1> HIDE DEF b
<1>8. g \in Frame /\ g.start = Innermost.start /\ g.bytes # 0
  <2>1. (~DoesntReturn(InsnHere)) \in BOOLEAN
    BY DEF DoesntReturn
  <2> QED
    BY <1>2, <1>3, <1>6, <2>1 DEF Frame
<1>9. after = [frames EXCEPT ![n] = g]
  <2> DEFINE h == [Innermost EXCEPT !.bytes = @ + Advance(InsnHere),
                                    !.cont = ~DoesntReturn(InsnHere)]
  <2>1. after = [frames EXCEPT ![n] = h]
    BY <1>2 DEF Innermost
  <2>2. h = g
    <3>1. \A u, v : [Innermost EXCEPT !.bytes = u, !.cont = v]
                       = [start |-> Innermost.start, bytes |-> u, cont |-> v]
      BY <1>2, FrameGoesOn
    <3>2. h = [start |-> Innermost.start, bytes |-> Innermost.bytes + Advance(InsnHere),
               cont |-> ~DoesntReturn(InsnHere)]
      BY <3>1
    <3> QED
      BY <3>2, Zenon DEF b, g
  <2> QED
    BY <2>1, <2>2
<1> HIDE DEF g, after
<1>10. /\ after \in Seq(Frame) /\ Len(after) = n
       /\ \A k \in 1..n : after[k] = IF k = n THEN g ELSE frames[k]
  BY <1>2, <1>8, <1>9, ExceptSeq
<1>11. CASE Followed
  <2>1. Into \in 0..(Len(image) - 1)
    BY <1>11 DEF InBuffer, Followed
  <2>2. Call(Into) \in Frame
    BY <1>2, <2>1 DEF Call, Frame
  <2>3. /\ frames' \in Seq(Frame) /\ Len(frames') = n + 1
        /\ \A k \in 1..n : frames'[k] = after[k]
        /\ frames'[n + 1] = Call(Into)
    BY <1>1, <1>10, <1>11, <2>2, AppendProperties
  <2>4. \A k \in 1..n : frames'[k] = IF k = n THEN g ELSE frames[k]
    BY <1>10, <2>3
  <2>5. frames'[n] = g /\ \A k \in 1..(n - 1) : frames'[k] = frames[k]
    BY <1>2, <2>4, NotLast
  <2> QED
    BY <1>1, <1>4, <1>7, <1>8, <1>11, <2>1, <2>3, <2>5
<1>12. CASE ~Followed
  <2>1. frames' = after
    BY <1>1, <1>12
  <2>2. \A k \in 1..n : frames'[k] = IF k = n THEN g ELSE frames[k]
    BY <1>10, <2>1
  <2>3. frames'[n] = g /\ \A k \in 1..(n - 1) : frames'[k] = frames[k]
    BY <1>2, <2>2, NotLast
  <2> QED
    BY <1>1, <1>4, <1>7, <1>8, <1>10, <1>12, <2>1, <2>3
<1> QED
  BY <1>11, <1>12
LEMMA DisasmForwardLoop ==
  ASSUME LoopInv, DisasmForward
  PROVE  LoopInv'
<1>1. UNCHANGED << image, tail, phase, requests, current, served, bytes >>
  BY DEF DisasmForward
<1>2. /\ frames # << >> /\ frames' \in Seq(Frame)
      /\ Len(frames') = IF Followed THEN Len(frames) + 1 ELSE Len(frames)
      /\ \A k \in 1..(Len(frames) - 1) : frames'[k] = frames[k]
      /\ frames'[Len(frames)].bytes # 0
      /\ Followed => frames'[Len(frames) + 1] = Call(Into)
      /\ seen' = IF Follows(InsnHere) THEN seen \cup {Base + Offset} ELSE seen
      /\ Follows(InsnHere) => Offset \in 0..Len(image)
  BY DisasmForwardStep
<1>3. /\ Len(frames) \in Nat \ {0} /\ DOMAIN frames = 1..Len(frames)
      /\ current.type = "entry" /\ Len(image) \in Nat /\ image \in Images
  BY <1>2, ForwardFacts
<1>4. Served'
  BY <1>1, <1>3 DEF LoopInv, Served
<1>5. Called'
  <2>1. DOMAIN frames' = 1..Len(frames')
    BY <1>2, LenProperties
  <2>2. ASSUME NEW k \in DOMAIN frames', frames'[k].bytes = 0
        PROVE  frames'[k].cont
    <3>1. CASE k \in 1..(Len(frames) - 1)
      BY <1>2, <1>3, <2>2, <3>1 DEF LoopInv, Called
    <3>2. CASE k = Len(frames)
      BY <1>2, <2>2, <3>2
    <3>3. CASE Followed /\ k = Len(frames) + 1
      BY <1>2, <3>3 DEF Call
    <3> QED
      BY <1>2, <1>3, <2>1, <3>1, <3>2, <3>3
  <2>3. seen' \subseteq {0} \cup Base..(Base + Len(image)) /\ 0 \in seen'
    <3>1. Follows(InsnHere) => Base + Offset \in Base..(Base + Len(image))
      BY <1>2, <1>3, DisassemblyAssumption DEF DisassemblyAssumption
    <3> QED
      BY <1>2, <3>1 DEF LoopInv, Called
  <2>4. Len(frames') <= Cardinality(seen')
    <3>1. /\ Cardinality(seen) \in Nat /\ Len(frames) <= Cardinality(seen)
          /\ \A x : x \notin seen => Cardinality(seen \cup {x}) = Cardinality(seen) + 1
      BY <1>3, SeenFinite DEF LoopInv, Called
    <3>2. CASE Followed
      <4>1. Base + Offset \notin seen /\ seen' = seen \cup {Base + Offset}
        BY <1>2, <3>2 DEF Followed, IsNew
      <4> QED
        BY <1>2, <1>3, <3>1, <3>2, <4>1
    <3>3. CASE ~Followed
      <4>1. seen' = seen \/ \E x : x \notin seen /\ seen' = seen \cup {x}
        BY <1>2
      <4>2. Cardinality(seen') >= Cardinality(seen)
        BY <3>1, <4>1
      <4>3. Cardinality(seen') \in Nat
        BY <3>1, <4>1
      <4> QED
        BY <1>2, <1>3, <3>1, <3>3, <4>2, <4>3
    <3> QED
      BY <3>2, <3>3
  <2> QED
    BY <1>1, <1>2, <2>2, <2>3, <2>4 DEF Called, Frame
<1>6. InOrder'
  BY <1>1 DEF LoopInv, InOrder
<1> QED
  BY <1>4, <1>5, <1>6 DEF LoopInv

\* What is left when the innermost call returns.
LEMMA Returned ==
  ASSUME LoopInv, frames # << >>
  PROVE  /\ Front(frames) \in Seq(Frame) /\ Len(Front(frames)) = Len(frames) - 1
         /\ DOMAIN Front(frames) = 1..(Len(frames) - 1)
         /\ \A k \in 1..(Len(frames) - 1) : Front(frames)[k] = frames[k]
         /\ Len(frames) = 1 => Front(frames) = << >>
<1> DEFINE n == Len(frames)
<1>1. n \in Nat \ {0} /\ \A k \in 1..n : frames[k] \in Frame
  BY ForwardFacts
<1> HIDE DEF n
<1> DEFINE front == SubSeq(frames, 1, n - 1)
<1>2. /\ front \in Seq(Frame)
      /\ Len(front) = IF 1 <= n - 1 THEN n - 1 - 1 + 1 ELSE 0
      /\ \A k \in 1..(n - 1 - 1 + 1) : front[k] = frames[1 + k - 1]
  <2>1. \A k \in 1..(n - 1) : frames[k] \in Frame
    BY <1>1
  <2> QED
    BY <1>1, <2>1, SubSeqProperties
<1>3. n = 1 => front = << >>
  BY <1>1, SubSeqEmpty
<1> HIDE DEF front
<1>4. Len(front) = n - 1
  BY <1>1, <1>2
<1>5. \A k \in 1..(n - 1) : front[k] = frames[k]
  BY <1>1, <1>2
<1>6. DOMAIN front = 1..(n - 1)
  BY <1>2, <1>4, LenProperties
<1>7. Front(frames) = front
  BY DEF Front, front, n
<1> QED
  BY <1>2, <1>3, <1>4, <1>5, <1>6, <1>7 DEF n

LEMMA ForwardReturnsLoop ==
  ASSUME LoopInv, ForwardReturns
  PROVE  LoopInv'
<1>1. /\ frames # << >> /\ frames' = Front(frames)
      /\ current' = IF Len(frames) = 1 THEN NoRequest ELSE current
      /\ UNCHANGED << image, tail, phase, requests, served, bytes, seen, printed >>
  BY DEF ForwardReturns
<1>2. /\ Len(frames) \in Nat \ {0} /\ DOMAIN frames = 1..Len(frames)
      /\ current.type = "entry" /\ phase # "options" /\ image \in Images
  BY <1>1, ForwardFacts
<1>3. /\ frames' \in Seq(Frame) /\ Len(frames') = Len(frames) - 1
      /\ DOMAIN frames' = 1..(Len(frames) - 1)
      /\ \A k \in 1..(Len(frames) - 1) : frames'[k] = frames[k]
      /\ Len(frames) = 1 => frames' = << >>
  BY <1>1, Returned
<1>4. Served'
  <2>1. current'.type = "none" \/ current'.type = "entry"
    BY <1>1, <1>2 DEF NoRequest
  <2>2. current'.type # "entry" => frames' = << >>
    BY <1>1, <1>2, <1>3
  <2>3. current' \in Requests \cup {NoRequest}
    BY <1>1 DEF LoopInv, Served
  <2> QED
    BY <1>1, <1>2, <2>1, <2>2, <2>3 DEF LoopInv, Served
<1>5. Called'
  <2>1. Len(frames') <= Cardinality(seen)
    <3>1. Cardinality(seen) \in Nat /\ Len(frames) <= Cardinality(seen)
      BY <1>2, SeenFinite DEF LoopInv, Called
    <3> QED
      BY <1>2, <1>3, <3>1
  <2>2. \A k \in DOMAIN frames' : frames'[k].bytes = 0 => frames'[k].cont
    BY <1>2, <1>3 DEF LoopInv, Called
  <2> QED
    BY <1>1, <1>3, <2>1, <2>2 DEF LoopInv, Called, Frame
<1>6. InOrder'
  BY <1>1 DEF LoopInv, InOrder
<1> QED
  BY <1>4, <1>5, <1>6 DEF LoopInv

LEMMA NextLoop ==
  ASSUME LoopInv, [Next]_vars
  PROVE  LoopInv'
<1>1. CASE \E r \in Requests : AddRequest(r)
  BY <1>1, AddRequestLoop
<1>2. CASE Act \/ RangeKilled \/ DisasmOverflows
  <2>1. /\ UNCHANGED << image, tail, requests, current, served, bytes, frames, seen >>
        /\ phase' \in {"acting", "killed", "undefined"}
    BY <1>2 DEF Act, RangeKilled, DisasmOverflows
  <2>2. Served'
    BY <2>1 DEF LoopInv, Served, RangeLen
  <2> QED
    BY <2>1, <2>2 DEF LoopInv, Called, InOrder, Frame
<1>3. CASE StartRequest
  BY <1>3, StartRequestLoop
<1>4. CASE DisasmAddress \/ RangeEnds
  <2>1. /\ current' = NoRequest /\ NoRequest.type = "none" /\ frames = << >>
        /\ UNCHANGED << image, tail, phase, requests, served, bytes, frames, seen >>
    BY <1>4 DEF DisasmAddress, RangeEnds, EndRequest, NoRequest, LoopInv, Served
  <2>2. Served'
    BY <2>1 DEF LoopInv, Served
  <2> QED
    BY <2>1, <2>2 DEF LoopInv, Called, InOrder, Frame
<1>5. CASE DisasmRange
  BY <1>5, DisasmRangeLoop
<1>6. CASE DisasmForward
  BY <1>6, DisasmForwardLoop
<1>7. CASE ForwardReturns
  BY <1>7, ForwardReturnsLoop
<1>8. CASE UNCHANGED vars
  BY <1>8 DEF vars, LoopInv, Served, Called, InOrder, Frame, RangeLen
<1> QED
  BY <1>1, <1>2, <1>3, <1>4, <1>5, <1>6, <1>7, <1>8 DEF Next

LEMMA LoopInvariance == Spec => []LoopInv
  BY InitLoop, NextLoop, PTL DEF Spec

\* The calls of x86_disasm_forward never go deeper than the jumps that the
\* resolver has seen, and no request goes through more bytes than its image has.
THEOREM DisassemblyTypes == Spec => []TypeOK
<1>1. LoopInv => TypeOK
  <2> SUFFICES ASSUME LoopInv PROVE TypeOK
    OBVIOUS
  <2>1. /\ Len(requests) \in Nat /\ MaxRequests \in Nat
        /\ served \in Nat /\ served + Len(requests) <= MaxRequests
    BY LenProperties, DisassemblyAssumption DEF LoopInv, Served, DisassemblyAssumption
  <2>2. Len(requests) <= MaxRequests /\ served \in 0..MaxRequests
    BY <2>1
  <2>3. \A k \in DOMAIN frames : frames[k].bytes \in 0..Len(image)
    <3> TAKE k \in DOMAIN frames
    <3>1. frames \in Seq(Frame)
      BY DEF LoopInv, Called
    <3>2. frames[k] \in Frame
      BY <3>1, LenProperties, ElementOfSeq
    <3> QED
      BY <3>2 DEF Frame
  <2>4. Len(frames) <= 1 + Cardinality(seen)
    BY LenProperties, SeenFinite DEF LoopInv, Called, Served
  <2> QED
    BY <2>2, <2>3, <2>4 DEF LoopInv, Served, Called, TypeOK
<1> QED
  BY <1>1, LoopInvariance, PTL

\* Requests are served by increasing offset, in whatever order they are given, and
\* the first for an offset is of the type that comes first (x86dis.c:208-225).
THEOREM RequestsInOrder == Spec => []InOrder
<1>1. LoopInv => InOrder
  BY DEF LoopInv
<1> QED
  BY <1>1, LoopInvariance, PTL
---------------------------------------------------------------------------------
(***************************************************************************)
(* What is printed.                                                        *)
(***************************************************************************)
Insns == {Decode(stop, offset) : stop \in Stops(image), offset \in Nat}
Result == [offset : Nat, insn : Insns, request : Nat,
           type : {"addr", "range", "entry", "none"}]

\* Results are of requests that have been served, and end inside the image but
\* for those of ranges.
Printed ==
  /\ printed \in Seq(Result)
  /\ \A k \in DOMAIN printed :
       /\ printed[k].request <= served
       /\ printed[k].type # "range" => Ends(printed[k]) <= Len(image)

\* The callback adds what has bytes.
LEMMA CallbackAdds ==
  ASSUME LoopInv, Printed, image \in Images, served \in Nat,
         NEW stop \in Stops(image), NEW o \in Nat, Callback(Decode(stop, o), o)
  PROVE  /\ Len(printed) \in Nat /\ DOMAIN printed = 1..Len(printed)
         /\ printed' \in Seq(Result)
         /\ DOMAIN printed' = 1..Len(printed')
         /\ \A k \in 1..Len(printed) : printed'[k] = printed[k]
         /\ Decode(stop, o).size = 0 => printed' = printed
         /\ Decode(stop, o).size # 0 =>
              /\ Len(printed') = Len(printed) + 1
              /\ printed'[Len(printed) + 1] =
                   [offset |-> o, insn |-> Decode(stop, o), request |-> served,
                    type |-> current.type]
              /\ o + Decode(stop, o).size <= stop
<1> DEFINE r == [offset |-> o, insn |-> Decode(stop, o), request |-> served,
                 type |-> current.type]
<1>1. Decode(stop, o) \in Insns
  BY DEF Insns
<1>2. current.type \in {"addr", "range", "entry", "none"}
  <2>1. current \in Requests \/ current = NoRequest
    BY DEF LoopInv, Served
  <2> QED
    BY <2>1, RequestFacts DEF NoRequest
<1>3. r \in Result
  BY <1>1, <1>2 DEF Result
<1>4. /\ printed \in Seq(Result) /\ Len(printed) \in Nat
      /\ DOMAIN printed = 1..Len(printed)
  BY LenProperties DEF Printed
<1>5. CASE Decode(stop, o).size = 0
  BY <1>4, <1>5 DEF Callback
<1>6. CASE Decode(stop, o).size # 0
  <2>1. printed' = Append(printed, r)
    BY <1>6 DEF Callback
  <2> HIDE DEF r
  <2>2. /\ printed' \in Seq(Result) /\ Len(printed') = Len(printed) + 1
        /\ \A k \in 1..Len(printed) : printed'[k] = printed[k]
        /\ printed'[Len(printed) + 1] = r
    BY <1>3, <1>4, <2>1, AppendProperties
  <2>3. DOMAIN printed' = 1..Len(printed')
    BY <2>2, LenProperties
  <2>4. o + Decode(stop, o).size <= stop
    BY <1>6, DecodeInside DEF LoopInv, Served
  <2> QED
    BY <1>4, <1>6, <2>2, <2>3, <2>4 DEF r
<1> QED
  BY <1>5, <1>6

\* Each action prints what it has decoded there.
LEMMA Prints ==
  ASSUME LoopInv, Next
  PROVE  \/ UNCHANGED printed
         \/ /\ served' = served /\ image' = image /\ tail' = tail
            /\ \E stop \in Stops(image), o \in Nat :
                 /\ Callback(Decode(stop, o), o)
                 /\ current.type # "range" => stop = Len(image)
<1>1. CASE DisasmAddress
  <2>1. current \in Requests /\ image \in Images
    BY <1>1 DEF DisasmAddress, LoopInv, Served, NoRequest
  <2>2. Len(image) \in Stops(image) /\ current.offset \in Nat
    BY <2>1, RequestFacts, StopFacts
  <2> QED
    BY <1>1, <2>2 DEF DisasmAddress, AddressInsn
<1>2. CASE DisasmRange
  <2>1. current.type = "range"
    BY <1>2 DEF DisasmRange, RangeGoesOn
  <2> QED
    BY <1>2, <2>1, DisasmRangeLoop DEF DisasmRange, RangeInsn
<1>3. CASE DisasmForward
  <2>1. Len(image) \in Stops(image)
    BY <1>3, DisasmForwardStep, ForwardFacts
  <2> QED
    BY <1>3, <2>1, DisasmForwardStep DEF DisasmForward, InsnHere
<1>4. CASE \/ \E r \in Requests : AddRequest(r)
           \/ Act \/ StartRequest \/ RangeKilled \/ RangeEnds \/ ForwardReturns
           \/ DisasmOverflows
  BY <1>4 DEF AddRequest, Act, StartRequest, RangeKilled, RangeEnds, ForwardReturns,
              DisasmOverflows
<1> QED
  BY <1>1, <1>2, <1>3, <1>4 DEF Next

LEMMA NextPrinted ==
  ASSUME LoopInv, Printed, [Next]_vars
  PROVE  Printed'
<1>1. /\ image' = image /\ tail' = tail /\ served \in Nat /\ served' \in Nat
      /\ served' >= served /\ image \in Images
  BY DEF LoopInv, Served, Next, vars, AddRequest, Act, StartRequest, DisasmAddress,
         DisasmRange, RangeKilled, RangeEnds, DisasmForward, ForwardReturns,
         DisasmOverflows
<1>2. Result' = Result
  BY <1>1 DEF Result, Insns, Decode
<1>3. CASE UNCHANGED printed
  <2>1. \A k \in DOMAIN printed : printed[k] \in Result
    BY LenProperties, ElementOfSeq DEF Printed
  <2>2. \A k \in DOMAIN printed : printed[k].request <= served'
    BY <1>1, <2>1 DEF Printed, Result
  <2> QED
    BY <1>1, <1>2, <1>3, <2>2 DEF Printed, Ends
<1>4. ASSUME NEW stop \in Stops(image), NEW o \in Nat, Callback(Decode(stop, o), o),
             current.type # "range" => stop = Len(image), served' = served
      PROVE  Printed'
  <2>1. /\ Len(printed) \in Nat /\ DOMAIN printed = 1..Len(printed)
        /\ printed' \in Seq(Result)
        /\ DOMAIN printed' = 1..Len(printed')
        /\ \A k \in 1..Len(printed) : printed'[k] = printed[k]
    BY <1>1, <1>4, CallbackAdds
  <2>2. CASE Decode(stop, o).size = 0
    <3>1. printed' = printed
      BY <1>1, <1>4, <2>2, CallbackAdds
    <3> QED
      BY <1>3, <3>1
  <2>3. CASE Decode(stop, o).size # 0
    <3>1. /\ Len(printed') = Len(printed) + 1
          /\ printed'[Len(printed) + 1].request = served
          /\ printed'[Len(printed) + 1].type # "range" =>
               Ends(printed'[Len(printed) + 1]) <= Len(image)
      <4> DEFINE r == [offset |-> o, insn |-> Decode(stop, o), request |-> served,
                       type |-> current.type]
      <4>1. /\ Len(printed') = Len(printed) + 1 /\ printed'[Len(printed) + 1] = r
            /\ o + Decode(stop, o).size <= stop
        BY <1>1, <1>4, <2>3, CallbackAdds
      <4>2. /\ r.request = served /\ Ends(r) = o + Decode(stop, o).size
            /\ r.type = current.type
        BY DEF Ends
      <4> HIDE DEF r
      <4> QED
        BY <1>4, <4>1, <4>2
    <3>2. \A k \in 1..(Len(printed) + 1) :
            /\ printed'[k].request <= served
            /\ printed'[k].type # "range" => Ends(printed'[k]) <= Len(image)
      <4> TAKE k \in 1..(Len(printed) + 1)
      <4>1. CASE k \in 1..Len(printed)
        BY <2>1, <4>1 DEF Printed
      <4>2. CASE k = Len(printed) + 1
        BY <1>1, <3>1, <4>2
      <4> QED
        BY <2>1, <4>1, <4>2
    <3> QED
      BY <1>1, <1>2, <1>4, <2>1, <3>1, <3>2 DEF Printed, Ends
  <2> QED
    BY <2>2, <2>3
<1> QED
  BY <1>3, <1>4, Prints DEF vars

LEMMA PrintedInvariance == Spec => []Printed
<1>1. Init => Printed
  BY EmptySeq DEF Init, Printed
<1> QED
  BY <1>1, NextPrinted, LoopInvariance, PTL DEF Spec

\* No instruction is printed for an address or an entry that ends after the
\* image (x86_disasm.c:61).  For a range this is false: see InsideImage.
THEOREM StaysInsideImage == Spec => []StaysInside
<1>1. Printed => StaysInside
  BY DEF Printed, StaysInside
<1> QED
  BY <1>1, PrintedInvariance, PTL
LEMMA ResultFacts ==
  ASSUME Printed, image \in Images, tail \in Tails, NEW k \in DOMAIN printed
  PROVE  /\ printed[k].offset \in Nat /\ printed[k].insn.size \in Nat
         /\ Ends(printed[k]) \in Nat /\ printed[k].request \in Nat
         /\ printed[k].insn \in Insns
<1>1. printed[k] \in Result
  BY LenProperties, ElementOfSeq DEF Printed
<1>2. printed[k].offset \in Nat /\ printed[k].insn \in Insns /\ printed[k].request \in Nat
  BY <1>1 DEF Result
<1>3. printed[k].insn.size \in Nat
  <2>1. PICK stop \in Stops(image) : \E o \in Nat : printed[k].insn = Decode(stop, o)
    BY <1>2 DEF Insns
  <2> QED
    BY <2>1, DecodeInside
<1> QED
  BY <1>2, <1>3 DEF Ends

\* A range goes on where it has come to.
LEMMA RangeStepTiles ==
  ASSUME LoopInv, Printed, RangeTiles, DisasmRange
  PROVE  RangeTiles'
<1> DEFINE from == current.offset
           stop == RangeStop
           o == current.offset + bytes
           n == Len(printed)
           r == [offset |-> o, insn |-> RangeInsn, request |-> served,
                 type |-> current.type]
<1>1. /\ stop \in Stops(image) /\ stop \in Nat /\ stop = from + RangeLen
      /\ o \in Nat /\ bytes < RangeLen
      /\ RangeLen \in Nat /\ from \in Nat /\ bytes \in Nat
      /\ current.type = "range" /\ image \in Images /\ tail \in Tails /\ served \in Nat
  BY DisasmRangeLoop DEF LoopInv, Served, DisasmRange, RangeGoesOn
<1>2. /\ UNCHANGED << image, tail, current, served, RangeLen, RangeStop >>
      /\ bytes' = bytes + Advance(RangeInsn)
      /\ Callback(Decode(stop, o), o) /\ RangeInsn = Decode(stop, o)
  BY DEF DisasmRange, RangeInsn, RangeStop, RangeLen
<1>3. /\ Advance(RangeInsn) \in Nat \ {0} /\ RangeInsn.size \in Nat
      /\ RangeInsn.size # 0 => Advance(RangeInsn) = RangeInsn.size
      /\ RangeInsn.size = 0 => Advance(RangeInsn) = 1
      /\ bytes' <= RangeLen /\ bytes' \in Nat
  <2>1. o < stop
    BY <1>1
  <2>2. o + Advance(RangeInsn) <= stop /\ Advance(RangeInsn) \in Nat \ {0}
    BY <1>1, <1>2, <2>1, AdvanceInside
  <2>3. RangeInsn.size \in Nat
    BY <1>1, <1>2, DecodeInside
  <2> QED
    BY <1>1, <1>2, <2>2, <2>3, SMTT(30) DEF Advance
<1>4. \A k \in Of(served) : /\ k \in 1..n
                            /\ printed[k].offset \in Nat /\ Ends(printed[k]) \in Nat
                            /\ printed[k].offset >= from /\ Ends(printed[k]) <= o
  BY <1>1, ResultFacts, LenProperties DEF RangeTiles, Of, Printed
<1>5. /\ n \in Nat /\ DOMAIN printed = 1..n
      /\ DOMAIN printed' = 1..Len(printed')
      /\ \A k \in 1..n : printed'[k] = printed[k]
      /\ RangeInsn.size = 0 => printed' = printed
      /\ RangeInsn.size # 0 => Len(printed') = n + 1 /\ printed'[n + 1] = r
  BY <1>1, <1>2, CallbackAdds
<1>6. o + Advance(RangeInsn) = from + bytes'
  BY <1>1, <1>2, <1>3
<1>7. \A b : Decode(stop, b)' = Decode(stop, b)
  BY <1>2 DEF Decode
<1>8. \A b \in from..(o - 1) :
        \/ \E k \in Of(served) : b \in printed[k].offset..(Ends(printed[k]) - 1)
        \/ Decode(stop, b).size = 0
  BY <1>1 DEF RangeTiles
<1>9. \A j, k \in Of(served) : j < k => Ends(printed[j]) <= printed[k].offset
  BY <1>1 DEF RangeTiles
<1>10. CASE RangeInsn.size = 0
  <2>1. printed' = printed /\ bytes' = bytes + 1 /\ Of(served)' = Of(served)
    BY <1>2, <1>3, <1>5, <1>10 DEF Of
  <2>2. \A b \in from..(from + bytes' - 1) : b \in from..(o - 1) \/ b = o
    BY <1>1, <2>1
  <2>3. \A k \in Of(served) : printed[k].offset >= from /\ Ends(printed[k]) <= from + bytes'
    BY <1>1, <1>4, <2>1
  <2>4. \A b \in from..(from + bytes' - 1) :
          \/ \E k \in Of(served) : b \in printed[k].offset..(Ends(printed[k]) - 1)
          \/ Decode(stop, b).size = 0
    BY <1>2, <1>8, <1>10, <2>2
  <2> QED
    BY <1>2, <1>3, <1>7, <1>9, <2>1, <2>3, <2>4 DEF RangeTiles, Ends
<1>11. CASE RangeInsn.size # 0
  <2>1. r.offset = o /\ Ends(r) = from + bytes' /\ r.request = served
    BY <1>3, <1>6, <1>11 DEF Ends
  <2>2. Len(printed') = n + 1 /\ printed'[n + 1] = r
    BY <1>5, <1>11
  <2> HIDE DEF r
  <2>3. Of(served)' = Of(served) \cup {n + 1}
    <3>1. DOMAIN printed' = (1..n) \cup {n + 1}
      BY <1>5, <2>2
    <3>2. Of(served)' = {k \in DOMAIN printed' : printed'[k].request = served}
      BY <1>2 DEF Of
    <3>3. Of(served) = {k \in 1..n : printed'[k].request = served}
      BY <1>5 DEF Of
    <3> QED
      BY <2>1, <2>2, <3>1, <3>2, <3>3
  <2>4. \A k \in Of(served) : printed'[k] = printed[k]
    BY <1>4, <1>5
  <2>5. \A k \in Of(served)' : /\ printed'[k].offset >= from
                               /\ Ends(printed'[k]) <= from + bytes'
    <3> TAKE k \in Of(served)'
    <3>1. CASE k \in Of(served)
      <4>1. printed[k].offset >= from /\ Ends(printed[k]) <= o /\ Ends(printed[k]) \in Nat
        BY <1>4, <3>1
      <4>2. Ends(printed[k]) <= from + bytes'
        BY <1>1, <1>2, <1>3, <4>1
      <4> QED
        BY <2>4, <3>1, <4>1, <4>2
    <3>2. CASE k = n + 1
      BY <1>1, <1>3, <2>1, <2>2, <3>2
    <3> QED
      BY <2>3, <3>1, <3>2
  <2>6. ASSUME NEW j \in Of(served) \cup {n + 1}, NEW k \in Of(served) \cup {n + 1},
               j < k
        PROVE  Ends(printed'[j]) <= printed'[k].offset
    <3>1. j # n + 1
      <4>1. Of(served) \subseteq 1..n /\ n \in Nat
        BY <1>5, Zenon DEF Of
      <4>2. n \in Nat
        BY <4>1
      <4>3. k \in Of(served) \/ k = n + 1
        BY Zenon
      <4> HIDE DEF n
      <4>4. ASSUME k \in Of(served)
            PROVE  k \in Nat /\ k <= n + 1
        BY <4>1, <4>2, <4>4
      <4>5. k \in Nat /\ k <= n + 1 /\ n + 1 \in Nat
        BY <4>2, <4>3, <4>4
      <4> QED
        BY <2>6, <4>5
    <3>2. j \in Of(served) /\ printed'[j] = printed[j]
      BY <2>3, <2>4, <3>1
    <3>3. CASE k \in Of(served)
      BY <1>9, <2>4, <2>6, <3>2, <3>3
    <3>4. CASE k = n + 1
      BY <1>4, <2>1, <2>2, <3>2, <3>4
    <3> QED
      BY <2>3, <3>3, <3>4
  <2>7. ASSUME NEW b \in from..(from + bytes' - 1)
        PROVE  \/ \E k \in Of(served) \cup {n + 1} :
                    b \in printed'[k].offset..(Ends(printed'[k]) - 1)
               \/ Decode(stop, b).size = 0
    <3>1. CASE b \in from..(o - 1)
      BY <1>8, <2>4, <3>1
    <3>2. CASE b \in o..(from + bytes' - 1)
      <4>1. printed'[n + 1].offset = o /\ Ends(printed'[n + 1]) = from + bytes'
        BY <2>1, <2>2
      <4>2. b \in printed'[n + 1].offset..(Ends(printed'[n + 1]) - 1)
        <5> DEFINE lo == printed'[n + 1].offset
                   hi == Ends(printed'[n + 1])
        <5>1. lo = o /\ hi = from + bytes'
          BY <4>1
        <5> HIDE DEF lo, hi
        <5>2. b \in lo..(hi - 1)
          BY <1>1, <1>3, <3>2, <5>1, SMTT(30)
        <5> QED
          BY <5>2 DEF lo, hi
      <4>3. n + 1 \in Of(served) \cup {n + 1}
        OBVIOUS
      <4> HIDE DEF n
      <4> QED
        BY <4>2, <4>3, Zenon
    <3> QED
      BY <1>1, <1>3, <3>1, <3>2
  <2>8. \A k : Ends(printed[k])' = Ends(printed'[k])
    BY DEF Ends
  <2> QED
    BY <1>2, <1>3, <1>7, <2>3, <2>5, <2>6, <2>7, <2>8 DEF RangeTiles
<1> QED
  BY <1>10, <1>11

LEMMA NextTiles ==
  ASSUME LoopInv, Printed, RangeTiles, [Next]_vars
  PROVE  RangeTiles'
<1>1. CASE DisasmRange
  BY <1>1, RangeStepTiles
<1>2. CASE StartRequest
  <2>1. /\ served' = served + 1 /\ bytes' = 0 /\ printed' = printed /\ image' = image
        /\ current' \in Requests /\ served \in Nat /\ image \in Images /\ tail \in Tails
    <3>1. requests \in Seq(Requests) /\ requests # << >>
      BY <1>2 DEF LoopInv, Served, StartRequest
    <3> QED
      BY <1>2, <3>1, HeadTailProperties DEF StartRequest, LoopInv, Served
  <2>2. Of(served)' = {}
    <3>1. \A k \in DOMAIN printed : printed[k].request <= served
      BY DEF Printed
    <3>2. \A k \in DOMAIN printed : printed[k].request \in Nat
      BY <2>1, ResultFacts
    <3>3. \A k \in DOMAIN printed : printed[k].request # served + 1
      BY <2>1, <3>1, <3>2
    <3> QED
      BY <2>1, <3>3 DEF Of
  <2>3. current'.offset \in Nat /\ RangeLen' \in Nat
    BY <2>1, RequestFacts, StopFacts DEF RangeLen
  <2>4. current'.offset..(current'.offset + bytes' - 1) = {} /\ bytes' <= RangeLen'
    BY <2>1, <2>3
  <2> QED
    BY <2>2, <2>4 DEF RangeTiles
<1>3. CASE \E r \in Requests : AddRequest(r)
  <2>1. current' = NoRequest
    BY <1>3 DEF AddRequest, LoopInv, Served
  <2> QED
    BY <2>1 DEF RangeTiles, NoRequest
<1>4. CASE DisasmAddress \/ RangeEnds
  <2>1. current' = NoRequest
    BY <1>4 DEF DisasmAddress, RangeEnds, EndRequest
  <2> QED
    BY <2>1 DEF RangeTiles, NoRequest
<1>5. CASE DisasmForward \/ ForwardReturns
  <2>1. current.type = "entry"
    BY <1>5, ForwardFacts DEF DisasmForward, ForwardGoesOn, ForwardReturns
  <2>2. current' = current \/ current' = NoRequest
    BY <1>5 DEF DisasmForward, ForwardReturns
  <2> QED
    BY <2>1, <2>2 DEF RangeTiles, NoRequest
<1>6. CASE Act \/ RangeKilled \/ DisasmOverflows \/ UNCHANGED vars
  <2>1. UNCHANGED << image, tail, current, served, bytes, printed >>
    BY <1>6 DEF Act, RangeKilled, DisasmOverflows, vars
  <2>2. \A stop, b : Decode(stop, b)' = Decode(stop, b)
    BY <2>1 DEF Decode
  <2>3. RangeLen' = RangeLen /\ RangeStop' = RangeStop
    BY <2>1 DEF RangeLen, RangeStop
  <2> QED
    BY <2>1, <2>2, <2>3 DEF RangeTiles, Of, Ends
<1> QED
  BY <1>1, <1>2, <1>3, <1>4, <1>5, <1>6 DEF Next

\* The instructions printed for a range follow each other without overlap and
\* stay inside it, and what is between them starts no instruction
\* (x86_disasm.c:73-103).
THEOREM RangesAreTiled == Spec => []RangeTiles
<1>1. Init => RangeTiles
  BY DEF Init, RangeTiles, NoRequest
<1> QED
  BY <1>1, NextTiles, PrintedInvariance, LoopInvariance, PTL DEF Spec
---------------------------------------------------------------------------------
(***************************************************************************)
(* Where jumps lead.                                                       *)
(***************************************************************************)
\* A call of x86_disasm_forward that has not decoded anything yet, and what one
\* has printed.
Pending(t) == \E k \in DOMAIN frames : frames[k].start = t /\ frames[k].bytes = 0
Shown(t) == \E j \in DOMAIN printed : printed[j].offset = t /\ printed[j].type = "entry"

\* The jump at o leads to an instruction of the image.
Goal(o) == NextOffset(Decode(Len(image), o), o)
Holds(t) == InBuffer(t) /\ Decode(Len(image), t).size > 0
Leads(o) == Target(Decode(Len(image), o), o) # -1 /\ Holds(Goal(o))

\* The resolver was called for each jump that was printed, and where it has led
\* there is a call that starts there, or was one.
Resolved ==
  /\ \A k \in DOMAIN printed :
       printed[k].type = "entry" =>
         /\ printed[k].insn = Decode(Len(image), printed[k].offset)
         /\ Follows(printed[k].insn) => Base + printed[k].offset \in seen
  /\ \A o \in Nat : (Base + o \in seen /\ Base + o # 0 /\ Leads(o))
                       => Pending(Goal(o)) \/ Shown(Goal(o))

LEMMA OneMore ==
  ASSUME NEW n \in Nat
  PROVE  1..n \subseteq 1..(n + 1) /\ \A k \in 1..(n + 1) : k \in 1..n \/ k = n + 1
  OBVIOUS

\* The jumps are those of the image.
LEMMA SameJumps ==
  ASSUME image' = image, tail' = tail
  PROVE  \A o : /\ Decode(Len(image), o)' = Decode(Len(image), o)
                /\ Goal(o)' = Goal(o) /\ Leads(o)' = Leads(o)
<1> TAKE o
<1>1. \A e, x : Decode(e, x)' = Decode(e, x)
  BY DEF Decode
<1>2. \A insn, x : Target(insn, x)' = Target(insn, x)
  BY DEF Target, Word
<1>3. \A x : InBuffer(x)' = InBuffer(x)
  BY DEF InBuffer
<1>4. Decode(Len(image), o)' = Decode(Len(image), o)
  BY <1>1
<1>5. Goal(o)' = Goal(o)
  <2>1. PICK g : g = Decode(Len(image), o)
    OBVIOUS
  <2>2. Decode(Len(image), o)' = g /\ Target(g, o)' = Target(g, o)
    BY <1>2, <1>4, <2>1
  <2> QED
    BY <2>1, <2>2 DEF Goal, NextOffset
<1>6. Leads(o)' = Leads(o)
  <2>1. PICK g : g = Decode(Len(image), o)
    OBVIOUS
  <2>2. PICK t : t = Goal(o)
    OBVIOUS
  <2>3. Decode(Len(image), o)' = g /\ Goal(o)' = t
    BY <1>4, <1>5, <2>1, <2>2
  <2>4. /\ Target(g, o)' = Target(g, o) /\ InBuffer(t)' = InBuffer(t)
        /\ Decode(Len(image), t)' = Decode(Len(image), t)
    BY <1>1, <1>2, <1>3
  <2> QED
    BY <2>1, <2>2, <2>3, <2>4 DEF Leads, Holds
<1> QED
  BY <1>4, <1>5, <1>6

\* What is printed stays, and only x86_disasm_forward marks what it adds.
LEMMA NewPrinted ==
  ASSUME LoopInv, Printed, Next
  PROVE  /\ image' = image /\ tail' = tail /\ DOMAIN printed \subseteq DOMAIN printed'
         /\ \A k \in DOMAIN printed : printed'[k] = printed[k]
         /\ \A k \in DOMAIN printed' :
              \/ k \in DOMAIN printed
              \/ printed'[k].type # "entry"
              \/ DisasmForward /\ printed'[k].offset = Offset /\ printed'[k].insn = InsnHere
<1>1. image' = image /\ tail' = tail
  BY DEF Next, AddRequest, Act, StartRequest, DisasmAddress, DisasmRange, RangeKilled,
         RangeEnds, DisasmForward, ForwardReturns, DisasmOverflows
<1>2. image \in Images /\ served \in Nat
  BY DEF LoopInv, Served
<1>3. CASE UNCHANGED printed
  BY <1>1, <1>3
<1>4. ASSUME NEW stop \in Stops(image), NEW o \in Nat, Callback(Decode(stop, o), o)
      PROVE  /\ DOMAIN printed \subseteq DOMAIN printed'
             /\ \A k \in DOMAIN printed : printed'[k] = printed[k]
             /\ \A k \in DOMAIN printed' :
                  \/ k \in DOMAIN printed
                  \/ /\ printed'[k].type = current.type
                     /\ printed'[k].offset = o /\ printed'[k].insn = Decode(stop, o)
  <2> DEFINE n == Len(printed)
             r == [offset |-> o, insn |-> Decode(stop, o), request |-> served,
                   type |-> current.type]
  <2>1. /\ n \in Nat /\ DOMAIN printed = 1..n /\ DOMAIN printed' = 1..Len(printed')
        /\ \A k \in 1..n : printed'[k] = printed[k]
        /\ Decode(stop, o).size = 0 => printed' = printed
        /\ Decode(stop, o).size # 0 => Len(printed') = n + 1 /\ printed'[n + 1] = r
    BY <1>2, <1>4, CallbackAdds
  <2>2. r.type = current.type /\ r.offset = o /\ r.insn = Decode(stop, o)
    OBVIOUS
  <2> HIDE DEF r
  <2>3. CASE Decode(stop, o).size = 0
    BY <2>1, <2>3
  <2>4. CASE Decode(stop, o).size # 0
    <3>1. DOMAIN printed' = 1..n + 1 /\ printed'[n + 1] = r
      BY <2>1, <2>4
    <3> HIDE DEF n
    <3>2. 1..n \subseteq 1..n + 1 /\ \A k \in 1..n + 1 : k \in 1..n \/ k = n + 1
      BY <2>1, OneMore
    <3> QED
      BY <2>1, <2>2, <3>1, <3>2, Zenon
  <2> QED
    BY <2>3, <2>4
<1>5. CASE DisasmForward
  <2>1. /\ Callback(Decode(Len(image), Offset), Offset) /\ Offset \in Nat
        /\ Len(image) \in Stops(image)
    BY <1>5, DisasmForwardStep, ForwardFacts DEF InsnHere
  <2> QED
    BY <1>1, <1>4, <1>5, <2>1 DEF InsnHere
<1>6. CASE ~DisasmForward /\ ~UNCHANGED printed
  <2>1. DisasmAddress \/ DisasmRange
    BY <1>6 DEF Next, AddRequest, Act, StartRequest, RangeKilled, RangeEnds,
                ForwardReturns, DisasmOverflows
  <2>2. current.type # "entry"
    BY <2>1 DEF DisasmAddress, DisasmRange, RangeGoesOn
  <2>3. \E stop \in Stops(image), o \in Nat : Callback(Decode(stop, o), o)
    BY <1>6, Prints
  <2> QED
    BY <1>1, <1>4, <2>2, <2>3
<1> QED
  BY <1>3, <1>5, <1>6

\* The innermost call prints what it starts with.
LEMMA ForwardShows ==
  ASSUME LoopInv, Printed, DisasmForward, InsnHere.size # 0, NEW t, t = Offset
  PROVE  Shown(t)'
<1> DEFINE n == Len(printed)
           r == [offset |-> Offset, insn |-> InsnHere, request |-> served,
                 type |-> current.type]
<1>1. /\ Callback(InsnHere, Offset) /\ Offset \in Nat /\ frames # << >>
      /\ current.type = "entry"
      /\ Len(image) \in Stops(image) /\ image \in Images /\ served \in Nat
  BY DisasmForwardStep, ForwardFacts DEF LoopInv, Served
<1>2. /\ n \in Nat /\ DOMAIN printed' = 1..Len(printed')
      /\ Len(printed') = n + 1 /\ printed'[n + 1] = r
  BY <1>1, CallbackAdds DEF InsnHere
<1>3. n + 1 \in DOMAIN printed'
  BY <1>2
<1>4. r.offset = t /\ r.type = "entry"
  BY <1>1
<1> HIDE DEF r, n
<1> QED
  BY <1>2, <1>3, <1>4 DEF Shown

\* A call is not forgotten before it has printed its first instruction.
LEMMA GoalKept ==
  ASSUME LoopInv, Printed, Next, NEW t, Holds(t), Pending(t) \/ Shown(t)
  PROVE  Pending(t)' \/ Shown(t)'
<1>1. CASE Shown(t)
  <2>1. PICK j \in DOMAIN printed : printed[j].offset = t /\ printed[j].type = "entry"
    BY <1>1 DEF Shown
  <2>2. j \in DOMAIN printed' /\ printed'[j].offset = t /\ printed'[j].type = "entry"
    BY <2>1, NewPrinted
  <2> QED
    BY <2>2 DEF Shown
<1>2. CASE Pending(t)
  <2>1. PICK k \in DOMAIN frames : frames[k].start = t /\ frames[k].bytes = 0
    BY <1>2 DEF Pending
  <2>2. frames # << >> /\ frames[k].cont
    BY <2>1 DEF LoopInv, Called
  <2>3. /\ Len(frames) \in Nat \ {0} /\ DOMAIN frames = 1..Len(frames)
        /\ Len(image) \in Nat /\ current # NoRequest /\ phase # "options"
    BY <2>2, ForwardFacts
  <2>4. k \in 1..(Len(frames) - 1) \/ k = Len(frames)
    BY <2>1, <2>3
  <2>5. t \in Nat /\ 0 < Len(image)
    BY <2>3 DEF Holds, InBuffer
  <2>6. CASE DisasmForward
    <3>1. /\ frames' \in Seq(Frame) /\ Len(frames') >= Len(frames)
          /\ \A i \in 1..(Len(frames) - 1) : frames'[i] = frames[i]
      BY <2>3, <2>6, DisasmForwardStep
    <3>2. DOMAIN frames' = 1..Len(frames') /\ Len(frames') \in Nat
      BY <3>1, LenProperties
    <3>3. CASE k \in 1..(Len(frames) - 1)
      <4>1. k \in DOMAIN frames' /\ frames'[k] = frames[k]
        BY <2>3, <3>1, <3>2, <3>3
      <4> QED
        BY <2>1, <4>1 DEF Pending
    <3>4. CASE k = Len(frames)
      <4>1. Offset = t
        BY <2>1, <2>5, <3>4 DEF Offset, Innermost
      <4>2. InsnHere.size # 0
        BY <4>1 DEF Holds, InsnHere
      <4> QED
        BY <2>6, <4>1, <4>2, ForwardShows
    <3> QED
      BY <2>4, <3>3, <3>4
  <2>7. CASE ForwardReturns
    <3>1. frames' = Front(frames) /\ k # Len(frames)
      BY <2>1, <2>2, <2>3, <2>5, <2>7 DEF ForwardReturns, Last
    <3>2. k \in 1..(Len(frames) - 1)
      BY <2>4, <3>1
    <3>3. k \in DOMAIN frames' /\ frames'[k] = frames[k]
      BY <2>2, <3>1, <3>2, Returned
    <3> QED
      BY <2>1, <3>3 DEF Pending
  <2>8. CASE ~DisasmForward /\ ~ForwardReturns
    <3>1. frames' = frames
      BY <2>3, <2>8 DEF Next, AddRequest, Act, StartRequest, DisasmAddress, DisasmRange,
                        RangeKilled, RangeEnds, DisasmOverflows
    <3> QED
      BY <1>2, <3>1 DEF Pending
  <2> QED
    BY <2>6, <2>7, <2>8
<1> QED
  BY <1>1, <1>2

LEMMA NextResolved ==
  ASSUME LoopInv, Printed, Resolved, [Next]_vars
  PROVE  Resolved'
<1>1. CASE UNCHANGED vars
  <2>1. UNCHANGED << image, tail, frames, seen, printed >>
    BY <1>1 DEF vars
  <2>2. \A o : /\ Decode(Len(image), o)' = Decode(Len(image), o)
               /\ Goal(o)' = Goal(o) /\ Leads(o)' = Leads(o)
    BY <2>1, SameJumps
  <2> QED
    BY <2>1, <2>2 DEF Resolved, Pending, Shown
<1>2. CASE Next
  <2>1. /\ image' = image /\ tail' = tail
        /\ \A k \in DOMAIN printed : printed'[k] = printed[k]
        /\ \A k \in DOMAIN printed' :
             \/ k \in DOMAIN printed
             \/ printed'[k].type # "entry"
             \/ DisasmForward /\ printed'[k].offset = Offset /\ printed'[k].insn = InsnHere
    BY <1>2, NewPrinted
  <2>2. \A o : /\ Decode(Len(image), o)' = Decode(Len(image), o)
               /\ Goal(o)' = Goal(o) /\ Leads(o)' = Leads(o)
    BY <2>1, SameJumps
  <2>3. /\ seen \subseteq seen'
        /\ \A x \in seen' :
             x \in seen \/ (DisasmForward /\ Follows(InsnHere) /\ x = Base + Offset)
        /\ DisasmForward /\ Follows(InsnHere) => Base + Offset \in seen'
    <3>1. CASE DisasmForward
      BY <3>1, DisasmForwardStep
    <3>2. CASE ~DisasmForward
      <4>1. seen' = seen
        BY <1>2, <3>2 DEF Next, AddRequest, Act, StartRequest, DisasmAddress, DisasmRange,
                          RangeKilled, RangeEnds, ForwardReturns, DisasmOverflows
      <4> QED
        BY <3>2, <4>1
    <3> QED
      BY <3>1, <3>2
  <2>4. ASSUME NEW k \in DOMAIN printed', printed'[k].type = "entry"
        PROVE  /\ printed'[k].insn = Decode(Len(image), printed'[k].offset)
               /\ Follows(printed'[k].insn) => Base + printed'[k].offset \in seen'
    <3>1. CASE k \in DOMAIN printed
      BY <2>1, <2>3, <2>4, <3>1 DEF Resolved
    <3>2. CASE k \notin DOMAIN printed
      BY <2>1, <2>3, <2>4, <3>2 DEF InsnHere
    <3> QED
      BY <3>1, <3>2
  <2>5. ASSUME NEW o \in Nat, Base + o \in seen', Base + o # 0, Leads(o),
               NEW t, t = Goal(o)
        PROVE  Pending(t)' \/ Shown(t)'
    <3>1. CASE Base + o \in seen
      <4>1. Holds(t) /\ (Pending(t) \/ Shown(t))
        BY <2>5, <3>1 DEF Resolved, Leads
      <4> QED
        BY <1>2, <4>1, GoalKept
    <3>2. CASE Base + o \notin seen
      <4>1. DisasmForward /\ Follows(InsnHere) /\ Base + o = Base + Offset
        BY <2>3, <2>5, <3>2
      <4>2. /\ Offset \in Nat /\ frames' \in Seq(Frame) /\ Len(frames) \in Nat
            /\ Len(frames') = IF Followed THEN Len(frames) + 1 ELSE Len(frames)
            /\ Followed => frames'[Len(frames) + 1] = Call(Into)
        BY <4>1, DisasmForwardStep, ForwardFacts
      <4>3. o = Offset
        BY <4>1, <4>2, DisassemblyAssumption DEF DisassemblyAssumption
      <4>4. Into = t /\ Target(InsnHere, Offset) # -1 /\ InBuffer(t)
        BY <2>5, <4>3 DEF Leads, Holds, Goal, Into, InsnHere
      <4>5. Followed
        BY <3>2, <4>1, <4>3, <4>4 DEF Followed, IsNew
      <4>6. Len(frames) + 1 \in DOMAIN frames'
        BY <4>2, <4>5, LenProperties
      <4>7. /\ frames'[Len(frames) + 1].start = t
            /\ frames'[Len(frames) + 1].bytes = 0
        BY <4>2, <4>4, <4>5 DEF Call
      <4> QED
        BY <4>6, <4>7 DEF Pending
    <3> QED
      BY <3>1, <3>2
  <2>6. ASSUME NEW o \in Nat, Base + o \in seen', Base + o # 0, Leads(o)'
        PROVE  Pending(Goal(o))' \/ Shown(Goal(o))'
    <3>1. PICK t : t = Goal(o)
      OBVIOUS
    <3>2. Goal(o)' = t /\ Leads(o)
      BY <2>2, <2>6, <3>1
    <3>3. Pending(t)' \/ Shown(t)'
      BY <2>5, <2>6, <3>1, <3>2
    <3> QED
      BY <3>2, <3>3 DEF Pending, Shown
  <2> QED
    BY <2>2, <2>4, <2>6 DEF Resolved
<1> QED
  BY <1>1, <1>2

LEMMA ResolvedInvariance == Spec => []Resolved
<1>1. Init => Resolved
  BY DEF Init, Resolved
<1> QED
  BY <1>1, NextResolved, PrintedInvariance, LoopInvariance, PTL DEF Spec

\* Where a jump that an entry request has printed leads, there is code that has
\* been disassembled, once no request is left, however the calls that followed
\* other jumps to it are nested (x86_disasm.c:127-193, x86dis.c:121-160).
THEOREM JumpsAreFollowed == Spec => []JumpsFollowed
<1>1. ASSUME LoopInv, Printed, Resolved PROVE JumpsFollowed
  <2> SUFFICES ASSUME Finished, NEW k \in DOMAIN printed, NEW p, p = printed[k], NEW t,
                      t = NextOffset(p.insn, p.offset),
                      Follows(p.insn), p.type = "entry", Base + p.offset # 0,
                      Target(p.insn, p.offset) # -1, InBuffer(t),
                      Decode(Len(image), t).size > 0
               PROVE  \E j \in DOMAIN printed : printed[j].offset = t /\ printed[j].type = "entry"
    BY DEF JumpsFollowed
  <2>1. image \in Images /\ p.offset \in Nat
    BY <1>1, ResultFacts DEF LoopInv, Served
  <2>2. p.insn = Decode(Len(image), p.offset) /\ Base + p.offset \in seen
    BY <1>1 DEF Resolved
  <2>3. Goal(p.offset) = t /\ Leads(p.offset)
    BY <2>2 DEF Leads, Holds, Goal
  <2>4. Pending(t) \/ Shown(t)
    BY <1>1, <2>1, <2>2, <2>3 DEF Resolved
  <2>5. ~Pending(t)
    <3>1. frames = << >>
      BY <1>1 DEF Finished, LoopInv, Served, NoRequest
    <3> QED
      BY <3>1 DEF Pending
  <2> QED
    BY <2>4, <2>5 DEF Shown
<1> QED
  BY <1>1, ResolvedInvariance, PrintedInvariance, LoopInvariance, PTL
=================================================================================
