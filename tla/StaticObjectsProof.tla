------------------------- MODULE StaticObjectsProof -------------------------
(* For any program: an initializer runs once, destructors run in the reverse *)
(* of the order in which the initializers were completed, and none is left   *)
(* out.  And of the container a unit's images are kept in: the fat binary    *)
(* the compiler writes is read back by the runtime as one image, the newest  *)
(* PTX the device runs, or none, whatever images the unit embeds.  Both      *)
(* sides of that are recursive: induction and recursion over the naturals    *)
(* come in a form first-order provers can use, the property to be proved a   *)
(* set of numbers, the step of a recursive definition a function.            *)
EXTENDS StaticObjects, FatBinary, WellFoundedInduction, TLAPS

-----------------------------------------------------------------------------
(* Sequences *)

\* A sequence is a function on 1..Len.
LEMMA SeqIndexed ==
  ASSUME NEW S, NEW s \in Seq(S)
  PROVE  /\ Len(s) \in Nat /\ DOMAIN s = 1..Len(s) /\ s \in [1..Len(s) -> S]
         /\ \A i \in 1..Len(s) : s[i] \in S
  OBVIOUS

\* A sequence and one element more.
LEMMA SeqAppend ==
  ASSUME NEW S, NEW s \in Seq(S), NEW e \in S
  PROVE  /\ Append(s, e) \in Seq(S) /\ Len(Append(s, e)) = Len(s) + 1
         /\ Append(s, e)[Len(s) + 1] = e /\ \A i \in 1..Len(s) : Append(s, e)[i] = s[i]
  OBVIOUS

\* Two sequences one after the other.
LEMMA SeqConcat ==
  ASSUME NEW S, NEW s \in Seq(S), NEW t \in Seq(S)
  PROVE  /\ s \o t \in Seq(S) /\ Len(s \o t) = Len(s) + Len(t)
         /\ \A i \in 1..Len(s) + Len(t) :
              (s \o t)[i] = IF i <= Len(s) THEN s[i] ELSE t[i - Len(s)]
  OBVIOUS

\* A part of a sequence.
LEMMA SeqPart ==
  ASSUME NEW S, NEW s \in Seq(S), NEW m \in Int, NEW n \in Int, \A i \in m..n : s[i] \in S
  PROVE  /\ SubSeq(s, m, n) \in Seq(S)
         /\ Len(SubSeq(s, m, n)) = IF m <= n THEN n - m + 1 ELSE 0
         /\ \A i \in 1..n - m + 1 : SubSeq(s, m, n)[i] = s[m + i - 1]
  OBVIOUS

\* A function on 1..n is a sequence.
LEMMA SeqOf ==
  ASSUME NEW S, NEW n \in Nat, NEW f \in [1..n -> S]
  PROVE  f \in Seq(S) /\ DOMAIN f = 1..n /\ Len(f) = n
  OBVIOUS

-----------------------------------------------------------------------------
(* Induction and recursion *)

\* A set that holds 0, and n + 1 with every n, holds every natural number.
LEMMA SetInduction ==
  ASSUME NEW S, 0 \in S, \A n \in Nat : n \in S => n + 1 \in S
  PROVE  \A n \in Nat : n \in S
<1> SUFFICES ASSUME Nat \ S # {} PROVE FALSE
  OBVIOUS
<1> DEFINE T == Nat \ S
           R == OpToRel(<, Nat)
<1>1. IsWellFoundedOn(R, Nat)
  BY NatLessThanWellFounded, Zenon
<1>2. T \subseteq Nat /\ T # {}
  OBVIOUS
<1>3. \A x, y \in Nat : <<x, y>> \in R <=> x < y
  BY DEF OpToRel
<1> HIDE DEF R, T
<1>4. PICK x \in T : \A y \in T : ~(<<y, x>> \in R)
  BY <1>1, <1>2, WFMin, Zenon
<1>5. x \in Nat /\ x # 0 /\ x - 1 \in Nat /\ x - 1 < x
  BY <1>2, <1>4 DEF T
<1>6. x - 1 \notin T
  BY <1>2, <1>3, <1>4, <1>5, Zenon
<1>7. x - 1 + 1 \in S
  BY <1>5, <1>6 DEF T
<1> QED
  BY <1>4, <1>5, <1>7 DEF T

\* g is what the recursion gives up to n.
Approximates(g, n, S, a, step) ==
  /\ g \in [0 .. n -> S]
  /\ g[0] = a
  /\ \A k \in 1 .. n : g[k] = step[k][g[k - 1]]

\* Two approximations agree where both are defined.
LEMMA ApproximationsAgree ==
  ASSUME NEW S, NEW a, NEW step, NEW m \in Nat, NEW n \in Nat, m <= n, NEW g, NEW h,
         Approximates(g, m, S, a, step), Approximates(h, n, S, a, step)
  PROVE  \A k \in 0 .. m : g[k] = h[k]
<1> DEFINE T == {k \in Nat : k <= m => g[k] = h[k]}
<1>1. 0 \in T
  BY DEF Approximates
<1>2. ASSUME NEW k \in Nat, k \in T PROVE k + 1 \in T
  <2> SUFFICES ASSUME k + 1 <= m PROVE g[k + 1] = h[k + 1]
    OBVIOUS
  <2>1. k + 1 \in 1 .. m /\ k + 1 \in 1 .. n /\ k + 1 - 1 = k
    OBVIOUS
  <2>2. g[k + 1] = step[k + 1][g[k]] /\ h[k + 1] = step[k + 1][h[k]]
    BY <2>1 DEF Approximates
  <2>3. g[k] = h[k]
    BY <1>2
  <2> QED
    BY <2>2, <2>3
<1> HIDE DEF T
<1>3. \A k \in Nat : k \in T
  BY <1>1, <1>2, SetInduction
<1> QED
  BY <1>3 DEF T

\* f is what the recursion gives.
Solves(f, S, a, step) ==
  /\ f \in [Nat -> S]
  /\ f[0] = a
  /\ \A n \in Nat \ {0} : f[n] = step[n][f[n - 1]]

\* A recursion over the natural numbers has a solution.
LEMMA RecursionExists ==
  ASSUME NEW S, NEW a \in S, NEW step \in [Nat -> [S -> S]]
  PROVE  \E f : Solves(f, S, a, step)
<1> DEFINE A(g, n) == Approximates(g, n, S, a, step)
           T == {n \in Nat : \E g : A(g, n)}
<1>1. 0 \in T
  <2> DEFINE g == [k \in 0 .. 0 |-> a]
  <2>1. A(g, 0)
    BY DEF Approximates
  <2> QED
    BY <2>1
<1>2. ASSUME NEW n \in Nat, n \in T PROVE n + 1 \in T
  <2>1. PICK g : A(g, n)
    BY <1>2
  <2> DEFINE v == step[n + 1][g[n]]
             h == [k \in 0 .. n + 1 |-> IF k = n + 1 THEN v ELSE g[k]]
  <2>2. g[n] \in S /\ v \in S
    BY <2>1 DEF Approximates
  <2>3. h \in [0 .. n + 1 -> S] /\ h[0] = a
    BY <2>1, <2>2 DEF Approximates
  <2>4. ASSUME NEW k \in 1 .. n + 1 PROVE h[k] = step[k][h[k - 1]]
    <3>1. k - 1 \in 0 .. n /\ h[k - 1] = g[k - 1]
      OBVIOUS
    <3>2. CASE k = n + 1
      <4>1. k - 1 = n /\ h[k] = v
        BY <3>2
      <4> QED
        BY <3>1, <3>2, <4>1
    <3>3. CASE k # n + 1
      <4>1. k \in 1 .. n /\ h[k] = g[k]
        BY <3>3
      <4> QED
        BY <2>1, <3>1, <4>1 DEF Approximates
    <3> QED
      BY <3>2, <3>3
  <2> HIDE DEF h
  <2>5. A(h, n + 1)
    BY <2>3, <2>4 DEF Approximates
  <2> QED
    BY <2>5
<1> HIDE DEF T
<1>3. \A n \in Nat : \E g : A(g, n)
  <2>1. \A n \in Nat : n \in T
    BY <1>1, <1>2, SetInduction
  <2> QED
    BY <2>1 DEF T
<1> DEFINE G(n) == CHOOSE g : A(g, n)
           f == [n \in Nat |-> G(n)[n]]
<1>4. ASSUME NEW n \in Nat PROVE A(G(n), n)
  BY <1>3
<1> HIDE DEF G
<1>5. f \in [Nat -> S]
  <2> SUFFICES ASSUME NEW n \in Nat PROVE G(n)[n] \in S
    OBVIOUS
  <2>1. A(G(n), n) /\ n \in 0 .. n
    BY <1>4
  <2> QED
    BY <2>1 DEF Approximates
<1>6. f[0] = a
  <2>1. A(G(0), 0)
    BY <1>4
  <2> QED
    BY <2>1 DEF Approximates
<1>7. ASSUME NEW n \in Nat \ {0} PROVE f[n] = step[n][f[n - 1]]
  <2>1. n - 1 \in Nat /\ n - 1 <= n /\ n - 1 \in 0 .. n - 1 /\ n \in 1 .. n
    OBVIOUS
  <2>2. A(G(n - 1), n - 1) /\ A(G(n), n)
    BY <1>4, <2>1
  <2>3. G(n - 1)[n - 1] = G(n)[n - 1]
    BY <2>1, <2>2, ApproximationsAgree
  <2>4. G(n)[n] = step[n][G(n)[n - 1]]
    BY <2>1, <2>2 DEF Approximates
  <2>5. f[n] = G(n)[n] /\ f[n - 1] = G(n - 1)[n - 1]
    BY <2>1
  <2> QED
    BY <2>3, <2>4, <2>5
<1> HIDE DEF f
<1>8. Solves(f, S, a, step)
  BY <1>5, <1>6, <1>7 DEF Solves
<1> QED
  BY <1>8

-----------------------------------------------------------------------------
(* The container *)

\* What the writer puts down for an image, and the containers it may write.
EntryFor(im) == [kind |-> im.kind, arch |-> im.sm, size |-> SizeField(im)]
Entry == [kind : {"ptx", "elf"}, arch : Nat, size : Nat]
Containers == [size : Nat, at : UNION {[D -> Entry] : D \in SUBSET Nat}]
EmptyContainer == [size |-> 0, at |-> [p \in {} |-> 0]]

\* Padding to eight.
LEMMA Padding ==
  ASSUME NEW n \in Nat
  PROVE  RoundUp(n) \in Nat /\ RoundUp(n) >= n /\ \E q \in Nat : RoundUp(n) = 8 * q
<1>1. (n + 7) \div 8 \in Nat /\ 8 * ((n + 7) \div 8) <= n + 7 /\ n + 7 < 8 * ((n + 7) \div 8) + 8
  OBVIOUS
<1>2. RoundUp(n) = 8 * ((n + 7) \div 8)
  BY <1>1 DEF RoundUp
<1> QED
  BY <1>1, <1>2

\* Padding after a prefix that is padded itself.
LEMMA PaddingAfter ==
  ASSUME NEW q \in Nat, NEW n \in Nat
  PROVE  RoundUp(8 * q + EntrySize + n) = 8 * q + EntrySize + RoundUp(n)
<1> DEFINE d == (n + 7) \div 8
<1>1. d \in Nat /\ 8 * d <= n + 7 /\ n + 7 < 8 * d + 8
  OBVIOUS
<1>2. RoundUp(n) = 8 * d
  BY <1>1 DEF RoundUp
<1> DEFINE m == 8 * q + EntrySize + n
           e == (m + 7) \div 8
<1>3. m \in Nat /\ m = 8 * q + 80 + n
  BY DEF EntrySize
<1> HIDE DEF m
<1>4. e \in Nat /\ 8 * e <= m + 7 /\ m + 7 < 8 * e + 8
  BY <1>3
<1> HIDE DEF d, e
<1>5. e = q + 10 + d
  BY <1>1, <1>3, <1>4
<1>6. RoundUp(m) = 8 * e
  BY <1>3, <1>4 DEF RoundUp, e
<1> QED
  BY <1>1, <1>2, <1>5, <1>6 DEF m, EntrySize

\* An image's sizes.
LEMMA Sizes ==
  ASSUME NEW im \in Image
  PROVE  Payload(im) \in Nat /\ SizeField(im) \in Nat /\ EntryFor(im) \in Entry
<1>1. Payload(im) \in Nat
  BY DEF Payload, Image
<1>2. SizeField(im) \in Nat
  BY <1>1, Padding DEF SizeField
<1> QED
  BY <1>1, <1>2 DEF EntryFor, Entry, Image

\* A container that takes one image more.
LEMMA ImageAppended ==
  ASSUME NEW c \in Containers, NEW im \in Image
  PROVE  /\ AppendImage(c, im) \in Containers
         /\ AppendImage(c, im).size = RoundUp(c.size + EntrySize + Payload(im))
         /\ DOMAIN AppendImage(c, im).at = DOMAIN c.at \cup {c.size}
         /\ AppendImage(c, im).at[c.size] = EntryFor(im)
         /\ \A p \in DOMAIN c.at : p # c.size => AppendImage(c, im).at[p] = c.at[p]
<1> DEFINE at == [p \in DOMAIN c.at \cup {c.size} |-> IF p = c.size THEN EntryFor(im) ELSE c.at[p]]
           size == RoundUp(c.size + EntrySize + Payload(im))
<1>1. AppendImage(c, im) = [size |-> size, at |-> at]
  BY DEF AppendImage, EntryFor
<1>2. c.size \in Nat /\ \E D \in SUBSET Nat : c.at \in [D -> Entry]
  BY DEF Containers
<1>3. PICK D \in SUBSET Nat : c.at \in [D -> Entry]
  BY <1>2
<1>4. size \in Nat
  <2>1. c.size + EntrySize + Payload(im) \in Nat
    BY <1>2, Sizes DEF EntrySize
  <2> QED
    BY <2>1, Padding
<1>5. /\ DOMAIN at = D \cup {c.size} /\ D \cup {c.size} \in SUBSET Nat
      /\ at \in [D \cup {c.size} -> Entry] /\ at[c.size] = EntryFor(im)
      /\ \A p \in DOMAIN c.at : p # c.size => at[p] = c.at[p]
  BY <1>2, <1>3, Sizes, Zenon
<1> HIDE DEF at, size
<1>6. [size |-> size, at |-> at] \in Containers
  <2>1. at \in UNION {[E -> Entry] : E \in SUBSET Nat}
    BY <1>5
  <2> QED
    BY <1>4, <2>1 DEF Containers
<1>7. DOMAIN c.at = D
  BY <1>3
<1> QED
  BY <1>1, <1>5, <1>6, <1>7 DEF size

\* Written takes the images one by one.
LEMMA WrittenSteps ==
  ASSUME NEW ims \in Seq(Image)
  PROVE  /\ \A i \in 0..Len(ims) : Written(ims)[i] \in Containers
         /\ Written(ims)[0] = EmptyContainer
         /\ \A i \in 0..(Len(ims) - 1) : Written(ims)[i + 1] = AppendImage(Written(ims)[i], ims[i + 1])
<1> DEFINE n == Len(ims)
           Body(f, i) == IF i = 0 THEN EmptyContainer ELSE AppendImage(f[i - 1], ims[i])
           Out == CHOOSE f : f = [i \in 0..n |-> Body(f, i)]
           Took(c, i) == IF i \in 1..n THEN AppendImage(c, ims[i]) ELSE c
           step == [i \in Nat |-> [c \in Containers |-> Took(c, i)]]
<1>1. Written(ims) = Out
  BY DEF Written, EmptyContainer
<1>2. n \in Nat /\ \A i \in 1..n : ims[i] \in Image
  BY SeqIndexed
<1> HIDE DEF n
<1>3. EmptyContainer \in Containers
  <2>1. [p \in {} |-> 0] \in [{} -> Entry] /\ {} \in SUBSET Nat
    OBVIOUS
  <2>2. [p \in {} |-> 0] \in UNION {[D -> Entry] : D \in SUBSET Nat}
    BY <2>1, Zenon
  <2> QED
    BY <2>2 DEF EmptyContainer, Containers
<1>4. \A i \in Nat, c \in Containers : Took(c, i) \in Containers
  BY <1>2, ImageAppended
<1> HIDE DEF Took
<1>5. step \in [Nat -> [Containers -> Containers]]
  BY <1>4
<1>6. \A i \in Nat, c \in Containers : step[i][c] = Took(c, i)
  OBVIOUS
<1> HIDE DEF step
<1>7. PICK g : Solves(g, Containers, EmptyContainer, step)
  BY <1>3, <1>5, RecursionExists, Zenon
<1>16. /\ g \in [Nat -> Containers] /\ g[0] = EmptyContainer
       /\ \A i \in Nat \ {0} : g[i] = step[i][g[i - 1]]
  BY <1>7 DEF Solves
<1> DEFINE f == [i \in 0..n |-> g[i]]
<1>8. ASSUME NEW i \in 1..n PROVE f[i] = AppendImage(f[i - 1], ims[i])
  <2>1. i \in Nat \ {0} /\ i - 1 \in Nat /\ i \in 0..n /\ i - 1 \in 0..n /\ g[i - 1] \in Containers
    BY <1>2, <1>16
  <2>2. g[i] = Took(g[i - 1], i)
    BY <1>6, <1>16, <2>1
  <2> QED
    BY <2>1, <2>2 DEF Took
<1>9. f[0] = EmptyContainer /\ f = [i \in 0..n |-> f[i]]
  BY <1>2, <1>16
<1> HIDE DEF f
<1>10. f = [i \in 0..n |-> Body(f, i)]
  <2>1. ASSUME NEW i \in 0..n PROVE f[i] = Body(f, i)
    <3>1. CASE i = 0
      BY <1>9, <3>1
    <3>2. CASE i # 0
      <4>1. i \in 1..n
        BY <1>2, <3>2
      <4> QED
        BY <1>8, <3>2, <4>1
    <3> QED
      BY <3>1, <3>2
  <2> HIDE DEF Body
  <2> QED
    BY <1>9, <2>1
<1>11. Out = [i \in 0..n |-> Body(Out, i)]
  BY <1>10, Zenon
<1> HIDE DEF Out
<1>12. Out[0] = EmptyContainer /\ \A i \in 1..n : Out[i] = AppendImage(Out[i - 1], ims[i])
  <2>1. \A i \in 0..n : Out[i] = Body(Out, i)
    BY <1>11, Zenon
  <2> QED
    BY <1>2, <2>1
<1>13. \A i \in Nat : i <= n => Out[i] \in Containers
  <2> DEFINE T == {i \in Nat : i <= n => Out[i] \in Containers}
  <2>1. 0 \in T
    BY <1>3, <1>12
  <2>2. ASSUME NEW i \in Nat, i \in T PROVE i + 1 \in T
    <3>1. i + 1 \in Nat /\ i + 1 - 1 = i
      OBVIOUS
    <3>2. ASSUME i + 1 <= n PROVE Out[i + 1] \in Containers
      <4>1. i + 1 \in 1..n /\ i <= n
        BY <1>2, <3>2
      <4>2. Out[i] \in Containers /\ Out[i + 1] = AppendImage(Out[i], ims[i + 1])
        BY <1>12, <2>2, <3>1, <4>1
      <4> QED
        BY <1>2, <4>1, <4>2, ImageAppended
    <3> QED
      BY <3>1, <3>2
  <2> HIDE DEF T
  <2>3. \A i \in Nat : i \in T
    BY <2>1, <2>2, SetInduction
  <2> QED
    BY <2>3 DEF T
<1>14. ASSUME NEW i \in 0..(n - 1) PROVE Out[i + 1] = AppendImage(Out[i], ims[i + 1])
  <2>1. i + 1 \in 1..n /\ i + 1 - 1 = i
    BY <1>2
  <2> QED
    BY <1>12, <2>1
<1>15. \A i \in 0..n : Out[i] \in Containers
  BY <1>2, <1>13
<1> QED
  BY <1>1, <1>12, <1>14, <1>15 DEF n

\* An entry is where the walk looks for it: each image adds its entry at the end
\* of what was written, as many bytes on as its size field says, and later
\* images leave it alone.
LaidDown(ims, m, i) ==
  /\ Written(ims)[i].size < Written(ims)[m].size
  /\ Written(ims)[i + 1].size = Written(ims)[i].size + EntrySize + SizeField(ims[i + 1])
  /\ Written(ims)[i].size \in DOMAIN Written(ims)[m].at
  /\ Written(ims)[m].at[Written(ims)[i].size] = EntryFor(ims[i + 1])

WellWritten(ims, m) ==
  /\ \E q \in Nat : Written(ims)[m].size = 8 * q
  /\ 80 * m <= Written(ims)[m].size
  /\ \A i \in 0..(m - 1) : LaidDown(ims, m, i)

\* Every prefix of the images is well written.
LEMMA EntriesFound ==
  ASSUME NEW ims \in Seq(Image)
  PROVE  \A m \in 0..Len(ims) : WellWritten(ims, m)
<1> DEFINE n == Len(ims)
           W == Written(ims)
           T == {m \in Nat : m <= n => WellWritten(ims, m)}
<1>1. n \in Nat /\ \A i \in 1..n : ims[i] \in Image
  BY SeqIndexed
<1>2. /\ \A i \in 0..n : W[i] \in Containers
      /\ W[0] = EmptyContainer
      /\ \A i \in 0..(n - 1) : W[i + 1] = AppendImage(W[i], ims[i + 1])
  BY WrittenSteps
<1> HIDE DEF W, n
<1>3. 0 \in T
  <2>1. W[0].size = 0
    BY <1>2 DEF EmptyContainer
  <2>2. W[0].size = 8 * 0 /\ 80 * 0 <= W[0].size /\ 0..(0 - 1) = {}
    BY <2>1
  <2> QED
    BY <2>2 DEF WellWritten, W
<1>4. ASSUME NEW m \in Nat, m \in T PROVE m + 1 \in T
  <2> SUFFICES ASSUME m + 1 <= n PROVE WellWritten(ims, m + 1)
    OBVIOUS
  <2>1. m \in 0..(n - 1) /\ m \in 0..n /\ m + 1 \in 1..n /\ m <= n
    BY <1>1
  <2> DEFINE c == W[m]
             d == W[m + 1]
             im == ims[m + 1]
  <2>2. WellWritten(ims, m)
    BY <1>4, <2>1
  <2>3. c \in Containers /\ im \in Image /\ d = AppendImage(c, im) /\ c.size \in Nat
    BY <1>1, <1>2, <2>1 DEF Containers
  <2>4. /\ d.size = RoundUp(c.size + EntrySize + Payload(im))
        /\ DOMAIN d.at = DOMAIN c.at \cup {c.size}
        /\ d.at[c.size] = EntryFor(im)
        /\ \A p \in DOMAIN c.at : p # c.size => d.at[p] = c.at[p]
    BY <2>3, ImageAppended
  <2>5. /\ \A i \in 0..(m - 1) :
             /\ W[i].size < c.size
             /\ W[i + 1].size = W[i].size + EntrySize + SizeField(ims[i + 1])
             /\ W[i].size \in DOMAIN c.at
             /\ c.at[W[i].size] = EntryFor(ims[i + 1])
        /\ 80 * m <= c.size
    BY <2>2 DEF WellWritten, LaidDown, W
  <2>6. PICK q \in Nat : c.size = 8 * q
    BY <2>2 DEF WellWritten, W
  <2>7. Payload(im) \in Nat /\ SizeField(im) \in Nat /\ SizeField(im) = RoundUp(Payload(im))
    BY <2>3, Sizes DEF SizeField
  <2>8. d.size = c.size + EntrySize + SizeField(im)
    BY <2>4, <2>6, <2>7, PaddingAfter
  <2>9. PICK r \in Nat : SizeField(im) = 8 * r
    BY <2>7, Padding, Zenon
  <2> HIDE DEF c, d, im
  <2>10. d.size = 8 * (q + 10 + r) /\ q + 10 + r \in Nat /\ 80 * (m + 1) <= d.size /\ c.size < d.size
    <3> DEFINE x == c.size
               y == d.size
               z == SizeField(im)
    <3>1. /\ x \in Nat /\ z \in Nat /\ x = 8 * q /\ z = 8 * r
          /\ y = x + 80 + z /\ 80 * m <= x
      BY <2>3, <2>5, <2>6, <2>7, <2>8, <2>9, Zenon DEF EntrySize
    <3> HIDE DEF x, y, z
    <3>2. y = 8 * (q + 10 + r) /\ q + 10 + r \in Nat
      BY <3>1
    <3>3. 80 * (m + 1) <= y /\ x < y
      BY <3>1
    <3> QED BY <3>2, <3>3, Zenon DEF x, y
  <2>0. d.size \in Nat
    BY <2>10
  <2>12. m + 1 - 1 = m
    OBVIOUS
  <2>11. ASSUME NEW i \in 0..m
         PROVE  /\ W[i].size < d.size
                /\ W[i + 1].size = W[i].size + EntrySize + SizeField(ims[i + 1])
                /\ W[i].size \in DOMAIN d.at
                /\ d.at[W[i].size] = EntryFor(ims[i + 1])
    <3>1. CASE i = m
      <4>1. W[i] = c /\ W[i + 1] = d /\ ims[i + 1] = im
        BY <3>1 DEF c, d, im
      <4>2. c.size < d.size
        BY <2>10, Zenon
      <4> QED
        BY <2>4, <2>8, <4>1, <4>2, Zenon
    <3>2. CASE i # m
      <4>1. i \in 0..(m - 1) /\ i \in 0..n
        BY <1>1, <2>1, <3>2
      <4>2. W[i].size \in Nat
        BY <1>2, <4>1 DEF Containers
      <4>3. /\ W[i].size < c.size /\ W[i].size \in DOMAIN c.at
            /\ W[i + 1].size = W[i].size + EntrySize + SizeField(ims[i + 1])
            /\ c.at[W[i].size] = EntryFor(ims[i + 1])
        BY <2>5, <4>1
      <4>4. W[i].size # c.size /\ W[i].size < d.size
        <5> DEFINE x == W[i].size
                   y == c.size
                   z == d.size
        <5>1. x \in Nat /\ y \in Nat /\ z \in Nat /\ x < y /\ y < z
          BY <2>3, <2>0, <2>10, <4>2, <4>3, Zenon
        <5> HIDE DEF x, y, z
        <5>2. x # y /\ x < z
          BY <5>1
        <5> QED BY <5>2, Zenon DEF x, y, z
      <4> QED
        BY <2>4, <4>3, <4>4
    <3> QED
      BY <3>1, <3>2
  <2>13. \E x \in Nat : d.size = 8 * x
    BY <2>10, Zenon
  <2>14. ASSUME NEW i \in 0..m PROVE LaidDown(ims, m + 1, i)
    BY <2>11 DEF LaidDown, W, d
  <2>15. 80 * (m + 1) <= d.size
    BY <2>10
  <2> QED
    BY <2>12, <2>13, <2>14, <2>15 DEF WellWritten, W, d
<1> HIDE DEF T
<1>5. \A m \in Nat : m \in T
  BY <1>3, <1>4, SetInduction
<1>6. \A m \in 0..n : WellWritten(ims, m)
  BY <1>1, <1>5 DEF T
<1> QED
  BY <1>6 DEF n

Walkers == [p : Nat, best : Int, arch : Nat]
Start0 == [p |-> 0, best |-> 0, arch |-> 0]

\* A turn of the loop leaves numbers.
LEMMA TurnTyped ==
  ASSUME NEW c \in Containers, NEW sm, NEW w \in Walkers
  PROVE  Turn(c, sm, w) \in Walkers
<1>1. c.size \in Nat /\ \E D \in SUBSET Nat : c.at \in [D -> Entry]
  BY DEF Containers
<1>2. w.p \in Nat /\ w.best \in Int /\ w.arch \in Nat
  BY DEF Walkers
<1>3. CASE w.p + StructSize > c.size
  BY <1>3 DEF Turn
<1>4. CASE ~(w.p + StructSize > c.size) /\ w.p \notin DOMAIN c.at
  <2>1. Turn(c, sm, w) = [p |-> c.size, best |-> -1, arch |-> 0]
    BY <1>4 DEF Turn
  <2> QED
    BY <1>1, <2>1 DEF Walkers
<1>5. CASE ~(w.p + StructSize > c.size) /\ w.p \in DOMAIN c.at
  <2> DEFINE e == c.at[w.p]
             next == w.p + EntrySize + e.size
  <2>1. e \in Entry
    BY <1>1, <1>5, Zenon
  <2>2. e.size \in Nat /\ e.arch \in Nat
    BY <2>1 DEF Entry
  <2>3. next \in Nat /\ w.p + EntrySize \in Int
    BY <1>2, <2>2 DEF EntrySize
  <2>4. \/ Turn(c, sm, w) = [p |-> next, best |-> w.p + EntrySize, arch |-> e.arch]
        \/ Turn(c, sm, w) = [w EXCEPT !.p = next]
    BY <1>5 DEF Turn
  <2> HIDE DEF next, e
  <2> QED
    BY <1>2, <2>2, <2>3, <2>4 DEF Walkers
<1> QED
  BY <1>3, <1>4, <1>5

\* Walked takes the turns one by one.
LEMMA WalkedSteps ==
  ASSUME NEW c \in Containers, NEW sm
  PROVE  /\ Walked(c, sm)[0] = Start0
         /\ \A i \in Nat : /\ Walked(c, sm)[i] \in Walkers
                           /\ Walked(c, sm)[i + 1] = Turn(c, sm, Walked(c, sm)[i])
<1> DEFINE Body(f, i) == IF i = 0 THEN Start0 ELSE Turn(c, sm, f[i - 1])
           Out == CHOOSE f : f = [i \in Nat |-> Body(f, i)]
           step == [i \in Nat |-> [w \in Walkers |-> Turn(c, sm, w)]]
<1>1. Walked(c, sm) = Out
  BY DEF Walked, Start0
<1>2. Start0 \in Walkers
  BY DEF Start0, Walkers
<1>3. step \in [Nat -> [Walkers -> Walkers]]
  BY TurnTyped
<1>4. \A i \in Nat, w \in Walkers : step[i][w] = Turn(c, sm, w)
  OBVIOUS
<1> HIDE DEF step
<1>5. PICK f : Solves(f, Walkers, Start0, step)
  BY <1>2, <1>3, RecursionExists, Zenon
<1>6. f \in [Nat -> Walkers] /\ f[0] = Start0 /\ \A i \in Nat \ {0} : f[i] = step[i][f[i - 1]]
  BY <1>5 DEF Solves
<1>7. ASSUME NEW i \in Nat \ {0} PROVE f[i] = Turn(c, sm, f[i - 1])
  <2>1. i - 1 \in Nat /\ f[i - 1] \in Walkers
    BY <1>6
  <2> QED
    BY <1>4, <1>6, <2>1
<1>8. f = [i \in Nat |-> Body(f, i)]
  <2>1. \A i \in Nat : f[i] = Body(f, i)
    BY <1>6, <1>7
  <2> HIDE DEF Body
  <2> QED
    BY <1>6, <2>1
<1>9. Out = [i \in Nat |-> Body(Out, i)]
  BY <1>8, Zenon
<1> HIDE DEF Out
<1>10. Out[0] = Start0 /\ \A i \in Nat \ {0} : Out[i] = Turn(c, sm, Out[i - 1])
  BY <1>9
<1>11. ASSUME NEW i \in Nat PROVE Out[i + 1] = Turn(c, sm, Out[i])
  <2>1. i + 1 \in Nat \ {0} /\ i + 1 - 1 = i
    OBVIOUS
  <2> QED
    BY <1>10, <2>1
<1>12. \A i \in Nat : Out[i] \in Walkers
  <2> DEFINE T == {i \in Nat : Out[i] \in Walkers}
  <2>1. 0 \in T
    BY <1>2, <1>10
  <2>2. ASSUME NEW i \in Nat, i \in T PROVE i + 1 \in T
    <3>1. i + 1 \in Nat
      OBVIOUS
    <3> QED
      BY <1>11, <2>2, <3>1, TurnTyped
  <2> HIDE DEF T
  <2>3. \A i \in Nat : i \in T
    BY <2>1, <2>2, SetInduction, Zenon
  <2> QED
    BY <2>3 DEF T
<1> QED
  BY <1>1, <1>10, <1>11, <1>12

\* The images among the first m that the device runs, and the best of them.
Runs(ims, sm, j) == ims[j].kind = "ptx" /\ ims[j].sm <= sm
IsBest(ims, sm, m, b) ==
  /\ b \in 1..m /\ Runs(ims, sm, b)
  /\ \A j \in 1..m : Runs(ims, sm, j) =>
       ims[j].sm <= ims[b].sm /\ (j < b => ims[j].sm < ims[b].sm)

\* What the loop has found after it has passed m entries.
HasFound(ims, sm, m, w) ==
  /\ w.p = Written(ims)[m].size
  /\ \/ w.best = 0 /\ \A j \in 1..m : ~Runs(ims, sm, j)
     \/ \E b \in 1..m : /\ IsBest(ims, sm, m, b)
                        /\ w.best = PayloadAt(ims, b) /\ w.arch = ims[b].sm

\* The loop passes an entry.
LEMMA TurnFinds ==
  ASSUME NEW ims \in Seq(Image), NEW sm, NEW m \in 0..(Len(ims) - 1), NEW w \in Walkers,
         HasFound(ims, sm, m, w)
  PROVE  HasFound(ims, sm, m + 1, Turn(Fatbin(ims), sm, w))
<1> DEFINE n == Len(ims)
           W == Written(ims)
           c == W[n]
           e == c.at[w.p]
           im == ims[m + 1]
           v == Turn(c, sm, w)
<1>1. /\ n \in Nat /\ m \in 0..n /\ m + 1 \in 0..n /\ m + 1 \in 1..n /\ n \in 0..n /\ m \in Nat
      /\ m \in 0..(n - 1) /\ 1..m \subseteq 1..n
  BY SeqIndexed
<1>2. \A i \in 1..n : ims[i] \in Image
  BY <1>1, SeqIndexed
<1>3. \A i \in 0..n : W[i] \in Containers /\ W[i].size \in Nat
  BY WrittenSteps DEF Containers
<1>4. WellWritten(ims, n)
  BY <1>1, EntriesFound
<1>5. Fatbin(ims) = c
  BY DEF Fatbin
<1> HIDE DEF n
<1>6. LaidDown(ims, n, m)
  BY <1>1, <1>4, Zenon DEF WellWritten
<1>7. /\ w.p = W[m].size /\ w.p \in DOMAIN c.at /\ e = EntryFor(im)
      /\ W[m + 1].size = W[m].size + EntrySize + SizeField(im)
  BY <1>6 DEF LaidDown, HasFound
<1>8. W[m + 1].size <= c.size
  <2>1. CASE m + 1 = n
    BY <1>1, <1>3, <2>1
  <2>2. CASE m + 1 # n
    <3>1. m + 1 \in 0..(n - 1)
      BY <1>1, <2>2
    <3>2. LaidDown(ims, n, m + 1)
      BY <1>4, <3>1 DEF WellWritten
    <3> QED
      BY <1>1, <1>3, <3>2 DEF LaidDown
  <2> QED
    BY <2>1, <2>2
<1>9. im \in Image /\ SizeField(im) \in Nat
  BY <1>1, <1>2, Sizes, Zenon
<1>10. /\ e.kind = im.kind /\ e.arch = im.sm /\ e.size = SizeField(im)
       /\ im.sm \in Nat
  BY <1>7, <1>9 DEF EntryFor, Image
<1>11. W[m].size \in Nat /\ W[m + 1].size \in Nat /\ c.size \in Nat
  BY <1>1, <1>3, Zenon
<1>13. w.p + EntrySize + e.size = W[m + 1].size
  BY <1>7, <1>10
<1>14. m + 1 - 1 = m
  BY <1>1
<1>15. PayloadAt(ims, m + 1) = w.p + EntrySize
  BY <1>7, <1>14 DEF PayloadAt
<1> HIDE DEF W, c, e, im
<1>12. ~(w.p + StructSize > c.size)
  <2> DEFINE a == w.p
             b == W[m + 1].size
             k == SizeField(im)
             z == c.size
  <2>1. a \in Nat /\ b \in Nat /\ k \in Nat /\ z \in Nat /\ b = a + 80 + k /\ b <= z
    BY <1>7, <1>8, <1>9, <1>11 DEF EntrySize
  <2> HIDE DEF a, b, k, z
  <2>2. ~(a + 64 > z)
    BY <2>1
  <2> QED
    BY <2>2 DEF a, z, StructSize
<1>16. /\ Takes(e, sm, w.best, w.arch) =>
            v = [p |-> W[m + 1].size, best |-> PayloadAt(ims, m + 1), arch |-> im.sm]
       /\ ~Takes(e, sm, w.best, w.arch) => v = [w EXCEPT !.p = W[m + 1].size]
  BY <1>7, <1>10, <1>12, <1>13, <1>15 DEF Turn, e
<1> HIDE DEF v
<1>17. /\ Takes(e, sm, w.best, w.arch) =>
            v.p = W[m + 1].size /\ v.best = PayloadAt(ims, m + 1) /\ v.arch = im.sm
       /\ ~Takes(e, sm, w.best, w.arch) => v.p = W[m + 1].size /\ v.best = w.best /\ v.arch = w.arch
  BY <1>16 DEF Walkers
<1>18. Takes(e, sm, w.best, w.arch) <=> Runs(ims, sm, m + 1) /\ (w.best = 0 \/ im.sm > w.arch)
  BY <1>10 DEF Takes, Runs, im
<1>19. \A j \in 1..(m + 1) : j \in 1..m \/ j = m + 1
  BY <1>1
<1>20. m + 1 \in 1..(m + 1) /\ 1..m \subseteq 1..(m + 1) /\ \A j \in 1..m : j < m + 1 /\ ~(m + 1 < j)
  BY <1>1
<1>21. \A j \in 1..n : ims[j].sm \in Nat
  BY <1>2, Zenon DEF Image
<1>22. ims[m + 1] = im
  BY DEF im
<1>23. CASE w.best = 0 /\ \A j \in 1..m : ~Runs(ims, sm, j)
  <2>1. CASE Runs(ims, sm, m + 1)
    <3>1. IsBest(ims, sm, m + 1, m + 1)
      BY <1>1, <1>10, <1>19, <1>20, <1>22, <1>23, <2>1 DEF IsBest
    <3> QED
      BY <1>5, <1>17, <1>18, <1>20, <1>22, <1>23, <2>1, <3>1, Zenon DEF HasFound, W, v
  <2>2. CASE ~Runs(ims, sm, m + 1)
    <3>1. \A j \in 1..(m + 1) : ~Runs(ims, sm, j)
      BY <1>19, <1>23, <2>2
    <3> QED
      BY <1>5, <1>17, <1>18, <1>23, <2>2, <3>1, Zenon DEF HasFound, W, v
  <2> QED
    BY <2>1, <2>2
<1>24. CASE \E b \in 1..m : IsBest(ims, sm, m, b) /\ w.best = PayloadAt(ims, b) /\ w.arch = ims[b].sm
  <2>1. PICK b \in 1..m : IsBest(ims, sm, m, b) /\ w.best = PayloadAt(ims, b) /\ w.arch = ims[b].sm
    BY <1>24
  <2>2. w.best # 0
    <3>1. b - 1 \in 0..n
      BY <1>1
    <3>2. W[b - 1].size \in Nat
      BY <1>3, <3>1, Zenon
    <3> QED
      BY <2>1, <3>2 DEF PayloadAt, EntrySize, W
  <2>3. CASE Takes(e, sm, w.best, w.arch)
    <3>1. Runs(ims, sm, m + 1) /\ im.sm > ims[b].sm
      BY <1>18, <2>1, <2>2, <2>3, Zenon
    <3>2. ASSUME NEW j \in 1..m, Runs(ims, sm, j) PROVE ims[j].sm < im.sm
      <4>1. ims[j].sm <= ims[b].sm /\ ims[j].sm \in Nat /\ ims[b].sm \in Nat
        BY <1>1, <1>21, <2>1, <3>2, Zenon DEF IsBest
      <4> QED
        BY <1>10, <3>1, <4>1
    <3>3. \A j \in 1..m : Runs(ims, sm, j) => ims[j].sm <= im.sm /\ ims[j].sm < im.sm
      BY <1>1, <1>10, <1>21, <3>2
    <3>4. im.sm <= im.sm /\ ~(m + 1 < m + 1)
      BY <1>1, <1>10
    <3>5. IsBest(ims, sm, m + 1, m + 1)
      BY <1>19, <1>20, <1>22, <3>1, <3>3, <3>4, Zenon DEF IsBest
    <3> QED
      BY <1>5, <1>17, <1>20, <1>22, <2>3, <3>5, Zenon DEF HasFound, W, v
  <2>4. CASE ~Takes(e, sm, w.best, w.arch)
    <3>1. Runs(ims, sm, m + 1) => im.sm <= ims[b].sm
      <4>1. ims[b].sm \in Nat
        BY <1>1, <1>21
      <4> QED
        BY <1>10, <1>18, <2>1, <2>4, <4>1
    <3>2. IsBest(ims, sm, m + 1, b)
      BY <1>19, <1>20, <1>22, <2>1, <3>1 DEF IsBest
    <3> QED
      BY <1>5, <1>17, <1>20, <2>1, <2>4, <3>2, Zenon DEF HasFound, W, v
  <2> QED
    BY <2>3, <2>4, Zenon
<1> QED
  BY <1>23, <1>24 DEF HasFound

\* After as many turns as there are entries the loop stops, with what it found.
LEMMA WalkFinds ==
  ASSUME NEW ims \in Seq(Image), NEW sm
  PROVE  \A t \in Nat : t >= Len(ims) => HasFound(ims, sm, Len(ims), Walked(Fatbin(ims), sm)[t])
<1> DEFINE n == Len(ims)
           c == Fatbin(ims)
           w == Walked(c, sm)
           At(t) == IF t <= n THEN t ELSE n
           T == {t \in Nat : HasFound(ims, sm, At(t), w[t])}
<1>1. n \in Nat /\ n \in 0..n
  BY SeqIndexed
<1>2. c = Written(ims)[n] /\ c \in Containers /\ c.size \in Nat
  BY <1>1, WrittenSteps DEF Fatbin, Containers
<1>3. w[0] = Start0 /\ \A i \in Nat : w[i] \in Walkers /\ w[i + 1] = Turn(c, sm, w[i])
  BY <1>2, WalkedSteps, Zenon
<1> HIDE DEF n, w
<1>4. 0 \in T
  <2>1. At(0) = 0 /\ 1..0 = {}
    BY <1>1
  <2>2. Written(ims)[0].size = 0
    BY WrittenSteps DEF EmptyContainer
  <2>3. HasFound(ims, sm, 0, Start0)
    BY <2>1, <2>2 DEF HasFound, Start0
  <2> QED
    BY <1>3, <2>1, <2>3
<1>5. ASSUME NEW t \in Nat, t \in T PROVE t + 1 \in T
  <2>1. t + 1 \in Nat /\ w[t] \in Walkers /\ w[t + 1] = Turn(c, sm, w[t])
    BY <1>3
  <2>2. CASE t + 1 <= n
    <3>1. t \in 0..(n - 1) /\ At(t) = t /\ At(t + 1) = t + 1
      BY <1>1, <2>2
    <3>2. HasFound(ims, sm, t, w[t])
      BY <1>5, <3>1
    <3>3. HasFound(ims, sm, t + 1, w[t + 1])
      BY <2>1, <3>1, <3>2, TurnFinds DEF n
    <3> QED
      BY <2>1, <3>1, <3>3, Zenon
  <2>3. CASE ~(t + 1 <= n)
    <3>1. At(t) = n /\ At(t + 1) = n
      BY <1>1, <2>3
    <3>2. HasFound(ims, sm, n, w[t])
      BY <1>5, <3>1
    <3>3. w[t].p + StructSize > c.size
      BY <1>2, <3>2 DEF HasFound, StructSize
    <3>4. w[t + 1] = w[t]
      BY <2>1, <3>3 DEF Turn
    <3> QED
      BY <2>1, <3>1, <3>2, <3>4
  <2> QED
    BY <2>2, <2>3
<1> HIDE DEF T
<1>6. \A t \in Nat : t \in T
  BY <1>4, <1>5, SetInduction
<1>7. ASSUME NEW t \in Nat, t >= n PROVE HasFound(ims, sm, n, w[t])
  <2>1. At(t) = n
    BY <1>1, <1>7
  <2> QED
    BY <1>6, <2>1 DEF T
<1> QED
  BY <1>7 DEF n, w

\* findImage finds the newest image the device runs, whatever images there are
\* and however their payloads end: the container the writer lays out is the one
\* the runtime walks.
THEOREM FindsNewest ==
  ASSUME NEW ims \in Seq(Image), NEW sm
  PROVE  /\ findImage(Fatbin(ims), sm) =
              IF Newest(ims, sm) = 0 THEN 0 ELSE PayloadAt(ims, Newest(ims, sm))
         /\ Newest(ims, sm) # 0 => Newest(ims, sm) \in Runnable(ims, sm)
<1> DEFINE n == Len(ims)
           c == Fatbin(ims)
           t == c.size \div StructSize
           w == Walked(c, sm)[t]
           R == Runnable(ims, sm)
           M == {i \in R : \A j \in R : ims[j].sm <= ims[i].sm}
<1>1. n \in Nat /\ n \in 0..n /\ DOMAIN ims = 1..n
  BY SeqIndexed
<1>2. c.size \in Nat /\ 80 * n <= c.size
  <2>1. c = Written(ims)[n] /\ c \in Containers
    BY <1>1, WrittenSteps DEF Fatbin
  <2> QED
    BY <1>1, <2>1, EntriesFound DEF WellWritten, Containers
<1>3. \A i \in 1..n : ims[i].sm \in Nat
  <2>1. \A i \in 1..n : ims[i] \in Image
    BY <1>1, SeqIndexed
  <2> QED
    BY <2>1 DEF Image
<1>4. findImage(c, sm) = w.best
  BY DEF findImage
<1> HIDE DEF c, n
<1>5. t \in Nat /\ t >= n
  BY <1>1, <1>2 DEF StructSize
<1>6. HasFound(ims, sm, n, w)
  BY <1>5, WalkFinds DEF n, c
<1> HIDE DEF w
<1>7. \A j : j \in R <=> j \in 1..n /\ Runs(ims, sm, j)
  BY <1>1 DEF Runnable, Runs
<1>8. Newest(ims, sm) = IF R = {} THEN 0 ELSE Min(M)
  BY DEF Newest
<1> HIDE DEF R
<1>9. CASE w.best = 0 /\ \A j \in 1..n : ~Runs(ims, sm, j)
  <2>1. R = {}
    BY <1>7, <1>9
  <2> QED
    BY <1>4, <1>8, <1>9, <2>1 DEF c
<1>10. CASE \E b \in 1..n : IsBest(ims, sm, n, b) /\ w.best = PayloadAt(ims, b) /\ w.arch = ims[b].sm
  <2>1. PICK b \in 1..n : IsBest(ims, sm, n, b) /\ w.best = PayloadAt(ims, b)
    BY <1>10
  <2>2. b \in M
    BY <1>7, <2>1 DEF IsBest
  <2>3. ASSUME NEW i \in M PROVE b <= i /\ i \in Nat
    <3>1. i \in 1..n /\ Runs(ims, sm, i) /\ ims[b].sm <= ims[i].sm
      BY <1>7, <2>2
    <3>2. i < b => ims[i].sm < ims[b].sm
      BY <2>1, <3>1 DEF IsBest
    <3>3. ims[i].sm \in Nat /\ ims[b].sm \in Nat
      BY <1>3, <3>1
    <3> QED
      BY <1>1, <3>1, <3>2, <3>3
  <2>4. R # {} /\ b \in R
    BY <2>2
  <2> HIDE DEF M
  <2>5. Min(M) \in M /\ \A i \in M : Min(M) <= i
    <3>1. \E z \in M : \A i \in M : z <= i
      BY <2>2, <2>3
    <3> QED
      BY <3>1, Zenon DEF Min
  <2>6. Min(M) = b
    <3>1. b <= Min(M) /\ Min(M) <= b /\ Min(M) \in Nat
      BY <2>2, <2>3, <2>5, Zenon
    <3> QED
      BY <3>1
  <2>7. Newest(ims, sm) = b /\ b # 0
    BY <1>8, <2>4, <2>6
  <2> QED
    BY <1>4, <2>1, <2>4, <2>7, Zenon DEF c, R
<1> QED
  BY <1>6, <1>9, <1>10 DEF HasFound

\* An image a device runs, a newer one does too.
LEMMA RunsOnNewer ==
  ASSUME NEW ims \in Seq(Image), NEW r \in Nat, NEW sm \in Nat, r <= sm,
         NEW i \in Runnable(ims, r)
  PROVE  i \in Runnable(ims, sm)
<1>1. i \in DOMAIN ims /\ ims[i] \in Image
  BY SeqIndexed DEF Runnable
<1> QED BY <1>1 DEF Runnable, Image

-----------------------------------------------------------------------------
(* Static objects *)

Handlers == [k : {"object"}, x : Objects] \cup [k : {"registration"}, x : Offloads]
Phases == {"startup", "main", "exit", "over", "aborted"}

Type ==
  /\ startup \in Seq(Entries)
  /\ stack \in Seq(Objects)
  /\ guards \subseteq Locals
  /\ alive \in Seq(Objects)
  /\ handlers \in Seq(Handlers)
  /\ dying \subseteq Objects
  /\ phase \in Phases

Injective(s) == \A i, j \in DOMAIN s : s[i] = s[j] => i = j

\* What startup has still to call has left no trace, and an object is being
\* initialized, alive or being destroyed, and of these only one.
EachOnce == Injective(startup) /\ Injective(stack) /\ Injective(alive) /\ Injective(handlers)
NoTrace ==
  \A i \in DOMAIN startup :
    /\ \A j \in DOMAIN handlers : handlers[j] # startup[i]
    /\ \A j \in DOMAIN stack : startup[i] # Object(stack[j])
    /\ \A j \in DOMAIN alive : startup[i] # Object(alive[j])
    /\ \A x \in dying : startup[i] # Object(x)
OneState ==
  /\ \A i \in DOMAIN stack : \A j \in DOMAIN alive : stack[i] # alive[j]
  /\ \A i \in DOMAIN stack : stack[i] \notin dying
  /\ \A i \in DOMAIN alive : alive[i] \notin dying
Apart == EachOnce /\ NoTrace /\ OneState

\* A static local that has been reached has its guard set.
Reached ==
  /\ \A i \in DOMAIN stack : stack[i] \in Locals => stack[i] \in guards
  /\ \A i \in DOMAIN alive : alive[i] \in Locals => alive[i] \in guards
  /\ \A x \in dying : x \in Locals => x \in guards

\* The exit list holds the objects alive that have a destructor, in the order
\* in which they were finished.
Accounted(h, a) ==
  \A p \in DOMAIN h : h[p].k = "object" => \E i \in DOMAIN a : h[p] = Object(a[i])
Kept(h, a) ==
  \A i \in DOMAIN a : a[i] \in Destroyed => \E p \in DOMAIN h : h[p] = Object(a[i])
InOrder(h, a) ==
  \A p, q \in DOMAIN h : \A i, j \in DOMAIN a :
    h[p] = Object(a[i]) /\ h[q] = Object(a[j]) /\ i < j => p < q
Listed == Accounted(handlers, alive) /\ Kept(handlers, alive) /\ InOrder(handlers, alive)

\* Nothing is left once the walk of the list has come to its end.
Emptied == phase = "over" => handlers = <<>> /\ stack = <<>> /\ dying = {}

IInv == Type /\ Apart /\ Reached /\ Listed /\ Emptied

-----------------------------------------------------------------------------
(* Parts of a sequence *)

\* A prefix of a sequence, element by element.
LEMMA Prefix ==
  ASSUME NEW S, NEW s \in Seq(S), NEW n \in 0..Len(s)
  PROVE  /\ SubSeq(s, 1, n) \in Seq(S) /\ Len(SubSeq(s, 1, n)) = n
         /\ \A i \in 1..n : SubSeq(s, 1, n)[i] = s[i]
<1>1. Len(s) \in Nat /\ \A i \in 1..Len(s) : s[i] \in S
  BY SeqIndexed
<1>2. 1 \in Int /\ n \in Int /\ \A i \in 1..n : s[i] \in S
  BY <1>1
<1>3. /\ SubSeq(s, 1, n) \in Seq(S)
      /\ Len(SubSeq(s, 1, n)) = IF 1 <= n THEN n - 1 + 1 ELSE 0
      /\ \A i \in 1..n - 1 + 1 : SubSeq(s, 1, n)[i] = s[1 + i - 1]
  BY <1>2, SeqPart
<1> QED BY <1>1, <1>3

\* Front and Last of a sequence, element by element.
LEMMA FrontLast ==
  ASSUME NEW S, NEW s \in Seq(S), s # <<>>
  PROVE  /\ Len(s) \in Nat \ {0} /\ Last(s) \in S /\ Last(s) = s[Len(s)]
         /\ Front(s) \in Seq(S) /\ Len(Front(s)) = Len(s) - 1
         /\ \A i \in 1..Len(s) - 1 : Front(s)[i] = s[i]
<1>1. Len(s) \in Nat \ {0} /\ \A i \in 1..Len(s) : s[i] \in S
  BY SeqIndexed
<1>2. Len(s) - 1 \in 0..Len(s) /\ Len(s) \in 1..Len(s)
  BY <1>1
<1>3. /\ Front(s) \in Seq(S) /\ Len(Front(s)) = Len(s) - 1
      /\ \A i \in 1..Len(s) - 1 : Front(s)[i] = s[i]
  BY <1>2, Prefix, Zenon DEF Front
<1> QED BY <1>1, <1>2, <1>3 DEF Last

\* Without, element by element.
LEMMA Removed ==
  ASSUME NEW S, NEW s \in Seq(S), NEW n \in 1..Len(s)
  PROVE  /\ Without(s, n) \in Seq(S) /\ Len(Without(s, n)) = Len(s) - 1
         /\ \A i \in 1..Len(s) - 1 : Without(s, n)[i] = IF i < n THEN s[i] ELSE s[i + 1]
<1> DEFINE a == SubSeq(s, 1, n - 1)
           b == SubSeq(s, n + 1, Len(s))
<1>0. Len(s) \in Nat /\ \A i \in 1..Len(s) : s[i] \in S
  BY SeqIndexed
<1>1. a \in Seq(S) /\ Len(a) = n - 1 /\ \A i \in 1..n - 1 : a[i] = s[i]
  <2>1. n - 1 \in 0..Len(s)
    BY <1>0
  <2> QED BY <2>1, Prefix
<1>2. b \in Seq(S) /\ Len(b) = Len(s) - n /\ \A i \in 1..Len(s) - n : b[i] = s[i + n]
  <2>1. n + 1 \in Int /\ Len(s) \in Int /\ \A i \in n + 1..Len(s) : s[i] \in S
    BY <1>0
  <2>2. /\ b \in Seq(S) /\ Len(b) = IF n + 1 <= Len(s) THEN Len(s) - (n + 1) + 1 ELSE 0
        /\ \A i \in 1..Len(s) - (n + 1) + 1 : b[i] = s[n + 1 + i - 1]
    BY <2>1, SeqPart
  <2> HIDE DEF b
  <2>3. Len(b) = Len(s) - n
    BY <1>0, <2>2
  <2>4. ASSUME NEW i \in 1..Len(s) - n PROVE b[i] = s[i + n]
    <3>1. i \in 1..Len(s) - (n + 1) + 1 /\ n + 1 + i - 1 = i + n
      BY <1>0
    <3> QED BY <2>2, <3>1
  <2> QED BY <2>2, <2>3, <2>4
<1>3. Without(s, n) = a \o b
  BY DEF Without
<1> HIDE DEF a, b
<1>4. /\ a \o b \in Seq(S) /\ Len(a \o b) = Len(a) + Len(b)
      /\ \A i \in 1..Len(a) + Len(b) : (a \o b)[i] = IF i <= Len(a) THEN a[i] ELSE b[i - Len(a)]
  BY <1>1, <1>2, SeqConcat, Zenon
<1>5. ASSUME NEW i \in 1..Len(s) - 1, i < n
      PROVE  (a \o b)[i] = s[i]
  BY <1>0, <1>1, <1>2, <1>4, <1>5
<1>6. ASSUME NEW i \in 1..Len(s) - 1, ~(i < n)
      PROVE  (a \o b)[i] = s[i + 1]
  <2>1. i - Len(a) \in 1..Len(s) - n /\ i - Len(a) + n = i + 1 /\ ~(i <= Len(a))
    BY <1>0, <1>1, <1>6
  <2>2. i \in 1..Len(a) + Len(b)
    BY <1>0, <1>1, <1>2
  <2>3. (a \o b)[i] = b[i - Len(a)]
    BY <1>4, <2>1, <2>2
  <2>4. b[i - Len(a)] = s[i - Len(a) + n]
    BY <1>2, <2>1, Zenon
  <2> QED BY <2>1, <2>3, <2>4, Zenon
<1> QED BY <1>0, <1>1, <1>2, <1>3, <1>4, <1>5, <1>6

\* The head and the tail of a sequence, element by element.
LEMMA HeadTail ==
  ASSUME NEW S, NEW s \in Seq(S), s # <<>>
  PROVE  /\ Len(s) \in Nat \ {0} /\ Head(s) \in S /\ Head(s) = s[1]
         /\ Tail(s) \in Seq(S) /\ Len(Tail(s)) = Len(s) - 1
         /\ \A i \in 1..Len(s) - 1 : Tail(s)[i] = s[i + 1]
  OBVIOUS

\* A sequence with one element more, element by element.
Longer(s, e, t) ==
  /\ Len(s) \in Nat /\ DOMAIN s = 1..Len(s)
  /\ Len(t) = Len(s) + 1 /\ DOMAIN t = 1..Len(s) + 1 /\ t[Len(s) + 1] = e
  /\ \A i \in DOMAIN s : i \in DOMAIN t /\ t[i] = s[i]
  /\ \A i \in DOMAIN t : (i \in DOMAIN s /\ t[i] = s[i]) \/ (i = Len(s) + 1 /\ t[i] = e)

\* An append is such a sequence.
LEMMA Appended ==
  ASSUME NEW S, NEW s \in Seq(S), NEW e \in S
  PROVE  Append(s, e) \in Seq(S) /\ Longer(s, e, Append(s, e))
<1> DEFINE t == Append(s, e)
<1>1. /\ Len(s) \in Nat /\ DOMAIN s = 1..Len(s)
      /\ t \in Seq(S) /\ Len(t) = Len(s) + 1 /\ DOMAIN t = 1..Len(s) + 1 /\ t[Len(s) + 1] = e
      /\ \A i \in 1..Len(s) : t[i] = s[i]
  OBVIOUS
<1>2. \A i \in 1..Len(s) + 1 : i \in 1..Len(s) \/ i = Len(s) + 1
  BY <1>1
<1>3. \A i \in 1..Len(s) : i \in 1..Len(s) + 1
  BY <1>1
<1> HIDE DEF t
<1>4. Longer(s, e, t)
  BY <1>1, <1>2, <1>3, Zenon DEF Longer
<1> QED
  BY <1>1, <1>4, Zenon DEF t

\* It repeats nothing if the new element is not in it.
LEMMA InjectiveAppend ==
  ASSUME NEW s, NEW e, NEW t, Longer(s, e, t), Injective(s), \A i \in DOMAIN s : s[i] # e
  PROVE  Injective(t)
<1> SUFFICES ASSUME NEW i \in DOMAIN t, NEW j \in DOMAIN t, t[i] = t[j] PROVE i = j
  BY Zenon DEF Injective
<1> QED
  BY Zenon DEF Longer, Injective

\* What is left of a sequence of distinct elements is distinct from its head.
LEMMA InjectiveTail ==
  ASSUME NEW S, NEW s \in Seq(S), s # <<>>, Injective(s)
  PROVE  /\ Injective(Tail(s))
         /\ \A i \in DOMAIN Tail(s) : Tail(s)[i] # Head(s) /\ i + 1 \in DOMAIN s /\ Tail(s)[i] = s[i + 1]
<1>1. /\ Len(s) \in Nat \ {0} /\ Head(s) = s[1] /\ DOMAIN s = 1..Len(s)
      /\ DOMAIN Tail(s) = 1..Len(s) - 1 /\ \A i \in 1..Len(s) - 1 : Tail(s)[i] = s[i + 1]
  BY HeadTail, SeqIndexed
<1>2. \A i \in 1..Len(s) - 1 : i \in Int /\ i + 1 \in 1..Len(s) /\ i + 1 # 1 /\ 1 \in 1..Len(s)
  BY <1>1
<1>3. ASSUME NEW i \in DOMAIN Tail(s)
      PROVE  Tail(s)[i] # Head(s) /\ i + 1 \in DOMAIN s /\ Tail(s)[i] = s[i + 1]
  BY <1>1, <1>2 DEF Injective
<1>4. ASSUME NEW i \in DOMAIN Tail(s), NEW j \in DOMAIN Tail(s), Tail(s)[i] = Tail(s)[j]
      PROVE  i = j
  <2>1. i + 1 = j + 1
    BY <1>3, <1>4 DEF Injective
  <2> QED BY <1>1, <1>2, <2>1
<1> QED BY <1>3, <1>4 DEF Injective

-----------------------------------------------------------------------------
(* The invariant holds at the start, and every action keeps it. *)

\* Nothing has happened: the startup order names each object and unit once.
LEMMA InitIInv == SInit => IInv
<1> SUFFICES ASSUME SInit PROVE IInv
  OBVIOUS
<1>1. startup \in Seq(Entries) /\ Injective(startup)
  BY StartupAssumption DEF SInit, Injective
<1>2. Type
  BY <1>1 DEF SInit, Type, Phases
<1>3. Apart /\ Reached /\ Listed /\ Emptied
  BY <1>1 DEF SInit, Apart, EachOnce, NoTrace, OneState, Injective, Reached, Listed, Accounted, Kept, InOrder, Emptied
<1> QED BY <1>2, <1>3 DEF IInv

\* A namespace-scope object's initializer begins.
LEMMA BeginObjectInv == IInv /\ BeginObject => IInv'
<1> SUFFICES ASSUME IInv, BeginObject PROVE IInv'
  OBVIOUS
<1> DEFINE x == Head(startup).x
<1>1. /\ Len(startup) \in Nat \ {0} /\ startup[1] \in Entries /\ Head(startup) = startup[1]
      /\ startup' \in Seq(Entries) /\ Len(startup') = Len(startup) - 1
      /\ \A i \in 1..Len(startup) - 1 : startup'[i] = startup[i + 1]
  BY HeadTail DEF IInv, Type, BeginObject
<1>2. startup[1] = Object(x) /\ x \in Objects /\ x \notin Locals
  BY <1>1 DEF BeginObject, Entries, Object
<1>3. stack' = <<x>> /\ UNCHANGED <<guards, alive, handlers, dying, phase>> /\ phase = "startup"
  BY DEF BeginObject
<1>4. DOMAIN startup = 1..Len(startup) /\ DOMAIN startup' = 1..Len(startup') /\ stack' \in Seq(Objects)
      /\ DOMAIN stack' = {1} /\ stack'[1] = x
  BY <1>1, <1>2, <1>3, SeqIndexed DEF IInv, Type
<1> HIDE DEF x
<1>5. Type'
  BY <1>1, <1>3, <1>4 DEF IInv, Type
<1>6. Apart'
  <2>1. Injective(startup') /\ \A i \in DOMAIN startup' : startup'[i] # Object(x)
    <3>1. /\ startup \in Seq(Entries) /\ Injective(startup)
          /\ startup # <<>> /\ startup' = Tail(startup)
      BY Zenon DEF IInv, Type, Apart, EachOnce, BeginObject
    <3> QED
      BY <1>1, <1>2, <3>1, InjectiveTail, ZenonT(40)
  <2>2. Injective(stack)' /\ Injective(alive)' /\ Injective(handlers)'
    BY <1>3, <1>4, Zenon DEF IInv, Apart, EachOnce, Injective
  <2>3. (\A i \in DOMAIN alive : alive[i] # x) /\ x \notin dying
    <3>1. 1 \in DOMAIN startup
      BY <1>1, <1>4
    <3> QED
      BY <1>2, <3>1, Zenon DEF IInv, Apart, NoTrace
  <2>4. \A i \in DOMAIN startup' : i + 1 \in DOMAIN startup /\ startup'[i] = startup[i + 1]
    BY <1>1, <1>4
  <2>5. EachOnce'
    BY <2>1, <2>2, Zenon DEF EachOnce
  <2>6. NoTrace'
    BY <1>3, <1>4, <2>1, <2>4, ZenonT(40) DEF IInv, Apart, NoTrace
  <2>7. OneState'
    BY <1>3, <1>4, <2>3, Zenon DEF IInv, Apart, OneState
  <2> QED BY <2>5, <2>6, <2>7, Zenon DEF Apart
<1>7. Reached' /\ Listed' /\ Emptied'
  BY <1>2, <1>3, <1>4 DEF IInv, Reached, Listed, Accounted, Kept, InOrder, Emptied
<1> QED BY <1>5, <1>6, <1>7 DEF IInv

\* A unit's registration is called, and its handler is added to the list.
LEMMA RegisterInv == ASSUME NEW u \in Offloads PROVE IInv /\ Register(u) => IInv'
<1> SUFFICES ASSUME IInv, Register(u) PROVE IInv'
  OBVIOUS
<1>1. /\ Len(startup) \in Nat \ {0} /\ startup[1] \in Entries /\ Head(startup) = startup[1]
      /\ startup' \in Seq(Entries) /\ Len(startup') = Len(startup) - 1
      /\ \A i \in 1..Len(startup) - 1 : startup'[i] = startup[i + 1]
  BY HeadTail DEF IInv, Type, Register
<1>2. /\ startup[1] = Registration(u) /\ handlers' = Append(handlers, Registration(u))
      /\ UNCHANGED <<stack, guards, alive, dying, phase>> /\ phase = "startup"
  BY <1>1 DEF Register, AtExit
<1>3. Registration(u) \in Handlers /\ \A x : Registration(u) # Object(x)
  BY DEF Registration, Object, Handlers
<1>4. DOMAIN startup = 1..Len(startup) /\ DOMAIN startup' = 1..Len(startup')
  BY <1>1, SeqIndexed, Zenon DEF IInv, Type
<1>5. /\ Len(handlers) \in Nat /\ DOMAIN handlers = 1..Len(handlers)
      /\ handlers' \in Seq(Handlers) /\ DOMAIN handlers' = 1..Len(handlers) + 1
      /\ handlers'[Len(handlers) + 1] = Registration(u)
      /\ \A p \in DOMAIN handlers' :
           (p \in DOMAIN handlers /\ handlers'[p] = handlers[p]) \/ handlers'[p] = Registration(u)
      /\ \A p \in DOMAIN handlers : p \in DOMAIN handlers' /\ handlers'[p] = handlers[p]
      /\ Longer(handlers, Registration(u), handlers')
  <2>1. handlers \in Seq(Handlers)
    BY Zenon DEF IInv, Type
  <2>2. handlers' \in Seq(Handlers) /\ Longer(handlers, Registration(u), handlers')
    BY <1>2, <1>3, <2>1, Appended, Zenon
  <2> QED
    BY <2>2, Zenon DEF Longer
<1>6. Type'
  BY <1>1, <1>2, <1>5, Zenon DEF IInv, Type
<1>7. Apart'
  <2>1. Injective(startup') /\ \A i \in DOMAIN startup' : startup'[i] # Registration(u)
    <3>1. /\ startup \in Seq(Entries) /\ Injective(startup)
          /\ startup # <<>> /\ startup' = Tail(startup)
      BY Zenon DEF IInv, Type, Apart, EachOnce, Register
    <3> QED
      BY <1>1, <1>2, <3>1, InjectiveTail, ZenonT(40)
  <2>2. \A p \in DOMAIN handlers : handlers[p] # Registration(u)
    <3>1. 1 \in DOMAIN startup
      BY <1>1, <1>4
    <3> QED
      BY <1>2, <3>1, Zenon DEF IInv, Apart, NoTrace
  <2>3. Injective(stack)' /\ Injective(alive)' /\ Injective(handlers)'
    <3>1. Injective(handlers) /\ Injective(stack) /\ Injective(alive)
      BY Zenon DEF IInv, Apart, EachOnce
    <3> QED
      BY <1>2, <1>5, <2>2, <3>1, InjectiveAppend, Zenon
  <2>4. \A i \in DOMAIN startup' : i + 1 \in DOMAIN startup /\ startup'[i] = startup[i + 1]
    BY <1>1, <1>4
  <2>5. \A i \in DOMAIN startup' : \A p \in DOMAIN handlers' : handlers'[p] # startup'[i]
    BY <1>5, <2>1, <2>4 DEF IInv, Apart, NoTrace
  <2>6. EachOnce'
    BY <2>1, <2>3, Zenon DEF EachOnce
  <2>7. NoTrace'
    BY <1>2, <2>4, <2>5, Zenon DEF IInv, Apart, NoTrace
  <2>8. OneState'
    BY <1>2, Zenon DEF IInv, Apart, OneState
  <2> QED BY <2>6, <2>7, <2>8, Zenon DEF Apart
<1>8. Reached' /\ Emptied'
  BY <1>2 DEF IInv, Reached, Emptied
<1>9. Listed'
  <2>1. \A p \in DOMAIN handlers' : handlers'[p] # Registration(u) => p \in DOMAIN handlers
    BY <1>5, Zenon
  <2>2. Registration(u).k # "object"
    BY DEF Registration
  <2> QED
    BY <1>2, <1>3, <1>5, <2>1, <2>2 DEF IInv, Listed, Accounted, Kept, InOrder
<1> QED BY <1>6, <1>7, <1>8, <1>9 DEF IInv

\* A static local is reached for the first time: its guard tells it from every
\* local reached before, and a namespace-scope object is no local.
LEMMA DeclareInv == ASSUME NEW x \in Locals PROVE IInv /\ DeclareStaticLocal(x) => IInv'
<1> SUFFICES ASSUME IInv, DeclareStaticLocal(x) PROVE IInv'
  OBVIOUS
<1>1. /\ x \notin guards /\ guards' = guards \cup {x} /\ stack' = Append(stack, x)
      /\ UNCHANGED <<startup, alive, handlers, dying, phase>>
  BY DEF DeclareStaticLocal, Guarded
<1>2. x \in Objects
  BY Zenon DEF Objects
<1>3. /\ Len(stack) \in Nat /\ DOMAIN stack = 1..Len(stack)
      /\ stack' \in Seq(Objects) /\ DOMAIN stack' = 1..Len(stack) + 1
      /\ stack'[Len(stack) + 1] = x
      /\ Longer(stack, x, stack')
      /\ \A i \in DOMAIN stack' : stack'[i] = x \/ (i \in DOMAIN stack /\ stack'[i] = stack[i])
  <2>1. stack \in Seq(Objects)
    BY Zenon DEF IInv, Type
  <2>2. stack' \in Seq(Objects) /\ Longer(stack, x, stack')
    BY <1>1, <1>2, <2>1, Appended, Zenon
  <2> QED
    BY <2>2, Zenon DEF Longer
<1>4. Type'
  BY <1>1, <1>3 DEF IInv, Type
<1>5. /\ \A i \in DOMAIN stack : stack[i] # x
      /\ \A i \in DOMAIN alive : alive[i] # x
      /\ x \notin dying
  BY <1>1 DEF IInv, Reached
<1>6. \A i \in DOMAIN startup : startup[i] # Object(x)
  <2>1. \A i \in DOMAIN startup : startup[i] \in Entries
    BY SeqIndexed, Zenon DEF IInv, Type
  <2>2. Object(x) \notin Entries
    BY DEF Entries, Object
  <2> QED
    BY <2>1, <2>2, Zenon
<1>7. Apart'
  <2>1. Injective(stack')
    <3>1. Injective(stack)
      BY Zenon DEF IInv, Apart, EachOnce
    <3>2. Longer(stack, x, stack') /\ \A i \in DOMAIN stack : stack[i] # x
      BY <1>3, <1>5, Zenon
    <3> QED
      BY <3>1, <3>2, InjectiveAppend
  <2>2. EachOnce'
    BY <1>1, <2>1, Zenon DEF IInv, Apart, EachOnce
  <2>3. NoTrace'
    BY <1>1, <1>3, <1>6 DEF IInv, Apart, NoTrace
  <2>4. OneState'
    BY <1>1, <1>3, <1>5 DEF IInv, Apart, OneState
  <2> QED BY <2>2, <2>3, <2>4, Zenon DEF Apart
<1>8. Reached'
  BY <1>1, <1>3, Zenon DEF IInv, Reached
<1>9. Listed' /\ Emptied'
  BY <1>1 DEF IInv, Listed, Emptied, DeclareStaticLocal, UserCode
<1> QED BY <1>4, <1>7, <1>8, <1>9 DEF IInv

\* An object is finished: last of those alive and, if it has a destructor, last
\* in the list.
LEMMA EndInitializerInv == IInv /\ EndInitializer => IInv'
<1> SUFFICES ASSUME IInv, EndInitializer PROVE IInv'
  OBVIOUS
<1> DEFINE x == Last(stack)
<1>1. /\ Len(stack) \in Nat \ {0} /\ x \in Objects /\ x = stack[Len(stack)]
      /\ stack' \in Seq(Objects) /\ Len(stack') = Len(stack) - 1
      /\ \A i \in 1..Len(stack) - 1 : stack'[i] = stack[i]
  BY FrontLast, Zenon DEF IInv, Type, EndInitializer
<1>2. /\ alive' = Append(alive, x) /\ UNCHANGED <<startup, guards, dying, phase>>
      /\ handlers' = IF x \in Destroyed THEN Append(handlers, Object(x)) ELSE handlers
  BY DEF EndInitializer, registerStaticDtor, AtExit
<1> HIDE DEF x
<1>3. DOMAIN stack = 1..Len(stack) /\ DOMAIN stack' = 1..Len(stack) - 1 /\ Len(stack) \in DOMAIN stack
  BY <1>1, SeqIndexed DEF IInv, Type
<1>4. /\ Len(alive) \in Nat /\ DOMAIN alive = 1..Len(alive)
      /\ alive' \in Seq(Objects) /\ DOMAIN alive' = 1..Len(alive) + 1
      /\ alive'[Len(alive) + 1] = x
      /\ Longer(alive, x, alive')
      /\ \A i \in DOMAIN alive : i \in DOMAIN alive' /\ alive'[i] = alive[i]
      /\ \A i \in DOMAIN alive' : alive'[i] = x \/ (i \in DOMAIN alive /\ alive'[i] = alive[i])
  <2>1. alive \in Seq(Objects)
    BY Zenon DEF IInv, Type
  <2>2. alive' \in Seq(Objects) /\ Longer(alive, x, alive')
    BY <1>1, <1>2, <2>1, Appended, Zenon
  <2> QED
    BY <2>2, Zenon DEF Longer
<1>5. Object(x) \in Handlers /\ handlers \in Seq(Handlers)
  <2>1. Object(x) \in Handlers
    BY <1>1 DEF Object, Handlers
  <2> QED
    BY <2>1, Zenon DEF IInv, Type
<1>6. /\ Len(handlers) \in Nat /\ DOMAIN handlers = 1..Len(handlers)
      /\ handlers' \in Seq(Handlers)
      /\ x \notin Destroyed => DOMAIN handlers' = 1..Len(handlers)
      /\ x \in Destroyed => /\ Longer(handlers, Object(x), handlers')
                            /\ DOMAIN handlers' = 1..Len(handlers) + 1
                            /\ handlers'[Len(handlers) + 1] = Object(x)
      /\ \A p \in DOMAIN handlers' :
           handlers'[p] = Object(x) \/ (p \in DOMAIN handlers /\ handlers'[p] = handlers[p])
      /\ \A p \in DOMAIN handlers : p \in DOMAIN handlers' /\ handlers'[p] = handlers[p]
  <2>1. CASE x \in Destroyed
    <3>1. handlers' \in Seq(Handlers) /\ Longer(handlers, Object(x), handlers')
      BY <1>2, <1>5, <2>1, Appended, Zenon
    <3> QED
      BY <2>1, <3>1, Zenon DEF Longer
  <2>2. CASE x \notin Destroyed
    <3>1. Len(handlers) \in Nat /\ DOMAIN handlers = 1..Len(handlers)
      BY <1>5, SeqIndexed, Zenon
    <3> QED
      BY <1>2, <1>5, <2>2, <3>1, Zenon
  <2> QED
    BY <2>1, <2>2, Zenon
<1>7. Type'
  BY <1>1, <1>2, <1>4, <1>6, Zenon DEF IInv, Type
<1>8. /\ \A i \in DOMAIN alive : alive[i] # x
      /\ x \notin dying
      /\ \A i \in DOMAIN startup : startup[i] # Object(x)
      /\ \A i \in DOMAIN stack' : i \in DOMAIN stack /\ stack'[i] = stack[i] /\ stack[i] # x
  <2>1. (\A i \in DOMAIN alive : alive[i] # x) /\ x \notin dying
    BY <1>1, <1>3, Zenon DEF IInv, Apart, OneState
  <2>2. \A i \in DOMAIN startup : startup[i] # Object(x)
    BY <1>1, <1>3, Zenon DEF IInv, Apart, NoTrace
  <2>3. \A i \in DOMAIN stack' : i \in DOMAIN stack /\ stack'[i] = stack[i] /\ i # Len(stack)
    BY <1>1, <1>3
  <2>4. \A i \in DOMAIN stack : stack[i] = x => i = Len(stack)
    BY <1>1, <1>3, Zenon DEF IInv, Apart, EachOnce, Injective
  <2> QED
    BY <2>1, <2>2, <2>3, <2>4, Zenon
<1>9. \A p \in DOMAIN handlers : handlers[p] # Object(x)
  <2> SUFFICES ASSUME NEW p \in DOMAIN handlers, handlers[p] = Object(x) PROVE FALSE
    OBVIOUS
  <2>1. PICK i \in DOMAIN alive : handlers[p] = Object(alive[i])
    BY DEF IInv, Listed, Accounted, Kept, InOrder, Object
  <2> QED BY <1>8, <2>1 DEF Object
<1>10. \A i \in DOMAIN alive' : alive'[i] = x \/ (i \in DOMAIN alive /\ alive'[i] = alive[i])
  BY <1>4, Zenon
<1>11. \A p \in DOMAIN handlers' :
         handlers'[p] = Object(x) \/ (p \in DOMAIN handlers /\ handlers'[p] = handlers[p])
  BY <1>6, Zenon
<1>12. Apart'
  <2>1. EachOnce'
    <3>1. /\ Injective(stack) /\ Injective(startup) /\ Injective(alive) /\ Injective(handlers)
      BY Zenon DEF IInv, Apart, EachOnce
    <3>2. Injective(stack') /\ Injective(startup')
      BY <1>2, <1>8, <3>1, Zenon DEF Injective
    <3>5. Longer(alive, x, alive') /\ \A i \in DOMAIN alive : alive[i] # x
      BY <1>4, <1>8, Zenon
    <3>3. Injective(alive')
      BY <3>1, <3>5, InjectiveAppend
    <3>4. Injective(handlers')
      <4>1. CASE x \in Destroyed
        BY <1>6, <1>9, <3>1, <4>1, InjectiveAppend, Zenon
      <4>2. CASE x \notin Destroyed
        BY <1>2, <3>1, <4>2, Zenon
      <4> QED
        BY <4>1, <4>2, Zenon
    <3> QED
      BY <3>2, <3>3, <3>4, Zenon DEF EachOnce
  <2>2. NoTrace'
    BY <1>2, <1>8, <1>10, <1>11 DEF IInv, Apart, NoTrace
  <2>3. OneState'
    BY <1>2, <1>8, <1>10, ZenonT(40) DEF IInv, Apart, OneState
  <2> QED BY <2>1, <2>2, <2>3, Zenon DEF Apart
<1>13. Reached'
  BY <1>1, <1>2, <1>3, <1>8, <1>10, Zenon DEF IInv, Reached
<1>14. Listed'
  <2>1. ASSUME NEW p \in DOMAIN handlers', handlers'[p].k = "object"
        PROVE  \E i \in DOMAIN alive' : handlers'[p] = Object(alive'[i])
    <3>1. Len(alive) + 1 \in DOMAIN alive' /\ \A i \in DOMAIN alive : i \in DOMAIN alive' /\ alive'[i] = alive[i]
      BY <1>4
    <3> QED BY <1>4, <1>11, <2>1, <3>1 DEF IInv, Listed, Accounted, Kept, InOrder
  <2>2. ASSUME NEW i \in DOMAIN alive', alive'[i] \in Destroyed
        PROVE  \E p \in DOMAIN handlers' : handlers'[p] = Object(alive'[i])
    BY <1>6, <1>10, <2>2 DEF IInv, Listed, Accounted, Kept, InOrder
  <2>3. ASSUME NEW p \in DOMAIN handlers', NEW q \in DOMAIN handlers',
               NEW i \in DOMAIN alive', NEW j \in DOMAIN alive',
               handlers'[p] = Object(alive'[i]), handlers'[q] = Object(alive'[j]), i < j
        PROVE  p < q
    <3>1. i \in DOMAIN alive /\ alive'[i] = alive[i] /\ alive[i] # x
      BY <1>4, <1>8, <2>3
    <3>2. handlers'[p] # Object(x)
      BY <2>3, <3>1 DEF Object
    <3>3. p \in DOMAIN handlers /\ handlers'[p] = handlers[p]
      BY <1>11, <3>2
    <3>4. CASE q \in DOMAIN handlers /\ handlers'[q] = handlers[q]
      <4>1. alive'[j] # x
        BY <1>9, <2>3, <3>4, Zenon
      <4>2. j \in DOMAIN alive /\ alive'[j] = alive[j]
        BY <1>10, <4>1
      <4> QED BY <2>3, <3>1, <3>3, <3>4, <4>2, Zenon DEF IInv, Listed, Accounted, Kept, InOrder
    <3>5. CASE ~(q \in DOMAIN handlers /\ handlers'[q] = handlers[q])
      BY <1>6, <3>3, <3>5
    <3> QED BY <3>4, <3>5
  <2> QED BY <2>1, <2>2, <2>3 DEF Listed, Accounted, Kept, InOrder
<1>15. Emptied'
  BY <1>2 DEF IInv, Emptied, EndInitializer
<1> QED BY <1>7, <1>12, <1>13, <1>14, <1>15 DEF IInv

\* What only takes initializers and destructors away, and leaves the lists.
LEMMA Leaves ==
  ASSUME IInv, NEW n \in 0..Len(stack),
         stack' = SubSeq(stack, 1, n), dying' \subseteq dying, phase' \in Phases,
         UNCHANGED <<startup, guards, alive, handlers>>,
         phase' = "over" => handlers = <<>> /\ stack' = <<>> /\ dying' = {}
  PROVE  IInv'
<1>1. stack \in Seq(Objects) /\ Len(stack) \in Nat
  BY SeqIndexed DEF IInv, Type
<1>2. stack' \in Seq(Objects) /\ Len(stack') = n /\ \A i \in 1..n : stack'[i] = stack[i]
  BY <1>1, Prefix
<1>3. \A i \in DOMAIN stack' : i \in DOMAIN stack /\ stack'[i] = stack[i]
  BY <1>1, <1>2, SeqIndexed
<1>4. Type'
  BY <1>2, Zenon DEF IInv, Type
<1>5. Apart'
  <2>1. EachOnce'
    BY <1>3 DEF IInv, Apart, EachOnce, Injective
  <2>2. NoTrace'
    BY <1>3 DEF IInv, Apart, NoTrace
  <2>3. OneState'
    BY <1>3 DEF IInv, Apart, OneState
  <2> QED BY <2>1, <2>2, <2>3, Zenon DEF Apart
<1>6. Reached' /\ Listed' /\ Emptied'
  BY <1>3, Zenon DEF IInv, Reached, Listed, Emptied
<1> QED BY <1>4, <1>5, <1>6 DEF IInv

\* The steps that are such: an exception, the end of a destructor, and the
\* changes of phase.
LEMMA LeavesInv ==
  ASSUME IInv,
         \/ \E n \in 1..Cardinality(Locals) : ThrowInitializer(n)
         \/ Terminate \/ EnterMain \/ Exit \/ EndDestructor \/ EndProgram
  PROVE  IInv'
<1>0. /\ stack \in Seq(Objects) /\ Len(stack) \in Nat /\ SubSeq(stack, 1, Len(stack)) = stack
      /\ SubSeq(stack, 1, 0) = <<>> /\ phase \in Phases
      /\ phase = "over" => handlers = <<>> /\ stack = <<>> /\ dying = {}
  BY SeqIndexed DEF IInv, Type, Emptied
<1>1. CASE \E n \in 1..Cardinality(Locals) : ThrowInitializer(n)
  <2>1. PICK n \in 1..Len(stack) : ThrowInitializer(n)
    BY <1>1 DEF ThrowInitializer
  <2>2. /\ Len(stack) - n \in 0..Len(stack) /\ stack' = SubSeq(stack, 1, Len(stack) - n)
        /\ UNCHANGED <<startup, guards, alive, handlers, dying, phase>> /\ phase # "over"
    BY <1>0, <2>1 DEF ThrowInitializer
  <2> QED BY <1>0, <2>2, Leaves, Zenon
<1>2. CASE Terminate \/ Exit
  <2>1. /\ stack' = <<>> /\ dying' \subseteq dying
        /\ phase' \in {"aborted", "exit"} /\ UNCHANGED <<startup, guards, alive, handlers>>
    <3>1. CASE Terminate
      BY <3>1 DEF Terminate
    <3>2. CASE Exit
      BY <3>2 DEF Exit
    <3> QED BY <1>2, <3>1, <3>2
  <2>2. 0 \in 0..Len(stack) /\ stack' = SubSeq(stack, 1, 0) /\ phase' \in Phases /\ phase' # "over"
    BY <1>0, <2>1 DEF Phases
  <2> QED BY <2>1, <2>2, Leaves
<1>3. CASE EnterMain \/ EndDestructor \/ EndProgram
  <2>1. /\ Len(stack) \in 0..Len(stack) /\ stack' = SubSeq(stack, 1, Len(stack)) /\ dying' \subseteq dying
        /\ phase' \in Phases /\ UNCHANGED <<startup, guards, alive, handlers>>
        /\ phase' = "over" => handlers = <<>> /\ stack' = <<>> /\ dying' = {}
    BY <1>0, <1>3 DEF EnterMain, EndDestructor, EndProgram, Idle, Phases
  <2> QED BY <2>1, Leaves
<1> QED BY <1>1, <1>2, <1>3

\* Taking the last entry off the list.
LEMMA LastHandler ==
  ASSUME IInv, handlers # <<>>, handlers' = Front(handlers)
  PROVE  /\ handlers' \in Seq(Handlers) /\ Last(handlers) \in Handlers
         /\ Len(handlers) \in DOMAIN handlers /\ Last(handlers) = handlers[Len(handlers)]
         /\ \A p \in DOMAIN handlers' :
              p \in DOMAIN handlers /\ handlers'[p] = handlers[p] /\ handlers[p] # Last(handlers)
         /\ \A p \in DOMAIN handlers : p \in DOMAIN handlers' \/ p = Len(handlers)
         /\ \A p \in DOMAIN handlers : p <= Len(handlers) /\ p \in Nat
<1>1. /\ Len(handlers) \in Nat \ {0} /\ Last(handlers) \in Handlers
      /\ Last(handlers) = handlers[Len(handlers)]
      /\ handlers' \in Seq(Handlers) /\ Len(handlers') = Len(handlers) - 1
      /\ \A p \in 1..Len(handlers) - 1 : handlers'[p] = handlers[p]
  BY FrontLast, Zenon DEF IInv, Type
<1>2. DOMAIN handlers = 1..Len(handlers) /\ DOMAIN handlers' = 1..Len(handlers) - 1
  BY <1>1, SeqIndexed DEF IInv, Type
<1>3. /\ Len(handlers) \in DOMAIN handlers
      /\ \A p \in DOMAIN handlers' : p \in DOMAIN handlers /\ handlers'[p] = handlers[p] /\ p # Len(handlers)
      /\ \A p \in DOMAIN handlers : p \in DOMAIN handlers' \/ p = Len(handlers)
      /\ \A p \in DOMAIN handlers : p <= Len(handlers) /\ p \in Nat
  BY <1>1, <1>2
<1>4. \A p \in DOMAIN handlers : handlers[p] = handlers[Len(handlers)] => p = Len(handlers)
  BY <1>3, Zenon DEF IInv, Apart, EachOnce, Injective
<1> QED BY <1>1, <1>3, <1>4, Zenon

\* A unit's handler is run.
LEMMA UnregisterInv == ASSUME NEW u \in Offloads PROVE IInv /\ Unregister(u) => IInv'
<1> SUFFICES ASSUME IInv, Unregister(u) PROVE IInv'
  OBVIOUS
<1>1. /\ handlers' \in Seq(Handlers)
      /\ \A p \in DOMAIN handlers' : p \in DOMAIN handlers /\ handlers'[p] = handlers[p]
      /\ \A p \in DOMAIN handlers : p \in DOMAIN handlers' \/ handlers[p] = Registration(u)
  BY LastHandler DEF Unregister
<1>2. UNCHANGED <<startup, stack, guards, alive, dying, phase>> /\ phase = "exit"
  BY DEF Unregister, Idle
<1>3. Type' /\ Reached' /\ Emptied'
  BY <1>1, <1>2, Zenon DEF IInv, Type, Reached, Emptied
<1>4. Apart'
  <2>1. EachOnce'
    BY <1>1, <1>2, Zenon DEF IInv, Apart, EachOnce, Injective
  <2>2. NoTrace' /\ OneState'
    BY <1>1, <1>2, ZenonT(40) DEF IInv, Apart, NoTrace, OneState
  <2> QED BY <2>1, <2>2, Zenon DEF Apart
<1>5. Listed'
  <2>1. \A x : Object(x) # Registration(u)
    BY DEF Object, Registration
  <2>2. Accounted(handlers', alive)
    BY <1>1, Zenon DEF IInv, Listed, Accounted
  <2>3. Kept(handlers', alive)
    BY <1>1, <2>1, Zenon DEF IInv, Listed, Kept
  <2>4. InOrder(handlers', alive)
    BY <1>1, ZenonT(40) DEF IInv, Listed, InOrder
  <2> QED BY <1>2, <2>2, <2>3, <2>4, Zenon DEF Listed
<1> QED BY <1>3, <1>4, <1>5, Zenon DEF IInv

\* A destructor is run: its object is the last in the list, so of those alive
\* that have a destructor the last to have been finished.
LEMMA RunDestructorInv ==
  ASSUME IInv, RunDestructor
  PROVE  /\ IInv'
         /\ \A i \in DOMAIN alive : dying' = {alive[i]} =>
              \A j \in i + 1..Len(alive) : alive[j] \notin Destroyed
<1>1. PICK n \in DOMAIN alive : alive[n] = Last(handlers).x /\ alive' = Without(alive, n)
  BY Zenon DEF RunDestructor
<1> DEFINE x == alive[n]
<1>2. /\ handlers' \in Seq(Handlers) /\ Last(handlers) \in Handlers
      /\ Len(handlers) \in DOMAIN handlers /\ Last(handlers) = handlers[Len(handlers)]
      /\ \A p \in DOMAIN handlers' :
           p \in DOMAIN handlers /\ handlers'[p] = handlers[p] /\ handlers[p] # Last(handlers)
      /\ \A p \in DOMAIN handlers : p \in DOMAIN handlers' \/ p = Len(handlers)
      /\ \A p \in DOMAIN handlers : p <= Len(handlers) /\ p \in Nat
  BY LastHandler, Zenon DEF RunDestructor
<1>3. handlers[Len(handlers)] = Object(x) /\ dying' = {x} /\ dying = {} /\ stack = <<>> /\ phase = "exit"
  BY <1>1, <1>2 DEF RunDestructor, Idle, Handlers, Object
<1>4. UNCHANGED <<startup, stack, guards, phase>>
  BY DEF RunDestructor
<1>5. alive \in Seq(Objects) /\ Len(alive) \in Nat /\ DOMAIN alive = 1..Len(alive) /\ x \in Objects
  BY SeqIndexed DEF IInv, Type
<1>6. /\ alive' \in Seq(Objects) /\ Len(alive') = Len(alive) - 1
      /\ \A i \in 1..Len(alive) - 1 : alive'[i] = IF i < n THEN alive[i] ELSE alive[i + 1]
  BY <1>1, <1>5, Removed, Zenon
<1>7. DOMAIN alive' = 1..Len(alive) - 1
  BY <1>5, <1>6, SeqIndexed, Zenon
<1> DEFINE old(i) == IF i < n THEN i ELSE i + 1
<1>8. /\ \A i \in DOMAIN alive' : old(i) \in DOMAIN alive /\ old(i) # n /\ alive'[i] = alive[old(i)]
      /\ \A i, j \in DOMAIN alive' : (old(i) = old(j) => i = j) /\ (i < j => old(i) < old(j))
  BY <1>5, <1>6, <1>7
<1>9. \A i \in DOMAIN alive : i # n => \E j \in DOMAIN alive' : i = old(j)
  <2> SUFFICES ASSUME NEW i \in DOMAIN alive, i # n PROVE \E j \in DOMAIN alive' : i = old(j)
    OBVIOUS
  <2>1. CASE i < n
    BY <1>5, <1>7, <2>1
  <2>2. CASE ~(i < n)
    <3>1. i - 1 \in DOMAIN alive' /\ ~(i - 1 < n) /\ i - 1 + 1 = i
      BY <1>5, <1>7, <2>2
    <3> QED BY <3>1
  <2> QED BY <2>1, <2>2
<1> HIDE DEF old
<1>10. \A i \in DOMAIN alive' : alive'[i] # x
  BY <1>8, Zenon DEF IInv, Apart, EachOnce, Injective
<1>11. Type'
  BY <1>2, <1>3, <1>4, <1>5, <1>6, Zenon DEF IInv, Type
<1>12. Apart'
  <2>1. EachOnce'
    <3>1. /\ Injective(stack) /\ Injective(startup) /\ Injective(alive) /\ Injective(handlers)
      BY Zenon DEF IInv, Apart, EachOnce
    <3>2. Injective(alive')
      BY <1>8, <3>1, Zenon DEF Injective
    <3>3. Injective(handlers')
      BY <1>2, <3>1, Zenon DEF Injective
    <3> QED
      BY <1>4, <3>1, <3>2, <3>3, Zenon DEF EachOnce
  <2>2. \A i \in DOMAIN startup : startup[i] # Object(x)
    BY Zenon DEF IInv, Apart, NoTrace
  <2>3. DOMAIN stack' = {}
    BY <1>3, <1>4
  <2>4. NoTrace'
    BY <1>2, <1>3, <1>4, <1>8, <2>2, <2>3 DEF IInv, Apart, NoTrace
  <2>5. OneState'
    BY <1>3, <1>10, <2>3, Zenon DEF OneState
  <2> QED BY <2>1, <2>4, <2>5, Zenon DEF Apart
<1>13. Reached' /\ Emptied'
  BY <1>3, <1>4, <1>8, Zenon DEF IInv, Reached, Emptied
<1>14. Listed'
  <2>1. ASSUME NEW p \in DOMAIN handlers', handlers'[p].k = "object"
        PROVE  \E i \in DOMAIN alive' : handlers'[p] = Object(alive'[i])
    <3>1. PICK i \in DOMAIN alive : handlers[p] = Object(alive[i])
      BY <1>2, <2>1, Zenon DEF IInv, Listed, Accounted, Kept, InOrder
    <3>2. i # n
      BY <1>2, <1>3, <3>1
    <3>3. PICK j \in DOMAIN alive' : i = old(j)
      BY <1>9, <3>2, Zenon
    <3> QED BY <1>2, <1>8, <3>1, <3>3, Zenon
  <2>2. ASSUME NEW i \in DOMAIN alive', alive'[i] \in Destroyed
        PROVE  \E p \in DOMAIN handlers' : handlers'[p] = Object(alive'[i])
    <3>1. PICK p \in DOMAIN handlers : handlers[p] = Object(alive'[i])
      BY <1>8, <2>2 DEF IInv, Listed, Accounted, Kept, InOrder
    <3>2. p # Len(handlers)
      BY <1>3, <1>10, <3>1 DEF Object
    <3> QED BY <1>2, <3>1, <3>2, Zenon
  <2>3. \A p, q \in DOMAIN handlers' : \A i, j \in DOMAIN alive' :
          handlers'[p] = Object(alive'[i]) /\ handlers'[q] = Object(alive'[j]) /\ i < j => p < q
    BY <1>2, <1>8 DEF IInv, Listed, Accounted, Kept, InOrder
  <2> QED BY <2>1, <2>2, <2>3, Zenon DEF Listed, Accounted, Kept, InOrder
<1>15. ASSUME NEW i \in DOMAIN alive, dying' = {alive[i]}, NEW j \in i + 1..Len(alive),
              alive[j] \in Destroyed
       PROVE  FALSE
  <2>1. i = n
    BY <1>3, <1>15, Zenon DEF IInv, Apart, EachOnce, Injective
  <2>2. j \in DOMAIN alive /\ n < j
    BY <1>5, <2>1
  <2>3. PICK p \in DOMAIN handlers : handlers[p] = Object(alive[j])
    BY <1>15, <2>2, Zenon DEF IInv, Listed, Accounted, Kept, InOrder
  <2>4. Len(handlers) < p
    BY <1>2, <1>3, <2>2, <2>3, Zenon DEF IInv, Listed, Accounted, Kept, InOrder
  <2> QED BY <1>2, <2>4
<1> QED BY <1>11, <1>12, <1>13, <1>14, <1>15 DEF IInv

\* A step that leaves the static objects alone leaves the invariant alone.
LEMMA StutterIInv == IInv /\ UNCHANGED svars => IInv'
<1> SUFFICES ASSUME IInv, UNCHANGED svars PROVE IInv'
  OBVIOUS
<1>1. UNCHANGED <<startup, stack, guards, alive, handlers, dying, phase>>
  BY Zenon DEF svars
<1>2. Type' /\ Reached' /\ Emptied'
  BY <1>1, Zenon DEF IInv, Type, Reached, Emptied
<1>3. Apart'
  BY <1>1, ZenonT(40) DEF IInv, Apart, EachOnce, NoTrace, OneState, Injective
<1>4. Listed'
  BY <1>1, Zenon DEF IInv, Listed
<1> QED
  BY <1>2, <1>3, <1>4, Zenon DEF IInv

\* Every step of the program keeps the invariant.
LEMMA StepIInv == IInv /\ [SNext]_svars => IInv'
<1> SUFFICES ASSUME IInv, SNext PROVE IInv'
  BY StutterIInv
<1>1. CASE \E x \in Locals : DeclareStaticLocal(x)
  BY <1>1, DeclareInv
<1>2. CASE \E u \in Offloads : Register(u) \/ Unregister(u)
  BY <1>2, RegisterInv, UnregisterInv
<1>3. CASE \/ \E n \in 1..Cardinality(Locals) : ThrowInitializer(n)
           \/ Terminate \/ EnterMain \/ Exit \/ EndDestructor \/ EndProgram
  BY <1>3, LeavesInv
<1> QED BY <1>1, <1>2, <1>3, BeginObjectInv, EndInitializerInv, RunDestructorInv DEF SNext, SStep

-----------------------------------------------------------------------------
(* Theorems *)

\* The invariant holds of every program, of however many units and objects.
THEOREM StaticsInvariance == SSpec => []IInv
<1>1. SInit => IInv
  BY InitIInv
<1>2. IInv /\ [SNext]_svars => IInv'
  BY StepIInv
<1> QED BY <1>1, <1>2, PTL DEF SSpec

\* An initializer runs once, behind the guard byte declareStaticLocal sets
\* before it, and is registered once for exit.
THEOREM RunOnce == SSpec => []InitializedOnce
<1>1. IInv => InitializedOnce
  <2> SUFFICES ASSUME IInv PROVE InitializedOnce
    BY Zenon
  <2>1. \A i \in DOMAIN handlers : handlers[i].k = "object" => handlers[i].x \in Range(alive)
    BY DEF IInv, Listed, Accounted, Kept, InOrder, Object, Range
  <2>2. \A i \in DOMAIN stack : stack[i] \notin Range(alive) \cup dying
    BY DEF IInv, Apart, EachOnce, NoTrace, OneState, Range
  <2> QED BY <2>1, <2>2, Zenon DEF IInv, Apart, EachOnce, NoTrace, OneState, Injective, InitializedOnce
<1> QED BY <1>1, StaticsInvariance, PTL

\* A program that ends has destroyed all it built that has a destructor: the
\* list registerStaticDtor fills holds them until they are.
THEOREM AllDestroyed == SSpec => []DestroyedAtExit
<1>1. IInv => DestroyedAtExit
  <2> SUFFICES ASSUME IInv, phase = "over", NEW i \in DOMAIN alive, alive[i] \in Destroyed PROVE FALSE
    BY DEF DestroyedAtExit, Range
  <2>1. handlers = <<>>
    BY DEF IInv, Emptied
  <2>2. \E p \in DOMAIN handlers : handlers[p] = Object(alive[i])
    BY DEF IInv, Listed, Accounted, Kept, InOrder
  <2> QED BY <2>1, <2>2
<1> QED BY <1>1, StaticsInvariance, PTL

\* Destructors run in the reverse of the order in which initializers were
\* completed, whatever initializers and destructors reach or throw.
THEOREM ReverseDestruction == SSpec => ReverseOfCompletion
<1> DEFINE A == \A i \in DOMAIN alive :
                  dying = {} /\ dying' = {alive[i]} =>
                    \A j \in i + 1..Len(alive) : alive[j] \notin Destroyed
<1>1. IInv /\ [SNext]_svars => [A]_svars
  <2> SUFFICES ASSUME IInv, SNext PROVE A
    OBVIOUS
  <2>1. CASE RunDestructor
    BY <2>1, RunDestructorInv
  <2>2. CASE ~RunDestructor
    <3>1. dying' \subseteq dying
      BY <2>2 DEF SNext, SStep, BeginObject, DeclareStaticLocal, EndInitializer, ThrowInitializer,
                  Terminate, EnterMain, Exit, EndDestructor, EndProgram, Register, Unregister
    <3> QED BY <3>1, Zenon
  <2> QED BY <2>1, <2>2
<1>2. SSpec => [][A]_svars
  BY <1>1, StaticsInvariance, PTL DEF SSpec
<1> QED BY <1>2 DEF ReverseOfCompletion

=============================================================================
