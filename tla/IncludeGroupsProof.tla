------------------------ MODULE IncludeGroupsProof ------------------------
(***************************************************************************)
(* The groups of lines the directive walk keeps, for any files, macros and  *)
(* modules: in a well-formed file of conditionals and text the #if stack    *)
(* keeps the lines [cpp.cond] selects; a header that its guard keeps from   *)
(* being opened again would have had no effect; and what was imported, or   *)
(* begins with #pragma once, is not read again.                             *)
(*                                                                         *)
(* The invariant GroupInv speaks of each reader by itself, of the stack of  *)
(* conditionals it holds, and of the files read to their end.               *)
(***************************************************************************)
EXTENDS IncludeWalkProof

-----------------------------------------------------------------------------
(* Which group is selected *)

\* Holds and Selected, as functions of the macros that are defined.
HoldsIn(ms, l) ==
  CASE l.k \in {"if", "elif"} -> l.x
    [] l.k \in {"ifdef", "elifdef"} -> l.x \in ms
    [] l.k \in {"ifndef", "ifnot"} -> l.x \notin ms
    [] l.k = "ifnotor" -> TRUE

Decides(ms, l) == l.k = "else" \/ HoldsIn(ms, l)

SelectedIn(ms, ls, i) ==
  Decides(ms, ls[i]) /\ \A j \in Earlier(ls, i) : ~Decides(ms, ls[j])

\* Some group of the chain, up to that of line i, is the one to keep.
DecidedBy(ms, ls, i) == \E j \in Earlier(ls, i) \cup {i} : Decides(ms, ls[j])

\* Line j began the d-th open group at line p.
Begins(ls, p, d, j) ==
  /\ j \in 1 .. p - 1
  /\ ls[j].k \in Conditionals \ {"endif"}
  /\ ChainLevel(ls, j) = d - 1
  /\ Between(ls, j, p, Conditionals) = {}

\* The d-th frame of an #if stack whose groups began at the lines c.
FrameOK(ms, ls, cs, c, d) ==
  /\ cs[d].sawElse <=> ls[c[d]].k = "else"
  /\ cs[d].active <=> \A e \in 1 .. d : SelectedIn(ms, ls, c[e])
  /\ (\A e \in 1 .. d - 1 : SelectedIn(ms, ls, c[e]))
       => (cs[d].taken <=> DecidedBy(ms, ls, c[d]))

GroupsAre(ms, ls, p, cs, c) ==
  \A d \in 1 .. Len(cs) : Begins(ls, p, d, c[d]) /\ FrameOK(ms, ls, cs, c, d)

\* The #if stack says of every open group whether it is selected.
Matches(ms, ls, rd) == \E c : GroupsAre(ms, ls, rd.pos, rd.conds, c)

\* The two readings of a group's condition agree.
LEMMA SelectedIs ==
  ASSUME NEW ls, NEW i
  PROVE  /\ Holds(ls[i]) <=> HoldsIn(macros, ls[i])
         /\ Selected(ls, i) <=> SelectedIn(macros, ls, i)
<1>1. \A l : Holds(l) = HoldsIn(macros, l)
  BY Zenon DEF Holds, HoldsIn
<1> QED
  BY <1>1, Zenon DEF Selected, SelectedIn, Decides

\* A group stays open past a line that is not of its chain.
LEMMA BeginsStep ==
  ASSUME NEW ls, NEW p \in Nat, NEW d, NEW j, Begins(ls, p, d, j),
         ls[p].k \in Conditionals => ChainLevel(ls, p) # d - 1
  PROVE  Begins(ls, p + 1, d, j)
<1>1. j \in 1 .. p + 1 - 1
  BY DEF Begins
<1>2. \A k \in j + 1 .. p + 1 - 1 : k = p \/ k \in j + 1 .. p - 1
  BY <1>1
<1>3. \A k \in Between(ls, j, p + 1, Conditionals) : k \in Between(ls, j, p, Conditionals)
  BY <1>2 DEF Between, Begins
<1> QED
  BY <1>1, <1>3 DEF Begins

\* The group a line begins.
LEMMA BeginsHere ==
  ASSUME NEW ls, NEW p \in Nat \ {0}, NEW d,
         ls[p].k \in Conditionals \ {"endif"}, ChainLevel(ls, p) = d - 1
  PROVE  Begins(ls, p + 1, d, p)
<1>1. p \in 1 .. p + 1 - 1 /\ p + 1 .. p + 1 - 1 = {}
  OBVIOUS
<1>2. Between(ls, p, p + 1, Conditionals) = {}
  BY <1>1 DEF Between
<1> QED
  BY <1>1, <1>2 DEF Begins

\* One line began each open group.
LEMMA BeginsOne ==
  ASSUME NEW ls, NEW p \in Nat, NEW d, NEW i, NEW j, Begins(ls, p, d, i), Begins(ls, p, d, j)
  PROVE  i = j
<1>1. i \in 1 .. p - 1 /\ j \in 1 .. p - 1 /\ ChainLevel(ls, i) = ChainLevel(ls, j)
  BY DEF Begins
<1>2. i < j => j \in Between(ls, i, p, Conditionals)
  BY <1>1 DEF Begins, Between
<1>3. j < i => i \in Between(ls, j, p, Conditionals)
  BY <1>1 DEF Begins, Between
<1> QED
  BY <1>1, <1>2, <1>3 DEF Begins

\* The groups before an #elif or #else are those before the group it ends,
\* and that group.
LEMMA EarlierStep ==
  ASSUME NEW ls, NEW p \in Nat, NEW d, NEW c, Begins(ls, p, d, c),
         ls[p].k \in {"elif", "elifdef", "else"}, ChainLevel(ls, p) = d - 1
  PROVE  Earlier(ls, p) = Earlier(ls, c) \cup {c}
<1> DEFINE K == Openers \cup {"endif"}
<1>1. /\ c \in 1 .. p - 1 /\ ls[c].k \in Conditionals \ {"endif"}
      /\ ChainLevel(ls, c) = ChainLevel(ls, p)
      /\ \A k \in c + 1 .. p - 1 : ~(ls[k].k \in Conditionals /\ ChainLevel(ls, k) = ChainLevel(ls, c))
  BY DEF Begins, Between
<1>2. ls[p].k \notin Openers /\ K \subseteq Conditionals
  BY DEF Openers, Conditionals
<1>3. ASSUME NEW j \in 1 .. p - 1, NEW i \in 1 .. p
      PROVE  j \in Earlier(ls, i) <=>
               /\ j < i
               /\ ls[j].k \in Conditionals \ {"endif"}
               /\ ChainLevel(ls, j) = ChainLevel(ls, i)
               /\ ls[i].k \notin Openers
               /\ \A k \in j + 1 .. i - 1 :
                    ~(ls[k].k \in K /\ ChainLevel(ls, k) = ChainLevel(ls, j))
  BY DEF Earlier, Between
<1>4. \A i : i \in 1 .. p => \A j \in Earlier(ls, i) : j \in 1 .. p - 1
  BY DEF Earlier
<1>5. p \in 1 .. p /\ c \in 1 .. p
  BY <1>1
<1> HIDE DEF K
<1>6. c \in Earlier(ls, p)
  BY <1>1, <1>2, <1>3, <1>5
<1>7. ASSUME NEW j \in Earlier(ls, c) PROVE j \in Earlier(ls, p)
  <2>1. j \in 1 .. p - 1
    BY <1>4, <1>5
  <2>2. /\ j < c /\ ls[j].k \in Conditionals \ {"endif"} /\ ChainLevel(ls, j) = ChainLevel(ls, c)
        /\ ls[c].k \notin Openers
        /\ \A k \in j + 1 .. c - 1 : ~(ls[k].k \in K /\ ChainLevel(ls, k) = ChainLevel(ls, j))
    BY <1>3, <1>5, <2>1
  <2>3. ls[c].k \notin K
    BY <1>1, <2>2, Zenon DEF K
  <2>4. \A k \in j + 1 .. p - 1 : k \in j + 1 .. c - 1 \/ k = c \/ k \in c + 1 .. p - 1
    BY <1>1, <2>1
  <2>5. \A k \in j + 1 .. p - 1 : ~(ls[k].k \in K /\ ChainLevel(ls, k) = ChainLevel(ls, j))
    BY <1>1, <1>2, <2>2, <2>3, <2>4, Zenon
  <2>6. j < p
    BY <2>1
  <2> QED
    BY <1>1, <1>2, <1>3, <1>5, <2>1, <2>2, <2>5, <2>6, Zenon
<1>8. ASSUME NEW j \in Earlier(ls, p), j # c PROVE j \in Earlier(ls, c)
  <2>1. j \in 1 .. p - 1
    BY <1>4, <1>5
  <2>2. /\ ls[j].k \in Conditionals \ {"endif"} /\ ChainLevel(ls, j) = ChainLevel(ls, p)
        /\ \A k \in j + 1 .. p - 1 : ~(ls[k].k \in K /\ ChainLevel(ls, k) = ChainLevel(ls, j))
    BY <1>3, <1>5, <2>1, Zenon
  <2>3. j < c
    BY <1>1, <1>8, <2>1, <2>2
  <2>4. ls[c].k \notin Openers
    BY <1>1, <2>1, <2>2, <2>3 DEF K
  <2>5. \A k \in j + 1 .. c - 1 : k \in j + 1 .. p - 1
    BY <1>1, <2>1
  <2>6. \A k \in j + 1 .. c - 1 : ~(ls[k].k \in K /\ ChainLevel(ls, k) = ChainLevel(ls, j))
    BY <2>2, <2>5, Zenon
  <2> QED
    BY <1>1, <1>3, <1>5, <2>1, <2>2, <2>3, <2>4, <2>6, Zenon
<1> QED
  BY <1>6, <1>7, <1>8

\* The groups c, from the outermost in, are those that govern line p.
Governs(ls, p, n, c) ==
  /\ \A d \in 1 .. n : c[d] \in Governing(ls, p)
  /\ \A j \in Governing(ls, p) : \E d \in 1 .. n : j = c[d]

\* The groups around a line are the open ones.
LEMMA GoverningIs ==
  ASSUME NEW ls \in Seq(Lines), WellFormed(ls), NEW p \in Nat \ {0}, p <= Len(ls) + 1,
         NEW n \in Nat, n = Level(ls, p), \A j \in 1 .. p : Level(ls, j) >= 0,
         NEW c, \A d \in 1 .. n : Begins(ls, p, d, c[d])
  PROVE  Governs(ls, p, n, c)
<1>1. ASSUME NEW d \in 1 .. n PROVE c[d] \in Governing(ls, p)
  <2>1. Begins(ls, p, d, c[d])
    OBVIOUS
  <2> QED
    BY <2>1 DEF Begins, Governing
<1>2. ASSUME NEW j \in Governing(ls, p) PROVE \E d \in 1 .. n : j = c[d]
  <2>1. /\ j \in 1 .. p - 1 /\ ls[j].k \in Conditionals \ {"endif"}
        /\ Between(ls, j, p, Conditionals) = {} /\ n > ChainLevel(ls, j)
    BY DEF Governing
  <2>2. j \in DOMAIN ls /\ j \in Nat \ {0} /\ j \in 1 .. p
    BY <2>1
  <2>3. Level(ls, j) \in Int /\ Level(ls, j) >= 0
    BY <2>2, LevelStep
  <2>4. ls[j].k \notin Openers => Level(ls, j) > 0
    BY <2>1, <2>2, InsideChain, Zenon
  <2>5. ChainLevel(ls, j) \in 0 .. n - 1
    BY <2>1, <2>3, <2>4 DEF ChainLevel
  <2> DEFINE d == ChainLevel(ls, j) + 1
  <2>6. d \in 1 .. n /\ ChainLevel(ls, j) = d - 1
    BY <2>5
  <2> HIDE DEF d
  <2>7. Begins(ls, p, d, j)
    BY <2>1, <2>6 DEF Begins
  <2>8. Begins(ls, p, d, c[d])
    BY <2>6
  <2> QED
    BY <2>6, <2>7, <2>8, BeginsOne, Zenon
<1> QED
  BY <1>1, <1>2 DEF Governs

\* A frame that a step leaves alone, with the groups below it.
LEMMA FrameSame ==
  ASSUME NEW ms, NEW ls, NEW cs, NEW ds, NEW c, NEW b, NEW d \in Nat \ {0},
         FrameOK(ms, ls, cs, c, d), ds[d] = cs[d], \A e \in 1 .. d : b[e] = c[e]
  PROVE  FrameOK(ms, ls, ds, b, d)
<1>1. b[d] = c[d] /\ \A e \in 1 .. d - 1 : e \in 1 .. d
  OBVIOUS
<1>2. /\ (\A e \in 1 .. d : SelectedIn(ms, ls, b[e])) <=> (\A e \in 1 .. d : SelectedIn(ms, ls, c[e]))
      /\ (\A e \in 1 .. d - 1 : SelectedIn(ms, ls, b[e]))
           <=> (\A e \in 1 .. d - 1 : SelectedIn(ms, ls, c[e]))
  BY <1>1
<1> QED
  BY <1>1, <1>2, Zenon DEF FrameOK

\* The frames below n are all active exactly when the groups they stand for are
\* all selected.
LEMMA ActiveBelow ==
  ASSUME NEW ms, NEW ls, NEW p, NEW cs, NEW c, NEW n \in Nat, n <= Len(cs), Len(cs) \in Nat,
         GroupsAre(ms, ls, p, cs, c)
  PROVE  (\A d \in 1 .. n : cs[d].active) <=> (\A d \in 1 .. n : SelectedIn(ms, ls, c[d]))
<1>1. \A d \in 1 .. n : d \in 1 .. Len(cs) /\ d \in 1 .. d
  OBVIOUS
<1>2. \A d \in 1 .. n : cs[d].active <=> \A e \in 1 .. d : SelectedIn(ms, ls, c[e])
  BY <1>1, Zenon DEF GroupsAre, FrameOK
<1>3. \A d \in 1 .. n : \A e \in 1 .. d : e \in 1 .. n
  OBVIOUS
<1> QED
  BY <1>1, <1>2, <1>3, Zenon

\* An opening conditional opens a group of its own.
LEMMA OpenedMatches ==
  ASSUME WalkInv, NEW q, Moves(q), Opened(q), NEW ls, ls = src[r.file],
         Tracks(ls, r), Matches(macros, ls, r)
  PROVE  Matches(macros, ls, q)
<1> DEFINE p == r.pos
           n == Len(r.conds)
<1>1. /\ r.conds \in Seq(Conds) /\ p \in Nat \ {0} /\ n \in Nat /\ line = ls[p]
      /\ DOMAIN r.conds = 1 .. n
  BY TopLine DEF Moves
<1>2. n = Level(ls, p) /\ q.pos = p + 1 /\ ls[p].k \in Openers
  BY <1>1 DEF Tracks, Opened
<1>3. PICK f \in Conds :
        /\ q.conds = Append(r.conds, f)
        /\ f.active <=> live(r) /\ Holds(line)
        /\ f.taken <=> live(r) /\ Holds(line)
        /\ ~f.sawElse
  BY Zenon DEF Opened
<1>4. PICK c : GroupsAre(macros, ls, p, r.conds, c)
  BY DEF Matches
<1> DEFINE b == [d \in 1 .. n + 1 |-> IF d = n + 1 THEN p ELSE c[d]]
<1>5. Len(q.conds) = n + 1 /\ q.conds[n + 1] = f /\ \A d \in 1 .. n : q.conds[d] = r.conds[d]
  BY <1>1, <1>3
<1>6. b[n + 1] = p /\ \A d \in 1 .. n : b[d] = c[d]
  BY <1>1
<1> HIDE DEF b
<1>7. ChainLevel(ls, p) = n /\ ls[p].k # "else" /\ ls[p].k \in Conditionals \ {"endif"}
  BY <1>1, <1>2, Zenon DEF ChainLevel, Openers, Conditionals
<1> HIDE DEF p, n
<1>8. ASSUME NEW d \in 1 .. n
      PROVE  Begins(ls, p + 1, d, b[d]) /\ FrameOK(macros, ls, q.conds, b, d)
  <2>1. Begins(ls, p, d, c[d]) /\ FrameOK(macros, ls, r.conds, c, d)
    BY <1>4 DEF GroupsAre, n
  <2>2. ChainLevel(ls, p) # d - 1 /\ d \in Nat \ {0}
    BY <1>1, <1>7
  <2>3. Begins(ls, p + 1, d, c[d])
    BY <1>1, <2>1, <2>2, BeginsStep, ZenonT(40)
  <2>4. \A e \in 1 .. d : e \in 1 .. n
    BY <1>1
  <2>5. FrameOK(macros, ls, q.conds, b, d)
    BY <1>5, <1>6, <2>1, <2>2, <2>4, FrameSame
  <2> QED
    BY <1>6, <2>3, <2>5, Zenon
<1>9. Begins(ls, p + 1, n + 1, p)
  <2> DEFINE m == n + 1
  <2>1. ChainLevel(ls, p) = m - 1
    BY <1>1, <1>7
  <2> HIDE DEF m
  <2>2. Begins(ls, p + 1, m, p)
    BY <1>1, <1>7, <2>1, BeginsHere, ZenonT(40)
  <2> QED
    BY <2>2 DEF m
<1>10. Earlier(ls, p) = {}
  BY <1>2 DEF Earlier
<1>11. live(r) <=> \A d \in 1 .. n : SelectedIn(macros, ls, c[d])
  <2>1. n <= Len(r.conds) /\ Len(r.conds) \in Nat
    BY <1>1 DEF n
  <2>2. live(r) <=> \A d \in 1 .. n : r.conds[d].active
    BY <1>1 DEF live
  <2> QED
    BY <1>1, <1>4, <2>1, <2>2, ActiveBelow, Zenon
<1>12. Holds(line) <=> Decides(macros, ls[p])
  BY <1>1, <1>7, SelectedIs, ZenonT(40) DEF Decides
<1>13. (SelectedIn(macros, ls, p) <=> Holds(line)) /\ (DecidedBy(macros, ls, p) <=> Holds(line))
  BY <1>10, <1>12 DEF SelectedIn, DecidedBy
<1>14. FrameOK(macros, ls, q.conds, b, n + 1)
  <2> DEFINE m == n + 1
  <2>1. \A e \in 1 .. m : e = m \/ e \in 1 .. n
    BY <1>1
  <2>2. m - 1 = n /\ m \in 1 .. m /\ \A e \in 1 .. n : e \in 1 .. m
    BY <1>1
  <2>3. /\ b[m] = p /\ q.conds[m] = f
        /\ \A e \in 1 .. n : b[e] = c[e]
    BY <1>5, <1>6, Zenon
  <2> HIDE DEF m
  <2>4. (\A e \in 1 .. m - 1 : SelectedIn(macros, ls, b[e])) <=> live(r)
    BY <1>11, <2>2, <2>3, Zenon
  <2>5. (\A e \in 1 .. m : SelectedIn(macros, ls, b[e])) <=> live(r) /\ Holds(line)
    BY <1>13, <2>1, <2>2, <2>3, <2>4, Zenon
  <2>6. ~q.conds[m].sawElse /\ ls[b[m]].k # "else"
    BY <1>3, <1>7, <2>3, Zenon
  <2>7. /\ q.conds[m].active <=> live(r) /\ Holds(line)
        /\ q.conds[m].taken <=> live(r) /\ Holds(line)
    BY <1>3, <2>3, Zenon
  <2>8. DecidedBy(macros, ls, b[m]) <=> Holds(line)
    BY <1>13, <2>3
  <2>9. FrameOK(macros, ls, q.conds, b, m)
    BY <2>4, <2>5, <2>6, <2>7, <2>8, ZenonT(40) DEF FrameOK
  <2> QED
    BY <2>9 DEF m
<1>15. \A d \in 1 .. n + 1 : d = n + 1 \/ d \in 1 .. n
  BY <1>1
<1>16. GroupsAre(macros, ls, q.pos, q.conds, b)
  BY <1>2, <1>5, <1>6, <1>8, <1>9, <1>14, <1>15, Zenon DEF GroupsAre
<1> QED
  BY <1>16 DEF Matches

\* #elif and #else begin the next group of the chain.
LEMMA TurnedMatches ==
  ASSUME WalkInv, NEW q, Moves(q), Turned(q), NEW ls, ls = src[r.file],
         Tracks(ls, r), Matches(macros, ls, r)
  PROVE  Matches(macros, ls, q)
<1> DEFINE p == r.pos
           n == Len(r.conds)
<1>1. /\ r.conds \in Seq(Conds) /\ p \in Nat \ {0} /\ n \in Nat \ {0} /\ line = ls[p]
      /\ DOMAIN r.conds = 1 .. n
  BY TopLine DEF Moves, Turned
<1>2. n = Level(ls, p) /\ q.pos = p + 1 /\ ls[p].k \in {"elif", "elifdef", "else"}
  BY <1>1 DEF Tracks, Turned
<1>3. PICK f \in Conds :
        /\ q.conds = [r.conds EXCEPT ![n] = f]
        /\ f.active <=> ~topCond.taken /\ ~parentSkipping /\ (line.k = "else" \/ Holds(line))
        /\ f.taken <=> topCond.taken \/ f.active
        /\ f.sawElse <=> line.k = "else"
  BY ZenonT(30) DEF Turned
<1>4. PICK c : GroupsAre(macros, ls, p, r.conds, c)
  BY DEF Matches
<1> DEFINE b == [d \in 1 .. n |-> IF d = n THEN p ELSE c[d]]
           T == DecidedBy(macros, ls, c[n])
           P == \A e \in 1 .. n - 1 : SelectedIn(macros, ls, c[e])
<1>5. Len(q.conds) = n /\ q.conds[n] = f /\ \A d \in 1 .. n - 1 : q.conds[d] = r.conds[d]
  BY <1>1, <1>3
<1>6. b[n] = p /\ \A d \in 1 .. n - 1 : b[d] = c[d]
  BY <1>1
<1> HIDE DEF b
<1>7. ChainLevel(ls, p) = n - 1 /\ ls[p].k \in Conditionals \ {"endif"}
  BY <1>1, <1>2, Zenon DEF ChainLevel, Openers, Conditionals
<1>8. ~parentSkipping <=> \A e \in 1 .. n - 1 : r.conds[e].active
  BY DEF parentSkipping
<1>9. topCond = r.conds[n]
  BY DEF topCond
<1> HIDE DEF p, n
<1>10. ASSUME NEW d \in 1 .. n - 1
       PROVE  Begins(ls, p + 1, d, b[d]) /\ FrameOK(macros, ls, q.conds, b, d)
  <2>1. d \in 1 .. n /\ ChainLevel(ls, p) # d - 1 /\ d \in Nat \ {0}
    BY <1>1, <1>7
  <2>2. Begins(ls, p, d, c[d]) /\ FrameOK(macros, ls, r.conds, c, d)
    BY <1>4, <2>1, Zenon DEF GroupsAre, n
  <2>3. Begins(ls, p + 1, d, c[d])
    BY <1>1, <2>1, <2>2, BeginsStep, Zenon
  <2>4. \A e \in 1 .. d : e \in 1 .. n - 1
    BY <1>1
  <2>5. FrameOK(macros, ls, q.conds, b, d)
    BY <1>5, <1>6, <2>1, <2>2, <2>4, FrameSame
  <2> QED
    BY <1>6, <2>3, <2>5, Zenon
<1>11. Begins(ls, p, n, c[n]) /\ FrameOK(macros, ls, r.conds, c, n)
  BY <1>1, <1>4 DEF GroupsAre, n
<1>12. Earlier(ls, p) = Earlier(ls, c[n]) \cup {c[n]}
  BY <1>1, <1>2, <1>7, <1>11, EarlierStep
<1>13. Begins(ls, p + 1, n, p)
  BY <1>1, <1>7, BeginsHere, Zenon
<1>14. ~parentSkipping <=> P
  <2>1. n - 1 \in Nat /\ n - 1 <= Len(r.conds) /\ Len(r.conds) \in Nat
    BY <1>1 DEF n
  <2> QED
    BY <1>4, <1>8, <2>1, ActiveBelow, ZenonT(40)
<1>15. P => (topCond.taken <=> T)
  BY <1>9, <1>11, Zenon DEF FrameOK
<1>16. (line.k = "else" \/ Holds(line)) <=> Decides(macros, ls[p])
  BY <1>1, SelectedIs DEF Decides
<1>17. SelectedIn(macros, ls, p) <=> Decides(macros, ls[p]) /\ ~T
  BY <1>12, Zenon DEF SelectedIn, DecidedBy
<1>18. DecidedBy(macros, ls, p) <=> T \/ Decides(macros, ls[p])
  BY <1>12, ZenonT(30) DEF DecidedBy
<1> HIDE DEF T
<1>19. FrameOK(macros, ls, q.conds, b, n)
  <2>1. \A e \in 1 .. n : e = n \/ e \in 1 .. n - 1
    BY <1>1
  <2>2. n \in 1 .. n /\ \A e \in 1 .. n - 1 : e \in 1 .. n
    BY <1>1
  <2>3. (\A e \in 1 .. n - 1 : SelectedIn(macros, ls, b[e])) <=> P
    BY <1>6
  <2>4. (\A e \in 1 .. n : SelectedIn(macros, ls, b[e])) <=> P /\ SelectedIn(macros, ls, p)
    BY <1>6, <2>1, <2>2, <2>3, Zenon
  <2> HIDE DEF P
  <2>5. q.conds[n].sawElse <=> ls[b[n]].k = "else"
    BY <1>1, <1>3, <1>5, <1>6, Zenon
  <2>6. f.active <=> P /\ SelectedIn(macros, ls, p)
    BY <1>3, <1>14, <1>15, <1>16, <1>17, Zenon
  <2>7. P => (f.taken <=> DecidedBy(macros, ls, p))
    BY <1>3, <1>15, <1>17, <1>18, <2>6, ZenonT(30)
  <2> QED
    BY <1>5, <1>6, <2>3, <2>4, <2>5, <2>6, <2>7, ZenonT(40) DEF FrameOK
<1>20. \A d \in 1 .. n : d = n \/ d \in 1 .. n - 1
  BY <1>1
<1>21. GroupsAre(macros, ls, q.pos, q.conds, b)
  BY <1>2, <1>5, <1>6, <1>10, <1>13, <1>19, <1>20, ZenonT(40) DEF GroupsAre
<1> QED
  BY <1>21 DEF Matches

\* #endif leaves the groups around the one it closes.
LEMMA ClosedMatches ==
  ASSUME WalkInv, NEW q, Moves(q), Closed(q), NEW ls, ls = src[r.file],
         Tracks(ls, r), Matches(macros, ls, r)
  PROVE  Matches(macros, ls, q)
<1> DEFINE p == r.pos
           n == Len(r.conds)
<1>1. /\ r.conds \in Seq(Conds) /\ p \in Nat \ {0} /\ n \in Nat \ {0} /\ line = ls[p]
  BY TopLine DEF Moves, Closed
<1>2. n = Level(ls, p) /\ q.pos = p + 1 /\ ls[p].k = "endif" /\ q.conds = SubSeq(r.conds, 1, n - 1)
  BY <1>1 DEF Tracks, Closed
<1>3. PICK c : GroupsAre(macros, ls, p, r.conds, c)
  BY DEF Matches
<1>4. Len(q.conds) = n - 1 /\ \A d \in 1 .. n - 1 : q.conds[d] = r.conds[d]
  BY <1>1, <1>2
<1>5. ChainLevel(ls, p) = n - 1
  BY <1>2 DEF ChainLevel, Openers
<1> HIDE DEF p, n
<1>6. ASSUME NEW d \in 1 .. n - 1
      PROVE  Begins(ls, p + 1, d, c[d]) /\ FrameOK(macros, ls, q.conds, c, d)
  <2>1. d \in 1 .. n /\ ChainLevel(ls, p) # d - 1 /\ d \in Nat \ {0}
    BY <1>1, <1>5
  <2>2. Begins(ls, p, d, c[d]) /\ FrameOK(macros, ls, r.conds, c, d)
    BY <1>3, <2>1 DEF GroupsAre, n
  <2>3. Begins(ls, p + 1, d, c[d])
    BY <1>1, <2>1, <2>2, BeginsStep, Zenon
  <2>4. FrameOK(macros, ls, q.conds, c, d)
    BY <1>4, <2>1, <2>2, FrameSame, Zenon
  <2> QED
    BY <2>3, <2>4
<1>7. GroupsAre(macros, ls, q.pos, q.conds, c)
  BY <1>2, <1>4, <1>6, Zenon DEF GroupsAre
<1> QED
  BY <1>7 DEF Matches

\* Any other line leaves the groups.
LEMMA PassedMatches ==
  ASSUME WalkInv, NEW q, Moves(q), Passed(q), q.pos = r.pos + 1, NEW ls, ls = src[r.file],
         Matches(macros, ls, r)
  PROVE  Matches(macros, ls, q)
<1>1. r.pos \in Nat \ {0} /\ line = ls[r.pos]
  BY TopLine DEF Moves
<1>2. PICK c : GroupsAre(macros, ls, r.pos, r.conds, c)
  BY DEF Matches
<1>3. ls[r.pos].k \notin Conditionals /\ q.conds = r.conds
  BY <1>1, Zenon DEF Passed
<1>4. ASSUME NEW d \in 1 .. Len(r.conds)
      PROVE  Begins(ls, r.pos + 1, d, c[d]) /\ FrameOK(macros, ls, q.conds, c, d)
  <2>1. Begins(ls, r.pos, d, c[d]) /\ FrameOK(macros, ls, r.conds, c, d)
    BY <1>2 DEF GroupsAre
  <2>2. Begins(ls, r.pos + 1, d, c[d])
    BY <1>1, <1>3, <2>1, BeginsStep, ZenonT(40)
  <2> QED
    BY <1>3, <2>1, <2>2, Zenon
<1>5. GroupsAre(macros, ls, q.pos, q.conds, c)
  BY <1>3, <1>4 DEF GroupsAre
<1> QED
  BY <1>5 DEF Matches

\* A well-formed file has no misplaced conditional.
LEMMA NoneMisplaced ==
  ASSUME WalkInv, NEW q, Moves(q), NEW ls, ls = src[r.file], WellFormed(ls),
         Tracks(ls, r), Matches(macros, ls, r)
  PROVE  ~Misplaced(q)
<1> SUFFICES ASSUME Misplaced(q) PROVE FALSE
  OBVIOUS
<1> DEFINE p == r.pos
           n == Len(r.conds)
<1>1. /\ r.conds \in Seq(Conds) /\ p \in Nat \ {0} /\ n \in Nat /\ line = ls[p] /\ p \in DOMAIN ls
  BY TopLine, Zenon DEF Moves
<1>2. ls[p].k \in Conditionals \ Openers /\ n = Level(ls, p)
  BY <1>1 DEF Misplaced, Tracks
<1>3. n > 0 /\ r.conds # <<>>
  <2> HIDE DEF p
  <2>1. Level(ls, p) > 0
    BY <1>1, <1>2, InsideChain, Zenon
  <2>2. n > 0
    BY <1>2, <2>1, Zenon
  <2> QED
    BY <2>2
<1>4. ls[p].k # "endif" /\ r.conds[n].sawElse
  BY <1>1, <1>3 DEF Misplaced, topCond
<1>5. PICK c : GroupsAre(macros, ls, p, r.conds, c)
  BY Zenon DEF Matches
<1>6. Begins(ls, p, n, c[n]) /\ ls[c[n]].k = "else"
  <2>1. n \in 1 .. Len(r.conds)
    BY <1>1, <1>3
  <2> HIDE DEF n, p
  <2>2. Begins(ls, p, n, c[n]) /\ FrameOK(macros, ls, r.conds, c, n)
    BY <1>5, <2>1, Zenon DEF GroupsAre
  <2> QED
    BY <1>4, <2>2, Zenon DEF FrameOK
<1>7. ChainLevel(ls, p) = n - 1
  BY <1>2, Zenon DEF ChainLevel
<1>8. /\ c[n] \in 1 .. p - 1 /\ ChainLevel(ls, c[n]) = ChainLevel(ls, p)
      /\ Between(ls, c[n], p, Conditionals) = {}
  BY <1>6, <1>7 DEF Begins
<1>9. Between(ls, c[n], p, {"endif"}) # {}
  <2>1. \A i \in DOMAIN ls :
          ls[i].k \in Conditionals \ Openers /\ ls[i].k # "endif" =>
            \A j \in 1 .. i - 1 :
              ls[j].k = "else" /\ ChainLevel(ls, j) = ChainLevel(ls, i)
                => Between(ls, j, i, {"endif"}) # {}
    BY ZenonT(30) DEF WellFormed
  <2> HIDE DEF p, n
  <2> QED
    BY <1>1, <1>2, <1>4, <1>6, <1>8, <2>1, ZenonT(40)
<1>10. Between(ls, c[n], p, {"endif"}) \subseteq Between(ls, c[n], p, Conditionals)
  BY DEF Between, Conditionals
<1> QED
  BY <1>8, <1>9, <1>10, Zenon

\* The #if stack keeps saying which groups are selected, in a static file.
LEMMA MatchesStep ==
  ASSUME WalkInv, NEW q, Moves(q), NEW ls, ls = src[r.file], WellFormed(ls),
         q.pos = r.pos + 1, Tracks(ls, r), Matches(macros, ls, r)
  PROVE  Matches(macros, ls, q)
<1>1. ~Misplaced(q)
  BY NoneMisplaced
<1> QED
  BY <1>1, OpenedMatches, TurnedMatches, ClosedMatches, PassedMatches, Zenon DEF Moves

\* Such a stack is live exactly where every group is selected.
LEMMA MatchesKeeps ==
  ASSUME WalkInv, More, NEW ls, ls = src[r.file], WellFormed(ls),
         Tracks(ls, r), Matches(macros, ls, r)
  PROVE  live(r) <=> Kept(ls, r.pos)
<1> DEFINE p == r.pos
           n == Len(r.conds)
<1>1. /\ r.conds \in Seq(Conds) /\ p \in Nat \ {0} /\ n \in Nat /\ ls \in Seq(Lines)
      /\ p <= Len(ls) + 1 /\ DOMAIN r.conds = 1 .. n
  BY TopLine
<1>2. n = Level(ls, p) /\ \A j \in 1 .. p : Level(ls, j) >= 0
  BY DEF Tracks
<1>3. PICK c : GroupsAre(macros, ls, p, r.conds, c)
  BY DEF Matches
<1>4. live(r) <=> \A d \in 1 .. n : r.conds[d].active
  BY <1>1 DEF live
<1>5. live(r) <=> \A d \in 1 .. n : SelectedIn(macros, ls, c[d])
  <2>1. n <= Len(r.conds)
    BY <1>1
  <2> HIDE DEF p
  <2> QED
    BY <1>1, <1>3, <1>4, <2>1, ActiveBelow, ZenonT(40)
<1>6. \A d \in 1 .. n : Begins(ls, p, d, c[d])
  BY <1>3, Zenon DEF GroupsAre
<1> HIDE DEF p, n
<1>7. Governs(ls, p, n, c)
  BY <1>1, <1>2, <1>6, GoverningIs, Zenon
<1>8. Kept(ls, p) <=> \A d \in 1 .. n : SelectedIn(macros, ls, c[d])
  BY <1>7, SelectedIs, ZenonT(30) DEF Kept, Governs
<1> QED
  BY <1>5, <1>8, Zenon DEF p

-----------------------------------------------------------------------------
(* The invariant of the groups, the guards and #pragma once *)

ReaderOK(ls, rd) ==
  /\ NotesOnce(ls, rd)
  /\ WellFormed(ls) => Stopped(ls, rd) \/ Tracks(ls, rd)
  /\ GuardIdiom(ls) => Stopped(ls, rd) \/ NotesGuard(ls, rd)

AtStart(rd) == rd.pos = 1 /\ rd.conds = <<>>

\* A reader in a static file knows which groups are selected, and one that
\* waits for another to end is not inside a static file: nothing in one opens
\* a file.
Reading(ms, ls, rd) == ReaderOK(ls, rd) /\ (WellFormed(ls) /\ Static(ls) => Matches(ms, ls, rd))
Waiting(ls, rd) == ReaderOK(ls, rd) /\ (WellFormed(ls) /\ Static(ls) => AtStart(rd))

CacheOK(ls, c) ==
  /\ c.done /\ OnceFirst(ls) => c.once
  /\ c.done /\ c.guard # None /\ GuardIdiom(ls) => GuardCloses(ls, Len(ls) + 1, c.guard)

StackInv ==
  /\ stack # <<>> => Reading(macros, src[r.file], r)
  /\ \A i \in 1 .. Len(stack) - 1 : Waiting(src[stack[i].file], stack[i])

PreInv == pre # <<>> => stack # <<>> /\ stack[1] = NewReader(Main, None)

CacheInv == \A f \in Files : CacheOK(src[f], cache[f])

SaidInv ==
  \A f \in said \cap Files :
    /\ src[f] # <<>>
    /\ cache[f].done \/ \E i \in DOMAIN stack : stack[i].file = f

GroupInv == StackInv /\ PreInv /\ CacheInv /\ SaidInv

\* A new reader is where it should be.
LEMMA NewReaderOK ==
  ASSUME NEW f, NEW md, NEW ls \in Seq(Lines)
  PROVE  ReaderOK(ls, NewReader(f, md)) /\ AtStart(NewReader(f, md))
<1> DEFINE rd == NewReader(f, md)
<1>1. rd.pos = 1 /\ rd.conds = <<>> /\ rd.pendingGuard = None
  BY DEF NewReader
<1> HIDE DEF rd
<1>2. NotesOnce(ls, rd)
  BY <1>1 DEF NotesOnce
<1>3. Tracks(ls, rd)
  <2>1. Len(ls) \in Nat /\ Len(<<>>) = 0
    OBVIOUS
  <2> QED
    BY <1>1, <2>1, LevelFirst DEF Tracks
<1>4. NotesGuard(ls, rd)
  BY <1>1 DEF NotesGuard
<1> QED
  BY <1>1, <1>2, <1>3, <1>4, ZenonT(40) DEF ReaderOK, AtStart, rd

\* A step keeps the top reader so.
LEMMA MoveOK ==
  ASSUME WalkInv, NEW q, Moves(q), NEW ls, ls = src[r.file], ReaderOK(ls, r)
  PROVE  ReaderOK(ls, q)
<1>1. r.pos <= Len(ls) /\ ls \in Seq(Lines) /\ r.pos \in Nat
  BY TopLine DEF Moves
<1>2. ~Stopped(ls, r)
  BY <1>1 DEF Stopped
<1>3. NotesOnce(ls, q)
  BY OnceStep DEF ReaderOK
<1>4. ASSUME WellFormed(ls)
      PROVE  Stopped(ls, q) \/ (q.pos = r.pos + 1 /\ Tracks(ls, q))
  BY <1>2, <1>4, TracksStep, Zenon DEF ReaderOK
<1>5. ASSUME GuardIdiom(ls), ~Stopped(ls, q)
      PROVE  NotesGuard(ls, q)
  <2>1. WellFormed(ls)
    BY <1>5 DEF GuardIdiom
  <2>2. Tracks(ls, r) /\ NotesGuard(ls, r) /\ q.pos = r.pos + 1
    BY <1>2, <1>4, <1>5, <2>1, Zenon DEF ReaderOK
  <2> QED
    BY <1>5, <2>2, GuardStep, Zenon
<1> QED
  BY <1>3, <1>4, <1>5, Zenon DEF ReaderOK

\* No group is open at the first line.
LEMMA MatchesStart ==
  ASSUME NEW ms, NEW ls, NEW rd, AtStart(rd)
  PROVE  Matches(ms, ls, rd)
<1>1. 1 .. Len(rd.conds) = {}
  BY DEF AtStart
<1> QED
  BY <1>1 DEF Matches, GroupsAre

\* A reader that waits can go on, whatever the macros have become.
LEMMA WaitingReads ==
  ASSUME NEW ms, NEW ls, NEW rd, Waiting(ls, rd)
  PROVE  Reading(ms, ls, rd)
  BY MatchesStart DEF Waiting, Reading

\* ... and the #if stack true to a static file's groups.
LEMMA MoveSelects ==
  ASSUME WalkInv, NEW q, Moves(q), NEW ls, ls = src[r.file], Reading(macros, ls, r),
         WellFormed(ls), Static(ls)
  PROVE  Matches(macros, ls, q)
<1>1. Matches(macros, ls, r)
  BY DEF Reading
<1>2. Tracks(ls, r)
  BY Zenon DEF Reading, ReaderOK, Stopped
<1>3. q.pos = r.pos + 1
  BY <1>2, TracksStep, Zenon DEF Stopped
<1> QED
  BY <1>1, <1>2, <1>3, MatchesStep, Zenon

\* What every step leaves alone.
LEMMA NextFrame ==
  ASSUME Next
  PROVE  /\ src' = src
         /\ PreInclude \/ pre' = pre
         /\ PragmaOnce \/ said' = said
         /\ DefineUndef \/ PushPopMacro \/ macros' = macros
         /\ DoInclude \/ PreInclude \/ EndFile \/ cache' = cache
<1>1. BeginIf => src' = src /\ pre' = pre /\ said' = said /\ macros' = macros /\ cache' = cache
  BY DEF BeginIf
<1>2. DoElif => src' = src /\ pre' = pre /\ said' = said /\ macros' = macros /\ cache' = cache
  BY Zenon DEF DoElif
<1>3. DoElse => src' = src /\ pre' = pre /\ said' = said /\ macros' = macros /\ cache' = cache
  BY DEF DoElse
<1>4. DoEndif => src' = src /\ pre' = pre /\ said' = said /\ macros' = macros /\ cache' = cache
  BY DEF DoEndif
<1>5. SkipLine => src' = src /\ pre' = pre /\ said' = said /\ macros' = macros /\ cache' = cache
  BY DEF SkipLine
<1>6. Text => src' = src /\ pre' = pre /\ said' = said /\ macros' = macros /\ cache' = cache
  BY DEF Text
<1>7. DefineUndef => src' = src /\ pre' = pre /\ said' = said /\ cache' = cache
  BY DEF DefineUndef
<1>8. PushPopMacro => src' = src /\ pre' = pre /\ said' = said /\ cache' = cache
  BY DEF PushPopMacro
<1>9. PragmaOnce => src' = src /\ pre' = pre /\ macros' = macros /\ cache' = cache
  BY DEF PragmaOnce
<1>10. BadDirective => src' = src /\ pre' = pre /\ said' = said /\ macros' = macros /\ cache' = cache
  BY DEF BadDirective
<1>11. DoInclude => src' = src /\ pre' = pre /\ said' = said /\ macros' = macros
  <2>1. DoInclude => UNCHANGED <<src, pre, macros, pushed, imported, out, said>>
    BY Zenon DEF DoInclude
  <2> QED
    BY <2>1
<1>12. PreInclude => src' = src /\ said' = said /\ macros' = macros
  BY DEF PreInclude
<1>13. ImportModule => src' = src /\ pre' = pre /\ said' = said /\ macros' = macros /\ cache' = cache
  <2>1. ImportModule => UNCHANGED <<src, pre, macros, pushed, cache, said>>
    BY Zenon DEF ImportModule
  <2> QED
    BY <2>1
<1>14. PrivateFragment => src' = src /\ pre' = pre /\ said' = said /\ macros' = macros /\ cache' = cache
  BY DEF PrivateFragment
<1>15. EndFile => src' = src /\ pre' = pre /\ said' = said /\ macros' = macros
  BY DEF EndFile
<1> QED
  BY <1>1, <1>2, <1>3, <1>4, <1>5, <1>6, <1>7, <1>8, <1>9, <1>10, <1>11, <1>12, <1>13, <1>14, <1>15, ZenonT(30) DEF Next

\* No line of a static file changes the macros, or opens a file.
LEMMA StaticLine ==
  ASSUME WalkInv, Next, More, Static(src[r.file])
  PROVE  macros' = macros /\ line.k \notin {"include", "import", "module"}
<1>1. line.k \in Conditionals \cup {"null", "text"}
  BY TopLine DEF Static
<1>2. line.k \notin {"include", "import", "module", "define", "undef", "push", "pop"}
  BY <1>1 DEF Conditionals, Openers
<1>3. ~DefineUndef /\ ~PushPopMacro
  BY <1>2 DEF DefineUndef, PushPopMacro
<1> QED
  BY <1>2, <1>3, NextFrame, ZenonT(40)

\* The stacks a step can leave, reader by reader.
LEMMA StackShapes ==
  ASSUME WalkInv, stack # <<>>
  PROVE  /\ Len(stack) \in Nat \ {0} /\ stack \in Seq(Readers)
         /\ \A q \in Readers :
              /\ Replaced(stack, q) \in Seq(Readers)
              /\ Len(Replaced(stack, q)) = Len(stack)
              /\ Replaced(stack, q)[Len(stack)] = q
              /\ \A i \in 1 .. Len(stack) - 1 : Replaced(stack, q)[i] = stack[i]
         /\ Len(SubSeq(stack, 1, Len(stack) - 1)) = Len(stack) - 1
         /\ \A i \in 1 .. Len(stack) - 1 : SubSeq(stack, 1, Len(stack) - 1)[i] = stack[i]
<1>1. stack \in Seq(Readers) /\ Len(stack) \in Nat \ {0}
  BY DEF WalkInv, GoodWalk, GoodStack
<1>2. ASSUME NEW q \in Readers
      PROVE  /\ Replaced(stack, q) \in Seq(Readers)
             /\ Len(Replaced(stack, q)) = Len(stack)
             /\ Replaced(stack, q)[Len(stack)] = q
             /\ \A i \in 1 .. Len(stack) - 1 : Replaced(stack, q)[i] = stack[i]
  BY <1>1 DEF Replaced
<1>3. /\ Len(SubSeq(stack, 1, Len(stack) - 1)) = Len(stack) - 1
      /\ \A i \in 1 .. Len(stack) - 1 : SubSeq(stack, 1, Len(stack) - 1)[i] = stack[i]
  <2>1. Len(SubSeq(stack, 1, Len(stack) - 1)) = Len(stack) - 1
    BY PopReader DEF WalkInv, GoodWalk
  <2>2. \A i \in 1 .. Len(stack) - 1 : SubSeq(stack, 1, Len(stack) - 1)[i] = stack[i]
    BY <1>1
  <2> QED
    BY <2>1, <2>2, ZenonT(40)
<1> QED
  BY <1>1, <1>2, <1>3, Zenon

\* A new reader over a stack.
LEMMA PushShape ==
  ASSUME NEW s \in Seq(Readers), NEW f \in Files, NEW md \in Modules \cup {None}
  PROVE  LET t == Append(s, NewReader(f, md))
         IN  /\ Len(t) = Len(s) + 1 /\ t[Len(s) + 1] = NewReader(f, md)
             /\ \A i \in 1 .. Len(s) : t[i] = s[i]
<1>1. NewReader(f, md) \in Readers
  BY NewReaderGood, Zenon DEF GoodReader
<1> QED
  BY <1>1

\* It waits at the start of its file.
LEMMA NewWaits ==
  ASSUME WalkInv, NEW f \in Files, NEW md
  PROVE  NewReader(f, md).file = f /\ Waiting(src[f], NewReader(f, md))
<1>1. NewReader(f, md).file = f /\ src[f] \in Seq(Lines)
  BY DEF NewReader, WalkInv, OthersOK
<1> QED
  BY <1>1, NewReaderOK, ZenonT(40) DEF Waiting

\* The stack that a step which moves the top reader leaves.
LEMMA MoveKeeps ==
  ASSUME WalkInv, StackInv, Next, NEW q, Moves(q), Steps(q)
  PROVE  StackInv'
<1> DEFINE n == Len(stack)
           s == Replaced(stack, q)
<1>1. src' = src /\ stack # <<>> /\ More /\ q \in Readers /\ q.file = r.file
  BY NextFrame DEF Moves, More
<1>2. /\ n \in Nat \ {0} /\ s \in Seq(Readers) /\ Len(s) = n /\ s[n] = q
      /\ \A i \in 1 .. n - 1 : s[i] = stack[i]
  BY <1>1, StackShapes, ZenonT(40)
<1>3. PICK ls : ls = src[r.file]
  OBVIOUS
<1>4. Reading(macros, ls, r) /\ \A i \in 1 .. n - 1 : Waiting(src[stack[i].file], stack[i])
  BY <1>1, <1>3 DEF StackInv
<1>5. ReaderOK(ls, q)
  BY <1>3, <1>4, MoveOK, Zenon DEF Reading
<1> HIDE DEF s, n
<1>6. CASE stack' = s
  <2>1. ASSUME WellFormed(ls), Static(ls) PROVE Matches(macros', ls, q)
    <3>1. macros' = macros
      BY <1>1, <1>3, <2>1, StaticLine, Zenon
    <3>2. Matches(macros, ls, q)
      BY <1>3, <1>4, <2>1, MoveSelects, Zenon
    <3> QED
      BY <3>1, <3>2
  <2>2. Reading(macros', ls, q)
    BY <1>5, <2>1, ZenonT(40) DEF Reading
  <2>3. Len(stack') = n /\ stack'[n] = q /\ \A i \in 1 .. n - 1 : stack'[i] = stack[i]
    BY <1>2, <1>6
  <2>4. r' = q /\ src'[q.file] = ls
    BY <1>1, <1>3, <2>3, Zenon DEF r
  <2>5. Reading(macros', src'[r'.file], r')
    BY <2>2, <2>4
  <2>6. \A i \in 1 .. Len(stack') - 1 : Waiting(src'[stack'[i].file], stack'[i])
    BY <1>1, <1>4, <2>3, Zenon
  <2> QED
    BY <2>5, <2>6, Zenon DEF StackInv
<1>7. CASE /\ line.k \in {"include", "import", "module"}
           /\ \E f \in Files, md \in Modules \cup {None} : stack' = Append(s, NewReader(f, md))
  <2>1. PICK f \in Files, md \in Modules \cup {None} : stack' = Append(s, NewReader(f, md))
    BY <1>7
  <2>2. /\ Len(stack') = n + 1 /\ stack'[n + 1] = NewReader(f, md)
        /\ \A i \in 1 .. n : stack'[i] = s[i]
    BY <1>2, <2>1, PushShape, Zenon
  <2>3. ~Static(ls)
    BY <1>1, <1>3, <1>7, StaticLine, Zenon
  <2>4. Waiting(ls, q)
    BY <1>5, <2>3, Zenon DEF Waiting
  <2>5. NewReader(f, md).file = f /\ Waiting(src[f], NewReader(f, md))
    BY NewWaits
  <2>6. r' = NewReader(f, md)
    BY <2>2 DEF r
  <2>7. Reading(macros', src'[r'.file], r')
    BY <1>1, <2>5, <2>6, WaitingReads, ZenonT(40)
  <2>8. \A i \in 1 .. n + 1 - 1 : i = n \/ i \in 1 .. n - 1
    BY <1>2
  <2>9. \A i \in 1 .. n + 1 - 1 : i \in 1 .. n
    BY <1>2
  <2>10. \A i \in 1 .. n + 1 - 1 : Waiting(src[stack'[i].file], stack'[i])
    <3> SUFFICES ASSUME NEW i \in 1 .. n + 1 - 1 PROVE Waiting(src[stack'[i].file], stack'[i])
      OBVIOUS
    <3>1. CASE i = n
      <4>1. stack'[i] = q
        BY <1>2, <2>2, <2>9, <3>1, Zenon
      <4> QED
        BY <1>1, <1>3, <2>4, <4>1, Zenon
    <3>2. CASE i \in 1 .. n - 1
      <4>1. stack'[i] = stack[i]
        BY <1>2, <2>2, <2>9, <3>2, Zenon
      <4> QED
        BY <1>4, <3>2, <4>1, Zenon
    <3> QED
      BY <2>8, <3>1, <3>2, ZenonT(40)
  <2>11. \A i \in 1 .. Len(stack') - 1 : Waiting(src'[stack'[i].file], stack'[i])
    <3> SUFFICES ASSUME NEW i \in 1 .. Len(stack') - 1
                 PROVE  Waiting(src'[stack'[i].file], stack'[i])
      OBVIOUS
    <3>1. i \in 1 .. n + 1 - 1
      BY <1>2, <2>2
    <3>2. Waiting(src[stack'[i].file], stack'[i])
      BY <2>10, <3>1, Zenon
    <3> QED
      BY <1>1, <3>2, Zenon
  <2> QED
    BY <2>7, <2>11 DEF StackInv
<1> QED
  BY <1>6, <1>7, ZenonT(40) DEF Steps, s

\* A PreInclude opens at most one file over the primary file, not yet begun.
LEMMA PreIncludeKeeps ==
  ASSUME WalkInv, StackInv, PreInv, PreInclude
  PROVE  StackInv' /\ PreInv'
<1>1. /\ Len(stack) = 1 /\ stack # <<>> /\ pre # <<>>
      /\ src' = src /\ macros' = macros
  BY Zenon DEF PreInclude
<1>2. IncludeFile(Head(pre), FALSE, stack)
  BY Zenon DEF PreInclude
<1>3. stack' = stack \/ \E f \in Files : stack' = Append(stack, NewReader(f, None))
  BY <1>2, IncludeFileMoves, Zenon
<1>4. stack \in Seq(Readers) /\ stack[1] = NewReader(Main, None) /\ r = stack[1]
  BY <1>1, StackShapes, ZenonT(40) DEF PreInv, r
<1>5. CASE stack' = stack
  <2>1. StackInv'
    <3>1. r' = r
      BY <1>5, ZenonT(40) DEF r
    <3> QED
      BY <1>1, <1>5, <3>1, Zenon DEF StackInv
  <2> QED
    BY <1>1, <1>4, <1>5, <2>1, Zenon DEF PreInv, NewReader
<1>6. CASE \E f \in Files : stack' = Append(stack, NewReader(f, None))
  <2>1. PICK f \in Files : stack' = Append(stack, NewReader(f, None))
    BY <1>6
  <2>2. Len(stack') = 2 /\ stack'[2] = NewReader(f, None) /\ stack'[1] = stack[1]
    <3>1. /\ Len(stack') = Len(stack) + 1 /\ stack'[Len(stack) + 1] = NewReader(f, None)
          /\ \A i \in 1 .. Len(stack) : stack'[i] = stack[i]
      BY <1>4, <2>1, PushShape, Zenon
    <3> QED
      BY <1>1, <3>1
  <2>3. NewReader(f, None).file = f /\ Waiting(src[f], NewReader(f, None))
    BY NewWaits
  <2>4. r' = NewReader(f, None)
    BY <2>2, Zenon DEF r
  <2>5. Reading(macros', src'[r'.file], r')
    BY <1>1, <2>3, <2>4, WaitingReads, Zenon
  <2>6. AtStart(stack[1])
    <3>1. AtStart(NewReader(Main, None))
      BY Zenon DEF AtStart, NewReader
    <3> QED
      BY <1>4, <3>1, Zenon
  <2>7. Waiting(src[stack[1].file], stack[1])
    BY <1>1, <1>4, <2>6, Zenon DEF StackInv, Reading, Waiting
  <2>8. \A i \in 1 .. Len(stack') - 1 : Waiting(src'[stack'[i].file], stack'[i])
    <3>1. \A i \in 1 .. Len(stack') - 1 : i = 1
      BY <2>2
    <3> QED
      BY <1>1, <2>2, <2>7, <3>1, Zenon
  <2>9. stack' # <<>> /\ stack'[1] = NewReader(Main, None)
    <3>1. stack' # <<>>
      BY <2>2
    <3> QED
      BY <1>4, <2>2, <3>1, Zenon
  <2> QED
    BY <2>5, <2>8, <2>9, Zenon DEF StackInv, PreInv, NewReader
<1> QED
  BY <1>3, <1>5, <1>6, Zenon

\* The reader under the one that ends goes on.
LEMMA EndFileKeeps ==
  ASSUME WalkInv, StackInv, PreInv, EndFile
  PROVE  StackInv' /\ PreInv'
<1> DEFINE n == Len(stack)
<1>1. /\ stack # <<>> /\ stack' = SubSeq(stack, 1, n - 1)
      /\ src' = src /\ pre' = pre /\ (pre = <<>> \/ n > 1)
  BY Zenon DEF EndFile
<1>2. /\ n \in Nat \ {0} /\ Len(stack') = n - 1
      /\ \A i \in 1 .. n - 1 : stack'[i] = stack[i]
  BY <1>1, StackShapes, Zenon
<1>3. \A i \in 1 .. n - 1 : Waiting(src[stack[i].file], stack[i])
  BY DEF StackInv
<1> HIDE DEF n
<1>4. ASSUME stack' # <<>> PROVE Reading(macros', src'[r'.file], r')
  <2>1. n - 1 \in 1 .. n - 1
    <3>1. n = 1 => stack' = <<>>
      BY <1>1, StackShapes DEF n
    <3> QED
      BY <1>2, <1>4, <3>1
  <2>2. r' = stack[n - 1]
    BY <1>2, <2>1 DEF r
  <2> QED
    BY <1>1, <1>3, <2>1, <2>2, WaitingReads, Zenon
<1>5. \A i \in 1 .. Len(stack') - 1 : Waiting(src'[stack'[i].file], stack'[i])
  <2>1. \A i \in 1 .. Len(stack') - 1 : i \in 1 .. n - 1
    BY <1>2
  <2> QED
    BY <1>1, <1>2, <1>3, <2>1, Zenon
<1>6. StackInv'
  BY <1>4, <1>5 DEF StackInv
<1>7. ASSUME pre' # <<>> PROVE stack' # <<>> /\ stack'[1] = NewReader(Main, None)
  <2>1. n > 1 /\ stack[1] = NewReader(Main, None)
    BY <1>1, <1>7 DEF PreInv
  <2>2. 1 \in 1 .. n - 1 /\ Len(stack') # 0
    BY <1>2, <2>1
  <2>3. stack' # <<>>
    BY <2>2
  <2> QED
    BY <1>2, <2>1, <2>2, <2>3, Zenon
<1> QED
  BY <1>6, <1>7 DEF PreInv, NewReader

\* Until the last PreInclude the primary file is not read from.
LEMMA MovePre ==
  ASSUME WalkInv, PreInv, Next, ~PreInclude, NEW q, Moves(q), Steps(q)
  PROVE  PreInv'
<1> DEFINE n == Len(stack)
           s == Replaced(stack, q)
<1>1. stack # <<>> /\ q \in Readers /\ (pre = <<>> \/ n > 1) /\ pre' = pre
  BY NextFrame DEF Moves, More
<1>2. /\ n \in Nat \ {0} /\ s \in Seq(Readers) /\ Len(s) = n
      /\ \A i \in 1 .. n - 1 : s[i] = stack[i]
  BY <1>1, StackShapes, Zenon
<1>3. ASSUME pre' # <<>> PROVE stack' # <<>> /\ stack'[1] = NewReader(Main, None)
  <2>1. n > 1 /\ stack[1] = NewReader(Main, None)
    BY <1>1, <1>3 DEF PreInv
  <2>2. s[1] = stack[1] /\ s # <<>>
    BY <1>2, <2>1
  <2> HIDE DEF s, n
  <2>3. CASE stack' = s
    BY <2>1, <2>2, <2>3, Zenon
  <2>4. CASE \E f \in Files, md \in Modules \cup {None} : stack' = Append(s, NewReader(f, md))
    <3>1. PICK f \in Files, md \in Modules \cup {None} : stack' = Append(s, NewReader(f, md))
      BY <2>4
    <3>2. Len(stack') = n + 1 /\ stack'[1] = s[1]
      BY <1>2, <3>1, PushShape
    <3>3. stack' # <<>>
      BY <1>2, <3>2
    <3> QED
      BY <2>1, <2>2, <3>2, <3>3, Zenon
  <2> QED
    BY <2>3, <2>4, Zenon DEF Steps, s
<1> QED
  BY <1>3 DEF PreInv, NewReader

\* A record of a file changes when #import starts to read it, and when a read
\* of it first ends.
LEMMA CacheStep ==
  ASSUME WalkInv, Next, NEW f \in Files
  PROVE  \/ cache'[f] = cache[f]
         \/ /\ cache'[f].done = cache[f].done /\ cache'[f].guard = cache[f].guard
            /\ cache'[f].once
         \/ EndFile /\ f = r.file /\ ~cache[f].done /\ cache'[f] = Record(cache[f], r)
<1>1. cache \in [Files -> Caches]
  BY DEF WalkInv, OthersOK
<1>2. ASSUME NEW g, NEW imp, NEW below, IncludeFile(g, imp, below)
      PROVE  \/ cache'[f] = cache[f]
             \/ /\ cache'[f].done = cache[f].done /\ cache'[f].guard = cache[f].guard
                /\ cache'[f].once
  <2>1. \/ cache' = cache
        \/ g \in Files /\ cache' = [cache EXCEPT ![g].once = TRUE, ![g].imported = TRUE]
    BY <1>2, Zenon DEF IncludeFile
  <2>2. CASE cache' = cache
    BY <2>2, Zenon
  <2>3. CASE g \in Files /\ cache' = [cache EXCEPT ![g].once = TRUE, ![g].imported = TRUE]
    <3>1. cache[g] \in Caches /\ cache[f] \in Caches
      BY <1>1, <2>3
    <3>2. CASE f = g
      <4> DEFINE c == [[cache[g] EXCEPT !.once = TRUE] EXCEPT !.imported = TRUE]
      <4>1. cache'[g] = c
        BY <1>1, <2>3
      <4>2. c.done = cache[g].done /\ c.guard = cache[g].guard /\ c.once
        BY <3>1 DEF Caches
      <4> QED
        BY <3>2, <4>1, <4>2, Zenon
    <3>3. CASE f # g
      BY <1>1, <2>3, <3>3, ZenonT(40)
    <3> QED
      BY <3>2, <3>3
  <2> QED
    BY <2>1, <2>2, <2>3, Zenon
<1>3. CASE DoInclude
  <2>1. CASE TooDeep
    BY <1>3, <2>1, Zenon DEF DoInclude
  <2>2. CASE ~TooDeep
    <3> DEFINE imp == line.k = "import"
    <3> HIDE DEF imp
    <3>1. IncludeFile(line.x, imp, Below)
      BY <1>3, <2>2, Zenon DEF DoInclude, imp
    <3> QED
      BY <1>2, <3>1, Zenon
  <2> QED
    BY <2>1, <2>2
<1>4. CASE PreInclude
  <2>1. IncludeFile(Head(pre), FALSE, stack)
    BY <1>4, ZenonT(40) DEF PreInclude
  <2> QED
    BY <1>2, <2>1, Zenon
<1>5. CASE EndFile
  <2>1. CASE r.file \notin Files \/ cache[r.file].done
    BY <1>5, <2>1, ZenonT(40) DEF EndFile
  <2>2. CASE ~(r.file \notin Files \/ cache[r.file].done)
    <3> DEFINE c == Record(cache[r.file], r)
    <3>1. cache' = [cache EXCEPT ![r.file] = c]
      BY <1>5, <2>2 DEF EndFile
    <3> HIDE DEF c
    <3>2. cache'[f] = IF f = r.file THEN c ELSE cache[f]
      BY <1>1, <3>1
    <3> QED
      BY <1>5, <2>2, <3>2, ZenonT(30) DEF c
  <2> QED
    BY <2>1, <2>2
<1> QED
  BY <1>3, <1>4, <1>5, NextFrame, Zenon

\* What is recorded of a file when a read of it ends is true of the file.
LEMMA RecordOK ==
  ASSUME WalkInv, StackInv, EndFile, NEW c \in Caches
  PROVE  CacheOK(src[r.file], Record(c, r))
<1> DEFINE ls == src[r.file]
<1>1. stack # <<>> /\ r.pos > Len(ls) /\ r \in Readers
  BY Top DEF EndFile
<1>2. ls \in Seq(Lines) /\ Len(ls) \in Nat /\ r.pos \in Nat /\ r.guardFound = None
      /\ r.conds \in Seq(Conds)
  BY <1>1 DEF WalkInv, OthersOK, Readers
<1>3. ReaderOK(ls, r)
  BY <1>1 DEF StackInv, Reading
<1>4. /\ Record(c, r).done /\ Record(c, r).guard = Guard(r)
      /\ (Record(c, r).once <=> c.once \/ r.once)
  BY Zenon DEF Record
<1>5. ASSUME OnceFirst(ls) PROVE r.once
  <2>1. r.pos > 1
    BY <1>1, <1>2, <1>5 DEF OnceFirst
  <2> QED
    BY <1>3, <1>5, <2>1, ZenonT(40) DEF ReaderOK, NotesOnce
<1>6. ASSUME Guard(r) # None, GuardIdiom(ls) PROVE GuardCloses(ls, Len(ls) + 1, Guard(r))
  <2>1. r.miValid /\ Guard(r) = r.pendingGuard
    BY <1>2, <1>6 DEF Guard
  <2>2. WellFormed(ls) /\ Level(ls, Len(ls) + 1) = 0
    BY <1>6, Zenon DEF GuardIdiom, WellFormed
  <2>3. Tracks(ls, r) /\ NotesGuard(ls, r)
    BY <1>3, <1>6, <2>1, <2>2, Zenon DEF ReaderOK, Stopped
  <2>4. r.pos = Len(ls) + 1
    BY <1>1, <1>2, <2>3 DEF Tracks
  <2>5. r.conds = <<>>
    BY <1>2, <2>2, <2>3, <2>4 DEF Tracks
  <2> QED
    BY <1>6, <2>1, <2>3, <2>4, <2>5, Zenon DEF NotesGuard
<1> HIDE DEF ls
<1> QED
  BY <1>4, <1>5, <1>6, ZenonT(40) DEF CacheOK, ls

\* Every record stays true of its file.
LEMMA CacheKeeps ==
  ASSUME WalkInv, StackInv, CacheInv, Next
  PROVE  CacheInv'
<1>1. src' = src
  BY NextFrame
<1> SUFFICES ASSUME NEW f \in Files PROVE CacheOK(src[f], cache'[f])
  BY <1>1 DEF CacheInv
<1>2. CacheOK(src[f], cache[f]) /\ cache[f] \in Caches
  BY DEF CacheInv, WalkInv, OthersOK
<1>3. CASE cache'[f] = cache[f]
  BY <1>2, <1>3
<1>4. CASE cache'[f].done = cache[f].done /\ cache'[f].guard = cache[f].guard /\ cache'[f].once
  BY <1>2, <1>4, Zenon DEF CacheOK
<1>5. CASE EndFile /\ f = r.file /\ ~cache[f].done /\ cache'[f] = Record(cache[f], r)
  BY <1>2, <1>5, RecordOK, Zenon
<1> QED
  BY <1>3, <1>4, <1>5, CacheStep, Zenon

\* Only the end of a file takes a reader off the stack.
LEMMA FilesStay ==
  ASSUME WalkInv, Next, ~EndFile, NEW i \in DOMAIN stack
  PROVE  i \in DOMAIN stack' /\ stack'[i].file = stack[i].file
<1> DEFINE n == Len(stack)
<1>1. stack \in Seq(Readers) /\ n \in Nat \ {0} /\ DOMAIN stack = 1 .. n /\ stack # <<>>
  BY DEF WalkInv, GoodWalk, GoodStack
<1>2. ASSUME NEW s \in Seq(Readers), Len(s) = n, s[i].file = stack[i].file,
             stack' = s \/ \E f \in Files, md \in Modules \cup {None} : stack' = Append(s, NewReader(f, md))
      PROVE  i \in DOMAIN stack' /\ stack'[i].file = stack[i].file
  <2>1. CASE stack' = s
    <3>1. i \in DOMAIN s
      BY <1>1, <1>2
    <3> QED
      BY <1>2, <2>1, <3>1, ZenonT(40)
  <2>2. CASE \E f \in Files, md \in Modules \cup {None} : stack' = Append(s, NewReader(f, md))
    <3>1. PICK f \in Files, md \in Modules \cup {None} : stack' = Append(s, NewReader(f, md))
      BY <2>2
    <3>2. NewReader(f, md) \in Readers
      BY NewReaderGood DEF GoodReader
    <3>3. i \in DOMAIN stack' /\ stack'[i] = s[i]
      BY <1>1, <1>2, <3>1, <3>2
    <3> QED
      BY <1>2, <3>3, Zenon
  <2> QED
    BY <1>2, <2>1, <2>2, ZenonT(40)
<1>3. CASE PreInclude
  <2>1. IncludeFile(Head(pre), FALSE, stack)
    BY <1>3, Zenon DEF PreInclude
  <2>2. stack' = stack \/ \E f \in Files : stack' = Append(stack, NewReader(f, None))
    BY <2>1, IncludeFileMoves, Zenon
  <2> QED
    BY <1>1, <1>2, <2>2, Zenon
<1>4. CASE \E q : Moves(q) /\ Steps(q)
  <2>1. PICK q : Moves(q) /\ Steps(q)
    BY <1>4, Zenon
  <2> DEFINE s == Replaced(stack, q)
  <2>2. /\ s \in Seq(Readers) /\ Len(s) = n /\ s[n] = q
        /\ \A j \in 1 .. n - 1 : s[j] = stack[j]
    BY <1>1, <2>1, StackShapes, Zenon DEF Moves
  <2>3. s[i].file = stack[i].file
    <3>1. CASE i = n
      BY <2>1, <2>2, <3>1, Zenon DEF Moves, r
    <3>2. CASE i # n
      BY <1>1, <2>2, <3>2
    <3> QED
      BY <3>1, <3>2, Zenon
  <2>4. stack' = s \/ \E f \in Files, md \in Modules \cup {None} : stack' = Append(s, NewReader(f, md))
    BY <2>1 DEF Steps
  <2> HIDE DEF s
  <2> QED
    BY <1>2, <2>2, <2>3, <2>4, Zenon
<1> QED
  BY <1>3, <1>4, NextMoves

\* A file that said #pragma once is being read or has been.
LEMMA SaidKeeps ==
  ASSUME WalkInv, SaidInv, Next
  PROVE  SaidInv'
<1>1. src' = src
  BY NextFrame, Zenon
<1> SUFFICES ASSUME NEW f \in said' \cap Files
             PROVE  /\ src[f] # <<>>
                    /\ cache'[f].done \/ \E i \in DOMAIN stack' : stack'[i].file = f
  BY <1>1 DEF SaidInv
<1>2. CASE PragmaOnce /\ f = r.file
  <2>1. More /\ stack # <<>> /\ ~EndFile
    <3>1. More /\ stack # <<>> /\ r.pos <= Len(src[r.file])
      BY <1>2, Zenon DEF PragmaOnce, More
    <3>2. r.pos \in Nat /\ Len(src[r.file]) \in Nat
      BY <3>1, TopLine
    <3> QED
      BY <3>1, <3>2 DEF EndFile
  <2>2. src[f] # <<>>
    BY <1>2, <2>1, TopLine
  <2>3. Len(stack) \in DOMAIN stack /\ stack[Len(stack)].file = f
    BY <1>2, <2>1 DEF WalkInv, GoodWalk, GoodStack, r
  <2> QED
    BY <2>1, <2>2, <2>3, FilesStay, ZenonT(40)
<1>3. CASE f \in said
  <2>1. src[f] # <<>> /\ (cache[f].done \/ \E i \in DOMAIN stack : stack[i].file = f)
    BY <1>3, Zenon DEF SaidInv
  <2>2. Record(cache[f], r).done
    BY Zenon DEF Record
  <2>3. CASE cache[f].done
    BY <2>1, <2>2, <2>3, CacheStep, Zenon
  <2>4. CASE ~cache[f].done /\ EndFile
    <3> DEFINE n == Len(stack)
    <3>1. PICK i \in DOMAIN stack : stack[i].file = f
      BY <2>1, <2>4, Zenon
    <3>2. stack # <<>> /\ DOMAIN stack = 1 .. n /\ n \in Nat \ {0}
      BY <2>4 DEF EndFile, WalkInv, GoodWalk, GoodStack
    <3>3. stack' = SubSeq(stack, 1, n - 1)
      BY <2>4, Zenon DEF EndFile
    <3>4. DOMAIN stack' = 1 .. n - 1 /\ \A j \in 1 .. n - 1 : stack'[j] = stack[j]
      BY <3>2, <3>3, StackShapes DEF WalkInv, GoodWalk, GoodStack
    <3>5. CASE i = n
      <4>1. r.file = f /\ r.file \in Files
        BY <3>1, <3>5, Zenon DEF r
      <4>2. cache' = [cache EXCEPT ![r.file] = Record(@, r)]
        BY <2>4, <4>1, ZenonT(40) DEF EndFile
      <4>3. cache'[f] = Record(cache[f], r)
        <5> DEFINE c == Record(cache[f], r)
        <5>1. cache' = [cache EXCEPT ![f] = c]
          BY <4>1, <4>2, Zenon
        <5> HIDE DEF c
        <5>2. cache'[f] = c
          BY <5>1 DEF WalkInv, OthersOK
        <5> QED
          BY <5>2 DEF c
      <4> QED
        BY <2>1, <2>2, <4>3, Zenon
    <3>6. CASE i # n
      <4>1. i \in 1 .. n - 1
        BY <3>2, <3>6
      <4> QED
        BY <2>1, <3>1, <3>4, <4>1, Zenon
    <3> QED
      BY <3>5, <3>6, Zenon
  <2>5. CASE ~cache[f].done /\ ~EndFile
    BY <2>1, <2>5, FilesStay, Zenon
  <2> QED
    BY <2>3, <2>4, <2>5, Zenon
<1>4. f \in said \/ (PragmaOnce /\ f = r.file)
  <2>1. PragmaOnce => said' = said \cup {r.file}
    BY DEF PragmaOnce
  <2> QED
    BY <2>1, NextFrame
<1> QED
  BY <1>2, <1>3, <1>4, Zenon

-----------------------------------------------------------------------------
(* The invariant holds *)

\* The primary file alone is on the stack, at its first line.
LEMMA GroupInit == Init => GroupInv
<1> SUFFICES ASSUME Init PROVE GroupInv
  OBVIOUS
<1>1. WalkInv
  BY InitInv
<1>2. stack = <<NewReader(Main, None)>> /\ Len(stack) = 1 /\ stack[1] = NewReader(Main, None)
  BY Zenon DEF Init
<1>3. r = NewReader(Main, None) /\ r.file = Main /\ stack # <<>>
  BY <1>2 DEF r, NewReader
<1>4. StackInv
  <2>1. src[Main] \in Seq(Lines)
    BY <1>1, Zenon DEF WalkInv, OthersOK
  <2>2. Waiting(src[r.file], r)
    BY <1>3, <2>1, NewReaderOK, Zenon DEF Waiting
  <2>3. 1 .. Len(stack) - 1 = {}
    BY <1>2
  <2>4. Reading(macros, src[r.file], r)
    BY <2>2, WaitingReads, Zenon
  <2> QED
    BY <2>3, <2>4, Zenon DEF StackInv
<1>5. PreInv
  BY <1>2, <1>3, Zenon DEF PreInv
<1>6. CacheInv
  <2>1. \A f \in Files : ~cache[f].done
    BY DEF Init, NewCached
  <2> QED
    BY <2>1, Zenon DEF CacheInv, CacheOK
<1>7. SaidInv
  BY DEF SaidInv, Init
<1> QED
  BY <1>4, <1>5, <1>6, <1>7, Zenon DEF GroupInv

\* A step of the top reader keeps it, and so does one that opens or ends a file.
LEMMA GroupNext ==
  ASSUME WalkInv, GroupInv, [Next]_vars
  PROVE  GroupInv'
<1>1. CASE UNCHANGED vars
  <2>1. /\ src' = src /\ pre' = pre /\ stack' = stack /\ macros' = macros
        /\ cache' = cache /\ said' = said
    BY <1>1 DEF vars
  <2>2. r' = r
    BY <2>1 DEF r
  <2>3. StackInv'
    BY <2>1, <2>2, Zenon DEF GroupInv, StackInv
  <2>4. PreInv' /\ CacheInv' /\ SaidInv'
    BY <2>1, Zenon DEF GroupInv, PreInv, CacheInv, SaidInv
  <2> QED
    BY <2>3, <2>4, Zenon DEF GroupInv
<1>2. CASE Next
  <2>1. StackInv /\ PreInv /\ CacheInv /\ SaidInv
    BY DEF GroupInv
  <2>2. StackInv' /\ PreInv'
    <3>1. CASE PreInclude
      BY <2>1, <3>1, PreIncludeKeeps, Zenon
    <3>2. CASE EndFile
      BY <2>1, <3>2, EndFileKeeps, Zenon
    <3>3. CASE ~PreInclude /\ \E q : Moves(q) /\ Steps(q)
      BY <1>2, <2>1, <3>3, MoveKeeps, MovePre, Zenon
    <3> QED
      BY <1>2, <3>1, <3>2, <3>3, NextMoves, Zenon
  <2>3. CacheInv' /\ SaidInv'
    BY <1>2, <2>1, CacheKeeps, SaidKeeps, Zenon
  <2> QED
    BY <2>2, <2>3, Zenon DEF GroupInv
<1> QED
  BY <1>1, <1>2, Zenon

\* GroupInv holds throughout a walk: every reader on the stack, the include
\* cache and the files that said #pragma once are as it says.
THEOREM GroupInvariance == Spec => [](WalkInv /\ GroupInv)
<1>1. Init => WalkInv /\ GroupInv
  BY InitInv, GroupInit
<1>2. WalkInv /\ GroupInv /\ [Next]_vars => (WalkInv /\ GroupInv)'
  BY NextInv, GroupNext
<1> QED
  BY <1>1, <1>2, PTL DEF Spec

\* In a well-formed file of conditionals and text the #if stack keeps exactly
\* the lines that [cpp.cond] selects, for any nesting, any macros and any
\* number of files (beginIf, doElif, doElse, doEndif).
THEOREM SelectionKept == Spec => []KeepsWhatIsSelected
<1>1. WalkInv /\ GroupInv => KeepsWhatIsSelected
  <2> SUFFICES ASSUME WalkInv, GroupInv, More, WellFormed(src[r.file]), Static(src[r.file])
               PROVE  live(r) <=> Kept(src[r.file], r.pos)
    BY Zenon DEF KeepsWhatIsSelected
  <2>1. Reading(macros, src[r.file], r)
    BY DEF GroupInv, StackInv, More
  <2>2. Tracks(src[r.file], r) /\ Matches(macros, src[r.file], r)
    BY <2>1, Zenon DEF Reading, ReaderOK, Stopped
  <2> QED
    BY <2>2, MatchesKeeps, Zenon
<1> QED
  BY <1>1, GroupInvariance, PTL

\* A file in which nothing stands outside one group that a defined macro
\* guards has no effect.
LEMMA ClosedIsInert ==
  ASSUME WalkInv, NEW ls \in Seq(Lines), GuardIdiom(ls), NEW G \in macros,
         GuardCloses(ls, Len(ls) + 1, G)
  PROVE  Inert(ls)
<1>1. PICK e \in 1 .. Len(ls) :
        /\ \E g \in 1 .. e - 1 : GuardOpens(ls, g, e, G)
        /\ \A j \in e .. Len(ls) : ~Effect(ls[j])
  <2>1. Len(ls) + 1 - 1 = Len(ls)
    OBVIOUS
  <2> QED
    BY <2>1 DEF GuardCloses
<1>2. PICK g \in 1 .. e - 1 : GuardOpens(ls, g, e, G)
  BY <1>1
<1>3. g \in DOMAIN ls /\ e \in Int /\ g \in Int
  OBVIOUS
<1>4. /\ ls[g].k \in {"ifndef", "ifnot", "ifnotor"} /\ ls[g].x = G /\ Level(ls, g) = 0
      /\ ls[g].k \in Openers /\ ls[g].k \in Conditionals \ {"endif"} /\ ls[g].k # "else"
  BY <1>2, Zenon DEF GuardOpens, Conditionals, Openers
<1>5. ChainLevel(ls, g) = 0 /\ ~Effect(ls[g])
  BY <1>4 DEF ChainLevel, Effect
<1>6. ~Selected(ls, g)
  <2>1. ls[g].k # "ifnotor"
    BY <1>3, <1>4, ZenonT(40) DEF GuardIdiom
  <2>2. ls[g].k \in {"ifndef", "ifnot"}
    BY <1>4, <2>1
  <2>3. ~Holds(ls[g])
    <3> DEFINE l == ls[g]
    <3>1. l.k \in {"ifndef", "ifnot"} /\ l.x \in macros
      BY <1>4, <2>2
    <3> HIDE DEF l
    <3>2. l.k \notin {"if", "elif"} /\ l.k \notin {"ifdef", "elifdef"} /\ l.k # "ifnotor"
      BY <3>1
    <3>3. Holds(l) = (l.x \notin macros)
      BY <3>1, <3>2 DEF Holds
    <3>4. ~Holds(l)
      BY <3>1, <3>3, Zenon
    <3> QED
      BY <3>4 DEF l
  <2> QED
    BY <1>4, <2>3, Zenon DEF Selected
<1> SUFFICES ASSUME NEW i \in DOMAIN ls, Effect(ls[i]) PROVE ~Kept(ls, i)
  BY DEF Inert
<1>7. i \in g + 1 .. e - 1
  <2>1. i \in 1 .. Len(ls) /\ i \notin e .. Len(ls) /\ i # g
    BY <1>1, <1>5
  <2>2. i \notin 1 .. g - 1
    BY <1>2 DEF GuardOpens
  <2> QED
    BY <1>3, <2>1, <2>2
<1>8. Level(ls, i) >= 1 /\ \A k \in g + 1 .. i - 1 : ls[k].k \in Conditionals => ChainLevel(ls, k) # 0
  <2>1. \A k \in g + 1 .. i - 1 : k \in g + 1 .. e - 1
    BY <1>3, <1>7
  <2> QED
    BY <1>2, <1>7, <2>1, Zenon DEF GuardOpens
<1>9. g \in Governing(ls, i)
  <2>1. g \in 1 .. i - 1
    BY <1>3, <1>7
  <2>2. Between(ls, g, i, Conditionals) = {}
    BY <1>5, <1>8 DEF Between
  <2>3. Level(ls, i) > ChainLevel(ls, g)
    <3>1. Level(ls, i) \in Int
      BY <1>3, <1>7, LevelStep
    <3> QED
      BY <1>5, <1>8, <3>1
  <2> QED
    BY <1>4, <2>1, <2>2, <2>3, ZenonT(40) DEF Governing
<1> QED
  BY <1>6, <1>9, Zenon DEF Kept

\* A header in the include-guard idiom that is not opened again would have had
\* no effect: for any headers, whatever they define, include or leave
\* unterminated (include, readFileAs).
THEOREM GuardedIsInert == Spec => []GuardedHeaderIsInert
<1>1. WalkInv /\ GroupInv => GuardedHeaderIsInert
  <2> SUFFICES ASSUME WalkInv, GroupInv, NEW f \in Files, GuardSkips(f), GuardIdiom(src[f])
               PROVE  Inert(src[f])
    BY DEF GuardedHeaderIsInert
  <2>1. cache[f].done /\ cache[f].guard \in macros
    BY DEF GuardSkips
  <2>2. cache[f].guard # None /\ src[f] \in Seq(Lines)
    BY <2>1, NoneAssumption, ZenonT(40) DEF WalkInv, OthersOK
  <2>3. GuardCloses(src[f], Len(src[f]) + 1, cache[f].guard)
    BY <2>1, <2>2 DEF GroupInv, CacheInv, CacheOK
  <2> QED
    BY <2>1, <2>2, <2>3, ClosedIsInert, Zenon
<1> QED
  BY <1>1, GroupInvariance, PTL

\* Only a PreInclude, #include, #import and import M; make the stack longer.
LEMMA OnlyTheyPush ==
  ASSUME WalkInv, Next, Len(stack') > Len(stack)
  PROVE  DoInclude \/ PreInclude \/ ImportModule
<1> SUFFICES ASSUME ~(DoInclude \/ PreInclude \/ ImportModule) PROVE FALSE
  OBVIOUS
<1>1. CASE EndFile
  <2>1. stack # <<>> /\ stack' = SubSeq(stack, 1, Len(stack) - 1)
    BY <1>1 DEF EndFile
  <2> QED
    BY <2>1, StackShapes
<1>2. CASE \E q : Moves(q) /\ stack' = Replaced(stack, q)
  <2>1. PICK q : Moves(q) /\ stack' = Replaced(stack, q)
    BY <1>2
  <2>2. stack # <<>> /\ q \in Readers
    BY <2>1 DEF Moves, More
  <2> QED
    BY <2>1, <2>2, StackShapes
<1>3. CASE BeginIf \/ DoElif \/ DoElse \/ DoEndif
  BY <1>2, <1>3, BeginIfMoves, TurnMoves, EndifMoves, Zenon
<1>4. CASE SkipLine \/ PragmaOnce \/ PrivateFragment
  BY <1>2, <1>4, SkipLineMoves, OnceMoves, PrivateMoves, Zenon
<1>5. CASE Text \/ DefineUndef \/ PushPopMacro \/ BadDirective
  BY <1>2, <1>5, ClearingMoves, ZenonT(40)
<1> QED
  BY <1>1, <1>3, <1>4, <1>5, Zenon DEF Next

\* A file is read only when the cache does not say to leave it alone.
LEMMA ReadsUnread ==
  ASSUME WalkInv, Next, NEW f \in Files, Reads(f)
  PROVE  ~OnceGuardHolds(f) /\ ~cache[f].imported
<1>1. /\ Len(stack') > Len(stack) /\ stack'[Len(stack')].file = f
      /\ stack'[Len(stack')].module = None
  BY DEF Reads
<1>2. ASSUME NEW g, NEW imp, NEW s \in Seq(Readers), Len(s) = Len(stack), IncludeFile(g, imp, s)
      PROVE  ~OnceGuardHolds(f) /\ ~cache[f].imported
  <2>1. stack' # s
    BY <1>1, <1>2 DEF WalkInv, GoodWalk, GoodStack
  <2>2. g \in Files /\ ~NotRead(g, imp) /\ stack' = Append(s, NewReader(g, None))
    BY <1>2, <2>1, ZenonT(40) DEF IncludeFile, ReadFileAs
  <2>3. stack'[Len(stack')] = NewReader(g, None)
    BY <2>2, PushShape
  <2>4. g = f
    BY <1>1, <2>3 DEF NewReader
  <2> QED
    BY <2>2, <2>4, Zenon DEF NotRead
<1>3. CASE PreInclude
  <2>1. IncludeFile(Head(pre), FALSE, stack)
    BY <1>3, Zenon DEF PreInclude
  <2>2. stack \in Seq(Readers)
    BY DEF WalkInv, GoodWalk, GoodStack
  <2> QED
    BY <1>2, <2>1, <2>2, Zenon
<1>4. CASE DoInclude
  <2>1. stack # <<>> /\ More /\ line.k \notin Conditionals /\ line.k # "once"
    <3>1. More /\ line.k \in {"include", "import"}
      BY <1>4, Zenon DEF DoInclude
    <3> QED
      BY <3>1 DEF More, Conditionals, Openers
  <2> DEFINE q == Advance(Cleared(r))
  <2>2. Moves(q) /\ Below = Replaced(stack, q)
    BY <2>1, ClearedMoves, ZenonT(40) DEF Below, Replaced
  <2>3. q \in Readers
    BY <2>2 DEF Moves
  <2> HIDE DEF q
  <2>4. Below \in Seq(Readers) /\ Len(Below) = Len(stack) /\ Len(stack) \in Nat
    BY <2>1, <2>2, <2>3, StackShapes, Zenon
  <2>5. stack' # Below
    BY <1>1, <2>4
  <2>6. IncludeFile(line.x, line.k = "import", Below)
    BY <1>4, <2>5, Zenon DEF DoInclude
  <2> DEFINE imp == line.k = "import"
  <2> HIDE DEF imp
  <2>7. IncludeFile(line.x, imp, Below)
    BY <2>6 DEF imp
  <2> QED
    BY <1>2, <2>4, <2>7, Zenon
<1>5. CASE ImportModule
  <2>1. stack # <<>> /\ More /\ line.k \notin Conditionals /\ line.k # "once"
    <3>1. More /\ line.k = "module"
      BY <1>5, Zenon DEF ImportModule
    <3> QED
      BY <3>1 DEF More, Conditionals, Openers
  <2> DEFINE q == Advance([Cleared(r) EXCEPT !.sawToken = TRUE])
             m == line.x
             s == Replaced(stack, q)
  <2>2. Moves(q)
    BY <2>1, ClearedMoves
  <2>3. s \in Seq(Readers) /\ Len(s) = Len(stack)
    BY <2>1, <2>2, StackShapes, Zenon DEF Moves
  <2>4. stack' = s \/ (m \in Modules /\ stack' = Append(s, NewReader(UnitOf[m], m)))
    BY <1>5, Zenon DEF ImportModule, ReadFileAs, Replaced
  <2> HIDE DEF s, q
  <2>5. m \in Modules /\ stack' = Append(s, NewReader(UnitOf[m], m))
    BY <1>1, <2>3, <2>4 DEF WalkInv, GoodWalk, GoodStack
  <2>6. UnitOf[m] \in Files
    BY <2>5, ModulesAssumption, ZenonT(40)
  <2>7. stack'[Len(stack')] = NewReader(UnitOf[m], m)
    BY <2>3, <2>5, <2>6, PushShape
  <2>8. stack'[Len(stack')].module = m /\ m # None
    BY <2>5, <2>7, NoneAssumption DEF NewReader
  <2> QED
    BY <1>1, <2>8, ZenonT(40)
<1> QED
  BY <1>1, <1>3, <1>4, <1>5, OnlyTheyPush, Zenon

\* A file that #import read is not read again by #include or #import, not even
\* while it is still being read.
THEOREM ImportedReadOnce == Spec => ImportReadsOnce
<1>1. WalkInv /\ [Next]_vars => [\A f \in Files : cache[f].imported => ~Reads(f)]_vars
  BY ReadsUnread, Zenon
<1> QED
  BY <1>1, WalkInvariance, PTL DEF Spec, ImportReadsOnce

\* A file that begins with #pragma once, and has said so, is never read again
\* once no reader is in it, whatever it includes.
THEOREM OnceRespected == Spec => OnceFirstRespected
<1> DEFINE A == \A f \in said \cap Files :
                  src[f][1].k = "once" /\ (\A i \in DOMAIN stack : stack[i].file # f) => ~Reads(f)
<1>1. WalkInv /\ GroupInv /\ [Next]_vars => [A]_vars
  <2> SUFFICES ASSUME WalkInv, GroupInv, Next, NEW f \in said \cap Files, src[f][1].k = "once",
                      \A i \in DOMAIN stack : stack[i].file # f, Reads(f)
               PROVE  FALSE
    BY ZenonT(30)
  <2>1. src[f] # <<>> /\ cache[f].done
    BY ZenonT(40) DEF GroupInv, SaidInv
  <2>2. cache[f].once
    BY <2>1 DEF GroupInv, CacheInv, CacheOK, OnceFirst
  <2> QED
    BY <2>1, <2>2, ReadsUnread, Zenon DEF OnceGuardHolds
<1> QED
  BY <1>1, GroupInvariance, PTL DEF Spec, OnceFirstRespected
=============================================================================
