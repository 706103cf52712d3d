------------------------- MODULE IncludeWalkProof -------------------------
(***************************************************************************)
(* The directive walk for any files, macros, modules and depth limit: the   *)
(* walk's state is well typed, no conditional is active inside a skipped    *)
(* group, no module is being read twice, and the stack is bounded by the    *)
(* depth limit and the modules read.  The last part is on one reader: how   *)
(* deep its #if stack is, and what it knows of a guard and #pragma once.    *)
(*                                                                         *)
(* Every step replaces the top reader, pushes a new one over it, or pops    *)
(* it.  The lemmas say what each of the three does to a good stack; the     *)
(* steps then only have to show that the reader they leave is good.         *)
(***************************************************************************)
EXTENDS IncludeWalk, TLAPS, FiniteSetTheorems

\* What the invariant says of the readers of a stack.
GoodStack(st) == st \in Seq(Readers) /\ \A i \in DOMAIN st : NestedConds(st[i].conds)

\* ... and of the modules they belong to, imp being the modules recorded.
GoodModules(st, imp) ==
  \A i \in DOMAIN st :
    st[i].module # None =>
      /\ st[i].module \in imp
      /\ \A j \in DOMAIN st : j # i => st[j].module # st[i].module

GoodReader(rd, md) == rd \in Readers /\ NestedConds(rd.conds) /\ rd.module = md

Replaced(st, rd) == [st EXCEPT ![Len(st)] = rd]

Depth == IF MaxIncludeDepth > 2 THEN MaxIncludeDepth ELSE 2

\* Depths and line numbers, one more and one less.
LEMMA Counting ==
  \A n \in Nat :
    /\ n >= 0 /\ (n > 0 => n # 0) /\ (n # 0 => n >= 1 /\ n - 1 \in Nat)
    /\ (n # 1 => n - 1 # 0) /\ n + 1 \in Nat
OBVIOUS

\* The lines up to the next one are the lines up to this one, and it.
LEMMA NextLine ==
  ASSUME NEW p \in Nat \ {0}
  PROVE  /\ \A j \in 1 .. p + 1 : j = p + 1 \/ j \in 1 .. p
         /\ \A j \in 1 .. p + 1 - 1 : j = p \/ j \in 1 .. p - 1
         /\ \A k \in Nat : p <= k => p + 1 <= k + 1
OBVIOUS

\* The #if stack with its last frame replaced (doElif, doElse).
LEMMA FrameReplaced ==
  ASSUME NEW cs \in Seq(Conds), NEW c \in Conds, cs # <<>>
  PROVE  /\ Len([cs EXCEPT ![Len(cs)] = c]) = Len(cs) /\ [cs EXCEPT ![Len(cs)] = c] # <<>>
         /\ Len(cs) = 1 => [cs EXCEPT ![Len(cs)] = c][1] = c
         /\ Len(cs) # 1 => [cs EXCEPT ![Len(cs)] = c][1] = cs[1]
OBVIOUS

\* The first n elements of a sequence.
LEMMA FirstPart ==
  ASSUME NEW S, NEW cs \in Seq(S), NEW n \in Nat, \A i \in 1 .. n : cs[i] \in S
  PROVE  /\ SubSeq(cs, 1, n) \in Seq(S)
         /\ Len(SubSeq(cs, 1, n)) = n
         /\ \A i \in 1 .. n : SubSeq(cs, 1, n)[i] = cs[i]
OBVIOUS

\* The #if stack without its last frame (doEndif).
LEMMA FrameGone ==
  ASSUME NEW cs \in Seq(Conds), cs # <<>>
  PROVE  /\ Len(SubSeq(cs, 1, Len(cs) - 1)) = Len(cs) - 1 /\ Len(cs) - 1 \in Nat
         /\ Len(cs) = 1 => SubSeq(cs, 1, Len(cs) - 1) = <<>>
         /\ Len(cs) # 1 => /\ SubSeq(cs, 1, Len(cs) - 1) # <<>>
                          /\ SubSeq(cs, 1, Len(cs) - 1)[1] = cs[1]
<1> DEFINE s == SubSeq(cs, 1, Len(cs) - 1)
<1>1. Len(cs) \in Nat \ {0} /\ Len(cs) - 1 \in Nat
  OBVIOUS
<1>2. \A i \in 1 .. Len(cs) - 1 : cs[i] \in Conds
  BY <1>1
<1>3. /\ s \in Seq(Conds) /\ Len(s) = Len(cs) - 1
      /\ \A i \in 1 .. Len(cs) - 1 : s[i] = cs[i]
  BY <1>1, <1>2, FirstPart, ZenonT(40)
<1> HIDE DEF s
<1>4. Len(cs) = 1 => s = <<>>
  BY <1>3
<1>5. Len(cs) # 1 => 1 \in 1 .. Len(cs) - 1 /\ s # <<>>
  BY <1>1, <1>3
<1> QED
  BY <1>1, <1>3, <1>4, <1>5, Zenon DEF s

\* Replacing the top reader by a good one of the same module keeps a stack good.
LEMMA ReplaceTop ==
  ASSUME NEW st, NEW imp, NEW rd, GoodStack(st), GoodModules(st, imp), st # <<>>,
         GoodReader(rd, st[Len(st)].module)
  PROVE  /\ GoodStack(Replaced(st, rd))
         /\ GoodModules(Replaced(st, rd), imp)
         /\ Len(Replaced(st, rd)) = Len(st)
<1> DEFINE s == Replaced(st, rd)
<1>1. st \in Seq(Readers) /\ Len(st) \in Nat \ {0} /\ DOMAIN st = 1 .. Len(st)
  BY DEF GoodStack
<1>2. s \in Seq(Readers) /\ Len(s) = Len(st) /\ DOMAIN s = DOMAIN st
  BY <1>1 DEF GoodReader, Replaced
<1>3. \A i \in DOMAIN s : s[i] = IF i = Len(st) THEN rd ELSE st[i]
  BY <1>1, <1>2 DEF Replaced
<1>4. \A i \in DOMAIN s : s[i].module = st[i].module
  BY <1>1, <1>2, <1>3 DEF GoodReader
<1>5. GoodModules(s, imp)
  BY <1>2, <1>4 DEF GoodModules
<1>6. \A i \in DOMAIN s : NestedConds(s[i].conds)
  BY <1>2, <1>3 DEF GoodReader, GoodStack
<1> QED
  BY <1>2, <1>5, <1>6 DEF GoodStack

\* The reader a file starts with is good.
LEMMA NewReaderGood ==
  ASSUME NEW f \in Files \cup {Main}, NEW md \in Modules \cup {None}
  PROVE  GoodReader(NewReader(f, md), md)
<1>1. NewReader(f, md) \in Readers /\ NewReader(f, md).module = md
  BY DEF NewReader, Readers
<1>2. NestedConds(NewReader(f, md).conds)
  BY DEF NewReader, NestedConds
<1> QED
  BY <1>1, <1>2 DEF GoodReader

\* Pushing a reader keeps a stack good when its module is None or new.
LEMMA PushReader ==
  ASSUME NEW st, NEW imp, NEW f \in Files, NEW md \in Modules \cup {None},
         GoodStack(st), GoodModules(st, imp), md = None \/ md \notin imp
  PROVE  /\ GoodStack(Append(st, NewReader(f, md)))
         /\ GoodModules(Append(st, NewReader(f, md)), imp \cup ({md} \ {None}))
         /\ Len(Append(st, NewReader(f, md))) = Len(st) + 1
<1> DEFINE rd == NewReader(f, md)
           s == Append(st, rd)
<1>1. GoodReader(rd, md)
  BY NewReaderGood
<1> HIDE DEF rd
<1>2. st \in Seq(Readers) /\ Len(st) \in Nat /\ DOMAIN st = 1 .. Len(st) /\ rd \in Readers
  BY <1>1 DEF GoodStack, GoodReader
<1>3. s \in Seq(Readers) /\ Len(s) = Len(st) + 1 /\ DOMAIN s = 1 .. Len(st) + 1
  BY <1>2
<1>4. \A i \in DOMAIN s : s[i] = IF i = Len(st) + 1 THEN rd ELSE st[i]
  BY <1>2, <1>3
<1>5. \A i \in DOMAIN s : i # Len(st) + 1 => i \in DOMAIN st
  BY <1>2, <1>3
<1>6. \A i \in DOMAIN s : NestedConds(s[i].conds)
  BY <1>1, <1>4, <1>5 DEF GoodStack, GoodReader
<1>7. \A i \in DOMAIN s : s[i].module = IF i = Len(st) + 1 THEN md ELSE st[i].module
  BY <1>1, <1>4 DEF GoodReader
<1>8. GoodModules(s, imp \cup ({md} \ {None}))
  BY <1>5, <1>7 DEF GoodModules
<1> QED
  BY <1>3, <1>6, <1>8 DEF GoodStack, rd

\* Popping the top reader keeps a stack good.
LEMMA PopReader ==
  ASSUME NEW st, NEW imp, GoodStack(st), GoodModules(st, imp), st # <<>>
  PROVE  /\ GoodStack(SubSeq(st, 1, Len(st) - 1))
         /\ GoodModules(SubSeq(st, 1, Len(st) - 1), imp)
         /\ Len(SubSeq(st, 1, Len(st) - 1)) = Len(st) - 1
<1> DEFINE s == SubSeq(st, 1, Len(st) - 1)
<1>1. st \in Seq(Readers) /\ Len(st) \in Nat \ {0} /\ DOMAIN st = 1 .. Len(st)
  BY DEF GoodStack
<1>2. s \in Seq(Readers) /\ Len(s) = Len(st) - 1 /\ DOMAIN s = 1 .. Len(st) - 1
  BY <1>1
<1>3. \A i \in DOMAIN s : i \in DOMAIN st /\ s[i] = st[i]
  BY <1>1, <1>2
<1>4. GoodModules(s, imp)
  BY <1>3 DEF GoodModules
<1>5. \A i \in DOMAIN s : NestedConds(s[i].conds)
  BY <1>3 DEF GoodStack
<1> QED
  BY <1>2, <1>4, <1>5 DEF GoodStack

\* An #if pushes a frame that is active only if every frame below it is.
LEMMA PushCond ==
  ASSUME NEW cs \in Seq(Conds), NEW c \in Conds, NestedConds(cs),
         c.active => \A i \in DOMAIN cs : cs[i].active
  PROVE  Append(cs, c) \in Seq(Conds) /\ NestedConds(Append(cs, c))
<1> DEFINE s == Append(cs, c)
<1>1. s \in Seq(Conds) /\ DOMAIN s = 1 .. Len(cs) + 1 /\ DOMAIN cs = 1 .. Len(cs) /\ Len(cs) \in Nat
  OBVIOUS
<1>2. \A i \in DOMAIN s : s[i] = IF i = Len(cs) + 1 THEN c ELSE cs[i]
  BY <1>1
<1> HIDE DEF s
<1>3. ASSUME NEW j \in DOMAIN s, NEW k \in DOMAIN s, j < k, s[k].active
      PROVE  s[j].active
  <2>1. j \in DOMAIN cs /\ s[j] = cs[j]
    BY <1>1, <1>2, <1>3
  <2>2. CASE k = Len(cs) + 1
    BY <2>1, <2>2, <1>1, <1>2, <1>3
  <2>3. CASE k # Len(cs) + 1
    <3>1. k \in DOMAIN cs /\ s[k] = cs[k]
      BY <1>1, <1>2, <2>3
    <3> QED
      BY <3>1, <2>1, <1>3 DEF NestedConds
  <2> QED
    BY <2>2, <2>3
<1>4. NestedConds(s)
  BY <1>3 DEF NestedConds
<1> QED
  BY <1>1, <1>4 DEF s

\* #elif and #else replace the top frame by one that is active only if every
\* frame below it is.
LEMMA ReplaceCond ==
  ASSUME NEW cs \in Seq(Conds), NEW c \in Conds, NestedConds(cs), cs # <<>>,
         c.active => \A i \in 1 .. Len(cs) - 1 : cs[i].active
  PROVE  /\ [cs EXCEPT ![Len(cs)] = c] \in Seq(Conds)
         /\ NestedConds([cs EXCEPT ![Len(cs)] = c])
<1> DEFINE s == [cs EXCEPT ![Len(cs)] = c]
<1>1. s \in Seq(Conds) /\ DOMAIN s = DOMAIN cs /\ DOMAIN cs = 1 .. Len(cs) /\ Len(cs) \in Nat \ {0}
  OBVIOUS
<1>2. \A i \in DOMAIN s : s[i] = IF i = Len(cs) THEN c ELSE cs[i]
  BY <1>1
<1> HIDE DEF s
<1>3. ASSUME NEW j \in DOMAIN s, NEW k \in DOMAIN s, j < k, s[k].active
      PROVE  s[j].active
  <2>1. j \in 1 .. Len(cs) - 1 /\ s[j] = cs[j]
    BY <1>1, <1>2, <1>3
  <2>2. CASE k = Len(cs)
    BY <2>1, <2>2, <1>1, <1>2, <1>3
  <2>3. CASE k # Len(cs)
    <3>1. k \in DOMAIN cs /\ s[k] = cs[k] /\ j \in DOMAIN cs
      BY <1>1, <1>2, <2>3, <1>3
    <3> QED
      BY <3>1, <2>1, <1>3 DEF NestedConds
  <2> QED
    BY <2>2, <2>3
<1>4. NestedConds(s)
  BY <1>3 DEF NestedConds
<1> QED
  BY <1>1, <1>4 DEF s

\* #endif pops the top frame.
LEMMA PopCond ==
  ASSUME NEW cs \in Seq(Conds), NestedConds(cs), cs # <<>>
  PROVE  SubSeq(cs, 1, Len(cs) - 1) \in Seq(Conds) /\ NestedConds(SubSeq(cs, 1, Len(cs) - 1))
<1> DEFINE s == SubSeq(cs, 1, Len(cs) - 1)
<1>1. s \in Seq(Conds) /\ DOMAIN s = 1 .. Len(cs) - 1 /\ DOMAIN cs = 1 .. Len(cs) /\ Len(cs) \in Nat \ {0}
  OBVIOUS
<1>2. \A i \in DOMAIN s : i \in DOMAIN cs /\ s[i] = cs[i]
  BY <1>1
<1> QED
  BY <1>1, <1>2 DEF NestedConds

\* Taking the line, and clearing miValid, keep a reader good.
LEMMA ClearedGood ==
  ASSUME NEW rd, NEW md, GoodReader(rd, md)
  PROVE  GoodReader(Cleared(rd), md) /\ GoodReader(Advance(rd), md)
<1>1. rd \in Readers
  BY DEF GoodReader
<1>2. Cleared(rd) \in Readers /\ Cleared(rd).conds = rd.conds /\ Cleared(rd).module = rd.module
  BY <1>1, Zenon DEF Cleared, Readers
<1>3. Advance(rd) \in Readers /\ Advance(rd).conds = rd.conds /\ Advance(rd).module = rd.module
  BY <1>1 DEF Advance, Readers
<1> QED
  BY <1>2, <1>3 DEF GoodReader

\* A step that only replaces the top reader.
LEMMA AdvanceTop ==
  ASSUME NEW st, NEW imp, NEW rd, GoodStack(st), GoodModules(st, imp), st # <<>>,
         GoodReader(rd, st[Len(st)].module)
  PROVE  /\ GoodStack(Replaced(st, Advance(rd)))
         /\ GoodModules(Replaced(st, Advance(rd)), imp)
         /\ Len(Replaced(st, Advance(rd))) = Len(st)
  BY ReplaceTop, ClearedGood, Zenon

-----------------------------------------------------------------------------
(* The inductive invariant *)

GoodWalk ==
  /\ GoodStack(stack)
  /\ GoodModules(stack, imported)
  /\ Len(stack) <= Depth + Cardinality(imported)

Caches == [done : BOOLEAN, guard : Macros \cup {None}, once : BOOLEAN, imported : BOOLEAN]

OthersOK ==
  /\ src \in [Files \cup {Main} -> Seq(Lines)]
  /\ pre \in Seq(Files \cup {None})
  /\ macros \subseteq Macros
  /\ pushed \in [Macros -> Seq(BOOLEAN)]
  /\ cache \in [Files -> Caches]
  /\ imported \subseteq Modules
  /\ said \subseteq Files \cup {Main}

WalkInv == GoodWalk /\ OthersOK

\* The invariant says what the four checked properties say.
LEMMA InvImplies ==
  WalkInv => TypeOK /\ NoActiveInDead /\ ModuleReadOnce /\ StackBound
<1> SUFFICES ASSUME WalkInv PROVE TypeOK /\ NoActiveInDead /\ ModuleReadOnce /\ StackBound
  OBVIOUS
<1>1. TypeOK
  BY DEF WalkInv, GoodWalk, OthersOK, GoodStack, TypeOK, Caches
<1>2. NoActiveInDead
  BY DEF WalkInv, GoodWalk, GoodStack, NoActiveInDead
<1>3. ModuleReadOnce
  BY DEF WalkInv, GoodWalk, GoodModules, ModuleReadOnce
<1>4. StackBound
  BY DEF WalkInv, GoodWalk, Depth, StackBound
<1> QED
  BY <1>1, <1>2, <1>3, <1>4

\* The reader on top and its current line.
LEMMA Top ==
  ASSUME WalkInv, stack # <<>>
  PROVE  /\ GoodReader(r, r.module)
         /\ r = stack[Len(stack)]
         /\ r \in Readers
         /\ r.pos <= Len(src[r.file]) => line \in Lines
<1>1. stack \in Seq(Readers) /\ Len(stack) \in DOMAIN stack
  BY DEF WalkInv, GoodWalk, GoodStack
<1>2. r \in Readers /\ NestedConds(r.conds)
  BY <1>1 DEF WalkInv, GoodWalk, GoodStack, r
<1>3. src[r.file] \in Seq(Lines) /\ r.pos \in Nat \ {0}
  BY <1>2 DEF WalkInv, OthersOK, Readers
<1>4. r.pos <= Len(src[r.file]) => line \in Lines
  BY <1>3 DEF line
<1> QED
  BY <1>2, <1>4 DEF GoodReader, r

\* A step that leaves rd, with its line taken, on top of the stack keeps the
\* walk good.
LEMMA StepKeeps ==
  ASSUME NEW rd, WalkInv, stack # <<>>, GoodReader(rd, r.module)
  PROVE  LET st == [stack EXCEPT ![Len(stack)] = Advance(rd)]
         IN  GoodStack(st) /\ GoodModules(st, imported) /\ Len(st) = Len(stack)
  BY AdvanceTop DEF WalkInv, GoodWalk, r, Replaced

\* Init
LEMMA InitInv == Init => WalkInv
<1> SUFFICES ASSUME Init PROVE WalkInv
  OBVIOUS
<1>1. OthersOK
  <2>1. src \in [Files \cup {Main} -> Seq(Lines)] /\ pre \in Seq(Files \cup {None})
    BY ProgramsAssumption, PreAssumption, Zenon DEF Init
  <2>2. NewCached \in Caches
    BY DEF NewCached, Caches
  <2>3. pushed \in [Macros -> Seq(BOOLEAN)] /\ cache \in [Files -> Caches]
    BY <2>2 DEF Init
  <2> QED
    BY <2>1, <2>3 DEF Init, OthersOK
<1>2. GoodReader(NewReader(Main, None), None)
  BY NewReaderGood
<1>3. GoodStack(stack) /\ Len(stack) = 1
  BY <1>2 DEF Init, GoodStack, GoodReader
<1>4. GoodModules(stack, imported)
  BY <1>2 DEF Init, GoodModules, GoodReader
<1>5. Depth \in Nat /\ Depth >= 2 /\ Cardinality(imported) = 0
  BY DepthAssumption, FS_EmptySet DEF Depth, Init
<1> QED
  BY <1>1, <1>3, <1>4, <1>5 DEF WalkInv, GoodWalk

-----------------------------------------------------------------------------
(* Conditionals *)

\* A reader with another nested #if stack is good.
LEMMA CondsGood ==
  ASSUME NEW rd, NEW md, NEW cs \in Seq(Conds), GoodReader(rd, md), NestedConds(cs)
  PROVE  GoodReader([rd EXCEPT !.conds = cs], md)
<1>1. rd \in Readers
  BY DEF GoodReader
<1>2. [rd EXCEPT !.conds = cs] \in Readers
  BY <1>1 DEF Readers
<1>3. [rd EXCEPT !.conds = cs].conds = cs /\ [rd EXCEPT !.conds = cs].module = rd.module
  BY <1>1 DEF Readers
<1> QED
  BY <1>2, <1>3 DEF GoodReader

\* A step that takes its line and changes the top reader only.
LEMMA OnlyTop ==
  ASSUME WalkInv, stack # <<>>,
         GoodStack(stack'), GoodModules(stack', imported), Len(stack') = Len(stack),
         UNCHANGED <<src, pre, macros, pushed, cache, imported, said>>
  PROVE  WalkInv'
<1>1. GoodWalk'
  BY DEF WalkInv, GoodWalk
<1>2. OthersOK'
  BY DEF WalkInv, OthersOK
<1> QED
  BY <1>1, <1>2 DEF WalkInv

\* #if, #ifdef, #ifndef
LEMMA BeginIfInv == WalkInv /\ BeginIf => WalkInv'
<1> SUFFICES ASSUME WalkInv, BeginIf PROVE WalkInv'
  OBVIOUS
<1>1. stack # <<>> /\ line \in Lines /\ line.k \in Openers
  BY Top DEF BeginIf, More
<1>2. GoodReader(r, r.module) /\ r.conds \in Seq(Conds) /\ NestedConds(r.conds)
  BY <1>1, Top DEF GoodReader, Readers
<1> DEFINE v == live(r) /\ Holds(line)
           guard == IF /\ live(r) /\ line.k \in {"ifndef", "ifnot", "ifnotor"}
                       /\ r.miValid /\ r.conds = <<>> /\ ~r.sawToken
                    THEN line.x ELSE None
           c == [taken |-> v, active |-> v, sawElse |-> FALSE, guard |-> guard]
           cs == Append(r.conds, c)
<1>3. guard \in Macros \cup {None}
  BY <1>1 DEF Lines
<1>4. v \in BOOLEAN /\ (v => \A i \in DOMAIN r.conds : r.conds[i].active)
  BY Zenon DEF live
<1> HIDE DEF v, guard
<1>5. c \in Conds /\ c.active = v
  BY <1>3, <1>4 DEF Conds
<1>6. cs \in Seq(Conds) /\ NestedConds(cs)
  <2> HIDE DEF c
  <2> QED
    BY <1>2, <1>4, <1>5, PushCond
<1> HIDE DEF cs
<1>7. GoodReader([r EXCEPT !.conds = cs], r.module)
  BY <1>2, <1>6, CondsGood
<1>8. stack' = [stack EXCEPT ![Len(stack)] = Advance([r EXCEPT !.conds = cs])]
  BY DEF BeginIf, Step, cs, c, v, guard
<1>9. GoodStack(stack') /\ GoodModules(stack', imported) /\ Len(stack') = Len(stack)
  BY <1>1, <1>7, <1>8, StepKeeps, Zenon
<1> QED
  BY <1>1, <1>9, OnlyTop DEF BeginIf

\* A step whose top reader only has miValid cleared.
LEMMA ClearStep ==
  ASSUME WalkInv, stack # <<>>, Step(Cleared(r))
  PROVE  GoodStack(stack') /\ GoodModules(stack', imported) /\ Len(stack') = Len(stack)
<1>1. GoodReader(Cleared(r), r.module)
  BY Top, ClearedGood
<1>2. stack' = [stack EXCEPT ![Len(stack)] = Advance(Cleared(r))]
  BY DEF Step
<1> QED
  BY <1>1, <1>2, StepKeeps, Zenon

\* A step that replaces the top frame by one active only in live parents.
LEMMA TopCondStep ==
  ASSUME NEW c \in Conds, WalkInv, stack # <<>>, r.conds # <<>>, c.active => ~parentSkipping
  PROVE  LET st == [stack EXCEPT ![Len(stack)] = Advance(WithTop(c))]
         IN  GoodStack(st) /\ GoodModules(st, imported) /\ Len(st) = Len(stack)
<1>1. GoodReader(r, r.module) /\ r.conds \in Seq(Conds) /\ NestedConds(r.conds)
  BY Top DEF GoodReader, Readers
<1> DEFINE cs == [r.conds EXCEPT ![Len(r.conds)] = c]
<1>2. c.active => \A i \in 1 .. Len(r.conds) - 1 : r.conds[i].active
  BY DEF parentSkipping
<1>3. cs \in Seq(Conds) /\ NestedConds(cs)
  BY <1>1, <1>2, ReplaceCond
<1> HIDE DEF cs
<1>4. GoodReader(Cleared(r), r.module)
  BY <1>1, ClearedGood
<1>5. GoodReader([Cleared(r) EXCEPT !.conds = cs], r.module)
  BY <1>3, <1>4, CondsGood
<1> QED
  BY <1>5, StepKeeps DEF cs, WithTop

\* #elif and its C++23 forms
LEMMA DoElifInv == WalkInv /\ DoElif => WalkInv'
<1> SUFFICES ASSUME WalkInv, DoElif PROVE WalkInv'
  OBVIOUS
<1>1. stack # <<>>
  BY DEF DoElif, More
<1>2. CASE r.conds = <<>> \/ topCond.sawElse
  <2>1. Step(Cleared(r))
    BY <1>2, Zenon DEF DoElif
  <2> QED
    BY <1>1, <2>1, ClearStep, OnlyTop DEF DoElif
<1>3. CASE ~(r.conds = <<>> \/ topCond.sawElse)
  <2> DEFINE v == ~topCond.taken /\ ~parentSkipping /\ Holds(line)
             c == [taken |-> topCond.taken \/ v, active |-> v, sawElse |-> FALSE, guard |-> None]
  <2>1. Step(WithTop(c))
    BY <1>3, Zenon DEF DoElif
  <2>2. v \in BOOLEAN /\ (v => ~parentSkipping)
    BY Zenon
  <2>3. topCond.taken \/ v \in BOOLEAN
    BY Zenon
  <2> HIDE DEF v
  <2>4. c \in Conds /\ c.active = v
    BY <2>2 DEF Conds
  <2> HIDE DEF c
  <2>5. stack' = [stack EXCEPT ![Len(stack)] = Advance(WithTop(c))]
    BY <2>1 DEF Step
  <2>6. GoodStack(stack') /\ GoodModules(stack', imported) /\ Len(stack') = Len(stack)
    BY <1>1, <1>3, <2>2, <2>4, <2>5, TopCondStep, Zenon
  <2> QED
    BY <1>1, <2>6, OnlyTop DEF DoElif
<1> QED
  BY <1>2, <1>3

\* #else
LEMMA DoElseInv == WalkInv /\ DoElse => WalkInv'
<1> SUFFICES ASSUME WalkInv, DoElse PROVE WalkInv'
  OBVIOUS
<1>1. stack # <<>>
  BY DEF DoElse, More
<1>2. CASE r.conds = <<>> \/ topCond.sawElse
  <2>1. Step(Cleared(r))
    BY <1>2, Zenon DEF DoElse
  <2> QED
    BY <1>1, <2>1, ClearStep, OnlyTop DEF DoElse
<1>3. CASE ~(r.conds = <<>> \/ topCond.sawElse)
  <2> DEFINE v == ~topCond.taken /\ ~parentSkipping
             c == [taken |-> topCond.taken \/ v, active |-> v, sawElse |-> TRUE, guard |-> None]
  <2>1. Step(WithTop(c))
    BY <1>3, Zenon DEF DoElse
  <2>2. v \in BOOLEAN /\ (v => ~parentSkipping)
    BY Zenon
  <2>3. topCond.taken \/ v \in BOOLEAN
    BY Zenon
  <2> HIDE DEF v
  <2>4. c \in Conds /\ c.active = v
    BY <2>2 DEF Conds
  <2> HIDE DEF c
  <2>5. stack' = [stack EXCEPT ![Len(stack)] = Advance(WithTop(c))]
    BY <2>1 DEF Step
  <2>6. GoodStack(stack') /\ GoodModules(stack', imported) /\ Len(stack') = Len(stack)
    BY <1>1, <1>3, <2>2, <2>4, <2>5, TopCondStep, Zenon
  <2> QED
    BY <1>1, <2>6, OnlyTop DEF DoElse
<1> QED
  BY <1>2, <1>3

\* #endif
LEMMA DoEndifInv == WalkInv /\ DoEndif => WalkInv'
<1> SUFFICES ASSUME WalkInv, DoEndif PROVE WalkInv'
  OBVIOUS
<1>1. stack # <<>>
  BY DEF DoEndif, More
<1>2. CASE r.conds = <<>>
  <2>1. Step(Cleared(r))
    BY <1>2, Zenon DEF DoEndif
  <2> QED
    BY <1>1, <2>1, ClearStep, OnlyTop DEF DoEndif
<1>3. CASE r.conds # <<>>
  <2>1. GoodReader(r, r.module) /\ r \in Readers /\ r.conds \in Seq(Conds) /\ NestedConds(r.conds)
    BY <1>1, Top DEF GoodReader, Readers
  <2> DEFINE cs == SubSeq(r.conds, 1, Len(r.conds) - 1)
             popped == [Cleared(r) EXCEPT !.conds = cs]
             closed == [popped EXCEPT !.pendingGuard = topCond.guard,
                                      !.miValid = topCond.guard # None]
             rd == IF Len(r.conds) > 1 THEN popped ELSE closed
  <2>2. cs \in Seq(Conds) /\ NestedConds(cs)
    BY <1>3, <2>1, PopCond
  <2>3. topCond.guard \in Macros \cup {None}
    <3>1. r.conds[Len(r.conds)] \in Conds
      BY <1>3, <2>1
    <3> QED
      BY <3>1 DEF topCond, Conds
  <2>4. Step(rd)
    <3>1. Cleared(r).conds = r.conds
      BY <2>1 DEF Cleared, Readers
    <3> QED
      BY <1>3, <3>1 DEF DoEndif
  <2> HIDE DEF cs
  <2>5. GoodReader(popped, r.module)
    BY <2>1, <2>2, ClearedGood, CondsGood
  <2> HIDE DEF popped
  <2>6. GoodReader(closed, r.module)
    <3>1. popped \in Readers
      BY <2>5 DEF GoodReader
    <3>2. closed \in Readers /\ closed.conds = popped.conds /\ closed.module = popped.module
      BY <2>3, <3>1, Zenon DEF Readers
    <3> QED
      BY <2>5, <3>2 DEF GoodReader
  <2>7. GoodReader(rd, r.module)
    BY <2>5, <2>6
  <2> HIDE DEF rd
  <2>8. GoodStack(stack') /\ GoodModules(stack', imported) /\ Len(stack') = Len(stack)
    BY <1>1, <2>4, <2>7, StepKeeps, Zenon DEF Step
  <2> QED
    BY <1>1, <2>8, OnlyTop DEF DoEndif
<1> QED
  BY <1>2, <1>3

-----------------------------------------------------------------------------
(* Lines of a live group *)

\* A line that is passed over
LEMMA SkipLineInv == WalkInv /\ SkipLine => WalkInv'
<1> SUFFICES ASSUME WalkInv, SkipLine PROVE WalkInv'
  OBVIOUS
<1>1. stack # <<>> /\ GoodReader(r, r.module)
  BY Top DEF SkipLine, More
<1>2. GoodStack(stack') /\ GoodModules(stack', imported) /\ Len(stack') = Len(stack)
  BY <1>1, StepKeeps, Zenon DEF SkipLine, Step
<1> QED
  BY <1>1, <1>2, OnlyTop DEF SkipLine

\* Flags of the reader that the invariant does not constrain.
LEMMA FlagsGood ==
  ASSUME NEW rd, NEW md, GoodReader(rd, md)
  PROVE  /\ GoodReader([rd EXCEPT !.sawToken = TRUE], md)
         /\ GoodReader([rd EXCEPT !.once = TRUE], md)
<1>1. rd \in Readers
  BY DEF GoodReader
<1>2. ASSUME NEW q, q \in Readers, q.conds = rd.conds, q.module = rd.module
      PROVE  GoodReader(q, md)
  BY <1>2 DEF GoodReader
<1>3. GoodReader([rd EXCEPT !.sawToken = TRUE], md)
  BY <1>1, <1>2, Zenon DEF Readers
<1>4. GoodReader([rd EXCEPT !.once = TRUE], md)
  BY <1>1, <1>2, Zenon DEF Readers
<1> QED
  BY <1>3, <1>4

\* A text line
LEMMA TextInv == WalkInv /\ Text => WalkInv'
<1> SUFFICES ASSUME WalkInv, Text PROVE WalkInv'
  OBVIOUS
<1>1. stack # <<>> /\ GoodReader(r, r.module)
  BY Top DEF Text, More
<1>2. GoodReader([Cleared(r) EXCEPT !.sawToken = TRUE], r.module)
  BY <1>1, ClearedGood, FlagsGood, Zenon
<1>3. GoodStack(stack') /\ GoodModules(stack', imported) /\ Len(stack') = Len(stack)
  BY <1>1, <1>2, StepKeeps, Zenon DEF Text, Step
<1> QED
  BY <1>1, <1>3, OnlyTop DEF Text

\* A step that clears miValid and may change the macros and the files that
\* said #pragma once.
LEMMA ClearWithMacros ==
  ASSUME WalkInv, stack # <<>>,
         GoodStack(stack'), GoodModules(stack', imported), Len(stack') = Len(stack),
         macros' \subseteq Macros, pushed' \in [Macros -> Seq(BOOLEAN)],
         said' \subseteq Files \cup {Main},
         UNCHANGED <<src, pre, cache, imported>>
  PROVE  WalkInv'
<1>1. GoodWalk'
  BY DEF WalkInv, GoodWalk
<1>2. OthersOK'
  BY DEF WalkInv, OthersOK
<1> QED
  BY <1>1, <1>2 DEF WalkInv

\* #define and #undef
LEMMA DefineUndefInv == WalkInv /\ DefineUndef => WalkInv'
<1> SUFFICES ASSUME WalkInv, DefineUndef PROVE WalkInv'
  OBVIOUS
<1>1. stack # <<>> /\ line \in Lines /\ line.k \in {"define", "undef"}
  BY Top DEF DefineUndef, More
<1>2. line.x \in Macros
  BY <1>1 DEF Lines
<1>3. macros' \subseteq Macros /\ pushed' \in [Macros -> Seq(BOOLEAN)]
      /\ said' \subseteq Files \cup {Main}
  BY <1>2 DEF DefineUndef, WalkInv, OthersOK
<1> QED
  BY <1>1, <1>3, ClearStep, ClearWithMacros DEF DefineUndef

\* #pragma push_macro and pop_macro
LEMMA PushPopMacroInv == WalkInv /\ PushPopMacro => WalkInv'
<1> SUFFICES ASSUME WalkInv, PushPopMacro PROVE WalkInv'
  OBVIOUS
<1>1. stack # <<>> /\ line \in Lines /\ line.k \in {"push", "pop"}
  BY Top DEF PushPopMacro, More
<1>2. line.x \in Macros
  BY <1>1 DEF Lines
<1> DEFINE n == line.x
<1>3. pushed \in [Macros -> Seq(BOOLEAN)] /\ macros \subseteq Macros /\ said \subseteq Files \cup {Main}
  BY DEF WalkInv, OthersOK
<1>4. pushed[n] \in Seq(BOOLEAN)
  BY <1>2, <1>3
<1>5. CASE line.k = "push"
  <2>1. pushed' = [pushed EXCEPT ![n] = Append(@, n \in macros)] /\ macros' = macros
    BY <1>5 DEF PushPopMacro
  <2>2. Append(pushed[n], n \in macros) \in Seq(BOOLEAN)
    BY <1>4
  <2>3. pushed' \in [Macros -> Seq(BOOLEAN)]
    BY <1>2, <1>3, <2>1, <2>2
  <2> QED
    BY <1>1, <1>3, <2>1, <2>3, ClearStep, ClearWithMacros DEF PushPopMacro
<1>6. CASE line.k = "pop" /\ pushed[n] = <<>>
  BY <1>1, <1>3, <1>6, ClearStep, ClearWithMacros DEF PushPopMacro
<1>7. CASE line.k = "pop" /\ pushed[n] # <<>>
  <2>1. /\ pushed' = [pushed EXCEPT ![n] = SubSeq(@, 1, Len(@) - 1)]
        /\ macros' \in {macros \cup {n}, macros \ {n}}
    BY <1>7 DEF PushPopMacro
  <2>2. SubSeq(pushed[n], 1, Len(pushed[n]) - 1) \in Seq(BOOLEAN)
    BY <1>4, <1>7
  <2>3. pushed' \in [Macros -> Seq(BOOLEAN)] /\ macros' \subseteq Macros
    BY <1>2, <1>3, <2>1, <2>2
  <2> QED
    BY <1>1, <1>3, <2>3, ClearStep, ClearWithMacros DEF PushPopMacro
<1> QED
  BY <1>1, <1>5, <1>6, <1>7

\* #pragma once
LEMMA PragmaOnceInv == WalkInv /\ PragmaOnce => WalkInv'
<1> SUFFICES ASSUME WalkInv, PragmaOnce PROVE WalkInv'
  OBVIOUS
<1>1. stack # <<>> /\ GoodReader(r, r.module) /\ r.file \in Files \cup {Main}
  BY Top DEF PragmaOnce, More, Readers
<1>2. GoodReader([Cleared(r) EXCEPT !.once = TRUE], r.module)
  BY <1>1, ClearedGood, FlagsGood, Zenon
<1>3. GoodStack(stack') /\ GoodModules(stack', imported) /\ Len(stack') = Len(stack)
  BY <1>1, <1>2, StepKeeps, Zenon DEF PragmaOnce, Step
<1>4. macros' \subseteq Macros /\ pushed' \in [Macros -> Seq(BOOLEAN)]
      /\ said' \subseteq Files \cup {Main}
  BY <1>1 DEF PragmaOnce, WalkInv, OthersOK
<1> QED
  BY <1>1, <1>3, <1>4, ClearWithMacros DEF PragmaOnce

\* A directive that only reports
LEMMA BadDirectiveInv == WalkInv /\ BadDirective => WalkInv'
<1> SUFFICES ASSUME WalkInv, BadDirective PROVE WalkInv'
  OBVIOUS
<1>1. stack # <<>>
  BY DEF BadDirective, More
<1> QED
  BY <1>1, ClearStep, OnlyTop DEF BadDirective

-----------------------------------------------------------------------------
(* Opening and closing files *)

\* A step of include over a good stack `below`, no deeper than the limit
\* allows, keeps the walk good.
LEMMA IncludeKeeps ==
  ASSUME WalkInv, NEW f \in Files \cup {None}, NEW imp \in BOOLEAN, NEW below,
         GoodStack(below), GoodModules(below, imported), Len(below) = Len(stack),
         Len(stack) < Depth, IncludeFile(f, imp, below),
         pre' \in Seq(Files \cup {None}),
         UNCHANGED <<src, macros, pushed, imported, said>>
  PROVE  WalkInv'
<1>1. IsFiniteSet(imported) /\ Cardinality(imported) \in Nat /\ Depth \in Nat
  BY ModulesAssumption, DepthAssumption, FS_Subset, FS_CardinalityType
     DEF WalkInv, OthersOK, Depth
<1>2. Len(below) \in Nat
  BY DEF GoodStack
<1>3. CASE stack' = below /\ UNCHANGED cache
  <2>1. GoodWalk'
    BY <1>3 DEF WalkInv, GoodWalk
  <2>2. OthersOK'
    BY <1>3 DEF WalkInv, OthersOK
  <2> QED
    BY <2>1, <2>2 DEF WalkInv
<1>4. CASE /\ f \in Files
           /\ ReadFileAs(f, None, below)
           /\ cache' = IF imp THEN [cache EXCEPT ![f].once = TRUE, ![f].imported = TRUE]
                       ELSE cache
  <2>1. stack' = Append(below, NewReader(f, None))
    BY <1>4 DEF ReadFileAs
  <2>2. GoodStack(stack') /\ GoodModules(stack', imported) /\ Len(stack') = Len(below) + 1
    <3>1. imported \cup ({None} \ {None}) = imported
      OBVIOUS
    <3> QED
      BY <1>4, <2>1, <3>1, PushReader
  <2>3. GoodWalk'
    BY <1>1, <1>2, <2>2 DEF GoodWalk
  <2>4. cache' \in [Files -> Caches]
    <3>1. cache \in [Files -> Caches]
      BY DEF WalkInv, OthersOK
    <3> QED
      BY <1>4, <3>1, ZenonT(30) DEF Caches
  <2>5. OthersOK'
    BY <2>4 DEF WalkInv, OthersOK
  <2> QED
    BY <2>3, <2>5 DEF WalkInv
<1> QED
  BY <1>3, <1>4, Zenon DEF IncludeFile

\* #include and #import
LEMMA DoIncludeInv == WalkInv /\ DoInclude => WalkInv'
<1> SUFFICES ASSUME WalkInv, DoInclude PROVE WalkInv'
  OBVIOUS
<1>1. stack # <<>> /\ line \in Lines /\ line.k \in {"include", "import"}
  BY Top, Zenon DEF DoInclude, More
<1>2. line.x \in Files \cup {None}
  BY <1>1 DEF Lines
<1>3. GoodReader(Cleared(r), r.module)
  BY <1>1, Top, ClearedGood
<1>4. GoodStack(Below) /\ GoodModules(Below, imported) /\ Len(Below) = Len(stack)
  BY <1>1, <1>3, StepKeeps DEF Below
<1>5. CASE TooDeep
  <2>1. stack' = Below /\ UNCHANGED cache
    BY <1>5, Zenon DEF DoInclude
  <2> QED
    BY <1>1, <1>4, <2>1, OnlyTop, Zenon DEF DoInclude
<1>6. CASE ~TooDeep
  <2>1. IncludeFile(line.x, line.k = "import", Below)
    BY <1>6 DEF DoInclude
  <2>2. Len(stack) < Depth
    <3>1. Len(stack) \in Nat
      BY DEF WalkInv, GoodWalk, GoodStack
    <3> QED
      BY <1>6, <3>1, DepthAssumption DEF TooDeep, Depth
  <2>3. pre' \in Seq(Files \cup {None})
    BY Zenon DEF DoInclude, WalkInv, OthersOK
  <2>4. UNCHANGED <<src, macros, pushed, imported, said>>
    BY Zenon DEF DoInclude
  <2>5. (line.k = "import") \in BOOLEAN
    OBVIOUS
  <2> QED
    BY <1>2, <1>4, <2>1, <2>2, <2>3, <2>4, <2>5, IncludeKeeps, Zenon
<1> QED
  BY <1>5, <1>6

\* A PreInclude
LEMMA PreIncludeInv == WalkInv /\ PreInclude => WalkInv'
<1> SUFFICES ASSUME WalkInv, PreInclude PROVE WalkInv'
  OBVIOUS
<1>1. pre \in Seq(Files \cup {None}) /\ pre # <<>> /\ Len(stack) = 1
  BY DEF PreInclude, WalkInv, OthersOK
<1>2. Head(pre) \in Files \cup {None} /\ Tail(pre) \in Seq(Files \cup {None})
  BY <1>1
<1>3. Len(stack) < Depth
  BY <1>1, DepthAssumption DEF Depth
<1>4. GoodStack(stack) /\ GoodModules(stack, imported)
  BY DEF WalkInv, GoodWalk
<1>5. /\ pre' \in Seq(Files \cup {None})
      /\ UNCHANGED <<src, macros, pushed, imported, said>>
  BY <1>2 DEF PreInclude, WalkInv, OthersOK
<1>6. IncludeFile(Head(pre), FALSE, stack) /\ FALSE \in BOOLEAN
  BY Zenon DEF PreInclude
<1> QED
  BY <1>2, <1>3, <1>4, <1>5, <1>6, IncludeKeeps, Zenon

\* import M;
LEMMA ImportModuleInv == WalkInv /\ ImportModule => WalkInv'
<1> SUFFICES ASSUME WalkInv, ImportModule PROVE WalkInv'
  OBVIOUS
<1> DEFINE m == line.x
           rd == [Cleared(r) EXCEPT !.sawToken = TRUE]
           below == [stack EXCEPT ![Len(stack)] = Advance(rd)]
<1>1. stack # <<>> /\ line \in Lines /\ line.k = "module" /\ GoodReader(r, r.module)
  BY Top, Zenon DEF ImportModule, More
<1>2. m \in Modules \cup {None}
  BY <1>1 DEF Lines
<1>3. GoodReader(rd, r.module)
  BY <1>1, ClearedGood, FlagsGood, Zenon
<1>4. GoodStack(below) /\ GoodModules(below, imported) /\ Len(below) = Len(stack)
  <2> HIDE DEF rd
  <2> QED
    BY <1>1, <1>3, StepKeeps
<1>5. imported' = Imports(m) /\ UNCHANGED <<src, pre, macros, pushed, cache, said>>
  BY Zenon DEF ImportModule
<1>6. CASE m \in Modules \ imported
  <2>1. ReadFileAs(UnitOf[m], m, below)
    BY <1>6, Zenon DEF ImportModule
  <2>2. UnitOf[m] \in Files /\ m # None
    BY <1>6, ModulesAssumption, NoneAssumption
  <2>3. imported' = imported \cup {m} /\ imported' = imported \cup ({m} \ {None})
    BY <1>5, <1>6, <2>2 DEF Imports
  <2>4. GoodStack(stack') /\ GoodModules(stack', imported') /\ Len(stack') = Len(below) + 1
    <3>1. stack' = Append(below, NewReader(UnitOf[m], m))
      BY <2>1 DEF ReadFileAs
    <3> HIDE DEF below, m
    <3> QED
      BY <1>4, <1>6, <2>2, <2>3, <3>1, PushReader
  <2>5. /\ IsFiniteSet(imported) /\ Cardinality(imported) \in Nat
        /\ Cardinality(imported') = Cardinality(imported) + 1
    BY <1>6, <2>3, ModulesAssumption, FS_Subset, FS_CardinalityType, FS_AddElement, ZenonT(30)
       DEF WalkInv, OthersOK
  <2>6. Len(stack) \in Nat /\ Depth \in Nat /\ Len(stack) <= Depth + Cardinality(imported)
    BY DepthAssumption DEF WalkInv, GoodWalk, GoodStack, Depth
  <2>7. GoodWalk'
    <3>1. Len(stack') <= Depth + Cardinality(imported')
      BY <1>4, <2>4, <2>5, <2>6
    <3> QED
      BY <2>4, <3>1 DEF GoodWalk
  <2>8. OthersOK'
    <3>1. imported' \subseteq Modules
      BY <1>6, <2>3 DEF WalkInv, OthersOK
    <3> QED
      BY <1>5, <3>1 DEF WalkInv, OthersOK
  <2> QED
    BY <2>7, <2>8 DEF WalkInv
<1>7. CASE m \notin Modules \ imported
  <2>1. stack' = below
    BY <1>7, Zenon DEF ImportModule
  <2>2. imported' = imported
    BY <1>5, <1>7 DEF Imports
  <2> HIDE DEF below
  <2> QED
    BY <1>1, <1>4, <1>5, <2>1, <2>2, OnlyTop
<1> QED
  BY <1>6, <1>7

\* module :private;
LEMMA PrivateFragmentInv == WalkInv /\ PrivateFragment => WalkInv'
<1> SUFFICES ASSUME WalkInv, PrivateFragment PROVE WalkInv'
  OBVIOUS
<1> DEFINE rd == [Cleared(r) EXCEPT !.sawToken = TRUE]
           n == Len(src[r.file]) + 1
<1>1. stack # <<>> /\ GoodReader(r, r.module) /\ r \in Readers
  BY Top DEF PrivateFragment, More
<1>2. GoodReader(rd, r.module)
  BY <1>1, ClearedGood, FlagsGood, Zenon
<1>3. GoodStack(stack') /\ GoodModules(stack', imported) /\ Len(stack') = Len(stack)
  <2>1. CASE r.module = None
    <3>1. stack' = [stack EXCEPT ![Len(stack)] = Advance(rd)]
      BY <2>1 DEF PrivateFragment, Step
    <3> HIDE DEF rd
    <3> QED
      BY <1>1, <1>2, <3>1, StepKeeps, Zenon
  <2>2. CASE r.module # None
    <3>1. stack' = Replaced(stack, [rd EXCEPT !.pos = n])
      BY <2>2 DEF PrivateFragment, Replaced
    <3>2. n \in Nat \ {0}
      <4>1. src[r.file] \in Seq(Lines)
        BY <1>1 DEF WalkInv, OthersOK, Readers
      <4> QED
        BY <4>1
    <3> HIDE DEF rd, n
    <3>3. GoodReader([rd EXCEPT !.pos = n], r.module)
      <4>1. rd \in Readers
        BY <1>2 DEF GoodReader
      <4>2. /\ [rd EXCEPT !.pos = n] \in Readers
            /\ [rd EXCEPT !.pos = n].conds = rd.conds
            /\ [rd EXCEPT !.pos = n].module = rd.module
        BY <3>2, <4>1 DEF Readers
      <4> QED
        BY <1>2, <4>2 DEF GoodReader
    <3> QED
      BY <1>1, <3>1, <3>3, ReplaceTop DEF WalkInv, GoodWalk, r
  <2> QED
    BY <2>1, <2>2
<1> QED
  BY <1>1, <1>3, OnlyTop DEF PrivateFragment

\* The end of a file
LEMMA EndFileInv == WalkInv /\ EndFile => WalkInv'
<1> SUFFICES ASSUME WalkInv, EndFile PROVE WalkInv'
  OBVIOUS
<1>1. stack # <<>> /\ r \in Readers
  BY Top DEF EndFile
<1>2. /\ GoodStack(stack') /\ GoodModules(stack', imported)
      /\ Len(stack') = Len(stack) - 1 /\ Len(stack) \in Nat
  BY <1>1, PopReader DEF EndFile, WalkInv, GoodWalk, GoodStack
<1>3. imported' = imported
  BY DEF EndFile
<1>4. GoodWalk'
  <2>1. Depth \in Nat /\ Cardinality(imported) \in Nat
    BY ModulesAssumption, DepthAssumption, FS_Subset, FS_CardinalityType
       DEF WalkInv, OthersOK, Depth
  <2>2. Len(stack) <= Depth + Cardinality(imported)
    BY DEF WalkInv, GoodWalk
  <2>3. Len(stack') <= Depth + Cardinality(imported)
    BY <1>2, <2>1, <2>2
  <2> QED
    BY <1>2, <1>3, <2>3 DEF GoodWalk
<1>5. cache' \in [Files -> Caches]
  <2>1. cache \in [Files -> Caches]
    BY DEF WalkInv, OthersOK
  <2>2. Guard(r) \in Macros \cup {None} /\ r.once \in BOOLEAN
    BY <1>1 DEF Guard, Readers
  <2>3. CASE r.file \notin Files \/ cache[r.file].done
    BY <2>1, <2>3 DEF EndFile
  <2>4. CASE ~(r.file \notin Files \/ cache[r.file].done)
    <3> DEFINE c == Record(cache[r.file], r)
    <3>1. cache' = [cache EXCEPT ![r.file] = c]
      BY <2>4 DEF EndFile
    <3>2. cache[r.file] \in Caches
      BY <2>1, <2>4
    <3>3. c \in Caches
      BY <2>2, <3>2 DEF Caches, Record
    <3> HIDE DEF c
    <3> QED
      BY <2>1, <3>1, <3>3, Zenon
  <2> QED
    BY <2>3, <2>4
<1>6. OthersOK'
  BY <1>5 DEF EndFile, WalkInv, OthersOK
<1> QED
  BY <1>4, <1>6 DEF WalkInv

-----------------------------------------------------------------------------
(* Theorems *)

\* Every step of the walk, and every stuttering step, keeps the invariant.
LEMMA NextInv == WalkInv /\ [Next]_vars => WalkInv'
<1> SUFFICES ASSUME WalkInv, [Next]_vars PROVE WalkInv'
  OBVIOUS
<1>1. CASE UNCHANGED vars
  <2>1. GoodWalk'
    BY <1>1 DEF vars, WalkInv, GoodWalk
  <2>2. OthersOK'
    BY <1>1 DEF vars, WalkInv, OthersOK
  <2> QED
    BY <2>1, <2>2 DEF WalkInv
<1> QED
  BY <1>1, BeginIfInv, DoElifInv, DoElseInv, DoEndifInv, SkipLineInv, TextInv,
     DefineUndefInv, PushPopMacroInv, PragmaOnceInv, BadDirectiveInv, DoIncludeInv,
     PreIncludeInv, ImportModuleInv, PrivateFragmentInv, EndFileInv, Zenon DEF Next

\* The invariant holds throughout every walk.
THEOREM WalkInvariance == Spec => []WalkInv
  BY InitInv, NextInv, PTL DEF Spec

\* The walk's state keeps the shape the reader and cached structs give it.
THEOREM WalkTyped == Spec => []TypeOK
  BY WalkInvariance, InvImplies, PTL

\* No conditional of a skipped group is ever active, whatever #elif and #else
\* the group holds and however often #endif and #else are misplaced.
THEOREM DeadStaysDead == Spec => []NoActiveInDead
  BY WalkInvariance, InvImplies, PTL

\* No module interface unit is being read twice at once, for any modules that
\* import one another.
THEOREM ModulesReadOnce == Spec => []ModuleReadOnce
  BY WalkInvariance, InvImplies, PTL

\* MaxIncludeDepth (or 2) and the number of modules read bound the stack.
THEOREM StackBounded == Spec => []StackBound
  BY WalkInvariance, InvImplies, PTL

-----------------------------------------------------------------------------
(* What a step makes of the reader on top *)

\* An opening conditional pushes a frame, a guard candidate only if nothing
\* stands before it.
Opened(q) ==
  /\ line.k \in Openers
  /\ q.pos = r.pos + 1
  /\ q.miValid = r.miValid /\ q.pendingGuard = r.pendingGuard /\ q.once = r.once
  /\ \E c \in Conds :
       /\ q.conds = Append(r.conds, c)
       /\ c.active <=> live(r) /\ Holds(line)
       /\ c.taken <=> live(r) /\ Holds(line)
       /\ ~c.sawElse
       /\ c.guard # None =>
            /\ line.k \in {"ifndef", "ifnot", "ifnotor"} /\ c.guard = line.x
            /\ r.miValid /\ r.conds = <<>>

\* #elif and #else replace the top frame.
Turned(q) ==
  /\ line.k \in {"elif", "elifdef", "else"}
  /\ r.conds # <<>> /\ ~topCond.sawElse
  /\ q.pos = r.pos + 1
  /\ ~q.miValid /\ q.pendingGuard = r.pendingGuard /\ q.once = r.once
  /\ \E c \in Conds :
       /\ q.conds = [r.conds EXCEPT ![Len(r.conds)] = c]
       /\ c.active <=> ~topCond.taken /\ ~parentSkipping /\ (line.k = "else" \/ Holds(line))
       /\ c.taken <=> topCond.taken \/ c.active
       /\ c.sawElse <=> line.k = "else"
       /\ c.guard = None

\* #endif pops it, and the outermost one decides the pending guard.
Closed(q) ==
  /\ line.k = "endif"
  /\ r.conds # <<>>
  /\ q.pos = r.pos + 1
  /\ q.once = r.once
  /\ q.conds = SubSeq(r.conds, 1, Len(r.conds) - 1)
  /\ Len(r.conds) = 1 =>
       q.pendingGuard = topCond.guard /\ (q.miValid <=> topCond.guard # None)

\* A conditional without its #if, or after its #else, is only reported.
Misplaced(q) ==
  /\ line.k \in Conditionals \ Openers
  /\ r.conds = <<>> \/ (line.k # "endif" /\ topCond.sawElse)
  /\ q.pos = r.pos + 1
  /\ q.conds = r.conds /\ q.once = r.once

\* Any other line: one with an effect ends the claim that nothing stands
\* outside the guard.
Passed(q) ==
  /\ line.k \notin Conditionals
  /\ q.conds = r.conds /\ q.pendingGuard = r.pendingGuard
  /\ q.miValid => r.miValid /\ ~(Effect(line) /\ live(r))
  /\ q.once <=> r.once \/ (line.k = "once" /\ live(r))
  /\ \/ q.pos = r.pos + 1
     \/ line.k = "private" /\ q.pos = Len(src[r.file]) + 1 /\ ~q.miValid

Moves(q) ==
  /\ More
  /\ q \in Readers /\ q.file = r.file
  /\ Opened(q) \/ Turned(q) \/ Closed(q) \/ Misplaced(q) \/ Passed(q)

\* Taking the line and clearing miValid, field by field.
LEMMA ReaderFields ==
  ASSUME NEW rd \in Readers
  PROVE  /\ Advance(rd) \in Readers
         /\ Advance(rd).file = rd.file /\ Advance(rd).pos = rd.pos + 1
         /\ Advance(rd).conds = rd.conds /\ Advance(rd).miValid = rd.miValid
         /\ Advance(rd).pendingGuard = rd.pendingGuard /\ Advance(rd).once = rd.once
         /\ Cleared(rd) \in Readers
         /\ Cleared(rd).file = rd.file /\ Cleared(rd).pos = rd.pos
         /\ Cleared(rd).conds = rd.conds /\ ~Cleared(rd).miValid
         /\ Cleared(rd).pendingGuard = rd.pendingGuard /\ Cleared(rd).once = rd.once
<1>1. Advance(rd) \in Readers
  BY DEF Advance, Readers
<1>4. Cleared(rd) \in Readers
  BY Zenon DEF Cleared, Readers
<1>2. /\ Advance(rd).file = rd.file /\ Advance(rd).pos = rd.pos + 1
      /\ Advance(rd).conds = rd.conds /\ Advance(rd).miValid = rd.miValid
      /\ Advance(rd).pendingGuard = rd.pendingGuard /\ Advance(rd).once = rd.once
  BY DEF Advance, Readers
<1>3. /\ Cleared(rd).file = rd.file /\ Cleared(rd).pos = rd.pos
      /\ Cleared(rd).conds = rd.conds /\ ~Cleared(rd).miValid
      /\ Cleared(rd).pendingGuard = rd.pendingGuard /\ Cleared(rd).once = rd.once
  BY DEF Cleared, Readers
<1> QED
  BY <1>1, <1>2, <1>3, <1>4, Zenon

\* The top reader with another #if stack.
LEMMA CondsFields ==
  ASSUME NEW rd \in Readers, NEW cs \in Seq(Conds)
  PROVE  LET q == [rd EXCEPT !.conds = cs]
         IN  /\ q \in Readers
             /\ q.file = rd.file /\ q.pos = rd.pos /\ q.conds = cs /\ q.miValid = rd.miValid
             /\ q.pendingGuard = rd.pendingGuard /\ q.once = rd.once
  BY DEF Readers

\* #if, #ifdef, #ifndef
LEMMA BeginIfMoves ==
  ASSUME WalkInv, BeginIf
  PROVE  \E q : Moves(q) /\ stack' = Replaced(stack, q)
<1>1. More /\ stack # <<>> /\ line \in Lines /\ line.k \in Openers
  BY Top DEF BeginIf, More
<1>2. r \in Readers /\ r.conds \in Seq(Conds)
  BY <1>1, Top DEF Readers
<1> DEFINE v == live(r) /\ Holds(line)
           guard == IF /\ live(r) /\ line.k \in {"ifndef", "ifnot", "ifnotor"}
                       /\ r.miValid /\ r.conds = <<>> /\ ~r.sawToken
                    THEN line.x ELSE None
           c == [taken |-> v, active |-> v, sawElse |-> FALSE, guard |-> guard]
           cs == Append(r.conds, c)
           p == [r EXCEPT !.conds = cs]
           q == Advance(p)
<1>3. stack' = Replaced(stack, q)
  BY DEF BeginIf, Step, Replaced
<1>4. guard \in Macros \cup {None}
  BY <1>1 DEF Lines
<1>5. guard # None =>
        /\ line.k \in {"ifndef", "ifnot", "ifnotor"} /\ guard = line.x
        /\ r.miValid /\ r.conds = <<>>
  BY Zenon
<1>6. v \in BOOLEAN /\ (v <=> live(r) /\ Holds(line))
  BY Zenon
<1> HIDE DEF v, guard
<1>7. c \in Conds /\ c.active = v /\ c.taken = v /\ ~c.sawElse /\ c.guard = guard
  BY <1>4, <1>6 DEF Conds
<1> HIDE DEF c
<1>8. cs \in Seq(Conds) /\ cs = Append(r.conds, c)
  BY <1>2, <1>7
<1> HIDE DEF cs
<1>9. /\ q \in Readers /\ q.file = r.file /\ q.pos = r.pos + 1 /\ q.conds = cs
      /\ q.miValid = r.miValid /\ q.pendingGuard = r.pendingGuard /\ q.once = r.once
  <2>1. /\ p \in Readers /\ p.file = r.file /\ p.pos = r.pos /\ p.conds = cs
        /\ p.miValid = r.miValid /\ p.pendingGuard = r.pendingGuard /\ p.once = r.once
    BY <1>2, <1>8, CondsFields, ZenonT(40)
  <2> HIDE DEF p
  <2> QED
    BY <2>1, ReaderFields
<1> HIDE DEF q
<1>10. \E d \in Conds :
         /\ q.conds = Append(r.conds, d)
         /\ d.active <=> live(r) /\ Holds(line)
         /\ d.taken <=> live(r) /\ Holds(line)
         /\ ~d.sawElse
         /\ d.guard # None =>
              /\ line.k \in {"ifndef", "ifnot", "ifnotor"} /\ d.guard = line.x
              /\ r.miValid /\ r.conds = <<>>
  BY <1>5, <1>6, <1>7, <1>8, <1>9, Zenon
<1>11. Moves(q)
  BY <1>1, <1>9, <1>10, Zenon DEF Moves, Opened
<1> QED
  BY <1>3, <1>11

\* A step that replaces the top frame.
LEMMA TopFrameFields ==
  ASSUME NEW c \in Conds, WalkInv, stack # <<>>, r.conds # <<>>
  PROVE  LET q == Advance(WithTop(c))
         IN  /\ q \in Readers /\ q.file = r.file /\ q.pos = r.pos + 1
             /\ q.conds = [r.conds EXCEPT ![Len(r.conds)] = c]
             /\ ~q.miValid /\ q.pendingGuard = r.pendingGuard /\ q.once = r.once
<1> DEFINE cs == [r.conds EXCEPT ![Len(r.conds)] = c]
<1>1. r \in Readers /\ r.conds \in Seq(Conds)
  BY Top DEF Readers
<1>2. cs \in Seq(Conds)
  BY <1>1
<1> HIDE DEF cs
<1>3. WithTop(c) = [Cleared(r) EXCEPT !.conds = cs]
  BY DEF WithTop, cs
<1>4. /\ Cleared(r) \in Readers /\ Cleared(r).file = r.file /\ Cleared(r).pos = r.pos
      /\ ~Cleared(r).miValid /\ Cleared(r).pendingGuard = r.pendingGuard
      /\ Cleared(r).once = r.once
  BY <1>1, ReaderFields, Zenon
<1>5. /\ WithTop(c) \in Readers /\ WithTop(c).file = r.file /\ WithTop(c).pos = r.pos
      /\ WithTop(c).conds = cs /\ ~WithTop(c).miValid
      /\ WithTop(c).pendingGuard = r.pendingGuard /\ WithTop(c).once = r.once
  BY <1>2, <1>3, <1>4, CondsFields
<1> QED
  BY <1>5, ReaderFields DEF cs

\* A misplaced conditional
LEMMA MisplacedMoves ==
  ASSUME WalkInv, More, Step(Cleared(r)), line.k \in Conditionals \ Openers,
         r.conds = <<>> \/ (line.k # "endif" /\ topCond.sawElse)
  PROVE  \E q : Moves(q) /\ stack' = Replaced(stack, q)
<1> DEFINE q == Advance(Cleared(r))
<1>1. r \in Readers
  BY Top DEF More
<1>2. /\ q \in Readers /\ q.file = r.file /\ q.pos = r.pos + 1
      /\ q.conds = r.conds /\ q.once = r.once
  BY <1>1, ReaderFields
<1>3. stack' = Replaced(stack, q)
  BY DEF Step, Replaced
<1> HIDE DEF q
<1> QED
  BY <1>2, <1>3, Zenon DEF Moves, Misplaced

\* #elif, #else
LEMMA TurnMoves ==
  ASSUME WalkInv, DoElif \/ DoElse
  PROVE  \E q : Moves(q) /\ stack' = Replaced(stack, q)
<1>1. More /\ stack # <<>> /\ line.k \in {"elif", "elifdef", "else"}
  BY DEF DoElif, DoElse, More
<1>2. CASE r.conds = <<>> \/ topCond.sawElse
  <2>1. Step(Cleared(r))
    BY <1>2, Zenon DEF DoElif, DoElse
  <2>2. line.k \in Conditionals \ Openers /\ line.k # "endif"
    BY <1>1 DEF Conditionals, Openers
  <2> QED
    BY <1>1, <1>2, <2>1, <2>2, MisplacedMoves
<1>3. CASE ~(r.conds = <<>> \/ topCond.sawElse)
  <2> DEFINE v == ~topCond.taken /\ ~parentSkipping /\ (line.k = "else" \/ Holds(line))
             c(b) == [taken |-> topCond.taken \/ b, active |-> b, sawElse |-> line.k = "else",
                      guard |-> None]
  <2>1. topCond.taken \in BOOLEAN
    <3>1. r.conds \in Seq(Conds)
      BY <1>1, Top DEF Readers
    <3>2. topCond \in Conds
      BY <1>3, <3>1 DEF topCond
    <3> QED
      BY <3>2 DEF Conds
  <2>2. PICK b \in BOOLEAN : b <=> v
    BY Zenon
  <2>3. Step(WithTop(c(b)))
    <3>1. CASE DoElse
      <4>1. b = (~topCond.taken /\ ~parentSkipping) /\ line.k = "else"
        BY <2>2, <3>1, Zenon DEF DoElse
      <4> HIDE <2>2
      <4> QED
        BY <1>3, <3>1, <4>1, Zenon DEF DoElse
    <3>2. CASE DoElif
      <4>1. b = (~topCond.taken /\ ~parentSkipping /\ Holds(line)) /\ line.k # "else"
        BY <2>2, <3>2 DEF DoElif
      <4>2. (line.k = "else") = FALSE
        BY <4>1
      <4> QED
        BY <1>3, <3>2, <4>1, <4>2, Zenon DEF DoElif
    <3> QED
      BY <3>1, <3>2
  <2> HIDE DEF v
  <2>4. /\ c(b) \in Conds /\ c(b).active = b /\ (c(b).taken <=> topCond.taken \/ b)
        /\ (c(b).sawElse <=> line.k = "else") /\ c(b).guard = None
    BY <2>1, Zenon DEF Conds
  <2> DEFINE d == c(b)
             q == Advance(WithTop(d))
  <2> HIDE DEF c
  <2>5. /\ q \in Readers /\ q.file = r.file /\ q.pos = r.pos + 1
        /\ q.conds = [r.conds EXCEPT ![Len(r.conds)] = d]
        /\ ~q.miValid /\ q.pendingGuard = r.pendingGuard /\ q.once = r.once
    BY <1>1, <1>3, <2>4, TopFrameFields
  <2>6. stack' = Replaced(stack, q)
    BY <2>3 DEF Step, Replaced
  <2> HIDE DEF q, d
  <2>7. Turned(q)
    BY <1>1, <1>3, <2>2, <2>4, <2>5, Zenon DEF Turned, v, d
  <2> QED
    BY <1>1, <2>5, <2>6, <2>7, Zenon DEF Moves
<1> QED
  BY <1>2, <1>3

\* #endif
LEMMA EndifMoves ==
  ASSUME WalkInv, DoEndif
  PROVE  \E q : Moves(q) /\ stack' = Replaced(stack, q)
<1>1. More /\ stack # <<>> /\ line.k = "endif"
  BY DEF DoEndif, More
<1>2. CASE r.conds = <<>>
  <2>1. Step(Cleared(r))
    BY <1>2, Zenon DEF DoEndif
  <2>2. line.k \in Conditionals \ Openers
    BY <1>1 DEF Conditionals, Openers
  <2> QED
    BY <1>1, <1>2, <2>1, <2>2, MisplacedMoves
<1>3. CASE r.conds # <<>>
  <2>1. r \in Readers /\ r.conds \in Seq(Conds)
    BY <1>1, Top DEF Readers
  <2> DEFINE cs == SubSeq(r.conds, 1, Len(r.conds) - 1)
             popped == [Cleared(r) EXCEPT !.conds = cs]
             closed == [popped EXCEPT !.pendingGuard = topCond.guard,
                                      !.miValid = topCond.guard # None]
             rd == IF Len(r.conds) > 1 THEN popped ELSE closed
             q == Advance(rd)
  <2>2. Cleared(r) \in Readers /\ Cleared(r).file = r.file /\ Cleared(r).pos = r.pos
        /\ Cleared(r).once = r.once /\ Cleared(r).conds = r.conds
    BY <2>1, ReaderFields, Zenon
  <2>3. stack' = Replaced(stack, q)
    BY <1>3, <2>2 DEF DoEndif, Step, Replaced
  <2>4. cs \in Seq(Conds)
    BY <1>3, <2>1
  <2>5. topCond.guard \in Macros \cup {None}
    <3>1. r.conds[Len(r.conds)] \in Conds
      BY <1>3, <2>1
    <3> QED
      BY <3>1 DEF topCond, Conds
  <2> HIDE DEF cs
  <2>6. /\ popped \in Readers /\ popped.file = r.file /\ popped.pos = r.pos
        /\ popped.once = r.once /\ popped.conds = cs
    BY <2>2, <2>4, CondsFields
  <2> HIDE DEF popped
  <2>7. /\ closed \in Readers /\ closed.file = r.file /\ closed.pos = r.pos
        /\ closed.once = r.once /\ closed.conds = cs
        /\ closed.pendingGuard = topCond.guard /\ (closed.miValid <=> topCond.guard # None)
    BY <2>5, <2>6, Zenon DEF Readers
  <2> HIDE DEF closed
  <2>8. /\ rd \in Readers /\ rd.file = r.file /\ rd.pos = r.pos
        /\ rd.once = r.once /\ rd.conds = cs
        /\ Len(r.conds) = 1 =>
             rd.pendingGuard = topCond.guard /\ (rd.miValid <=> topCond.guard # None)
    <3>1. (Len(r.conds) > 1 => rd = popped) /\ (~(Len(r.conds) > 1) => rd = closed)
      OBVIOUS
    <3>2. Len(r.conds) = 1 => ~(Len(r.conds) > 1)
      OBVIOUS
    <3> HIDE DEF rd
    <3> QED
      BY <2>6, <2>7, <3>1, <3>2, Zenon
  <2> HIDE DEF rd
  <2>9. /\ q \in Readers /\ q.file = r.file /\ q.pos = r.pos + 1
        /\ q.once = r.once /\ q.conds = cs
        /\ Len(r.conds) = 1 =>
             q.pendingGuard = topCond.guard /\ (q.miValid <=> topCond.guard # None)
    BY <2>8, ReaderFields
  <2> HIDE DEF q
  <2>10. Closed(q)
    BY <1>1, <1>3, <2>9, Zenon DEF Closed, cs
  <2> QED
    BY <1>1, <2>3, <2>9, <2>10, Zenon DEF Moves
<1> QED
  BY <1>2, <1>3

\* Flags of the top reader.
LEMMA FlagFields ==
  ASSUME NEW rd \in Readers
  PROVE  /\ LET q == [rd EXCEPT !.sawToken = TRUE]
            IN  /\ q \in Readers
                /\ q.file = rd.file /\ q.pos = rd.pos /\ q.conds = rd.conds
                /\ q.miValid = rd.miValid /\ q.pendingGuard = rd.pendingGuard /\ q.once = rd.once
         /\ LET q == [rd EXCEPT !.once = TRUE]
            IN  /\ q \in Readers
                /\ q.file = rd.file /\ q.pos = rd.pos /\ q.conds = rd.conds
                /\ q.miValid = rd.miValid /\ q.pendingGuard = rd.pendingGuard /\ q.once
<1> DEFINE p == [rd EXCEPT !.sawToken = TRUE]
           q == [rd EXCEPT !.once = TRUE]
<1>1. /\ p \in Readers
      /\ p.file = rd.file /\ p.pos = rd.pos /\ p.conds = rd.conds
      /\ p.miValid = rd.miValid /\ p.pendingGuard = rd.pendingGuard /\ p.once = rd.once
  BY Zenon DEF Readers
<1>2. /\ q \in Readers
      /\ q.file = rd.file /\ q.pos = rd.pos /\ q.conds = rd.conds
      /\ q.miValid = rd.miValid /\ q.pendingGuard = rd.pendingGuard /\ q.once
  BY Zenon DEF Readers
<1> HIDE DEF p, q
<1> QED
  BY <1>1, <1>2 DEF p, q

\* The reader a line that is not a conditional leaves.
LEMMA PassedMoves ==
  ASSUME WalkInv, More, line.k \notin Conditionals,
         NEW rd \in Readers, rd.file = r.file, rd.pos = r.pos, rd.conds = r.conds,
         rd.miValid => r.miValid /\ ~(Effect(line) /\ live(r)),
         rd.pendingGuard = r.pendingGuard,
         rd.once <=> r.once \/ (line.k = "once" /\ live(r))
  PROVE  Moves(Advance(rd))
<1> DEFINE q == Advance(rd)
<1>1. /\ q \in Readers /\ q.file = rd.file /\ q.pos = rd.pos + 1 /\ q.conds = rd.conds
      /\ q.miValid = rd.miValid /\ q.pendingGuard = rd.pendingGuard /\ q.once = rd.once
  BY ReaderFields, Zenon
<1> HIDE DEF q
<1>2. q.pos = r.pos + 1
  BY <1>1
<1>3. Passed(q)
  BY <1>1, <1>2, Zenon DEF Passed
<1> QED
  BY <1>1, <1>3, Zenon DEF Moves, q

\* A line that is passed over
LEMMA SkipLineMoves ==
  ASSUME WalkInv, SkipLine
  PROVE  Moves(Advance(r)) /\ stack' = Replaced(stack, Advance(r))
<1>1. More /\ r \in Readers /\ r.once \in BOOLEAN
  BY Top DEF SkipLine, More, Readers
<1>2. line.k \notin Conditionals /\ ~(Effect(line) /\ live(r)) /\ ~(line.k = "once" /\ live(r))
  BY DEF SkipLine, Effect, Conditionals, Openers
<1>3. Moves(Advance(r))
  BY <1>1, <1>2, PassedMoves, Zenon
<1> QED
  BY <1>3 DEF SkipLine, Step, Replaced

\* The lines of a live group that end the guard's claim, but for #pragma once.
LEMMA ClearedMoves ==
  ASSUME WalkInv, More, line.k \notin Conditionals, line.k # "once"
  PROVE  /\ Moves(Advance(Cleared(r)))
         /\ Moves(Advance([Cleared(r) EXCEPT !.sawToken = TRUE]))
<1> DEFINE p == Cleared(r)
           q == [p EXCEPT !.sawToken = TRUE]
<1>1. r \in Readers
  BY Top DEF More
<1>2. /\ p \in Readers /\ p.file = r.file /\ p.pos = r.pos /\ p.conds = r.conds
      /\ ~p.miValid /\ p.pendingGuard = r.pendingGuard /\ p.once = r.once
  BY <1>1, ReaderFields, Zenon
<1> HIDE DEF p
<1>3. /\ q \in Readers /\ q.file = r.file /\ q.pos = r.pos /\ q.conds = r.conds
      /\ ~q.miValid /\ q.pendingGuard = r.pendingGuard /\ q.once = r.once
  BY <1>2, FlagFields, Zenon
<1> HIDE DEF q
<1>4. Moves(Advance(p))
  BY <1>2, PassedMoves, Zenon
<1>5. Moves(Advance(q))
  BY <1>3, PassedMoves, Zenon
<1> QED
  BY <1>4, <1>5 DEF p, q

\* #pragma once
LEMMA OnceMoves ==
  ASSUME WalkInv, PragmaOnce
  PROVE  LET q == Advance([Cleared(r) EXCEPT !.once = TRUE])
         IN  Moves(q) /\ stack' = Replaced(stack, q)
<1> DEFINE p == Cleared(r)
           q == [p EXCEPT !.once = TRUE]
<1>1. More /\ r \in Readers /\ line.k = "once" /\ live(r) /\ line.k \notin Conditionals
  BY Top DEF PragmaOnce, More, Conditionals, Openers
<1>2. /\ p \in Readers /\ p.file = r.file /\ p.pos = r.pos /\ p.conds = r.conds
      /\ ~p.miValid /\ p.pendingGuard = r.pendingGuard
  BY <1>1, ReaderFields, Zenon
<1>3. stack' = Replaced(stack, Advance(q))
  BY DEF PragmaOnce, Step, Replaced
<1> HIDE DEF p
<1>4. /\ q \in Readers /\ q.file = r.file /\ q.pos = r.pos /\ q.conds = r.conds
      /\ ~q.miValid /\ q.pendingGuard = r.pendingGuard /\ q.once
  BY <1>2, FlagFields, Zenon
<1> HIDE DEF q
<1>5. Moves(Advance(q))
  BY <1>1, <1>4, PassedMoves, Zenon
<1> QED
  BY <1>3, <1>5 DEF p, q

\* module :private;
LEMMA PrivateMoves ==
  ASSUME WalkInv, PrivateFragment
  PROVE  \E q : Moves(q) /\ stack' = Replaced(stack, q)
<1> DEFINE p == [Cleared(r) EXCEPT !.sawToken = TRUE]
           n == Len(src[r.file]) + 1
           q == [p EXCEPT !.pos = n]
<1>1. More /\ r \in Readers /\ line.k = "private" /\ line.k \notin Conditionals
  BY Top DEF PrivateFragment, More, Conditionals, Openers
<1>2. CASE r.module = None
  <2>1. stack' = Replaced(stack, Advance(p))
    BY <1>2 DEF PrivateFragment, Step, Replaced
  <2> QED
    BY <1>1, <2>1, ClearedMoves
<1>3. CASE r.module # None
  <2>1. stack' = Replaced(stack, q)
    BY <1>3 DEF PrivateFragment, Replaced
  <2>2. /\ p \in Readers /\ p.file = r.file /\ p.conds = r.conds
        /\ ~p.miValid /\ p.pendingGuard = r.pendingGuard /\ p.once = r.once
    <3> DEFINE c == Cleared(r)
    <3>1. /\ c \in Readers /\ c.file = r.file /\ c.pos = r.pos /\ c.conds = r.conds
          /\ ~c.miValid /\ c.pendingGuard = r.pendingGuard /\ c.once = r.once
      BY <1>1, ReaderFields, Zenon
    <3> HIDE DEF c
    <3> QED
      BY <3>1, FlagFields, Zenon DEF c
  <2>3. n \in Nat \ {0}
    <3>1. src[r.file] \in Seq(Lines)
      BY <1>1 DEF WalkInv, OthersOK, Readers
    <3> QED
      BY <3>1
  <2> HIDE DEF n, p
  <2>4. /\ q \in Readers /\ q.file = r.file /\ q.pos = n /\ q.conds = r.conds
        /\ ~q.miValid /\ q.pendingGuard = r.pendingGuard /\ q.once = r.once
    BY <2>2, <2>3 DEF Readers
  <2> HIDE DEF q
  <2>5. Passed(q)
    BY <1>1, <2>4, Zenon DEF Passed, n
  <2> QED
    BY <1>1, <2>1, <2>4, <2>5, Zenon DEF Moves
<1> QED
  BY <1>2, <1>3

\* #include, #import, import M; and a PreInclude open at most one file, over
\* the stack the directive leaves.
LEMMA IncludeFileMoves ==
  ASSUME NEW f, NEW imp, NEW below, IncludeFile(f, imp, below)
  PROVE  stack' = below \/ (f \in Files /\ stack' = Append(below, NewReader(f, None)))
  BY Zenon DEF IncludeFile, ReadFileAs

\* Every step but a PreInclude and the end of a file moves the top reader, and
\* may push one over it when the line is an #include, #import or import M;
Steps(q) ==
  \/ stack' = Replaced(stack, q)
  \/ /\ line.k \in {"include", "import", "module"}
     /\ \E f \in Files, md \in Modules \cup {None} :
          stack' = Append(Replaced(stack, q), NewReader(f, md))

\* #include, #import
LEMMA DoIncludeMoves ==
  ASSUME WalkInv, DoInclude
  PROVE  \E q : Moves(q) /\ Steps(q)
<1> DEFINE q == Advance(Cleared(r))
<1>1. More /\ line.k \in {"include", "import"} /\ line.k \notin Conditionals /\ line.k # "once"
  BY Zenon DEF DoInclude, Conditionals, Openers
<1>2. Moves(q)
  BY <1>1, ClearedMoves
<1>3. Below = Replaced(stack, q)
  BY DEF Below, Replaced
<1> HIDE DEF q
<1>4. stack' = Below \/ \E f \in Files : stack' = Append(Below, NewReader(f, None))
  <2>1. CASE TooDeep
    BY <2>1, Zenon DEF DoInclude
  <2>2. CASE ~TooDeep
    <3>1. IncludeFile(line.x, line.k = "import", Below)
      BY <2>2 DEF DoInclude
    <3> DEFINE imp == line.k = "import"
    <3> HIDE DEF imp
    <3>2. IncludeFile(line.x, imp, Below)
      BY <3>1 DEF imp
    <3> QED
      BY <3>2, IncludeFileMoves, Zenon
  <2> QED
    BY <2>1, <2>2
<1> QED
  BY <1>1, <1>2, <1>3, <1>4, Zenon DEF Steps

\* import M;
LEMMA ImportModuleMoves ==
  ASSUME WalkInv, ImportModule
  PROVE  \E q : Moves(q) /\ Steps(q)
<1> DEFINE q == Advance([Cleared(r) EXCEPT !.sawToken = TRUE])
           m == line.x
<1>1. More /\ line.k = "module" /\ line.k \notin Conditionals /\ line.k # "once"
  BY Zenon DEF ImportModule, Conditionals, Openers
<1>2. Moves(q)
  BY <1>1, ClearedMoves
<1>3. CASE m \in Modules \ imported
  <2>1. stack' = Append(Replaced(stack, q), NewReader(UnitOf[m], m))
    BY <1>3, Zenon DEF ImportModule, ReadFileAs, Replaced
  <2>2. UnitOf[m] \in Files
    BY <1>3, ModulesAssumption
  <2> HIDE DEF q
  <2> QED
    BY <1>1, <1>2, <1>3, <2>1, <2>2, Zenon DEF Steps
<1>4. CASE m \notin Modules \ imported
  <2>1. stack' = Replaced(stack, q)
    BY <1>4, Zenon DEF ImportModule, Replaced
  <2> HIDE DEF q
  <2> QED
    BY <1>2, <2>1, Zenon DEF Steps
<1> QED
  BY <1>3, <1>4

\* Text, #define, #undef, #pragma push_macro and pop_macro, and errors
LEMMA ClearingMoves ==
  ASSUME WalkInv, Text \/ DefineUndef \/ PushPopMacro \/ BadDirective
  PROVE  \E q : Moves(q) /\ stack' = Replaced(stack, q)
<1>1. More /\ line.k \in {"text", "define", "undef", "push", "pop", "bad"}
  BY DEF Text, DefineUndef, PushPopMacro, BadDirective
<1>2. line.k \notin Conditionals /\ line.k # "once"
  BY <1>1 DEF Conditionals, Openers
<1>3. \/ Step([Cleared(r) EXCEPT !.sawToken = TRUE])
      \/ Step(Cleared(r))
  BY Zenon DEF Text, DefineUndef, PushPopMacro, BadDirective
<1>4. \/ stack' = Replaced(stack, Advance([Cleared(r) EXCEPT !.sawToken = TRUE]))
      \/ stack' = Replaced(stack, Advance(Cleared(r)))
  BY <1>3 DEF Step, Replaced
<1> QED
  BY <1>1, <1>2, <1>4, ClearedMoves, Zenon

\* Every step moves the top reader, but for a PreInclude and the end of a file.
LEMMA NextMoves ==
  ASSUME WalkInv, Next
  PROVE  PreInclude \/ EndFile \/ \E q : Moves(q) /\ Steps(q)
<1>1. ASSUME \E q : Moves(q) /\ stack' = Replaced(stack, q)
      PROVE  \E q : Moves(q) /\ Steps(q)
  BY <1>1, Zenon DEF Steps
<1>2. CASE BeginIf \/ DoElif \/ DoElse \/ DoEndif
  BY <1>1, <1>2, BeginIfMoves, TurnMoves, EndifMoves, Zenon
<1>3. CASE SkipLine \/ PragmaOnce \/ PrivateFragment
  BY <1>1, <1>3, SkipLineMoves, OnceMoves, PrivateMoves, Zenon
<1>4. CASE Text \/ DefineUndef \/ PushPopMacro \/ BadDirective
  BY <1>1, <1>4, ClearingMoves, Zenon
<1> QED
  BY <1>2, <1>3, <1>4, DoIncludeMoves, ImportModuleMoves, Zenon DEF Next

-----------------------------------------------------------------------------
(* Levels of nesting *)

\* Counting the members of a set below a bound, one further.
LEMMA CountStep ==
  ASSUME NEW T, NEW p \in Nat \ {0}
  PROVE  /\ Cardinality({j \in 1 .. p - 1 : j \in T}) \in Nat
         /\ p \in T => Cardinality({j \in 1 .. p : j \in T})
                         = Cardinality({j \in 1 .. p - 1 : j \in T}) + 1
         /\ p \notin T => Cardinality({j \in 1 .. p : j \in T})
                            = Cardinality({j \in 1 .. p - 1 : j \in T})
<1> DEFINE A == {j \in 1 .. p - 1 : j \in T}
           B == {j \in 1 .. p : j \in T}
<1>1. IsFiniteSet(1 .. p - 1)
  BY FS_Interval
<1>2. IsFiniteSet(A) /\ Cardinality(A) \in Nat
  BY <1>1, FS_Subset, FS_CardinalityType
<1>3. p \notin A /\ (p \in T => B = A \cup {p}) /\ (p \notin T => B = A)
  OBVIOUS
<1> HIDE DEF A, B
<1>4. p \in T => Cardinality(B) = Cardinality(A) + 1
  BY <1>2, <1>3, FS_AddElement
<1> QED
  BY <1>2, <1>3, <1>4 DEF A, B

\* The level after a line.
LEMMA LevelStep ==
  ASSUME NEW ls, NEW p \in Nat \ {0}
  PROVE  /\ Level(ls, p) \in Int
         /\ ls[p].k \in Openers => Level(ls, p + 1) = Level(ls, p) + 1
         /\ ls[p].k = "endif" => Level(ls, p + 1) = Level(ls, p) - 1
         /\ ls[p].k \notin Openers \cup {"endif"} => Level(ls, p + 1) = Level(ls, p)
<1> DEFINE T == {j \in Nat : ls[j].k \in Openers}
           U == {j \in Nat : ls[j].k = "endif"}
           cT(i) == Cardinality({j \in 1 .. i : j \in T})
           cU(i) == Cardinality({j \in 1 .. i : j \in U})
<1>1. ASSUME NEW i \in Nat
      PROVE  /\ {j \in 1 .. i : ls[j].k \in Openers} = {j \in 1 .. i : j \in T}
             /\ {j \in 1 .. i : ls[j].k = "endif"} = {j \in 1 .. i : j \in U}
  OBVIOUS
<1>2. p - 1 \in Nat /\ p + 1 - 1 = p
  OBVIOUS
<1>3. Level(ls, p) = cT(p - 1) - cU(p - 1) /\ Level(ls, p + 1) = cT(p) - cU(p)
  <2> DEFINE o(i) == {j \in 1 .. i : ls[j].k \in Openers}
             e(i) == {j \in 1 .. i : ls[j].k = "endif"}
  <2>1. /\ Level(ls, p) = Cardinality(o(p - 1)) - Cardinality(e(p - 1))
        /\ Level(ls, p + 1) = Cardinality(o(p + 1 - 1)) - Cardinality(e(p + 1 - 1))
    BY DEF Level
  <2>2. \A i \in Nat : Cardinality(o(i)) = cT(i) /\ Cardinality(e(i)) = cU(i)
    BY <1>1, Zenon
  <2> HIDE DEF o, e, cT, cU
  <2> QED
    BY <1>2, <2>1, <2>2
<1>4. /\ cT(p - 1) \in Nat /\ (p \in T => cT(p) = cT(p - 1) + 1)
      /\ (p \notin T => cT(p) = cT(p - 1))
  BY CountStep, Zenon
<1>5. /\ cU(p - 1) \in Nat /\ (p \in U => cU(p) = cU(p - 1) + 1)
      /\ (p \notin U => cU(p) = cU(p - 1))
  BY CountStep, Zenon
<1>6. (p \in T <=> ls[p].k \in Openers) /\ (p \in U <=> ls[p].k = "endif")
  OBVIOUS
<1>7. "endif" \notin Openers
  BY DEF Openers
<1> HIDE DEF cT, cU, T, U
<1> QED
  BY <1>3, <1>4, <1>5, <1>6, <1>7

\* Nothing stands before the first line.
LEMMA LevelFirst == \A ls : Level(ls, 1) = 0
<1> SUFFICES ASSUME NEW ls PROVE Level(ls, 1) = 0
  OBVIOUS
<1>1. {j \in 1 .. 1 - 1 : ls[j].k \in Openers} = {} /\ {j \in 1 .. 1 - 1 : ls[j].k = "endif"} = {}
  OBVIOUS
<1>2. Cardinality({}) = 0
  BY FS_EmptySet
<1> QED
  BY <1>1, <1>2 DEF Level

\* Inside a well-formed file #elif, #else and #endif have an #if to belong to.
LEMMA InsideChain ==
  ASSUME NEW ls, WellFormed(ls), NEW p \in DOMAIN ls, p \in Nat \ {0},
         ls[p].k \in Conditionals \ Openers
  PROVE  Level(ls, p) > 0
<1> DEFINE a == Cardinality({j \in 1 .. p - 1 : ls[j].k \in Openers})
           b == Cardinality({j \in 1 .. p - 1 : ls[j].k = "endif"})
<1>1. a > b
  BY DEF WellFormed
<1>2. a \in Nat /\ b \in Nat
  <2>1. IsFiniteSet(1 .. p - 1)
    BY FS_Interval
  <2> QED
    BY <2>1, FS_Subset, FS_CardinalityType
<1>3. Level(ls, p) = a - b
  BY DEF Level
<1> HIDE DEF a, b
<1> QED
  BY <1>1, <1>2, <1>3

-----------------------------------------------------------------------------
(* What is true of each reader *)

OnceFirst(ls) == ls # <<>> /\ ls[1].k = "once"

\* Past a first line #pragma once, the reader has noted it.
NotesOnce(ls, rd) ==
  /\ rd.pos = 1 => rd.conds = <<>>
  /\ rd.pos > 1 /\ OnceFirst(ls) => rd.once

\* A reader that a private module fragment stopped.
Stopped(ls, rd) == rd.pos = Len(ls) + 1 /\ ~rd.miValid /\ ~Static(ls)

\* The #if stack is as deep as the nesting of the lines read.
Tracks(ls, rd) ==
  /\ rd.pos <= Len(ls) + 1
  /\ Len(rd.conds) = Level(ls, rd.pos)
  /\ \A j \in 1 .. rd.pos : Level(ls, j) >= 0

\* Line g opens a group that G guards, with nothing before it, and line e is
\* in that group or the conditional that ends it.
GuardOpens(ls, g, e, G) ==
  /\ g \in 1 .. e - 1
  /\ ls[g].k \in {"ifndef", "ifnot", "ifnotor"} /\ ls[g].x = G
  /\ Level(ls, g) = 0
  /\ \A j \in 1 .. g - 1 : ~Effect(ls[j])
  /\ \A j \in g + 1 .. e - 1 :
       /\ Level(ls, j) >= 1
       /\ ls[j].k \in Conditionals => ChainLevel(ls, j) # 0

\* Before line p nothing stands outside one group that G guards.
GuardCloses(ls, p, G) ==
  \E e \in 1 .. p - 1 :
    /\ \E g \in 1 .. e - 1 : GuardOpens(ls, g, e, G)
    /\ \A j \in e .. p - 1 : ~Effect(ls[j])

\* miValid, pendingGuard and the outermost frame's guard mean what they say.
NotesGuard(ls, rd) ==
  /\ rd.conds = <<>> /\ rd.miValid /\ rd.pendingGuard = None =>
       \A j \in 1 .. rd.pos - 1 : ~Effect(ls[j])
  /\ rd.conds = <<>> /\ rd.miValid /\ rd.pendingGuard # None =>
       GuardCloses(ls, rd.pos, rd.pendingGuard)
  /\ rd.conds # <<>> /\ rd.conds[1].guard # None =>
       /\ ~rd.conds[1].sawElse
       /\ \E g \in 1 .. rd.pos - 1 : GuardOpens(ls, g, rd.pos, rd.conds[1].guard)

\* The top reader, the file it reads and its line.
LEMMA TopLine ==
  ASSUME WalkInv, More
  PROVE  /\ r \in Readers /\ r.conds \in Seq(Conds) /\ r.pos \in Nat \ {0}
         /\ src[r.file] \in Seq(Lines)
         /\ r.pos \in DOMAIN src[r.file] /\ r.pos <= Len(src[r.file])
         /\ line = src[r.file][r.pos]
         /\ Len(r.conds) \in Nat /\ (r.conds = <<>> <=> Len(r.conds) = 0)
         /\ Len(src[r.file]) \in Nat /\ DOMAIN src[r.file] = 1 .. Len(src[r.file])
<1>1. r \in Readers /\ r.pos <= Len(src[r.file])
  BY Top DEF More
<1>2. r.conds \in Seq(Conds) /\ r.pos \in Nat \ {0} /\ r.file \in Files \cup {Main}
  BY <1>1 DEF Readers
<1>3. src[r.file] \in Seq(Lines)
  BY <1>2 DEF WalkInv, OthersOK
<1>4. r.pos \in DOMAIN src[r.file]
  BY <1>1, <1>2, <1>3
<1>5. /\ Len(r.conds) \in Nat /\ (r.conds = <<>> <=> Len(r.conds) = 0)
      /\ Len(src[r.file]) \in Nat /\ DOMAIN src[r.file] = 1 .. Len(src[r.file])
  BY <1>2, <1>3
<1> QED
  BY <1>1, <1>2, <1>3, <1>4, <1>5, Zenon DEF line

\* A first line #pragma once is noted.
LEMMA OnceStep ==
  ASSUME WalkInv, NEW q, Moves(q), NotesOnce(src[r.file], r)
  PROVE  NotesOnce(src[r.file], q)
<1> DEFINE ls == src[r.file]
<1>1. /\ r \in Readers /\ r.conds \in Seq(Conds) /\ r.pos \in Nat \ {0} /\ ls \in Seq(Lines)
      /\ r.pos <= Len(ls) /\ line = ls[r.pos]
  BY TopLine DEF Moves
<1>2. q.pos > 1 /\ q.pos # 1
  <2>1. q.pos = r.pos + 1 \/ q.pos = Len(ls) + 1
    BY Zenon DEF Moves, Opened, Turned, Closed, Misplaced, Passed
  <2> QED
    BY <1>1, <2>1
<1>3. ASSUME OnceFirst(ls) PROVE q.once
  <2>1. CASE r.pos > 1
    <3>1. r.once
      BY <1>3, <2>1 DEF NotesOnce
    <3> QED
      BY <3>1, Zenon DEF Moves, Opened, Turned, Closed, Misplaced, Passed
  <2>2. CASE r.pos = 1
    <3>1. line.k = "once" /\ r.conds = <<>>
      BY <1>1, <1>3, <2>2 DEF OnceFirst, NotesOnce
    <3>2. live(r)
      BY <3>1 DEF live
    <3>3. line.k \notin Conditionals /\ line.k \notin Openers
      BY <3>1 DEF Conditionals, Openers
    <3>4. Passed(q)
      BY <3>1, <3>3, Zenon DEF Moves, Opened, Turned, Closed, Misplaced
    <3> QED
      BY <3>1, <3>2, <3>4, Zenon DEF Passed
  <2> QED
    BY <1>1, <2>1, <2>2
<1> QED
  BY <1>2, <1>3 DEF NotesOnce

\* The #if stack keeps to the nesting of the lines.
LEMMA TracksStep ==
  ASSUME WalkInv, NEW q, Moves(q), WellFormed(src[r.file]), Tracks(src[r.file], r)
  PROVE  \/ Stopped(src[r.file], q)
         \/ q.pos = r.pos + 1 /\ Tracks(src[r.file], q)
<1> DEFINE ls == src[r.file]
           p == r.pos
           n == Len(r.conds)
<1>1. /\ r.conds \in Seq(Conds) /\ p \in Nat \ {0} /\ ls \in Seq(Lines)
      /\ p \in DOMAIN ls /\ p <= Len(ls) /\ line = ls[p] /\ n \in Nat /\ Len(ls) \in Nat
      /\ r.conds = <<>> <=> n = 0
  BY TopLine, Zenon DEF Moves
<1>2. n = Level(ls, p) /\ \A j \in 1 .. p : Level(ls, j) >= 0
  BY Zenon DEF Tracks
<1>3. /\ line.k \in Openers => Level(ls, p + 1) = n + 1
      /\ line.k = "endif" => Level(ls, p + 1) = n - 1
      /\ line.k \notin Openers \cup {"endif"} => Level(ls, p + 1) = n
  BY <1>1, <1>2, LevelStep, Zenon
<1>4. line.k \in Conditionals \ Openers => r.conds # <<>>
  <2>1. line.k \in Conditionals \ Openers => Level(ls, p) > 0
    BY <1>1, InsideChain, Zenon
  <2> QED
    BY <1>1, <1>2, <2>1, Counting, Zenon
<1> HIDE DEF ls, p, n
<1>5. ASSUME q.pos = p + 1, Len(q.conds) = Level(ls, p + 1), Len(q.conds) \in Nat
      PROVE  Tracks(ls, q)
  <2>1. \A j \in 1 .. p + 1 : j = p + 1 \/ j \in 1 .. p
    BY <1>1, NextLine, Zenon
  <2>2. Level(ls, p + 1) >= 0
    BY <1>5, Counting, Zenon
  <2>3. \A j \in 1 .. p + 1 : Level(ls, j) >= 0
    BY <1>2, <2>1, <2>2, Zenon
  <2>4. p + 1 <= Len(ls) + 1
    BY <1>1, NextLine, Zenon
  <2> QED
    BY <1>5, <2>3, <2>4, Zenon DEF Tracks
<1>6. CASE Opened(q)
  <2>1. Len(q.conds) = n + 1 /\ q.pos = p + 1
    <3>1. PICK c \in Conds : r.conds \in Seq(Conds) /\ q.conds = Append(r.conds, c)
      BY <1>1, <1>6, ZenonT(40) DEF Opened
    <3>2. Len(q.conds) = n + 1
      BY <3>1 DEF n
    <3> QED
      BY <1>6, <3>2, Zenon DEF Opened, p
  <2>2. line.k \in Openers /\ n + 1 \in Nat
    BY <1>1, <1>6, Counting, ZenonT(40) DEF Opened
  <2> QED
    BY <1>3, <1>5, <2>1, <2>2, Zenon DEF ls, p
<1>7. CASE Turned(q)
  <2>1. Len(q.conds) = n /\ q.pos = p + 1
    BY <1>1, <1>7, FrameReplaced, ZenonT(40) DEF Turned, n, p
  <2>2. line.k \notin Openers \cup {"endif"}
    BY <1>7, Zenon DEF Turned, Openers
  <2> QED
    BY <1>1, <1>3, <1>5, <2>1, <2>2, ZenonT(40) DEF ls, p
<1>8. CASE Closed(q)
  <2>1. Len(q.conds) = n - 1 /\ q.pos = p + 1 /\ n - 1 \in Nat
    BY <1>1, <1>8, FrameGone, Zenon DEF Closed, n, p
  <2> QED
    BY <1>1, <1>3, <1>5, <1>8, <2>1, ZenonT(40) DEF Closed, ls, p
<1>9. CASE Misplaced(q)
  <2>1. Len(q.conds) = n /\ q.pos = p + 1
    BY <1>1, <1>9, Zenon DEF Misplaced, n, p
  <2>2. line.k \notin Openers \cup {"endif"}
    BY <1>4, <1>9, Zenon DEF Misplaced
  <2> QED
    BY <1>1, <1>3, <1>5, <2>1, <2>2, Zenon DEF ls, p
<1>10. CASE Passed(q)
  <2>1. line.k \notin Openers \cup {"endif"} /\ Len(q.conds) = n
    BY <1>1, <1>10, Zenon DEF Passed, Conditionals, n
  <2>2. CASE q.pos = p + 1
    BY <1>1, <1>3, <1>5, <2>1, <2>2, Zenon DEF ls, p
  <2>3. CASE line.k = "private" /\ q.pos = Len(ls) + 1 /\ ~q.miValid
    <3>1. ~Static(ls)
      BY <1>1, <2>3 DEF Static, Conditionals, Openers
    <3> QED
      BY <2>3, <3>1 DEF Stopped, ls
  <2> QED
    BY <1>10, <2>2, <2>3, Zenon DEF Passed, ls, p
<1> QED
  BY <1>6, <1>7, <1>8, <1>9, <1>10, Zenon DEF Moves

\* A line of the guarded group.
LEMMA GuardOpensStep ==
  ASSUME NEW ls, NEW g, NEW p \in Nat, NEW G, GuardOpens(ls, g, p, G),
         Level(ls, p) >= 1, ls[p].k \in Conditionals => ChainLevel(ls, p) # 0
  PROVE  g \in 1 .. p + 1 - 1 /\ GuardOpens(ls, g, p + 1, G)
<1>1. g \in 1 .. p + 1 - 1
  BY DEF GuardOpens
<1>2. \A j \in g + 1 .. p + 1 - 1 : j = p \/ j \in g + 1 .. p - 1
  BY DEF GuardOpens
<1> QED
  BY <1>1, <1>2 DEF GuardOpens

\* A line after it.
LEMMA GuardClosesStep ==
  ASSUME NEW ls, NEW p \in Nat, NEW G, GuardCloses(ls, p, G), ~Effect(ls[p])
  PROVE  GuardCloses(ls, p + 1, G)
<1>1. PICK e \in 1 .. p - 1 :
        /\ \E g \in 1 .. e - 1 : GuardOpens(ls, g, e, G)
        /\ \A j \in e .. p - 1 : ~Effect(ls[j])
  BY DEF GuardCloses
<1>2. e \in 1 .. p + 1 - 1 /\ \A j \in e .. p + 1 - 1 : j = p \/ j \in e .. p - 1
  OBVIOUS
<1>3. \A j \in e .. p + 1 - 1 : ~Effect(ls[j])
  BY <1>1, <1>2
<1> QED
  BY <1>1, <1>2, <1>3 DEF GuardCloses

\* The idiom has one outermost group.
LEMMA OneGroup ==
  ASSUME NEW ls \in Seq(Lines), GuardIdiom(ls),
         NEW g \in DOMAIN ls, NEW h \in DOMAIN ls,
         ls[g].k \in Openers, ls[h].k \in Openers, Level(ls, g) = 0, Level(ls, h) = 0
  PROVE  g = h
<1> DEFINE top == {i \in DOMAIN ls : ls[i].k \in Openers /\ Level(ls, i) = 0}
<1>1. Cardinality(top) <= 1
  BY DEF GuardIdiom
<1>2. g \in top /\ h \in top
  OBVIOUS
<1>3. IsFiniteSet(top) /\ Cardinality(top) \in Nat
  <2>1. DOMAIN ls = 1 .. Len(ls) /\ Len(ls) \in Nat
    OBVIOUS
  <2>2. IsFiniteSet(DOMAIN ls)
    BY <2>1, FS_Interval
  <2>3. top \subseteq DOMAIN ls
    OBVIOUS
  <2> HIDE DEF top
  <2> QED
    BY <2>2, <2>3, FS_Subset, FS_CardinalityType
<1> HIDE DEF top
<1>4. SUFFICES ASSUME g # h PROVE FALSE
  OBVIOUS
<1>5. {g, h} \subseteq top /\ IsFiniteSet({g, h}) /\ Cardinality({g, h}) = 2
  <2>1. IsFiniteSet({g}) /\ Cardinality({g}) = 1 /\ h \notin {g}
    BY <1>4, FS_Singleton, Zenon
  <2>2. IsFiniteSet({g} \cup {h}) /\ Cardinality({g} \cup {h}) = Cardinality({g}) + 1
    BY <2>1, FS_AddElement, Zenon
  <2>3. {g} \cup {h} = {g, h}
    OBVIOUS
  <2>4. {g, h} \subseteq top
    BY <1>2
  <2>5. 1 + 1 = 2
    OBVIOUS
  <2> QED
    BY <2>1, <2>2, <2>3, <2>4, <2>5, Zenon
<1>6. Cardinality({g, h}) <= Cardinality(top)
  BY <1>3, <1>5, FS_Subset, Zenon
<1> QED
  BY <1>1, <1>3, <1>5, <1>6

\* A guard's opener on the line just read, with nothing of effect above it.
LEMMA OpensHere ==
  ASSUME NEW ls, NEW p \in Nat \ {0},
         ls[p].k \in {"ifndef", "ifnot", "ifnotor"}, Level(ls, p) = 0,
         \A j \in 1 .. p - 1 : ~Effect(ls[j])
  PROVE  GuardOpens(ls, p, p + 1, ls[p].x)
BY DEF GuardOpens

\* A guard's group closed by the line just read.
LEMMA ClosesHere ==
  ASSUME NEW ls, NEW p \in Nat \ {0}, NEW G,
         \E g \in 1 .. p - 1 : GuardOpens(ls, g, p, G), ~Effect(ls[p])
  PROVE  GuardCloses(ls, p + 1, G)
<1>1. p \in 1 .. p + 1 - 1 /\ \A j \in p .. p + 1 - 1 : j = p
  OBVIOUS
<1> QED
  BY <1>1 DEF GuardCloses

\* What miValid and the guards claim stays true, in a file of the idiom.
LEMMA GuardStep ==
  ASSUME WalkInv, NEW q, Moves(q), GuardIdiom(src[r.file]), q.pos = r.pos + 1,
         Tracks(src[r.file], r), NotesGuard(src[r.file], r)
  PROVE  NotesGuard(src[r.file], q)
<1> DEFINE ls == src[r.file]
           p == r.pos
           n == Len(r.conds)
<1>1. /\ r.conds \in Seq(Conds) /\ p \in Nat \ {0} /\ ls \in Seq(Lines)
      /\ p \in DOMAIN ls /\ p <= Len(ls) /\ line = ls[p] /\ n \in Nat
      /\ (r.conds = <<>> <=> n = 0) /\ DOMAIN ls = 1 .. Len(ls) /\ Len(ls) \in Nat
  BY TopLine, Zenon DEF Moves
<1>2. n = Level(ls, p) /\ NotesGuard(ls, r)
  BY Zenon DEF Tracks
<1>3. line.k \in Conditionals \ Openers => r.conds # <<>>
  <2>1. WellFormed(ls)
    BY Zenon DEF GuardIdiom
  <2>2. line.k \in Conditionals \ Openers => Level(ls, p) > 0
    BY <1>1, <2>1, InsideChain, Zenon
  <2> QED
    BY <1>1, <1>2, <2>2, Counting, Zenon
<1>4. q.pos = p + 1 /\ GuardIdiom(ls)
  BY Zenon
<1>5. (line.k \in Openers => ChainLevel(ls, p) = n) /\ (line.k \notin Openers => ChainLevel(ls, p) = n - 1)
  BY <1>1, <1>2, Zenon DEF ChainLevel
<1> SUFFICES NotesGuard(ls, q)
  BY Zenon
<1> HIDE DEF ls, p, n
\* The outermost frame stays, and the line is not of its chain.
<1>6. ASSUME r.conds # <<>>, q.conds # <<>>, q.conds[1] = r.conds[1],
             ls[p].k \in Conditionals => ChainLevel(ls, p) # 0
      PROVE  NotesGuard(ls, q)
  <2>1. ASSUME q.conds[1].guard # None
        PROVE  /\ ~q.conds[1].sawElse
               /\ \E g \in 1 .. q.pos - 1 : GuardOpens(ls, g, q.pos, q.conds[1].guard)
    <3>1. /\ ~r.conds[1].sawElse
          /\ \E g \in 1 .. p - 1 : GuardOpens(ls, g, p, r.conds[1].guard)
      BY <1>2, <1>6, <2>1, ZenonT(40) DEF NotesGuard, p
    <3>2. PICK g \in 1 .. p - 1 : GuardOpens(ls, g, p, r.conds[1].guard)
      BY <3>1
    <3>3. Level(ls, p) >= 1
      BY <1>1, <1>2, <1>6, Counting, Zenon
    <3>4. g \in 1 .. p + 1 - 1 /\ GuardOpens(ls, g, p + 1, r.conds[1].guard)
      BY <1>1, <1>6, <3>2, <3>3, GuardOpensStep, ZenonT(40)
    <3>5. g \in 1 .. q.pos - 1
      BY <1>1, <1>4, <3>4
    <3>6. GuardOpens(ls, g, q.pos, q.conds[1].guard)
      BY <1>4, <1>6, <3>4, Zenon
    <3> QED
      BY <1>6, <3>1, <3>5, <3>6, ZenonT(30)
  <2> QED
    BY <1>6, <2>1, ZenonT(40) DEF NotesGuard
<1>7. CASE Opened(q)
  <2>1. PICK c \in Conds :
          /\ q.conds = Append(r.conds, c) /\ ~c.sawElse
          /\ c.guard # None =>
               /\ line.k \in {"ifndef", "ifnot", "ifnotor"} /\ c.guard = line.x
               /\ r.miValid /\ r.conds = <<>>
    BY <1>7, Zenon DEF Opened
  <2>2. /\ q.conds # <<>>
        /\ r.conds = <<>> => q.conds[1] = c
        /\ r.conds # <<>> => q.conds[1] = r.conds[1]
    <3>1. r.conds \in Seq(Conds) /\ q.conds = Append(r.conds, c)
      BY <1>1, <2>1, Zenon
    <3> QED
      BY <3>1
  <2>3. CASE r.conds # <<>>
    <3>1. ChainLevel(ls, p) # 0
      BY <1>1, <1>5, <1>7, <2>3, Zenon DEF Opened
    <3> QED
      BY <1>6, <2>3, <2>2, <3>1, Zenon
  <2>4. CASE r.conds = <<>>
    <3>1. q.conds # <<>> /\ q.conds[1] = c
      BY <2>4, <2>2, Zenon
    <3>2. ASSUME c.guard # None
          PROVE  GuardOpens(ls, p, p + 1, c.guard)
      <4>1. /\ line.k \in {"ifndef", "ifnot", "ifnotor"} /\ c.guard = line.x /\ r.miValid
            /\ Level(ls, p) = 0 /\ line.k \in Openers
        BY <1>1, <1>2, <1>7, <2>1, <2>4, <3>2, Zenon DEF Opened
      <4>2. r.pendingGuard = None
        <5> SUFFICES ASSUME r.pendingGuard # None PROVE FALSE
          BY Zenon
        <5>1. GuardCloses(ls, p, r.pendingGuard)
          BY <1>2, <2>4, <4>1, Zenon DEF NotesGuard, p
        <5>2. PICK e \in 1 .. p - 1 : \E g \in 1 .. e - 1 : GuardOpens(ls, g, e, r.pendingGuard)
          BY <5>1 DEF GuardCloses
        <5>3. PICK g \in 1 .. e - 1 : GuardOpens(ls, g, e, r.pendingGuard)
          BY <5>2, Zenon
        <5>4. g \in DOMAIN ls /\ g # p /\ ls[g].k \in Openers /\ Level(ls, g) = 0
          <6>1. /\ g \in 1 .. e - 1 /\ Level(ls, g) = 0
                /\ ls[g].k \in {"ifndef", "ifnot", "ifnotor"}
            BY <5>3, Zenon DEF GuardOpens
          <6>2. g \in DOMAIN ls /\ g # p
            BY <1>1, <6>1
          <6> QED
            BY <6>1, <6>2, Zenon DEF Openers
        <5> QED
          BY <1>1, <1>4, <4>1, <5>4, OneGroup, Zenon
      <4>3. \A j \in 1 .. p - 1 : ~Effect(ls[j])
        BY <1>2, <2>4, <4>1, <4>2, Zenon DEF NotesGuard, p
      <4>4. ls[p].k \in {"ifndef", "ifnot", "ifnotor"} /\ ls[p].x = c.guard /\ Level(ls, p) = 0
        BY <1>1, <4>1, Zenon
      <4>5. GuardOpens(ls, p, p + 1, ls[p].x)
        BY <1>1, <4>3, <4>4, OpensHere
      <4> QED
        BY <4>4, <4>5, Zenon
    <3>3. ASSUME c.guard # None
          PROVE  \E g \in 1 .. q.pos - 1 : GuardOpens(ls, g, q.pos, c.guard)
      <4>1. p \in 1 .. q.pos - 1
        BY <1>1, <1>4
      <4>2. GuardOpens(ls, p, q.pos, c.guard)
        BY <1>4, <3>2, <3>3, Zenon
      <4> QED
        BY <4>1, <4>2, Zenon
    <3> QED
      BY <2>1, <3>1, <3>3, ZenonT(40) DEF NotesGuard
  <2> QED
    BY <2>3, <2>4, Zenon
<1>8. CASE Turned(q)
  <2>1. PICK c \in Conds : q.conds = [r.conds EXCEPT ![n] = c] /\ c.guard = None
    BY <1>8, Zenon DEF Turned, n
  <2>2. r.conds # <<>> /\ q.conds # <<>>
    BY <1>1, <1>8, <2>1, FrameReplaced, Zenon DEF Turned, n
  <2>3. CASE n = 1
    <3>1. q.conds[1].guard = None
      BY <1>1, <2>1, <2>2, <2>3, FrameReplaced, Zenon DEF n
    <3> QED
      BY <2>2, <3>1, Zenon DEF NotesGuard
  <2>4. CASE n # 1
    <3>1. q.conds[1] = r.conds[1]
      BY <1>1, <2>1, <2>2, <2>4, FrameReplaced, Zenon DEF n
    <3>2. line.k \notin Openers
      BY <1>8, Zenon DEF Turned, Openers
    <3>3. ChainLevel(ls, p) # 0
      BY <1>1, <1>5, Counting, <2>4, <3>2, Zenon
    <3> QED
      BY <1>6, <2>2, <3>1, <3>3, Zenon
  <2> QED
    BY <2>3, <2>4, Zenon
<1>9. CASE Closed(q)
  <2>1. r.conds # <<>> /\ q.conds = SubSeq(r.conds, 1, n - 1) /\ line.k = "endif"
    BY <1>9, Zenon DEF Closed, n
  <2>2. CASE n = 1
    <3>1. q.conds = <<>>
      BY <1>1, <2>1, <2>2, FrameGone, Zenon DEF n
    <3>2. /\ q.pendingGuard = r.conds[1].guard
          /\ q.miValid <=> r.conds[1].guard # None
      BY <1>9, <2>2 DEF Closed, topCond, n
    <3>3. ASSUME r.conds[1].guard # None
          PROVE  GuardCloses(ls, p + 1, r.conds[1].guard)
      <4>1. \E g \in 1 .. p - 1 : GuardOpens(ls, g, p, r.conds[1].guard)
        BY <1>2, <2>1, <3>3, Zenon DEF NotesGuard, p
      <4>2. ~Effect(ls[p])
        BY <1>1, <2>1 DEF Effect, Conditionals
      <4> QED
        BY <1>1, <4>1, <4>2, ClosesHere, Zenon
    <3> QED
      BY <1>4, <3>1, <3>2, <3>3, Zenon DEF NotesGuard
  <2>3. CASE n # 1
    <3>1. q.conds # <<>> /\ q.conds[1] = r.conds[1]
      BY <1>1, <2>1, <2>3, FrameGone, Zenon DEF n
    <3>2. "endif" \notin Openers
      BY Zenon DEF Openers
    <3>3. ChainLevel(ls, p) # 0
      BY <1>1, <1>5, Counting, <2>1, <2>3, <3>2, Zenon
    <3> QED
      BY <1>6, <2>1, <3>1, <3>3, Zenon
  <2> QED
    BY <2>2, <2>3, Zenon
<1>10. CASE Misplaced(q)
  <2>1. q.conds = r.conds /\ r.conds # <<>> /\ line.k \notin Openers /\ r.conds[n].sawElse
    BY <1>3, <1>10, Zenon DEF Misplaced, topCond, n
  <2>2. CASE n = 1
    <3>1. q.conds[1].guard = None
      BY <1>2, <2>1, <2>2, Zenon DEF NotesGuard
    <3> QED
      BY <2>1, <3>1, Zenon DEF NotesGuard
  <2>3. CASE n # 1
    <3>1. ChainLevel(ls, p) # 0
      BY <1>1, <1>5, Counting, <2>1, <2>3, Zenon
    <3> QED
      BY <1>6, <2>1, <3>1, Zenon
  <2> QED
    BY <2>2, <2>3, Zenon
<1>11. CASE Passed(q)
  <2>1. /\ line.k \notin Conditionals /\ q.conds = r.conds /\ q.pendingGuard = r.pendingGuard
        /\ q.miValid => r.miValid /\ ~(Effect(line) /\ live(r))
    BY <1>11, Zenon DEF Passed
  <2>2. CASE r.conds # <<>>
    BY <1>1, <1>6, <2>1, <2>2, Zenon
  <2>3. CASE r.conds = <<>>
    <3>1. live(r)
      BY <2>3 DEF live
    <3>2. ASSUME q.miValid PROVE r.miValid /\ ~Effect(ls[p])
      BY <1>1, <2>1, <3>1, <3>2, Zenon
    <3>3. ASSUME q.miValid, r.pendingGuard = None
          PROVE  \A j \in 1 .. p + 1 - 1 : ~Effect(ls[j])
      <4>1. \A j \in 1 .. p - 1 : ~Effect(ls[j])
        BY <1>2, <2>3, <3>2, <3>3, Zenon DEF NotesGuard, p
      <4>2. \A j \in 1 .. p + 1 - 1 : j = p \/ j \in 1 .. p - 1
        BY <1>1, NextLine, Zenon
      <4> QED
        BY <3>2, <3>3, <4>1, <4>2, Zenon
    <3>4. ASSUME q.miValid, r.pendingGuard # None
          PROVE  GuardCloses(ls, p + 1, r.pendingGuard)
      <4>1. GuardCloses(ls, p, r.pendingGuard)
        BY <1>2, <2>3, <3>2, <3>4, Zenon DEF NotesGuard, p
      <4> QED
        BY <1>1, <3>2, <3>4, <4>1, GuardClosesStep, Zenon
    <3>5. q.conds = <<>> /\ q.pendingGuard = r.pendingGuard
      BY <2>1, <2>3, Zenon
    <3>6. q.miValid /\ q.pendingGuard = None => \A j \in 1 .. q.pos - 1 : ~Effect(ls[j])
      BY <1>1, <1>4, <3>3, <3>5
    <3>7. q.miValid /\ q.pendingGuard # None => GuardCloses(ls, q.pos, q.pendingGuard)
      BY <1>4, <3>4, <3>5
    <3> QED
      BY <3>5, <3>6, <3>7, Zenon DEF NotesGuard
  <2> QED
    BY <2>2, <2>3, Zenon
<1> QED
  BY <1>7, <1>8, <1>9, <1>10, <1>11, Zenon DEF Moves
=============================================================================
