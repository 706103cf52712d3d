---------------------------- MODULE IncludeWalk ----------------------------
(***************************************************************************)
(* Phase 4's walk of one translation unit: the stack of files being read,   *)
(* the #if stack of each, the multiple-include optimization (include       *)
(* guards, #pragma once, #import) and module imports.                       *)
(* preprocessor/preprocessor.go, directive.go, condition.go, include.go,    *)
(* module.go.                                                              *)
(*                                                                         *)
(* A file is a sequence of logical lines [k |-> kind, x |-> operand].       *)
(* Macros are abstracted to whether they are defined, text to the place it  *)
(* was written at.  `#if !defined G` is kind "ifnot", `#if !defined G || 1` *)
(* is "ifnotor", `#if 0` and `#if 1` are "if", and "bad" is any directive   *)
(* that only reports an error.                                             *)
(***************************************************************************)
EXTENDS Integers, Sequences, FiniteSets

CONSTANTS Files,            \* headers and module interface units
          Macros,           \* macro names
          Modules,          \* module names the configuration knows
          UnitOf,           \* module -> its interface unit's file
          Main,             \* the primary source file
          Programs,         \* the contents to walk: [Files \cup {Main} -> Seq(Line)]
          PreIncludes,      \* Config.PreIncludes
          MaxIncludeDepth,  \* Config.MaxIncludeDepth
          None

Openers == {"if", "ifdef", "ifndef", "ifnot", "ifnotor"}
Conditionals == Openers \cup {"elif", "elifdef", "else", "endif"}

\* A header no mount has and a module the configuration does not know are None.
Lines ==
  [k : {"if", "elif"}, x : BOOLEAN]
    \cup [k : {"ifdef", "ifndef", "ifnot", "ifnotor", "elifdef", "define", "undef",
               "push", "pop"}, x : Macros]
    \cup [k : {"include", "import"}, x : Files \cup {None}]
    \cup [k : {"module"}, x : Modules \cup {None}]
    \cup [k : {"else", "endif", "text", "null", "once", "private", "bad"}, x : {None}]

ASSUME DepthAssumption == MaxIncludeDepth \in Nat \ {0}
ASSUME ModulesAssumption == IsFiniteSet(Modules) /\ UnitOf \in [Modules -> Files]
ASSUME NoneAssumption == None \notin Files \cup Modules \cup Macros \cup {Main}
ASSUME MainAssumption == Main \notin Files
ASSUME PreAssumption == PreIncludes \in Seq(Files \cup {None})
ASSUME ProgramsAssumption ==
  \A p \in Programs : p \in [Files \cup {Main} -> Seq(Lines)]

VARIABLES src,        \* the contents of every file
          pre,        \* PreIncludes not yet read
          stack,      \* Preprocessor.stack
          macros,     \* the names defined now
          pushed,     \* Preprocessor.pushedMacros
          cache,      \* Preprocessor.files: what is known of each file
          imported,   \* Preprocessor.imported: modules read
          out,        \* Preprocessor.out: where each kept line was written
          errs,       \* the errors reported: <<what, file, line>>
          said        \* history: files in which #pragma once was carried out

vars == <<src, pre, stack, macros, pushed, cache, imported, out,
          errs, said>>

NewReader(f, md) ==
  [file |-> f, pos |-> 1, conds |-> <<>>, miValid |-> TRUE, sawToken |-> FALSE,
   guardFound |-> None, pendingGuard |-> None, once |-> FALSE, module |-> md]

NewCached == [done |-> FALSE, guard |-> None, once |-> FALSE, imported |-> FALSE]

r == stack[Len(stack)]
line == src[r.file][r.pos]
at == <<r.file, r.pos>>
MoreShort == stack # <<>> /\ r.pos < Len(src[r.file]) /\ (pre = <<>> \/ Len(stack) > 1)
More == stack # <<>> /\ r.pos <= Len(src[r.file]) /\ (pre = <<>> \/ Len(stack) > 1)

live(rd) == \A i \in DOMAIN rd.conds : rd.conds[i].active
NeverSkipping == FALSE
parentSkipping == \E i \in 1 .. Len(r.conds) - 1 : ~r.conds[i].active
topCond == r.conds[Len(r.conds)]

\* What the operand of a conditional evaluates to (Eval, definedOperand).
Holds(l) ==
  CASE l.k \in {"if", "elif"} -> l.x
    [] l.k \in {"ifdef", "elifdef"} -> l.x \in macros
    [] l.k \in {"ifndef", "ifnot"} -> l.x \notin macros
    [] l.k = "ifnotor" -> TRUE

\* The reader after its current line, as rd leaves it; the line was taken
\* before it was executed.
Advance(rd) == [rd EXCEPT !.pos = @ + 1]
Step(rd) == stack' = [stack EXCEPT ![Len(stack)] = Advance(rd)]
Cleared(rd) == [rd EXCEPT !.miValid = FALSE]
WithTop(c) == [Cleared(r) EXCEPT !.conds = [r.conds EXCEPT ![Len(r.conds)] = c]]
Report(what) == errs' = errs \cup {<<what, at>>}

Init ==
  /\ src \in Programs
  /\ pre = PreIncludes
  /\ stack = <<NewReader(Main, None)>>
  /\ macros = {}
  /\ pushed = [n \in Macros |-> <<>>]
  /\ cache = [f \in Files |-> NewCached]
  /\ imported = {}
  /\ out = <<>>
  /\ errs = {}
  /\ said = {}

-----------------------------------------------------------------------------
(* Conditionals: condition.go *)

\* doIfdef and beginIf with noteGuardIf: a frame is pushed, dead when the
\* line stands in a skipped group; a first #ifndef or #if !defined outside
\* every other conditional is a guard candidate.
BeginIf ==
  /\ More
  /\ line.k \in Openers
  /\ LET v == live(r) /\ Holds(line)
         guard == IF /\ live(r) /\ line.k \in {"ifndef", "ifnot", "ifnotor"}
                     /\ r.miValid /\ r.conds = <<>> /\ ~r.sawToken
                  THEN line.x ELSE None
     IN  Step([r EXCEPT !.conds = Append(@,
                 [taken |-> v, active |-> v, sawElse |-> FALSE, guard |-> guard])])
  /\ UNCHANGED <<src, pre, macros, pushed, cache, imported, out, errs, said>>

\* doElif, forgetting that an earlier group was taken
DoElifAgain ==
  /\ More
  /\ line.k \in {"elif", "elifdef"}
  /\ IF r.conds = <<>> \/ topCond.sawElse
     THEN Step(Cleared(r)) /\ Report("elif")
     ELSE /\ LET v == ~parentSkipping /\ Holds(line)
             IN  Step(WithTop([taken |-> topCond.taken \/ v, active |-> v,
                               sawElse |-> FALSE, guard |-> None]))
          /\ UNCHANGED errs
  /\ UNCHANGED <<src, pre, macros, pushed, cache, imported, out,
                 said>>

\* doElif
DoElif ==
  /\ More
  /\ line.k \in {"elif", "elifdef"}
  /\ IF r.conds = <<>> \/ topCond.sawElse
     THEN Step(Cleared(r)) /\ Report("elif")
     ELSE /\ LET v == ~topCond.taken /\ ~parentSkipping /\ Holds(line)
             IN  Step(WithTop([taken |-> topCond.taken \/ v, active |-> v,
                               sawElse |-> FALSE, guard |-> None]))
          /\ UNCHANGED errs
  /\ UNCHANGED <<src, pre, macros, pushed, cache, imported, out,
                 said>>

\* doElse
DoElse ==
  /\ More
  /\ line.k = "else"
  /\ IF r.conds = <<>> \/ topCond.sawElse
     THEN Step(Cleared(r)) /\ Report("else")
     ELSE /\ LET v == ~topCond.taken /\ ~parentSkipping
             IN  Step(WithTop([taken |-> topCond.taken \/ v, active |-> v,
                               sawElse |-> TRUE, guard |-> None]))
          /\ UNCHANGED errs
  /\ UNCHANGED <<src, pre, macros, pushed, cache, imported, out,
                 said>>

\* doEndif: closing the outermost frame decides the pending guard.
DoEndif ==
  /\ More
  /\ line.k = "endif"
  /\ IF r.conds = <<>>
     THEN Step(Cleared(r)) /\ Report("endif")
     ELSE /\ LET popped == [Cleared(r) EXCEPT !.conds = SubSeq(@, 1, Len(@) - 1)]
             IN  Step(IF Len(r.conds) > 1 THEN popped
                       ELSE [popped EXCEPT !.pendingGuard = topCond.guard,
                                           !.miValid = topCond.guard # None])
          /\ UNCHANGED errs
  /\ UNCHANGED <<src, pre, macros, pushed, cache, imported, out,
                 said>>

-----------------------------------------------------------------------------
(* Lines of a live group: run, directive.go *)

\* A text line, or any directive but a conditional, in a skipped group; and
\* the null directive anywhere.
SkipLine ==
  /\ More
  /\ \/ line.k \notin Conditionals /\ ~live(r)
     \/ line.k = "null"
  /\ Step(r)
  /\ UNCHANGED <<src, pre, macros, pushed, cache, imported, out, errs, said>>

Text ==
  /\ More
  /\ line.k = "text"
  /\ live(r)
  /\ Step([Cleared(r) EXCEPT !.sawToken = TRUE])
  /\ out' = Append(out, at)
  /\ UNCHANGED <<src, pre, macros, pushed, cache, imported,
                 errs, said>>

\* doDefine, doUndef
DefineUndef ==
  /\ More
  /\ line.k \in {"define", "undef"}
  /\ live(r)
  /\ Step(Cleared(r))
  /\ macros' = IF line.k = "define" THEN macros \cup {line.x} ELSE macros \ {line.x}
  /\ UNCHANGED <<src, pre, pushed, cache, imported, out, errs, said>>

\* pushPopMacro: the absence of a definition is saved and restored too.
PushPopMacro ==
  /\ More
  /\ line.k \in {"push", "pop"}
  /\ live(r)
  /\ Step(Cleared(r))
  /\ LET n == line.x
         saved == pushed[n][Len(pushed[n])]
     IN  CASE line.k = "push" ->
                /\ pushed' = [pushed EXCEPT ![n] = Append(@, n \in macros)]
                /\ UNCHANGED macros
           [] line.k = "pop" /\ pushed[n] = <<>> -> UNCHANGED <<pushed, macros>>
           [] OTHER ->
                /\ pushed' = [pushed EXCEPT ![n] = SubSeq(@, 1, Len(@) - 1)]
                /\ macros' = IF saved THEN macros \cup {n} ELSE macros \ {n}
  /\ UNCHANGED <<src, pre, cache, imported, out, errs, said>>

\* doPragma, #pragma once
PragmaOnce ==
  /\ More
  /\ line.k = "once"
  /\ live(r)
  /\ Step([Cleared(r) EXCEPT !.once = TRUE])
  /\ said' = said \cup {r.file}
  /\ UNCHANGED <<src, pre, macros, pushed, cache, imported, out, errs>>

\* #error, an invalid directive
BadDirective ==
  /\ More
  /\ line.k = "bad"
  /\ live(r)
  /\ Step(Cleared(r))
  /\ Report("bad")
  /\ UNCHANGED <<src, pre, macros, pushed, cache, imported, out,
                 said>>

-----------------------------------------------------------------------------
(* Opening files: include.go, module.go *)

\* include returns without reading f: the multiple-include optimization, a
\* file #import read, or an #import of a file read already.
OnceGuardHolds(f) ==
  /\ cache[f].done
  /\ cache[f].once \/ (cache[f].guard # None /\ cache[f].guard \in macros)

NotReadImport(f, imp) == OnceGuardHolds(f) \/ (imp /\ cache[f].done)

NotRead(f, imp) ==
  \/ OnceGuardHolds(f)
  \/ cache[f].imported
  \/ imp /\ cache[f].done

\* readFileAs up to p.run: a new reader over the stack below.  The scanner's
\* diagnostics of the file are left out.
ReadFileAs(f, md, below) == stack' = Append(below, NewReader(f, md))

\* include, after the depth check: below is the stack the directive leaves.
IncludeFile(f, imp, below) ==
  IF f \notin Files
  THEN /\ stack' = below
       /\ Report("not found")
       /\ UNCHANGED cache
  ELSE /\ UNCHANGED errs
       /\ IF NotRead(f, imp)
          THEN stack' = below /\ UNCHANGED cache
          ELSE /\ ReadFileAs(f, None, below)
               /\ cache' = IF imp THEN [cache EXCEPT ![f].once = TRUE, ![f].imported = TRUE]
                           ELSE cache

TooDeepByOne == Len(stack) > MaxIncludeDepth
TooDeep == Len(stack) >= MaxIncludeDepth
Below == [stack EXCEPT ![Len(stack)] = Advance(Cleared(r))]

\* doInclude and doImport.  p.importing is set and cleared within doImport, so
\* it is the parameter imp here.
DoInclude ==
  /\ More
  /\ line.k \in {"include", "import"}
  /\ live(r)
  /\ IF TooDeep
     THEN /\ stack' = Below
          /\ Report("nested too deeply")
          /\ UNCHANGED cache
     ELSE IncludeFile(line.x, line.k = "import", Below)
  /\ UNCHANGED <<src, pre, macros, pushed, imported, out, said>>

\* Run: each PreInclude, before the primary file's first line.
PreInclude ==
  /\ stack # <<>>
  /\ pre # <<>>
  /\ Len(stack) = 1
  /\ IncludeFile(Head(pre), FALSE, stack)
  /\ pre' = Tail(pre)
  /\ UNCHANGED <<src, macros, pushed, imported, out, said>>

\* importModule's record of the modules read: only ones the configuration has.
ImportsNone(m) == imported
Imports(m) == IF m \in Modules THEN imported \cup {m} ELSE imported

\* moduleDirective on `import M;` with importModule: outside an imported unit
\* the directive itself is kept.
ImportModule ==
  /\ More
  /\ line.k = "module"
  /\ live(r)
  /\ LET below == [stack EXCEPT ![Len(stack)] =
                     Advance([Cleared(r) EXCEPT !.sawToken = TRUE])]
         m == line.x
     IN  /\ imported' = Imports(m)
         /\ IF m \in Modules \ imported
            THEN ReadFileAs(UnitOf[m], m, below) /\ UNCHANGED errs
            ELSE /\ stack' = below
                 /\ errs' = IF m \in imported THEN errs
                            ELSE errs \cup {<<"module not found", at>>}
  /\ out' = IF r.module = None THEN Append(out, at) ELSE out
  /\ UNCHANGED <<src, pre, macros, pushed, cache, said>>

\* moduleDirective on `module :private;`: an imported unit ends here.
PrivateFragment ==
  /\ More
  /\ line.k = "private"
  /\ live(r)
  /\ LET rd == [Cleared(r) EXCEPT !.sawToken = TRUE]
     IN  IF r.module = None
         THEN Step(rd) /\ out' = Append(out, at)
         ELSE /\ stack' = [stack EXCEPT ![Len(stack)] =
                             [rd EXCEPT !.pos = Len(src[r.file]) + 1]]
              /\ UNCHANGED out
  /\ UNCHANGED <<src, pre, macros, pushed, cache, imported,
                 errs, said>>

\* The end of run, finishConds, and what readFileAs records after it.
GuardAnyway(rd) == rd.pendingGuard
Guard(rd) == IF rd.miValid /\ rd.guardFound = None THEN rd.pendingGuard ELSE rd.guardFound

RecordWithoutOnce(c, rd) ==
  [done |-> TRUE, guard |-> rd.guardFound, once |-> c.once, imported |-> c.imported]

Record(c, rd) ==
  [done |-> TRUE, guard |-> Guard(rd), once |-> c.once \/ rd.once, imported |-> c.imported]

EndFile ==
  /\ stack # <<>>
  /\ pre = <<>> \/ Len(stack) > 1
  /\ r.pos > Len(src[r.file])
  /\ stack' = SubSeq(stack, 1, Len(stack) - 1)
  /\ errs' = IF r.conds = <<>> THEN errs ELSE errs \cup {<<"unterminated", at>>}
  /\ cache' = IF r.file \notin Files \/ cache[r.file].done THEN cache
              ELSE [cache EXCEPT ![r.file] = Record(@, r)]
  /\ UNCHANGED <<src, pre, macros, pushed, imported, out, said>>

Next ==
  \/ BeginIf \/ DoElif \/ DoElse \/ DoEndif
  \/ SkipLine \/ Text \/ DefineUndef \/ PushPopMacro \/ PragmaOnce \/ BadDirective
  \/ DoInclude \/ PreInclude \/ ImportModule \/ PrivateFragment \/ EndFile

Spec == Init /\ [][Next]_vars

\* The walk is one loop on one goroutine: it takes its next step.
FairSpec == Spec /\ WF_vars(Next)

-----------------------------------------------------------------------------
(* A reference for conditional inclusion, [cpp.cond], on whole files *)

\* The nesting level outside line i of ls.
Level(ls, i) ==
  Cardinality({j \in 1 .. i - 1 : ls[j].k \in Openers})
    - Cardinality({j \in 1 .. i - 1 : ls[j].k = "endif"})

\* The level a conditional line belongs to: that of its chain.
ChainLevel(ls, i) == IF ls[i].k \in Openers THEN Level(ls, i) ELSE Level(ls, i) - 1

Between(ls, j, i, kinds) ==
  {k \in j + 1 .. i - 1 : ls[k].k \in kinds /\ ChainLevel(ls, k) = ChainLevel(ls, j)}

\* Balanced, with at most one #else in a chain and nothing but #endif after it.
WellFormed(ls) ==
  /\ Level(ls, Len(ls) + 1) = 0
  /\ \A i \in DOMAIN ls :
       ls[i].k \in Conditionals \ Openers =>
         /\ Cardinality({j \in 1 .. i - 1 : ls[j].k \in Openers})
              > Cardinality({j \in 1 .. i - 1 : ls[j].k = "endif"})
         /\ ls[i].k # "endif" =>
              \A j \in 1 .. i - 1 :
                /\ ls[j].k = "else"
                /\ ChainLevel(ls, j) = ChainLevel(ls, i)
                => Between(ls, j, i, {"endif"}) # {}

\* The groups of line i's chain that precede it.
Earlier(ls, i) ==
  {j \in 1 .. i - 1 :
     /\ ls[j].k \in Conditionals \ {"endif"}
     /\ ChainLevel(ls, j) = ChainLevel(ls, i)
     /\ ls[i].k \notin Openers
     /\ Between(ls, j, i, Openers \cup {"endif"}) = {}}

\* A group is selected when its condition is the first of its chain to hold.
Selected(ls, i) ==
  /\ ls[i].k = "else" \/ Holds(ls[i])
  /\ \A j \in Earlier(ls, i) : ls[j].k # "else" /\ ~Holds(ls[j])

\* The conditionals whose group line i stands in.
Governing(ls, i) ==
  {j \in 1 .. i - 1 :
     /\ ls[j].k \in Conditionals \ {"endif"}
     /\ Between(ls, j, i, Conditionals) = {}
     /\ Level(ls, i) > ChainLevel(ls, j)}

\* Line i is kept when every group it stands in is selected.
Kept(ls, i) == \A j \in Governing(ls, i) : Selected(ls, j)

\* A line with an effect: anything but a conditional and the null directive.
Effect(l) == l.k \notin Conditionals \cup {"null"}

\* Reading ls while the macros are as they are would have no effect.
Inert(ls) == \A i \in DOMAIN ls : Effect(ls[i]) => ~Kept(ls, i)

\* No line of ls changes which macros are defined.
Static(ls) == \A i \in DOMAIN ls : ls[i].k \in Conditionals \cup {"null", "text"}

\* The line about to be carried out is an #include or #import that the guard
\* recorded for its file suppresses.
GuardSkips(f) ==
  /\ More
  /\ line.k \in {"include", "import"}
  /\ line.x = f
  /\ live(r)
  /\ ~TooDeep
  /\ cache[f].done /\ ~cache[f].once /\ ~cache[f].imported
  /\ cache[f].guard \in macros

\* The idiom the guard detection is written for: one guard-shaped group.
GuardIdiom(ls) ==
  LET top == {i \in DOMAIN ls : ls[i].k \in Openers /\ Level(ls, i) = 0}
  IN  /\ WellFormed(ls)
      /\ Cardinality(top) <= 1
      /\ \A i \in top : ls[i].k # "ifnotor"

-----------------------------------------------------------------------------
(* Properties *)

Conds == [taken : BOOLEAN, active : BOOLEAN, sawElse : BOOLEAN, guard : Macros \cup {None}]

Readers ==
  [file : Files \cup {Main}, pos : Nat \ {0}, conds : Seq(Conds),
   miValid : BOOLEAN, sawToken : BOOLEAN, guardFound : {None},
   pendingGuard : Macros \cup {None}, once : BOOLEAN, module : Modules \cup {None}]

\* The walk's state has the shape the Preprocessor and reader structs give it.
TypeOK ==
  /\ src \in [Files \cup {Main} -> Seq(Lines)]
  /\ pre \in Seq(Files \cup {None})
  /\ stack \in Seq(Readers)
  /\ macros \subseteq Macros
  /\ pushed \in [Macros -> Seq(BOOLEAN)]
  /\ cache \in [Files -> [done : BOOLEAN, guard : Macros \cup {None},
                          once : BOOLEAN, imported : BOOLEAN]]
  /\ imported \subseteq Modules
  /\ said \subseteq Files \cup {Main}

\* The #if stack decides every line of a well-formed file as [cpp.cond] does:
\* the reader is live at a line exactly when every group around it is the
\* first of its chain whose condition holds (beginIf, doElif, doElse, doEndif).
KeepsWhatIsSelected ==
  More /\ WellFormed(src[r.file]) /\ Static(src[r.file])
    => (live(r) <=> Kept(src[r.file], r.pos))

NestedConds(cs) == \A j, k \in DOMAIN cs : j < k /\ cs[k].active => cs[j].active

\* A conditional in a skipped group never has an active group of its own,
\* whatever #elif and #else do to it, in any file on the stack.
NoActiveInDead == \A i \in DOMAIN stack : NestedConds(stack[i].conds)

\* A header in the include-guard idiom that is not opened again because its
\* guard is defined would have had no effect (include, readFileAs).
GuardedHeaderIsInert ==
  \A f \in Files : GuardSkips(f) /\ GuardIdiom(src[f]) => Inert(src[f])

\* "a file whose entire contents sit inside #ifndef GUARD ... #endif, with
\* nothing outside, need not be opened again while GUARD is defined": any
\* well-formed header skipped for its guard would have had no effect.
SkippedHeaderIsInert ==
  \A f \in Files : GuardSkips(f) /\ WellFormed(src[f]) => Inert(src[f])

\* An #include or #import step that starts reading f.
Reads(f) ==
  /\ Len(stack') > Len(stack)
  /\ stack'[Len(stack')].file = f
  /\ stack'[Len(stack')].module = None

\* "A file #import read is not read again, by either directive, even while
\* it is still being read."
ImportReadsOnce ==
  [][\A f \in Files : cache[f].imported => ~Reads(f)]_vars

\* "once is set when the file said #pragma once while it was read ... nothing the
\* program does afterwards withdraws the request": a file that begins with
\* #pragma once is not read again after a read of it, whatever it includes.
OnceFirstRespected ==
  [][\A f \in said \cap Files :
       src[f][1].k = "once" /\ (\A i \in DOMAIN stack : stack[i].file # f) => ~Reads(f)]_vars

\* "Each module is read once per unit however often it is imported", module
\* interface units that import each other included: no two readers on the
\* stack are of one module, and a module is being read only if recorded.
ModuleReadOnce ==
  \A i \in DOMAIN stack :
    stack[i].module # None =>
      /\ stack[i].module \in imported
      /\ \A j \in DOMAIN stack : j # i => stack[j].module # stack[i].module

\* MaxIncludeDepth and the number of modules bound the stack: #include is the
\* only directive that tests the depth, an import nests each module once more
\* and a PreInclude nests one deep in the primary file.
StackBound ==
  Len(stack) <= (IF MaxIncludeDepth > 2 THEN MaxIncludeDepth ELSE 2) + Cardinality(imported)

\* Every walk ends, headers that include or import themselves or each other
\* and modules that import each other included.
WalkEnds == <>(stack = <<>>)

=============================================================================
