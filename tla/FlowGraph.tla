----------------------------- MODULE FlowGraph -----------------------------
(***************************************************************************)
(* sema/cfg: the control-flow graph of a function body, and the two         *)
(* analyses Analyze asks of it -- whether a path falls off the end          *)
(* (CheckReturns) and which statements no path reaches (CheckUnreachable).  *)
(*                                                                         *)
(* The graph is built from the statement tree as Builder.addStmt builds it. *)
(* Beside it the same tree is executed: cont is what is left to do, every   *)
(* condition may go either way, and every expression may throw.  The         *)
(* analyses are held to what the execution does.                            *)
(***************************************************************************)
EXTENDS Naturals, Sequences, FiniteSets, SequencesExt, TLC

CONSTANT Bodies     \* function bodies: sequences of statements

VARIABLES prog,     \* the body, each statement with its place
          graph,    \* the Builder when Build returns
          cont      \* the execution: the statements and marks still to be run

vars == <<prog, graph, cont>>

-----------------------------------------------------------------------------
(* Statements: records with a kind k, and what the kind has of
     ss     the statements of a compound, or of a switch's body
     s, t   a then and an else part; a body and a handler; a label's statement
     cond   "true" (a constant), "test" (may be either) or "none" (omitted)
     label  the name of a label or of a goto's target; "case" or "default"
     fin    an @finally part                                                *)

Nil == [k |-> "nil"]
Stmt(k) == [k |-> k]
Compound(ss) == [k |-> "compound", ss |-> ss]
If(s, t) == [k |-> "if", s |-> s, t |-> t]
Loop(k, cond, s) == [k |-> k, cond |-> cond, s |-> s]
Switch(ss) == [k |-> "switch", ss |-> ss]
Label(l, s) == [k |-> "label", label |-> l, s |-> s]
Goto(l) == [k |-> "goto", label |-> l]
Try(s, t) == [k |-> "try", s |-> s, t |-> t, fin |-> Nil]
ObjCTry(s, t, fin) == [k |-> "try", s |-> s, t |-> t, fin |-> fin]

Loops == {"while", "for", "do", "range"}
CaseLabels == {"case", "default"}

\* The tree with every statement's place in it.
RECURSIVE Placed(_, _)
Placed(s, at) ==
  LET sub(f) == IF f \in DOMAIN s THEN f :> Placed(s[f], Append(at, f)) ELSE [x \in {} |-> 0]
      list == IF "ss" \in DOMAIN s
              THEN "ss" :> [i \in DOMAIN s.ss |-> Placed(s.ss[i], Append(at, ToString(i)))]
              ELSE [x \in {} |-> 0]
  IN  IF s.k = "nil" THEN s
      ELSE ("at" :> at) @@ list @@ sub("s") @@ sub("t") @@ sub("fin") @@ s

-----------------------------------------------------------------------------
(* The Builder.  Blocks are numbered from 1; 0 is no block. *)

Entry == 1
Exit == 2

newBlock(b) == [b EXCEPT !.n = @ + 1]
addEdge(b, from, to, kind) ==
  IF from = 0 \/ to = 0 THEN b ELSE [b EXCEPT !.edges = @ \cup {<<from, to, kind>>}]
At(b, blk) == [b EXCEPT !.cur = blk]
Succs(edges, blk) == {e[2] : e \in {x \in edges : x[1] = blk}}

\* "if b.curBlock != nil && len(b.curBlock.Succs) == 0"
FallTo(b, to, kind) ==
  IF b.cur # 0 /\ Succs(b.edges, b.cur) = {} THEN addEdge(b, b.cur, to, kind) ELSE b

\* A block's statements matter only by the first, where a report points.
Append1(b, s) ==
  [b EXCEPT !.first = IF b.cur \in DOMAIN @ THEN @ ELSE (b.cur :> s.at) @@ @]
Terminated(b, s, to, kind) ==
  IF to = 0 THEN At(b, 0) ELSE At(addEdge(Append1(b, s), b.cur, to, kind), 0)

labelBlock(b, l) == IF l \in DOMAIN b.labels THEN b.labels[l] ELSE b.n + 1
WithLabel(b, l) ==
  IF l \in DOMAIN b.labels THEN b
  ELSE [newBlock(b) EXCEPT !.labels = (l :> b.n + 1) @@ @]

NeverTrue(cond) == FALSE
alwaysTrue(cond) == cond = "true"

LeavesByTest(s) == s.cond = "test"

\* Where a loop's header may leave it: a `for` without a condition never does.
LeavesByCond(s) ==
  IF s.k = "range" THEN TRUE ELSE s.cond # "none" /\ ~alwaysTrue(s.cond)

RECURSIVE addStmt(_, _)

addStmts(b, ss) == FoldLeft(LAMBDA x, s : addStmt(x, s), b, ss)

addIf(b, s) ==
  LET then == b.n + 1  else == b.n + 2  join == b.n + 3
      b1 == [b EXCEPT !.n = @ + 3]
      b2 == addEdge(b1, b.cur, then, "true")
      b3 == addEdge(b2, b.cur, IF s.t # Nil THEN else ELSE join, "false")
      b4 == FallTo(addStmt(At(b3, then), s.s), join, "fallthrough")
      b5 == IF s.t = Nil THEN b4
            ELSE FallTo(addStmt(At(b4, else), s.t), join, "fallthrough")
  IN  At(b5, join)

\* while, for, do and range-for: the header is tested first, but a do's body
\* is entered first; `continue` goes to the header, a for's step or a do's test.
addLoop(b, s) ==
  LET header == b.n + 1  body == b.n + 2
      step == IF s.k = "for" THEN b.n + 3 ELSE header
      exit == b.n + (IF s.k = "for" THEN 4 ELSE 3)
      b1 == addEdge([b EXCEPT !.n = exit], b.cur, IF s.k = "do" THEN body ELSE header,
                    "fallthrough")
      b2 == addEdge(b1, header, body, "true")
      b3 == IF LeavesByCond(s) THEN addEdge(b2, header, exit, "false") ELSE b2
      b4 == FallTo(addStmt([b3 EXCEPT !.cur = body, !.brk = exit, !.cont = step], s.s),
                   step, IF s.k \in {"for", "do"} THEN "fallthrough" ELSE "jump")
      b5 == IF s.k = "for" THEN addEdge(b4, step, header, "jump") ELSE b4
  IN  [b5 EXCEPT !.brk = b.brk, !.cont = b.cont, !.cur = exit]

\* A switch's own labels: a run of them on one statement names one block.
RECURSIVE CaseRun(_)
CaseRun(s) ==
  IF s.k = "label" /\ s.label \in CaseLabels
  THEN [CaseRun(s.s) EXCEPT !.labels = @ \cup {s.label}]
  ELSE [labels |-> {}, inner |-> s]

addCase(b, cond, s) ==
  LET run == CaseRun(s)
      b1 == IF run.labels = {} THEN b
            ELSE addEdge(At(FallTo(newBlock(b), b.n + 1, "fallthrough"), b.n + 1),
                         cond, b.n + 1, "true")
  IN  addStmt(b1, run.inner)

addSwitch(b, s) ==
  LET cond == b.cur  exit == b.n + 1
      b1 == [newBlock(b) EXCEPT !.brk = exit, !.cur = 0]
      b2 == FallTo(FoldLeft(LAMBDA x, st : addCase(x, cond, st), b1, s.ss),
                   exit, "fallthrough")
      hasDefault == \E i \in DOMAIN s.ss : "default" \in CaseRun(s.ss[i]).labels
      b3 == IF hasDefault THEN b2 ELSE addEdge(b2, cond, exit, "false")
  IN  [b3 EXCEPT !.brk = b.brk, !.cur = exit]

Join(b, to) == IF b.cur # 0 THEN addEdge(b, b.cur, to, "fallthrough") ELSE b

\* try and @try: each handler is entered from the block the try begins in, and
\* an @finally is where the body and the handlers join.
addTry(b, s) ==
  LET after == b.n + 1
      b1 == Join(addStmt(newBlock(b), s.s), after)
      hb == b1.n + 1
      b2 == At(addEdge(newBlock(b1), b.cur, hb, "fallthrough"), hb)
      b3 == IF s.t = Nil THEN b1 ELSE Join(addStmt(b2, s.t), after)
  IN  addStmt(At(b3, after), s.fin)

addLabeled(b, s) ==
  IF s.label \in CaseLabels THEN addStmt(b, s.s)
  ELSE LET target == labelBlock(b, s.label)
       IN  addStmt(At(FallTo(WithLabel(b, s.label), target, "fallthrough"), target), s.s)

addGoto(b, s) == Terminated(WithLabel(b, s.label), s, labelBlock(b, s.label), "jump")

NoReturnHere(b, s) == [Append1(b, s) EXCEPT !.noret = @ \cup {b.cur}]

addStmt(b0, s) ==
  LET b == IF b0.cur = 0 THEN At(newBlock(b0), b0.n + 1) ELSE b0
  IN  CASE s.k = "nil" -> b0
        [] s.k = "empty" -> b
        [] s.k = "expr" -> Append1(b, s)
        [] s.k \in {"noreturn", "throw"} -> NoReturnHere(b, s)
        [] s.k = "compound" -> addStmts(b, s.ss)
        [] s.k = "if" -> addIf(b, s)
        [] s.k \in Loops -> addLoop(b, s)
        [] s.k = "switch" -> addSwitch(b, s)
        [] s.k = "try" -> addTry(b, s)
        [] s.k = "label" -> addLabeled(b, s)
        [] s.k = "goto" -> addGoto(b, s)
        [] s.k = "break" -> Terminated(b, s, b.brk, "jump")
        [] s.k = "continue" -> Terminated(b, s, b.cont, "jump")
        [] s.k = "return" -> Terminated(b, s, Exit, "return")

Build(body) ==
  LET none == [x \in {} |-> 0]
      b == [n |-> 2, cur |-> Entry, edges |-> {}, brk |-> 0, cont |-> 0, noret |-> {},
            labels |-> none, first |-> none]
  IN  FallTo(addStmts(b, body.ss), Exit, "fallthrough")

RECURSIVE Closure(_, _)
Closure(edges, blks) ==
  LET more == blks \cup UNION {Succs(edges, k) : k \in blks}
  IN  IF more = blks THEN blks ELSE Closure(edges, more)

ReachableWithoutJumps(g) == Closure({e \in g.edges : e[3] # "jump"}, {Entry})
computeReachable(g) == Closure(g.edges, {Entry})
computeLiveReachable(g) == Closure({e \in g.edges : e[1] \notin g.noret}, {Entry})

CheckReturns(g) ==
  \E e \in g.edges : /\ e[2] = Exit /\ e[3] = "fallthrough"
                     /\ e[1] \in computeLiveReachable(g) /\ e[1] \notin g.noret

CheckUnreachable(g) ==
  {g.first[k] : k \in DOMAIN g.first \ computeReachable(g)}

-----------------------------------------------------------------------------
(* The execution.  cont is a sequence of statements and of marks: "again" for
   the loop a body belongs to, "endswitch", and "endtry" with its handler.    *)

Gone == <<[k |-> "gone"]>>
MayEnd(s) == s.k = "range" \/ s.cond = "test"

RECURSIVE Unwind(_, _)
Unwind(how, c) ==
  IF c = <<>> THEN Gone
  ELSE LET h == Head(c)  r == Tail(c)
       IN  CASE h.k = "endtry" /\ how = "throw" /\ h.t # Nil ->
                  <<h.t, [h EXCEPT !.t = Nil]>> \o r
             [] h.k = "endtry" /\ (how # "throw" \/ h.t = Nil) /\ h.fin # Nil ->
                   <<h.fin, [k |-> "unwind", how |-> how]>> \o r
             [] h.k = "again" /\ how = "continue" -> c
             [] h.k \in {"again", "endswitch"} /\ how = "break" -> r
             [] OTHER -> Unwind(how, r)

\* Where a jump to one of the labels enters s.
RECURSIVE Entries(_, _)
Entries(s, ls) ==
  CASE s.k = "label" -> (IF s.label \in ls THEN {<<s.s>>} ELSE {}) \cup Entries(s.s, ls)
    [] s.k = "compound" -> UNION {{e \o SubSeq(s.ss, i + 1, Len(s.ss)) : e \in Entries(s.ss[i], ls)} :
                                    i \in DOMAIN s.ss}
    [] s.k = "if" -> Entries(s.s, ls) \cup Entries(s.t, ls)
    [] s.k \in Loops -> {e \o <<[k |-> "again", s |-> s]>> : e \in Entries(s.s, ls)}
    [] OTHER -> {}

Choose(s, r) ==
  LET ways == Entries(Compound(s.ss), CaseLabels)
      default == Entries(Compound(s.ss), {"default"})
      end == <<[k |-> "endswitch"]>> \o r
  IN  {w \o end : w \in ways} \cup (IF default = {} THEN {r} ELSE {})

Steps(c) ==
  LET h == Head(c)  r == Tail(c)  thrown == Unwind("throw", r)
      again(s) == {<<s.s, [k |-> "again", s |-> s]>> \o r} \cup (IF MayEnd(s) THEN {r, thrown} ELSE {})
  IN  CASE h.k \in {"nil", "empty", "endswitch"} -> {r}
        [] h.k = "expr" -> {r, thrown}
        [] h.k = "throw" -> {thrown}
        [] h.k = "noreturn" -> {thrown, Gone}
        [] h.k = "return" -> {Unwind("return", r), thrown}
        [] h.k \in {"break", "continue"} -> {Unwind(h.k, r)}
        [] h.k = "unwind" -> {Unwind(h.how, r)}
        [] h.k = "compound" -> {h.ss \o r}
        [] h.k = "if" -> {<<h.s>> \o r, <<h.t>> \o r, thrown}
        [] h.k = "do" -> {<<h.s, [k |-> "again", s |-> h]>> \o r}
        [] h.k \in Loops \ {"do"} -> again(h)
        [] h.k = "again" -> again(h.s)
        [] h.k = "switch" -> Choose(h, r) \cup {thrown}
        [] h.k = "label" -> {<<h.s>> \o r}
        [] h.k = "goto" -> Entries(prog, {h.label})
        [] h.k = "try" -> {<<h.s, [k |-> "endtry", t |-> h.t, fin |-> h.fin]>> \o r}
        [] h.k = "endtry" -> {<<h.fin>> \o r}

Init ==
  /\ \E b \in Bodies : prog = Placed(Compound(b), <<>>)
  /\ graph = Build(prog)
  /\ cont = prog.ss

Step ==
  /\ cont \notin {<<>>, Gone}
  /\ cont' \in Steps(cont)
  /\ UNCHANGED <<prog, graph>>

Over == cont \in {<<>>, Gone} /\ UNCHANGED vars

Next == Step \/ Over

Spec == Init /\ [][Next]_vars

-----------------------------------------------------------------------------
(* Properties *)

Leaves == {"expr", "noreturn", "throw", "return", "break", "continue", "goto"}

\* flow.go:10 -- no execution falls off the end of a non-void function that
\* CheckReturns has let through.
FallingOffIsReported == cont = <<>> => CheckReturns(graph)

\* flow.go:33 -- no statement that an execution reaches is reported as
\* unreachable.
LiveCodeNotReported ==
  (cont \notin {<<>>, Gone} /\ Head(cont).k \in Leaves)
     => Head(cont).at \notin CheckUnreachable(graph)

RECURSIVE Executions(_)
Executions(cs) ==
  LET more == cs \cup UNION {Steps(c) : c \in cs \ {<<>>, Gone}}
  IN  IF more = cs THEN cs ELSE Executions(more)

\* A missing-return error is about a real path: some execution does fall off.
ReportedReturnIsMissing ==
  (cont = prog.ss /\ CheckReturns(graph)) => <<>> \in Executions({prog.ss})
=============================================================================
