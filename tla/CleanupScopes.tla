---------------------------- MODULE CleanupScopes ----------------------------
(***************************************************************************)
(* lower: what a function destroys on each way out of it.  A body is        *)
(* lowered as fn lowers it -- scopes of tracked objects, the temporaries of  *)
(* the full-expression, the open tries and handlers, and one landing pad    *)
(* per call site -- and the blocks it becomes are then executed: a          *)
(* condition may go either way, and a call may throw what it is said to.    *)
(*                                                                         *)
(* Destructors do not throw here (they are noexcept unless declared         *)
(* otherwise), so the pads of the calls that run them are never entered.    *)
(* The personality routine, which chooses the pad's clause, is external.    *)
(***************************************************************************)
EXTENDS Naturals, Sequences, FiniteSets, SequencesExt, TLC

CONSTANT Bodies     \* function bodies

VARIABLES fn,       \* the function: its blocks, and the scopes, tries, ... open
          todo,     \* the statements, and the marks, still to be lowered
          pc,       \* the block and the place in it being executed
          exn,      \* the exception the pad entered last was given, its selector, and
                    \* what was registered and not yet built where it was thrown
          alive,    \* the objects built and not destroyed, in order of construction
          caught,   \* the exceptions begun as caught and not ended
          outcome   \* "running", "returned", "unwound" or "trapped"

vars == <<fn, todo, pc, exn, alive, caught, outcome>>

-----------------------------------------------------------------------------
(* Objects are named.  Their kind is where they are written: a local; one that
   follows a label in its block, or that a while declares as its condition
   ("again"); one of a switch's own groups ("group"); a member a constructor
   builds; the object returned; a temporary; a temporary of an operand of && or
   ?: that may not be evaluated ("arm"); one of an expression that no
   endFullExpr follows ("stray").  in are those whose arguments it is among.

   An expression has parts, the expressions lowered before it, and may make an
   object; ts are the types of exception its call or its constructor throws.  *)

Of(x, kind) == [x |-> x, kind |-> kind, in |-> {}]
Obj(x) == Of(x, "local")
None == Of("", "none")
Result == Of("result", "result")

RECURSIVE Placed(_, _, _)
Placed(e, kind, in) ==
  [e EXCEPT !.o.kind = IF kind = "" THEN @ ELSE kind,
            !.o.in = @ \cup in,
            !.parts = [i \in DOMAIN @ |-> Placed(@[i], kind, in)]]
PlacedAll(es, kind, in) == [i \in DOMAIN es |-> Placed(es[i], kind, in)]

Expr(k, o, parts, ts) == [k |-> k, o |-> o, parts |-> parts, ts |-> ts]
Val == Expr("val", None, <<>>, {})
Call(args, ts) == Expr("call", None, args, ts)
\* T(args), or a call that returns a T.
Prvalue(x, args, ts) == Expr("prvalue", Of(x, "temp"), PlacedAll(args, "", {x}), ts)
\* A class passed to a function by value, from an object.
Copied(x, arg, ts) == Expr("copied", Of(x, "temp"), <<arg>>, ts)
And(e, f) == Expr("and", None, <<e, Placed(f, "arm", {})>>, {})
Cond(c, e, f) == Expr("cond", None, <<c, Placed(e, "arm", {}), Placed(f, "arm", {})>>, {})
\* c ? e : f of class type.
CondPrvalue(x, c, e, f) ==
  Expr("condprvalue", Of(x, "temp"), <<c, Placed(e, "arm", {x}), Placed(f, "arm", {x})>>, {})

(* Statements; lab says that a goto's label is in one. *)
Labelled(parts) == \E s \in parts : "lab" \in DOMAIN s /\ s.lab

Nil == [k |-> "nil"]
Jump(k) == [k |-> k]
Declares(s) == s.k = "decl"
Rekinded(s, kind) ==
  IF Declares(s)
  THEN [s EXCEPT !.o.kind = kind, !.e.o.kind = IF s.how = "ref" THEN kind ELSE @]
  ELSE s
Compound(ss) ==
  LET again(i) == \E j \in 1..i - 1 : ss[j].k = "label"
  IN  [k |-> "compound", lab |-> Labelled(ToSet(ss)),
       ss |-> [i \in DOMAIN ss |-> IF again(i) THEN Rekinded(ss[i], "again") ELSE ss[i]]]
Do(e) == [k |-> "expr", e |-> e]
\* how: "void", "into" the caller's storage, "value" or "ref".
Return(how, e) ==
  [k |-> "return", how |-> how, e |-> IF how = "ref" THEN Placed(e, "stray", {}) ELSE e]
Throw(e, t) == [k |-> "throw", e |-> e, ts |-> {t}]
Rethrow == [k |-> "throw", e |-> Nil, ts |-> {}]
\* how: see declareLocal.
Decl(x, how, e) == [k |-> "decl", o |-> Obj(x), how |-> how, e |-> e]
Bind(x, args, ts) == Decl(x, "ref", [Prvalue(x, args, ts) EXCEPT !.o = Obj(x)])
Member(x, e) == [k |-> "member", o |-> Of(x, "member"), e |-> Placed(e, "stray", {})]
\* A condition is an expression or a declaration.
If(init, c, s, t) ==
  [k |-> "if", init |-> init, c |-> c, s |-> s, t |-> t, lab |-> Labelled({s, t})]
While(c, s) ==
  [k |-> "while", c |-> Rekinded(c, "again"), s |-> s, lab |-> Labelled({s})]
Loop(k, init, e, post, s) ==
  [k |-> k, init |-> init, e |-> e, post |-> post, s |-> s, lab |-> Labelled({s})]
RangeFor(init, x, e, ts, s) ==
  [k |-> "range", init |-> init, o |-> Obj(x), e |-> Placed(e, "stray", {}), ts |-> ts, s |-> s,
   lab |-> Labelled({s})]
Switch(e, groups, default) ==
  [k |-> "switch", e |-> e, default |-> default,
   groups |-> [i \in DOMAIN groups |-> [j \in DOMAIN groups[i] |-> Rekinded(groups[i][j], "group")]],
   lab |-> Labelled(UNION {ToSet(groups[i]) : i \in DOMAIN groups})]
Label(l, s) == [k |-> "label", label |-> l, s |-> s, lab |-> TRUE]
Goto(l) == [k |-> "goto", label |-> l]
Try(s, hs) ==
  [k |-> "try", s |-> s, hs |-> hs, lab |-> Labelled({s} \cup {hs[i].s : i \in DOMAIN hs})]
\* A handler catches a type, or "any"; a parameter of class type is a copy.
Handler(type, param, ts, s) == [type |-> type, param |-> param, ts |-> ts, s |-> s]
NoParam == ""

(* Instructions.  guards is what the tries around a call, or a try, answer to. *)
Br(to) == [op |-> "br", to |-> to]
Select(hits, next) == [op |-> "select", hits |-> hits, next |-> next]
Do0(op) == [op |-> op]
Resume(guards) == [op |-> "resume", guards |-> guards]
Destroy(o) == [op |-> "destroy", o |-> o]
CallOf(op, o, ts) == [op |-> op, o |-> o, ts |-> ts]

-----------------------------------------------------------------------------
(* fn: the function being lowered.  Blocks are numbered; blk 0 is no block. *)

block(fl) == [fl EXCEPT !.code = Append(@, <<>>)]
lastBlock(fl) == Len(fl.code)
At(fl, blk) == [fl EXCEPT !.blk = blk]
emit(fl, ins) == IF fl.blk = 0 THEN fl ELSE [fl EXCEPT !.code[fl.blk] = Append(@, ins)]
BrTo(fl, to) == emit(fl, Br({to}))
Ended(fl, ins) == At(emit(fl, ins), 0)

destroyObj(fl, o) == emit(fl, Destroy(o))
FirstToLast(fl, objs) == FoldLeft(destroyObj, fl, objs)
destroyScope(fl, objs) == FoldLeft(destroyObj, fl, Reverse(objs))

destroyFrom(fl, depth) ==
  FoldLeft(destroyScope, fl, Reverse(SubSeq(fl.scopes, depth + 1, Len(fl.scopes))))

pushScope(fl) == [fl EXCEPT !.scopes = Append(@, <<>>)]
popScope(fl) == destroyScope([fl EXCEPT !.scopes = Front(@)], Last(fl.scopes))

track(fl, o) == [fl EXCEPT !.scopes[Len(fl.scopes)] = Append(@, o)]
trackPartial(fl, o) == [fl EXCEPT !.partial = Append(@, o)]
temporary(fl, o) == [fl EXCEPT !.temps = Append(@, o)]
endFullExpr(fl) == destroyScope([fl EXCEPT !.temps = <<>>], fl.temps)
extendTemporary(fl, o) ==
  endFullExpr([track(fl, o) EXCEPT !.temps = SelectSeq(fl.temps, LAMBDA t : t # o)])

-----------------------------------------------------------------------------
(* Where a call unwinds to. *)

endOpenCatches(fl) == FoldLeft(LAMBDA f, i : emit(f, Do0("end")), fl, [i \in 1..fl.catches |-> i])

hasLiveObjectsSince(fl, depth) ==
  fl.temps # <<>> \/ \E i \in depth + 1..Len(fl.scopes) : fl.scopes[i] # <<>>
hasLiveObjects(fl) == fl.partial # <<>> \/ hasLiveObjectsSince(fl, 0)

destroyLiveSince(fl, depth) == destroyFrom(destroyScope(fl, fl.temps), depth)
ForgetPartial(fl) == destroyLiveSince(fl, 0)
destroyLive(fl) == destroyScope(destroyLiveSince(fl, 0), fl.partial)

Guards(fl) == UNION {ToSet(fl.tries[i].clauses) : i \in DOMAIN fl.tries}

\* A new pad answering to cs, and the block being written is again the old one.
Pad(fl, cs) == [block(fl) EXCEPT !.clauses = (lastBlock(fl) + 1 :> cs) @@ @, !.blk = lastBlock(fl) + 1]
Back(pad, fl) == At(pad, fl.blk)

cleanupPad(fl) ==
  Back(Ended(endOpenCatches(destroyLive(Pad(fl, <<"cleanup">>))), Resume(Guards(fl))), fl)
tryPad(fl, t) ==
  Back(BrTo(destroyLiveSince(Pad(fl, t.clauses), t.depth), t.dispatch), fl)

CleanupFirst(fl) ==
  IF hasLiveObjects(fl) THEN [fl |-> cleanupPad(fl), pad |-> lastBlock(fl) + 1]
  ELSE [fl |-> fl, pad |-> IF fl.tries = <<>> THEN 0 ELSE Last(fl.tries).base]

\* The function with the pad, if one is made, and the pad's block, or 0.
unwindPad(fl) ==
  CASE fl.tries # <<>> /\ hasLiveObjectsSince(fl, Last(fl.tries).depth) ->
         [fl |-> tryPad(fl, Last(fl.tries)), pad |-> lastBlock(fl) + 1]
    [] fl.tries # <<>> /\ ~hasLiveObjectsSince(fl, Last(fl.tries).depth) ->
         [fl |-> fl, pad |-> Last(fl.tries).base]
    [] fl.tries = <<>> /\ hasLiveObjects(fl) ->
         [fl |-> cleanupPad(fl), pad |-> lastBlock(fl) + 1]
    [] OTHER -> [fl |-> fl, pad |-> 0]

emitCall(fl, call) ==
  IF fl.blk = 0 THEN fl
  ELSE LET p == unwindPad(fl)
       IN  emit(p.fl, call @@ [pad |-> p.pad, guards |-> Guards(fl), open |-> fl.open])

-----------------------------------------------------------------------------
(* Expressions and declarations.  open is what is registered, and not built. *)

Opened(fl, o) == [fl EXCEPT !.open = @ \cup {o}]
Built(fl, o) == [fl EXCEPT !.open = @ \ {o}]
Blocks(fl, n) == [fl EXCEPT !.code = @ \o [i \in 1..n |-> <<>>]]

RECURSIVE expr(_, _), exprs(_, _), exprInto(_, _, _), arms(_, _, _)

exprs(fl, es) == IF es = <<>> THEN fl ELSE exprs(expr(fl, Head(es)), Tail(es))

Construct(fl, o, e) == Built(emitCall(exprs(fl, e.parts), CallOf("build", o, e.ts)), o)
callRaw(fl, e) == emitCall(exprs(fl, e.parts), CallOf("call", None, e.ts))
call(fl, e) == Construct(Opened(temporary(fl, e.o), e.o), e.o, e)
copyArg(fl, e) == temporary(Construct(fl, e.o, e), e.o)

shortCircuit(fl, e) ==
  LET f == expr(fl, e.parts[1])
      rhs == lastBlock(f) + 1  join == rhs + 1  short == rhs + 2
      f1 == BrTo(At(emit(Blocks(f, 3), Br({rhs, short})), short), join)
  IN  At(BrTo(expr(At(f1, rhs), e.parts[2]), join), join)

\* The two arms of ?:, their value's or, of class type, each into dst.
arms(fl, dst, e) ==
  LET arm(f, x) == IF e.k = "condprvalue" THEN exprInto(f, dst, x) ELSE expr(f, x)
      then == lastBlock(fl) + 1  els == then + 1  join == then + 2
      f1 == BrTo(arm(At(emit(Blocks(fl, 3), Br({then, els})), then), e.parts[2]), join)
      f2 == [At(f1, els) EXCEPT !.open = fl.open]
  IN  At(BrTo(arm(f2, e.parts[3]), join), join)
conditional(fl, e) ==
  LET f == expr(fl, e.parts[1])
  IN  arms(IF e.k = "condprvalue" THEN Opened(temporary(f, e.o), e.o) ELSE f, e.o, e)

expr(fl, e) ==
  CASE e.k = "val" -> fl
    [] e.k = "call" -> callRaw(fl, e)
    [] e.k = "prvalue" -> call(fl, e)
    [] e.k = "copied" -> copyArg(fl, e)
    [] e.k = "and" -> shortCircuit(fl, e)
    [] e.k \in {"cond", "condprvalue"} -> conditional(fl, e)

exprInto(fl, dst, e) ==
  IF e.k = "condprvalue" THEN arms(expr(fl, e.parts[1]), dst, e) ELSE Construct(fl, dst, e)

\* "ctor":  by a constructor the analysis chose, and tracked when built.
\* "into":  tracked, and then built by its initializer.
\* "ref":   a reference to a temporary, whose life it extends.
\* "value": nothing to destroy.
TrackFirst(fl, s) == endFullExpr(exprInto(track(fl, s.o), s.o, s.e))
declareLocal(fl, s) ==
  CASE s.how = "ctor"  -> endFullExpr(track(exprInto(fl, s.o, s.e), s.o))
    [] s.how = "into"  -> endFullExpr(exprInto(Opened(track(fl, s.o), s.o), s.o, s.e))
    [] s.how = "ref"   -> extendTemporary(expr(fl, s.e), s.o)
    [] s.how = "value" -> endFullExpr(expr(fl, s.e))

\* A condition, and where it may go: an object is tested by its address, so that
\* it always holds.
condition(fl, c) == IF Declares(c) THEN declareLocal(fl, c) ELSE endFullExpr(expr(fl, c))
Tested(c, yes, no) == Br({yes} \cup IF Declares(c) /\ c.how # "value" THEN {} ELSE {no})

-----------------------------------------------------------------------------
(* Statements.  A handler writes what comes before a statement's parts, and
   leaves the parts, and marks for what comes between and after, to be done.  *)

Then(fl, more) == [fl |-> fl, more |-> more]
Done(fl) == Then(fl, <<>>)
PopMark == [k |-> "pop"]
BrMark(to) == [k |-> "goon", to |-> to]
AtMark(blk) == [k |-> "at", blk |-> blk]
CondMark(e, to) == [k |-> "cond", e |-> e, to |-> to]
JumpsMark(fl) == [k |-> "jumps", brk |-> fl.brk, cont |-> fl.cont]

hasNamedLabel(s) == Labelled({s})

compound(fl, s) == Then(pushScope(fl), Append(s.ss, PopMark))
exprStmt(fl, s) == Done(endFullExpr(expr(fl, s.e)))

Returned(fl) == Ended(endOpenCatches(destroyFrom(fl, 0)), Do0("return"))
Operand(fl, s) == IF s.how = "into" THEN exprInto(fl, Result, s.e) ELSE expr(fl, s.e)
ReturnFirst(fl, s) ==
  Done(Ended(endOpenCatches(endFullExpr(destroyFrom(Operand(fl, s), 0))), Do0("return")))
returnStmt(fl, s) ==
  Done(Returned(CASE s.how = "void" -> fl
                  [] s.how = "ref"  -> Operand(fl, s)
                  [] s.how \in {"into", "value"} -> endFullExpr(Operand(fl, s))))
returnDefault(fl, s) == Done(Ended(destroyFrom(fl, 0), Do0("return")))

\* The storage is allocated, the operand put there, an object by its constructor,
\* and thrown; what is there is the runtime's to destroy.
throwExpr(fl, s) ==
  LET allocated == emitCall(fl, CallOf("call", None, {}))
      f == CASE s.e = Nil -> fl
             [] s.e # Nil /\ s.e.k = "prvalue" -> callRaw(allocated, s.e)
             [] OTHER -> expr(allocated, s.e)
  IN  Done(endFullExpr(Ended(emitCall(f, CallOf("throw", None, s.ts)), Do0("trap"))))

ifStmt(fl, s) == Then(pushScope(fl), <<s.init, [s EXCEPT !.k = "branch"], PopMark>>)
branch(fl, s) ==
  LET f == condition(fl, s.c)
      then == lastBlock(f) + 1  join == then + 1  els == then + 2
      hasElse == s.t # Nil
  IN  Then(At(emit(Blocks(f, 3), Tested(s.c, then, IF hasElse THEN els ELSE join)), then),
           <<s.s, BrMark(join)>> \o (IF hasElse THEN <<AtMark(els), s.t, BrMark(join)>> ELSE <<>>)
             \o <<AtMark(join)>>)

\* break and continue point where they should while a body is lowered.
Aimed(fl, exit, continueTo) ==
  [fl EXCEPT !.brk = [to |-> exit, depth |-> Len(fl.scopes)],
             !.cont = [to |-> continueTo, depth |-> Len(fl.scopes)]]

\* The scope of a variable declared as the condition is around the loop.
whileStmt(fl, s) ==
  LET header == lastBlock(fl) + 1  body == header + 1  exit == header + 2
      f == At(BrTo(Blocks(fl, 3), header), header)
      f1 == condition(IF Declares(s.c) THEN pushScope(f) ELSE f, s.c)
  IN  Then(Aimed(emit(f1, Tested(s.c, body, exit)), exit, header),
           <<AtMark(body), s.s, BrMark(header), JumpsMark(fl), AtMark(exit)>>
             \o IF Declares(s.c) THEN <<PopMark>> ELSE <<>>)

doStmt(fl, s) ==
  LET body == lastBlock(fl) + 1  cont == body + 1  exit == body + 2
  IN  Then(Aimed(At(BrTo(Blocks(fl, 3), body), body), exit, cont),
           <<s.s, BrMark(cont), JumpsMark(fl), AtMark(cont), CondMark(s.e, {body, exit}),
             AtMark(exit)>>)

forStmt(fl, s) == Then(pushScope(fl), <<s.init, [s EXCEPT !.k = "forhead"], PopMark>>)
ForHead(fl, s) ==
  LET header == lastBlock(fl) + 1  body == header + 1  step == header + 2  exit == header + 3
      f == At(BrTo(Blocks(fl, 4), header), header)
      f1 == IF s.e = Nil THEN BrTo(f, body) ELSE emit(endFullExpr(expr(f, s.e)), Br({body, exit}))
  IN  Then(Aimed(f1, exit, step),
           <<AtMark(body), s.s, BrMark(step), JumpsMark(fl), AtMark(step),
             CondMark(s.post, {header}), AtMark(exit)>>)

\* Over an array: the variable is a copy of the element, in a scope of its own
\* with the body.  Nothing ends the range's temporaries.
rangeForStmt(fl, s) == Then(pushScope(fl), <<s.init, [s EXCEPT !.k = "rangehead"], PopMark>>)
RangeHead(fl, s) ==
  LET f0 == expr(fl, s.e)
      head == lastBlock(f0) + 1  body == head + 1  step == head + 2  exit == head + 3
      f1 == emit(At(BrTo(Blocks(f0, 4), head), head), Br({body, exit}))
      f2 == pushScope(At(Aimed(f1, exit, step), body))
  IN  Then(track(emitCall(f2, CallOf("build", s.o, s.ts)), s.o),
           <<s.s, PopMark, BrMark(step), JumpsMark(fl), AtMark(step), BrMark(head),
             AtMark(exit)>>)

\* The groups' statements are lowered in the scope the switch is in.
switchStmt(fl, s) ==
  LET f == endFullExpr(expr(fl, s.e))
      exit == lastBlock(f) + 1  n == Len(s.groups)
      next(i) == IF i < n THEN exit + i + 1 ELSE exit
      group(i) == <<AtMark(exit + i)>> \o Append(s.groups[i], BrMark(next(i)))
      entries == (exit + 1..exit + n) \cup (IF s.default THEN {} ELSE {exit})
  IN  Then([emit(Blocks(f, n + 1), Br(entries)) EXCEPT
              !.brk = [to |-> exit, depth |-> Len(fl.scopes)]],
           FlattenSeq([i \in 1..n |-> group(i)]) \o <<JumpsMark(fl), AtMark(exit)>>)

JumpOut(fl, target) == Ended(destroyFrom(fl, target.depth), Br({target.to}))
breakStmt(fl, s) == Done(JumpOut(fl, fl.brk))
KeepOnContinue(fl, s) == Done(Ended(fl, Br({fl.cont.to})))
continueStmt(fl, s) == Done(JumpOut(fl, fl.cont))

label(fl, l) ==
  IF l \in DOMAIN fl.labels THEN fl
  ELSE [block(fl) EXCEPT !.labels =
          (l :> [blk |-> lastBlock(fl) + 1, depth |-> 0, reached |-> FALSE, pending |-> <<>>]) @@ @]

gotoStmt(fl, s) ==
  LET f == label(fl, s.label)  lab == f.labels[s.label]
      t == lastBlock(f) + 1
  IN  IF lab.reached THEN Done(JumpOut(f, [to |-> lab.blk, depth |-> lab.depth]))
      ELSE Done([Ended(block(f), Br({t})) EXCEPT
                   !.labels[s.label].pending = Append(@, [blk |-> t, scopes |-> fl.scopes])])

\* A pending jump destroys the scopes it saw, as they were, down to the label.
Land(fl, lab, depth, p) ==
  LET leaving == Reverse(SubSeq(p.scopes, depth + 1, Len(p.scopes)))
  IN  BrTo(FoldLeft(destroyScope, At(fl, p.blk), leaving), lab.blk)
labeledStmt(fl, s) ==
  LET f == label(fl, s.label)  lab == f.labels[s.label]
      d == Len(fl.scopes)
      f1 == [BrTo(f, lab.blk) EXCEPT
               !.labels[s.label] = [lab EXCEPT !.reached = TRUE, !.depth = d, !.pending = <<>>]]
      f2 == FoldLeft(LAMBDA x, p : Land(x, lab, d, p), f1, lab.pending)
  IN  Then(At(f2, lab.blk), <<s.s>>)

-----------------------------------------------------------------------------
(* try *)

tryStmt(fl, s) ==
  LET base == lastBlock(fl) + 1  dispatch == base + 1  done == base + 2
      cs == [i \in DOMAIN s.hs |-> s.hs[i].type]
      f == Back(BrTo(Blocks(Pad(fl, cs), 2), dispatch), fl)
  IN  Then(pushScope([f EXCEPT !.tries = Append(@, [clauses |-> cs, dispatch |-> dispatch,
                        base |-> base, done |-> done, depth |-> Len(fl.scopes)])]),
           <<s.s, PopMark, [k |-> "endtry", hs |-> s.hs]>>)

endTry(fl, s) ==
  LET t == Last(fl.tries)  n == Len(s.hs)
      f == BrTo([fl EXCEPT !.tries = Front(@)], t.done)
      hit(i) == lastBlock(f) + i
      f1 == Ended(At(Blocks(f, n + 1), t.dispatch), Select([i \in 1..n |-> hit(i)], hit(n + 1)))
      enter(i) == <<AtMark(hit(i)), [k |-> "handler", h |-> s.hs[i]],
                    [k |-> "endhandler", done |-> t.done]>>
  IN  Then(Ended(At(f1, hit(n + 1)), Resume(Guards(f))),
           FlattenSeq([i \in 1..n |-> enter(i)]) \o <<AtMark(t.done)>>)

bindCaught(fl, h) ==
  IF h.param = NoParam THEN fl
  ELSE track(emitCall(fl, CallOf("build", Obj(h.param), h.ts)), Obj(h.param))

\* A handler, up to its body, and what ends it when the body falls off the end.
\* The handlers of a constructor's function-try-block, which rethrow there, are
\* not modelled.
handler(fl, s) ==
  LET f == [pushScope(emit(fl, Do0("begin"))) EXCEPT !.catches = @ + 1]
  IN  Then(bindCaught(f, s.h), <<s.h.s>>)
ForgetEnd(fl, s) == Done(BrTo(popScope([fl EXCEPT !.catches = @ - 1]), s.done))
EndHandler(fl, s) ==
  LET f == popScope([fl EXCEPT !.catches = @ - 1])
  IN  Done(BrTo(emitCall(f, CallOf("end", None, {})), s.done))

-----------------------------------------------------------------------------
(* The lowering: todo is what is left to lower.  Code after a jump is skipped
   unless a label is in it; the marks are not code, and the rest of an if, a for
   or a range is lowered only if its init comes to an end.                   *)

Marks == {"pop", "goon", "at", "cond", "jumps", "endtry", "handler", "endhandler", "default"}
Skipped(s) ==
  fn.blk = 0 /\ s.k \notin Marks \cup {"label"} /\ ~(s.k = "compound" /\ hasNamedLabel(s))

Init ==
  /\ \E body \in Bodies : todo = body.members \o <<Compound(body.ss), [k |-> "default"]>>
  /\ LET none == [x \in {} |-> 0]
         nowhere == [to |-> 0, depth |-> 0]
     IN  fn = [code |-> <<<<>>>>, clauses |-> none, blk |-> 1, scopes |-> <<<<>>>>, temps |-> <<>>,
               open |-> {}, partial |-> <<>>, tries |-> <<>>, catches |-> 0, brk |-> nowhere,
               cont |-> nowhere, labels |-> none]
  /\ pc = [blk |-> 1, i |-> 1]
  /\ exn = [type |-> "", sel |-> 0, open |-> {}]
  /\ alive = <<>> /\ caught = <<>> /\ outcome = "running"

Lower(k, how(_, _)) ==
  /\ todo # <<>> /\ Head(todo).k = k /\ ~Skipped(Head(todo))
  /\ LET r == how(fn, Head(todo)) IN fn' = r.fl /\ todo' = r.more \o Tail(todo)
  /\ UNCHANGED <<pc, exn, alive, caught, outcome>>

Skip ==
  /\ todo # <<>> /\ (Skipped(Head(todo)) \/ Head(todo).k = "nil")
  /\ todo' = Tail(todo) /\ UNCHANGED <<fn, pc, exn, alive, caught, outcome>>

declStmt(f, s) == Done(declareLocal(f, s))
\* Nothing ends the temporaries of a mem-initializer.
memberInit(f, s) == Done(trackPartial(exprInto(f, s.o, s.e), s.o))
DoPop(f, s) == Done(popScope(f))
DoBr(f, s) == Done(BrTo(f, s.to))
DoAt(f, s) == Done(At(f, s.blk))
DoCond(f, s) == Done(emit(endFullExpr(expr(f, s.e)), Br(s.to)))
DoJumps(f, s) == Done([f EXCEPT !.brk = s.brk, !.cont = s.cont])

LowerStmt ==
  \/ Lower("compound", compound) \/ Lower("expr", exprStmt) \/ Lower("decl", declStmt)
  \/ Lower("member", memberInit) \/ Lower("return", returnStmt) \/ Lower("throw", throwExpr)
  \/ Lower("if", ifStmt) \/ Lower("while", whileStmt) \/ Lower("do", doStmt)
  \/ Lower("for", forStmt) \/ Lower("range", rangeForStmt) \/ Lower("switch", switchStmt)
  \/ Lower("break", breakStmt) \/ Lower("continue", continueStmt) \/ Lower("goto", gotoStmt)
  \/ Lower("label", labeledStmt) \/ Lower("try", tryStmt)

LowerMark ==
  \/ Lower("pop", DoPop) \/ Lower("goon", DoBr) \/ Lower("at", DoAt) \/ Lower("cond", DoCond)
  \/ Lower("jumps", DoJumps) \/ Lower("branch", branch) \/ Lower("forhead", ForHead)
  \/ Lower("rangehead", RangeHead) \/ Lower("endtry", endTry)
  \/ Lower("handler", handler) \/ Lower("endhandler", EndHandler)
  \/ Lower("default", returnDefault)

-----------------------------------------------------------------------------
(* The execution. *)

ins == fn.code[pc.blk][pc.i]
Executing == todo = <<>> /\ outcome = "running"
Running(op) == Executing /\ ins.op = op
GoTo(blk) == pc' = [blk |-> blk, i |-> 1]
Advance == pc' = [pc EXCEPT !.i = @ + 1]
Keep == UNCHANGED <<fn, todo>>

Build ==
  /\ Running("build")
  /\ alive' = Append(SelectSeq(alive, LAMBDA o : o # ins.o), ins.o)
  /\ Advance /\ Keep /\ UNCHANGED <<exn, caught, outcome>>

RunDestructor ==
  /\ Running("destroy")
  /\ alive' = SelectSeq(alive, LAMBDA o : o # ins.o)
  /\ Advance /\ Keep /\ UNCHANGED <<exn, caught, outcome>>

CallReturns ==
  /\ Running("call")
  /\ Advance /\ Keep /\ UNCHANGED <<exn, alive, caught, outcome>>

\* The personality: the first clause of the pad that answers to the type, or 0
\* for a pad that cleans up.  Any other pad is passed over with its frame.
Matches(cs, t) == {i \in DOMAIN cs : cs[i] \in {t, "any"}}
Enters(pad, t) == pad # 0 /\ (Matches(fn.clauses[pad], t) # {} \/ "cleanup" \in ToSet(fn.clauses[pad]))
Selector(pad, t) ==
  LET m == Matches(fn.clauses[pad], t)
  IN  IF m = {} THEN 0 ELSE CHOOSE i \in m : \A j \in m : i <= j

Raised == IF ins.op = "throw" /\ ins.ts = {} THEN {Last(caught)} ELSE ins.ts

\* A call, a constructor or a throw unwinds.
Unwind ==
  /\ Executing /\ ins.op \in {"build", "call", "throw"}
  /\ \E t \in Raised :
       \/ /\ Enters(ins.pad, t)
          /\ GoTo(ins.pad)
          /\ exn' = [type |-> t, sel |-> Selector(ins.pad, t), open |-> ins.open]
          /\ UNCHANGED outcome
       \/ /\ ~Enters(ins.pad, t)
          /\ outcome' = "unwound" /\ exn' = [type |-> t, sel |-> 0, open |-> {}] /\ UNCHANGED pc
  /\ Keep /\ UNCHANGED <<alive, caught>>

Branch ==
  /\ Running("br")
  /\ \E to \in ins.to : GoTo(to)
  /\ Keep /\ UNCHANGED <<exn, alive, caught, outcome>>

Dispatch ==
  /\ Running("select")
  /\ GoTo(IF exn.sel = 0 THEN ins.next ELSE ins.hits[exn.sel])
  /\ Keep /\ UNCHANGED <<exn, alive, caught, outcome>>

BeginCatch ==
  /\ Running("begin")
  /\ caught' = Append(caught, exn.type)
  /\ exn' = [exn EXCEPT !.open = {}]
  /\ Advance /\ Keep /\ UNCHANGED <<alive, outcome>>

EndCatch ==
  /\ Running("end")
  /\ caught' = SubSeq(caught, 1, Len(caught) - 1)
  /\ Advance /\ Keep /\ UNCHANGED <<exn, alive, outcome>>

LeaveFunction ==
  /\ Executing /\ ins.op \in {"return", "resume", "trap"}
  /\ outcome' = CASE ins.op = "return" -> "returned"
                   [] ins.op = "resume" -> "unwound"
                   [] ins.op = "trap" -> "trapped"
  /\ Keep /\ UNCHANGED <<pc, exn, alive, caught>>

Over == outcome # "running" /\ UNCHANGED vars

Next == \/ LowerStmt \/ LowerMark \/ Skip
        \/ Build \/ RunDestructor \/ CallReturns \/ Unwind \/ Branch \/ Dispatch
        \/ BeginCatch \/ EndCatch \/ LeaveFunction \/ Over

Spec == Init /\ [][Next]_vars

-----------------------------------------------------------------------------
(* Properties *)

\* eh.go:227 -- "the pad for a call before a local is constructed must not
\* destroy it".
SparesUnbuilt == Running("destroy") => ins.o \in ToSet(alive)

\* What may be built again, or left, without having been destroyed: the variable
\* a while declares (stmt.go:999) and what follows a label in its block
\* (goto.go:46), on the way back; and the temporaries of a mem-initializer
\* (func.go:411), of a reference returned (stmt.go:851) and of a range
\* (stmt.go:1145), which no endFullExpr follows.
LeftBehind == {"again", "stray"}

\* A destructor is run only on an object that has been built, and not on one
\* that has been destroyed already, except: on what was registered before it was
\* built (stmt.go:235, expr.go:911, :1051), when an exception cut that short; on
\* the temporaries of an operand that was not evaluated (op.go:459, expr.go:839);
\* on what a switch's own group declares, when the group is not entered
\* (switch.go:87); and on a stray, destroyed where the next endFullExpr is lowered.
DestroysOnlyBuilt ==
  Running("destroy") =>
    ins.o \in ToSet(alive) \cup exn.open \/ ins.o.kind \in {"arm", "group", "stray"}

\* No object is built where one still lives, but for those left behind: a loop,
\* or a jump back, has destroyed what its last pass built.
NotBuiltTwice ==
  Running("build") => ins.o \notin ToSet(alive) \/ ins.o.kind \in LeftBehind

Sort(o) ==
  CASE o.kind \in {"temp", "arm", "stray"} -> "temp"
    [] o.kind \in {"local", "again", "group"} -> "local"
    [] OTHER -> o.kind

\* dtor.go:13 -- objects of a sort are destroyed in the reverse of the order in
\* which they were built, on every way out, but for a temporary among another's
\* arguments, which is registered after the other, and built, and destroyed,
\* before it (expr.go:911, :1051).  What is left behind is not waited for.
ReverseOrder ==
  Running("destroy") =>
    \A i, j \in DOMAIN alive :
      (alive[i] = ins.o /\ i < j) =>
        \/ Sort(alive[j]) # Sort(ins.o)
        \/ alive[j].x \in ins.o.in
        \/ alive[j].kind \in LeftBehind

\* dtor.go:105 -- the temporaries of a full-expression are gone before anything
\* declared around it is destroyed, strays aside.
TemporariesGoFirst ==
  (Running("destroy") /\ Sort(ins.o) = "local") =>
    \A o \in ToSet(alive) : Sort(o) = "temp" => o.kind \in LeftBehind

\* dtor.go:12 -- a function that returns leaves alive only the object it returns
\* and the members of the one it constructs, and one that unwinds leaves nothing,
\* but for strays, and for what was declared again when the exception is thrown as
\* it is.
NothingLeft ==
  LET left == {o.kind : o \in ToSet(alive)}
  IN  /\ outcome = "returned" => left \subseteq {"member", "result", "stray"}
      /\ outcome = "unwound" => left \subseteq LeftBehind

\* eh.go:430 -- a catch that has begun is ended exactly once, however the
\* handler is left.
CatchesEnded ==
  /\ Running("end") => caught # <<>>
  /\ outcome # "running" => caught = <<>>

\* eh.go:129 -- no exception leaves the function from inside a try that has a
\* handler for it.
CaughtInside == outcome = "unwound" => {exn.type, "any"} \cap ins.guards = {}
=============================================================================
