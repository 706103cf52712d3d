--------------------------- MODULE MCCleanupScopes ---------------------------
(* Function bodies for CleanupScopes: each way out of a block, from the places
   it may be written.                                                         *)
EXTENDS CleanupScopes

A == {"A"}
AB == {"A", "B"}
Plain(ts) == Call(<<>>, ts)
\* f(T(), u): a temporary, and a copy of an object.
WithTemps(ts) == Call(<<Prvalue("t", <<>>, ts), Copied("u", Val, ts)>>, ts)
Local(x) == Decl(x, "ctor", Prvalue("", <<>>, A))
\* T x(T(), f(u)): a constructor takes no copies of its own.
LocalFrom(x) ==
  Decl(x, "ctor", Prvalue("", <<Prvalue("t", <<>>, A), Call(<<Copied("u", Val, A)>>, A)>>, A))
FromCall(x) == Decl(x, "into", Prvalue("", <<Prvalue("t", <<>>, A)>>, A))
Bound(x) == Bind(x, <<Copied("v", Val, {})>>, {})
Maybe(s) == If(Nil, Val, s, Nil)
Body(ss) == [members |-> <<>>, ss |-> ss]
ReturnVoid == Return("void", Val)
ThrowA == Throw(Val, "A")

Declared(x) == {Local(x), LocalFrom(x), FromCall(x), Bound(x)}
Exprs == {Do(Plain(A)), Do(WithTemps(A))}
Leaves == Exprs \cup {ReturnVoid, Return("value", WithTemps(A)), ThrowA}
LoopLeaves == Leaves \cup {Jump("break"), Jump("continue")}

\* f(T(U())), f(T(g(), U())), b && f(T()), c ? f(T()) : g(U()), and
\* f(c ? T() : T(U())): temporaries in temporaries, and ones that may not be made.
Nested == Call(<<Prvalue("t", <<Prvalue("u", <<>>, A)>>, A)>>, A)
NestedCall == Call(<<Prvalue("t", <<Plain(A), Copied("u", Prvalue("w", <<>>, A), A)>>, A)>>, A)
Shorted == And(Plain(A), Call(<<Prvalue("t", <<>>, A)>>, A))
Chosen == Cond(Shorted, Call(<<Prvalue("v", <<>>, A)>>, A), Call(<<Prvalue("u", <<>>, A)>>, A))
ChosenPrvalue ==
  CondPrvalue("w", Plain(A), Prvalue("", <<>>, A), Prvalue("", <<Prvalue("u", <<>>, A)>>, A))
Deep == {Nested, NestedCall, Shorted, Chosen, Call(<<ChosenPrvalue, Plain(A)>>, A)}

ExprBodies ==
  {Body(<<Local("a"), Compound(<<Local("b"), s, Maybe(t)>>), Do(Plain(A))>>) :
     s \in {Do(e) : e \in Deep} \cup {Decl("c", "value", e) : e \in Deep}
           \cup {Decl("c", how, ChosenPrvalue) : how \in {"ctor", "into"}}
           \cup {If(Nil, e, Do(Plain(A)), Nil) : e \in Deep},
     t \in {Return("value", e) : e \in Deep}
           \cup {Return("into", e) : e \in {ChosenPrvalue, Prvalue("", <<Nested>>, A)}}
           \cup {Throw(e, "A") : e \in Deep \cup {Prvalue("x", <<Nested>>, A)}}
           \cup {Return("ref", e) : e \in Deep}}

\* A block in a block, left at each place by each way.
NestedBodies ==
  {Body(<<d, Compound(<<e, Maybe(s), Local("c")>>), t>>) :
     d \in Declared("a"), e \in Declared("b"), s \in Leaves, t \in Leaves}

\* An if with an init, and a condition that declares.
IfBodies ==
  {Body(<<Local("a"), If(init, c, Compound(<<Local("d"), s>>), t), Do(WithTemps(A))>>) :
     init \in {Nil, Local("b"), ThrowA}, c \in Declared("c") \cup {Decl("c", "value", WithTemps(A))},
     s \in Leaves, t \in {Nil} \cup Leaves}

Loops(s) ==
  {While(WithTemps(A), s), While(Shorted, s), Loop("do", Nil, Nested, Val, s),
   Loop("for", Local("i"), WithTemps(A), WithTemps(A), s), RangeFor(Nil, "i", Val, A, s)}

LoopBodies ==
  {Body(<<Local("a"), w, Do(Plain(A))>>) :
     w \in UNION {Loops(Compound(<<d, Maybe(Compound(<<Local("c"), s>>)), t>>)) :
                    d \in Declared("b"), s \in LoopLeaves, t \in LoopLeaves}}

\* A while that declares its condition, a for without one, a range with
\* temporaries.
OpenLoops(s) ==
  {While(Decl("i", "ctor", Prvalue("", <<Prvalue("t", <<>>, A)>>, A)), s),
   While(Decl("i", "into", Prvalue("", <<>>, A)), s),
   While(Decl("i", "value", WithTemps(A)), s), Loop("for", Local("i"), Nil, Val, s),
   RangeFor(Local("j"), "i", WithTemps(A), A, s)}
OpenLoopBodies ==
  {Body(<<Local("a"), w, Do(Plain(A))>>) :
     w \in UNION {OpenLoops(Compound(<<Local("b"), Maybe(s), t>>)) :
                    s \in LoopLeaves, t \in LoopLeaves}}

\* Jumps forward out of a block, back to before it, and into a label that only
\* a jump reaches.
GotoBodies ==
  {Body(<<Local("a"), Compound(<<Local("b"), Maybe(Compound(<<Local("c"), Goto("l")>>)), s>>),
          Label("l", t)>>) : s \in Leaves \cup {Goto("l")}, t \in Leaves}
  \cup
  {Body(<<Local("a"), Label("l", Do(Plain(A))),
          Compound(<<d, Maybe(Goto("l")), s>>), t>>) :
     d \in Declared("b"), s \in Leaves \cup {Goto("l")}, t \in Leaves}
  \cup
  {Body(<<Local("a"), Maybe(Goto("l")), s, Compound(<<Label("l", t), Local("b")>>), t>>) :
     s \in Leaves, t \in Leaves}
  \cup
  {Body(<<Local("a"), Label("l", Do(Plain(A))), d, Compound(<<Local("c"), Maybe(Goto("l")), s>>), t>>) :
     d \in Declared("b"), s \in Leaves \cup {Goto("l")}, t \in Leaves}

SwitchBodies ==
  {Body(<<Local("a"), While(Val, Compound(<<Local("b"),
          Switch(WithTemps(A), <<<<Compound(<<Local("c"), s>>)>>, <<Compound(<<Local("d"), t>>)>>>>, dflt),
          Do(Plain(A))>>))>>) :
     s \in LoopLeaves, t \in LoopLeaves, dflt \in BOOLEAN}
  \cup
  {Body(<<Local("a"), While(Val, Compound(<<Local("b"),
          Switch(Val, <<<<s>>, <<Local("c"), t>>>>, dflt), Do(Plain(A))>>))>>) :
     s \in LoopLeaves, t \in LoopLeaves, dflt \in BOOLEAN}

\* A handler that may throw has an object of the function alive around it.
Handles(type, s) == {Handler(type, NoParam, {}, s), Handler(type, "p", A, s)}
HandlerLeaves == Leaves \cup {Rethrow}
TryBodies ==
  {Body(<<Local("a"), Try(Compound(<<d, s>>), <<h>>), t>>) :
     d \in Declared("b"), s \in Leaves, t \in Exprs,
     h \in UNION {Handles("any", Compound(<<Local("c"), x>>)) : x \in HandlerLeaves}}
  \cup
  {Body(<<Local("a"), Try(Compound(<<Local("b"), Do(Plain(AB))>>), <<h, g>>), Do(Plain(A))>>) :
     h \in UNION {Handles(ty, Compound(<<x>>)) : ty \in AB, x \in HandlerLeaves},
     g \in UNION {Handles("any", Compound(<<x>>)) : x \in HandlerLeaves}}

\* A try in a try, and a try in a loop.
NestedTryBodies ==
  {Body(<<Local("a"), Try(Compound(<<Local("b"),
            Try(Compound(<<Local("c"), Do(WithTemps(A))>>), <<Handler(ty, NoParam, {}, Compound(<<s>>))>>),
            Do(Plain(AB))>>), <<Handler("A", NoParam, {}, Compound(<<t>>)), Handler("B", "p", A, Compound(<<>>))>>),
          Do(Plain(A))>>) :
     ty \in {"A", "any"}, s \in {Do(Plain({})), ReturnVoid}, t \in HandlerLeaves}
  \cup
  {Body(<<Local("a"), While(Val,
            Try(Compound(<<Local("b"), s>>), <<Handler("any", "p", A, Compound(<<t>>))>>))>>) :
     s \in LoopLeaves, t \in HandlerLeaves}

\* A constructor, one of its members' initializers with temporaries.
MemberFrom(x, es) == Member(x, Prvalue("", es, A))
CtorBodies ==
  {[members |-> <<MemberFrom("m", es), MemberFrom("n", <<>>)>>, ss |-> b.ss] :
     es \in {<<>>, <<Prvalue("s", <<>>, A)>>},
     b \in {Body(<<d, Maybe(s), t>>) : d \in Declared("a"), s \in Leaves, t \in Leaves}
           \cup {Body(<<Try(Compound(<<s>>), <<h>>), Do(Plain(A))>>) :
                   s \in Leaves, h \in UNION {Handles("any", Compound(<<x>>)) : x \in HandlerLeaves}}}

MCBodies == ExprBodies \cup NestedBodies \cup IfBodies \cup LoopBodies \cup OpenLoopBodies
            \cup GotoBodies \cup SwitchBodies \cup TryBodies \cup NestedTryBodies \cup CtorBodies

\* A local whose initializer is a call that may throw.
FromCallBodies == {Body(<<Decl("a", "into", Prvalue("", <<>>, A))>>)}
=============================================================================
