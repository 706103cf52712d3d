---------------------------- MODULE MCFlowGraph ----------------------------
(* Function bodies for TLC: the shapes that change the graph, two deep. *)
EXTENDS FlowGraph

E == Stmt("expr")
Plain == {E, Stmt("noreturn"), Stmt("throw"), Stmt("return")}
Jumps == Plain \cup {Stmt("break"), Stmt("continue")}
Seqs(S, n) == UNION {[1..k -> S] : k \in 0..n}
Block(S, n) == {Compound(ss) : ss \in Seqs(S, n)}

Ifs(S) == {If(s, t) : s \in S, t \in S \cup {Nil}}
LoopsOf(S) ==
  {Loop(k, c, s) : k \in {"while", "for", "do"}, c \in {"true", "test"}, s \in S}
  \cup {Loop("for", "none", s) : s \in S} \cup {Loop("range", "none", s) : s \in S}
Cases(S) ==
  {Label("case", s) : s \in S} \cup {Label("default", s) : s \in S}
  \cup {Label("case", Label("default", s)) : s \in S}

\* A try whose first block neither throws nor calls what does not return.
Tries(S, H) == {Try(If(s, Nil), h) : s \in S, h \in H}
               \cup {Try(Compound(<<E>>), h) : h \in H}
               \cup {Try(Loop("while", c, s), h) : c \in {"true", "test"}, s \in S, h \in H}

Small == {E, Stmt("return"), Stmt("throw")}
Then == {<<>>, <<E>>, <<Stmt("return")>>}

LoopBodies == {<<l>> \o t : t \in Then,
                 l \in LoopsOf(Block(Jumps \cup Ifs(Jumps \ {Stmt("noreturn")}), 2))}
IfBodies == {<<i>> \o t : i \in Ifs(Block(Plain, 1) \cup Ifs(Small)), t \in Then}
SwitchBodies ==
  {<<Switch(ss)>> \o t : t \in Then,
     ss \in Seqs(Cases({E, Stmt("return"), Stmt("break"), Stmt("throw")}) \cup {E, Stmt("break")}, 2)}
TryBodies == {<<r>> \o t : r \in Tries(Small, Block(Plain, 1)), t \in Then}
             \cup {<<Loop("while", "true", Try(If(s, Nil), h))>> \o t :
                     s \in Jumps, h \in Jumps, t \in Then}
GotoBodies ==
  {<<a, b, Label("L", c), d>> : a \in {E, Goto("L"), If(Goto("L"), Nil)}, b \in Small \cup {Goto("M")},
     c \in {E, Stmt("return"), If(Goto("L"), Nil)}, d \in {Label("M", E), Label("M", Stmt("return"))}}
  \cup {<<Loop("while", "true", Compound(<<If(Goto("L"), Nil), E>>)), Label("L", c)>> : c \in Small}

FinallyBodies ==
  {<<ObjCTry(s, h, f)>> \o t : s \in {E, If(Stmt("return"), Nil)}, h \in {Nil, E, Stmt("return")},
     f \in {E, Stmt("return")}, t \in Then}

MCBodies == LoopBodies \cup IfBodies \cup SwitchBodies \cup TryBodies \cup GotoBodies \cup FinallyBodies

\* A throw in the block its try begins in.
ThrowBodies == {<<Try(Compound(ss), h)>> \o t : ss \in Seqs(Small, 2), h \in {E, Stmt("return")}, t \in Then}
=============================================================================
