--------------------------- MODULE MCIncludeWalk ---------------------------
(* Small instances of IncludeWalk: the programs TLC walks. *)
EXTENDS IncludeWalk

NoPre == <<>>
NoUnits == [m \in {} |-> None]

L(k, x) == [k |-> k, x |-> x]
A == "A"
B == "B"

\* Every header of up to n lines over the alphabet ls.
UpTo(ls, n) == UNION {[1 .. k -> ls] : k \in 0 .. n}

\* The header g over the conditional directives, included twice by a primary
\* file that defines and undefines around the two.
CondLines ==
  {L("ifndef", A), L("ifnot", B), L("if", FALSE), L("elif", TRUE), L("elifdef", A),
   L("else", None), L("endif", None), L("define", A), L("text", None)}

CondMains ==
  {<<L("include", "g"), L("include", "g")>>,
   <<L("define", A), L("include", "g"), L("undef", A), L("include", "g")>>,
   <<L("define", B), L("include", "g"), L("undef", A), L("include", "g")>>}

\* No two lines of the header are wasted on directives that only report.
Balanced(ls) == WellFormed(ls) \/ Len(ls) <= 3

Program(m, g, h, um, un) ==
  [f \in {"main", "g", "h", "um", "un"} |->
     CASE f = "main" -> m [] f = "g" -> g [] f = "h" -> h [] f = "um" -> um [] f = "un" -> un]

CondPrograms ==
  {Program(m, g, <<>>, <<>>, <<>>) :
     g \in {ls \in UpTo(CondLines, 5) : Balanced(ls)}, m \in CondMains}

\* Two headers and two module interface units that include, import and pull in
\* one another, with a PreInclude, a missing header and an unknown module.
PreH == <<"h">>

UnitFiles == [m \in {"M", "N"} |-> IF m = "M" THEN "um" ELSE "un"]

IncludeLines ==
  {L("include", "g"), L("include", "h"), L("import", "g"), L("once", None),
   L("module", "M")}

UnitBodies ==
  {<<L("module", "N"), L("private", None), L("text", None)>>,
   <<L("include", "g"), L("module", "M"), L("module", "N"), L("null", None)>>}

IncludeMains ==
  {<<L("include", "g"), L("import", "h"), L("include", "g"), L("module", "M")>>,
   <<L("private", None), L("module", "N"), L("import", "g"), L("include", None),
     L("module", None), L("include", "g")>>}

UnitN ==
  <<L("module", "M"), L("include", "h"), L("pop", A), L("push", A), L("define", A),
    L("pop", A), L("bad", None)>>

IncludePrograms ==
  {Program(m, g, h, u, UnitN) :
     g \in UpTo(IncludeLines, 2), h \in UpTo(IncludeLines, 2),
     u \in UnitBodies, m \in IncludeMains}

MCPrograms == CondPrograms \cup IncludePrograms

\* A header under #if !defined A || 1, which holds whether A is defined or not.
DisjunctionHeader == <<L("ifnotor", A), L("text", None), L("define", A), L("endif", None)>>

TwiceMains ==
  {<<L("include", "h"), L("include", "h")>>,
   <<L("include", "h"), L("undef", A), L("include", "h")>>}

Twice(h) == {[f \in {"main", "h"} |-> IF f = "h" THEN h ELSE m] : m \in TwiceMains}
DisjunctionPrograms == Twice(DisjunctionHeader)
=============================================================================
