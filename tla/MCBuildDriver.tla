--------------------------- MODULE MCBuildDriver ---------------------------
(* Invocations of the driver for TLC. *)
EXTENDS BuildDriver

MCIdent == [s \in {"a", "b", "a-b", "a_b"} |-> IF s = "a-b" THEN "a_b" ELSE s]
MCVendorOf == [a \in {"sm_52", "sm_90", "gfx942", "apple7"} |->
                 CASE a = "gfx942" -> "amd" [] a = "apple7" -> "apple" [] OTHER -> "nvidia"]

In(dir, stem, ext, regs) == [dir |-> dir, stem |-> stem, rest |-> "", ext |-> ext, registers |-> regs]
Source(stem, ext) == In("", stem, ext, {})

\* Two inputs of different names: any two of the languages, a C file, and
\* objects that register nothing, a CUDA image or a HIP one.
One(stem) ==
  {Source(stem, e) : e \in {"cpp", "mm", "cu", "hip", "metal", "c"}}
  \cup {In("", stem, "o", r) : r \in {{}, {"cuda"}, {"hip"}}}
InputSeqs == {<<>>} \cup {<<i>> : i \in One("a")} \cup {<<i, j>> : i \in One("a"), j \in One("b")}

Archs == {<<>>, <<"sm_52">>, <<"sm_90", "sm_52", "sm_90">>, <<"gfx942">>,
          <<"sm_52", "gfx942">>, <<"apple7">>}

Plain == [inputs |-> <<>>, x |-> "", archs |-> <<>>, deviceOnly |-> FALSE, hostOnly |-> FALSE,
          compileOnly |-> FALSE, out |-> FALSE, cudart |-> "", toolkit |-> FALSE,
          run |-> FALSE, profile |-> FALSE]

MCConfigs ==
  {[Plain EXCEPT !.inputs = i, !.archs = a, !.deviceOnly = d = "device", !.hostOnly = d = "host",
                 !.compileOnly = c, !.out = o] :
     i \in InputSeqs, a \in Archs, d \in {"", "device", "host"}, c \in BOOLEAN, o \in BOOLEAN}
  \cup
  {[Plain EXCEPT !.inputs = <<i>>, !.x = x, !.archs = a, !.cudart = r, !.toolkit = t] :
     i \in One("a"), x \in {"", "cuda", "hip"}, a \in {<<>>, <<"sm_90">>},
     r \in {"", "vcx", "static", "none"}, t \in BOOLEAN}
  \cup
  {[Plain EXCEPT !.inputs = <<i>>, !.archs = a, !.out = TRUE, !.run = r, !.profile = TRUE] :
     i \in One("a"), a \in {<<>>, <<"sm_52", "sm_90">>}, r \in BOOLEAN}

\* -c of two sources whose names differ in their directory, in what follows the
\* first dot, or in a character no identifier has.
CollisionConfigs ==
  {[Plain EXCEPT !.inputs = <<i, j>>, !.compileOnly = TRUE, !.out = o] :
     i \in {In("x", "a", "cpp", {}), Source("a-b", "cpp")},
     j \in {In("y", "a", "cpp", {}), Source("a_b", "cpp")}, o \in BOOLEAN}
=============================================================================
