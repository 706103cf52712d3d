-------------------------- MODULE CudaTablesProof ---------------------------
(* What a call of the CUDA runtime may come to, for any units, devices and   *)
(* sizes of the tables: the tables stay well formed, an error is recorded,   *)
(* and every module and function in the tables is that of its own unit, in   *)
(* the image chosen for its device; the same of the registrations.           *)
EXTENDS CudaRuntime, WellFoundedInduction, TLAPS

Fatbins == [unit : Units, module : Nat, failed : BOOLEAN]
KernelEntries == [host : Stubs, fatbin : Nat, function : Nat]
VarEntries == [host : Shadows, fatbin : Nat]
Capabilities == UNION {Readings(SM[d]) : d \in Int}
Images == {findImage(Fatbin(e[u]), sm) : e \in Embeds, u \in Units, sm \in Capabilities}
Modules ==
  [unit : Units, image : Images, read : Capabilities, device : Int, live : BOOLEAN,
   refused : BOOLEAN]

State ==
  [loaded : {-1, 0, 1}, ready : BOOLEAN, ordinal : Int, device : Int,
   lastError : {"none", "error"}, fatbins : Seq(Fatbins), kernels : Seq(KernelEntries),
   vars : Seq(VarEntries), modules : Seq(Modules)]

Bounded(s) ==
  Len(s.fatbins) <= MaxFatbins /\ Len(s.kernels) <= MaxKernels /\ Len(s.vars) <= MaxVars

\* What the tables name is in the tables.
Within(s) ==
  /\ \A i \in DOMAIN s.fatbins : s.fatbins[i].module <= Len(s.modules)
  /\ \A i \in DOMAIN s.kernels :
       s.kernels[i].fatbin <= Len(s.fatbins) /\ s.kernels[i].function <= Len(s.modules)
  /\ \A i \in DOMAIN s.vars : s.vars[i].fatbin <= Len(s.fatbins)

WrittenOff(s) ==
  \A i \in DOMAIN s.fatbins : s.fatbins[i].failed => s.ready /\ s.fatbins[i].module = 0

Named(s) ==
  \A j \in DOMAIN s.modules : Owed(s.modules[j]) =>
    \E i \in DOMAIN s.fatbins : s.fatbins[i].module = j

Good(s) == s \in State /\ Bounded(s) /\ Within(s) /\ WrittenOff(s) /\ Named(s)

\* An outcome of a call from s: the state is as good, the tables have grown by
\* nothing, and an error is recorded unless it is the null handle's.
Comes(s, o) ==
  /\ Good(o.s)
  /\ Len(o.s.fatbins) = Len(s.fatbins) /\ Len(o.s.kernels) = Len(s.kernels)
  /\ Len(o.s.vars) = Len(s.vars)
  /\ \A i \in DOMAIN s.kernels : o.s.kernels[i].fatbin = s.kernels[i].fatbin
  /\ s.lastError = "error" => o.s.lastError = "error"
  /\ o.e \notin {"none", "null"} => o.s.lastError = "error"

-----------------------------------------------------------------------------
(* Tables *)

\* A sequence is a function on 1..Len.
LEMMA TableIndexed ==
  ASSUME NEW S, NEW s \in Seq(S)
  PROVE  /\ Len(s) \in Nat /\ DOMAIN s = 1..Len(s) /\ s \in [1..Len(s) -> S]
         /\ \A i \in 1..Len(s) : s[i] \in S
  OBVIOUS

\* A sequence and one element more.
LEMMA TableAppend ==
  ASSUME NEW S, NEW s \in Seq(S), NEW e \in S
  PROVE  /\ Append(s, e) \in Seq(S) /\ Len(Append(s, e)) = Len(s) + 1
         /\ Append(s, e)[Len(s) + 1] = e /\ \A i \in 1..Len(s) : Append(s, e)[i] = s[i]
  OBVIOUS

\* The fat binaries and one more.
LEMMA FatbinAppend ==
  ASSUME NEW a \in Seq(Fatbins), NEW e \in Fatbins
  PROVE  /\ DOMAIN Append(a, e) = 1..Len(a) + 1
         /\ Append(a, e)[Len(a) + 1] = e /\ \A i \in 1..Len(a) : Append(a, e)[i] = a[i]
  OBVIOUS

\* Two sequences one after the other.
LEMMA TableConcat ==
  ASSUME NEW S, NEW s \in Seq(S), NEW t \in Seq(S)
  PROVE  /\ s \o t \in Seq(S) /\ Len(s \o t) = Len(s) + Len(t)
         /\ \A i \in 1..Len(s) + Len(t) :
              (s \o t)[i] = IF i <= Len(s) THEN s[i] ELSE t[i - Len(s)]
  OBVIOUS

\* A part of a sequence.
LEMMA TablePart ==
  ASSUME NEW S, NEW s \in Seq(S), NEW m \in Int, NEW n \in Int, \A i \in m..n : s[i] \in S
  PROVE  /\ SubSeq(s, m, n) \in Seq(S)
         /\ Len(SubSeq(s, m, n)) = IF m <= n THEN n - m + 1 ELSE 0
         /\ \A i \in 1..n - m + 1 : SubSeq(s, m, n)[i] = s[m + i - 1]
  OBVIOUS

\* A function on 1..n is a sequence.
LEMMA TableOf ==
  ASSUME NEW S, NEW n \in Nat, NEW f \in [1..n -> S]
  PROVE  f \in Seq(S) /\ DOMAIN f = 1..n /\ Len(f) = n
  OBVIOUS

\* The position findKernel, findVar and the handle's lookup answer with.
LEMMA FirstIndex ==
  ASSUME NEW n \in Nat, NEW I, I \subseteq 1..n
  PROVE  LET x == IF I # {} THEN Min(I) ELSE 0
         IN x \in 0..n /\ (x # 0 => x \in I) /\ (x = 0 => I = {})
<1>1. CASE I = {}
  BY <1>1
<1>2. CASE I # {}
  <2> DEFINE less == {ss \in Nat \X Nat : ss[1] < ss[2]}
  <2>1. IsWellFoundedOn(less, Nat)
    BY NatLessThanWellFounded, Zenon DEF OpToRel
  <2>2. \A i \in I : i \in 0..n /\ i \in Nat /\ i # 0
    OBVIOUS
  <2>3. \A y, x \in Nat : y < x => <<y, x>> \in less
    OBVIOUS
  <2> HIDE DEF less
  <2>4. PICK x \in I : \A y \in I : ~(<<y, x>> \in less)
    <3>1. I \subseteq Nat
      BY <2>2
    <3> QED BY <1>2, <2>1, <3>1, WFMin, Zenon
  <2>5. ASSUME NEW y \in I PROVE x <= y
    <3>1. x \in Nat /\ y \in Nat
      BY <2>2
    <3>2. ~(y < x)
      BY <2>3, <2>4, <3>1, Zenon
    <3> QED BY <3>1, <3>2
  <2>6. Min(I) \in I
    <3>1. \E z \in I : \A y \in I : z <= y
      BY <2>5
    <3> QED BY <3>1, Zenon DEF Min
  <2>7. Min(I) \in 0..n /\ Min(I) # 0
    BY <2>2, <2>6, Zenon
  <2> QED BY <1>2, <2>6, <2>7
<1> QED BY <1>1, <1>2

\* A lookup answers with a position in its table, of what was looked for, or
\* with 0.
LEMMA LookupIndex ==
  ASSUME NEW s, Good(s)
  PROVE  /\ \A a : /\ Find(s.kernels, a) \in 0..Len(s.kernels)
                   /\ Find(s.kernels, a) # 0 => s.kernels[Find(s.kernels, a)].host = a
         /\ \A a : Find(s.vars, a) \in 0..Len(s.vars)
         /\ \A u : /\ Handle(s, u) \in 0..Len(s.fatbins)
                   /\ Handle(s, u) # 0 => s.fatbins[Handle(s, u)].unit = u
                   /\ Handle(s, u) = 0 => \A i \in 1..Len(s.fatbins) : s.fatbins[i].unit # u
<1>1. /\ Len(s.kernels) \in Nat /\ Len(s.vars) \in Nat /\ Len(s.fatbins) \in Nat
  BY TableIndexed DEF Good, State
<1>2. ASSUME NEW a
      PROVE  /\ Find(s.kernels, a) \in 0..Len(s.kernels)
             /\ Find(s.kernels, a) # 0 => s.kernels[Find(s.kernels, a)].host = a
  <2> DEFINE I == {i \in 1..Len(s.kernels) : s.kernels[i].host = a}
             x == IF I # {} THEN Min(I) ELSE 0
  <2>1. x \in 0..Len(s.kernels) /\ (x # 0 => x \in I)
    BY <1>1, FirstIndex, Zenon
  <2>2. Find(s.kernels, a) = x
    BY Zenon DEF Find, First
  <2> HIDE DEF x
  <2> QED BY <2>1, <2>2
<1>3. ASSUME NEW a PROVE Find(s.vars, a) \in 0..Len(s.vars)
  <2> DEFINE I == {i \in 1..Len(s.vars) : s.vars[i].host = a}
             x == IF I # {} THEN Min(I) ELSE 0
  <2>1. x \in 0..Len(s.vars)
    BY <1>1, FirstIndex, Zenon
  <2> QED BY <2>1, Zenon DEF Find, First
<1>4. ASSUME NEW u
      PROVE  /\ Handle(s, u) \in 0..Len(s.fatbins)
             /\ Handle(s, u) # 0 => s.fatbins[Handle(s, u)].unit = u
             /\ Handle(s, u) = 0 => \A i \in 1..Len(s.fatbins) : s.fatbins[i].unit # u
  <2> DEFINE I == {i \in 1..Len(s.fatbins) : s.fatbins[i].unit = u}
             x == IF I # {} THEN Min(I) ELSE 0
  <2>1. x \in 0..Len(s.fatbins) /\ (x # 0 => x \in I) /\ (x = 0 => I = {})
    BY <1>1, FirstIndex, Zenon
  <2>2. Handle(s, u) = x
    BY Zenon DEF Handle, First
  <2> HIDE DEF x
  <2> QED BY <2>1, <2>2
<1> QED BY <1>2, <1>3, <1>4

-----------------------------------------------------------------------------
(* Calls *)

\* Recording an error changes nothing else.
LEMMA FailComes ==
  ASSUME NEW s, Good(s), NEW err
  PROVE  Comes(s, Fail(s, err)) /\ Comes(s, Done(s))
<1> DEFINE t == [s EXCEPT !.lastError = "error"]
<1>1. s \in State
  BY DEF Good
<1>2. /\ t \in State /\ t.lastError = "error" /\ t.fatbins = s.fatbins /\ t.kernels = s.kernels
      /\ t.vars = s.vars /\ t.modules = s.modules /\ t.ready = s.ready
  BY <1>1, Zenon DEF State
<1>3. Good(t)
  BY <1>2 DEF Good, Bounded, Within, WrittenOff, Named
<1>4. Comes(s, [s |-> t, e |-> err, h |-> 0])
  <2> HIDE DEF t
  <2> QED BY <1>2, <1>3 DEF Comes
<1>5. Comes(s, Done(s))
  BY DEF Comes, Done
<1> QED BY <1>4, <1>5 DEF Fail

\* Two calls, one after the other.
LEMMA ComesTrans ==
  ASSUME NEW s, NEW o, NEW r, Good(s), Comes(s, o), Comes(o.s, r)
  PROVE  Comes(s, r)
<1>1. DOMAIN s.kernels = 1..Len(s.kernels) /\ DOMAIN o.s.kernels = 1..Len(o.s.kernels)
  BY TableIndexed DEF Good, Comes, State
<1> QED BY <1>1 DEF Comes

\* The tables stay as they are and a context, once ready, stays ready.
Quiet(s, t) ==
  /\ t \in State
  /\ t.fatbins = s.fatbins /\ t.kernels = s.kernels /\ t.vars = s.vars /\ t.modules = s.modules
  /\ s.ready => t.ready
  /\ t.lastError = s.lastError

\* A call that has changed none of the tables, and fails or does not.
LEMMA QuietComes ==
  ASSUME NEW s, NEW t, Good(s), Quiet(s, t), NEW err
  PROVE  Good(t) /\ Comes(s, Done(t)) /\ Comes(s, Fail(t, err))
<1>1. Good(t)
  BY DEF Good, Quiet, Bounded, Within, WrittenOff, Named
<1>2. Comes(s, Done(t))
  BY <1>1 DEF Comes, Done, Quiet
<1>3. Comes(Done(t).s, Fail(t, err))
  BY <1>1, FailComes, Zenon DEF Done
<1> QED BY <1>1, <1>2, <1>3, ComesTrans

\* Looking for the driver's library.
LEMMA DriverQuiet ==
  ASSUME NEW s, Good(s), NEW d \in loadDriver(s) PROVE Quiet(s, d)
<1>1. s \in State
  BY DEF Good
<1>2. ASSUME NEW l \in {1, -1} PROVE Quiet(s, [s EXCEPT !.loaded = l])
  BY <1>1, Zenon DEF State, Quiet
<1>3. CASE s.loaded = 0
  <2>1. PICK l \in {1, -1} : d = [s EXCEPT !.loaded = l]
    BY <1>3 DEF loadDriver
  <2> QED BY <1>2, <2>1
<1>4. CASE s.loaded # 0
  BY <1>1, <1>4 DEF loadDriver, Quiet
<1> QED BY <1>3, <1>4

\* A context that is answered for is ready, and no table has changed.
LEMMA ContextComes ==
  ASSUME NEW s, Good(s), NEW o \in ensureContext(s)
  PROVE  /\ Comes(s, o) /\ o.e # "null"
         /\ o.e = "none" => o.s.ready /\ Quiet(s, o.s)
<1>1. CASE s.ready
  <2>1. o = Done(s)
    BY <1>1 DEF ensureContext
  <2> QED BY <1>1, <2>1, FailComes DEF Done, Quiet, Good
<1>2. CASE ~s.ready
  <2>1. PICK d \in loadDriver(s) :
          o \in IF d.loaded = 1 THEN MakeContext(d) ELSE {Fail(d, "NoDevice")}
    BY <1>2 DEF ensureContext
  <2>2. Quiet(s, d)
    BY DriverQuiet
  <2> DEFINE got == [d EXCEPT !.device = d.ordinal]
             set == [got EXCEPT !.ready = TRUE]
  <2>3. Quiet(s, got) /\ Quiet(s, set) /\ set.ready
    BY <2>2, Zenon DEF Quiet, State
  <2> HIDE DEF got, set
  <2>4. CASE \/ o = Fail(d, "Driver") \/ o = Fail(d, "NoDevice") \/ o = Fail(got, "Driver")
    <3>1. o.e \in {"Driver", "NoDevice"}
      BY <2>4 DEF Fail
    <3> QED BY <2>2, <2>3, <2>4, <3>1, QuietComes
  <2>5. CASE o = Done(set)
    <3>1. o.s = set /\ o.e = "none"
      BY <2>5 DEF Done
    <3> QED BY <2>3, <2>5, <3>1, QuietComes
  <2> QED BY <2>1, <2>4, <2>5 DEF MakeContext, got, set
<1> QED BY <1>1, <1>2

\* A fat binary is written off.
LEMMA FailedComes ==
  ASSUME NEW s, Good(s), s.ready, NEW fb \in DOMAIN s.fatbins, s.fatbins[fb].module = 0, NEW err
  PROVE  Comes(s, Fail([s EXCEPT !.fatbins[fb].failed = TRUE], err))
<1> DEFINE f == [s.fatbins EXCEPT ![fb].failed = TRUE]
           t == [s EXCEPT !.fatbins = f]
<1>1. s \in State /\ s.fatbins \in Seq(Fatbins) /\ DOMAIN s.fatbins = 1..Len(s.fatbins)
  BY TableIndexed DEF Good, State
<1>2. /\ f \in Seq(Fatbins) /\ Len(f) = Len(s.fatbins) /\ DOMAIN f = DOMAIN s.fatbins
      /\ \A i \in DOMAIN f : f[i].module = s.fatbins[i].module /\ (i # fb => f[i] = s.fatbins[i])
  <2>1. s.fatbins[fb] \in Fatbins
    BY <1>1, TableIndexed
  <2>2. /\ [s.fatbins[fb] EXCEPT !.failed = TRUE] \in Fatbins
        /\ [s.fatbins[fb] EXCEPT !.failed = TRUE].module = s.fatbins[fb].module
    BY <2>1, Zenon DEF Fatbins
  <2> QED BY <1>1, <2>2
<1> HIDE DEF f
<1>3. /\ t \in State /\ t.fatbins = f /\ t.kernels = s.kernels /\ t.vars = s.vars
      /\ t.modules = s.modules /\ t.ready = s.ready /\ t.lastError = s.lastError
  BY <1>1, <1>2, Zenon DEF State
<1> HIDE DEF t
<1>4. Bounded(t) /\ Within(t) /\ Named(t)
  <2>1. \A i \in DOMAIN s.fatbins : f[i].module = s.fatbins[i].module
    BY <1>2, Zenon
  <2>2. Bounded(t)
    BY <1>2, <1>3, Zenon DEF Good, Bounded
  <2>3. Within(t)
    BY <1>2, <1>3, <2>1, Zenon DEF Good, Within
  <2>4. Named(t)
    <3>1. ASSUME NEW j \in DOMAIN t.modules, Owed(t.modules[j])
          PROVE  \E i \in DOMAIN t.fatbins : t.fatbins[i].module = j
      <4>1. PICK i \in DOMAIN s.fatbins : s.fatbins[i].module = j
        BY <1>3, <3>1, Zenon DEF Good, Named
      <4> QED BY <1>2, <1>3, <2>1, <4>1, Zenon
    <3> QED BY <3>1, Zenon DEF Named
  <2> QED BY <2>2, <2>3, <2>4, Zenon
<1>5. WrittenOff(t)
  BY <1>2, <1>3 DEF Good, WrittenOff
<1>6. Good(t) /\ Comes(s, Done(t))
  BY <1>2, <1>3, <1>4, <1>5 DEF Good, Comes, Done
<1>7. Comes(Done(t).s, Fail(t, err))
  BY <1>6, FailComes DEF Done
<1>8. Comes(s, Fail(t, err))
  BY <1>6, <1>7, ComesTrans
<1> QED BY <1>1, <1>8 DEF t, f

\* A module is loaded, for a fat binary that has none.
LEMMA LoadedComes ==
  ASSUME NEW s, Good(s), s.ready, NEW fb \in DOMAIN s.fatbins,
         s.fatbins[fb].module = 0, ~s.fatbins[fb].failed, NEW mod \in Modules
  PROVE  Comes(s, Done([s EXCEPT !.fatbins[fb].module = Len(s.modules) + 1,
                                 !.modules = Append(@, mod)]))
<1> DEFINE n == Len(s.modules) + 1
           f == [s.fatbins EXCEPT ![fb].module = n]
           ms == Append(s.modules, mod)
           t == [s EXCEPT !.fatbins = f, !.modules = ms]
<1>1. /\ s \in State /\ s.fatbins \in Seq(Fatbins) /\ DOMAIN s.fatbins = 1..Len(s.fatbins)
      /\ s.modules \in Seq(Modules) /\ Len(s.modules) \in Nat
      /\ DOMAIN s.modules = 1..Len(s.modules)
  BY TableIndexed DEF Good, State
<1>0. n \in Nat /\ n = Len(s.modules) + 1
  BY <1>1
<1> HIDE DEF n
<1>2. /\ f \in Seq(Fatbins) /\ Len(f) = Len(s.fatbins) /\ DOMAIN f = DOMAIN s.fatbins
      /\ f[fb].module = n /\ f[fb].failed = s.fatbins[fb].failed
      /\ \A i \in DOMAIN f : i # fb => f[i] = s.fatbins[i]
  <2>1. s.fatbins[fb] \in Fatbins
    BY <1>1, TableIndexed
  <2>2. /\ [s.fatbins[fb] EXCEPT !.module = n] \in Fatbins
        /\ [s.fatbins[fb] EXCEPT !.module = n].failed = s.fatbins[fb].failed
        /\ [s.fatbins[fb] EXCEPT !.module = n].module = n
    BY <1>0, <2>1 DEF Fatbins
  <2> QED BY <1>1, <2>2
<1>3. /\ ms \in Seq(Modules) /\ Len(ms) = n /\ DOMAIN ms = 1..n
      /\ \A j \in DOMAIN s.modules : ms[j] = s.modules[j]
  BY <1>0, <1>1
<1> HIDE DEF f, ms
<1>4. /\ t \in State /\ t.fatbins = f /\ t.kernels = s.kernels /\ t.vars = s.vars
      /\ t.modules = ms /\ t.ready = s.ready /\ t.lastError = s.lastError
  BY <1>1, <1>2, <1>3, Zenon DEF State
<1> HIDE DEF t
<1>5. Bounded(t)
  BY <1>2, <1>4 DEF Good, Bounded
<1>6. Within(t)
  <2>1. ASSUME NEW i \in DOMAIN f PROVE f[i].module <= n
    <3>1. s.fatbins[i].module <= Len(s.modules) /\ s.fatbins[i] \in Fatbins
      BY <1>1, <1>2, TableIndexed DEF Good, Within
    <3>2. s.fatbins[i].module \in Nat
      BY <3>1 DEF Fatbins
    <3>3. CASE i = fb
      BY <1>0, <1>2, <3>3
    <3>4. CASE i # fb
      BY <1>0, <1>1, <1>2, <3>1, <3>2, <3>4
    <3> QED BY <3>3, <3>4
  <2>2. ASSUME NEW i \in DOMAIN s.kernels
        PROVE  s.kernels[i].fatbin <= Len(f) /\ s.kernels[i].function <= n
    <3>1. s.kernels \in Seq(KernelEntries)
      BY DEF Good, State
    <3>2. s.kernels[i] \in KernelEntries
      BY <3>1, TableIndexed
    <3>3. s.kernels[i].fatbin <= Len(s.fatbins) /\ s.kernels[i].function <= Len(s.modules)
      BY DEF Good, Within
    <3> QED BY <1>0, <1>1, <1>2, <3>2, <3>3 DEF KernelEntries
  <2> QED BY <1>2, <1>3, <1>4, <2>1, <2>2 DEF Good, Within
<1>7. WrittenOff(t)
  BY <1>2, <1>4 DEF Good, WrittenOff
<1>8. Named(t)
  <2> SUFFICES ASSUME NEW j \in DOMAIN ms, Owed(ms[j]) PROVE \E i \in DOMAIN f : f[i].module = j
    BY <1>4 DEF Named
  <2>1. CASE j = n
    BY <1>2, <2>1
  <2>2. CASE j # n
    <3>1. j \in DOMAIN s.modules /\ Owed(s.modules[j]) /\ j # 0
      BY <1>0, <1>1, <1>3, <2>2
    <3>2. PICK i \in DOMAIN s.fatbins : s.fatbins[i].module = j
      BY <3>1 DEF Good, Named
    <3> QED BY <1>2, <3>1, <3>2
  <2> QED BY <2>1, <2>2
<1>9. Comes(s, Done(t))
  BY <1>2, <1>4, <1>5, <1>6, <1>7, <1>8 DEF Good, Comes, Done
<1> QED BY <1>1, <1>9 DEF t, f, ms, n

\* loadModule, from the context it makes to the module it finds or loads.
LEMMA ModuleComes ==
  ASSUME NEW s, Good(s), images \in Embeds, NEW fb \in 0..Len(s.fatbins), NEW o \in loadModule(s, fb)
  PROVE  Comes(s, o) /\ (o.e = "none" => fb \in DOMAIN o.s.fatbins)
<1>1. Len(s.fatbins) \in Nat /\ s.fatbins \in Seq(Fatbins) /\ DOMAIN s.fatbins = 1..Len(s.fatbins)
  BY TableIndexed DEF Good, State
<1>2. CASE fb = 0
  <2>1. o = FailSilently(s, "null")
    BY <1>2 DEF loadModule
  <2> QED BY <2>1 DEF Comes, FailSilently
<1>3. CASE fb # 0
  <2>1. fb \in DOMAIN s.fatbins
    BY <1>1, <1>3
  <2>2. Comes(s, o) => fb \in DOMAIN o.s.fatbins
    <3>1. Comes(s, o) => DOMAIN o.s.fatbins = 1..Len(o.s.fatbins) /\ Len(o.s.fatbins) = Len(s.fatbins)
      BY TableIndexed DEF Comes, Good, State
    <3> QED BY <1>1, <2>1, <3>1
  <2>3. CASE s.fatbins[fb].module # 0 \/ s.fatbins[fb].failed
    <3>1. o = Done(s) \/ o = Fail(s, "InvalidDeviceFunction")
      BY <1>3, <2>3 DEF loadModule
    <3> QED BY <2>2, <3>1, FailComes
  <2>4. CASE s.fatbins[fb].module = 0 /\ ~s.fatbins[fb].failed
    <3>1. PICK c \in ensureContext(s) : o \in IF c.e = "none" THEN LoadData(c.s, fb) ELSE {c}
      BY <1>3, <2>4 DEF loadModule, Then
    <3>2. Comes(s, c) /\ (c.e = "none" => c.s.ready /\ Quiet(s, c.s))
      BY ContextComes
    <3>3. CASE c.e # "none"
      BY <2>2, <3>1, <3>2, <3>3
    <3>4. CASE c.e = "none"
      <4>1. /\ Good(c.s) /\ c.s.ready /\ fb \in DOMAIN c.s.fatbins /\ c.s.fatbins[fb].module = 0
            /\ ~c.s.fatbins[fb].failed /\ c.s \in State
        BY <2>1, <2>4, <3>2, <3>4 DEF Comes, Quiet
      <4>5. PICK sm \in Readings(SM[c.s.device]) : o \in LoadImage(c.s, fb, sm)
        BY <3>1, <3>4, Zenon DEF LoadData
      <4> DEFINE u == c.s.fatbins[fb].unit
                 image == findImage(Fatbin(images[u]), sm)
                 mod == [unit |-> u, image |-> image, read |-> sm, device |-> c.s.device,
                         live |-> TRUE, refused |-> FALSE]
      <4>2. mod \in Modules
        <5>1. c.s.fatbins[fb] \in Fatbins
          <6>1. c.s.fatbins \in Seq(Fatbins)
            BY <4>1 DEF State
          <6> QED BY <4>1, <6>1, TableIndexed, Zenon
        <5>2. u \in Units /\ c.s.device \in Int
          BY <4>1, <5>1, Zenon DEF Fatbins, State
        <5>4. sm \in Capabilities
          BY <5>2, Zenon DEF Capabilities
        <5>3. image \in Images
          BY <5>2, <5>4 DEF Images
        <5> HIDE DEF image
        <5> QED BY <5>2, <5>3, <5>4 DEF Modules
      <4>3. \/ o = Fail([c.s EXCEPT !.fatbins[fb].failed = TRUE], "InvalidDeviceFunction")
            \/ o = Fail([c.s EXCEPT !.fatbins[fb].failed = TRUE], "Driver")
            \/ o = Done([c.s EXCEPT !.fatbins[fb].module = Len(c.s.modules) + 1,
                                    !.modules = Append(@, mod)])
        BY <4>5, Zenon DEF LoadImage, NoImage, Refused
      <4> HIDE DEF mod
      <4>4. Comes(c.s, o)
        BY <4>1, <4>2, <4>3, FailedComes, LoadedComes, Zenon
      <4> QED BY <2>2, <3>2, <4>4, ComesTrans
    <3> QED BY <3>3, <3>4
  <2> QED BY <2>3, <2>4
<1> QED BY <1>2, <1>3

\* A kernel keeps the function it was found to have.
LEMMA FunctionKept ==
  ASSUME NEW s, Good(s), NEW k \in DOMAIN s.kernels, NEW f \in Nat, f <= Len(s.modules)
  PROVE  Comes(s, Answer([s EXCEPT !.kernels[k].function = f], f))
<1> DEFINE ks == [s.kernels EXCEPT ![k].function = f]
           t == [s EXCEPT !.kernels = ks]
<1>1. s \in State /\ s.kernels \in Seq(KernelEntries) /\ DOMAIN s.kernels = 1..Len(s.kernels)
  BY TableIndexed DEF Good, State
<1>2. /\ ks \in Seq(KernelEntries) /\ Len(ks) = Len(s.kernels) /\ DOMAIN ks = DOMAIN s.kernels
      /\ ks[k].function = f
      /\ \A i \in DOMAIN ks : ks[i].fatbin = s.kernels[i].fatbin /\ (i # k => ks[i] = s.kernels[i])
  <2>1. s.kernels[k] \in KernelEntries
    BY <1>1, TableIndexed
  <2>2. /\ [s.kernels[k] EXCEPT !.function = f] \in KernelEntries
        /\ [s.kernels[k] EXCEPT !.function = f].fatbin = s.kernels[k].fatbin
        /\ [s.kernels[k] EXCEPT !.function = f].function = f
    BY <2>1 DEF KernelEntries
  <2> QED BY <1>1, <2>2
<1> HIDE DEF ks
<1>3. /\ t \in State /\ t.fatbins = s.fatbins /\ t.kernels = ks /\ t.vars = s.vars
      /\ t.modules = s.modules /\ t.ready = s.ready /\ t.lastError = s.lastError
  BY <1>1, <1>2, Zenon DEF State
<1> HIDE DEF t
<1>4. Bounded(t) /\ WrittenOff(t) /\ Named(t)
  BY <1>2, <1>3 DEF Good, Bounded, WrittenOff, Named
<1>5. Within(t)
  BY <1>2, <1>3 DEF Good, Within
<1>6. Comes(s, Answer(t, f))
  BY <1>2, <1>3, <1>4, <1>5 DEF Good, Comes, Answer
<1> QED BY <1>1, <1>6 DEF t, ks

\* functionOf, for a kernel in the table.
LEMMA FunctionComes ==
  ASSUME NEW s, Good(s), images \in Embeds, NEW k \in DOMAIN s.kernels, NEW o \in functionOf(s, k)
  PROVE  Comes(s, o)
<1>1. /\ s.kernels \in Seq(KernelEntries) /\ DOMAIN s.kernels = 1..Len(s.kernels)
      /\ Len(s.fatbins) \in Nat /\ Len(s.kernels) \in Nat
  BY TableIndexed DEF Good, State
<1>2. s.kernels[k] \in KernelEntries /\ s.kernels[k].fatbin <= Len(s.fatbins)
  BY <1>1, TableIndexed DEF Good, Within
<1>3. s.kernels[k].fatbin \in 0..Len(s.fatbins)
  BY <1>1, <1>2 DEF KernelEntries
<1>4. CASE s.kernels[k].function # 0
  <2>1. functionOf(s, k) = {Answer(s, s.kernels[k].function)}
    BY <1>4, Zenon DEF functionOf
  <2>2. o.s = s /\ o.e = "none"
    BY <2>1 DEF Answer
  <2> QED BY <2>2 DEF Comes
<1>5. CASE s.kernels[k].function = 0
  <2> DEFINE fb(l) == l.s.kernels[k].fatbin
             f(l) == l.s.fatbins[fb(l)].module
  <2>1. PICK l \in loadModule(s, s.kernels[k].fatbin) :
          o \in IF l.e = "none"
                THEN {Fail(l.s, "Driver"), Answer([l.s EXCEPT !.kernels[k].function = f(l)], f(l))}
                ELSE {l}
    BY <1>5, ZenonT(30) DEF functionOf, Then
  <2>2. Comes(s, l) /\ (l.e = "none" => s.kernels[k].fatbin \in DOMAIN l.s.fatbins)
    BY <1>3, ModuleComes
  <2>3. CASE l.e # "none"
    BY <2>1, <2>2, <2>3
  <2>4. CASE l.e = "none"
    <3>1. Good(l.s) /\ fb(l) \in DOMAIN l.s.fatbins /\ l.s.fatbins \in Seq(Fatbins)
      BY <2>2, <2>4 DEF Comes, Good, State
    <3>2. l.s.fatbins[fb(l)] \in Fatbins
      BY <3>1, TableIndexed
    <3>3. f(l) \in Nat /\ f(l) <= Len(l.s.modules)
      BY <3>1, <3>2, Zenon DEF Good, Within, Fatbins
    <3>4. k \in DOMAIN l.s.kernels
      <4>1. DOMAIN l.s.kernels = 1..Len(l.s.kernels) /\ Len(l.s.kernels) = Len(s.kernels)
        BY <2>2, TableIndexed, ZenonT(40) DEF Comes, Good, State
      <4> QED BY <1>1, <4>1
    <3>5. o = Fail(l.s, "Driver") \/ o = Answer([l.s EXCEPT !.kernels[k].function = f(l)], f(l))
      BY <2>1, <2>4
    <3> HIDE DEF f, fb
    <3>6. Comes(l.s, o)
      BY <3>1, <3>3, <3>4, <3>5, FailComes, FunctionKept
    <3> QED BY <2>2, <3>6, ComesTrans
  <2> QED BY <2>3, <2>4
<1> QED BY <1>4, <1>5

\* __vcx_cudaLaunch.
LEMMA LaunchComes ==
  ASSUME NEW s, Good(s), images \in Embeds, NEW stub, NEW o \in Launch(s, stub)
  PROVE  Comes(s, o)
<1> DEFINE k == Find(s.kernels, stub)
<1>1. /\ k \in 0..Len(s.kernels) /\ Len(s.kernels) \in Nat
      /\ DOMAIN s.kernels = 1..Len(s.kernels)
  BY LookupIndex, TableIndexed DEF Good, State
<1>2. /\ k = 0 => o = Fail(s, "InvalidDeviceFunction")
      /\ k # 0 => \E f \in functionOf(s, k) :
                    o \in IF f.e = "none" THEN {Fail(f.s, "Driver"), f} ELSE {f}
  BY DEF Launch, Then
<1> HIDE DEF k
<1>3. CASE k = 0
  BY <1>2, <1>3, FailComes
<1>4. CASE k # 0
  <2>1. PICK f \in functionOf(s, k) : o = Fail(f.s, "Driver") \/ o = f
    BY <1>2, <1>4
  <2>2. Comes(s, f)
    BY <1>1, <1>4, FunctionComes
  <2>3. Comes(f.s, Fail(f.s, "Driver"))
    BY <2>2, FailComes DEF Comes
  <2> QED BY <2>1, <2>2, <2>3, ComesTrans
<1> QED BY <1>3, <1>4

\* A call to the driver after one that may have failed.
LEMMA CheckComes ==
  ASSUME NEW s, NEW c, NEW o, Good(s), Comes(s, c),
         o \in IF c.e = "none" THEN Check(c.s) ELSE {c}
  PROVE  Comes(s, o)
<1>1. Comes(c.s, Fail(c.s, "Driver")) /\ Comes(c.s, Done(c.s))
  BY FailComes, ZenonT(40) DEF Comes
<1>2. o = c \/ o = Done(c.s) \/ o = Fail(c.s, "Driver")
  BY DEF Check
<1> QED BY <1>1, <1>2, ComesTrans

\* The memory calls and the symbol calls.
LEMMA MemoryComes ==
  ASSUME NEW s, Good(s), images \in Embeds
  PROVE  /\ \A o \in Then(ensureContext(s), LAMBDA c : Check(c.s)) : Comes(s, o)
         /\ \A v \in DOMAIN s.vars :
              \A o \in Then(addressOf(s, v), LAMBDA a : Check(a.s)) : Comes(s, o)
<1>1. ASSUME NEW o \in Then(ensureContext(s), LAMBDA c : Check(c.s)) PROVE Comes(s, o)
  <2>1. PICK c \in ensureContext(s) : o \in IF c.e = "none" THEN Check(c.s) ELSE {c}
    BY DEF Then
  <2> QED BY <2>1, ContextComes, CheckComes
<1>2. ASSUME NEW v \in DOMAIN s.vars,
             NEW o \in Then(addressOf(s, v), LAMBDA a : Check(a.s))
      PROVE  Comes(s, o)
  <2>1. PICK a \in addressOf(s, v) : o \in IF a.e = "none" THEN Check(a.s) ELSE {a}
    BY DEF Then
  <2>2. PICK l \in loadModule(s, s.vars[v].fatbin) : a \in IF l.e = "none" THEN Check(l.s) ELSE {l}
    BY DEF addressOf, Then
  <2>3. s.vars[v].fatbin \in 0..Len(s.fatbins)
    <3>1. s.vars \in Seq(VarEntries) /\ Len(s.fatbins) \in Nat
      BY TableIndexed DEF Good, State
    <3>2. s.vars[v] \in VarEntries /\ s.vars[v].fatbin <= Len(s.fatbins)
      BY <3>1, TableIndexed DEF Good, Within
    <3> QED BY <3>1, <3>2 DEF VarEntries
  <2> QED BY <2>1, <2>2, <2>3, ModuleComes, CheckComes
<1> QED BY <1>1, <1>2, Zenon

-----------------------------------------------------------------------------
(* Registration *)

SameDevice(s, t) == t.ready = s.ready /\ t.device = s.device /\ t.ordinal = s.ordinal

\* What __cudaRegisterFatBinary does to the tables.
Entered(s, t, h, u) ==
  /\ SameDevice(s, t) /\ t.kernels = s.kernels /\ t.modules = s.modules
  /\ \/ h = 0 /\ t.fatbins = s.fatbins
     \/ h = Len(s.fatbins) + 1 /\ t.fatbins = Append(s.fatbins, NewFatbin(u))

\* __cudaRegisterFatBinary, whether or not the table has room.
LEMMA FatBinaryRegistered ==
  ASSUME NEW s, Good(s), NEW u \in Units
  PROVE  LET reg == RegisterFatBinary(s, u)
         IN /\ Good(reg.s) /\ reg.h \in 0..Len(reg.s.fatbins) /\ reg.s.lastError = s.lastError
            /\ Entered(s, reg.s, reg.h, u)
<1>1. s \in State /\ s.fatbins \in Seq(Fatbins) /\ Len(s.fatbins) \in Nat /\ MaxFatbins \in Nat
  BY TableIndexed, TablesAssumption DEF Good, State
<1>2. CASE Len(s.fatbins) >= MaxFatbins
  BY <1>1, <1>2 DEF RegisterFatBinary, Answer, Entered, SameDevice
<1>3. CASE ~(Len(s.fatbins) >= MaxFatbins)
  <2> DEFINE fs == Append(s.fatbins, NewFatbin(u))
             t == [s EXCEPT !.fatbins = fs]
  <2>1. NewFatbin(u) \in Fatbins /\ NewFatbin(u).module = 0 /\ NewFatbin(u).failed = FALSE
    BY DEF NewFatbin, Fatbins
  <2>2. /\ fs \in Seq(Fatbins) /\ Len(fs) = Len(s.fatbins) + 1
        /\ fs[Len(s.fatbins) + 1] = NewFatbin(u)
        /\ DOMAIN fs = 1..(Len(s.fatbins) + 1) /\ DOMAIN s.fatbins = 1..Len(s.fatbins)
        /\ \A i \in 1..Len(s.fatbins) : fs[i] = s.fatbins[i]
    BY <1>1, <2>1, TableAppend, TableIndexed
  <2> HIDE DEF fs
  <2>3. /\ t \in State /\ t.fatbins = fs /\ t.kernels = s.kernels /\ t.vars = s.vars
        /\ t.modules = s.modules /\ t.ready = s.ready /\ t.lastError = s.lastError
        /\ t.device = s.device /\ t.ordinal = s.ordinal
    BY <1>1, <2>2, Zenon DEF State
  <2> HIDE DEF t
  <2>4. \A i \in DOMAIN fs : i \in DOMAIN s.fatbins \/ fs[i] = NewFatbin(u)
    BY <1>1, <2>2
  <2>5. Bounded(t)
    BY <1>1, <1>3, <2>2, <2>3 DEF Good, Bounded
  <2>6. Within(t)
    <3>1. Len(s.modules) \in Nat /\ s.kernels \in Seq(KernelEntries) /\ s.vars \in Seq(VarEntries)
      BY <1>1, TableIndexed DEF State
    <3>2. /\ \A i \in DOMAIN s.kernels : s.kernels[i] \in KernelEntries
          /\ \A i \in DOMAIN s.vars : s.vars[i] \in VarEntries
      BY <3>1, TableIndexed
    <3>3. \A i \in DOMAIN fs : fs[i].module <= Len(s.modules)
      BY <2>1, <2>2, <2>4, <3>1 DEF Good, Within
    <3> QED BY <1>1, <2>2, <2>3, <3>2, <3>3 DEF Good, Within, KernelEntries, VarEntries
  <2>7. WrittenOff(t)
    BY <2>1, <2>2, <2>3, <2>4 DEF Good, WrittenOff
  <2>8. Named(t)
    BY <1>1, <2>2, <2>3 DEF Good, Named
  <2>9. RegisterFatBinary(s, u) = Answer(t, Len(s.fatbins) + 1)
    BY <1>3 DEF RegisterFatBinary, t, fs
  <2>10. Entered(s, t, Len(s.fatbins) + 1, u)
    BY <2>3 DEF Entered, SameDevice, fs
  <2> QED BY <1>1, <2>2, <2>3, <2>5, <2>6, <2>7, <2>8, <2>9, <2>10 DEF Answer, Good
<1> QED BY <1>2, <1>3

Grown(table, added, new) ==
  \A i \in DOMAIN new :
    (i \in DOMAIN table /\ new[i] = table[i]) \/ (\E j \in DOMAIN added : new[i] = added[j])

\* A table takes the entries it has room for.
LEMMA TableGrows ==
  ASSUME NEW S, NEW table \in Seq(S), NEW added \in Seq(S), NEW max \in Nat, Len(table) <= max,
         NEW room, room = max - Len(table), NEW new, new = table \o Fitting(added, room)
  PROVE  new \in Seq(S) /\ Len(new) <= max /\ Grown(table, added, new)
<1> DEFINE n == IF Len(added) < room THEN Len(added) ELSE room
           fit == SubSeq(added, 1, n)
<1>1. /\ Len(table) \in Nat /\ Len(added) \in Nat /\ DOMAIN table = 1..Len(table)
      /\ DOMAIN added = 1..Len(added)
  BY TableIndexed
<1>2. room \in Nat /\ n \in Nat /\ n <= Len(added) /\ n <= room /\ Len(table) + n <= max
  BY <1>1
<1>7. new = table \o fit
  BY DEF Fitting
<1> HIDE DEF n
<1>3. fit \in Seq(S) /\ Len(fit) = n /\ \A i \in 1..n : fit[i] = added[i]
  <2>1. \A i \in 1..n : added[i] \in S
    BY <1>1, <1>2, TableIndexed
  <2>2. /\ fit \in Seq(S)
        /\ Len(fit) = IF 1 <= n THEN n - 1 + 1 ELSE 0
        /\ \A i \in 1..(n - 1 + 1) : fit[i] = added[1 + i - 1]
    BY <1>1, <1>2, <2>1, TablePart
  <2> QED BY <1>2, <2>2
<1> HIDE DEF fit
<1>4. /\ new \in Seq(S) /\ Len(new) = Len(table) + n
      /\ \A i \in 1..Len(new) : new[i] = IF i <= Len(table) THEN table[i] ELSE fit[i - Len(table)]
  <2>1. /\ table \o fit \in Seq(S) /\ Len(table \o fit) = Len(table) + n
        /\ \A i \in 1..(Len(table) + n) :
             (table \o fit)[i] = IF i <= Len(table) THEN table[i] ELSE fit[i - Len(table)]
    BY <1>3, TableConcat, Zenon
  <2> QED BY <1>7, <2>1, Zenon
<1>5. DOMAIN new = 1..Len(new)
  BY <1>4, TableIndexed
<1>6. ASSUME NEW i \in DOMAIN new
      PROVE  (i \in DOMAIN table /\ new[i] = table[i]) \/ (\E j \in DOMAIN added : new[i] = added[j])
  <2>1. CASE i <= Len(table)
    BY <1>1, <1>4, <1>5, <2>1
  <2>2. CASE ~(i <= Len(table))
    <3>1. i - Len(table) \in 1..n /\ i - Len(table) \in DOMAIN added
      BY <1>1, <1>2, <1>4, <1>5, <2>2
    <3> QED BY <1>3, <1>4, <1>5, <2>2, <3>1, Zenon
  <2> QED BY <2>1, <2>2
<1>8. Grown(table, added, new)
  BY <1>6 DEF Grown
<1> QED BY <1>2, <1>4, <1>8

\* What the calls of __cudaRegisterFunction do to the tables.
Defined(s, t, fb, stubs) ==
  /\ SameDevice(s, t) /\ t.fatbins = s.fatbins /\ t.modules = s.modules
  /\ \A i \in DOMAIN t.kernels :
       \/ i \in DOMAIN s.kernels /\ t.kernels[i] = s.kernels[i]
       \/ /\ t.kernels[i].fatbin = fb /\ t.kernels[i].function = 0
          /\ \E j \in DOMAIN stubs : t.kernels[i].host = stubs[j]

\* The calls of __cudaRegisterFunction for a unit's stubs.
LEMMA FunctionsRegistered ==
  ASSUME NEW s, Good(s), NEW fb \in 0..Len(s.fatbins), NEW stubs \in Seq(Stubs)
  PROVE  LET t == RegisterFunctions(s, fb, stubs)
         IN Good(t) /\ t.lastError = s.lastError /\ Defined(s, t, fb, stubs)
<1> DEFINE added == [i \in DOMAIN stubs |-> [host |-> stubs[i], fatbin |-> fb, function |-> 0]]
           old == s.kernels
           room == MaxKernels - Len(old)
           new == old \o Fitting(added, room)
           t == [s EXCEPT !.kernels = new]
<1>1. /\ s \in State /\ s.kernels \in Seq(KernelEntries) /\ Len(s.fatbins) \in Nat
      /\ Len(s.modules) \in Nat /\ MaxKernels \in Nat /\ Len(s.kernels) <= MaxKernels
  BY TableIndexed, TablesAssumption DEF Good, State, Bounded
<1>2. DOMAIN stubs = 1..Len(stubs) /\ Len(stubs) \in Nat /\ \A i \in DOMAIN stubs : stubs[i] \in Stubs
  BY TableIndexed
<1>3. \A i \in DOMAIN stubs :
        /\ added[i] \in KernelEntries /\ added[i].fatbin = fb /\ added[i].function = 0
        /\ added[i].host = stubs[i]
  BY <1>1, <1>2 DEF KernelEntries
<1>4. added \in Seq(KernelEntries) /\ DOMAIN added = DOMAIN stubs
  <2>1. added \in [1..Len(stubs) -> KernelEntries]
    BY <1>2, <1>3
  <2> QED BY <1>2, <2>1, TableOf
<1> HIDE DEF added
<1>10. new = old \o Fitting(added, room) /\ room = MaxKernels - Len(old) /\ old = s.kernels
  OBVIOUS
<1> HIDE DEF new, old, room
<1>5. /\ new \in Seq(KernelEntries) /\ Len(new) <= MaxKernels
      /\ \A i \in DOMAIN new :
           (i \in DOMAIN s.kernels /\ new[i] = s.kernels[i]) \/ (\E j \in DOMAIN added : new[i] = added[j])
  <2>1. old \in Seq(KernelEntries) /\ Len(old) <= MaxKernels
    BY <1>1, <1>10
  <2>2. MaxKernels \in Nat /\ added \in Seq(KernelEntries) /\ room = MaxKernels - Len(old)
        /\ new = old \o Fitting(added, room)
    BY <1>1, <1>4, <1>10
  <2>3. new \in Seq(KernelEntries) /\ Len(new) <= MaxKernels /\ Grown(old, added, new)
    BY <2>1, <2>2, TableGrows, Zenon
  <2> QED BY <1>10, <2>3, Zenon DEF Grown
<1>6. /\ t \in State /\ t.fatbins = s.fatbins /\ t.kernels = new /\ t.vars = s.vars
      /\ t.modules = s.modules /\ t.ready = s.ready /\ t.lastError = s.lastError
      /\ t.device = s.device /\ t.ordinal = s.ordinal
  BY <1>1, <1>5, Zenon DEF State
<1> HIDE DEF t
<1>7. \A i \in DOMAIN new : new[i].fatbin <= Len(s.fatbins) /\ new[i].function <= Len(s.modules)
  BY <1>1, <1>3, <1>4, <1>5 DEF Good, Within
<1>8. Good(t)
  BY <1>5, <1>6, <1>7 DEF Good, Bounded, Within, WrittenOff, Named
<1>9. RegisterFunctions(s, fb, stubs) = t
  BY <1>1 DEF RegisterFunctions, t, new, room, old, added
<1>11. Defined(s, t, fb, stubs)
  BY <1>3, <1>4, <1>5, <1>6 DEF Defined, SameDevice
<1> QED BY <1>6, <1>8, <1>9, <1>11

\* The calls of __cudaRegisterVar for a unit's objects.
LEMMA VarsRegistered ==
  ASSUME NEW s, Good(s), NEW fb \in 0..Len(s.fatbins), NEW objects \in Seq(Shadows)
  PROVE  LET t == RegisterVars(s, fb, objects)
         IN /\ Good(t) /\ t.lastError = s.lastError /\ SameDevice(s, t)
            /\ t.fatbins = s.fatbins /\ t.kernels = s.kernels /\ t.modules = s.modules
<1> DEFINE added == [i \in DOMAIN objects |-> [host |-> objects[i], fatbin |-> fb]]
           old == s.vars
           room == MaxVars - Len(old)
           new == old \o Fitting(added, room)
           t == [s EXCEPT !.vars = new]
<1>1. /\ s \in State /\ s.vars \in Seq(VarEntries) /\ Len(s.fatbins) \in Nat
      /\ MaxVars \in Nat /\ Len(s.vars) <= MaxVars
  BY TableIndexed, TablesAssumption DEF Good, State, Bounded
<1>2. /\ DOMAIN objects = 1..Len(objects) /\ Len(objects) \in Nat
      /\ \A i \in DOMAIN objects : objects[i] \in Shadows
  BY TableIndexed
<1>3. \A i \in DOMAIN objects : added[i] \in VarEntries /\ added[i].fatbin = fb
  BY <1>1, <1>2 DEF VarEntries
<1>4. added \in Seq(VarEntries) /\ DOMAIN added = DOMAIN objects
  <2>1. added \in [1..Len(objects) -> VarEntries]
    BY <1>2, <1>3
  <2> QED BY <1>2, <2>1, TableOf
<1> HIDE DEF added
<1>10. new = old \o Fitting(added, room) /\ room = MaxVars - Len(old) /\ old = s.vars
  OBVIOUS
<1> HIDE DEF new, old, room
<1>5. /\ new \in Seq(VarEntries) /\ Len(new) <= MaxVars
      /\ \A i \in DOMAIN new :
           (i \in DOMAIN s.vars /\ new[i] = s.vars[i]) \/ (\E j \in DOMAIN added : new[i] = added[j])
  <2>1. old \in Seq(VarEntries) /\ Len(old) <= MaxVars
    BY <1>1, <1>10
  <2>2. MaxVars \in Nat /\ added \in Seq(VarEntries) /\ room = MaxVars - Len(old)
        /\ new = old \o Fitting(added, room)
    BY <1>1, <1>4, <1>10
  <2>3. new \in Seq(VarEntries) /\ Len(new) <= MaxVars /\ Grown(old, added, new)
    BY <2>1, <2>2, TableGrows, Zenon
  <2> QED BY <1>10, <2>3, Zenon DEF Grown
<1>6. /\ t \in State /\ t.fatbins = s.fatbins /\ t.kernels = s.kernels /\ t.vars = new
      /\ t.modules = s.modules /\ t.ready = s.ready /\ t.lastError = s.lastError
      /\ t.device = s.device /\ t.ordinal = s.ordinal
  BY <1>1, <1>5, Zenon DEF State
<1> HIDE DEF t
<1>7. \A i \in DOMAIN new : new[i].fatbin <= Len(s.fatbins)
  BY <1>1, <1>3, <1>4, <1>5 DEF Good, Within
<1>8. Good(t)
  BY <1>5, <1>6, <1>7 DEF Good, Bounded, Within, WrittenOff, Named
<1>9. RegisterVars(s, fb, objects) = t
  BY <1>1 DEF RegisterVars, t, new, room, old, added
<1> QED BY <1>6, <1>8, <1>9, Zenon DEF SameDevice

\* What __cudaUnregisterFatBinary does to the tables, for a fat binary of them.
Left(s, t, fb) ==
  /\ SameDevice(s, t) /\ t.kernels = s.kernels
  /\ DOMAIN t.fatbins = DOMAIN s.fatbins /\ t.fatbins[fb].module = 0
  /\ \A i \in DOMAIN s.fatbins : t.fatbins[i].unit = s.fatbins[i].unit
  /\ \A i \in DOMAIN s.fatbins : i # fb => t.fatbins[i] = s.fatbins[i]
  /\ DOMAIN t.modules = DOMAIN s.modules
  /\ \A j \in DOMAIN s.modules :
       /\ t.modules[j].unit = s.modules[j].unit /\ t.modules[j].image = s.modules[j].image
       /\ t.modules[j].read = s.modules[j].read /\ t.modules[j].device = s.modules[j].device
       /\ j # s.fatbins[fb].module => t.modules[j] = s.modules[j]

\* __cudaUnregisterFatBinary: the module that goes, or is refused, is the one the
\* fat binary named.
LEMMA Unregistered ==
  ASSUME NEW s, Good(s), NEW fb \in 0..Len(s.fatbins), NEW t \in UnregisterFatBinary(s, fb)
  PROVE  /\ Good(t) /\ t.lastError = s.lastError
         /\ fb = 0 => t = s
         /\ fb # 0 => Left(s, t, fb)
<1> DEFINE mod == s.fatbins[fb].module
           fs == [s.fatbins EXCEPT ![fb].module = 0]
           Gone(m) == {[m EXCEPT !.live = FALSE], [m EXCEPT !.refused = TRUE]}
<1>1. /\ s \in State /\ s.fatbins \in Seq(Fatbins) /\ s.modules \in Seq(Modules)
      /\ Len(s.fatbins) \in Nat /\ Len(s.modules) \in Nat
      /\ DOMAIN s.fatbins = 1..Len(s.fatbins) /\ DOMAIN s.modules = 1..Len(s.modules)
  BY TableIndexed DEF Good, State
<1>2. CASE fb = 0
  BY <1>2 DEF UnregisterFatBinary
<1>3. CASE fb # 0
  <2>1. fb \in DOMAIN s.fatbins /\ s.fatbins[fb] \in Fatbins
    BY <1>1, <1>3, TableIndexed
  <2>2. mod \in 0..Len(s.modules)
    BY <1>1, <2>1 DEF Good, Within, Fatbins
  <2>3. /\ fs \in Seq(Fatbins) /\ Len(fs) = Len(s.fatbins) /\ DOMAIN fs = DOMAIN s.fatbins
        /\ fs[fb].module = 0
        /\ \A i \in DOMAIN fs : /\ fs[i].failed = s.fatbins[i].failed /\ fs[i].unit = s.fatbins[i].unit
                                /\ i # fb => fs[i] = s.fatbins[i]
    <3>1. /\ [s.fatbins[fb] EXCEPT !.module = 0] \in Fatbins
          /\ [s.fatbins[fb] EXCEPT !.module = 0].module = 0
          /\ [s.fatbins[fb] EXCEPT !.module = 0].failed = s.fatbins[fb].failed
          /\ [s.fatbins[fb] EXCEPT !.module = 0].unit = s.fatbins[fb].unit
      BY <2>1 DEF Fatbins
    <3> QED BY <1>1, <2>1, <3>1
  <2>12. PICK ms : /\ t = [s EXCEPT !.modules = ms, !.fatbins = fs]
                   /\ mod = 0 => ms = s.modules
                   /\ mod # 0 => \E g \in Gone(s.modules[mod]) : ms = [s.modules EXCEPT ![mod] = g]
    <3>1. PICK x \in Unloads(s, mod) : t = [x EXCEPT !.fatbins[fb].module = 0]
      BY <1>3, Zenon DEF UnregisterFatBinary
    <3>2. CASE mod = 0
      <4>1. x = s /\ s = [s EXCEPT !.modules = s.modules]
        BY <1>1, <3>1, <3>2, Zenon DEF Unloads, State
      <4>2. t = [s EXCEPT !.modules = s.modules, !.fatbins = fs]
        BY <1>1, <3>1, <4>1, Zenon DEF State
      <4> QED BY <3>2, <4>2, Zenon
    <3>3. CASE mod # 0
      <4>1. PICK g \in Gone(s.modules[mod]) : x = [s EXCEPT !.modules = [s.modules EXCEPT ![mod] = g]]
        BY <1>1, <3>1, <3>3, Zenon DEF Unloads, State
      <4> DEFINE ms == [s.modules EXCEPT ![mod] = g]
      <4> HIDE DEF ms, mod, Gone
      <4>2. x.fatbins = s.fatbins /\ x = [s EXCEPT !.modules = ms]
        BY <1>1, <4>1, Zenon DEF State, ms
      <4>3. t = [s EXCEPT !.modules = ms, !.fatbins = fs]
        BY <1>1, <3>1, <4>2, Zenon DEF State
      <4> QED BY <3>3, <4>1, <4>3, Zenon DEF ms
    <3> QED BY <3>2, <3>3, Zenon
  <2>4. /\ ms \in Seq(Modules) /\ Len(ms) = Len(s.modules) /\ DOMAIN ms = DOMAIN s.modules
        /\ \A j \in DOMAIN ms : Owed(ms[j]) => j # mod /\ Owed(s.modules[j])
        /\ \A j \in DOMAIN ms :
             /\ ms[j].unit = s.modules[j].unit /\ ms[j].image = s.modules[j].image
             /\ ms[j].read = s.modules[j].read /\ ms[j].device = s.modules[j].device
             /\ j # mod => ms[j] = s.modules[j]
    <3>1. CASE mod = 0
      BY <1>1, <2>12, <3>1
    <3>2. CASE mod # 0
      <4>1. mod \in DOMAIN s.modules /\ s.modules[mod] \in Modules
        BY <1>1, <2>2, <3>2, TableIndexed
      <4> DEFINE m == s.modules[mod]
      <4>2. PICK g \in Gone(m) : ms = [s.modules EXCEPT ![mod] = g]
        BY <2>12, <3>2, Zenon
      <4> HIDE DEF m
      <4>3. /\ g \in Modules /\ ~Owed(g) /\ g.unit = m.unit /\ g.image = m.image
            /\ g.read = m.read /\ g.device = m.device
        <5>1. m \in Modules
          BY <4>1 DEF m
        <5>2. CASE g = [m EXCEPT !.live = FALSE]
          BY <5>1, <5>2, ZenonT(40) DEF Modules, Owed
        <5>3. CASE g = [m EXCEPT !.refused = TRUE]
          BY <5>1, <5>3, ZenonT(40) DEF Modules, Owed
        <5> QED BY <5>2, <5>3, Zenon
      <4> HIDE DEF mod, Gone
      <4> QED BY <1>1, <4>1, <4>2, <4>3 DEF m
    <3> QED BY <3>1, <3>2, Zenon
  <2> HIDE DEF fs
  <2>5. /\ t \in State /\ t.fatbins = fs /\ t.kernels = s.kernels /\ t.vars = s.vars
        /\ t.modules = ms /\ t.ready = s.ready /\ t.lastError = s.lastError
        /\ t.device = s.device /\ t.ordinal = s.ordinal
    BY <1>1, <2>3, <2>4, <2>12, Zenon DEF State
  <2>6. Bounded(t)
    BY <2>3, <2>5, Zenon DEF Good, Bounded
  <2>7. Within(t)
    <3>1. \A i \in DOMAIN fs : fs[i].module <= Len(s.modules)
      BY <1>1, <2>3 DEF Good, Within
    <3> QED BY <2>3, <2>4, <2>5, <3>1, Zenon DEF Good, Within
  <2>8. WrittenOff(t)
    BY <2>3, <2>5 DEF Good, WrittenOff
  <2>9. Named(t)
    <3> SUFFICES ASSUME NEW j \in DOMAIN ms, Owed(ms[j]) PROVE \E i \in DOMAIN fs : fs[i].module = j
      BY <2>5 DEF Named
    <3>1. j \in DOMAIN s.modules /\ Owed(s.modules[j]) /\ j # mod
      BY <2>4
    <3>2. PICK i \in DOMAIN s.fatbins : s.fatbins[i].module = j
      BY <3>1 DEF Good, Named
    <3> QED BY <2>3, <3>1, <3>2
  <2>11. Left(s, t, fb)
    BY <2>3, <2>4, <2>5 DEF Left, SameDevice
  <2> QED BY <1>3, <2>5, <2>6, <2>7, <2>8, <2>9, <2>11 DEF Good
<1> QED BY <1>2, <1>3

-----------------------------------------------------------------------------
(* Modules and functions are those of their units *)

\* A module is of the image findImage chooses for the device the program asked for.
Chosen(s, ims) ==
  /\ s.ready => s.device = s.ordinal /\ s.device \in DOMAIN SM
  /\ \A j \in DOMAIN s.modules :
       /\ s.ready /\ s.modules[j].device = s.ordinal
       /\ s.modules[j].image # 0
       /\ s.modules[j].read \in Readings(SM[s.modules[j].device])
       /\ s.modules[j].image = findImage(Fatbin(ims[s.modules[j].unit]), s.modules[j].read)

\* A unit has one fat binary, which names a loaded module of the unit or none.
OfUnits(s, us) ==
  /\ \A i \in DOMAIN s.fatbins : us[s.fatbins[i].unit] # "out"
  /\ \A i, j \in DOMAIN s.fatbins : s.fatbins[i].unit = s.fatbins[j].unit => i = j
  /\ \A i \in DOMAIN s.fatbins : s.fatbins[i].module # 0 =>
       /\ s.modules[s.fatbins[i].module].live
       /\ s.modules[s.fatbins[i].module].unit = s.fatbins[i].unit

\* A kernel is of a unit that defines it, and its function is of that unit's
\* module: of the one it has now, until the unit is unregistered.
KernelBound(s, us, e) ==
  /\ e.fatbin # 0 => s.fatbins[e.fatbin].unit \in Owners(e.host)
  /\ e.function # 0 =>
       /\ e.fatbin # 0
       /\ s.modules[e.function].unit = s.fatbins[e.fatbin].unit
       /\ us[s.fatbins[e.fatbin].unit] = "in" => s.fatbins[e.fatbin].module = e.function

Resolved(s, us) == \A k \in DOMAIN s.kernels : KernelBound(s, us, s.kernels[k])

Faithful(s, us, ims) == Chosen(s, ims) /\ OfUnits(s, us) /\ Resolved(s, us)

\* An outcome of a call from s, which moves no kernel.
Arrives(s, us, ims, o) ==
  /\ Comes(s, o)
  /\ Faithful(o.s, us, ims)
  /\ \A k \in DOMAIN s.kernels : o.s.kernels[k].host = s.kernels[k].host

\* Modules that are of the same units, images and devices are chosen as well.
LEMMA ChosenSame ==
  ASSUME NEW s, NEW t, NEW ims, Chosen(s, ims),
         t.ready = s.ready, t.device = s.device, t.ordinal = s.ordinal,
         DOMAIN t.modules = DOMAIN s.modules,
         \A j \in DOMAIN s.modules :
           /\ t.modules[j].unit = s.modules[j].unit /\ t.modules[j].image = s.modules[j].image
           /\ t.modules[j].read = s.modules[j].read /\ t.modules[j].device = s.modules[j].device
  PROVE  Chosen(t, ims)
  BY ZenonT(40) DEF Chosen

SameTables(s, t) == t.fatbins = s.fatbins /\ t.kernels = s.kernels /\ t.modules = s.modules

\* What a table holds, and where.
LEMMA TablesAre ==
  ASSUME NEW s, Good(s)
  PROVE  /\ s \in State
         /\ Len(s.fatbins) \in Nat /\ Len(s.kernels) \in Nat /\ Len(s.modules) \in Nat
         /\ DOMAIN s.fatbins = 1..Len(s.fatbins) /\ DOMAIN s.kernels = 1..Len(s.kernels)
         /\ DOMAIN s.modules = 1..Len(s.modules)
         /\ s.fatbins \in Seq(Fatbins) /\ s.kernels \in Seq(KernelEntries) /\ s.modules \in Seq(Modules)
         /\ \A i \in DOMAIN s.fatbins : s.fatbins[i].module \in 0..Len(s.modules)
         /\ \A i \in DOMAIN s.fatbins : s.fatbins[i].unit \in Units
         /\ \A k \in DOMAIN s.kernels : /\ s.kernels[k].fatbin \in 0..Len(s.fatbins)
                                        /\ s.kernels[k].function \in 0..Len(s.modules)
         /\ \A j \in DOMAIN s.modules : s.modules[j].unit \in Units
         /\ \A i \in DOMAIN s.fatbins : s.fatbins[i].module # 0 => s.fatbins[i].module \in DOMAIN s.modules
         /\ \A k \in DOMAIN s.kernels : s.kernels[k].fatbin # 0 => s.kernels[k].fatbin \in DOMAIN s.fatbins
<1>1. /\ s \in State
      /\ Len(s.fatbins) \in Nat /\ Len(s.kernels) \in Nat /\ Len(s.modules) \in Nat
      /\ DOMAIN s.fatbins = 1..Len(s.fatbins) /\ DOMAIN s.kernels = 1..Len(s.kernels)
      /\ DOMAIN s.modules = 1..Len(s.modules)
      /\ s.fatbins \in Seq(Fatbins) /\ s.kernels \in Seq(KernelEntries) /\ s.modules \in Seq(Modules)
  BY TableIndexed DEF Good, State
<1>2. /\ \A i \in DOMAIN s.fatbins : s.fatbins[i] \in Fatbins
      /\ \A k \in DOMAIN s.kernels : s.kernels[k] \in KernelEntries
      /\ \A j \in DOMAIN s.modules : s.modules[j] \in Modules
  BY <1>1, TableIndexed
<1>3. \A i \in DOMAIN s.fatbins : s.fatbins[i].module \in 0..Len(s.modules) /\ s.fatbins[i].unit \in Units
  BY <1>1, <1>2 DEF Good, Within, Fatbins
<1>4. \A k \in DOMAIN s.kernels : /\ s.kernels[k].fatbin \in 0..Len(s.fatbins)
                                  /\ s.kernels[k].function \in 0..Len(s.modules)
  BY <1>1, <1>2 DEF Good, Within, KernelEntries
<1>5. \A j \in DOMAIN s.modules : s.modules[j].unit \in Units
  BY <1>2 DEF Modules
<1>6. /\ \A i \in DOMAIN s.fatbins : s.fatbins[i].module # 0 => s.fatbins[i].module \in DOMAIN s.modules
      /\ \A k \in DOMAIN s.kernels : s.kernels[k].fatbin # 0 => s.kernels[k].fatbin \in DOMAIN s.fatbins
  BY <1>1, <1>3, <1>4
<1> QED BY <1>1, <1>3, <1>4, <1>5, <1>6

\* What units have is a matter of the fat binaries and the modules.
LEMMA OfUnitsSame ==
  ASSUME NEW s, NEW t, NEW us, OfUnits(s, us), t.fatbins = s.fatbins, t.modules = s.modules
  PROVE  OfUnits(t, us)
BY DEF OfUnits

\* The tables decide but for the device, which may change until there is a context.
LEMMA SameFaithful ==
  ASSUME NEW s, NEW t, NEW us, NEW ims, Faithful(s, us, ims), SameTables(s, t),
         t.ready => t.device = t.ordinal /\ t.device \in DOMAIN SM,
         s.ready => t.ready /\ t.ordinal = s.ordinal
  PROVE  Faithful(t, us, ims)
<1>1. Chosen(t, ims)
  BY ZenonT(40) DEF Chosen, Faithful, SameTables
<1>2. OfUnits(t, us)
  BY OfUnitsSame, Zenon DEF Faithful, SameTables
<1>3. ASSUME NEW k \in DOMAIN t.kernels PROVE KernelBound(t, us, t.kernels[k])
  <2> DEFINE e == s.kernels[k]
  <2>1. KernelBound(s, us, e) /\ t.kernels[k] = e
    BY DEF Resolved, Faithful, SameTables
  <2> HIDE DEF e
  <2> QED BY <2>1 DEF KernelBound, SameTables
<1> QED BY <1>1, <1>2, <1>3, Zenon DEF Faithful, Resolved

\* A call that fails or does nothing.
LEMMA FailArrives ==
  ASSUME NEW s, NEW us, NEW ims, Good(s), Faithful(s, us, ims), NEW err
  PROVE  Arrives(s, us, ims, Fail(s, err)) /\ Arrives(s, us, ims, Done(s))
<1> DEFINE t == [s EXCEPT !.lastError = "error"]
<1>1. s \in State
  BY DEF Good
<1>2. SameTables(s, t) /\ t.ready = s.ready /\ t.device = s.device /\ t.ordinal = s.ordinal
  BY <1>1 DEF State, SameTables
<1>3. s.ready => s.device = s.ordinal /\ s.device \in DOMAIN SM
  BY Zenon DEF Faithful, Chosen
<1>4. Fail(s, err).s = t /\ Done(s).s = s
  BY Zenon DEF Fail, Done
<1> HIDE DEF t
<1>5. Faithful(t, us, ims)
  BY <1>2, <1>3, SameFaithful
<1>6. Comes(s, Fail(s, err)) /\ Comes(s, Done(s))
  BY FailComes
<1> QED BY <1>2, <1>4, <1>5, <1>6 DEF Arrives, SameTables

\* Two calls, one after the other.
LEMMA ArrivesTrans ==
  ASSUME NEW s, NEW us, NEW ims, NEW o, NEW r, Good(s), Arrives(s, us, ims, o),
         Arrives(o.s, us, ims, r)
  PROVE  Arrives(s, us, ims, r)
<1>1. Comes(s, r)
  BY ComesTrans DEF Arrives
<1>2. DOMAIN o.s.kernels = DOMAIN s.kernels
  <2>1. Good(o.s) /\ Len(o.s.kernels) = Len(s.kernels)
    BY Zenon DEF Arrives, Comes
  <2> QED BY <2>1, TablesAre, Zenon
<1> QED BY <1>1, <1>2 DEF Arrives

\* A call that changed none of the tables and fails or does not.
LEMMA QuietArrives ==
  ASSUME NEW s, NEW t, NEW us, NEW ims, Good(s), Faithful(s, us, ims), Quiet(s, t),
         t.ready => t.device = t.ordinal /\ t.device \in DOMAIN SM,
         s.ready => t.ordinal = s.ordinal, NEW err
  PROVE  Arrives(s, us, ims, Done(t)) /\ Arrives(s, us, ims, Fail(t, err))
<1>1. Good(t) /\ Comes(s, Done(t))
  BY QuietComes
<1>2. Faithful(t, us, ims)
  BY SameFaithful, Zenon DEF Quiet, SameTables
<1>3. Arrives(s, us, ims, Done(t))
  BY <1>1, <1>2, Zenon DEF Arrives, Done, Quiet
<1>4. Arrives(Done(t).s, us, ims, Fail(t, err))
  BY <1>1, <1>2, FailArrives DEF Done
<1> QED BY <1>3, <1>4, ArrivesTrans

\* Looking for the driver's library moves no device.
LEMMA DriverStays ==
  ASSUME NEW s, Good(s), NEW d \in loadDriver(s)
  PROVE  d.ready = s.ready /\ d.device = s.device /\ d.ordinal = s.ordinal
BY DEF loadDriver, Good, State

\* A context is of the device asked for.
LEMMA ContextArrives ==
  ASSUME NEW s, NEW us, NEW ims, Good(s), Faithful(s, us, ims), NEW o \in ensureContext(s)
  PROVE  Arrives(s, us, ims, o)
<1>1. CASE s.ready
  <2>1. o = Done(s)
    BY <1>1 DEF ensureContext
  <2> QED BY <2>1, FailArrives
<1>2. CASE ~s.ready
  <2>1. PICK d \in loadDriver(s) :
          o \in IF d.loaded = 1 THEN MakeContext(d) ELSE {Fail(d, "NoDevice")}
    BY <1>2 DEF ensureContext
  <2>2. Quiet(s, d) /\ ~d.ready
    BY <1>2, DriverQuiet, DriverStays
  <2> DEFINE got == [d EXCEPT !.device = d.ordinal]
             set == [got EXCEPT !.ready = TRUE]
  <2>3. /\ Quiet(s, got) /\ Quiet(s, set) /\ ~got.ready /\ set.device = set.ordinal
        /\ set.device = d.ordinal
    BY <1>2, <2>2, Zenon DEF Quiet, State
  <2> HIDE DEF got, set
  <2>4. CASE o = Fail(d, "Driver") \/ o = Fail(d, "NoDevice") \/ o = Fail(got, "Driver")
    BY <1>2, <2>2, <2>3, <2>4, QuietArrives, Zenon
  <2>5. CASE o = Done(set) /\ d.ordinal \in DOMAIN SM
    BY <1>2, <2>3, <2>5, QuietArrives
  <2> QED BY <2>1, <2>4, <2>5 DEF MakeContext, got, set
<1> QED BY <1>1, <1>2

\* A fat binary is written off.
LEMMA FailedArrives ==
  ASSUME NEW s, NEW us, NEW ims, Good(s), Faithful(s, us, ims), s.ready,
         NEW fb \in DOMAIN s.fatbins, s.fatbins[fb].module = 0, NEW err
  PROVE  Arrives(s, us, ims, Fail([s EXCEPT !.fatbins[fb].failed = TRUE], err))
<1> DEFINE f == [s.fatbins EXCEPT ![fb].failed = TRUE]
           t == [s EXCEPT !.fatbins = f]
           r == Fail([s EXCEPT !.fatbins[fb].failed = TRUE], err)
<1>1. s \in State /\ DOMAIN s.fatbins = 1..Len(s.fatbins) /\ s.fatbins[fb] \in Fatbins
      /\ \A i \in DOMAIN s.fatbins : s.fatbins[i] \in Fatbins
  BY TablesAre, TableIndexed
<1>2. /\ DOMAIN f = DOMAIN s.fatbins
      /\ \A i \in DOMAIN f : f[i].module = s.fatbins[i].module /\ f[i].unit = s.fatbins[i].unit
  BY <1>1 DEF Fatbins
<1> HIDE DEF f
<1>3. /\ t.fatbins = f /\ t.kernels = s.kernels /\ t.modules = s.modules /\ t.ready = s.ready
      /\ t.device = s.device /\ t.ordinal = s.ordinal
  BY <1>1, Zenon DEF State
<1>4. r.s = [t EXCEPT !.lastError = "error"]
  BY <1>1 DEF Fail, f, State
<1>5. /\ r.s.fatbins = f /\ r.s.kernels = s.kernels /\ r.s.modules = s.modules /\ r.s.ready = s.ready
      /\ r.s.device = s.device /\ r.s.ordinal = s.ordinal
  BY <1>1, <1>3, <1>4, ZenonT(40) DEF State
<1>6. Comes(s, r)
  BY FailedComes
<1> HIDE DEF r, t
<1>7. Chosen(r.s, ims)
  <2>1. Chosen(s, ims)
    BY Zenon DEF Faithful
  <2> QED BY <1>5, <2>1, ChosenSame, Zenon
<1>8. OfUnits(r.s, us)
  BY <1>2, <1>5 DEF Faithful, OfUnits
<1>9. Resolved(r.s, us)
  <2>1. ASSUME NEW k \in DOMAIN s.kernels, s.kernels[k].fatbin # 0
        PROVE  s.kernels[k].fatbin \in DOMAIN f
    BY <1>2, <2>1, TablesAre
  <2>2. ASSUME NEW k \in DOMAIN s.kernels PROVE KernelBound(r.s, us, s.kernels[k])
    <3> DEFINE e == s.kernels[k]
    <3>1. KernelBound(s, us, e) /\ (e.fatbin # 0 => e.fatbin \in DOMAIN f)
      BY <2>1, Zenon DEF Faithful, Resolved
    <3> HIDE DEF e
    <3>2. KernelBound(r.s, us, e)
      BY <1>2, <1>5, <3>1, Zenon DEF KernelBound
    <3> QED BY <3>2 DEF e
  <2> QED BY <1>5, <2>2, Zenon DEF Resolved
<1>10. Arrives(s, us, ims, r)
  BY <1>5, <1>6, <1>7, <1>8, <1>9, Zenon DEF Arrives, Faithful
<1> QED BY <1>10, Zenon DEF r

\* A module is loaded, for a fat binary that has none.
LEMMA LoadedArrives ==
  ASSUME NEW s, NEW us, NEW ims, Good(s), Faithful(s, us, ims), s.ready,
         NEW fb \in DOMAIN s.fatbins, s.fatbins[fb].module = 0, ~s.fatbins[fb].failed,
         NEW mod \in Modules, mod.unit = s.fatbins[fb].unit, mod.live, mod.device = s.device,
         mod.image # 0, mod.read \in Readings(SM[s.device]),
         mod.image = findImage(Fatbin(ims[mod.unit]), mod.read),
         NEW o, o = Done([s EXCEPT !.fatbins[fb].module = Len(s.modules) + 1,
                                   !.modules = Append(@, mod)])
  PROVE  Arrives(s, us, ims, o) /\ o.s.fatbins[fb].module # 0
<1> DEFINE n == Len(s.modules) + 1
           f == [s.fatbins EXCEPT ![fb].module = n]
           ms == Append(s.modules, mod)
<1>1. /\ s \in State /\ DOMAIN s.fatbins = 1..Len(s.fatbins) /\ s.modules \in Seq(Modules)
      /\ DOMAIN s.modules = 1..Len(s.modules) /\ Len(s.modules) \in Nat
      /\ \A i \in DOMAIN s.fatbins : s.fatbins[i].module \in 0..Len(s.modules)
      /\ \A k \in DOMAIN s.kernels : /\ s.kernels[k].fatbin \in 0..Len(s.fatbins)
                                     /\ s.kernels[k].function \in 0..Len(s.modules)
  BY TablesAre
<1>2. \A i \in DOMAIN s.fatbins : s.fatbins[i] \in Fatbins
  BY TablesAre, TableIndexed
<1>0. n \in Nat /\ n # 0 /\ n = Len(s.modules) + 1
  BY <1>1
<1>11. o.s = [s EXCEPT !.fatbins = f, !.modules = ms]
  BY <1>1 DEF Done, State
<1> HIDE DEF n
<1>3. /\ DOMAIN f = DOMAIN s.fatbins /\ f[fb].module = n
      /\ \A i \in DOMAIN f : f[i].unit = s.fatbins[i].unit /\ (i # fb => f[i] = s.fatbins[i])
  BY <1>1, <1>2 DEF Fatbins
<1>4. /\ DOMAIN ms = 1..n /\ ms[n] = mod
      /\ \A j \in DOMAIN s.modules : ms[j] = s.modules[j] /\ j \in DOMAIN ms
      /\ \A j \in DOMAIN ms : j = n \/ j \in DOMAIN s.modules
  BY <1>0, <1>1
<1> HIDE DEF f, ms
<1>5. /\ o.s.fatbins = f /\ o.s.kernels = s.kernels /\ o.s.modules = ms /\ o.s.ready = s.ready
      /\ o.s.device = s.device /\ o.s.ordinal = s.ordinal
  <2> DEFINE t == [s EXCEPT !.fatbins = f, !.modules = ms]
  <2>1. /\ t.fatbins = f /\ t.kernels = s.kernels /\ t.modules = ms /\ t.ready = s.ready
        /\ t.device = s.device /\ t.ordinal = s.ordinal
    BY <1>1, ZenonT(30) DEF State
  <2> HIDE DEF t
  <2>2. o.s = t
    BY <1>11 DEF t
  <2> QED BY <2>1, <2>2, Zenon
<1>6. Comes(s, o)
  BY LoadedComes, Zenon
<1>7. Chosen(o.s, ims)
  <2>1. s.ready /\ s.device = s.ordinal /\ s.device \in DOMAIN SM
    BY DEF Faithful, Chosen
  <2>2. ASSUME NEW j \in DOMAIN ms
        PROVE  /\ ms[j].device = s.ordinal /\ ms[j].image # 0
               /\ ms[j].read \in Readings(SM[ms[j].device])
               /\ ms[j].image = findImage(Fatbin(ims[ms[j].unit]), ms[j].read)
    <3>1. CASE j = n
      BY <1>4, <2>1, <3>1
    <3>2. CASE j # n
      BY <1>4, <3>2 DEF Faithful, Chosen
    <3> QED BY <3>1, <3>2
  <2> QED BY <1>5, <2>1, <2>2, ZenonT(40) DEF Chosen
<1>8. OfUnits(o.s, us)
  <2>1. ASSUME NEW i \in DOMAIN f, f[i].module # 0
        PROVE  ms[f[i].module].live /\ ms[f[i].module].unit = f[i].unit
    <3>1. CASE i = fb
      BY <1>3, <1>4, <3>1, Zenon
    <3>2. CASE i # fb
      <4>1. f[i] = s.fatbins[i] /\ f[i].module \in DOMAIN s.modules
        BY <1>1, <1>3, <2>1, <3>2
      <4>2. /\ s.modules[s.fatbins[i].module].live
            /\ s.modules[s.fatbins[i].module].unit = s.fatbins[i].unit
        BY <1>3, <2>1, <4>1, ZenonT(40) DEF Faithful, OfUnits
      <4> QED BY <1>4, <4>1, <4>2, Zenon
    <3> QED BY <3>1, <3>2, Zenon
  <2>2. /\ \A i \in DOMAIN f : us[f[i].unit] # "out"
        /\ \A i, j \in DOMAIN f : f[i].unit = f[j].unit => i = j
    BY <1>3 DEF Faithful, OfUnits
  <2> DEFINE t == o.s
  <2>3. t.fatbins = f /\ t.modules = ms
    BY <1>5
  <2> HIDE DEF t
  <2>4. OfUnits(t, us)
    BY <2>1, <2>2, <2>3 DEF OfUnits
  <2> QED BY <2>4 DEF t
<1>9. Resolved(o.s, us)
  <2>1. ASSUME NEW k \in DOMAIN s.kernels PROVE KernelBound(o.s, us, s.kernels[k])
    <3> DEFINE e == s.kernels[k]
    <3>1. /\ KernelBound(s, us, e) /\ (e.fatbin # 0 => e.fatbin \in DOMAIN f)
          /\ (e.function # 0 => e.function \in DOMAIN s.modules)
      <4>1. Resolved(s, us)
        BY Zenon DEF Faithful
      <4>2. KernelBound(s, us, e)
        BY <4>1, Zenon DEF Resolved
      <4> QED BY <1>1, <1>3, <4>2
    <3> HIDE DEF e
    <3>2. e.fatbin # 0 => o.s.fatbins[e.fatbin].unit \in Owners(e.host)
      BY <1>3, <1>5, <3>1 DEF KernelBound
    <3>3. ASSUME e.function # 0
          PROVE  /\ e.fatbin # 0
                 /\ ms[e.function].unit = f[e.fatbin].unit
                 /\ us[f[e.fatbin].unit] = "in" => f[e.fatbin].module = e.function
      <4>1. e.fatbin # 0 /\ ms[e.function].unit = f[e.fatbin].unit
        BY <1>3, <1>4, <3>1, <3>3 DEF KernelBound
      <4>2. ASSUME us[f[e.fatbin].unit] = "in" PROVE f[e.fatbin].module = e.function
        <5>1. s.fatbins[e.fatbin].module = e.function
          BY <1>3, <3>1, <3>3, <4>1, <4>2 DEF KernelBound
        <5>2. e.fatbin # fb
          BY <3>3, <5>1, Zenon
        <5> QED BY <1>3, <3>1, <4>1, <5>1, <5>2, ZenonT(40)
      <4> QED BY <4>1, <4>2
    <3>4. KernelBound(o.s, us, e)
      BY <1>5, <3>2, <3>3, Zenon DEF KernelBound
    <3> QED BY <3>4 DEF e
  <2> QED BY <1>5, <2>1 DEF Resolved
<1>10. Arrives(s, us, ims, o)
  BY <1>5, <1>6, <1>7, <1>8, <1>9, Zenon DEF Arrives, Faithful
<1> QED BY <1>0, <1>3, <1>5, <1>10, ZenonT(40)

\* loadModule leaves the fat binary with a module, of the image findImage chose.
LEMMA ModuleArrives ==
  ASSUME NEW s, NEW us, images \in Embeds, Good(s), Faithful(s, us, images),
         NEW fb \in 0..Len(s.fatbins), NEW o \in loadModule(s, fb)
  PROVE  /\ Arrives(s, us, images, o)
         /\ o.e = "none" => fb # 0 /\ o.s.fatbins[fb].module # 0
<1>1. DOMAIN s.fatbins = 1..Len(s.fatbins) /\ Len(s.fatbins) \in Nat
  BY TablesAre
<1>2. CASE fb = 0
  <2>1. o = FailSilently(s, "null")
    BY <1>2 DEF loadModule
  <2>2. o.s = s /\ o.e = "null"
    BY <2>1, Zenon DEF FailSilently
  <2> QED BY <2>2 DEF Comes, Arrives
<1>3. CASE fb # 0 /\ s.fatbins[fb].module # 0
  <2>1. o = Done(s)
    BY <1>3 DEF loadModule
  <2>2. o.s = s
    BY <2>1 DEF Done
  <2> QED BY <1>3, <2>1, <2>2, FailArrives
<1>4. CASE fb # 0 /\ s.fatbins[fb].module = 0 /\ s.fatbins[fb].failed
  <2>1. o = Fail(s, "InvalidDeviceFunction")
    BY <1>4 DEF loadModule
  <2>2. o.e = "InvalidDeviceFunction"
    BY <2>1 DEF Fail
  <2> QED BY <2>1, <2>2, FailArrives
<1>5. CASE fb # 0 /\ s.fatbins[fb].module = 0 /\ ~s.fatbins[fb].failed
  <2>1. PICK c \in ensureContext(s) : o \in IF c.e = "none" THEN LoadData(c.s, fb) ELSE {c}
    BY <1>5 DEF loadModule, Then
  <2>2. Arrives(s, us, images, c) /\ (c.e = "none" => c.s.ready /\ Quiet(s, c.s))
    BY ContextArrives, ContextComes
  <2>3. CASE c.e # "none"
    BY <2>1, <2>2, <2>3
  <2>4. CASE c.e = "none"
    <3>8. PICK sm \in Readings(SM[c.s.device]) : o \in LoadImage(c.s, fb, sm)
      BY <2>1, <2>4, Zenon DEF LoadData
    <3> DEFINE u == c.s.fatbins[fb].unit
               image == findImage(Fatbin(images[u]), sm)
               mod == [unit |-> u, image |-> image, read |-> sm, device |-> c.s.device,
                       live |-> TRUE, refused |-> FALSE]
    <3>1. /\ Good(c.s) /\ Faithful(c.s, us, images) /\ c.s.ready /\ fb \in DOMAIN c.s.fatbins
          /\ c.s.fatbins[fb].module = 0 /\ ~c.s.fatbins[fb].failed /\ c.s \in State
      BY <1>1, <1>5, <2>2, <2>4 DEF Arrives, Comes, Quiet
    <3>2. u \in Units /\ c.s.device \in Int
      BY <3>1, TablesAre, Zenon DEF State
    <3>3. mod \in Modules
      <4>2. sm \in Capabilities
        BY <3>2, Zenon DEF Capabilities
      <4>1. image \in Images
        BY <3>2, <4>2 DEF Images
      <4> HIDE DEF image
      <4> QED BY <3>2, <4>1, <4>2 DEF Modules
    <3>4. \/ o = Fail([c.s EXCEPT !.fatbins[fb].failed = TRUE], "InvalidDeviceFunction")
          \/ o = Fail([c.s EXCEPT !.fatbins[fb].failed = TRUE], "Driver")
          \/ image # 0 /\ o = Done([c.s EXCEPT !.fatbins[fb].module = Len(c.s.modules) + 1,
                                               !.modules = Append(@, mod)])
      BY <3>8, Zenon DEF LoadImage, NoImage, Refused
    <3>5. /\ mod.unit = u /\ mod.image = image /\ mod.read = sm /\ mod.device = c.s.device
          /\ mod.live
      OBVIOUS
    <3> HIDE DEF mod, image
    <3>6. CASE image # 0 /\ o = Done([c.s EXCEPT !.fatbins[fb].module = Len(c.s.modules) + 1,
                                                 !.modules = Append(@, mod)])
      <4>1. /\ mod.image # 0 /\ mod.read \in Readings(SM[c.s.device])
            /\ mod.image = findImage(Fatbin(images[mod.unit]), mod.read)
        BY <3>5, <3>6 DEF image
      <4>2. Arrives(c.s, us, images, o) /\ o.s.fatbins[fb].module # 0
        BY <3>1, <3>3, <3>5, <3>6, <4>1, LoadedArrives, ZenonT(40)
      <4> QED BY <1>5, <2>2, <4>2, ArrivesTrans
    <3>7. CASE \/ o = Fail([c.s EXCEPT !.fatbins[fb].failed = TRUE], "InvalidDeviceFunction")
               \/ o = Fail([c.s EXCEPT !.fatbins[fb].failed = TRUE], "Driver")
      <4>1. PICK err : o = Fail([c.s EXCEPT !.fatbins[fb].failed = TRUE], err)
        BY <3>7, Zenon
      <4>3. Arrives(c.s, us, images, o)
        BY <3>1, <4>1, FailedArrives, Zenon
      <4>2. o.e # "none"
        BY <3>7 DEF Fail
      <4> QED BY <2>2, <4>2, <4>3, ArrivesTrans
    <3> QED BY <3>4, <3>6, <3>7, Zenon
  <2> QED BY <2>3, <2>4
<1> QED BY <1>2, <1>3, <1>4, <1>5, Zenon

\* A kernel is given the function of the module its fat binary names.
LEMMA FunctionFaithful ==
  ASSUME NEW s, NEW t, NEW us, NEW ims, Good(s), Faithful(s, us, ims), NEW k \in DOMAIN s.kernels,
         NEW fb, fb = s.kernels[k].fatbin, fb # 0, s.fatbins[fb].module # 0,
         t.fatbins = s.fatbins, t.modules = s.modules, t.ready = s.ready, t.device = s.device,
         t.ordinal = s.ordinal, DOMAIN t.kernels = DOMAIN s.kernels,
         t.kernels[k].function = s.fatbins[fb].module, t.kernels[k].fatbin = fb,
         t.kernels[k].host = s.kernels[k].host,
         \A i \in DOMAIN s.kernels : i # k => t.kernels[i] = s.kernels[i]
  PROVE  Faithful(t, us, ims)
<1>1. Chosen(t, ims)
  <2>1. Chosen(s, ims)
    BY Zenon DEF Faithful
  <2> QED BY <2>1, ChosenSame, Zenon
<1>2. OfUnits(t, us)
  BY OfUnitsSame DEF Faithful
<1>3. fb \in DOMAIN s.fatbins
  BY TablesAre, ZenonT(30)
<1>4. ASSUME NEW i \in DOMAIN s.kernels, i # k PROVE KernelBound(t, us, t.kernels[i])
  <2> DEFINE e == s.kernels[i]
  <2>1. KernelBound(s, us, e) /\ t.kernels[i] = e
    BY <1>4, Zenon DEF Faithful, Resolved
  <2> HIDE DEF e
  <2> QED BY <2>1, Zenon DEF KernelBound
<1>5. KernelBound(t, us, t.kernels[k])
  <2>1. s.fatbins[fb].unit \in Owners(s.kernels[k].host)
    BY ZenonT(30) DEF Faithful, Resolved, KernelBound
  <2>2. s.modules[s.fatbins[fb].module].unit = s.fatbins[fb].unit
    BY <1>3, ZenonT(30) DEF Faithful, OfUnits
  <2> DEFINE e == t.kernels[k]
             z == s.fatbins[fb]
  <2>3. /\ t.fatbins[e.fatbin] = z /\ z.unit \in Owners(e.host) /\ e.fatbin # 0
        /\ e.function = z.module /\ t.modules[e.function].unit = z.unit
    BY <2>1, <2>2, Zenon
  <2> HIDE DEF e, z
  <2>4. KernelBound(t, us, e)
    BY <2>3, ZenonT(30) DEF KernelBound
  <2> QED BY <2>4 DEF e
<1> QED BY <1>1, <1>2, <1>4, <1>5, ZenonT(30) DEF Faithful, Resolved

\* functionOf's answer, which the kernel keeps.
LEMMA FunctionKeptArrives ==
  ASSUME NEW s, NEW us, NEW ims, Good(s), Faithful(s, us, ims), NEW k \in DOMAIN s.kernels,
         s.kernels[k].fatbin # 0, s.fatbins[s.kernels[k].fatbin].module # 0
  PROVE  LET f == s.fatbins[s.kernels[k].fatbin].module
             o == Answer([s EXCEPT !.kernels[k].function = f], f)
         IN Arrives(s, us, ims, o) /\ o.h = f /\ o.s.kernels[k].function = f
<1> DEFINE fb == s.kernels[k].fatbin
           f == s.fatbins[fb].module
           ks == [s.kernels EXCEPT ![k].function = f]
           t == [s EXCEPT !.kernels = ks]
           o == Answer([s EXCEPT !.kernels[k].function = f], f)
<1>1. s \in State /\ s.kernels \in Seq(KernelEntries) /\ DOMAIN s.kernels = 1..Len(s.kernels)
  BY TablesAre
<1>2. f \in Nat /\ f <= Len(s.modules)
  <2>1. f \in 0..Len(s.modules) /\ Len(s.modules) \in Nat
    BY TablesAre, Zenon
  <2> HIDE DEF f
  <2> QED BY <2>1
<1>3. fb # 0 /\ f # 0 /\ s.fatbins[fb].module = f
  OBVIOUS
<1>4. o.h = f /\ o.s = [s EXCEPT !.kernels[k].function = f]
  BY Zenon DEF Answer
<1> HIDE DEF f
<1>5. Comes(s, o)
  BY <1>2, FunctionKept
<1> HIDE DEF o
<1>6. /\ DOMAIN ks = DOMAIN s.kernels /\ ks[k].function = f /\ ks[k].fatbin = fb
      /\ ks[k].host = s.kernels[k].host
      /\ \A i \in DOMAIN s.kernels : i # k => ks[i] = s.kernels[i]
  <2>1. s.kernels[k] \in KernelEntries
    BY <1>1, TableIndexed
  <2> QED BY <2>1 DEF KernelEntries
<1>7. o.s = t
  BY <1>1, <1>4 DEF State
<1> HIDE DEF ks, fb
<1>8. /\ t.fatbins = s.fatbins /\ t.kernels = ks /\ t.modules = s.modules /\ t.ready = s.ready
      /\ t.device = s.device /\ t.ordinal = s.ordinal
  BY <1>1 DEF State
<1> HIDE DEF t
<1>9. Faithful(t, us, ims)
  <2>1. fb = s.kernels[k].fatbin
    BY DEF fb
  <2>2. /\ DOMAIN t.kernels = DOMAIN s.kernels /\ t.kernels[k].function = s.fatbins[fb].module
        /\ t.kernels[k].fatbin = fb /\ t.kernels[k].host = s.kernels[k].host
        /\ \A i \in DOMAIN s.kernels : i # k => t.kernels[i] = s.kernels[i]
        /\ s.fatbins[fb].module # 0
    BY <1>3, <1>6, <1>8, Zenon
  <2> QED BY <1>3, <1>8, <2>1, <2>2, FunctionFaithful, ZenonT(40)
<1>10. \A i \in DOMAIN s.kernels : t.kernels[i].host = s.kernels[i].host
  BY <1>6, <1>8, Zenon
<1>11. Arrives(s, us, ims, o) /\ o.h = f /\ o.s.kernels[k].function = f
  BY <1>4, <1>5, <1>6, <1>7, <1>8, <1>9, <1>10, Zenon DEF Arrives
<1> QED BY <1>11, Zenon DEF o, f, fb

\* functionOf answers with the function the kernel keeps.
LEMMA FunctionArrives ==
  ASSUME NEW s, NEW us, images \in Embeds, Good(s), Faithful(s, us, images),
         NEW k \in DOMAIN s.kernels, NEW o \in functionOf(s, k)
  PROVE  /\ Arrives(s, us, images, o)
         /\ o.e = "none" => o.h # 0 /\ o.s.kernels[k].function = o.h
<1>1. s.kernels[k].fatbin \in 0..Len(s.fatbins)
  BY TablesAre, Zenon
<1>2. CASE s.kernels[k].function # 0
  <2>1. functionOf(s, k) = {Answer(s, s.kernels[k].function)}
    BY <1>2, Zenon DEF functionOf
  <2>2. o.s = s /\ o.e = "none" /\ o.h = s.kernels[k].function
    BY <2>1 DEF Answer
  <2> QED BY <1>2, <2>2 DEF Arrives, Comes
<1>3. CASE s.kernels[k].function = 0
  <2> DEFINE f(l) == l.s.fatbins[l.s.kernels[k].fatbin].module
  <2>1. PICK l \in loadModule(s, s.kernels[k].fatbin) :
          o \in IF l.e = "none"
                THEN {Fail(l.s, "Driver"), Answer([l.s EXCEPT !.kernels[k].function = f(l)], f(l))}
                ELSE {l}
    BY <1>3, ZenonT(40) DEF functionOf, Then
  <2>2. /\ Arrives(s, us, images, l)
        /\ l.e = "none" => s.kernels[k].fatbin # 0 /\ l.s.fatbins[s.kernels[k].fatbin].module # 0
    BY <1>1, ModuleArrives
  <2>3. CASE l.e # "none"
    BY <2>1, <2>2, <2>3, Zenon
  <2>4. CASE l.e = "none"
    <3>1. /\ Good(l.s) /\ Faithful(l.s, us, images) /\ l.s.kernels[k].fatbin = s.kernels[k].fatbin
          /\ Len(l.s.kernels) = Len(s.kernels)
      BY <2>2 DEF Arrives, Comes
    <3>2. k \in DOMAIN l.s.kernels
      BY <3>1, TablesAre, Zenon
    <3>3. l.s.kernels[k].fatbin # 0 /\ f(l) # 0
      BY <2>2, <2>4, <3>1, ZenonT(40)
    <3>4. CASE o = Fail(l.s, "Driver")
      <4>1. o.e # "none" /\ Arrives(l.s, us, images, o)
        BY <3>1, <3>4, FailArrives DEF Fail
      <4> QED BY <2>2, <4>1, ArrivesTrans
    <3>5. CASE o = Answer([l.s EXCEPT !.kernels[k].function = f(l)], f(l))
      <4>1. Arrives(l.s, us, images, o) /\ o.h = f(l) /\ o.s.kernels[k].function = f(l)
        BY <3>1, <3>2, <3>3, <3>5, FunctionKeptArrives, ZenonT(30)
      <4> QED BY <2>2, <3>3, <4>1, ArrivesTrans, Zenon
    <3> QED BY <2>1, <2>4, <3>4, <3>5, ZenonT(40)
  <2> QED BY <2>3, <2>4
<1> QED BY <1>2, <1>3

\* An outcome that hands the driver a function hands it a kernel's of the stub's.
Handed(stub, o) ==
  o.e = "none" => /\ o.h # 0
                  /\ \E k \in DOMAIN o.s.kernels : /\ o.s.kernels[k].host = stub
                                                   /\ o.s.kernels[k].function = o.h

\* __vcx_cudaLaunch hands the driver the function of a kernel of the stub's.
LEMMA LaunchArrives ==
  ASSUME NEW s, NEW us, images \in Embeds, Good(s), Faithful(s, us, images),
         NEW stub, NEW o \in Launch(s, stub)
  PROVE  Arrives(s, us, images, o) /\ Handed(stub, o)
<1> DEFINE k == Find(s.kernels, stub)
<1>1. /\ k \in 0..Len(s.kernels) /\ DOMAIN s.kernels = 1..Len(s.kernels)
      /\ k # 0 => s.kernels[k].host = stub
  BY LookupIndex, TablesAre
<1>2. /\ k = 0 => o = Fail(s, "InvalidDeviceFunction")
      /\ k # 0 => \E f \in functionOf(s, k) :
                    o \in IF f.e = "none" THEN {Fail(f.s, "Driver"), f} ELSE {f}
  BY DEF Launch, Then
<1> HIDE DEF k
<1>3. CASE k = 0
  <2>1. o.e # "none"
    BY <1>2, <1>3 DEF Fail
  <2>2. Handed(stub, o)
    BY <2>1, Zenon DEF Handed
  <2> QED BY <1>2, <1>3, <2>2, FailArrives
<1>4. CASE k # 0
  <2>1. PICK f \in functionOf(s, k) : o = Fail(f.s, "Driver") \/ o = f
    BY <1>2, <1>4
  <2>2. k \in DOMAIN s.kernels
    BY <1>1, <1>4
  <2>3. /\ Arrives(s, us, images, f)
        /\ f.e = "none" => f.h # 0 /\ f.s.kernels[k].function = f.h
    BY <2>2, FunctionArrives
  <2>4. Good(f.s) /\ Faithful(f.s, us, images) /\ Len(f.s.kernels) = Len(s.kernels)
        /\ f.s.kernels[k].host = stub
    BY <1>1, <1>4, <2>2, <2>3, Zenon DEF Arrives, Comes
  <2>5. k \in DOMAIN f.s.kernels
    BY <1>1, <2>2, <2>4, TablesAre, Zenon
  <2>6. CASE o = Fail(f.s, "Driver")
    <3>1. o.e # "none" /\ Arrives(f.s, us, images, o)
      BY <2>4, <2>6, FailArrives, Zenon DEF Fail
    <3>2. Handed(stub, o)
      BY <3>1, Zenon DEF Handed
    <3> QED BY <2>3, <3>1, <3>2, ArrivesTrans, Zenon
  <2>7. CASE o = f
    BY <2>3, <2>4, <2>5, <2>7, Zenon DEF Handed
  <2> QED BY <2>1, <2>6, <2>7, Zenon
<1> QED BY <1>3, <1>4, Zenon

\* A call to the driver after one that may have failed.
LEMMA CheckArrives ==
  ASSUME NEW s, NEW us, NEW ims, NEW c, NEW o, Good(s), Arrives(s, us, ims, c),
         o \in IF c.e = "none" THEN Check(c.s) ELSE {c}
  PROVE  Arrives(s, us, ims, o)
<1>3. Good(c.s) /\ Faithful(c.s, us, ims)
  BY DEF Arrives, Comes
<1>1. Arrives(c.s, us, ims, Fail(c.s, "Driver")) /\ Arrives(c.s, us, ims, Done(c.s))
  BY <1>3, FailArrives, Zenon
<1>2. o = c \/ o = Done(c.s) \/ o = Fail(c.s, "Driver")
  BY DEF Check
<1> QED BY <1>1, <1>2, ArrivesTrans, Zenon

\* The memory calls and the symbol calls.
LEMMA MemoryArrives ==
  ASSUME NEW s, NEW us, images \in Embeds, Good(s), Faithful(s, us, images)
  PROVE  /\ \A o \in Then(ensureContext(s), LAMBDA c : Check(c.s)) : Arrives(s, us, images, o)
         /\ \A v \in DOMAIN s.vars :
              \A o \in Then(addressOf(s, v), LAMBDA a : Check(a.s)) : Arrives(s, us, images, o)
<1>1. ASSUME NEW o \in Then(ensureContext(s), LAMBDA c : Check(c.s)) PROVE Arrives(s, us, images, o)
  <2>1. PICK c \in ensureContext(s) : o \in IF c.e = "none" THEN Check(c.s) ELSE {c}
    BY DEF Then
  <2> QED BY <2>1, ContextArrives, CheckArrives
<1>2. ASSUME NEW v \in DOMAIN s.vars,
             NEW o \in Then(addressOf(s, v), LAMBDA a : Check(a.s))
      PROVE  Arrives(s, us, images, o)
  <2>1. PICK a \in addressOf(s, v) : o \in IF a.e = "none" THEN Check(a.s) ELSE {a}
    BY DEF Then
  <2>2. PICK l \in loadModule(s, s.vars[v].fatbin) : a \in IF l.e = "none" THEN Check(l.s) ELSE {l}
    BY DEF addressOf, Then
  <2>3. s.vars[v].fatbin \in 0..Len(s.fatbins)
    <3>1. s.vars \in Seq(VarEntries) /\ Len(s.fatbins) \in Nat
      BY TableIndexed DEF Good, State
    <3>2. s.vars[v] \in VarEntries /\ s.vars[v].fatbin <= Len(s.fatbins)
      BY <3>1, TableIndexed DEF Good, Within
    <3> QED BY <3>1, <3>2 DEF VarEntries
  <2>4. Arrives(s, us, images, l)
    BY <2>3, ModuleArrives
  <2>5. Arrives(s, us, images, a)
    BY <2>2, <2>4, CheckArrives, Zenon
  <2> QED BY <2>1, <2>5, CheckArrives, Zenon
<1> QED BY <1>1, <1>2, Zenon

\* cudaGetDeviceCount and cudaGetDeviceProperties.
LEMMA QueryArrives ==
  ASSUME NEW s, NEW us, NEW ims, Good(s), Faithful(s, us, ims), NEW o,
         o \in UNION {IF d.loaded = 1 THEN Check(d) ELSE {Fail(d, "NoDevice")} : d \in loadDriver(s)}
  PROVE  Arrives(s, us, ims, o)
<1>1. PICK d \in loadDriver(s) : o \in IF d.loaded = 1 THEN Check(d) ELSE {Fail(d, "NoDevice")}
  OBVIOUS
<1>2. o = Done(d) \/ o = Fail(d, "Driver") \/ o = Fail(d, "NoDevice")
  BY <1>1 DEF Check
<1>3. Quiet(s, d) /\ d.ready = s.ready /\ d.device = s.device /\ d.ordinal = s.ordinal
  BY DriverQuiet, DriverStays, Zenon
<1>4. s.ready => s.device = s.ordinal /\ s.device \in DOMAIN SM
  BY Zenon DEF Faithful, Chosen
<1>5. /\ Arrives(s, us, ims, Done(d)) /\ Arrives(s, us, ims, Fail(d, "Driver"))
      /\ Arrives(s, us, ims, Fail(d, "NoDevice"))
  BY <1>3, <1>4, QuietArrives, Zenon
<1> QED BY <1>2, <1>5, Zenon

\* cudaSetDevice, which a context makes final.
LEMMA SetArrives ==
  ASSUME NEW s, NEW us, NEW ims, Good(s), Faithful(s, us, ims), NEW d \in Int
  PROVE  Arrives(s, us, ims, SetDevice(s, d))
<1> DEFINE t == [s EXCEPT !.ordinal = d]
<1>1. SetDevice(s, d) \in {Done(s), Fail(s, "InvalidDevice")} \/ (~s.ready /\ SetDevice(s, d) = Done(t))
  BY DEF SetDevice
<1>2. Quiet(s, t) /\ t.ready = s.ready
  BY ZenonT(30) DEF Quiet, Good, State
<1> HIDE DEF t
<1>3. CASE SetDevice(s, d) \in {Done(s), Fail(s, "InvalidDevice")}
  BY <1>3, FailArrives, Zenon
<1>4. CASE ~s.ready /\ SetDevice(s, d) = Done(t)
  BY <1>2, <1>4, QuietArrives
<1> QED BY <1>1, <1>3, <1>4

\* A unit's fat binary, which no entry of the tables was of before.
LEMMA EnteredFaithful ==
  ASSUME NEW s, NEW t, NEW us, NEW ws, NEW ims, NEW u \in Units, NEW h,
         us[u] = "out", ws[u] = "in", \A v \in Units : v # u => ws[v] = us[v],
         Good(s), Faithful(s, us, ims), Entered(s, t, h, u)
  PROVE  Faithful(t, ws, ims)
<1> DEFINE n == Len(s.fatbins)
<1>1. /\ n \in Nat /\ DOMAIN s.fatbins = 1..n /\ s.fatbins \in Seq(Fatbins)
      /\ \A i \in DOMAIN s.fatbins : s.fatbins[i].unit \in Units
      /\ \A k \in DOMAIN s.kernels : s.kernels[k].fatbin # 0 => s.kernels[k].fatbin \in DOMAIN s.fatbins
  BY TablesAre
<1>2. /\ \A i \in DOMAIN s.fatbins : us[s.fatbins[i].unit] # "out"
      /\ \A i, j \in DOMAIN s.fatbins : s.fatbins[i].unit = s.fatbins[j].unit => i = j
  BY Zenon DEF Faithful, OfUnits
<1>3. \A i \in DOMAIN s.fatbins : s.fatbins[i].unit # u /\ ws[s.fatbins[i].unit] = us[s.fatbins[i].unit]
  BY <1>1, <1>2, ZenonT(40)
<1>4. /\ \A i \in DOMAIN s.fatbins : i \in DOMAIN t.fatbins /\ t.fatbins[i] = s.fatbins[i]
      /\ \A i \in DOMAIN t.fatbins :
           i \in DOMAIN s.fatbins \/ (i = n + 1 /\ t.fatbins[i] = NewFatbin(u))
  <2> DEFINE new == NewFatbin(u)
  <2>1. t.fatbins = s.fatbins \/ t.fatbins = Append(s.fatbins, new)
    BY Zenon DEF Entered
  <2> HIDE DEF new
  <2>2. CASE t.fatbins = Append(s.fatbins, new)
    <3>1. /\ DOMAIN t.fatbins = 1..(n + 1) /\ t.fatbins[n + 1] = new
          /\ \A i \in 1..n : t.fatbins[i] = s.fatbins[i]
      <4> DEFINE a == s.fatbins
      <4>1. new \in Fatbins /\ a \in Seq(Fatbins)
        BY <1>1, Zenon DEF NewFatbin, Fatbins, new
      <4> HIDE DEF a
      <4>2. /\ DOMAIN Append(a, new) = 1..Len(a) + 1
            /\ Append(a, new)[Len(a) + 1] = new /\ \A i \in 1..Len(a) : Append(a, new)[i] = a[i]
        BY <4>1, FatbinAppend, Zenon
      <4> QED BY <2>2, <4>2, Zenon DEF a
    <3>2. 1..(n + 1) = 1..n \cup {n + 1}
      BY <1>1
    <3> QED BY <1>1, <3>1, <3>2, Zenon DEF new
  <2> QED BY <2>1, <2>2, Zenon
<1>5. NewFatbin(u).unit = u /\ NewFatbin(u).module = 0
  BY DEF NewFatbin
<1>6. t.kernels = s.kernels /\ t.modules = s.modules
  BY Zenon DEF Entered
<1>7. Chosen(t, ims)
  <2>1. Chosen(s, ims)
    BY Zenon DEF Faithful
  <2> QED BY <2>1, ChosenSame, Zenon DEF Entered, SameDevice
<1>8. OfUnits(t, ws)
  <2>4. \A i \in DOMAIN t.fatbins :
          \/ i \in DOMAIN s.fatbins /\ t.fatbins[i].unit = s.fatbins[i].unit
          \/ i = n + 1 /\ t.fatbins[i].unit = u
    BY <1>4, <1>5, ZenonT(30)
  <2>1. ASSUME NEW i \in DOMAIN t.fatbins PROVE ws[t.fatbins[i].unit] # "out"
    <3>1. CASE i \in DOMAIN s.fatbins /\ t.fatbins[i].unit = s.fatbins[i].unit
      BY <1>2, <1>3, <3>1, ZenonT(40)
    <3>2. CASE t.fatbins[i].unit = u
      BY <3>2, Zenon
    <3> QED BY <2>4, <3>1, <3>2, Zenon
  <2>2. ASSUME NEW i \in DOMAIN t.fatbins, NEW j \in DOMAIN t.fatbins,
               t.fatbins[i].unit = t.fatbins[j].unit
        PROVE  i = j
    <3>1. CASE i \in DOMAIN s.fatbins /\ t.fatbins[i].unit = s.fatbins[i].unit
      BY <1>2, <1>3, <2>2, <2>4, <3>1, ZenonT(40)
    <3>2. CASE i = n + 1 /\ t.fatbins[i].unit = u
      BY <1>3, <2>2, <2>4, <3>2, Zenon
    <3> QED BY <2>4, <3>1, <3>2, Zenon
  <2>3. ASSUME NEW i \in DOMAIN t.fatbins, t.fatbins[i].module # 0
        PROVE  /\ t.modules[t.fatbins[i].module].live
               /\ t.modules[t.fatbins[i].module].unit = t.fatbins[i].unit
    <3>1. i \in DOMAIN s.fatbins /\ t.fatbins[i] = s.fatbins[i]
      BY <1>4, <1>5, <2>3
    <3> QED BY <1>6, <2>3, <3>1, Zenon DEF Faithful, OfUnits
  <2> QED BY <2>1, <2>2, <2>3 DEF OfUnits
<1>9. ASSUME NEW k \in DOMAIN s.kernels PROVE KernelBound(t, ws, s.kernels[k])
  <2> DEFINE e == s.kernels[k]
  <2>1. KernelBound(s, us, e) /\ (e.fatbin # 0 => e.fatbin \in DOMAIN s.fatbins)
    BY <1>1, Zenon DEF Faithful, Resolved
  <2> HIDE DEF e
  <2>2. KernelBound(t, ws, e)
    BY <1>3, <1>4, <1>6, <2>1, Zenon DEF KernelBound
  <2> QED BY <2>2, Zenon DEF e
<1> QED BY <1>6, <1>7, <1>8, <1>9, Zenon DEF Faithful, Resolved

\* The handle a unit is given is of its fat binary, or null.
LEMMA EnteredUnit ==
  ASSUME NEW s, NEW t, NEW u \in Units, NEW h, Good(s), Entered(s, t, h, u), h # 0
  PROVE  t.fatbins[h].unit = u
<1>1. s.fatbins \in Seq(Fatbins)
  BY TablesAre, Zenon
<1>2. h = Len(s.fatbins) + 1 /\ t.fatbins = Append(s.fatbins, NewFatbin(u)) /\ NewFatbin(u).unit = u
  BY DEF Entered, NewFatbin
<1>3. t.fatbins[h] = NewFatbin(u)
  BY <1>1, <1>2
<1> QED BY <1>2, <1>3, Zenon

\* The kernels of a unit, which defines them.
LEMMA DefinedFaithful ==
  ASSUME NEW s, NEW t, NEW us, NEW ims, NEW u \in Units, NEW h, Faithful(s, us, ims),
         h # 0 => s.fatbins[h].unit = u, Defined(s, t, h, Kernels[u])
  PROVE  Faithful(t, us, ims)
<1>1. t.fatbins = s.fatbins /\ t.modules = s.modules
  BY Zenon DEF Defined
<1>2. Chosen(t, ims)
  <2>1. Chosen(s, ims)
    BY Zenon DEF Faithful
  <2> QED BY <1>1, <2>1, ChosenSame, Zenon DEF Defined, SameDevice
<1>3. OfUnits(t, us)
  BY <1>1, OfUnitsSame, Zenon DEF Faithful
<1>4. ASSUME NEW i \in DOMAIN t.kernels PROVE KernelBound(t, us, t.kernels[i])
  <2> DEFINE e == t.kernels[i]
  <2>1. CASE i \in DOMAIN s.kernels /\ e = s.kernels[i]
    <3>1. KernelBound(s, us, e)
      BY <2>1, Zenon DEF Faithful, Resolved
    <3> HIDE DEF e
    <3>2. KernelBound(t, us, e)
      BY <1>1, <3>1, Zenon DEF KernelBound
    <3> QED BY <3>2 DEF e
  <2>2. CASE e.fatbin = h /\ e.function = 0 /\ \E j \in DOMAIN Kernels[u] : e.host = Kernels[u][j]
    <3>1. u \in Owners(e.host)
      BY <2>2, Zenon DEF Owners, Range
    <3> HIDE DEF e
    <3>2. KernelBound(t, us, e)
      BY <1>1, <2>2, <3>1 DEF KernelBound
    <3> QED BY <3>2 DEF e
  <2> QED BY <2>1, <2>2 DEF Defined
<1> QED BY <1>2, <1>3, <1>4 DEF Faithful, Resolved

\* A unit's fat binary gives up its module, which is of no other.
LEMMA LeftFaithful ==
  ASSUME NEW s, NEW t, NEW us \in [Units -> {"out", "in", "gone"}], NEW ims, NEW u \in Units,
         Good(s), Faithful(s, us, ims), NEW fb \in DOMAIN s.fatbins, s.fatbins[fb].unit = u,
         Left(s, t, fb)
  PROVE  Faithful(t, [us EXCEPT ![u] = "gone"], ims)
<1> DEFINE ws == [us EXCEPT ![u] = "gone"]
           mod == s.fatbins[fb].module
<1>1. /\ \A i \in DOMAIN s.fatbins : s.fatbins[i].unit \in Units
      /\ \A i \in DOMAIN s.fatbins : s.fatbins[i].module # 0 => s.fatbins[i].module \in DOMAIN s.modules
      /\ \A k \in DOMAIN s.kernels : s.kernels[k].fatbin # 0 => s.kernels[k].fatbin \in DOMAIN s.fatbins
  BY TablesAre, Zenon
<1>2. \A k \in DOMAIN s.kernels : s.kernels[k].function # 0 => s.kernels[k].function \in DOMAIN s.modules
  BY TablesAre
<1>3. ws[u] = "gone" /\ \A v \in Units : v # u => ws[v] = us[v]
  BY Zenon
<1> HIDE DEF ws
<1>4. Chosen(t, ims)
  <2>1. Chosen(s, ims)
    BY Zenon DEF Faithful
  <2>2. /\ t.ready = s.ready /\ t.device = s.device /\ t.ordinal = s.ordinal
        /\ DOMAIN t.modules = DOMAIN s.modules
    BY Zenon DEF Left, SameDevice
  <2>3. \A j \in DOMAIN s.modules :
          /\ t.modules[j].unit = s.modules[j].unit /\ t.modules[j].image = s.modules[j].image
          /\ t.modules[j].read = s.modules[j].read /\ t.modules[j].device = s.modules[j].device
    BY Zenon DEF Left
  <2> QED BY <2>1, <2>2, <2>3, ChosenSame, Zenon
<1>5. OfUnits(t, ws)
  <2>4. /\ \A i \in DOMAIN s.fatbins : us[s.fatbins[i].unit] # "out"
        /\ \A i, j \in DOMAIN s.fatbins : s.fatbins[i].unit = s.fatbins[j].unit => i = j
    BY Zenon DEF Faithful, OfUnits
  <2>5. DOMAIN t.fatbins = DOMAIN s.fatbins /\ \A i \in DOMAIN s.fatbins : t.fatbins[i].unit = s.fatbins[i].unit
    BY Zenon DEF Left
  <2>1. \A i \in DOMAIN t.fatbins : ws[t.fatbins[i].unit] # "out"
    BY <1>1, <1>3, <2>4, <2>5
  <2>2. \A i, j \in DOMAIN t.fatbins : t.fatbins[i].unit = t.fatbins[j].unit => i = j
    BY <2>4, <2>5, ZenonT(30)
  <2>3. ASSUME NEW i \in DOMAIN t.fatbins, t.fatbins[i].module # 0
        PROVE  /\ t.modules[t.fatbins[i].module].live
               /\ t.modules[t.fatbins[i].module].unit = t.fatbins[i].unit
    <3>1. i \in DOMAIN s.fatbins /\ i # fb /\ t.fatbins[i] = s.fatbins[i]
      BY <2>3, Zenon DEF Left
    <3> DEFINE j == s.fatbins[i].module
    <3>2. j \in DOMAIN s.modules /\ s.modules[j].live /\ s.modules[j].unit = s.fatbins[i].unit
      BY <1>1, <2>3, <3>1, Zenon DEF Faithful, OfUnits
    <3>3. j # mod
      <4>1. j # 0 /\ (s.fatbins[i].unit = u => i = fb)
        BY <2>3, <3>1, Zenon DEF Faithful, OfUnits
      <4>2. mod # 0 => s.modules[mod].unit = u
        BY Zenon DEF Faithful, OfUnits
      <4> HIDE DEF j, mod
      <4> QED BY <3>1, <3>2, <4>1, <4>2, Zenon
    <3> HIDE DEF j, mod
    <3>4. t.modules[j] = s.modules[j]
      BY <3>2, <3>3 DEF Left, mod
    <3> QED BY <3>1, <3>2, <3>4, Zenon DEF j
  <2> QED BY <2>1, <2>2, <2>3, Zenon DEF OfUnits
<1>6. ASSUME NEW k \in DOMAIN s.kernels PROVE KernelBound(t, ws, s.kernels[k])
  <2> DEFINE e == s.kernels[k]
  <2>1. /\ KernelBound(s, us, e) /\ (e.fatbin # 0 => e.fatbin \in DOMAIN s.fatbins)
        /\ e.function # 0 => e.function \in DOMAIN s.modules
    BY <1>1, <1>2, Zenon DEF Faithful, Resolved
  <2> HIDE DEF e
  <2>2. e.fatbin # 0 => t.fatbins[e.fatbin].unit = s.fatbins[e.fatbin].unit
    BY <2>1, Zenon DEF Left
  <2>3. e.function # 0 => t.modules[e.function].unit = s.modules[e.function].unit
    BY <2>1, Zenon DEF Left
  <2>4. ASSUME e.fatbin # 0, ws[s.fatbins[e.fatbin].unit] = "in"
        PROVE  t.fatbins[e.fatbin] = s.fatbins[e.fatbin] /\ us[s.fatbins[e.fatbin].unit] = "in"
    BY <1>1, <1>3, <2>1, <2>4, Zenon DEF Left
  <2>5. KernelBound(t, ws, e)
    BY <2>1, <2>2, <2>3, <2>4, Zenon DEF KernelBound
  <2> QED BY <2>5, Zenon DEF e
<1>7. t.kernels = s.kernels
  BY Zenon DEF Left
<1>8. Faithful(t, ws, ims)
  BY <1>4, <1>5, <1>6, <1>7 DEF Faithful, Resolved
<1> QED BY <1>8, Zenon DEF ws

\* A unit that has no fat binary.
LEMMA AbsentFaithful ==
  ASSUME NEW s, NEW us \in [Units -> {"out", "in", "gone"}], NEW ims, NEW u \in Units,
         Good(s), Faithful(s, us, ims), \A i \in DOMAIN s.fatbins : s.fatbins[i].unit # u
  PROVE  Faithful(s, [us EXCEPT ![u] = "gone"], ims)
<1> DEFINE ws == [us EXCEPT ![u] = "gone"]
<1>1. /\ \A i \in DOMAIN s.fatbins : ws[s.fatbins[i].unit] = us[s.fatbins[i].unit]
      /\ \A k \in DOMAIN s.kernels : s.kernels[k].fatbin # 0 => s.kernels[k].fatbin \in DOMAIN s.fatbins
  BY TablesAre, Zenon
<1> HIDE DEF ws
<1>2. OfUnits(s, ws)
  BY <1>1, Zenon DEF Faithful, OfUnits
<1>3. ASSUME NEW k \in DOMAIN s.kernels PROVE KernelBound(s, ws, s.kernels[k])
  <2> DEFINE e == s.kernels[k]
  <2>1. KernelBound(s, us, e) /\ (e.fatbin # 0 => e.fatbin \in DOMAIN s.fatbins)
    BY <1>1, Zenon DEF Faithful, Resolved
  <2> HIDE DEF e
  <2>2. KernelBound(s, ws, e)
    BY <1>1, <2>1, Zenon DEF KernelBound
  <2> QED BY <2>2 DEF e
<1>4. Faithful(s, ws, ims)
  BY <1>2, <1>3 DEF Faithful, Resolved
<1> QED BY <1>4, Zenon DEF ws
=============================================================================
