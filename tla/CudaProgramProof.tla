-------------------------- MODULE CudaProgramProof --------------------------
(* For any units, kernels, images, devices and sizes of the tables, in a     *)
(* program that has static objects as well: a destructor finds registered    *)
(* every unit that was when its object was finished; the runtime's tables    *)
(* refer to one another within their bounds, no module is loaded twice or    *)
(* left behind, a fat binary is written off only for its own image, a launch *)
(* that failed is known, a stub pops its own configuration, and it hands the *)
(* driver the kernel's own function, in the newest image the device runs.    *)
EXTENDS CudaProgram, StaticObjectsProof, CudaTablesProof

-----------------------------------------------------------------------------
(* The program on the CUDA runtime *)

InList(u) == \E p \in DOMAIN handlers : handlers[p] = Registration(u)

\* A unit is registered while its handler is in the exit list.
InStep == \A u \in Units : units[u] = "in" <=> InList(u)

\* The handlers of the units an object saw are below its own in the list.
Below ==
  \A i \in DOMAIN alive :
    /\ alive[i] \in DOMAIN saw /\ saw[alive[i]] \subseteq Units
    /\ \A u \in saw[alive[i]] : \A q \in DOMAIN handlers : handlers[q] = Object(alive[i]) =>
         \E p \in DOMAIN handlers : p < q /\ handlers[p] = Registration(u)

\* While its destructor runs they are still there.
Held == \A x \in dying : x \in DOMAIN saw /\ saw[x] \subseteq Units /\ \A u \in saw[x] : InList(u)

PInv ==
  /\ IInv
  /\ units \in [Units -> {"out", "in", "gone"}]
  /\ InStep /\ Below /\ Held

-----------------------------------------------------------------------------

\* A step of the program is a step of its static objects, or leaves them alone.
LEMMA ProgramStep == ASSUME IInv, [PNext]_pvars PROVE [SNext]_svars
<1>1. CASE \E u \in Units : Constructor(u) /\ Register(u)
  <2>1. PICK u \in Units : Register(u)
    BY <1>1, Zenon
  <2>2. u \in Offloads
    <3>1. Head(startup) \in Entries /\ Head(startup) = Registration(u)
      BY <2>1, HeadTail DEF IInv, Type, Register
    <3> QED BY <3>1 DEF Entries, Registration
  <2> QED BY <2>1, <2>2 DEF SNext
<1>2. CASE \E u \in Units : Destructor(u) /\ Unregister(u)
  <2>1. PICK u \in Units : Unregister(u)
    BY <1>2
  <2>2. u \in Offloads
    <3>1. Last(handlers) \in Handlers /\ Last(handlers) = Registration(u)
      BY <2>1, FrontLast DEF IInv, Type, Unregister
    <3> QED BY <3>1 DEF Handlers, Registration
  <2> QED BY <2>1, <2>2, Zenon DEF SNext
<1>3. CASE StaticStep
  BY <1>3 DEF StaticStep, SNext
<1>4. CASE CudaCall
  BY <1>4 DEF CudaCall
<1>5. CASE UNCHANGED pvars
  BY <1>5 DEF pvars
<1> QED BY <1>1, <1>2, <1>3, <1>4, <1>5 DEF PNext

\* A call of the runtime registers and unregisters nothing.
LEMMA CallUnits == CudaCall => UNCHANGED <<units, svars, saw>>
<1> SUFFICES ASSUME CudaCall PROVE UNCHANGED <<units, svars, saw>>
  OBVIOUS
<1>1. UNCHANGED units
  BY Zenon DEF CudaCall, BeginLaunch, ThrowArgument, Stub, MemoryCall, SymbolCall, QueryDevices,
         cudaSetDevice, cudaGetLastError, Call
<1> QED BY <1>1 DEF CudaCall

\* Nothing is registered and nothing is in the list.
LEMMA InitPInv == PInit => PInv
<1> SUFFICES ASSUME PInit PROVE PInv
  OBVIOUS
<1>1. IInv
  BY InitIInv DEF PInit
<1>2. units = [u \in Units |-> "out"] /\ handlers = <<>> /\ alive = <<>> /\ dying = {}
  BY DEF PInit, Init, SInit
<1> QED BY <1>1, <1>2 DEF PInv, InStep, InList, Below, Held

\* A unit is registered: its handler goes on top of those of every object that
\* did not see it.
LEMMA RegisterPInv ==
  ASSUME PInv, NEW u \in Units, Constructor(u), Register(u), saw' = saw
  PROVE  InStep' /\ Below' /\ Held' /\ units' \in [Units -> {"out", "in", "gone"}]
<1>1. /\ handlers' = Append(handlers, Registration(u)) /\ handlers \in Seq(Handlers)
      /\ UNCHANGED <<stack, guards, alive, dying, phase>>
      /\ units' = [units EXCEPT ![u] = "in"] /\ units \in [Units -> {"out", "in", "gone"}]
  BY Zenon DEF Register, AtExit, Constructor, PInv, IInv, Type
<1>2. Longer(handlers, Registration(u), handlers')
  <2>1. Registration(u) \in Handlers
    <3>1. startup \in Seq(Entries) /\ startup # <<>> /\ Head(startup) = Registration(u)
      BY Zenon DEF Register, PInv, IInv, Type
    <3>2. Registration(u) \in Entries
      BY <3>1, HeadTail, Zenon
    <3> QED
      BY <3>2 DEF Entries, Handlers, Registration
  <2> QED
    BY <1>1, <2>1, Appended, Zenon
<1>3. /\ \A p \in DOMAIN handlers' :
           handlers'[p] = Registration(u) \/ (p \in DOMAIN handlers /\ handlers'[p] = handlers[p])
      /\ \A p \in DOMAIN handlers : p \in DOMAIN handlers' /\ handlers'[p] = handlers[p]
      /\ Len(handlers) + 1 \in DOMAIN handlers' /\ handlers'[Len(handlers) + 1] = Registration(u)
  <2>1. Len(handlers) \in Nat /\ DOMAIN handlers' = 1..Len(handlers) + 1
    BY <1>2, Zenon DEF Longer
  <2>2. Len(handlers) + 1 \in DOMAIN handlers'
    BY <2>1
  <2> QED
    BY <1>2, <2>2, Zenon DEF Longer
<1>4. \A v \in Units : v = u \/ Registration(v) # Registration(u)
  BY DEF Registration
<1>5. \A x : Object(x) # Registration(u)
  BY DEF Registration, Object
<1>6. InStep'
  <2> SUFFICES ASSUME NEW v \in Units PROVE units'[v] = "in" <=> InList(v)'
    BY Zenon DEF InStep
  <2>1. CASE v = u
    BY <1>1, <1>3, <2>1, Zenon DEF InList
  <2>2. CASE v # u
    <3>1. units'[v] = units[v]
      BY <1>1, <2>2, Zenon
    <3>2. InList(v)' <=> InList(v)
      BY <1>3, <1>4, <2>2, Zenon DEF InList
    <3> QED BY <3>1, <3>2 DEF PInv, InStep
  <2> QED BY <2>1, <2>2
<1>7. Below'
  <2>1. ASSUME NEW i \in DOMAIN alive, NEW v \in saw[alive[i]],
               NEW q \in DOMAIN handlers', handlers'[q] = Object(alive[i])
        PROVE  \E p \in DOMAIN handlers' : p < q /\ handlers'[p] = Registration(v)
    <3>1. q \in DOMAIN handlers /\ handlers[q] = Object(alive[i])
      BY <1>3, <1>5, <2>1, Zenon
    <3>2. PICK p \in DOMAIN handlers : p < q /\ handlers[p] = Registration(v)
      BY <3>1, Zenon DEF PInv, Below
    <3> QED BY <1>3, <3>2, Zenon
  <2>2. \A i \in DOMAIN alive : alive[i] \in DOMAIN saw /\ saw[alive[i]] \subseteq Units
    BY DEF PInv, Below
  <2>3. alive' = alive /\ saw' = saw
    BY <1>1, Zenon
  <2> QED BY <2>1, <2>2, <2>3, ZenonT(40) DEF Below
<1>8. Held'
  <2>1. \A v : InList(v) => InList(v)'
    BY <1>3, Zenon DEF InList
  <2>2. dying' = dying /\ saw' = saw
    BY <1>1, Zenon
  <2> QED
    BY <2>1, <2>2, Zenon DEF PInv, Held
<1> QED BY <1>1, <1>6, <1>7, <1>8, Zenon

\* A unit is unregistered: no object that saw it is left in the list.
LEMMA UnregisterPInv ==
  ASSUME PInv, NEW u \in Units, Destructor(u), Unregister(u), saw' = saw
  PROVE  InStep' /\ Below' /\ Held' /\ units' \in [Units -> {"out", "in", "gone"}]
<1>1. /\ UNCHANGED <<startup, stack, guards, alive, dying, phase>> /\ dying = {}
      /\ units' = [units EXCEPT ![u] = "gone"] /\ units \in [Units -> {"out", "in", "gone"}]
  BY Zenon DEF Unregister, Idle, Destructor, PInv
<1>2. /\ Len(handlers) \in DOMAIN handlers /\ Registration(u) = handlers[Len(handlers)]
      /\ \A p \in DOMAIN handlers' :
           p \in DOMAIN handlers /\ handlers'[p] = handlers[p] /\ handlers[p] # Registration(u)
      /\ \A p \in DOMAIN handlers : p \in DOMAIN handlers' \/ p = Len(handlers)
      /\ \A p \in DOMAIN handlers : p <= Len(handlers) /\ p \in Nat
  BY LastHandler, Zenon DEF Unregister, PInv
<1>3. \A v \in Units : v = u \/ Registration(v) # Registration(u)
  BY DEF Registration
<1>4. InStep'
  <2> SUFFICES ASSUME NEW v \in Units PROVE units'[v] = "in" <=> InList(v)'
    BY DEF InStep
  <2>1. CASE v = u
    BY <1>1, <1>2, <2>1, Zenon DEF InList
  <2>2. CASE v # u
    <3>1. units'[v] = units[v]
      BY <1>1, <2>2, Zenon
    <3>2. InList(v)' <=> InList(v)
      BY <1>2, <1>3, <2>2, Zenon DEF InList
    <3> QED BY <3>1, <3>2 DEF PInv, InStep
  <2> QED BY <2>1, <2>2
<1>5. Below'
  <2>1. ASSUME NEW i \in DOMAIN alive, NEW v \in saw[alive[i]],
               NEW q \in DOMAIN handlers', handlers'[q] = Object(alive[i])
        PROVE  \E p \in DOMAIN handlers' : p < q /\ handlers'[p] = Registration(v)
    <3>1. q \in DOMAIN handlers /\ handlers[q] = Object(alive[i])
      BY <1>2, <2>1, Zenon
    <3>2. PICK p \in DOMAIN handlers : p < q /\ handlers[p] = Registration(v)
      BY <3>1, Zenon DEF PInv, Below
    <3>3. p # Len(handlers)
      BY <1>2, <3>1, <3>2
    <3> QED BY <1>2, <3>2, <3>3, Zenon
  <2>2. \A i \in DOMAIN alive : alive[i] \in DOMAIN saw /\ saw[alive[i]] \subseteq Units
    BY DEF PInv, Below
  <2>3. alive' = alive /\ saw' = saw
    BY <1>1, Zenon
  <2> QED BY <2>1, <2>2, <2>3, ZenonT(30) DEF Below
<1>6. Held'
  BY <1>1 DEF Held
<1> QED BY <1>1, <1>4, <1>5, <1>6, Zenon

\* An object is finished: what it sees is in the list, and it goes on top.
LEMMA FinishPInv ==
  ASSUME PInv, EndInitializer, UNCHANGED units,
         saw' = IF Len(alive') > Len(alive) THEN Saw(Last(alive')) ELSE saw
  PROVE  InStep' /\ Below' /\ Held'
<1> DEFINE x == Last(stack)
<1>1. /\ alive' = Append(alive, x) /\ UNCHANGED <<startup, guards, dying, phase>>
      /\ handlers' = IF x \in Destroyed THEN Append(handlers, Object(x)) ELSE handlers
  BY DEF EndInitializer, registerStaticDtor, AtExit
<1>2. /\ Len(stack) \in DOMAIN stack /\ x = stack[Len(stack)] /\ x \in Objects
      /\ alive \in Seq(Objects) /\ handlers \in Seq(Handlers)
  <2>1. /\ stack \in Seq(Objects) /\ stack # <<>>
        /\ alive \in Seq(Objects) /\ handlers \in Seq(Handlers)
    BY DEF PInv, IInv, Type, EndInitializer
  <2>2. Len(stack) \in Nat \ {0} /\ x \in Objects /\ x = stack[Len(stack)]
    BY <2>1, FrontLast
  <2>3. DOMAIN stack = 1..Len(stack)
    BY <2>1, SeqIndexed, Zenon
  <2> QED BY <2>1, <2>2, <2>3
<1>3. (\A i \in DOMAIN alive : alive[i] # x) /\ x \notin dying
  BY <1>2, Zenon DEF PInv, IInv, Apart, EachOnce, NoTrace, OneState
<1> HIDE DEF x
<1>4. /\ Len(alive) \in Nat /\ Len(alive') = Len(alive) + 1 /\ alive'[Len(alive) + 1] = x
      /\ \A i \in DOMAIN alive' : alive'[i] = x \/ (i \in DOMAIN alive /\ alive'[i] = alive[i])
  <2>1. Longer(alive, x, alive')
    BY <1>1, <1>2, Appended, Zenon
  <2> QED
    BY <2>1, Zenon DEF Longer
<1>5. saw' = Saw(x)
  BY <1>4 DEF Last
<1>6. /\ x \in DOMAIN saw' /\ saw'[x] = RegisteredNow
      /\ \A y \in DOMAIN saw : y # x => y \in DOMAIN saw' /\ saw'[y] = saw[y]
  BY <1>5, Zenon DEF Saw
<1>7. Object(x) \in Handlers
  BY <1>2 DEF Object, Handlers
<1>8. /\ Len(handlers) \in Nat /\ DOMAIN handlers = 1..Len(handlers)
      /\ \A p \in DOMAIN handlers : p \in DOMAIN handlers' /\ handlers'[p] = handlers[p]
      /\ \A p \in DOMAIN handlers' :
           \/ p \in DOMAIN handlers /\ handlers'[p] = handlers[p]
           \/ p = Len(handlers) + 1 /\ handlers'[p] = Object(x)
  <2>1. CASE x \in Destroyed
    <3>1. Longer(handlers, Object(x), handlers')
      BY <1>1, <1>2, <1>7, <2>1, Appended, Zenon
    <3> QED
      BY <3>1, Zenon DEF Longer
  <2>2. CASE x \notin Destroyed
    <3>1. Len(handlers) \in Nat /\ DOMAIN handlers = 1..Len(handlers)
      BY <1>2, SeqIndexed, Zenon
    <3> QED
      BY <1>1, <2>2, <3>1, Zenon
  <2> QED
    BY <2>1, <2>2, Zenon
<1>9. \A u : InList(u)' <=> InList(u)
  <2>1. \A u : Registration(u) # Object(x)
    BY DEF Registration, Object
  <2> QED BY <1>8, <2>1, Zenon DEF InList
<1>10. InStep'
  BY <1>9, Zenon DEF PInv, InStep
<1>11. \A p \in DOMAIN handlers : handlers[p] # Object(x)
  BY <1>3 DEF PInv, IInv, Listed, Accounted, Kept, InOrder, Object
<1>12. Below'
  <2>1. ASSUME NEW i \in DOMAIN alive
        PROVE  /\ alive[i] \in DOMAIN saw' /\ saw'[alive[i]] \subseteq Units
               /\ \A u \in saw'[alive[i]] : \A q \in DOMAIN handlers' : handlers'[q] = Object(alive[i]) =>
                    \E p \in DOMAIN handlers' : p < q /\ handlers'[p] = Registration(u)
    <3>1. alive[i] # x /\ Object(alive[i]) # Object(x)
      BY <1>3 DEF Object
    <3>2. alive[i] \in DOMAIN saw /\ saw'[alive[i]] = saw[alive[i]] /\ alive[i] \in DOMAIN saw'
      BY <1>6, <2>1, <3>1, Zenon DEF PInv, Below
    <3>3. ASSUME NEW u \in saw[alive[i]], NEW q \in DOMAIN handlers', handlers'[q] = Object(alive[i])
          PROVE  \E p \in DOMAIN handlers' : p < q /\ handlers'[p] = Registration(u)
      <4>1. q \in DOMAIN handlers /\ handlers[q] = Object(alive[i])
        BY <1>8, <3>1, <3>3, Zenon
      <4>2. PICK p \in DOMAIN handlers : p < q /\ handlers[p] = Registration(u)
        BY <4>1, Zenon DEF PInv, Below
      <4> QED BY <1>8, <4>2, Zenon
    <3>4. saw[alive[i]] \subseteq Units
      BY Zenon DEF PInv, Below
    <3> QED BY <3>2, <3>3, <3>4, Zenon
  <2>2. ASSUME NEW u \in RegisteredNow, NEW q \in DOMAIN handlers', handlers'[q] = Object(x)
        PROVE  \E p \in DOMAIN handlers' : p < q /\ handlers'[p] = Registration(u)
    <3>1. q = Len(handlers) + 1
      BY <1>8, <1>11, <2>2, Zenon
    <3>2. PICK p \in DOMAIN handlers : handlers[p] = Registration(u)
      BY Zenon DEF PInv, InStep, InList, RegisteredNow
    <3>3. p < q
      BY <1>8, <3>1, <3>2
    <3> QED BY <1>8, <3>2, <3>3, Zenon
  <2>3. RegisteredNow \subseteq Units
    BY DEF RegisteredNow
  <2>4. \A i \in DOMAIN alive' : alive'[i] = x \/ (i \in DOMAIN alive /\ alive'[i] = alive[i])
    BY <1>4, Zenon
  <2>5. ASSUME NEW i \in DOMAIN alive'
        PROVE  /\ alive'[i] \in DOMAIN saw' /\ saw'[alive'[i]] \subseteq Units
               /\ \A u \in saw'[alive'[i]] : \A q \in DOMAIN handlers' : handlers'[q] = Object(alive'[i]) =>
                    \E p \in DOMAIN handlers' : p < q /\ handlers'[p] = Registration(u)
    <3>1. CASE alive'[i] = x
      BY <1>6, <2>2, <2>3, <3>1, Zenon
    <3>2. CASE i \in DOMAIN alive /\ alive'[i] = alive[i]
      BY <2>1, <3>2, ZenonT(40)
    <3> QED BY <2>4, <3>1, <3>2, Zenon
  <2> QED BY <2>5, Zenon DEF Below
<1>13. Held'
  <2> SUFFICES ASSUME NEW y \in dying
               PROVE  y \in DOMAIN saw' /\ saw'[y] \subseteq Units /\ \A u \in saw'[y] : InList(u)'
    BY <1>1 DEF Held
  <2>1. y \in DOMAIN saw /\ y # x
    BY <1>3 DEF PInv, Held
  <2>2. y \in DOMAIN saw' /\ saw'[y] = saw[y]
    BY <1>6, <2>1
  <2> QED BY <1>9, <2>2, Zenon DEF PInv, Held
<1> QED BY <1>10, <1>12, <1>13, Zenon

\* A destructor is begun: the units its object saw are below it in the list.
LEMMA DestroyPInv ==
  ASSUME PInv, RunDestructor, UNCHANGED units,
         saw' = IF Len(alive') > Len(alive) THEN Saw(Last(alive')) ELSE saw
  PROVE  InStep' /\ Below' /\ Held'
<1>1. PICK n \in DOMAIN alive : alive[n] = Last(handlers).x /\ alive' = Without(alive, n)
  BY Zenon DEF RunDestructor
<1> DEFINE x == alive[n]
<1>2. /\ Last(handlers) \in Handlers
      /\ Len(handlers) \in DOMAIN handlers /\ Last(handlers) = handlers[Len(handlers)]
      /\ \A p \in DOMAIN handlers' :
           p \in DOMAIN handlers /\ handlers'[p] = handlers[p] /\ handlers[p] # Last(handlers)
      /\ \A p \in DOMAIN handlers : p \in DOMAIN handlers' \/ p = Len(handlers)
      /\ \A p \in DOMAIN handlers : p <= Len(handlers) /\ p \in Nat
  BY LastHandler, Zenon DEF PInv, RunDestructor
<1>3. handlers[Len(handlers)] = Object(x) /\ dying' = {x}
  BY <1>1, <1>2, Zenon DEF RunDestructor, Handlers, Object
<1>4. alive \in Seq(Objects) /\ Len(alive) \in Nat /\ DOMAIN alive = 1..Len(alive)
  BY SeqIndexed DEF PInv, IInv, Type
<1>5. /\ alive' \in Seq(Objects) /\ Len(alive') = Len(alive) - 1
      /\ \A i \in 1..Len(alive) - 1 : alive'[i] = IF i < n THEN alive[i] ELSE alive[i + 1]
  BY <1>1, <1>4, Removed, Zenon
<1>6. DOMAIN alive' = 1..Len(alive) - 1
  BY <1>4, <1>5, SeqIndexed, Zenon
<1>7. UNCHANGED saw
  BY <1>4, <1>5
<1>8. \A i \in DOMAIN alive' : \E j \in DOMAIN alive : alive'[i] = alive[j]
  <2> SUFFICES ASSUME NEW i \in DOMAIN alive' PROVE \E j \in DOMAIN alive : alive'[i] = alive[j]
    BY Zenon
  <2>1. /\ i \in DOMAIN alive /\ i + 1 \in DOMAIN alive
        /\ alive'[i] = alive[i] \/ alive'[i] = alive[i + 1]
    BY <1>4, <1>5, <1>6
  <2> QED BY <2>1, Zenon
<1>9. \A u : InList(u)' <=> InList(u)
  <2>1. \A u : Registration(u) # Object(x)
    BY DEF Registration, Object
  <2> QED BY <1>2, <1>3, <2>1, Zenon DEF InList
<1>10. InStep'
  BY <1>9, Zenon DEF PInv, InStep
<1>11. Below'
  <2> SUFFICES ASSUME NEW i \in DOMAIN alive'
               PROVE  /\ alive'[i] \in DOMAIN saw /\ saw[alive'[i]] \subseteq Units
                      /\ \A u \in saw[alive'[i]] :
                           \A q \in DOMAIN handlers' : handlers'[q] = Object(alive'[i]) =>
                             \E p \in DOMAIN handlers' : p < q /\ handlers'[p] = Registration(u)
    BY <1>7, Zenon DEF Below
  <2>1. PICK j \in DOMAIN alive : alive'[i] = alive[j]
    BY <1>8, Zenon
  <2>2. /\ alive[j] \in DOMAIN saw /\ saw[alive[j]] \subseteq Units
        /\ \A u \in saw[alive[j]] : \A q \in DOMAIN handlers : handlers[q] = Object(alive[j]) =>
             \E p \in DOMAIN handlers : p < q /\ handlers[p] = Registration(u)
    BY <2>1, Zenon DEF PInv, Below
  <2>3. ASSUME NEW u \in saw[alive[j]], NEW q \in DOMAIN handlers', handlers'[q] = Object(alive[j])
        PROVE  \E p \in DOMAIN handlers' : p < q /\ handlers'[p] = Registration(u)
    <3>1. q \in DOMAIN handlers /\ handlers[q] = Object(alive[j])
      BY <1>2, <2>3, Zenon
    <3>2. PICK p \in DOMAIN handlers : p < q /\ handlers[p] = Registration(u)
      BY <2>2, <2>3, <3>1, Zenon
    <3>3. p # Len(handlers)
      BY <1>3, <3>2 DEF Registration, Object
    <3> QED BY <1>2, <3>2, <3>3, Zenon
  <2> QED BY <2>1, <2>2, <2>3, Zenon
<1>12. Held'
  <2>1. x \in DOMAIN saw /\ saw[x] \subseteq Units /\ \A u \in saw[x] : InList(u)
    BY <1>2, <1>3, Zenon DEF PInv, Below, InList
  <2> QED BY <1>3, <1>7, <1>9, <2>1, Zenon DEF Held
<1> QED BY <1>10, <1>11, <1>12, Zenon

\* The other steps of the static objects change neither list, and begin no destructor.
LEMMA OtherPInv ==
  ASSUME PInv, UNCHANGED <<units, handlers, alive, saw>>, dying' \subseteq dying
  PROVE  InStep' /\ Below' /\ Held'
<1>1. InStep' /\ Held'
  BY Zenon DEF PInv, InStep, InList, Held
<1>2. Below'
  BY DEF PInv, Below
<1> QED
  BY <1>1, <1>2, Zenon

\* A step of the static objects between two calls of the runtime.
LEMMA StaticPInv == ASSUME PInv, StaticStep PROVE InStep' /\ Below' /\ Held'
<1>1. /\ UNCHANGED units
      /\ saw' = IF Len(alive') > Len(alive) THEN Saw(Last(alive')) ELSE saw
  BY DEF StaticStep
<1>2. CASE EndInitializer
  BY <1>1, <1>2, FinishPInv
<1>3. CASE RunDestructor
  BY <1>1, <1>3, DestroyPInv
<1>4. CASE ~EndInitializer /\ ~RunDestructor
  <2>1. UNCHANGED <<alive, handlers>> /\ dying' \subseteq dying
    BY <1>4 DEF StaticStep, SStep, BeginObject, DeclareStaticLocal, ThrowInitializer,
                Terminate, EnterMain, Exit, EndDestructor, EndProgram
  <2>2. Len(alive) \in Nat
    BY SeqIndexed DEF PInv, IInv, Type
  <2>3. UNCHANGED saw
    BY <1>1, <2>1, <2>2
  <2> QED BY <1>1, <2>1, <2>3, OtherPInv, Zenon
<1> QED BY <1>2, <1>3, <1>4, Zenon

\* Every step of the program keeps the invariant.
LEMMA StepPInv == PInv /\ [PNext]_pvars => PInv'
<1> SUFFICES ASSUME PInv, [PNext]_pvars PROVE PInv'
  OBVIOUS
<1>1. IInv'
  BY ProgramStep, StepIInv DEF PInv
<1>2. CASE \E u \in Units : Constructor(u) /\ Register(u) /\ UNCHANGED saw
  BY <1>1, <1>2, RegisterPInv, Zenon DEF PInv
<1>3. CASE \E u \in Units : Destructor(u) /\ Unregister(u) /\ UNCHANGED saw
  BY <1>1, <1>3, UnregisterPInv DEF PInv
<1>4. CASE StaticStep
  <2>1. UNCHANGED units
    BY <1>4, Zenon DEF StaticStep
  <2> QED BY <1>1, <1>4, <2>1, StaticPInv, Zenon DEF PInv
<1>5. CASE CudaCall \/ UNCHANGED pvars
  <2>1. UNCHANGED <<units, svars, saw>>
    BY <1>5, CallUnits DEF pvars, vars
  <2> QED BY <1>1, <2>1, OtherPInv, Zenon DEF PInv, svars
<1> QED BY <1>2, <1>3, <1>4, <1>5, Zenon DEF PNext

-----------------------------------------------------------------------------
(* Theorems *)

\* The invariant holds of every program on the runtime.
THEOREM ProgramInvariance == PSpec => []PInv
<1>1. PInit => PInv
  BY InitPInv
<1>2. PInv /\ [PNext]_pvars => PInv'
  BY StepPInv
<1> QED BY <1>1, <1>2, PTL DEF PSpec

\* The runtime, its registrations among the exit handlers, leaves the life of the
\* static objects what it is without it: a program on the runtime implements
\* StaticObjects, and what is proved of that holds of it.
THEOREM ProgramImplementsStatics == PSpec => SSpec
<1>1. PInit => SInit
  BY DEF PInit
<1>2. PInv /\ [PNext]_pvars => [SNext]_svars
  BY ProgramStep DEF PInv
<1> QED BY <1>1, <1>2, ProgramInvariance, PTL DEF PSpec, SSpec

\* In a program on the runtime as in any, initializers run once, destructors in
\* the reverse order of completion, and none is left out.
THEOREM ProgramStatics ==
  PSpec => []InitializedOnce /\ []DestroyedAtExit /\ ReverseOfCompletion
BY ProgramImplementsStatics, RunOnce, AllDestroyed, ReverseDestruction, Zenon

\* The exit list keeps a unit registered for the destructor of every object that
\* was finished after it was: the destructor of launch.go's registration is
\* handed to atexit where the registration is made, below those of such objects.
THEOREM SeesRegistered == PSpec => []SeesWhatItSaw
<1>1. PInv => SeesWhatItSaw
  BY DEF PInv, Held, InStep, SeesWhatItSaw, RegisteredNow
<1> QED BY <1>1, ProgramInvariance, PTL

-----------------------------------------------------------------------------
(* The inductive invariant *)

Pending == [stub : Stubs, cfg : Configs, own : BOOLEAN]

\* A launch that can still count on its push finds it at its own depth.
Stacked ==
  /\ configs \in Seq(Configs) /\ Len(configs) <= MaxConfigs
  /\ frames \in Seq(Pending)
  /\ \A i \in 1..Len(frames) : frames[i].own =>
       /\ Len(frames) - i < Len(configs)
       /\ frames[i].cfg = configs[Len(configs) - (Len(frames) - i)]

RInv ==
  /\ units \in [Units -> {"out", "in", "gone"}] /\ images \in Embeds
  /\ lost \in BOOLEAN /\ dead \in BOOLEAN
  /\ Good(rt)
  /\ lost /\ ~dead => rt.lastError = "error"
  /\ Stacked
  /\ ConfigKept

\* The invariant holds before the first constructor.
LEMMA InitRInv == Init => RInv
<1> SUFFICES ASSUME Init PROVE RInv
  OBVIOUS
<1>1. rt \in State
  BY DEF Init, NewState, State
<1>2. Good(rt)
  <2>1. rt.fatbins = <<>> /\ rt.kernels = <<>> /\ rt.vars = <<>> /\ rt.modules = <<>>
    BY DEF Init, NewState
  <2>2. Bounded(rt)
    BY <2>1, TablesAssumption DEF Bounded
  <2>3. /\ DOMAIN rt.fatbins = {} /\ DOMAIN rt.kernels = {} /\ DOMAIN rt.vars = {}
        /\ DOMAIN rt.modules = {}
    BY <2>1
  <2> QED BY <1>1, <2>2, <2>3, ZenonT(40) DEF Good, Within, WrittenOff, Named
<1>3. Stacked
  BY TablesAssumption DEF Init, Stacked
<1> QED BY <1>2, <1>3, Zenon DEF Init, RInv, ConfigKept

\* A unit's constructor keeps it.
LEMMA ConstructorRInv ==
  ASSUME RInv, NEW u \in Units, Constructor(u)
  PROVE  RInv'
<1> DEFINE reg == RegisterFatBinary(rt, u)
           fun == RegisterFunctions(reg.s, reg.h, Kernels[u])
<1>1. /\ rt' = RegisterVars(fun, reg.h, Vars[u])
      /\ units' = [units EXCEPT ![u] = "in"] /\ launched' = None
      /\ images' = images /\ configs' = configs /\ frames' = frames /\ lost' = lost /\ dead' = dead
  BY DEF Constructor
<1>2. Good(reg.s) /\ reg.h \in 0..Len(reg.s.fatbins) /\ reg.s.lastError = rt.lastError
  BY FatBinaryRegistered, Zenon DEF RInv
<1> HIDE DEF reg
<1>3. Good(fun) /\ fun.fatbins = reg.s.fatbins /\ fun.lastError = rt.lastError
  BY <1>2, FunctionsRegistered, TablesAssumption, ZenonT(40) DEF Defined
<1> HIDE DEF fun
<1>4. Good(rt') /\ rt'.lastError = rt.lastError
  BY <1>1, <1>2, <1>3, VarsRegistered, TablesAssumption
<1> QED BY <1>1, <1>4 DEF RInv, Stacked, ConfigKept

\* A unit's destructor keeps it.
LEMMA DestructorRInv ==
  ASSUME RInv, NEW u \in Units, Destructor(u)
  PROVE  RInv'
<1>1. /\ rt' \in UnregisterFatBinary(rt, Handle(rt, u))
      /\ units' = [units EXCEPT ![u] = "gone"] /\ launched' = None
      /\ images' = images /\ configs' = configs /\ frames' = frames /\ lost' = lost /\ dead' = dead
  BY DEF Destructor
<1>2. Good(rt') /\ rt'.lastError = rt.lastError
  <2>1. Handle(rt, u) \in 0..Len(rt.fatbins) /\ Good(rt)
    BY LookupIndex DEF RInv
  <2> QED BY <1>1, <2>1, Unregistered, Zenon
<1> QED BY <1>1, <1>2 DEF RInv, Stacked, ConfigKept

\* Launches that lost their pushes keep their place and own none.
LEMMA MixedOwnsNothing ==
  ASSUME NEW fs \in Seq(Pending)
  PROVE  /\ Mixed(fs) \in Seq(Pending) /\ Len(Mixed(fs)) = Len(fs)
         /\ \A i \in 1..Len(fs) : ~Mixed(fs)[i].own
<1>1. Len(fs) \in Nat /\ DOMAIN fs = 1..Len(fs) /\ \A i \in 1..Len(fs) : fs[i] \in Pending
  BY SeqIndexed
<1>2. \A i \in 1..Len(fs) : Mixed(fs)[i] \in Pending /\ ~Mixed(fs)[i].own
  BY <1>1, Zenon DEF Mixed, Pending
<1>3. Mixed(fs) \in [1..Len(fs) -> Pending]
  BY <1>1, <1>2 DEF Mixed
<1>4. Mixed(fs) \in Seq(Pending)
  BY <1>1, <1>3, SeqOf
<1>5. Len(Mixed(fs)) = Len(fs)
  BY <1>1, <1>3, <1>4, SeqIndexed
<1> QED BY <1>2, <1>4, <1>5

\* A push keeps it: the new launch is at the top of both stacks, or owns nothing.
LEMMA BeginLaunchRInv ==
  ASSUME RInv, NEW stub \in Stubs, NEW c \in Configs, BeginLaunch(stub, c)
  PROVE  RInv'
<1> DEFINE f == [stub |-> stub, cfg |-> c, own |-> TRUE]
           fs == Append(frames, f)
           n == Len(frames)
           m == Len(configs)
<1>1. /\ configs \in Seq(Configs) /\ frames \in Seq(Pending) /\ n \in Nat /\ m \in Nat
      /\ m <= MaxConfigs /\ MaxConfigs \in Nat
  BY SeqIndexed, TablesAssumption DEF RInv, Stacked
<1>2. f \in Pending /\ f.cfg = c
  BY DEF Pending
<1> HIDE DEF f
<1>3. /\ fs \in Seq(Pending) /\ Len(fs) = n + 1 /\ fs[n + 1] = f
      /\ \A i \in 1..n : fs[i] = frames[i]
  BY <1>1, <1>2, SeqAppend
<1>4. /\ configs' = Push(c) /\ frames' = IF m >= MaxConfigs THEN Mixed(fs) ELSE fs
      /\ launched' = None /\ units' = units /\ images' = images /\ rt' = rt /\ lost' = lost
      /\ dead' = dead
  BY DEF BeginLaunch, f
<1>7. \A i \in 1..n : frames[i].own => n - i < m /\ frames[i].cfg = configs[m - (n - i)]
  BY DEF RInv, Stacked
<1> HIDE DEF fs, n
<1>5. CASE m >= MaxConfigs
  <2>1. configs' = configs /\ frames' = Mixed(fs)
    BY <1>4, <1>5 DEF Push
  <2>2. Stacked'
    BY <1>1, <1>3, <2>1, MixedOwnsNothing, Zenon DEF Stacked
  <2> QED BY <1>4, <2>2 DEF RInv, ConfigKept
<1>6. CASE ~(m >= MaxConfigs)
  <2> HIDE DEF m
  <2>1. configs' = Append(configs, c) /\ frames' = fs
    BY <1>4, <1>6 DEF Push, m
  <2>2. /\ configs' \in Seq(Configs) /\ Len(configs') = m + 1 /\ configs'[m + 1] = c
        /\ \A i \in 1..m : configs'[i] = configs[i]
    BY <1>1, <2>1, SeqAppend DEF m
  <2>3. ASSUME NEW i \in 1..(n + 1), fs[i].own
        PROVE  (n + 1) - i < m + 1 /\ fs[i].cfg = configs'[(m + 1) - ((n + 1) - i)]
    <3>1. CASE i = n + 1
      BY <1>1, <1>2, <1>3, <2>2, <3>1
    <3>2. CASE i # n + 1
      <4>1. i \in 1..n /\ fs[i] = frames[i]
        BY <1>1, <1>3, <3>2
      <4>2. n - i < m /\ frames[i].cfg = configs[m - (n - i)]
        BY <1>7, <2>3, <4>1
      <4>3. m - (n - i) \in 1..m /\ (m + 1) - ((n + 1) - i) = m - (n - i)
        BY <1>1, <4>1, <4>2
      <4>4. (n + 1) - i < m + 1
        BY <1>1, <4>1, <4>2
      <4>5. configs'[(m + 1) - ((n + 1) - i)] = configs[m - (n - i)]
        BY <2>2, <4>3
      <4> QED BY <4>1, <4>2, <4>4, <4>5, Zenon
    <3> QED BY <3>1, <3>2
  <2>4. m + 1 <= MaxConfigs /\ Len(configs') = m + 1 /\ Len(frames') = n + 1
    BY <1>1, <1>3, <1>6, <2>1, <2>2
  <2>5. Stacked'
    BY <1>3, <2>1, <2>2, <2>3, <2>4 DEF Stacked
  <2> QED BY <1>4, <2>5 DEF RInv, ConfigKept
<1> QED BY <1>5, <1>6

\* An abandoned launch keeps it: no launch around it owns its push any more.
LEMMA ThrowArgumentRInv ==
  ASSUME RInv, ThrowArgument
  PROVE  RInv'
<1>1. /\ frames # <<>> /\ frames' = Mixed(Front(frames)) /\ launched' = None /\ units' = units
      /\ images' = images /\ rt' = rt /\ configs' = configs /\ lost' = lost /\ dead' = dead
  BY DEF ThrowArgument
<1>2. frames \in Seq(Pending)
  BY DEF RInv, Stacked
<1>3. Front(frames) \in Seq(Pending)
  BY <1>1, <1>2, FrontLast, Zenon
<1>4. Stacked'
  BY <1>1, <1>3, MixedOwnsNothing, Zenon DEF RInv, Stacked
<1> QED BY <1>1, <1>4 DEF RInv, ConfigKept

\* A stub keeps it: both stacks lose their top.
LEMMA StubRInv ==
  ASSUME RInv, Stub
  PROVE  RInv'
<1> DEFINE n == Len(frames)
           m == Len(configs)
           own == Last(frames)
<1>1. PICK c \in (IF configs = <<>> THEN Configs ELSE {Pop}), o \in Launch(rt, own.stub) :
        /\ rt' = o.s /\ dead' = (o.e = "null") /\ lost' = (lost \/ o.e # "none")
        /\ launched' = IF o.e # "none" THEN None
                       ELSE [stub |-> own.stub, cfg |-> c, want |-> own.cfg, own |-> own.own,
                             module |-> o.h]
  BY DEF Stub
<1>2. /\ ~dead /\ frames # <<>> /\ frames' = Front(frames)
      /\ configs' = IF configs = <<>> THEN configs ELSE Front(configs)
      /\ units' = units /\ images' = images
  BY DEF Stub
<1>3. configs \in Seq(Configs) /\ frames \in Seq(Pending) /\ m \in Nat /\ m <= MaxConfigs
      /\ MaxConfigs \in Nat
  BY SeqIndexed, TablesAssumption DEF RInv, Stacked
<1>4. /\ n \in Nat \ {0} /\ own = frames[n] /\ own \in Pending /\ Front(frames) \in Seq(Pending)
      /\ Len(Front(frames)) = n - 1 /\ \A i \in 1..(n - 1) : Front(frames)[i] = frames[i]
  BY <1>2, <1>3, FrontLast, ZenonT(30)
<1>5. Comes(rt, o)
  BY LaunchComes DEF RInv
<1>6. configs # <<>> =>
        /\ m # 0 /\ Last(configs) = configs[m] /\ Front(configs) \in Seq(Configs)
        /\ Len(Front(configs)) = m - 1 /\ \A i \in 1..(m - 1) : Front(configs)[i] = configs[i]
  BY <1>3, FrontLast, Zenon
<1>7. configs = <<>> => m = 0
  OBVIOUS
<1>8. \A i \in 1..n : frames[i].own => n - i < m /\ frames[i].cfg = configs[m - (n - i)]
  BY DEF RInv, Stacked
<1> HIDE DEF n, m, own
<1>9. Stacked'
  <2>1. CASE configs = <<>>
    <3>1. \A i \in 1..n : ~frames[i].own
      BY <1>4, <1>7, <1>8, <2>1
    <3>2. \A i \in 1..(n - 1) : ~Front(frames)[i].own
      BY <1>4, <3>1
    <3> QED BY <1>2, <1>3, <1>4, <2>1, <3>2, Zenon DEF Stacked, m
  <2>2. CASE configs # <<>>
    <3>1. ASSUME NEW i \in 1..(n - 1), Front(frames)[i].own
          PROVE  /\ (n - 1) - i < m - 1
                 /\ Front(frames)[i].cfg = Front(configs)[(m - 1) - ((n - 1) - i)]
      <4>1. i \in 1..n /\ Front(frames)[i] = frames[i]
        BY <1>4
      <4>2. n - i < m /\ frames[i].cfg = configs[m - (n - i)]
        BY <1>8, <3>1, <4>1, Zenon
      <4>3. /\ m - (n - i) \in 1..(m - 1) /\ (m - 1) - ((n - 1) - i) = m - (n - i)
            /\ (n - 1) - i < m - 1
        BY <1>3, <1>4, <4>2
      <4> QED BY <1>6, <2>2, <4>1, <4>2, <4>3, Zenon
    <3>2. /\ configs' = Front(configs) /\ frames' = Front(frames) /\ Len(configs') = m - 1
          /\ Len(frames') = n - 1 /\ m - 1 <= MaxConfigs
      BY <1>2, <1>3, <1>4, <1>6, <2>2
    <3> QED BY <1>4, <1>6, <2>2, <3>1, <3>2, ZenonT(40) DEF Stacked
  <2> QED BY <2>1, <2>2
<1>10. ConfigKept'
  <2>1. CASE o.e # "none"
    BY <1>1, <2>1, Zenon DEF ConfigKept
  <2>2. CASE o.e = "none"
    <3>1. launched'.own = own.own /\ launched'.cfg = c /\ launched'.want = own.cfg
      BY <1>1, <2>2, Zenon
    <3>2. ASSUME own.own PROVE c = own.cfg
      <4>1. n - n < m /\ own.cfg = configs[m - (n - n)] /\ n - n = 0 /\ m - 0 = m
        BY <1>3, <1>4, <1>8, <3>2
      <4>2. configs # <<>>
        BY <1>3, <1>7, <4>1
      <4> QED BY <1>1, <1>6, <4>1, <4>2, Zenon DEF Pop
    <3> QED BY <3>1, <3>2, Zenon DEF ConfigKept
  <2> QED BY <2>1, <2>2, Zenon
<1>11. dead' \in BOOLEAN /\ lost' \in BOOLEAN
  BY <1>1, Zenon
<1>12. lost' /\ ~dead' => rt'.lastError = "error"
  <2>1. lost => rt.lastError = "error"
    BY <1>2, Zenon DEF RInv
  <2> QED BY <1>1, <1>5, <2>1, Zenon DEF Comes
<1>13. Good(rt')
  BY <1>1, <1>5, Zenon DEF Comes
<1> QED BY <1>2, <1>9, <1>10, <1>11, <1>12, <1>13, ZenonT(40) DEF RInv

\* A call that comes to what the tables allow keeps it.
LEMMA CallRInv ==
  ASSUME RInv, NEW outs, \A o \in outs : Comes(rt, o), Call(outs)
  PROVE  RInv'
<1>1. PICK o \in outs : rt' = o.s /\ dead' = (o.e = "null")
  BY DEF Call
<1>2. /\ ~dead /\ launched' = None /\ units' = units /\ images' = images /\ configs' = configs
      /\ frames' = frames /\ lost' = lost
  BY DEF Call
<1>3. /\ Good(rt') /\ dead' \in BOOLEAN
      /\ rt.lastError = "error" => rt'.lastError = "error"
  BY <1>1, Zenon DEF Comes
<1>4. Stacked' /\ ConfigKept'
  BY <1>2 DEF RInv, Stacked, ConfigKept
<1> QED BY <1>2, <1>3, <1>4 DEF RInv

\* The driver is opened, and the query is answered or refused.
LEMMA QueryComes ==
  ASSUME NEW s, Good(s), NEW o,
         o \in UNION {IF d.loaded = 1 THEN Check(d) ELSE {Fail(d, "NoDevice")} : d \in loadDriver(s)}
  PROVE  Comes(s, o)
<1>1. PICK d \in loadDriver(s) : o \in IF d.loaded = 1 THEN Check(d) ELSE {Fail(d, "NoDevice")}
  BY Zenon
<1>2. Comes(s, Done(d)) /\ Good(d)
  BY DriverQuiet, QuietComes DEF Comes, Done
<1>3. o = Done(d) \/ o = Fail(d, "Driver") \/ o = Fail(d, "NoDevice")
  BY <1>1 DEF Check
<1>4. Comes(d, o)
  BY <1>2, <1>3, FailComes, Zenon
<1>5. Comes(Done(d).s, o)
  BY <1>4 DEF Done
<1> QED BY <1>2, <1>5, ComesTrans, Zenon

\* cudaSetDevice.
LEMMA SetComes ==
  ASSUME NEW s, Good(s), NEW d \in Int
  PROVE  Comes(s, SetDevice(s, d))
<1>1. Quiet(s, [s EXCEPT !.ordinal = d])
  BY Zenon DEF Quiet, Good, State
<1>2. Comes(s, Done([s EXCEPT !.ordinal = d]))
  BY <1>1, QuietComes DEF Done
<1> QED BY <1>2, FailComes DEF SetDevice

\* cudaGetLastError keeps it, and the launches it answers for are forgotten.
LEMMA GetLastErrorRInv ==
  ASSUME RInv, cudaGetLastError
  PROVE  RInv'
<1> DEFINE t == [rt EXCEPT !.lastError = "none"]
<1>1. /\ rt' = t /\ ~dead /\ lost' = FALSE /\ launched' = None /\ units' = units
      /\ images' = images /\ configs' = configs /\ frames' = frames /\ dead' = dead
  BY DEF cudaGetLastError
<1>2. /\ t \in State /\ t.fatbins = rt.fatbins /\ t.kernels = rt.kernels /\ t.vars = rt.vars
      /\ t.modules = rt.modules /\ t.ready = rt.ready
  BY Zenon DEF RInv, Good, State
<1> HIDE DEF t
<1>3. Good(t)
  BY <1>2 DEF RInv, Good, Bounded, Within, WrittenOff, Named
<1> QED BY <1>1, <1>3, Zenon DEF RInv, Stacked, ConfigKept

\* What the program calls, at any time.
LEMMA ProgramRInv ==
  ASSUME RInv,
         \/ \E k \in Stubs, c \in Configs : BeginLaunch(k, c)
         \/ ThrowArgument \/ Stub \/ MemoryCall
         \/ \E v \in Shadows : SymbolCall(v)
         \/ QueryDevices
         \/ \E d \in Ordinals : cudaSetDevice(d)
         \/ cudaGetLastError
  PROVE  RInv'
<1>1. Good(rt) /\ images \in Embeds
  BY DEF RInv
<1>2. CASE \E k \in Stubs, c \in Configs : BeginLaunch(k, c)
  BY <1>2, BeginLaunchRInv
<1>3. CASE ThrowArgument \/ Stub \/ cudaGetLastError
  BY <1>3, ThrowArgumentRInv, StubRInv, GetLastErrorRInv, Zenon
<1>4. CASE MemoryCall
  BY <1>1, <1>4, MemoryComes, CallRInv, ZenonT(30) DEF MemoryCall
<1>5. CASE \E v \in Shadows : SymbolCall(v)
  <2>1. PICK v : SymbolCall(v)
    BY <1>5
  <2> DEFINE i == Find(rt.vars, v)
  <2>2. i \in 0..Len(rt.vars) /\ DOMAIN rt.vars = 1..Len(rt.vars) /\ Len(rt.vars) \in Nat
    BY <1>1, LookupIndex, SeqIndexed, ZenonT(30) DEF Good, State
  <2>3. Call(IF i = 0 THEN {Fail(rt, "InvalidValue")}
             ELSE Then(addressOf(rt, i), LAMBDA a : Check(a.s)))
    BY <2>1 DEF SymbolCall
  <2> HIDE DEF i
  <2>4. CASE i = 0
    <3>1. Call({Fail(rt, "InvalidValue")})
      BY <2>3, <2>4
    <3>2. \A o \in {Fail(rt, "InvalidValue")} : Comes(rt, o)
      BY <1>1, FailComes
    <3> QED BY <3>1, <3>2, CallRInv
  <2>5. CASE i # 0
    <3> DEFINE outs == Then(addressOf(rt, i), LAMBDA a : Check(a.s))
    <3>1. Call(outs)
      BY <2>3, <2>5
    <3>2. i \in DOMAIN rt.vars
      BY <2>2, <2>5
    <3>3. \A o \in outs : Comes(rt, o)
      BY <1>1, <3>2, MemoryComes, ZenonT(30)
    <3> HIDE DEF outs
    <3> QED BY <3>1, <3>3, CallRInv
  <2> QED BY <2>4, <2>5
<1>6. CASE QueryDevices
  <2> DEFINE outs == UNION {IF d.loaded = 1 THEN Check(d) ELSE {Fail(d, "NoDevice")} : d \in loadDriver(rt)}
  <2>1. Call(outs)
    BY <1>6 DEF QueryDevices
  <2>2. \A o \in outs : Comes(rt, o)
    BY <1>1, QueryComes
  <2> HIDE DEF outs
  <2> QED BY <2>1, <2>2, CallRInv
<1>7. CASE \E d \in Ordinals : cudaSetDevice(d)
  <2>1. PICK d \in Int : Call({SetDevice(rt, d)})
    BY <1>7, TablesAssumption, ZenonT(30) DEF cudaSetDevice
  <2>2. \A o \in {SetDevice(rt, d)} : Comes(rt, o)
    BY <1>1, SetComes, Zenon
  <2> QED BY <2>1, <2>2, CallRInv, Zenon
<1> QED BY <1>2, <1>3, <1>4, <1>5, <1>6, <1>7, Zenon

\* The invariant is a state predicate of the runtime's variables.
LEMMA StutterRInv ==
  ASSUME RInv, UNCHANGED <<units, images, rt, configs, frames, lost, dead>>,
         launched' = None \/ launched' = launched
  PROVE  RInv'
BY DEF RInv, Stacked, ConfigKept

-----------------------------------------------------------------------------
(* Theorems *)

\* What the invariant says of the properties.
LEMMA RInvImplies ==
  RInv => /\ TypeOK /\ WrittenOffInContext /\ NoModuleLeaks /\ FailedLaunchIsKnown
          /\ ConfigKept
<1> SUFFICES ASSUME RInv
             PROVE  /\ TypeOK /\ WrittenOffInContext /\ NoModuleLeaks /\ FailedLaunchIsKnown
                    /\ ConfigKept
  OBVIOUS
<1>1. /\ rt \in State /\ Bounded(rt) /\ Within(rt) /\ WrittenOff(rt) /\ Named(rt)
  BY DEF RInv, Good
<1>2. /\ Len(rt.modules) \in Nat /\ Len(rt.fatbins) \in Nat
      /\ \A i \in DOMAIN rt.fatbins : rt.fatbins[i] \in Fatbins
      /\ \A i \in DOMAIN rt.kernels : rt.kernels[i] \in KernelEntries
      /\ \A i \in DOMAIN rt.vars : rt.vars[i] \in VarEntries
  BY <1>1, SeqIndexed, Zenon DEF State
<1>3. TypeOK
  <2>1. \A i \in DOMAIN rt.fatbins : rt.fatbins[i].module \in 0..Len(rt.modules)
    BY TablesAre, Zenon DEF RInv
  <2>2. \A i \in DOMAIN rt.kernels : /\ rt.kernels[i].fatbin \in 0..Len(rt.fatbins)
                                     /\ rt.kernels[i].function \in 0..Len(rt.modules)
    BY TablesAre, Zenon DEF RInv
  <2>3. \A i \in DOMAIN rt.vars : rt.vars[i].fatbin \in 0..Len(rt.fatbins)
    <3>1. ASSUME NEW i \in DOMAIN rt.vars
          PROVE  rt.vars[i].fatbin \in Nat /\ rt.vars[i].fatbin <= Len(rt.fatbins)
      <4>1. rt.vars[i] \in VarEntries /\ rt.vars[i].fatbin <= Len(rt.fatbins)
        BY <1>1, <1>2, Zenon DEF Within
      <4> QED BY <4>1 DEF VarEntries
    <3> QED BY <1>2, <3>1
  <2>4. rt.loaded \in {-1, 0, 1} /\ rt.lastError \in {"none", "error"}
    BY <1>1 DEF State
  <2>5. /\ units \in [Units -> {"out", "in", "gone"}] /\ Len(configs) <= MaxConfigs
        /\ Len(rt.fatbins) <= MaxFatbins /\ Len(rt.kernels) <= MaxKernels /\ Len(rt.vars) <= MaxVars
    BY <1>1, Zenon DEF RInv, Stacked, Bounded
  <2> QED BY <2>1, <2>2, <2>3, <2>4, <2>5, Zenon DEF TypeOK, Range
<1>4. WrittenOffInContext
  BY <1>1 DEF WrittenOff, WrittenOffInContext, Range
<1>5. NoModuleLeaks
  BY <1>1 DEF Named, NoModuleLeaks, Range
<1>6. FailedLaunchIsKnown /\ ConfigKept
  BY DEF RInv, FailedLaunchIsKnown
<1> QED BY <1>3, <1>4, <1>5, <1>6, Zenon

\* The inductive invariant of the runtime holds, whatever the order of the
\* units' constructors and destructors and of the program's calls.
THEOREM RuntimeInvariance == Spec => []RInv
<1>1. RInv /\ [Next]_vars => RInv'
  <2> SUFFICES ASSUME RInv, [Next]_vars PROVE RInv'
    OBVIOUS
  <2>1. CASE UNCHANGED vars
    BY <2>1, StutterRInv, Zenon DEF vars
  <2>2. CASE \E u \in Units : Constructor(u) \/ Destructor(u)
    BY <2>2, ConstructorRInv, DestructorRInv, Zenon
  <2>3. CASE Next /\ ~\E u \in Units : Constructor(u) \/ Destructor(u)
    BY <2>3, ProgramRInv DEF Next
  <2> QED BY <2>1, <2>2, <2>3, Zenon
<1> QED BY <1>1, InitRInv, PTL DEF Spec

\* The tables always refer to one another within their bounds.
THEOREM RuntimeTyped == Spec => []TypeOK
BY RInvImplies, RuntimeInvariance, PTL

\* A fat binary is only ever written off in a context, and without a module.
THEOREM RetriedUntilLoaded == Spec => []WrittenOffInContext
BY RInvImplies, RuntimeInvariance, PTL

\* The runtime's invariant holds with static objects initialized and destroyed
\* between its calls.
THEOREM ProgramRuntime == PSpec => []RInv
<1>1. PInit => RInv
  BY InitRInv DEF PInit
<1>2. RInv /\ [PNext]_pvars => RInv'
  <2> SUFFICES ASSUME RInv, [PNext]_pvars PROVE RInv'
    OBVIOUS
  <2>1. CASE \E u \in Units : Constructor(u) \/ Destructor(u)
    BY <2>1, ConstructorRInv, DestructorRInv, ZenonT(40)
  <2>2. CASE StaticStep
    BY <2>2, StutterRInv DEF StaticStep
  <2>3. CASE CudaCall
    BY <2>3, ProgramRInv DEF CudaCall
  <2>4. CASE UNCHANGED pvars
    BY <2>4, StutterRInv DEF pvars, vars
  <2> QED BY <2>1, <2>2, <2>3, <2>4, Zenon DEF PNext
<1> QED BY <1>1, <1>2, PTL DEF PSpec

\* Whatever fails, and whenever the runtime is called, no module is loaded twice
\* or left loaded by __cudaUnregisterFatBinary.
THEOREM ModulesHeld == PSpec => []NoModuleLeaks
BY RInvImplies, ProgramRuntime, PTL

\* A launch that failed has set the error cudaGetLastError answers with, until
\* that is called.
THEOREM FailuresKnown == PSpec => []FailedLaunchIsKnown
BY RInvImplies, ProgramRuntime, PTL

\* However deep launches nest, and whatever abandoned launches have left on the
\* stack of configurations, a launch that nothing abandoned within it and that
\* found room runs in its own configuration.
THEOREM ConfigurationKept == PSpec => []ConfigKept
BY RInvImplies, ProgramRuntime, PTL

-----------------------------------------------------------------------------
(* A launch hands over its own kernel *)

\* What the program calls, a launch excepted, keeps the tables faithful.
LEMMA CallFaithful ==
  ASSUME RInv, Faithful(rt, units, images),
         \/ \E k \in Stubs, c \in Configs : BeginLaunch(k, c)
         \/ ThrowArgument \/ MemoryCall
         \/ \E v \in Shadows : SymbolCall(v)
         \/ QueryDevices
         \/ \E d \in Ordinals : cudaSetDevice(d)
         \/ cudaGetLastError
  PROVE  Faithful(rt', units', images') /\ launched' = None
<1>1. Good(rt) /\ images \in Embeds
  BY DEF RInv
<1>2. ASSUME NEW outs, \A o \in outs : Arrives(rt, units, images, o), Call(outs)
      PROVE  Faithful(rt', units', images') /\ launched' = None
  BY <1>2 DEF Call, Arrives
<1>3. CASE (\E k \in Stubs, c \in Configs : BeginLaunch(k, c)) \/ ThrowArgument
  <2>1. UNCHANGED <<rt, units, images>> /\ launched' = None
    BY <1>3, Zenon DEF BeginLaunch, ThrowArgument
  <2> QED BY <2>1
<1>4. CASE MemoryCall
  <2> DEFINE outs == Then(ensureContext(rt), LAMBDA c : Check(c.s))
  <2>1. Call(outs) /\ \A o \in outs : Arrives(rt, units, images, o)
    BY <1>1, <1>4, MemoryArrives, ZenonT(30) DEF MemoryCall
  <2> HIDE DEF outs
  <2> QED BY <1>2, <2>1
<1>5. CASE \E v \in Shadows : SymbolCall(v)
  <2>1. PICK v : SymbolCall(v)
    BY <1>5
  <2> DEFINE i == Find(rt.vars, v)
             outs == IF i = 0 THEN {Fail(rt, "InvalidValue")}
                     ELSE Then(addressOf(rt, i), LAMBDA a : Check(a.s))
  <2>2. i \in 0..Len(rt.vars) /\ DOMAIN rt.vars = 1..Len(rt.vars) /\ Len(rt.vars) \in Nat
    BY <1>1, LookupIndex, SeqIndexed, ZenonT(30) DEF Good, State
  <2>3. Call(outs)
    BY <2>1, Zenon DEF SymbolCall
  <2> HIDE DEF i
  <2>4. CASE i = 0
    <3>1. outs = {Fail(rt, "InvalidValue")}
      BY <2>4
    <3> HIDE DEF outs
    <3> QED BY <1>1, <1>2, <2>3, <3>1, FailArrives, Zenon
  <2>5. CASE i # 0
    <3>1. outs = Then(addressOf(rt, i), LAMBDA a : Check(a.s)) /\ i \in DOMAIN rt.vars
      BY <2>2, <2>5
    <3>2. \A o \in outs : Arrives(rt, units, images, o)
      BY <1>1, <3>1, MemoryArrives, ZenonT(30)
    <3> HIDE DEF outs
    <3> QED BY <1>2, <2>3, <3>2, Zenon
  <2> QED BY <2>4, <2>5, Zenon
<1>6. CASE QueryDevices
  <2> DEFINE outs == UNION {IF d.loaded = 1 THEN Check(d) ELSE {Fail(d, "NoDevice")} : d \in loadDriver(rt)}
  <2>1. Call(outs) /\ \A o \in outs : Arrives(rt, units, images, o)
    BY <1>1, <1>6, QueryArrives, Zenon DEF QueryDevices
  <2> HIDE DEF outs
  <2> QED BY <1>2, <2>1
<1>7. CASE \E d \in Ordinals : cudaSetDevice(d)
  <2>1. PICK d \in Int : Call({SetDevice(rt, d)})
    BY <1>7, TablesAssumption, Zenon DEF cudaSetDevice
  <2>2. \A o \in {SetDevice(rt, d)} : Arrives(rt, units, images, o)
    BY <1>1, SetArrives, Zenon
  <2> QED BY <1>2, <2>1, <2>2, Zenon
<1>8. CASE cudaGetLastError
  <2> DEFINE t == [rt EXCEPT !.lastError = "none"]
  <2>1. rt' = t /\ UNCHANGED <<units, images>> /\ launched' = None
    BY <1>8 DEF cudaGetLastError
  <2>2. SameTables(rt, t) /\ t.ready = rt.ready /\ t.device = rt.device /\ t.ordinal = rt.ordinal
    BY <1>1, Zenon DEF Good, State, SameTables
  <2>3. rt.ready => rt.device = rt.ordinal /\ rt.device \in DOMAIN SM
    BY Zenon DEF Faithful, Chosen
  <2> HIDE DEF t
  <2>4. Faithful(t, units, images)
    BY <2>2, <2>3, SameFaithful, Zenon
  <2> QED BY <2>1, <2>4
<1> QED BY <1>3, <1>4, <1>5, <1>6, <1>7, <1>8, Zenon

\* A unit's constructor.
LEMMA ConstructorFaithful ==
  ASSUME RInv, Faithful(rt, units, images), NEW u \in Units, Constructor(u)
  PROVE  Faithful(rt', units', images')
<1> DEFINE reg == RegisterFatBinary(rt, u)
           fun == RegisterFunctions(reg.s, reg.h, Kernels[u])
           ws == [units EXCEPT ![u] = "in"]
<1>1. /\ rt' = RegisterVars(fun, reg.h, Vars[u]) /\ units' = ws /\ images' = images
      /\ units[u] = "out"
  BY Zenon DEF Constructor
<1>2. Good(reg.s) /\ reg.h \in 0..Len(reg.s.fatbins) /\ Entered(rt, reg.s, reg.h, u)
  BY FatBinaryRegistered DEF RInv
<1> HIDE DEF reg
<1>3. Faithful(reg.s, ws, images) /\ (reg.h # 0 => reg.s.fatbins[reg.h].unit = u)
  <2>1. Good(rt) /\ units[u] = "out" /\ ws[u] = "in" /\ \A v \in Units : v # u => ws[v] = units[v]
    BY DEF RInv, Constructor
  <2> HIDE DEF ws
  <2>2. Faithful(reg.s, ws, images)
    BY <1>2, <2>1, EnteredFaithful, Zenon
  <2>3. reg.h # 0 => reg.s.fatbins[reg.h].unit = u
    BY <1>2, <2>1, EnteredUnit, ZenonT(40)
  <2> QED BY <2>2, <2>3, Zenon
<1> HIDE DEF ws
<1>4. Good(fun) /\ Defined(reg.s, fun, reg.h, Kernels[u])
  BY <1>2, FunctionsRegistered, TablesAssumption, Zenon
<1> HIDE DEF fun
<1>5. Faithful(fun, ws, images) /\ reg.h \in 0..Len(fun.fatbins)
  <2>1. Faithful(fun, ws, images)
    BY <1>3, <1>4, DefinedFaithful, Zenon
  <2>2. fun.fatbins = reg.s.fatbins
    BY <1>4, Zenon DEF Defined
  <2> QED BY <1>2, <2>1, <2>2, Zenon
<1>6. SameDevice(fun, rt') /\ SameTables(fun, rt')
  BY <1>1, <1>4, <1>5, VarsRegistered, TablesAssumption, Zenon DEF SameTables
<1>7. fun.ready => fun.device = fun.ordinal /\ fun.device \in DOMAIN SM
  BY <1>5 DEF Faithful, Chosen
<1>8. Faithful(rt', ws, images)
  BY <1>5, <1>6, <1>7, SameFaithful, Zenon DEF SameDevice
<1> QED BY <1>1, <1>8

\* A unit's destructor.
LEMMA DestructorFaithful ==
  ASSUME RInv, Faithful(rt, units, images), NEW u \in Units, Destructor(u)
  PROVE  Faithful(rt', units', images')
<1> DEFINE fb == Handle(rt, u)
<1>1. /\ rt' \in UnregisterFatBinary(rt, fb) /\ units' = [units EXCEPT ![u] = "gone"]
      /\ images' = images
  BY DEF Destructor
<1>2. Good(rt) /\ units \in [Units -> {"out", "in", "gone"}]
  BY Zenon DEF RInv
<1>3. /\ fb \in 0..Len(rt.fatbins) /\ DOMAIN rt.fatbins = 1..Len(rt.fatbins)
      /\ fb # 0 => rt.fatbins[fb].unit = u
      /\ fb = 0 => \A i \in 1..Len(rt.fatbins) : rt.fatbins[i].unit # u
  BY <1>2, LookupIndex, TablesAre, Zenon
<1> HIDE DEF fb
<1>4. (fb = 0 => rt' = rt) /\ (fb # 0 => Left(rt, rt', fb))
  BY <1>1, <1>2, <1>3, Unregistered, Zenon
<1>5. CASE fb = 0
  BY <1>1, <1>2, <1>3, <1>4, <1>5, AbsentFaithful, ZenonT(30)
<1>6. CASE fb # 0
  <2>1. fb \in DOMAIN rt.fatbins
    BY <1>3, <1>6
  <2> QED BY <1>1, <1>2, <1>3, <1>4, <1>6, <2>1, LeftFaithful, ZenonT(30)
<1> QED BY <1>5, <1>6

\* No unit is unregistered before exit, and at exit nothing but a destructor runs
\* code of the program.
AfterExit ==
  /\ (\E u \in Units : units[u] = "gone") => phase \notin {"startup", "main"}
  /\ phase \notin {"startup", "main"} /\ dying = {} => stack = <<>>

\* Every step of the program keeps it.
LEMMA AfterExitKept ==
  ASSUME AfterExit, units \in [Units -> {"out", "in", "gone"}], [PNext]_pvars
  PROVE  AfterExit'
<1>1. ASSUME NEW u \in Units, Constructor(u), Register(u) PROVE AfterExit'
  <2>1. /\ units' = [units EXCEPT ![u] = "in"] /\ UNCHANGED <<phase, dying, stack>>
    BY <1>1 DEF Constructor, Register
  <2>2. \A v \in Units : units'[v] = "gone" => units[v] = "gone"
    BY <2>1
  <2> QED BY <2>1, <2>2, Zenon DEF AfterExit
<1>2. ASSUME NEW u \in Units, Destructor(u), Unregister(u) PROVE AfterExit'
  BY <1>2 DEF Unregister, Idle, AfterExit
<1>3. CASE StaticStep
  <2>1. UNCHANGED units
    BY <1>3 DEF StaticStep
  <2>2. SStep
    BY <1>3 DEF StaticStep
  <2>3. CASE \E x \in Locals : DeclareStaticLocal(x)
    BY <2>1, <2>3, Zenon DEF DeclareStaticLocal, UserCode, AfterExit
  <2>4. CASE BeginObject \/ EnterMain \/ Exit \/ RunDestructor \/ EndDestructor \/ EndProgram \/ Terminate
    BY <2>1, <2>4, Zenon DEF BeginObject, EnterMain, Exit, RunDestructor, EndDestructor, EndProgram,
                      Terminate, Idle, AfterExit
  <2>5. CASE EndInitializer \/ \E n \in 1..Cardinality(Locals) : ThrowInitializer(n)
    <3>1. UNCHANGED <<phase, dying>> /\ stack # <<>>
      BY <2>5 DEF EndInitializer, ThrowInitializer
    <3> QED BY <2>1, <3>1, Zenon DEF AfterExit
  <2> QED BY <2>2, <2>3, <2>4, <2>5, Zenon DEF SStep
<1>4. CASE CudaCall
  <2>1. UNCHANGED <<units, phase, dying, stack>>
    BY <1>4, CallUnits, Zenon DEF svars
  <2> QED BY <2>1 DEF AfterExit
<1>5. CASE UNCHANGED pvars
  BY <1>5 DEF pvars, vars, svars, AfterExit
<1> QED BY <1>1, <1>2, <1>3, <1>4, <1>5, Zenon DEF PNext

\* The units that define a kernel are registered, or found no room in the table.
Present(s, us, stub) ==
  \A u \in Owners(stub) : us[u] = "in" \/ \A i \in DOMAIN s.fatbins : s.fatbins[i].unit # u

\* What LaunchesItsKernel asks of the function handed to the driver.
OwnFunction(s, ims, stub, h) ==
  LET mod == s.modules[h]
      embedded == ims[mod.unit]
      sm == SM[mod.device]
  IN /\ mod.live
     /\ mod.unit \in Owners(stub)
     /\ mod.device = s.ordinal
     /\ \E i \in Runnable(embedded, sm) : mod.image = PayloadAt(embedded, i)
     /\ mod.read = sm => mod.image = PayloadAt(embedded, Newest(embedded, sm))

\* A capability the driver would not tell in full is read as no more than it is.
LEMMA ReadingsBelow ==
  ASSUME NEW sm \in Nat, NEW r \in Readings(sm)
  PROVE  r \in Nat /\ r <= sm
BY DEF Readings

\* What is launched is the kernel's own, in an image the device runs.
LEMMA LaunchedOwn ==
  ASSUME NEW s, NEW us, NEW ims \in Embeds, NEW stub, Good(s), Faithful(s, us, ims),
         Present(s, us, stub), NEW k \in DOMAIN s.kernels, s.kernels[k].host = stub,
         s.kernels[k].function # 0
  PROVE  OwnFunction(s, ims, stub, s.kernels[k].function)
<1> DEFINE h == s.kernels[k].function
           e == s.kernels[k]
           fb == e.fatbin
           mod == s.modules[h]
<1>1. KernelBound(s, us, e) /\ e.function = h /\ e.host = stub /\ h # 0
  BY Zenon DEF Faithful, Resolved
<1>2. fb # 0 => fb \in DOMAIN s.fatbins
  BY TablesAre, Zenon
<1>3. h \in DOMAIN s.modules
  BY TablesAre
<1> HIDE DEF e, h
<1>4. fb # 0 /\ s.fatbins[fb].unit \in Owners(stub) /\ mod.unit = s.fatbins[fb].unit
  BY <1>1, Zenon DEF KernelBound
<1>5. us[s.fatbins[fb].unit] = "in"
  BY <1>2, <1>4, Zenon DEF Present
<1>6. s.fatbins[fb].module = h
  BY <1>1, <1>4, <1>5, Zenon DEF KernelBound
<1>7. mod.live
  BY <1>1, <1>2, <1>4, <1>6, Zenon DEF Faithful, OfUnits
<1>8. /\ mod.device = s.ordinal /\ mod.image # 0 /\ mod.read \in Readings(SM[mod.device])
      /\ mod.image = findImage(Fatbin(ims[mod.unit]), mod.read)
  BY <1>3, Zenon DEF Faithful, Chosen
<1>9. mod.unit \in Units
  BY <1>3, TablesAre, Zenon
<1> DEFINE embedded == ims[mod.unit]
           sm == SM[mod.device]
           r == mod.read
<1>10. embedded \in Seq(Image) /\ mod.image # 0 /\ mod.image = findImage(Fatbin(embedded), r)
  BY <1>8, <1>9, TablesAssumption, Zenon
<1>13. sm \in Nat /\ r \in Readings(sm)
  <2>1. mod.device \in DOMAIN SM
    BY <1>3, Zenon DEF Faithful, Chosen
  <2> QED BY <1>8, <2>1, TablesAssumption, Zenon
<1> HIDE DEF mod, embedded, sm, r
<1>11. Newest(embedded, r) # 0 /\ mod.image = PayloadAt(embedded, Newest(embedded, r))
  BY <1>10, FindsNewest, Zenon
<1>12. mod.unit \in Owners(stub)
  BY <1>4
<1>14. Newest(embedded, r) \in Runnable(embedded, sm)
  <2>1. Newest(embedded, r) \in Runnable(embedded, r)
    BY <1>10, <1>11, FindsNewest, Zenon
  <2>2. r \in Nat /\ r <= sm
    BY <1>13, ReadingsBelow, Zenon
  <2> QED BY <1>10, <1>13, <2>1, <2>2, RunsOnNewer, Zenon
<1> QED BY <1>7, <1>8, <1>11, <1>12, <1>14, ZenonT(30) DEF OwnFunction, mod, embedded, sm, r, h

\* The stub launches its kernel's own function, if the kernel's units are there.
LEMMA StubLaunches ==
  ASSUME RInv, SeesWhatItSaw, Faithful(rt, units, images), AfterExit, UserCode, Stub,
         UNCHANGED <<svars, saw>>
  PROVE  Faithful(rt', units', images') /\ LaunchesItsKernel'
<1> DEFINE stub == Last(frames).stub
<1>1. PICK c \in (IF configs = <<>> THEN Configs ELSE {Pop}), o \in Launch(rt, stub) :
        /\ rt' = o.s
        /\ launched' = IF o.e # "none" THEN None
                       ELSE [stub |-> stub, cfg |-> c, want |-> Last(frames).cfg,
                             own |-> Last(frames).own, module |-> o.h]
  BY DEF Stub
<1>2. UNCHANGED <<units, images, dying, saw>>
  BY DEF Stub, svars
<1>3. Good(rt) /\ images \in Embeds /\ units \in [Units -> {"out", "in", "gone"}]
  BY DEF RInv
<1>4. o.e = "none" => launched'.stub = stub /\ launched'.module = o.h
  BY <1>1
<1>5. o.e # "none" => launched' = None
  BY <1>1, Zenon
<1> HIDE DEF stub
<1>6. Arrives(rt, units, images, o) /\ Handed(stub, o)
  BY <1>3, LaunchArrives, Zenon
<1>7. Good(rt') /\ Faithful(rt', units, images)
  BY <1>1, <1>6, Zenon DEF Arrives, Comes
<1>8. ASSUME o.e = "none", \A x \in dying : Owners(stub) \subseteq saw[x]
      PROVE  OwnFunction(rt', images, stub, o.h)
  <2>1. PICK k \in DOMAIN rt'.kernels : rt'.kernels[k].host = stub /\ rt'.kernels[k].function = o.h
    BY <1>1, <1>6, <1>8, ZenonT(40) DEF Handed
  <2>2. ASSUME NEW u \in Owners(stub)
        PROVE  units[u] = "in" \/ \A i \in DOMAIN rt'.fatbins : rt'.fatbins[i].unit # u
    <3>1. u \in Units
      BY DEF Owners
    <3>2. CASE dying # {}
      BY <1>8, <3>2, Zenon DEF SeesWhatItSaw, RegisteredNow
    <3>3. CASE dying = {}
      <4>1. units[u] # "gone"
        BY <3>1, <3>3, Zenon DEF AfterExit, UserCode
      <4>2. CASE units[u] = "out"
        <5>1. \A i \in DOMAIN rt'.fatbins : units[rt'.fatbins[i].unit] # "out"
          BY <1>7, Zenon DEF Faithful, OfUnits
        <5> QED BY <4>2, <5>1, Zenon
      <4> QED BY <1>3, <3>1, <4>1, <4>2, Zenon
    <3> QED BY <3>2, <3>3
  <2>3. Present(rt', units, stub)
    BY <2>2, Zenon DEF Present
  <2>4. o.h # 0
    BY <1>6, <1>8, Zenon DEF Handed
  <2> QED BY <1>3, <1>7, <2>1, <2>3, <2>4, LaunchedOwn, Zenon
<1>9. LaunchesItsKernel'
  <2>1. CASE o.e # "none"
    BY <1>5, <2>1, Zenon DEF LaunchesItsKernel
  <2>2. CASE o.e = "none"
    BY <1>2, <1>4, <1>8, <2>2, Zenon DEF LaunchesItsKernel, OwnFunction, Owners
  <2> QED BY <2>1, <2>2, Zenon
<1> QED BY <1>2, <1>7, <1>9, Zenon

KInv == Faithful(rt, units, images) /\ AfterExit /\ LaunchesItsKernel

\* Nothing is registered and nothing is launched.
LEMMA InitKInv == PInit => KInv
<1> SUFFICES ASSUME PInit PROVE KInv
  OBVIOUS
<1>1. /\ rt = NewState /\ launched = None /\ units = [u \in Units |-> "out"] /\ phase = "startup"
  BY DEF PInit, Init, SInit
<1>2. /\ rt.fatbins = <<>> /\ rt.kernels = <<>> /\ rt.modules = <<>> /\ ~rt.ready
  BY <1>1, Zenon DEF NewState
<1>3. Faithful(rt, units, images)
  <2>1. DOMAIN rt.fatbins = {} /\ DOMAIN rt.kernels = {} /\ DOMAIN rt.modules = {}
    BY <1>2
  <2> QED BY <1>2, <2>1, Zenon DEF Faithful, Chosen, OfUnits, Resolved
<1>4. AfterExit /\ LaunchesItsKernel
  BY <1>1, Zenon DEF AfterExit, LaunchesItsKernel
<1> QED BY <1>3, <1>4, Zenon DEF KInv

\* Every step of the program keeps the invariant.
LEMMA StepKInv == RInv /\ SeesWhatItSaw /\ KInv /\ [PNext]_pvars => KInv'
<1> SUFFICES ASSUME RInv, SeesWhatItSaw, KInv, [PNext]_pvars PROVE KInv'
  OBVIOUS
<1>1. Faithful(rt, units, images) /\ AfterExit /\ units \in [Units -> {"out", "in", "gone"}]
  BY DEF KInv, RInv
<1>2. AfterExit'
  BY <1>1, AfterExitKept, ZenonT(40)
<1>3. launched' = None => LaunchesItsKernel'
  BY DEF LaunchesItsKernel
<1>4. CASE \E u \in Units : Constructor(u) \/ Destructor(u)
  <2>1. Faithful(rt', units', images')
    BY <1>1, <1>4, ConstructorFaithful, DestructorFaithful, Zenon
  <2>2. launched' = None
    BY <1>4 DEF Constructor, Destructor
  <2> QED BY <1>2, <1>3, <2>1, <2>2, Zenon DEF KInv
<1>5. CASE StaticStep
  <2>1. UNCHANGED <<rt, units, images>> /\ launched' = None
    BY <1>5 DEF StaticStep
  <2> QED BY <1>1, <1>2, <1>3, <2>1, Zenon DEF KInv
<1>6. CASE CudaCall
  <2>1. UserCode /\ UNCHANGED <<svars, saw>>
    BY <1>6, Zenon DEF CudaCall
  <2>2. CASE Stub
    BY <1>1, <1>2, <2>1, <2>2, StubLaunches, Zenon DEF KInv
  <2>3. CASE ~Stub
    <3>1. Faithful(rt', units', images') /\ launched' = None
      BY <1>1, <1>6, <2>3, CallFaithful, Zenon DEF CudaCall
    <3> QED BY <1>2, <1>3, <3>1, Zenon DEF KInv
  <2> QED BY <2>2, <2>3, Zenon
<1>7. CASE UNCHANGED pvars
  BY <1>1, <1>2, <1>7, Zenon DEF pvars, vars, svars, KInv, LaunchesItsKernel, Owners
<1> QED BY <1>4, <1>5, <1>6, <1>7, Zenon DEF PNext

\* The tables stay faithful to the units, and what is launched is what was asked for.
THEOREM LaunchInvariance == PSpec => []KInv
BY InitKInv, StepKInv, ProgramRuntime, SeesRegistered, PTL DEF PSpec

\* Whatever the order of the units and of the program's calls, whatever the driver
\* refuses, and in a destructor at exit as in main, a launch that reaches the driver
\* hands it a function of a loaded module, of a unit that defines the kernel, in the
\* newest image the current device runs.
THEOREM LaunchesOwn == PSpec => []LaunchesItsKernel
<1>1. KInv => LaunchesItsKernel
  BY DEF KInv
<1> QED BY <1>1, LaunchInvariance, PTL
=============================================================================
