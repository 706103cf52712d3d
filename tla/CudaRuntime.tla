---------------------------- MODULE CudaRuntime ----------------------------
(* The CUDA runtime a program built by vcx links (runtime/cuda), under the   *)
(* host code lower/launch.go emits for it: a constructor and a destructor    *)
(* per unit, and for each launch a push, the arguments, and a stub that pops.*)
(* The driver may refuse any call.  The program calls from one thread.       *)
EXTENDS FatBinary, Stacks

CONSTANTS
  Units,        \* translation units with device code
  Kernels,      \* unit -> its stubs, in the order the constructor names them
  Vars,         \* unit -> its __device__ objects, likewise
  Embeds,       \* the ways the units may embed images: unit -> sequence of images
  SM,           \* the compute capability of each device, 0 .. count - 1
  Ordinals,     \* what the program passes to cudaSetDevice
  Configs,      \* launch configurations
  MaxFatbins, MaxKernels, MaxVars, MaxConfigs,  \* 256, 4096, 4096 and 64 in the source
  MaxDepth,     \* how deep launches nest in one another's arguments
  None

Stubs == UNION {Range(Kernels[u]) : u \in Units}
Shadows == UNION {Range(Vars[u]) : u \in Units}

ASSUME TablesAssumption ==
  /\ MaxFatbins \in Nat /\ MaxKernels \in Nat /\ MaxVars \in Nat /\ MaxConfigs \in Nat
  /\ \A u \in Units : Kernels[u] \in Seq(Stubs) /\ Vars[u] \in Seq(Shadows)
  /\ Ordinals \subseteq Int
  /\ \A d \in DOMAIN SM : SM[d] \in Nat
  /\ \A e \in Embeds : \A u \in Units : e[u] \in Seq(Image)

VARIABLES
  units,     \* "out" before a unit's constructor, "in" after it, "gone" after its destructor
  images,    \* the images each unit embeds
  rt,        \* the runtime's file-scope state and the modules the driver made for it
  configs,   \* configs[0 .. nconfigs - 1]
  frames,    \* launches whose arguments are being evaluated, the innermost last
  launched,  \* the LaunchKernel call the last step made, or None
  lost,      \* history: a launch has failed since cudaGetLastError was last called
  dead       \* a null Fatbin was dereferenced

vars == <<units, images, rt, configs, frames, launched, lost, dead>>

DeviceCount == Cardinality(DOMAIN SM)

NewState ==
  [loaded |-> 0, ready |-> FALSE, ordinal |-> 0, device |-> 0, lastError |-> "none",
   fatbins |-> <<>>, kernels |-> <<>>, vars |-> <<>>, modules |-> <<>>]

Init ==
  /\ units = [u \in Units |-> "out"]
  /\ images \in Embeds
  /\ rt = NewState
  /\ configs = <<>> /\ frames = <<>>
  /\ launched = None
  /\ lost = FALSE /\ dead = FALSE

-----------------------------------------------------------------------------
(* What a call may come to: the state after it, its error, and the handle it *)
(* answers with where it answers with one.  lastError is abstracted to       *)
(* whether it holds an error.                                                *)

Done(s) == [s |-> s, e |-> "none", h |-> 0]
Answer(s, h) == [s |-> s, e |-> "none", h |-> h]
FailSilently(s, err) == [s |-> s, e |-> err, h |-> 0]
Fail(s, err) == [s |-> [s EXCEPT !.lastError = "error"], e |-> err, h |-> 0]

\* What follows a call that may have failed: e, if it did.
Then(outs, K(_)) == UNION {IF o.e = "none" THEN K(o) ELSE {o} : o \in outs}

\* The driver does what is asked or refuses.
Check(s) == {Done(s), Fail(s, "Driver")}

loadDriver(s) == IF s.loaded # 0 THEN {s} ELSE {[s EXCEPT !.loaded = l] : l \in {1, -1}}

\* Init, DeviceGetCount, DeviceGet, DevicePrimaryCtxRetain and CtxSetCurrent,
\* each of which may fail and none of which is undone.  DeviceGet answers only
\* for a device there is.
MakeContext(s) ==
  {Fail(s, "Driver")}
  \cup IF s.ordinal >= DeviceCount THEN {Fail(s, "NoDevice")}
       ELSE IF s.ordinal \notin DOMAIN SM THEN {}
       ELSE LET got == [s EXCEPT !.device = s.ordinal]
            IN {Fail(got, "Driver"), Done([got EXCEPT !.ready = TRUE])}

ensureContext(s) ==
  IF s.ready THEN {Done(s)}
  ELSE UNION {IF d.loaded = 1 THEN MakeContext(d) ELSE {Fail(d, "NoDevice")} : d \in loadDriver(s)}

NoImage(s, fb) == Fail([s EXCEPT !.fatbins[fb].failed = TRUE], "InvalidDeviceFunction")
Refused(s, fb) == Fail([s EXCEPT !.fatbins[fb].failed = TRUE], "Driver")

\* What the runtime takes the capability sm for: it does not look whether its
\* questions for the major and the minor number were answered, and reads 0 for
\* one that was not.
Readings(sm) == {sm, sm - (sm % 10), sm % 10, 0}

\* ModuleLoadDataEx, which takes the image findImage chose.
LoadImage(s, fb, sm) ==
  LET u == s.fatbins[fb].unit
      image == findImage(Fatbin(images[u]), sm)
      mod == [unit |-> u, image |-> image, read |-> sm, device |-> s.device, live |-> TRUE,
              refused |-> FALSE]
  IN IF image = 0 THEN {NoImage(s, fb)}
     ELSE {Refused(s, fb),
           Done([s EXCEPT !.fatbins[fb].module = Len(s.modules) + 1, !.modules = Append(@, mod)])}

LoadData(s, fb) == UNION {LoadImage(s, fb, sm) : sm \in Readings(SM[s.device])}

loadModule(s, fb) ==
  IF fb = 0 THEN {FailSilently(s, "null")}
  ELSE IF s.fatbins[fb].module # 0 THEN {Done(s)}
  ELSE IF s.fatbins[fb].failed THEN {Fail(s, "InvalidDeviceFunction")}
  ELSE Then(ensureContext(s), LAMBDA c : LoadData(c.s, fb))

\* findKernel and findVar: the first entry registered for the address, 0 for none.
First(I) == IF I # {} THEN Min(I) ELSE 0
Find(table, address) == First({i \in 1..Len(table) : table[i].host = address})

functionOf(s, k) ==
  IF s.kernels[k].function # 0 THEN {Answer(s, s.kernels[k].function)}
  ELSE Then(loadModule(s, s.kernels[k].fatbin),
            LAMBDA l : LET f == l.s.fatbins[l.s.kernels[k].fatbin].module
                       IN {Fail(l.s, "Driver"),
                           Answer([l.s EXCEPT !.kernels[k].function = f], f)})

addressOf(s, v) == Then(loadModule(s, s.vars[v].fatbin), LAMBDA l : Check(l.s))

-----------------------------------------------------------------------------
(* The unit's constructor and destructor (defineRegistration) *)

NewFatbin(u) == [unit |-> u, module |-> 0, failed |-> FALSE]

RegisterFatBinary(s, u) ==
  IF Len(s.fatbins) >= MaxFatbins THEN Answer(s, 0)
  ELSE Answer([s EXCEPT !.fatbins = Append(@, NewFatbin(u))], Len(s.fatbins) + 1)

\* The entries a table with room for so many takes.
Fitting(seq, room) == SubSeq(seq, 1, IF Len(seq) < room THEN Len(seq) ELSE room)

\* The calls of __cudaRegisterFunction for the unit's stubs, and those of
\* __cudaRegisterVar, of which a full table turns away the last.
RegisterFunctions(s, fb, stubs) ==
  LET added == [i \in DOMAIN stubs |-> [host |-> stubs[i], fatbin |-> fb, function |-> 0]]
  IN [s EXCEPT !.kernels = @ \o Fitting(added, MaxKernels - Len(@))]

RegisterVars(s, fb, objects) ==
  LET added == [i \in DOMAIN objects |-> [host |-> objects[i], fatbin |-> fb]]
  IN [s EXCEPT !.vars = @ \o Fitting(added, MaxVars - Len(@))]

\* The handle is what the table gave, whether or not it had room.
Handle(s, u) == First({i \in 1..Len(s.fatbins) : s.fatbins[i].unit = u})

Constructor(u) ==
  /\ ~dead
  /\ units[u] = "out"
  /\ units' = [units EXCEPT ![u] = "in"]
  /\ LET reg == RegisterFatBinary(rt, u)
     IN rt' = RegisterVars(RegisterFunctions(reg.s, reg.h, Kernels[u]), reg.h, Vars[u])
  /\ launched' = None
  /\ UNCHANGED <<images, configs, frames, lost, dead>>

\* ModuleUnload, for a module there is: it goes, or the driver refuses, or has
\* no such function.
Unloads(s, mod) ==
  IF mod = 0 THEN {s}
  ELSE {[s EXCEPT !.modules[mod].live = FALSE], [s EXCEPT !.modules[mod].refused = TRUE]}

UnregisterLeaking(s, fb) == {IF fb = 0 THEN s ELSE [s EXCEPT !.fatbins[fb].module = 0]}

\* __cudaUnregisterFatBinary, which names no module after it, whatever came of
\* the unloading; the kernels keep the functions they have.
UnregisterFatBinary(s, fb) ==
  IF fb = 0 THEN {s}
  ELSE {[t EXCEPT !.fatbins[fb].module = 0] : t \in Unloads(s, s.fatbins[fb].module)}

Destructor(u) ==
  /\ ~dead
  /\ units[u] = "in"
  /\ units' = [units EXCEPT ![u] = "gone"]
  /\ rt' \in UnregisterFatBinary(rt, Handle(rt, u))
  /\ launched' = None
  /\ UNCHANGED <<images, configs, frames, lost, dead>>

-----------------------------------------------------------------------------
(* Launches *)

Push(c) == IF Len(configs) >= MaxConfigs THEN configs ELSE Append(configs, c)

\* History: the launches fs can no longer count on popping what they pushed.
Mixed(fs) == [i \in DOMAIN fs |-> [fs[i] EXCEPT !.own = FALSE]]

\* pushLaunch; the result of the push is not looked at.
BeginLaunch(stub, c) ==
  /\ ~dead
  /\ Len(frames) < MaxDepth
  /\ configs' = Push(c)
  /\ LET fs == Append(frames, [stub |-> stub, cfg |-> c, own |-> TRUE])
     IN frames' = IF Len(configs) >= MaxConfigs THEN Mixed(fs) ELSE fs
  /\ launched' = None
  /\ UNCHANGED <<units, images, rt, lost, dead>>

\* An argument throws; the launch is abandoned and its push stays.
ThrowArgument ==
  /\ ~dead
  /\ frames # <<>>
  /\ frames' = Mixed(Front(frames))
  /\ launched' = None
  /\ UNCHANGED <<units, images, rt, configs, lost, dead>>

Launch(s, stub) ==
  LET k == Find(s.kernels, stub)
  IN IF k = 0 THEN {Fail(s, "InvalidDeviceFunction")}
     ELSE Then(functionOf(s, k), LAMBDA f : {Fail(f.s, "Driver"), f})

PopFirst == Head(configs)
Pop == Last(configs)

\* The stub: __cudaPopCallConfiguration and __vcx_cudaLaunch, neither of whose
\* results it looks at.  With nothing to pop, the configuration is whatever was
\* in the stub's frame.
Stub ==
  /\ ~dead
  /\ frames # <<>>
  /\ frames' = Front(frames)
  /\ configs' = IF configs = <<>> THEN configs ELSE Front(configs)
  /\ \E c \in IF configs = <<>> THEN Configs ELSE {Pop}, o \in Launch(rt, Last(frames).stub) :
       /\ rt' = o.s
       /\ dead' = (o.e = "null")
       /\ lost' = (lost \/ o.e # "none")
       /\ launched' = IF o.e # "none" THEN None
                      ELSE [stub |-> Last(frames).stub, cfg |-> c, want |-> Last(frames).cfg,
                            own |-> Last(frames).own, module |-> o.h]
  /\ UNCHANGED <<units, images>>

-----------------------------------------------------------------------------
(* The rest of the API the program calls *)

\* A call other than a launch comes to one of outs.
Call(outs) ==
  /\ ~dead
  /\ \E o \in outs : rt' = o.s /\ dead' = (o.e = "null")
  /\ launched' = None
  /\ UNCHANGED <<units, images, configs, frames, lost>>

\* cudaMalloc and the other memory, stream, event and synchronizing calls.
MemoryCall == Call(Then(ensureContext(rt), LAMBDA c : Check(c.s)))

\* cudaMemcpyToSymbol, cudaMemcpyFromSymbol, cudaGetSymbolAddress, cudaGetSymbolSize.
SymbolCall(v) ==
  LET i == Find(rt.vars, v)
  IN Call(IF i = 0 THEN {Fail(rt, "InvalidValue")}
          ELSE Then(addressOf(rt, i), LAMBDA a : Check(a.s)))

\* cudaGetDeviceCount and cudaGetDeviceProperties, which make no context.
QueryDevices ==
  Call(UNION {IF d.loaded = 1 THEN Check(d) ELSE {Fail(d, "NoDevice")} : d \in loadDriver(rt)})

SetDevice(s, d) ==
  IF d = s.ordinal THEN Done(s)
  ELSE IF s.ready THEN Fail(s, "InvalidDevice")
  ELSE Done([s EXCEPT !.ordinal = d])

cudaSetDevice(d) == Call({SetDevice(rt, d)})

cudaGetLastError ==
  /\ ~dead
  /\ rt' = [rt EXCEPT !.lastError = "none"]
  /\ lost' = FALSE
  /\ launched' = None
  /\ UNCHANGED <<units, images, configs, frames, dead>>

Next ==
  \/ \E u \in Units : Constructor(u) \/ Destructor(u)
  \/ \E k \in Stubs, c \in Configs : BeginLaunch(k, c)
  \/ ThrowArgument
  \/ Stub
  \/ MemoryCall
  \/ \E v \in Shadows : SymbolCall(v)
  \/ QueryDevices
  \/ \E d \in Ordinals : cudaSetDevice(d)
  \/ cudaGetLastError

Spec == Init /\ [][Next]_vars

-----------------------------------------------------------------------------
(* Properties *)

\* The tables refer to one another within their bounds.
TypeOK ==
  /\ units \in [Units -> {"out", "in", "gone"}]
  /\ rt.loaded \in {-1, 0, 1} /\ rt.lastError \in {"none", "error"}
  /\ Len(rt.fatbins) <= MaxFatbins /\ Len(rt.kernels) <= MaxKernels
  /\ Len(rt.vars) <= MaxVars /\ Len(configs) <= MaxConfigs
  /\ \A fb \in Range(rt.fatbins) : fb.module \in 0 .. Len(rt.modules)
  /\ \A k \in Range(rt.kernels) :
       k.fatbin \in 0 .. Len(rt.fatbins) /\ k.function \in 0 .. Len(rt.modules)
  /\ \A v \in Range(rt.vars) : v.fatbin \in 0 .. Len(rt.fatbins)

\* The kernel runs in the configuration its own launch gave, launches in its
\* arguments notwithstanding, unless one of those was abandoned by an exception
\* or found no room; what such a launch leaves behind harms no later one.
ConfigKept == launched # None /\ launched.own => launched.cfg = launched.want

\* launch.go:19 -- the stub "pops the configuration the launch pushed".
StubPopsItsConfig == launched # None => launched.cfg = launched.want

Owners(stub) == {u \in Units : stub \in Range(Kernels[u])}

\* A fat binary is written off (loadFailed) only in a context, and when it has no
\* module: a driver that is not there, or a context that could not be made, leaves
\* it to be tried again, and what has been loaded is never given up.
WrittenOffInContext == \A fb \in Range(rt.fatbins) : fb.failed => rt.ready /\ fb.module = 0

\* A module that is loaded, and not because the driver would not unload it.
Owed(mod) == mod.live /\ ~mod.refused

\* Every module the driver holds is the one some fat binary names, so nothing is
\* loaded twice and unregistering unloads what was loaded, but for the modules the
\* driver would not unload, whose handles the runtime drops (vcx_cudart.cpp:375).
NoModuleLeaks ==
  \A i \in DOMAIN rt.modules : Owed(rt.modules[i]) =>
     \E fb \in Range(rt.fatbins) : fb.module = i

\* The stub drops what __vcx_cudaLaunch returns, so a launch that did not happen is
\* known to the program by cudaGetLastError, or not at all.
FailedLaunchIsKnown == lost /\ ~dead => rt.lastError # "none"
=============================================================================
