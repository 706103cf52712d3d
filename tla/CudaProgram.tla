---------------------------- MODULE CudaProgram ----------------------------
(* A whole program on the CUDA runtime, from startup to exit: the static     *)
(* objects of StaticObjects and the runtime of CudaRuntime, one program      *)
(* running both.  A unit's registration is an entry of the startup order and *)
(* of the exit list, between the entries of static objects, and the runtime  *)
(* is called from main, from initializers and from destructors.  The         *)
(* arguments of a launch reach no static local's first declaration.          *)
EXTENDS CudaRuntime, StaticObjects

VARIABLE saw   \* history: object -> the units registered when it was finished

pvars == <<vars, svars, saw>>

PInit == Init /\ SInit /\ saw = [x \in {} |-> {}]

RegisteredNow == {u \in Units : units[u] = "in"}

Saw(x) == [o \in DOMAIN saw \cup {x} |-> IF o = x THEN RegisteredNow ELSE saw[o]]

\* A step of the static objects, between two calls of the runtime.
StaticStep ==
  /\ ~dead /\ frames = <<>>
  /\ SStep
  /\ saw' = IF Len(alive') > Len(alive) THEN Saw(Last(alive')) ELSE saw
  /\ launched' = None
  /\ UNCHANGED <<units, images, rt, configs, frames, lost, dead>>

\* A call the program makes.
CudaCall ==
  /\ UserCode
  /\ \/ \E k \in Stubs, c \in Configs : BeginLaunch(k, c)
     \/ ThrowArgument
     \/ Stub
     \/ MemoryCall
     \/ \E v \in Shadows : SymbolCall(v)
     \/ QueryDevices
     \/ \E d \in Ordinals : cudaSetDevice(d)
     \/ cudaGetLastError
  /\ UNCHANGED <<svars, saw>>

PNext ==
  \/ \E u \in Units : Constructor(u) /\ Register(u) /\ UNCHANGED saw
  \/ \E u \in Units : Destructor(u) /\ Unregister(u) /\ UNCHANGED saw
  \/ StaticStep
  \/ CudaCall

PSpec == PInit /\ [][PNext]_pvars

-----------------------------------------------------------------------------
(* Properties *)

\* launch.go:331 -- the exit list unregisters a unit only when every object that
\* was finished after the unit's registration is gone, so a destructor finds
\* registered every unit its object's initializer found.
SeesWhatItSaw == \A x \in dying : saw[x] \subseteq RegisteredNow

\* The function handed to the driver is of a module that is loaded, of a unit that
\* defines the kernel, and of an image in it the device runs (functionOf,
\* loadModule, findImage), also in a destructor at exit, if the kernel's units
\* were registered when its object was finished.  The image is the newest such,
\* unless the driver would not tell the device's capability (vcx_cudart.cpp:307),
\* when an older one may be taken.
LaunchesItsKernel ==
  (launched # None /\ \A x \in dying : Owners(launched.stub) \subseteq saw[x]) =>
    LET mod == rt.modules[launched.module]
        ims == images[mod.unit]
        sm == SM[mod.device]
    IN /\ mod.live
       /\ mod.unit \in Owners(launched.stub)
       /\ mod.device = rt.ordinal
       /\ \E i \in Runnable(ims, sm) : mod.image = PayloadAt(ims, i)
       /\ mod.read = sm => mod.image = PayloadAt(ims, Newest(ims, sm))
=============================================================================
