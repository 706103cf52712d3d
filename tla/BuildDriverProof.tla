-------------------------- MODULE BuildDriverProof --------------------------
(* For any invocations: a build that fails early has written nothing, one    *)
(* that succeeds has written all of its output, an executable is linked from *)
(* an object of every input and the runtimes they need, a fat binary holds   *)
(* an image for every device asked for, Run leaves no directory behind, and  *)
(* the profile is whole however the process ends.                            *)
EXTENDS BuildDriver, FiniteSetTheorems, WellFoundedInduction, TLAPS

Compiling == {"start", "input", "device", "pass"}
Linking == {"cudart", "hiprt", "link"}
Leaving == {"done", "stop", "close", "exit"}
Points == Compiling \cup Linking \cup Leaving \cup {"write", "merge", "exec"}

\* The files of the first k objects, those the build was given left out.
ObjectsOf(k) == {objectPath(objects[i]) : i \in {j \in 1..k : objects[j].pass # "given"}}

CudaLinked == IF "cuda" \in offload /\ cudaRuntime # "none" THEN <<"cuda">> ELSE <<>>
HipLinked == IF "hip" \in offload THEN <<"hip">> ELSE <<>>

\* The objects, in step with the inputs.
Lined ==
  /\ cfg \in Configs /\ pc \in Points
  /\ objects \in Seq(Range(objects))
  /\ n \in 0..Len(cfg.inputs) /\ w \in 0..Len(objects)
  /\ n <= Len(objects)
  /\ \A i \in 1..n : objects[i].of = i
  /\ ~cfg.deviceOnly => offload = UNION {Registers(i) : i \in 1..n}

\* Where the build is says what it has made.
Placed ==
  /\ pc \notin Leaving => result = None
  /\ pc \in Compiling \cup Linking \cup {"merge"} => DOMAIN files = {} /\ w = 0
  /\ pc \in Compiling => Len(objects) = n
  /\ pc \in {"device", "pass"} => n < Len(cfg.inputs) /\ isSource(input)
  /\ pc \in Linking =>
       n = Len(cfg.inputs) /\ ~cfg.compileOnly /\ ~cfg.deviceOnly /\ metal = {}
  /\ pc = "merge" => ~cfg.compileOnly /\ metal # {}
  /\ pc = "write" =>
       /\ cfg.compileOnly \/ (cfg.deviceOnly /\ metal = {})
       /\ DOMAIN files = ObjectsOf(w)
       /\ \A p \in DOMAIN files : files[p].kind = "object"
  /\ pc = "exec" => cfg.run

\* How far the runtimes have been appended.
Appended ==
  /\ pc = "cudart" => Len(objects) = n
  /\ pc = "hiprt" =>
       /\ Len(objects) = n + Len(CudaLinked)
       /\ \A i \in 1..Len(CudaLinked) : objects[n + i].pass = CudaLinked[i]
  /\ pc = "link" =>
       LET rts == CudaLinked \o HipLinked
       IN  /\ Len(objects) = n + Len(rts)
           /\ \A i \in 1..Len(rts) : objects[n + i].pass = rts[i]

BInv ==
  /\ Lined /\ Placed /\ Appended
  /\ FailureWritesNothing /\ SuccessIsComplete /\ TempRemoved /\ LinkLine

\* Whoever has closed the profile's file, or may end the process, has stopped the
\* profile or waited for the other to.
PInv ==
  /\ cfg \in Configs /\ open \in BOOLEAN
  /\ cfg.profile =>
       /\ prof \in {"on", "whole"}
       /\ pc \in {"close", "exit"} \/ sig \in {"close", "exit"} \/ ~open \/ exit # None
            => prof = "whole"

-----------------------------------------------------------------------------
(* The profile *)

\* main's deferred calls run as they are listed.
LEMMA AfterStep == After("stop") = "close" /\ After("close") = "exit"
<1>1. \A i \in 1..2 : ExitSteps[i] = "stop" <=> i = 1
  BY DEF ExitSteps, StopFirst
<1>2. \A i \in 1..2 : ExitSteps[i] = "close" <=> i = 2
  BY DEF ExitSteps, StopFirst
<1>3. (CHOOSE i \in 1..2 : ExitSteps[i] = "stop") = 1
  BY <1>1
<1>4. (CHOOSE i \in 1..2 : ExitSteps[i] = "close") = 2
  BY <1>2
<1> QED
  BY <1>3, <1>4 DEF After, ExitSteps, StopFirst

BuildNext ==
  \/ MkdirTemp \/ Start \/ PrebuiltObject \/ StartSource \/ DevicePass \/ OwnPass
  \/ AllCompiled \/ WriteObject \/ AllWritten \/ MergeMetallibs \/ LinkCUDA \/ LinkHIP
  \/ Link \/ Exec \/ Return

\* Build touches neither the profile nor the signal, and leaves main's deferred
\* calls to main.
LEMMA BuildStep ==
  ASSUME BuildNext
  PROVE  cfg' = cfg /\ UNCHANGED process /\ pc' \notin {"close", "exit"}
<1>1. CASE MkdirTemp
  BY <1>1 DEF MkdirTemp, Fail, Stay, build, process
<1>2. CASE Start \/ StartSource \/ AllCompiled
  BY <1>2 DEF Start, StartSource, AllCompiled, Fail, Stay, build, process
<1>3. CASE PrebuiltObject \/ DevicePass \/ OwnPass
  BY <1>3, Zenon DEF PrebuiltObject, DevicePass, OwnPass, Fail, Stay, build, process
<1>4. CASE WriteObject \/ AllWritten \/ MergeMetallibs
  BY <1>4 DEF WriteObject, AllWritten, MergeMetallibs, FailWrite, Built, Fail, Stay, build, process
<1>5. CASE LinkCUDA \/ LinkHIP
  BY <1>5 DEF LinkCUDA, LinkHIP, RuntimeObject, Fail, Stay, build, process
<1>6. CASE Link
  BY <1>6 DEF Link, FailWrite, Built, Fail, Stay, build, process
<1>7. CASE Exec \/ Return
  BY <1>7 DEF Exec, Return, ExitSteps, StopFirst, Stay, build, process
<1> QED
  BY <1>1, <1>2, <1>3, <1>4, <1>5, <1>6, <1>7 DEF BuildNext

\* Whoever closes the profile's file or ends the process finds it whole.
LEMMA ProfileInvariance == Spec => []PInv
<1>1. Init => PInv
  BY ConfigsAssumption, Zenon DEF Init, PInv
<1>2. PInv /\ [Next]_vars => PInv'
  <2> SUFFICES ASSUME PInv, [Next]_vars PROVE PInv'
    OBVIOUS
  <2>1. CASE BuildNext
    BY <2>1, BuildStep DEF PInv, process
  <2>2. CASE MainDeferred
    <3>1. CASE pc = "stop"
      BY <2>2, <3>1, AfterStep DEF PInv, MainDeferred, Deferred, StopCPUProfile, build
    <3>2. CASE pc = "close"
      BY <2>2, <3>2, AfterStep, Zenon DEF PInv, MainDeferred, Deferred, build
    <3> QED
      BY <2>2, <3>1, <3>2 DEF MainDeferred
  <2>3. CASE MainExit
    BY <2>3 DEF PInv, MainExit, build
  <2>4. CASE Terminate
    BY <2>4 DEF PInv, Terminate, ExitSteps, StopFirst, build
  <2>5. CASE SignalStep
    <3>1. CASE sig = "stop"
      BY <2>5, <3>1, AfterStep DEF PInv, SignalStep, Deferred, StopCPUProfile, build
    <3>2. CASE sig = "close"
      BY <2>5, <3>2, AfterStep, Zenon DEF PInv, SignalStep, Deferred, build
    <3> QED
      BY <2>5, <3>1, <3>2 DEF SignalStep
  <2>6. CASE SignalExit
    BY <2>6 DEF PInv, SignalExit, build
  <2>7. CASE Ended \/ UNCHANGED vars
    BY <2>7 DEF PInv, Ended, vars, build, process
  <2> QED
    BY <2>1, <2>2, <2>3, <2>4, <2>5, <2>6, <2>7 DEF Next, BuildNext
<1> QED
  BY <1>1, <1>2, PTL DEF Spec

\* main.go:16 -- main's deferred calls and the signal goroutine race, each
\* stopping the profile, closing its file and ending the process; in whatever
\* order their steps fall, a profiled process ends with the profile written.
THEOREM ProfileAlwaysWritten == Spec => []ProfileWritten
<1>1. PInv => ProfileWritten
  BY DEF PInv, ProfileWritten
<1> QED
  BY <1>1, ProfileInvariance, PTL

-----------------------------------------------------------------------------
(* What a step that keeps the invocation keeps *)

\* What is said of the invocation alone does not change.
LEMMA SameInvocation ==
  ASSUME cfg' = cfg
  PROVE  /\ metal' = metal /\ output' = output /\ cudaRuntime' = cudaRuntime
         /\ \A i : Registers(i)' = Registers(i)
         /\ Runtimes' = Runtimes
<1>1. metal' = metal
  BY DEF metal, language
<1>2. output' = output
  BY <1>1 DEF output
<1>3. cudaRuntime' = cudaRuntime
  BY DEF cudaRuntime
<1>4. \A i : Registers(i)' = Registers(i)
  BY DEF Registers, language
<1>5. Needed' = Needed
  BY <1>4 DEF Needed
<1> QED
  BY <1>1, <1>2, <1>3, <1>4, <1>5 DEF Runtimes

\* An object's path depends on the invocation and on how many objects there are.
LEMMA SameObjects ==
  ASSUME cfg' = cfg, objects' = objects
  PROVE  /\ \A o : objectPath(o)' = objectPath(o)
         /\ \A k : ObjectsOf(k)' = ObjectsOf(k)
<1>1. \A o : objectPath(o)' = objectPath(o)
  BY SameInvocation DEF objectPath
<1> QED
  BY <1>1 DEF ObjectsOf

\* The invocation's inputs are a sequence, and its flags are flags.
LEMMA InputsSeq ==
  ASSUME cfg \in Configs
  PROVE  /\ Len(cfg.inputs) \in Nat /\ DOMAIN cfg.inputs = 1..Len(cfg.inputs)
         /\ cfg.run \in BOOLEAN /\ cfg.compileOnly \in BOOLEAN /\ cfg.deviceOnly \in BOOLEAN
         /\ cfg.x \in {""} \cup Langs
<1>1. cfg.inputs \in Seq(Range(cfg.inputs))
  BY ConfigsAssumption, Zenon
<1>2. Len(cfg.inputs) \in Nat /\ DOMAIN cfg.inputs = 1..Len(cfg.inputs)
  BY <1>1
<1> QED
  BY <1>2, ConfigsAssumption, Zenon

\* An object appended to those there are.
LEMMA AppendAny ==
  ASSUME NEW s, s \in Seq(Range(s)), NEW e
  PROVE  /\ Append(s, e) \in Seq(Range(Append(s, e)))
         /\ Len(s) \in Nat /\ Len(Append(s, e)) = Len(s) + 1
         /\ Append(s, e)[Len(s) + 1] = e
         /\ \A i \in 1..Len(s) : Append(s, e)[i] = s[i]
<1> DEFINE S == Range(s) \cup {e}
           t == Append(s, e)
<1>1. s \in Seq(S)
  BY DEF S, Range
<1>2. e \in S
  BY DEF S
<1> HIDE DEF S
<1>3. /\ t \in Seq(S) /\ Len(t) = Len(s) + 1 /\ Len(s) \in Nat
      /\ \A i \in 1..Len(s) : t[i] = s[i]
      /\ t[Len(s) + 1] = e
  BY <1>1, <1>2
<1> HIDE DEF t
<1>4. t \in [1..Len(t) -> S] /\ Len(t) \in Nat
  BY <1>3
<1>5. t \in [1..Len(t) -> Range(t)]
  BY <1>4 DEF Range
<1>6. t \in Seq(Range(t))
  BY <1>4, <1>5
<1> QED
  BY <1>3, <1>6 DEF t

\* The inputs compiled are counted.
LEMMA CompiledNat == ASSUME Lined PROVE n \in Nat
<1> DEFINE k == Len(cfg.inputs)
<1>1. k \in Nat /\ n \in 0..k
  BY InputsSeq, Zenon DEF Lined
<1> HIDE DEF k
<1> QED
  BY <1>1

\* A step that adds no object keeps objects and inputs in step.
LEMMA LinedKept ==
  ASSUME Lined, UNCHANGED <<cfg, n, objects, offload>>, w' \in 0..Len(objects), pc' \in Points
  PROVE  Lined'
BY SameInvocation DEF Lined

\* The runtimes needed by one more input.
LEMMA UnionAdd ==
  ASSUME NEW A, NEW b
  PROVE  UNION {Registers(i) : i \in A \cup {b}}
           = (UNION {Registers(i) : i \in A}) \cup Registers(b)
OBVIOUS

\* An object appended, of the next input or of none.
LEMMA LinedAppend ==
  ASSUME Lined, NEW o, objects' = Append(objects, o), UNCHANGED <<cfg, w>>, pc' \in Points,
         \/ n' = n /\ offload' = offload
         \/ /\ n' = n + 1 /\ n < Len(cfg.inputs) /\ Len(objects) = n /\ o.of = n + 1
            /\ ~cfg.deviceOnly => offload' = offload \cup Registers(n + 1)
  PROVE  /\ Lined' /\ Len(objects') = Len(objects) + 1 /\ Len(objects) \in Nat
         /\ objects'[Len(objects) + 1] = o
         /\ \A i \in 1..Len(objects) : objects'[i] = objects[i]
<1>1. /\ objects' \in Seq(Range(objects')) /\ Len(objects) \in Nat
      /\ Len(objects') = Len(objects) + 1
      /\ objects'[Len(objects) + 1] = o
      /\ \A i \in 1..Len(objects) : objects'[i] = objects[i]
  BY AppendAny DEF Lined
<1> DEFINE k == Len(cfg.inputs)
           m == Len(objects)
<1>a. k \in Nat /\ n \in 0..k /\ w \in 0..m /\ n <= m
  BY InputsSeq, Zenon DEF Lined
<1>b. m \in Nat
  BY <1>1
<1> HIDE DEF k, m
<1>c. n \in Nat /\ w \in Nat /\ n <= m /\ w <= m /\ k \in Nat /\ n <= k
  BY <1>a, <1>b
<1>2. /\ n \in Nat /\ w \in Nat /\ n <= Len(objects) /\ w <= Len(objects)
      /\ Len(cfg.inputs) \in Nat /\ n <= Len(cfg.inputs)
  BY <1>c DEF k, m
<1>3. n' \in 0..Len(cfg.inputs') /\ w' \in 0..Len(objects') /\ n' <= Len(objects')
  BY <1>1, <1>2
<1>4. \A i \in 1..n' : objects'[i].of = i
  BY <1>1, <1>2 DEF Lined
<1>5. ~cfg.deviceOnly => offload' = UNION {Registers(i) : i \in 1..n'}
  <2>1. CASE n' = n /\ offload' = offload
    BY <2>1 DEF Lined
  <2>2. CASE n' = n + 1 /\ (~cfg.deviceOnly => offload' = offload \cup Registers(n + 1))
    <3> SUFFICES ASSUME ~cfg.deviceOnly
                 PROVE  offload' = UNION {Registers(i) : i \in 1..n'}
      OBVIOUS
    <3>1. offload = UNION {Registers(i) : i \in 1..n}
      BY DEF Lined
    <3>2. offload' = offload \cup Registers(n + 1)
      BY <2>2
    <3>3. 1..n' = 1..n \cup {n + 1}
      BY <1>2, <2>2
    <3>4. UNION {Registers(i) : i \in 1..n \cup {n + 1}}
            = (UNION {Registers(i) : i \in 1..n}) \cup Registers(n + 1)
      BY UnionAdd, Zenon
    <3> QED
      BY <3>1, <3>2, <3>3, <3>4
  <2> QED
    BY <2>1, <2>2
<1>6. ~cfg'.deviceOnly => offload' = UNION {Registers(i)' : i \in 1..n'}
  BY <1>5, SameInvocation
<1> QED
  BY <1>1, <1>3, <1>4, <1>6 DEF Lined

\* A step that makes no new executable keeps the link line.
LEMMA LinkLineKept ==
  ASSUME LinkLine, cfg' = cfg,
         \A p \in DOMAIN files' : files'[p].kind = "executable" =>
            p \in DOMAIN files /\ files'[p] = files[p]
  PROVE  LinkLine'
<1>1. \A p \in Executables' : p \in Executables /\ files'[p] = files[p]
  BY DEF Executables
<1>2. Runtimes' = Runtimes
  BY SameInvocation
<1>3. SUFFICES ASSUME NEW p \in Executables'
              PROVE  LET objs == files'[p].objects
                         k == Len(cfg.inputs)
                     IN  /\ Len(objs) = k + Len(Runtimes)
                         /\ \A i \in 1..k : objs[i].of = i
                         /\ \A i \in 1..Len(Runtimes) : objs[k + i].pass = Runtimes[i]
  BY <1>2 DEF LinkLine
<1> QED
  BY <1>1, <1>3 DEF LinkLine

-----------------------------------------------------------------------------
(* One lemma for each kind of step *)

Writing == {"write", "merge", "link"}

\* A step that fails before anything is written.
LEMMA FailStep ==
  ASSUME BInv, NEW why, why # "ok", Fail(why), pc \in Compiling \cup Linking \cup {"merge"}
  PROVE  BInv'
<1> USE DEF Fail, build, Compiling, Linking, Leaving, Points
<1>1. Lined'
  BY LinedKept DEF BInv, Lined
<1>2. Placed' /\ Appended'
  BY DEF Placed, Appended
<1>3. FailureWritesNothing' /\ SuccessIsComplete' /\ TempRemoved'
  BY DEF BInv, Placed, FailureWritesNothing, SuccessIsComplete, TempRemoved
<1>4. LinkLine'
  BY LinkLineKept DEF BInv
<1> QED
  BY <1>1, <1>2, <1>3, <1>4 DEF BInv

\* A write that fails.
LEMMA FailWriteStep ==
  ASSUME BInv, NEW path, FailWrite(path), pc \in Writing
  PROVE  BInv'
<1> USE DEF FailWrite, Compiling, Linking, Leaving, Points
<1>1. Lined'
  BY LinedKept DEF BInv, Lined
<1>2. Placed' /\ Appended'
  BY DEF Placed, Appended
<1>3. FailureWritesNothing' /\ SuccessIsComplete' /\ TempRemoved'
  BY DEF FailureWritesNothing, SuccessIsComplete, TempRemoved
<1>4. \A p \in DOMAIN files' : files'[p].kind = "executable" =>
         p \in DOMAIN files /\ files'[p] = files[p]
  <2>1. CASE files' = files
    BY <2>1
  <2>2. CASE files' = Put(path, "partial", <<>>)
    <3>1. \A p \in DOMAIN files' :
            IF p = path THEN files'[p].kind = "partial"
            ELSE p \in DOMAIN files /\ files'[p] = files[p]
      BY <2>2 DEF Put
    <3> QED
      BY <3>1
  <2> QED
    BY <2>1, <2>2
<1>5. LinkLine'
  BY <1>4, LinkLineKept DEF BInv
<1> QED
  BY <1>1, <1>2, <1>3, <1>5 DEF BInv

\* The build is done, and leaves alone what it was not told to write.
LEMMA QuietStep ==
  ASSUME BInv, UNCHANGED build, UNCHANGED result,
         pc' = pc \/ (pc \in {"stop", "close", "exit"} /\ pc' \in {"stop", "close", "exit"})
  PROVE  BInv'
<1> USE DEF build, Compiling, Linking, Leaving, Points
<1>1. Lined'
  BY LinedKept DEF BInv, Lined
<1>2. Placed'
  <2>1. CASE pc' = pc
    <3>1. metal' = metal /\ input' = input
      BY SameInvocation DEF input
    <3>2. ObjectsOf(w)' = ObjectsOf(w)
      BY SameObjects
    <3> QED
      BY <2>1, <3>1, <3>2 DEF BInv, Placed
  <2> QED
    BY <2>1 DEF Placed
<1>3. Appended'
  <2>1. CudaLinked' = CudaLinked /\ HipLinked' = HipLinked
    BY SameInvocation DEF CudaLinked, HipLinked
  <2> QED
    BY <2>1 DEF BInv, Appended
<1>4. FailureWritesNothing' /\ TempRemoved'
  BY DEF BInv, FailureWritesNothing, TempRemoved
<1>5. SuccessIsComplete'
  BY SameInvocation, SameObjects, Zenon DEF BInv, SuccessIsComplete
<1>6. LinkLine'
  BY LinkLineKept DEF BInv
<1> QED
  BY <1>1, <1>2, <1>3, <1>4, <1>5, <1>6 DEF BInv

\* A step of the build that goes on, having written nothing yet.
LEMMA OnStep ==
  ASSUME BInv, UNCHANGED <<cfg, files, result>>, pc \notin Leaving, pc' \notin Leaving,
         Lined', Placed', Appended'
  PROVE  BInv'
<1>1. FailureWritesNothing' /\ SuccessIsComplete' /\ TempRemoved'
  BY NoneAssumption DEF BInv, Placed, FailureWritesNothing, SuccessIsComplete, TempRemoved, Leaving
<1>2. LinkLine'
  BY LinkLineKept DEF BInv
<1> QED
  BY <1>1, <1>2 DEF BInv

-----------------------------------------------------------------------------
(* The actions *)

\* Run's directory.
LEMMA MkdirTempStep == ASSUME BInv, MkdirTemp PROVE BInv'
<1>1. CASE Fail("mkdir")
  BY <1>1, FailStep DEF MkdirTemp, Compiling
<1>2. CASE tmp' = TRUE /\ UNCHANGED <<cfg, pc, n, images, objects, offload, w, files>> /\ Stay
  <2> USE DEF MkdirTemp, Stay, Compiling, Linking, Leaving, Points
  <2>1. Lined'
    BY <1>2, LinedKept DEF BInv, Lined
  <2>2. Placed' /\ Appended'
    BY <1>2 DEF BInv, Placed, Appended
  <2> QED
    BY <1>2, <2>1, <2>2, OnStep
<1> QED
  BY <1>1, <1>2, Zenon DEF MkdirTemp

\* The first checks of Build.
LEMMA StartStep == ASSUME BInv, Start PROVE BInv'
<1>1. CASE Fail("inputs")
  BY <1>1, FailStep DEF Start, Compiling
<1>2. CASE pc' = "input" /\ UNCHANGED build /\ Stay
  <2> USE DEF Start, Stay, build, Compiling, Linking, Leaving, Points
  <2>1. Lined'
    BY <1>2, LinedKept DEF BInv, Lined
  <2>2. Placed' /\ Appended'
    BY <1>2 DEF BInv, Placed, Appended
  <2> QED
    BY <1>2, <2>1, <2>2, OnStep
<1> QED
  BY <1>1, <1>2 DEF Start

\* A source's passes are chosen.
LEMMA StartSourceStep == ASSUME BInv, StartSource PROVE BInv'
<1>1. CASE Fail("arch")
  BY <1>1, FailStep DEF StartSource, Compiling
<1>2. CASE ~passFails(language(input))
  <2> USE DEF StartSource, Stay, Compiling, Linking, Leaving, Points
  <2>1. /\ pc' \in {"device", "pass"} /\ pc = "input" /\ n < Len(cfg.inputs) /\ isSource(input)
        /\ UNCHANGED <<cfg, n, objects, offload, w, files, tmp, result>>
    BY <1>2
  <2>2. Lined'
    BY <2>1, LinedKept DEF BInv, Lined
  <2>3. Placed'
    BY <2>1 DEF BInv, Placed, input
  <2>4. Appended'
    BY <2>1 DEF Appended
  <2> QED
    BY <2>1, <2>2, <2>3, <2>4, OnStep
<1> QED
  BY <1>1, <1>2 DEF StartSource

\* One device pass.
LEMMA DevicePassStep == ASSUME BInv, DevicePass PROVE BInv'
<1>1. CASE Fail("device pass")
  BY <1>1, FailStep, Zenon DEF DevicePass, Compiling
<1>2. CASE ~Fail("device pass")
  <2> USE DEF DevicePass, Stay, Compiling, Linking, Leaving, Points
  <2>1. /\ pc' \in {"device", "pass"} /\ pc = "device"
        /\ UNCHANGED <<cfg, n, objects, offload, w, files, tmp, result>>
    BY <1>2, Zenon
  <2>2. Lined'
    BY <2>1, LinedKept, Zenon DEF BInv, Lined
  <2>3. Placed'
    BY <2>1, Zenon DEF BInv, Placed, input
  <2>4. Appended'
    BY <2>1, Zenon DEF Appended
  <2> QED
    BY <2>1, <2>2, <2>3, <2>4, OnStep, Zenon
<1> QED
  BY <1>1, <1>2, Zenon

\* The object of the next input, whether given or compiled.
LEMMA CompiledStep ==
  ASSUME BInv, pc \in Compiling, pc' = "input", n < Len(cfg.inputs),
         NEW o, objects' = Append(objects, o), o.of = n + 1, n' = n + 1,
         ~cfg.deviceOnly => offload' = offload \cup Registers(n + 1),
         UNCHANGED <<cfg, w, files, tmp, result>>
  PROVE  BInv'
<1> USE DEF Compiling, Linking, Leaving, Points
<1>1. Lined' /\ Len(objects') = Len(objects) + 1
  BY LinedAppend DEF BInv, Placed
<1>2. Placed' /\ Appended'
  BY <1>1 DEF BInv, Placed, Appended
<1> QED
  BY <1>1, <1>2, OnStep

\* An object built earlier joins the line.
LEMMA PrebuiltObjectStep == ASSUME BInv, PrebuiltObject PROVE BInv'
<1>1. CASE Fail("not C++")
  BY <1>1, FailStep, Zenon DEF PrebuiltObject, Compiling
<1>2. CASE ~notCXX(input)
  <2> DEFINE o == [name |-> <<input.stem, input.ext>>, of |-> n + 1,
                   pass |-> "given", images |-> <<>>]
  <2>1. /\ objects' = Append(objects, o) /\ offload' = offload \cup registers(input) /\ n' = n + 1
        /\ UNCHANGED <<cfg, pc, w, files, tmp, result>>
        /\ pc = "input" /\ n < Len(cfg.inputs) /\ ~isSource(input)
    BY <1>2 DEF PrebuiltObject, Stay
  <2>2. o.of = n + 1
    OBVIOUS
  <2>3. registers(input) = Registers(n + 1)
    BY <2>1 DEF registers, RegistersAny, Registers, input
  <2> HIDE DEF o
  <2> QED
    BY <2>1, <2>2, <2>3, CompiledStep DEF Compiling
<1> QED
  BY <1>1, <1>2, Zenon DEF PrebuiltObject

\* A source in an offload language needs that language's runtime.
LEMMA RuntimeOf ==
  ASSUME cfg \in Configs, isSource(input), ~cfg.deviceOnly
  PROVE  (IF needsRuntime(language(input)) THEN {language(input)} ELSE {}) = Registers(n + 1)
<1>1. language(input) \in Langs
  BY InputsSeq, Zenon DEF language, languageOf, ParseLanguage, ExtLanguage, Langs
<1>2. Registers(n + 1) = {language(input)} \cap {"cuda", "hip"}
  BY DEF Registers, input
<1> HIDE DEF language
<1> DEFINE l == language(input)
<1>3. l \in Langs
  BY <1>1
<1> HIDE DEF l
<1>4. needsRuntime(l) <=> l \in {"cuda", "hip"}
  BY <1>3 DEF needsRuntime, host, Langs
<1>5. (IF needsRuntime(l) THEN {l} ELSE {}) = {l} \cap {"cuda", "hip"}
  BY <1>4, Zenon
<1> QED
  BY <1>2, <1>5 DEF l

\* A source's object joins the line.
LEMMA OwnPassStep == ASSUME BInv, OwnPass PROVE BInv'
<1>1. CASE Fail("pass")
  BY <1>1, FailStep DEF OwnPass, Compiling
<1>2. CASE ~Fail("pass")
  <2> DEFINE o == [name |-> objectName(input), of |-> n + 1, images |-> images,
                   pass |-> IF devicePass(language(input)) THEN "device" ELSE "host"]
  <2>1. /\ objects' = Append(objects, o) /\ n' = n + 1
        /\ offload' = offload \cup (IF needsRuntime(language(input)) THEN {language(input)} ELSE {})
        /\ UNCHANGED <<cfg, w, files, tmp, result>>
        /\ pc = "pass" /\ pc' = "input"
    BY <1>2 DEF OwnPass, Stay
  <2>2. o.of = n + 1
    OBVIOUS
  <2>3. n < Len(cfg.inputs) /\ isSource(input) /\ cfg \in Configs
    BY <2>1 DEF BInv, Placed, Lined
  <2>4. ~cfg.deviceOnly => offload' = offload \cup Registers(n + 1)
    BY <2>1, <2>3, RuntimeOf
  <2> HIDE DEF o
  <2> QED
    BY <2>1, <2>2, <2>3, <2>4, CompiledStep DEF Compiling
<1> QED
  BY <1>1, <1>2

\* What comes after the last input depends on the mode.
LEMMA AllCompiledStep == ASSUME BInv, AllCompiled PROVE BInv'
<1> USE DEF Compiling, Linking, Leaving, Points
<1>1. /\ pc = "input" /\ n = Len(cfg.inputs)
      /\ UNCHANGED <<cfg, n, objects, offload, w, files, tmp, result>>
      /\ pc' = IF cfg.compileOnly THEN "write" ELSE IF metal # {} THEN "merge"
               ELSE IF cfg.deviceOnly THEN "write" ELSE "cudart"
  BY DEF AllCompiled, Stay, build
<1>2. Lined'
  BY <1>1, LinedKept DEF BInv, Lined
<1>3. metal' = metal
  BY <1>1, SameInvocation
<1>4. DOMAIN files = {} /\ w = 0 /\ Len(objects) = n /\ result = None
  BY <1>1 DEF BInv, Placed
<1>5. ObjectsOf(w)' = {}
  BY <1>1, <1>4 DEF ObjectsOf
<1>6. Placed'
  BY <1>1, <1>3, <1>4, <1>5 DEF Placed
<1>7. Appended'
  BY <1>1, <1>4 DEF Appended
<1> QED
  BY <1>1, <1>2, <1>6, <1>7, OnStep

\* The paths written are those of the objects met so far.
LEMMA WriteObjectStep == ASSUME BInv, WriteObject PROVE BInv'
<1> DEFINE o == objects[w + 1]
<1> USE DEF Compiling, Linking, Leaving, Points
<1>0. /\ pc = "write" /\ result = None /\ w < Len(objects) /\ w \in Nat /\ Len(objects) \in Nat
      /\ DOMAIN files = ObjectsOf(w)
      /\ \A p \in DOMAIN files : files[p].kind = "object"
      /\ cfg.compileOnly \/ (cfg.deviceOnly /\ metal = {})
  BY DEF WriteObject, BInv, Placed, Lined
<1>1. CASE FailWrite(objectPath(o))
  BY <1>0, <1>1, FailWriteStep DEF Writing
<1>2. CASE /\ ~FailWrite(objectPath(o))
  <2>1. /\ UNCHANGED <<cfg, pc, n, objects, offload, tmp, result>> /\ w' = w + 1
        /\ IF o.pass = "given" THEN files' = files ELSE files' = Put(objectPath(o), "object", <<o>>)
    BY <1>2 DEF WriteObject, Stay
  <2>2. w' \in 0..Len(objects)
    BY <1>0, <2>1
  <2>3. Lined'
    BY <1>0, <2>1, <2>2, LinedKept DEF BInv
  <2>4. {j \in 1..w' : objects[j].pass # "given"} =
          {j \in 1..w : objects[j].pass # "given"} \cup (IF o.pass = "given" THEN {} ELSE {w + 1})
    <3>1. 1..w' = 1..w \cup {w + 1}
      BY <1>0, <2>1
    <3> QED
      BY <3>1
  <2>5. ObjectsOf(w') = ObjectsOf(w) \cup (IF o.pass = "given" THEN {} ELSE {objectPath(o)})
    BY <2>4 DEF ObjectsOf
  <2>6. (DOMAIN files)' = ObjectsOf(w')
    <3>1. CASE o.pass = "given"
      BY <1>0, <2>1, <2>5, <3>1
    <3>2. CASE o.pass # "given"
      <4>1. DOMAIN files' = DOMAIN files \cup {objectPath(o)}
        BY <2>1, <3>2 DEF Put
      <4> QED
        BY <1>0, <2>5, <3>2, <4>1
    <3> QED
      BY <3>1, <3>2
  <2>7. ObjectsOf(w)' = ObjectsOf(w')
    BY <2>1, SameInvocation DEF ObjectsOf, objectPath
  <2>8. \A p \in DOMAIN files' : files'[p].kind = "object"
    BY <1>0, <2>1 DEF Put
  <2>9. metal' = metal
    BY <2>1, SameInvocation
  <2>10. Placed'
    BY <1>0, <2>1, <2>6, <2>7, <2>8, <2>9 DEF Placed
  <2>11. Appended'
    BY <1>0, <2>1 DEF Appended
  <2>12. FailureWritesNothing' /\ SuccessIsComplete' /\ TempRemoved'
    BY <1>0, <2>1, NoneAssumption DEF FailureWritesNothing, SuccessIsComplete, TempRemoved
  <2>13. LinkLine'
    BY <2>1, <2>8, LinkLineKept DEF BInv
  <2> QED
    BY <2>3, <2>10, <2>11, <2>12, <2>13 DEF BInv
<1> QED
  BY <1>1, <1>2

\* The build ends well: Build returns, or Run goes on to the program.
LEMMA BuiltStep ==
  ASSUME BInv, Built, UNCHANGED <<cfg, n, images, objects, offload, w, tmp>>,
         pc \in Writing, LinkLine',
         \A p \in DOMAIN files' : files'[p].kind # "partial",
         DOMAIN files' = IF cfg.compileOnly \/ (cfg.deviceOnly /\ metal = {})
                         THEN ObjectsOf(Len(objects)) ELSE {output}
  PROVE  BInv'
<1> USE DEF Built, Compiling, Linking, Leaving, Points
<1>1. cfg.run \in BOOLEAN
  BY InputsSeq, Zenon DEF BInv, Lined
<1>2. Lined'
  BY LinedKept DEF BInv, Lined
<1>3. Placed' /\ Appended' /\ TempRemoved'
  BY <1>1 DEF Placed, Appended, TempRemoved
<1>4. FailureWritesNothing'
  BY DEF FailureWritesNothing
<1>5. DOMAIN objects = 1..Len(objects)
  BY DEF BInv, Lined
<1>6. {objectPath(objects[i])' : i \in {j \in DOMAIN objects : objects[j].pass # "given"}}
        = ObjectsOf(Len(objects))
  BY <1>5, SameObjects DEF ObjectsOf
<1>7. SuccessIsComplete'
  BY <1>6, SameInvocation, Zenon DEF SuccessIsComplete
<1> QED
  BY <1>2, <1>3, <1>4, <1>7 DEF BInv

\* writeObjects returns.
LEMMA AllWrittenStep == ASSUME BInv, AllWritten PROVE BInv'
<1>1. /\ pc = "write" /\ w = Len(objects) /\ Built
      /\ UNCHANGED <<cfg, n, images, objects, offload, w, files, tmp>>
  BY DEF AllWritten, build
<1>2. /\ DOMAIN files = ObjectsOf(Len(objects))
      /\ \A p \in DOMAIN files : files[p].kind = "object"
      /\ cfg.compileOnly \/ (cfg.deviceOnly /\ metal = {})
  BY <1>1 DEF BInv, Placed
<1>3. LinkLine'
  BY <1>1, LinkLineKept DEF BInv
<1> QED
  BY <1>1, <1>2, <1>3, BuiltStep DEF Writing

\* A Metal build writes one library.
LEMMA MergeMetallibsStep == ASSUME BInv, MergeMetallibs PROVE BInv'
<1>1. CASE Fail("merge")
  BY <1>1, FailStep DEF MergeMetallibs
<1>2. CASE FailWrite(output)
  BY <1>2, FailWriteStep DEF MergeMetallibs, Writing
<1>3. CASE ~Fail("merge") /\ ~FailWrite(output)
  <2>1. /\ pc = "merge" /\ files' = Put(output, "metallib", objects) /\ Built
        /\ UNCHANGED <<cfg, n, images, objects, offload, w, tmp>>
    BY <1>3 DEF MergeMetallibs
  <2>2. DOMAIN files = {} /\ ~cfg.compileOnly /\ metal # {}
    BY <2>1 DEF BInv, Placed
  <2>3. DOMAIN files' = {output} /\ files'[output].kind = "metallib"
    BY <2>1, <2>2 DEF Put
  <2>4. LinkLine'
    BY <2>1, <2>3, LinkLineKept DEF BInv
  <2> QED
    BY <2>1, <2>2, <2>3, <2>4, BuiltStep DEF Writing
<1> QED
  BY <1>1, <1>2, <1>3

\* A runtime is appended after the objects of the inputs, with none between.
LEMMA AppendedStep ==
  ASSUME Lined, NEW S, NEW rts \in Seq(S), NEW l \in S,
         Len(objects) = n + Len(rts),
         \A i \in 1..Len(rts) : objects[n + i].pass = rts[i],
         Len(objects') = Len(objects) + 1, n' = n,
         objects'[Len(objects) + 1].pass = l,
         \A i \in 1..Len(objects) : objects'[i] = objects[i]
  PROVE  /\ Len(objects') = n' + Len(rts \o <<l>>)
         /\ \A i \in 1..Len(rts \o <<l>>) : objects'[n' + i].pass = (rts \o <<l>>)[i]
<1> DEFINE t == rts \o <<l>>
           k == Len(rts)
<1>1. n \in Nat /\ k \in Nat
  BY CompiledNat
<1>2. <<l>> \in Seq(S) /\ Len(<<l>>) = 1 /\ <<l>>[1] = l
  OBVIOUS
<1>3. /\ Len(t) = k + Len(<<l>>)
      /\ \A i \in 1..(k + Len(<<l>>)) : t[i] = IF i <= k THEN rts[i] ELSE <<l>>[i - k]
  BY <1>2
<1> HIDE DEF t
<1>4. Len(t) = k + 1 /\ t[k + 1] = l /\ \A i \in 1..k : t[i] = rts[i]
  BY <1>1, <1>2, <1>3
<1>5. objects'[n + (k + 1)].pass = l /\ \A i \in 1..k : objects'[n + i].pass = rts[i]
  <2>1. Len(objects) + 1 = n + (k + 1)
    BY <1>1
  <2>2. \A i \in 1..k : n + i \in 1..Len(objects)
    BY <1>1
  <2> QED
    BY <2>1, <2>2
<1> HIDE DEF k
<1>6. \A i \in 1..(k + 1) : i = k + 1 \/ i \in 1..k
  BY <1>1
<1>7. Len(objects') = n + (k + 1)
  BY <1>1 DEF k
<1> QED
  BY <1>4, <1>5, <1>6, <1>7 DEF t

\* What linkCUDA and linkHIP share.
LEMMA RuntimeObjectStep ==
  ASSUME BInv, NEW lang, NEW next, RuntimeObject(lang, next), ~Fail("runtime"),
         pc \in {"cudart", "hiprt"}, next \in {"hiprt", "link"}
  PROVE  /\ UNCHANGED <<cfg, n, offload, w, files, tmp, result>> /\ pc' = next
         /\ Lined' /\ Placed' /\ Len(objects') = Len(objects) + 1
         /\ objects'[Len(objects) + 1].pass = lang
         /\ \A i \in 1..Len(objects) : objects'[i] = objects[i]
<1> DEFINE o == [name |-> <<"vcx_rt", lang>>, of |-> 0, pass |-> lang, images |-> <<>>]
<1> USE DEF Compiling, Linking, Leaving, Points
<1>1. /\ UNCHANGED <<cfg, n, offload, w, files, tmp, result>> /\ pc' = next
      /\ objects' = Append(objects, o)
  BY DEF RuntimeObject, Stay
<1>2. o.pass = lang
  OBVIOUS
<1> HIDE DEF o
<1>3. /\ Lined' /\ Len(objects') = Len(objects) + 1
      /\ objects'[Len(objects) + 1] = o
      /\ \A i \in 1..Len(objects) : objects'[i] = objects[i]
  BY <1>1, LinedAppend DEF BInv
<1>4. Placed'
  BY <1>1, SameInvocation DEF BInv, Placed
<1> QED
  BY <1>1, <1>2, <1>3, <1>4

\* The CUDA runtime, first.
LEMMA LinkCUDAStep == ASSUME BInv, LinkCUDA PROVE BInv'
<1> USE DEF Compiling, Linking, Leaving, Points
<1>0. pc = "cudart" /\ Len(objects) = n
  BY DEF LinkCUDA, BInv, Appended
<1>1. CASE Fail("toolkit") \/ Fail("runtime")
  BY <1>0, <1>1, FailStep
<1>2. CASE "cuda" \notin offload \/ cudaRuntime = "none"
  <2>1. UNCHANGED <<cfg, n, objects, offload, w, files, tmp, result>> /\ pc' = "hiprt"
    BY <1>2 DEF LinkCUDA, Stay, build
  <2>2. Lined'
    BY <2>1, LinedKept DEF BInv, Lined
  <2>3. Placed'
    BY <1>0, <2>1, SameInvocation DEF BInv, Placed
  <2>4. CudaLinked' = <<>>
    BY <1>2, <2>1, SameInvocation DEF CudaLinked
  <2>5. n \in Nat
    BY CompiledNat DEF BInv
  <2>6. Appended'
    BY <1>0, <2>1, <2>4, <2>5 DEF Appended
  <2> QED
    BY <1>0, <2>1, <2>2, <2>3, <2>6, OnStep
<1>3. CASE ~Fail("toolkit") /\ ~Fail("runtime") /\ ~("cuda" \notin offload \/ cudaRuntime = "none")
  <2>1. RuntimeObject("cuda", "hiprt")
    BY <1>3 DEF LinkCUDA
  <2>2. /\ UNCHANGED <<cfg, n, offload, w, files, tmp, result>> /\ pc' = "hiprt"
        /\ Lined' /\ Placed' /\ Len(objects') = Len(objects) + 1
        /\ objects'[Len(objects) + 1].pass = "cuda"
        /\ \A i \in 1..Len(objects) : objects'[i] = objects[i]
    BY <1>0, <1>3, <2>1, RuntimeObjectStep
  <2>3. CudaLinked' = <<"cuda">>
    BY <1>3, <2>2, SameInvocation DEF CudaLinked
  <2>4. n \in Nat
    BY CompiledNat DEF BInv
  <2>5. Appended'
    BY <1>0, <2>2, <2>3, <2>4 DEF Appended
  <2> QED
    BY <1>0, <2>2, <2>5, OnStep
<1> QED
  BY <1>1, <1>2, <1>3

\* The HIP runtime, after it.
LEMMA LinkHIPStep == ASSUME BInv, LinkHIP PROVE BInv'
<1> USE DEF Compiling, Linking, Leaving, Points
<1>0. /\ pc = "hiprt" /\ Len(objects) = n + Len(CudaLinked)
      /\ \A i \in 1..Len(CudaLinked) : objects[n + i].pass = CudaLinked[i]
  BY DEF LinkHIP, BInv, Appended
<1>1. CASE Fail("runtime")
  BY <1>0, <1>1, FailStep
<1>2. CASE "hip" \notin offload
  <2>1. UNCHANGED <<cfg, n, objects, offload, w, files, tmp, result>> /\ pc' = "link"
    BY <1>2 DEF LinkHIP, Stay, build
  <2>2. Lined'
    BY <2>1, LinedKept DEF BInv, Lined
  <2>3. Placed'
    BY <1>0, <2>1, SameInvocation DEF BInv, Placed
  <2>4. CudaLinked' = CudaLinked /\ HipLinked' = <<>>
    BY <1>2, <2>1, SameInvocation DEF CudaLinked, HipLinked
  <2>5. CudaLinked \o <<>> = CudaLinked
    BY DEF CudaLinked
  <2>6. Appended'
    BY <1>0, <2>1, <2>4, <2>5 DEF Appended
  <2> QED
    BY <1>0, <2>1, <2>2, <2>3, <2>6, OnStep
<1>3. CASE "hip" \in offload /\ ~Fail("runtime")
  <2>1. RuntimeObject("hip", "link")
    BY <1>3 DEF LinkHIP
  <2>2. /\ UNCHANGED <<cfg, n, offload, w, files, tmp, result>> /\ pc' = "link"
        /\ Lined' /\ Placed' /\ Len(objects') = Len(objects) + 1
        /\ objects'[Len(objects) + 1].pass = "hip"
        /\ \A i \in 1..Len(objects) : objects'[i] = objects[i]
    BY <1>0, <1>3, <2>1, RuntimeObjectStep
  <2>3. CudaLinked' = CudaLinked /\ HipLinked' = <<"hip">>
    BY <1>3, <2>2, SameInvocation DEF CudaLinked, HipLinked
  <2>4. CudaLinked \in Seq({"cuda", "hip"})
    <3>1. <<>> \in Seq({"cuda", "hip"}) /\ <<"cuda">> \in Seq({"cuda", "hip"})
      OBVIOUS
    <3> QED
      BY <3>1, Zenon DEF CudaLinked
  <2>5. /\ Len(objects') = n' + Len(CudaLinked \o <<"hip">>)
        /\ \A i \in 1..Len(CudaLinked \o <<"hip">>) :
             objects'[n' + i].pass = (CudaLinked \o <<"hip">>)[i]
    BY <1>0, <2>2, <2>4, AppendedStep DEF BInv
  <2>6. Appended'
    BY <2>2, <2>3, <2>5 DEF Appended
  <2> QED
    BY <1>0, <2>2, <2>6, OnStep
<1> QED
  BY <1>1, <1>2, <1>3

\* With every input compiled, the runtimes appended are those needed.
LEMMA RuntimesLinked ==
  ASSUME Lined, n = Len(cfg.inputs), ~cfg.deviceOnly
  PROVE  Runtimes = CudaLinked \o HipLinked
<1>1. 1..n = DOMAIN cfg.inputs
  BY InputsSeq, Zenon DEF Lined
<1>2. offload = UNION {Registers(i) : i \in 1..n}
  BY DEF Lined
<1>3. offload = Needed
  BY <1>1, <1>2 DEF Needed
<1> QED
  BY <1>3 DEF Runtimes, CudaLinked, HipLinked

\* The executable holds the line as it stands.
LEMMA LinkStep == ASSUME BInv, Link PROVE BInv'
<1>1. CASE Fail("link")
  BY <1>1, FailStep DEF Link, Linking
<1>2. CASE FailWrite(output)
  BY <1>2, FailWriteStep DEF Link, Writing
<1>3. CASE ~Fail("link") /\ ~FailWrite(output)
  <2>1. /\ pc = "link" /\ files' = Put(output, "executable", objects) /\ Built
        /\ UNCHANGED <<cfg, n, images, objects, offload, w, tmp>>
    BY <1>3 DEF Link
  <2>2. /\ DOMAIN files = {} /\ ~cfg.compileOnly /\ ~cfg.deviceOnly
        /\ n = Len(cfg.inputs)
    BY <2>1 DEF BInv, Placed, Linking
  <2>3. /\ DOMAIN files' = {output} /\ files'[output].kind = "executable"
        /\ files'[output].objects = objects
    BY <2>1, <2>2 DEF Put
  <2> DEFINE rts == CudaLinked \o HipLinked
  <2>4. Len(objects) = n + Len(rts) /\ \A i \in 1..Len(rts) : objects[n + i].pass = rts[i]
    BY <2>1 DEF BInv, Appended
  <2> HIDE DEF rts
  <2>5. Runtimes' = rts
    BY <2>1, <2>2, RuntimesLinked, SameInvocation DEF BInv, rts
  <2>6. \A i \in 1..n : objects[i].of = i
    BY DEF BInv, Lined
  <2>7. \A p \in Executables' : files'[p].objects = objects
    BY <2>3 DEF Executables
  <2>8. Len(cfg'.inputs) = n
    BY <2>1, <2>2
  <2>9. LinkLine'
    BY <2>4, <2>5, <2>6, <2>7, <2>8, Zenon DEF LinkLine
  <2> QED
    BY <2>1, <2>2, <2>3, <2>9, BuiltStep DEF Writing
<1> QED
  BY <1>1, <1>2, <1>3

\* Run's program has run.
LEMMA ExecStep == ASSUME BInv, Exec PROVE BInv'
<1> USE DEF Compiling, Linking, Leaving, Points
<1>1. /\ pc = "exec" /\ pc' = "done" /\ result' \in {"ok", "program"} /\ cfg.run
      /\ UNCHANGED <<cfg, n, objects, offload, w, files, tmp>>
  BY DEF Exec, build, BInv, Placed
<1>2. Lined'
  BY <1>1, LinedKept, Zenon DEF BInv, Lined
<1>3. Placed' /\ Appended'
  BY <1>1 DEF Placed, Appended
<1>4. FailureWritesNothing' /\ SuccessIsComplete' /\ TempRemoved'
  BY <1>1 DEF FailureWritesNothing, SuccessIsComplete, TempRemoved
<1>5. LinkLine'
  BY <1>1, LinkLineKept DEF BInv
<1> QED
  BY <1>2, <1>3, <1>4, <1>5 DEF BInv

\* Build or Run returns.
LEMMA ReturnStep == ASSUME BInv, Return PROVE BInv'
<1> USE DEF Compiling, Linking, Leaving, Points
<1>0. cfg.run \in BOOLEAN
  BY InputsSeq, Zenon DEF BInv, Lined
<1>1. /\ pc = "done" /\ pc' = "stop" /\ tmp' = FALSE
      /\ files' = IF cfg.run THEN [p \in {} |-> None] ELSE files
      /\ UNCHANGED <<cfg, n, objects, offload, w, result>>
  BY DEF Return, RemoveAll, ReturnNow, ExitSteps, StopFirst, Stay
<1>2. Lined'
  BY <1>1, LinedKept DEF BInv, Lined
<1>3. Placed' /\ Appended'
  BY <1>1 DEF Placed, Appended
<1>4. IF cfg.run THEN DOMAIN files' = {} ELSE files' = files
  BY <1>1
<1>5. FailureWritesNothing' /\ TempRemoved'
  BY <1>0, <1>1, <1>4 DEF BInv, FailureWritesNothing, TempRemoved
<1>6. SuccessIsComplete'
  BY <1>0, <1>1, <1>4, SameInvocation, SameObjects, Zenon DEF BInv, SuccessIsComplete
<1>7. LinkLine'
  BY <1>0, <1>1, <1>4, LinkLineKept DEF BInv
<1> QED
  BY <1>2, <1>3, <1>5, <1>6, <1>7 DEF BInv

\* main's deferred calls and the signal goroutine leave the build alone.
LEMMA ProcessStep ==
  ASSUME BInv, MainDeferred \/ MainExit \/ Terminate \/ SignalStep \/ SignalExit \/ Ended
               \/ UNCHANGED vars
  PROVE  BInv'
<1>1. CASE MainDeferred
  BY <1>1, AfterStep, QuietStep DEF MainDeferred
<1>2. CASE MainExit \/ Terminate \/ SignalStep \/ SignalExit
  BY <1>2, QuietStep DEF MainExit, Terminate, SignalStep, SignalExit
<1>3. CASE Ended \/ UNCHANGED vars
  BY <1>3, QuietStep DEF Ended, vars
<1> QED
  BY <1>1, <1>2, <1>3

\* Nothing is made at the start.
LEMMA BuildInit == ASSUME Init PROVE BInv
<1> USE DEF Compiling, Linking, Leaving, Points
<1>1. Lined
  <2>1. Len(cfg.inputs) \in Nat
    BY InputsSeq, Zenon DEF Init
  <2>2. objects \in Seq(Range(objects)) /\ Len(objects) = 0
    BY DEF Init, Range
  <2>3. UNION {Registers(i) : i \in 1..0} = {}
    OBVIOUS
  <2> QED
    BY <2>1, <2>2, <2>3 DEF Init, Lined
<1>2. Placed /\ Appended
  BY DEF Init, Placed, Appended
<1>3. FailureWritesNothing /\ SuccessIsComplete /\ TempRemoved
  BY NoneAssumption DEF Init, FailureWritesNothing, SuccessIsComplete, TempRemoved
<1>4. LinkLine
  BY DEF Init, LinkLine, Executables
<1> QED
  BY <1>1, <1>2, <1>3, <1>4 DEF BInv

\* Where the build is, and what it has made by then, for any invocation.
LEMMA BuildInvariance == Spec => []BInv
<1>1. Init => BInv
  BY BuildInit
<1>2. BInv /\ [Next]_vars => BInv'
  BY MkdirTempStep, StartStep, PrebuiltObjectStep, StartSourceStep, DevicePassStep,
     OwnPassStep, AllCompiledStep, WriteObjectStep, AllWrittenStep, MergeMetallibsStep,
     LinkCUDAStep, LinkHIPStep, LinkStep, ExecStep, ReturnStep, ProcessStep, ZenonT(30) DEF Next
<1> QED
  BY <1>1, <1>2, PTL DEF Spec

\* build.go:73 -- whatever the inputs, their order and the objects among them, an
\* executable holds an object of each input in turn, then one runtime for each
\* offload language needed.
THEOREM LinkLineWhole == Spec => []LinkLine
<1>1. BInv => LinkLine
  BY DEF BInv
<1> QED
  BY <1>1, BuildInvariance, PTL

\* build.go:52 -- a pass, a runtime or a link that fails, at whichever input,
\* leaves nothing on disk.
THEOREM FailuresWriteNothing == Spec => []FailureWritesNothing
<1>1. BInv => FailureWritesNothing
  BY DEF BInv
<1> QED
  BY <1>1, BuildInvariance, PTL

\* build.go:126 -- Build returns nil only once its output is written and whole,
\* in every mode.
THEOREM SuccessAlwaysComplete == Spec => []SuccessIsComplete
<1>1. BInv => SuccessIsComplete
  BY DEF BInv
<1> QED
  BY <1>1, BuildInvariance, PTL

\* build.go:195 -- Run returns with its directory removed, whichever step failed.
THEOREM TempAlwaysRemoved == Spec => []TempRemoved
<1>1. BInv => TempRemoved
  BY DEF BInv
<1> QED
  BY <1>1, BuildInvariance, PTL

-----------------------------------------------------------------------------
(* The images an object carries *)

\* A set that holds 0, and k + 1 with every k, holds every natural number.
LEMMA SetInduction ==
  ASSUME NEW S, 0 \in S, \A k \in Nat : k \in S => k + 1 \in S
  PROVE  \A k \in Nat : k \in S
<1> SUFFICES ASSUME Nat \ S # {} PROVE FALSE
  OBVIOUS
<1> DEFINE T == Nat \ S
           R == OpToRel(<, Nat)
<1>1. IsWellFoundedOn(R, Nat)
  BY NatLessThanWellFounded, Zenon
<1>2. T \subseteq Nat /\ T # {}
  OBVIOUS
<1>3. \A x, y \in Nat : <<x, y>> \in R <=> x < y
  BY DEF OpToRel
<1> HIDE DEF R, T
<1>4. PICK x \in T : \A y \in T : ~(<<y, x>> \in R)
  BY <1>1, <1>2, WFMin, Zenon
<1>5. x \in Nat /\ x # 0 /\ x - 1 \in Nat /\ x - 1 < x
  BY <1>2, <1>4 DEF T
<1>6. x - 1 \notin T
  BY <1>2, <1>3, <1>4, <1>5, Zenon
<1>7. x - 1 + 1 \in S
  BY <1>5, <1>6 DEF T
<1> QED
  BY <1>4, <1>5, <1>7 DEF T

\* Distinct takes the architectures one by one.
LEMMA DistinctSteps ==
  ASSUME NEW archs, Len(archs) \in Nat
  PROVE  \E out :
           /\ Distinct(archs) = out[Len(archs)]
           /\ out[0] = <<>>
           /\ \A i \in 1 .. Len(archs) : out[i] = Took(out[i - 1], archs[i])
<1> DEFINE N == Len(archs)
           Body(f, i) == IF i = 0 THEN <<>> ELSE Took(f[i - 1], archs[i])
           Sol(f, m) == f = [i \in 0 .. m |-> Body(f, i)]
           T == {m \in Nat : \E f : Sol(f, m)}
           Out == CHOOSE f : Sol(f, N)
<1>1. Distinct(archs) = Out[N]
  BY DEF Distinct
<1>2. 0 \in T
  <2> DEFINE g == [i \in 0 .. 0 |-> <<>>]
  <2>1. Sol(g, 0)
    OBVIOUS
  <2> QED
    BY <2>1, Zenon
<1>3. ASSUME NEW m \in Nat, m \in T PROVE m + 1 \in T
  <2>1. PICK f : Sol(f, m)
    BY <1>3
  <2> DEFINE v == Took(f[m], archs[m + 1])
             g == [i \in 0 .. m + 1 |-> IF i = m + 1 THEN v ELSE f[i]]
  <2>2. ASSUME NEW i \in 0 .. m + 1 PROVE g[i] = Body(g, i)
    <3>1. CASE i = m + 1
      <4>1. g[i] = v /\ i - 1 = m /\ i # 0 /\ g[i - 1] = f[m]
        BY <3>1
      <4> QED
        BY <3>1, <4>1, Zenon
    <3>2. CASE i # m + 1
      <4>1. i \in 0 .. m /\ g[i] = f[i] /\ (i # 0 => g[i - 1] = f[i - 1])
        BY <3>2
      <4>2. f[i] = Body(f, i)
        BY <2>1, <4>1
      <4> QED
        BY <4>1, <4>2, Zenon
    <3> QED
      BY <3>1, <3>2, Zenon
  <2>3. DOMAIN g = 0 .. m + 1 /\ g = [i \in 0 .. m + 1 |-> g[i]]
    BY Zenon
  <2> HIDE DEF g
  <2>4. Sol(g, m + 1)
    BY <2>2, <2>3, Zenon
  <2> QED
    BY <2>4
<1> HIDE DEF T
<1>4. N \in T
  BY <1>2, <1>3, SetInduction
<1>5. Sol(Out, N)
  BY <1>4, Zenon DEF T
<1> HIDE DEF Out
<1>6. Out[0] = <<>> /\ \A i \in 1 .. N : Out[i] = Took(Out[i - 1], archs[i])
  BY <1>5
<1> QED
  BY <1>1, <1>6, Zenon

\* What Distinct returns holds what it was given, each once.
LEMMA DistinctIs ==
  ASSUME NEW archs, archs \in Seq(Range(archs))
  PROVE  LET out == Distinct(archs)
         IN  /\ out \in Seq(Range(out))
             /\ Range(out) = Range(archs)
             /\ \A i, j \in DOMAIN out : out[i] = out[j] => i = j
<1> DEFINE N == Len(archs)
           S == Range(archs)
           Once(s) == \A i, j \in 1 .. Len(s) : s[i] = s[j] => i = j
           Holds(s, m) == {s[i] : i \in 1 .. Len(s)} = {archs[i] : i \in 1 .. m}
<1>0. N \in Nat /\ DOMAIN archs = 1 .. N
  OBVIOUS
<1>1. PICK out :
        /\ Distinct(archs) = out[N]
        /\ out[0] = <<>>
        /\ \A i \in 1 .. N : out[i] = Took(out[i - 1], archs[i])
  BY <1>0, DistinctSteps, Zenon
<1> DEFINE Good(m) == out[m] \in Seq(S) /\ Once(out[m]) /\ Holds(out[m], m)
           T == {m \in Nat : m <= N => Good(m)}
<1>2. 0 \in T
  <2>1. Len(<< >>) = 0 /\ << >> \in Seq(S) /\ 1 .. 0 = {}
    OBVIOUS
  <2>2. Good(0)
    BY <1>1, <2>1, Zenon
  <2> QED
    BY <2>2, Zenon
<1>3. ASSUME NEW m \in Nat, m \in T PROVE m + 1 \in T
  <2> SUFFICES ASSUME m + 1 <= N PROVE Good(m + 1)
    <3> HIDE DEF Good
    <3> QED
      OBVIOUS
  <2> DEFINE s == out[m]
             a == archs[m + 1]
             t == out[m + 1]
  <2>0. m + 1 \in 1 .. N /\ m + 1 - 1 = m /\ m <= N
    BY <1>0
  <2>1. s \in Seq(S) /\ Once(s) /\ Holds(s, m) /\ a \in S
    <3>1. s \in Seq(S) /\ Once(s) /\ Holds(s, m)
      BY <1>3, <2>0, Zenon
    <3>2. a \in S
      BY <1>0, <2>0, Zenon DEF Range
    <3> QED
      BY <3>1, <3>2, Zenon
  <2>2. t = IF \E i \in 1 .. Len(s) : s[i] = a THEN s ELSE Append(s, a)
    <3>1. t = Took(s, a)
      <4>1. \A i \in 1 .. N : out[i] = Took(out[i - 1], archs[i])
        BY <1>1
      <4> QED
        BY <2>0, <4>1
    <3>2. DOMAIN s = 1 .. Len(s)
      BY <2>1
    <3>3. a \in Range(s) <=> \E i \in 1 .. Len(s) : s[i] = a
      BY <3>2, Zenon DEF Range
    <3> QED
      BY <3>1, <3>3, Zenon DEF Took
  <2>3. {archs[i] : i \in 1 .. m + 1} = {archs[i] : i \in 1 .. m} \cup {a}
    <3>1. 1 .. m + 1 = 1 .. m \cup {m + 1}
      OBVIOUS
    <3> QED
      BY <3>1
  <2> HIDE DEF s, a, t
  <2>4. CASE \E i \in 1 .. Len(s) : s[i] = a
    <3>1. t = s
      BY <2>2, <2>4
    <3>2. Holds(t, m + 1)
      <4>1. a \in {s[i] : i \in 1 .. Len(s)}
        BY <2>4
      <4>2. {s[i] : i \in 1 .. Len(s)} = {archs[i] : i \in 1 .. m + 1}
        BY <2>1, <2>3, <4>1, Zenon
      <4> QED
        BY <3>1, <4>2, Zenon
    <3>3. Once(t)
      BY <2>1, <3>1, Zenon
    <3> QED
      BY <2>1, <3>1, <3>2, <3>3, Zenon DEF t
  <2>5. CASE \A i \in 1 .. Len(s) : s[i] # a
    <3>1. t = Append(s, a)
      BY <2>2, <2>5
    <3>2. /\ Len(t) = Len(s) + 1 /\ Len(s) \in Nat /\ t[Len(s) + 1] = a
          /\ \A i \in 1 .. Len(s) : t[i] = s[i]
      BY <2>1, <3>1
    <3>3. 1 .. Len(t) = 1 .. Len(s) \cup {Len(s) + 1}
      BY <3>2
    <3>4. Once(t)
      BY <2>1, <2>5, <3>2, <3>3
    <3>5. {t[i] : i \in 1 .. Len(t)} = {s[i] : i \in 1 .. Len(s)} \cup {a}
      BY <3>2, <3>3
    <3>6. Holds(t, m + 1)
      BY <2>1, <2>3, <3>5, Zenon
    <3>7. t \in Seq(S)
      BY <2>1, <3>1
    <3> QED
      BY <3>4, <3>6, <3>7, Zenon DEF t
  <2> QED
    BY <2>4, <2>5, Zenon
<1> HIDE DEF T
<1>4. N \in T
  BY <1>0, <1>2, <1>3, SetInduction
<1> DEFINE d == Distinct(archs)
<1>5. d \in Seq(S) /\ Once(d) /\ Holds(d, N)
  <2>1. Good(N)
    <3> HIDE DEF Good
    <3>1. N <= N
      BY <1>0
    <3> QED
      BY <1>4, <3>1, Zenon DEF T
  <2>2. d = out[N]
    BY <1>1
  <2> HIDE DEF d
  <2> QED
    BY <2>1, <2>2
<1> HIDE DEF d
<1>6. DOMAIN d = 1 .. Len(d) /\ DOMAIN archs = 1 .. N /\ Len(d) \in Nat
  BY <1>0, <1>5
<1>7. Range(d) = Range(archs)
  BY <1>5, <1>6, Zenon DEF Range
<1>8. d \in [1 .. Len(d) -> Range(d)]
  BY <1>5, <1>6 DEF Range
<1>9. d \in Seq(Range(d))
  BY <1>6, <1>8
<1> QED
  BY <1>5, <1>6, <1>7, <1>9 DEF d

\* The devices a unit is compiled for are the ones named, once each and all of
\* one vendor.
LEMMA ArchsWhole ==
  ASSUME cfg \in Configs, NEW lang \in {"cuda", "hip"}, offloadArchs(lang) # <<>>
  PROVE  LET archs == offloadArchs(lang)
             got == {archs[j] : j \in DOMAIN archs}
             named == {cfg.archs[j] : j \in DOMAIN cfg.archs}
         IN  /\ got = IF named = {} THEN {"sm_52"} ELSE named
             /\ Len(archs) = Cardinality(got)
             /\ Cardinality({VendorOf[a] : a \in got}) = 1
<1> DEFINE out == Distinct(cfg.archs)
           archs == offloadArchs(lang)
           got == {archs[j] : j \in DOMAIN archs}
           named == {cfg.archs[j] : j \in DOMAIN cfg.archs}
<1>1. /\ out \in Seq(Range(out)) /\ Range(out) = Range(cfg.archs)
      /\ \A i, j \in DOMAIN out : out[i] = out[j] => i = j
  <2>1. cfg.archs \in Seq(Range(cfg.archs))
    BY ConfigsAssumption, Zenon
  <2> QED
    BY <2>1, DistinctIs
<1>2. archs = namedArchs(lang) /\ lang # "metal" /\ archs # <<>>
  BY Zenon DEF offloadArchs
<1>3. Len(out) \in Nat /\ DOMAIN out = 1 .. Len(out) /\ (Len(out) = 0 <=> out = <<>>)
  BY <1>1
<1>4. {out[j] : j \in DOMAIN out} = named
  BY <1>1, Zenon DEF Range
<1> HIDE DEF out
<1>5. CASE out = <<>>
  <2>1. archs = <<"sm_52">>
    BY <1>2, <1>5, Zenon DEF namedArchs, out
  <2>2. named = {}
    <3>1. DOMAIN out = {}
      BY <1>3, <1>5
    <3> QED
      BY <1>4, <3>1, Zenon
  <2> HIDE DEF archs
  <2>3. DOMAIN archs = {1} /\ archs[1] = "sm_52" /\ Len(archs) = 1
    BY <2>1
  <2>4. got = {"sm_52"} /\ {VendorOf[a] : a \in got} = {VendorOf["sm_52"]}
    BY <2>3
  <2>5. Cardinality({"sm_52"}) = 1 /\ Cardinality({VendorOf["sm_52"]}) = 1
    BY FS_Singleton, Zenon
  <2> QED
    BY <2>2, <2>3, <2>4, <2>5, Zenon DEF archs
<1>6. CASE out # <<>>
  <2>1. archs = out /\ \A i \in DOMAIN out : VendorOf[out[i]] = VendorOf[out[1]]
    BY <1>2, <1>6, Zenon DEF namedArchs, out
  <2> HIDE DEF archs
  <2>2. got = named
    BY <1>4, <2>1, Zenon
  <2>3. 1 \in DOMAIN out /\ out[1] \in got
    BY <1>3, <1>6, <2>1
  <2>4. named # {}
    BY <2>2, <2>3, Zenon
  <2>5. Len(out) = Cardinality(got)
    <3> DEFINE I == 1 .. Len(out)
    <3>1. IsFiniteSet(I) /\ Cardinality(I) = Len(out)
      <4>1. Len(out) \in Int /\ 1 \in Int
        BY <1>3
      <4>2. Cardinality(I) = IF 1 > Len(out) THEN 0 ELSE Len(out) - 1 + 1
        BY <4>1, FS_Interval, Zenon
      <4>3. IsFiniteSet(I)
        BY <4>1, FS_Interval, Zenon
      <4> QED
        BY <1>3, <4>2, <4>3
    <3>2. got = {out[j] : j \in I}
      BY <1>3, <2>1, Zenon
    <3> HIDE DEF I
    <3> DEFINE f == [j \in I |-> out[j]]
    <3>3. f \in Bijection(I, got)
      <4>1. f \in [I -> got]
        BY <3>2, Zenon
      <4>2. \A i, j \in I : f[i] = f[j] => i = j
        BY <1>1, <1>3 DEF I
      <4>3. \A a \in got : \E j \in I : f[j] = a
        BY <3>2
      <4> HIDE DEF f
      <4> QED
        BY <4>1, <4>2, <4>3 DEF Bijection, Injection, Surjection, IsInjective
    <3> QED
      BY <3>1, <3>3, FS_Bijection, Zenon DEF ExistsBijection
  <2>6. {VendorOf[a] : a \in got} = {VendorOf[out[1]]}
    <3>1. \A a \in got : VendorOf[a] = VendorOf[out[1]]
      BY <2>1, Zenon
    <3> QED
      BY <2>3, <3>1, Zenon
  <2>7. Cardinality({VendorOf[out[1]]}) = 1
    BY FS_Singleton, Zenon
  <2> QED
    BY <2>1, <2>2, <2>4, <2>5, <2>6, <2>7, Zenon DEF archs
<1> QED
  BY <1>5, <1>6, Zenon

\* A host object of an offload unit carries an image for each device of the
\* unit; so do the images of a unit whose own pass is next, and those of a unit
\* whose device passes are running are the first of them.
Images(l, ims) == embedsImages(l) => ims = offloadArchs(l) /\ ims # <<>>

Carries(o) ==
  o.pass = "host" =>
    LET l == language(cfg.inputs[o.of])
    IN  l \in Langs /\ ~devicePass(l) /\ Images(l, o.images)

FirstOf(ims, archs) ==
  /\ ims \in Seq(Range(ims)) /\ Len(ims) < Len(archs)
  /\ \A j \in 1 .. Len(ims) : ims[j] = archs[j]

Carried ==
  /\ \A i \in DOMAIN objects : Carries(objects[i])
  /\ pc = "device" => FirstOf(images, offloadArchs(language(input)))
  /\ pc = "pass" => Images(language(input), images)

\* The devices of a unit are a sequence.
LEMMA ArchsSeq ==
  ASSUME cfg \in Configs, NEW lang
  PROVE  offloadArchs(lang) \in Seq(Range(offloadArchs(lang)))
<1> DEFINE archs == offloadArchs(lang)
           out == Distinct(cfg.archs)
<1>1. cfg.archs \in Seq(Range(cfg.archs))
  BY ConfigsAssumption, Zenon
<1>2. out \in Seq(Range(out))
  BY <1>1, DistinctIs
<1>3. namedArchs(lang) \in {<<>>, <<"apple7">>, <<"sm_52">>, out}
  BY Zenon DEF namedArchs
<1> HIDE DEF out
<1>4. archs \in {<<>>, namedArchs(lang)}
  BY Zenon DEF offloadArchs
<1>5. archs \in {<<>>, <<"apple7">>, <<"sm_52">>, out}
  BY <1>3, <1>4, Zenon
<1> HIDE DEF archs
<1>6. archs \in Seq(Range(archs))
  <2>1. CASE archs = <<>>
    BY <2>1
  <2>2. ASSUME NEW a, archs = <<a>> PROVE archs \in Seq(Range(archs))
    <3>1. DOMAIN archs = {1} /\ archs[1] = a
      BY <2>2
    <3>2. a \in Range(archs)
      BY <3>1 DEF Range
    <3> QED
      BY <2>2, <3>2
  <2>3. CASE archs = out
    BY <1>2, <2>3
  <2> QED
    BY <1>5, <2>1, <2>2, <2>3, Zenon
<1> QED
  BY <1>6 DEF archs

\* What is said of an invocation's languages and devices does not change.
LEMMA SameDevices ==
  ASSUME cfg' = cfg
  PROVE  /\ \A in : language(in)' = language(in)
         /\ \A l : devicePass(l)' = devicePass(l)
         /\ \A l : embedsImages(l)' = embedsImages(l)
         /\ \A l : offloadArchs(l)' = offloadArchs(l)
<1>1. \A in : language(in)' = language(in)
  BY DEF language
<1>2. \A l : devicePass(l)' = devicePass(l)
  BY Zenon DEF devicePass
<1>3. \A l : embedsImages(l)' = embedsImages(l)
  BY <1>2, Zenon DEF embedsImages
<1>4. \A l : namedArchs(l)' = namedArchs(l)
  BY Zenon DEF namedArchs
<1>5. \A l : offloadArchs(l)' = offloadArchs(l)
  BY <1>4, Zenon DEF offloadArchs
<1> QED
  BY <1>1, <1>2, <1>3, <1>5

\* ... nor what is said of an object or of images.
LEMMA SameCarries ==
  ASSUME cfg' = cfg
  PROVE  /\ \A o : Carries(o) => Carries(o)'
         /\ \A l, ims : Images(l, ims) => Images(l, ims)'
<1>1. \A l, ims : Images(l, ims)' <=> Images(l, ims)
  BY SameDevices, Zenon DEF Images
<1>2. \A o : Carries(o)' <=> Carries(o)
  BY <1>1, SameDevices, Zenon DEF Carries
<1> QED
  BY <1>1, <1>2

\* A step that makes no object, and starts or goes on with no unit.
LEMMA CarriedKept ==
  ASSUME Carried, UNCHANGED <<cfg, objects>>,
         \/ pc' \notin {"device", "pass"}
         \/ UNCHANGED <<pc, n, images>>
  PROVE  Carried'
<1>1. \A i \in DOMAIN objects' : Carries(objects[i])' /\ objects'[i] = objects[i]
  BY SameCarries DEF Carried
<1>2. CASE pc' \notin {"device", "pass"}
  BY <1>1, <1>2 DEF Carried
<1>3. CASE UNCHANGED <<pc, n, images>>
  <2>1. input' = input /\ language(input)' = language(input)
    BY <1>3, SameDevices DEF input
  <2>2. pc' = "device" => FirstOf(images', offloadArchs(language(input))')
    BY <1>3, <2>1, SameDevices DEF Carried
  <2>3. pc' = "pass" => Images(language(input), images)'
    BY <1>3, <2>1, SameCarries DEF Carried
  <2> QED
    BY <1>1, <2>2, <2>3 DEF Carried
<1> QED
  BY <1>2, <1>3

\* A step that appends an object.
LEMMA CarriedAppend ==
  ASSUME Carried, Lined, cfg' = cfg, NEW o, objects' = Append(objects, o), Carries(o),
         pc' \notin {"device", "pass"}
  PROVE  Carried'
<1>1. /\ objects' \in Seq(Range(objects')) /\ Len(objects) \in Nat
      /\ Len(objects') = Len(objects) + 1
      /\ objects'[Len(objects) + 1] = o
      /\ \A i \in 1..Len(objects) : objects'[i] = objects[i]
  BY AppendAny DEF Lined
<1>2. DOMAIN objects' = 1 .. Len(objects) + 1 /\ DOMAIN objects = 1 .. Len(objects)
  BY <1>1 DEF Lined
<1>3. \A i \in DOMAIN objects' : Carries(objects'[i])
  BY <1>1, <1>2 DEF Carried
<1>4. \A i \in DOMAIN objects' : Carries(objects[i])'
  BY <1>3, SameCarries, Zenon
<1> QED
  BY <1>4, Zenon DEF Carried

\* A unit's passes are chosen.
LEMMA StartSourceCarried == ASSUME BInv, Carried, StartSource PROVE Carried'
<1>1. CASE Fail("arch")
  BY <1>1, CarriedKept DEF Fail, build
<1>2. CASE ~Fail("arch")
  <2> DEFINE l == language(input)
  <2>1. /\ ~passFails(l) /\ images' = <<>>
        /\ pc' = IF embedsImages(l) THEN "device" ELSE "pass"
        /\ UNCHANGED <<cfg, n, objects>>
    BY <1>2, Zenon DEF StartSource
  <2>2. \A i \in DOMAIN objects' : Carries(objects[i])'
    BY <2>1, SameCarries, Zenon DEF Carried
  <2>3. language(input)' = l /\ offloadArchs(l)' = offloadArchs(l)
    BY <2>1, SameDevices DEF input
  <2>4. pc' = "device" => FirstOf(images', offloadArchs(l))
    <3> SUFFICES ASSUME embedsImages(l) PROVE FirstOf(<<>>, offloadArchs(l))
      BY <2>1
    <3>1. offloadArchs(l) # <<>>
      BY <2>1, Zenon DEF passFails, embedsImages
    <3> DEFINE archs == offloadArchs(l)
    <3>2. archs \in Seq(Range(archs)) /\ archs # <<>>
      BY <3>1, ArchsSeq DEF BInv, Lined
    <3> HIDE DEF archs
    <3>3. Len(archs) > 0
      BY <3>2
    <3>4. FirstOf(<<>>, archs)
      BY <3>3 DEF FirstOf
    <3> QED
      BY <3>4 DEF archs
  <2>5. pc' = "pass" => Images(language(input), images)'
    <3> SUFFICES ASSUME ~embedsImages(l) PROVE Images(language(input), images)'
      BY <2>1
    <3>1. Images(l, images')
      BY Zenon DEF Images
    <3> QED
      BY <2>1, <2>3, <3>1, SameCarries, Zenon
  <2>6. pc' = "device" => FirstOf(images, offloadArchs(language(input)))'
    BY <2>1, <2>3, <2>4, SameDevices, Zenon
  <2> QED
    BY <2>2, <2>5, <2>6, Zenon DEF Carried
<1> QED
  BY <1>1, <1>2

\* One more device's image.
LEMMA DevicePassCarried == ASSUME BInv, Carried, DevicePass PROVE Carried'
<1>1. CASE Fail("device pass")
  BY <1>1, CarriedKept, Zenon DEF Fail, build
<1>2. CASE ~Fail("device pass")
  <2> DEFINE l == language(input)
             archs == offloadArchs(l)
  <2>1. /\ images' = Append(images, archs[Len(images) + 1])
        /\ pc' = (IF Len(images) + 1 = Len(archs) THEN "pass" ELSE "device")
        /\ UNCHANGED <<cfg, n, objects>> /\ pc = "device"
    BY <1>2, Zenon DEF DevicePass
  <2>2. \A i \in DOMAIN objects' : Carries(objects[i])'
    BY <2>1, SameCarries DEF Carried
  <2>3. language(input)' = l /\ offloadArchs(language(input))' = archs
    BY <2>1, SameDevices DEF input
  <2>4. FirstOf(images, archs)
    BY <2>1 DEF Carried
  <2>5. archs \in Seq(Range(archs))
    BY ArchsSeq DEF BInv, Lined
  <2> HIDE DEF archs
  <2>6. /\ images' \in Seq(Range(images')) /\ Len(images) \in Nat
        /\ Len(images') = Len(images) + 1
        /\ images'[Len(images) + 1] = archs[Len(images) + 1]
        /\ \A j \in 1 .. Len(images) : images'[j] = images[j]
    BY <2>1, <2>4, AppendAny DEF FirstOf
  <2>7. Len(images') <= Len(archs) /\ \A j \in 1 .. Len(images') : images'[j] = archs[j]
    BY <2>4, <2>5, <2>6 DEF FirstOf
  <2>8. CASE Len(images) + 1 = Len(archs)
    <3>1. Len(images') = Len(archs)
      BY <2>6, <2>8
    <3>2. images' = archs
      BY <2>5, <2>6, <2>7, <3>1
    <3>3. images' # <<>> /\ pc' = "pass"
      BY <2>1, <2>6, <2>8
    <3>4. Images(l, images')
      BY <3>2, <3>3, Zenon DEF Images, archs
    <3>5. Images(language(input), images)'
      BY <2>1, <2>3, <3>4, SameCarries, Zenon
    <3>6. pc' # "device"
      BY <3>3
    <3> QED
      BY <2>2, <3>5, <3>6, Zenon DEF Carried
  <2>9. CASE Len(images) + 1 # Len(archs)
    <3>1. Len(images') < Len(archs)
      BY <2>5, <2>6, <2>7, <2>9
    <3>2. FirstOf(images', archs) /\ pc' = "device"
      BY <2>1, <2>6, <2>7, <2>9, <3>1 DEF FirstOf
    <3>3. pc' # "pass" /\ FirstOf(images, offloadArchs(language(input)))'
      BY <2>3, <3>2
    <3> QED
      BY <2>2, <3>3, Zenon DEF Carried
  <2> QED
    BY <2>8, <2>9
<1> QED
  BY <1>1, <1>2, Zenon

\* A unit's object takes the images made for it.
LEMMA OwnPassCarried == ASSUME BInv, Carried, OwnPass PROVE Carried'
<1>1. CASE Fail("pass")
  BY <1>1, CarriedKept DEF Fail, build
<1>2. CASE ~Fail("pass")
  <2> DEFINE l == language(input)
             o == [name |-> objectName(input), of |-> n + 1, images |-> images,
                   pass |-> IF devicePass(l) THEN "device" ELSE "host"]
  <2>1. /\ objects' = Append(objects, o) /\ cfg' = cfg /\ pc = "pass" /\ pc' = "input"
    BY <1>2 DEF OwnPass
  <2>2. Images(l, images)
    BY <2>1 DEF Carried
  <2>3. l \in Langs
    BY InputsSeq, Zenon DEF BInv, Lined, language, languageOf, ParseLanguage, ExtLanguage, Langs
  <2>4. /\ o.of = n + 1 /\ o.images = images
        /\ o.pass = "host" => ~devicePass(l)
    BY Zenon
  <2>5. cfg.inputs[o.of] = input
    BY <2>4 DEF input
  <2> HIDE DEF o
  <2>6. Carries(o)
    BY <2>2, <2>3, <2>4, <2>5, Zenon DEF Carries
  <2>7. Lined
    BY DEF BInv
  <2> QED
    BY <2>1, <2>6, <2>7, CarriedAppend
<1> QED
  BY <1>1, <1>2

\* The other steps.
LEMMA OtherCarried ==
  ASSUME BInv, Carried, [Next]_vars, ~StartSource, ~DevicePass, ~OwnPass
  PROVE  Carried'
<1> USE DEF build
<1>1. ASSUME NEW why, Fail(why) PROVE Carried'
  BY <1>1, CarriedKept DEF Fail
<1>2. ASSUME NEW path, FailWrite(path) PROVE Carried'
  BY <1>2, CarriedKept DEF FailWrite
<1>3. ASSUME NEW o, objects' = Append(objects, o), o.pass # "host", cfg' = cfg,
             pc' \notin {"device", "pass"}
      PROVE  Carried'
  <2>1. Carries(o) /\ Lined
    BY <1>3 DEF Carries, BInv
  <2> QED
    BY <1>3, <2>1, CarriedAppend, Zenon
<1>4. CASE MkdirTemp
  BY <1>1, <1>4, CarriedKept, Zenon DEF MkdirTemp
<1>5. CASE Start \/ AllCompiled
  BY <1>1, <1>5, CarriedKept DEF Start, AllCompiled
<1>6. CASE PrebuiltObject
  <2>1. CASE notCXX(input)
    BY <1>1, <1>6, <2>1, Zenon DEF PrebuiltObject
  <2>2. CASE ~notCXX(input)
    <3> DEFINE o == [name |-> <<input.stem, input.ext>>, of |-> n + 1, pass |-> "given",
                     images |-> <<>>]
    <3>1. objects' = Append(objects, o) /\ cfg' = cfg /\ pc = "input" /\ pc' = pc
      BY <1>6, <2>2 DEF PrebuiltObject
    <3>2. o.pass # "host"
      BY Zenon
    <3> HIDE DEF o
    <3> QED
      BY <1>3, <3>1, <3>2
  <2> QED
    BY <2>1, <2>2
<1>7. CASE WriteObject
  BY <1>2, <1>7, CarriedKept, Zenon DEF WriteObject
<1>8. CASE AllWritten
  BY <1>8, CarriedKept DEF AllWritten, Built
<1>9. CASE MergeMetallibs
  BY <1>1, <1>2, <1>9, CarriedKept DEF MergeMetallibs, Built
<1>10. ASSUME NEW lang \in {"cuda", "hip"}, NEW next \in {"hiprt", "link"},
              RuntimeObject(lang, next)
       PROVE  Carried'
  <2>1. CASE Fail("runtime")
    BY <1>1, <2>1
  <2>2. CASE ~Fail("runtime")
    <3> DEFINE o == [name |-> <<"vcx_rt", lang>>, of |-> 0, pass |-> lang, images |-> <<>>]
    <3>1. objects' = Append(objects, o) /\ cfg' = cfg /\ pc' = next
      BY <1>10, <2>2, Zenon DEF RuntimeObject
    <3>2. o.pass # "host"
      OBVIOUS
    <3> HIDE DEF o
    <3> QED
      BY <1>3, <3>1, <3>2
  <2> QED
    BY <2>1, <2>2
<1>11. CASE LinkCUDA
  BY <1>1, <1>10, <1>11, CarriedKept DEF LinkCUDA
<1>12. CASE LinkHIP
  BY <1>1, <1>10, <1>12, CarriedKept DEF LinkHIP
<1>13. CASE Link
  BY <1>1, <1>2, <1>13, CarriedKept DEF Link, Built
<1>14. CASE Exec
  BY <1>14, CarriedKept DEF Exec
<1>15. CASE Return
  BY <1>15, CarriedKept DEF Return, ExitSteps, StopFirst
<1>16. CASE MainDeferred
  BY <1>16, AfterStep, CarriedKept, Zenon DEF MainDeferred
<1>17. CASE MainExit \/ Terminate \/ SignalStep \/ SignalExit
  BY <1>17, CarriedKept DEF MainExit, Terminate, SignalStep, SignalExit
<1>18. CASE Ended \/ UNCHANGED vars
  BY <1>18, CarriedKept DEF Ended, vars
<1> QED
  BY <1>4, <1>5, <1>6, <1>7, <1>8, <1>9, <1>11, <1>12, <1>13, <1>14, <1>15, <1>16, <1>17, <1>18,
     ZenonT(30) DEF Next

\* device.go:202 -- for any devices named, in any order and however often, the
\* host object of an offload unit carries one image for each of them, and they
\* are all of one vendor.
THEOREM FatBinaryAlwaysWhole == Spec => []FatBinaryWhole
<1>1. Init => Carried
  <2> SUFFICES ASSUME Init PROVE Carried
    OBVIOUS
  <2>1. DOMAIN objects = {} /\ pc = "start"
    BY DEF Init
  <2> QED
    BY <2>1 DEF Carried
<1>2. BInv /\ Carried /\ [Next]_vars => Carried'
  BY StartSourceCarried, DevicePassCarried, OwnPassCarried, OtherCarried
<1>3. BInv /\ Carried => FatBinaryWhole
  <2> SUFFICES ASSUME BInv, Carried, NEW i \in DOMAIN objects, objects[i].pass = "host",
                      ~host(language(cfg.inputs[objects[i].of])), ~cfg.hostOnly
               PROVE  LET ims == objects[i].images
                          got == {ims[j] : j \in DOMAIN ims}
                          named == {cfg.archs[j] : j \in DOMAIN cfg.archs}
                      IN  /\ got = IF named = {} THEN {"sm_52"} ELSE named
                          /\ Len(ims) = Cardinality(got)
                          /\ Cardinality({VendorOf[a] : a \in got}) = 1
    BY Zenon DEF FatBinaryWhole
  <2> DEFINE l == language(cfg.inputs[objects[i].of])
  <2>1. l \in Langs /\ ~devicePass(l) /\ Images(l, objects[i].images)
    BY Zenon DEF Carried, Carries
  <2>2. embedsImages(l)
    BY <2>1, Zenon DEF embedsImages
  <2>3. objects[i].images = offloadArchs(l) /\ offloadArchs(l) # <<>>
    BY <2>1, <2>2, Zenon DEF Images
  <2>4. l \in {"cuda", "hip"}
    BY <2>1 DEF Langs, host, devicePass
  <2>5. cfg \in Configs
    BY DEF BInv, Lined
  <2> HIDE DEF l
  <2>6. LET archs == offloadArchs(l)
            got == {archs[j] : j \in DOMAIN archs}
            named == {cfg.archs[j] : j \in DOMAIN cfg.archs}
        IN  /\ got = IF named = {} THEN {"sm_52"} ELSE named
            /\ Len(archs) = Cardinality(got)
            /\ Cardinality({VendorOf[a] : a \in got}) = 1
    BY <2>3, <2>4, <2>5, ArchsWhole, Zenon
  <2> QED
    BY <2>3, <2>6, Zenon
<1> QED
  BY <1>1, <1>2, <1>3, BuildInvariance, PTL DEF Spec

=============================================================================
