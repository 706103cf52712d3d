---------------------------- MODULE BuildDriver ----------------------------
(***************************************************************************)
(* One `v++ build` or `v++ run`: Compiler.Build over its inputs, the device *)
(* and host passes of each, the offload runtimes, the link or the objects   *)
(* written, and Run's temporary directory.  build.go, compiler.go,          *)
(* device.go, metal.go, link.go, toolkit.go.                                *)
(*                                                                         *)
(* A pass, a write and a link may fail; what they compute is abstracted to  *)
(* which input, pass and images a result holds.                             *)
(***************************************************************************)
EXTENDS Naturals, Sequences, FiniteSets, Functions

CONSTANTS Configs,    \* the invocations to build
          Ident,      \* a file's stem as the identifier moduleName makes of it
          VendorOf,   \* device architecture -> "nvidia", "amd" or "apple"
          None

Langs == {"cxx", "objcxx", "cuda", "hip", "metal"}

ASSUME ConfigsAssumption ==
  \A c \in Configs :
    /\ c.inputs \in Seq(Range(c.inputs)) /\ c.archs \in Seq(Range(c.archs))
    /\ c.x \in {""} \cup Langs
    /\ c.run \in BOOLEAN /\ c.profile \in BOOLEAN /\ c.compileOnly \in BOOLEAN
    /\ c.deviceOnly \in BOOLEAN
ASSUME NoneAssumption == None # "ok"

VARIABLES cfg,      \* the Compiler's fields, the BuildParams and the environment
          pc,
          n,        \* inputs compiled so far
          images,   \* device images of the input being compiled
          objects,  \* Build's objects
          offload,  \* the offload languages met
          w,        \* objects written so far
          files,    \* what the build has written: path -> contents
          tmp,      \* Run's temporary directory exists
          result,   \* None, "ok" or why the build failed
          prof,     \* the CPU profile: "off", "on", "whole" or "lost"
          open,     \* the profile's file is open
          sig,      \* the signal goroutine
          exit      \* None, or the status the process ended with

build == <<cfg, n, images, objects, offload, w, files, tmp>>
process == <<prof, open, sig, exit>>
vars == <<build, pc, result, process>>

-----------------------------------------------------------------------------
(* Languages and devices: input.go, device.go *)

\* An input is [dir, stem, rest, ext, registers]: base name stem.rest.ext, and
\* for an object the fat binary registrations its symbol table names.
ExtLanguage(ext) ==
  CASE ext = "cu" -> "cuda" [] ext = "hip" -> "hip" [] ext = "metal" -> "metal"
    [] ext = "mm" -> "objcxx" [] OTHER -> "cxx"

isSource(in) == in.ext \in {"cpp", "mm", "cu", "hip", "metal"}
notCXX(in) == in.ext = "c"

\* -x unset and -x c++ are the same Compiler.Language.
ParseLanguage(x) == IF x = "" THEN "cxx" ELSE x

languageOf(x, in) ==
  IF ParseLanguage(x) # "cxx" THEN ParseLanguage(x) ELSE ExtLanguage(in.ext)
language(in) == languageOf(cfg.x, in)

host(lang) == lang \in {"cxx", "objcxx"}

DistinctRepeats(archs) == archs

\* The devices named, each at its first mention.
Took(before, arch) == IF arch \in Range(before) THEN before ELSE Append(before, arch)
Distinct(archs) ==
  LET out[i \in 0..Len(archs)] == IF i = 0 THEN <<>> ELSE Took(out[i - 1], archs[i])
  IN  out[Len(archs)]

\* namedArchs: <<>> where the code reports an error.
namedArchs(lang) ==
  LET out == Distinct(cfg.archs)
  IN  IF out = <<>>
      THEN IF lang = "hip" THEN <<>> ELSE IF lang = "metal" THEN <<"apple7">> ELSE <<"sm_52">>
      ELSE IF \E i \in DOMAIN out : VendorOf[out[i]] # VendorOf[out[1]] THEN <<>> ELSE out

offloadArchs(lang) ==
  LET archs == namedArchs(lang)
      apple == {i \in DOMAIN archs : VendorOf[archs[i]] = "apple"}
  IN  IF lang = "metal" THEN IF Len(archs) = 1 /\ apple = {1} THEN archs ELSE <<>>
      ELSE IF apple = {} THEN archs ELSE <<>>

passFails(lang) == ~host(lang) /\ offloadArchs(lang) = <<>>
devicePass(lang) == lang = "metal" \/ (~host(lang) /\ cfg.deviceOnly)
embedsImages(lang) == ~host(lang) /\ ~devicePass(lang) /\ ~cfg.hostOnly

input == cfg.inputs[n + 1]
metal == {i \in DOMAIN cfg.inputs :
            isSource(cfg.inputs[i]) /\ language(cfg.inputs[i]) = "metal"}

\* moduleName and objectExt, or metallibName.
objectName(in) ==
  IF metal # {} THEN <<in.stem, in.rest, "metallib">>
  ELSE <<Ident[in.stem], IF devicePass(language(in)) THEN "image" ELSE "o">>

-----------------------------------------------------------------------------

Init ==
  /\ cfg \in Configs
  /\ pc = "start"
  /\ n = 0 /\ images = <<>> /\ objects = <<>> /\ offload = {} /\ w = 0
  /\ files = [p \in {} |-> None]
  /\ tmp = FALSE
  /\ result = None
  /\ prof = IF cfg.profile THEN "on" ELSE "off"
  /\ open = cfg.profile
  /\ sig = "waiting"
  /\ exit = None

Running == exit = None
Stay == UNCHANGED <<result, process>>

Fail(why) ==
  /\ result' = why
  /\ pc' = "done"
  /\ UNCHANGED <<build, process>>

\* Run: a directory of its own before the build.
MkdirTemp ==
  /\ Running /\ pc = "start" /\ cfg.run /\ ~tmp
  /\ \/ /\ tmp' = TRUE
        /\ UNCHANGED <<cfg, pc, n, images, objects, offload, w, files>> /\ Stay
     \/ Fail("mkdir")

\* Build: no inputs, or .metal files beside others.
Start ==
  /\ Running /\ pc = "start" /\ (cfg.run => tmp)
  /\ IF cfg.inputs = <<>> \/ Cardinality(metal) \notin {0, Len(cfg.inputs)}
     THEN Fail("inputs")
     ELSE pc' = "input" /\ UNCHANGED build /\ Stay

RegistersCUDA(in) == in.registers \cap {"cuda"}
RegistersAny(in) == in.registers
registers(in) == RegistersAny(in)

\* An object built earlier: its symbol table says which runtimes it needs.
PrebuiltObject ==
  /\ Running /\ pc = "input" /\ n < Len(cfg.inputs)
  /\ ~isSource(input)
  /\ IF notCXX(input) THEN Fail("not C++")
     ELSE /\ objects' = Append(objects, [name |-> <<input.stem, input.ext>>, of |-> n + 1,
                                         pass |-> "given", images |-> <<>>])
          /\ offload' = offload \cup registers(input)
          /\ n' = n + 1
          /\ UNCHANGED <<cfg, pc, images, w, files, tmp>> /\ Stay

\* ir: the pass, and whether the device's run first.
StartSource ==
  /\ Running /\ pc = "input" /\ n < Len(cfg.inputs)
  /\ isSource(input)
  /\ IF passFails(language(input)) THEN Fail("arch")
     ELSE /\ pc' = IF embedsImages(language(input)) THEN "device" ELSE "pass"
          /\ images' = <<>>
          /\ UNCHANGED <<cfg, n, objects, offload, w, files, tmp>> /\ Stay

\* deviceImages: one pass for each architecture, until one fails.
DevicePass ==
  /\ Running /\ pc = "device"
  /\ LET archs == offloadArchs(language(input))
     IN  \/ Fail("device pass")
         \/ /\ images' = Append(images, archs[Len(images) + 1])
            /\ pc' = IF Len(images) + 1 = Len(archs) THEN "pass" ELSE "device"
            /\ UNCHANGED <<cfg, n, objects, offload, w, files, tmp>> /\ Stay

\* A Metal library needs no runtime; nor does an image written by itself.
needsRuntime(lang) == ~host(lang) /\ lang # "metal" /\ ~cfg.deviceOnly

\* irFor and emitObject of the input's own pass, and the object appended.
OwnPass ==
  /\ Running /\ pc = "pass"
  /\ \/ Fail("pass")
     \/ /\ objects' = Append(objects,
             [name |-> objectName(input), of |-> n + 1, images |-> images,
              pass |-> IF devicePass(language(input)) THEN "device" ELSE "host"])
        /\ offload' = offload \cup (IF needsRuntime(language(input))
                                    THEN {language(input)} ELSE {})
        /\ images' = <<>>
        /\ n' = n + 1
        /\ pc' = "input"
        /\ UNCHANGED <<cfg, w, files, tmp>> /\ Stay

\* Every input compiled: objects to write, libraries to merge, or a link.
AllCompiled ==
  /\ Running /\ pc = "input" /\ n = Len(cfg.inputs)
  /\ pc' = IF cfg.compileOnly THEN "write" ELSE IF metal # {} THEN "merge"
           ELSE IF cfg.deviceOnly THEN "write" ELSE "cudart"
  /\ UNCHANGED build /\ Stay

-----------------------------------------------------------------------------
(* Output: writeObjects, buildMetal, the runtimes and Link *)

output == IF cfg.run THEN <<"tmp", "a.out">>
          ELSE IF cfg.out THEN <<"out">>
          ELSE IF metal # {} THEN <<"default.metallib">> ELSE <<"a.out">>

objectPath(o) ==
  IF ~cfg.out THEN o.name ELSE IF Len(objects) = 1 THEN output ELSE output \o o.name

Put(path, kind, objs) ==
  [p \in DOMAIN files \cup {path} |->
     IF p = path THEN [kind |-> kind, objects |-> objs] ELSE files[p]]

FailWriteIgnored(path) ==
  /\ result' = "ok"
  /\ pc' = "done"
  /\ files' \in {files, Put(path, "partial", <<>>)}
  /\ UNCHANGED <<cfg, n, images, objects, offload, w, tmp, process>>

\* A write that fails may have made or truncated the file.
FailWrite(path) ==
  /\ result' = "write"
  /\ pc' = "done"
  /\ files' \in {files, Put(path, "partial", <<>>)}
  /\ UNCHANGED <<cfg, n, images, objects, offload, w, tmp, process>>

WriteObject ==
  /\ Running /\ pc = "write" /\ w < Len(objects)
  /\ LET o == objects[w + 1]
     IN  IF o.pass = "given"
         THEN w' = w + 1 /\ UNCHANGED <<cfg, pc, n, images, objects, offload, files, tmp>> /\ Stay
         ELSE \/ FailWrite(objectPath(o))
              \/ /\ files' = Put(objectPath(o), "object", <<o>>)
                 /\ w' = w + 1
                 /\ UNCHANGED <<cfg, pc, n, images, objects, offload, tmp>> /\ Stay

Built ==
  /\ pc' = IF cfg.run THEN "exec" ELSE "done"
  /\ result' = IF cfg.run THEN None ELSE "ok"
  /\ UNCHANGED process

AllWritten ==
  /\ Running /\ pc = "write" /\ w = Len(objects)
  /\ Built /\ UNCHANGED build

\* mergeMetallibs refuses a kernel defined twice; one library is written as it is.
MergeMetallibs ==
  /\ Running /\ pc = "merge"
  /\ \/ Len(objects) > 1 /\ Fail("merge")
     \/ FailWrite(output)
     \/ /\ files' = Put(output, "metallib", objects)
        /\ Built /\ UNCHANGED <<cfg, n, images, objects, offload, w, tmp>>

\* runtimeObject: a host-only unit of the language, which needs its device
\* architectures although it has no device pass.
RuntimeObject(lang, next) ==
  \/ Fail("runtime")
  \/ /\ ~passFails(lang)
     /\ objects' = Append(objects, [name |-> <<"vcx_rt", lang>>, of |-> 0,
                                    pass |-> lang, images |-> <<>>])
     /\ pc' = next
     /\ UNCHANGED <<cfg, n, images, offload, w, files, tmp>> /\ Stay

cudaRuntime ==
  IF cfg.cudart # "" THEN cfg.cudart ELSE IF cfg.toolkit THEN "static" ELSE "vcx"

LinkCUDA ==
  /\ Running /\ pc = "cudart"
  /\ IF "cuda" \notin offload \/ cudaRuntime = "none"
     THEN pc' = "hiprt" /\ UNCHANGED build /\ Stay
     ELSE IF cudaRuntime # "vcx" /\ ~cfg.toolkit THEN Fail("toolkit")
     ELSE RuntimeObject("cuda", "hiprt")

LinkHIP ==
  /\ Running /\ pc = "hiprt"
  /\ IF "hip" \notin offload
     THEN pc' = "link" /\ UNCHANGED build /\ Stay
     ELSE RuntimeObject("hip", "link")

LinkInPlace ==
  /\ Running /\ pc = "link"
  /\ \/ /\ result' = "link" /\ pc' = "done" /\ files' = Put(output, "partial", <<>>)
        /\ UNCHANGED <<cfg, n, images, objects, offload, w, tmp, process>>
     \/ /\ files' = Put(output, "executable", objects)
        /\ Built /\ UNCHANGED <<cfg, n, images, objects, offload, w, tmp>>

\* Link: the image is made in memory, and only then written.
Link ==
  /\ Running /\ pc = "link"
  /\ \/ Fail("link")
     \/ FailWrite(output)
     \/ /\ files' = Put(output, "executable", objects)
        /\ Built /\ UNCHANGED <<cfg, n, images, objects, offload, w, tmp>>

-----------------------------------------------------------------------------
(* Run's program and directory, and the process: build.go, main.go *)

Exec ==
  /\ Running /\ pc = "exec"
  /\ result' \in {"ok", "program"}
  /\ pc' = "done"
  /\ UNCHANGED <<build, process>>

ReturnNow ==
  /\ tmp' = FALSE
  /\ files' = IF cfg.run THEN [p \in {} |-> None] ELSE files

ReturnOnSuccess ==
  IF result = "ok" THEN ReturnNow ELSE UNCHANGED <<tmp, files>>

\* The return, and Run's deferred RemoveAll with it.
RemoveAll == ReturnNow

\* pprof.StopCPUProfile: the first call flushes, and a second waits for it.
StopCPUProfile ==
  prof' = IF prof # "on" THEN prof ELSE IF open THEN "whole" ELSE "lost"

StopFirst == <<"stop", "close", "exit">>
CloseFirst == <<"close", "stop", "exit">>

\* The order of main's deferred calls, and of the signal goroutine's.
ExitSteps == StopFirst

Return ==
  /\ Running /\ pc = "done"
  /\ RemoveAll
  /\ pc' = ExitSteps[1]
  /\ UNCHANGED <<cfg, n, images, objects, offload, w>> /\ Stay

After(step) == ExitSteps[(CHOOSE i \in 1..2 : ExitSteps[i] = step) + 1]

Deferred(step) ==
  IF step = "stop" THEN StopCPUProfile /\ open' = open
  ELSE open' = FALSE /\ prof' = prof

MainDeferred ==
  /\ Running /\ pc \in {"stop", "close"}
  /\ Deferred(pc)
  /\ pc' = After(pc)
  /\ UNCHANGED <<build, result, sig, exit>>

MainExit ==
  /\ Running /\ pc = "exit"
  /\ exit' = IF result = "ok" THEN 0 ELSE 1
  /\ UNCHANGED <<build, pc, result, prof, open, sig>>

\* SIGTERM, which only a profiled build catches.
Terminate ==
  /\ Running /\ cfg.profile /\ sig = "waiting"
  /\ sig' = ExitSteps[1]
  /\ UNCHANGED <<build, pc, result, prof, open, exit>>

SignalStep ==
  /\ Running /\ sig \in {"stop", "close"}
  /\ Deferred(sig)
  /\ sig' = After(sig)
  /\ UNCHANGED <<build, pc, result, exit>>

SignalExit ==
  /\ Running /\ sig = "exit"
  /\ exit' = 143
  /\ UNCHANGED <<build, pc, result, prof, open, sig>>

Ended == ~Running /\ UNCHANGED vars

Next ==
  \/ MkdirTemp \/ Start \/ PrebuiltObject \/ StartSource \/ DevicePass \/ OwnPass
  \/ AllCompiled \/ WriteObject \/ AllWritten \/ MergeMetallibs \/ LinkCUDA \/ LinkHIP
  \/ Link \/ Exec \/ Return \/ MainDeferred \/ MainExit
  \/ Terminate \/ SignalStep \/ SignalExit \/ Ended

Spec == Init /\ [][Next]_vars

-----------------------------------------------------------------------------
(* Properties *)

\* What Build's comments promise of the link line, said from the invocation
\* alone: an object for each input, in order, then each runtime that is needed.
Registers(i) ==
  LET in == cfg.inputs[i]
  IN  IF isSource(in) THEN {language(in)} \cap {"cuda", "hip"} ELSE in.registers
Needed == UNION {Registers(i) : i \in DOMAIN cfg.inputs}
Runtimes ==
  (IF "cuda" \in Needed /\ cudaRuntime # "none" THEN <<"cuda">> ELSE <<>>)
  \o (IF "hip" \in Needed THEN <<"hip">> ELSE <<>>)

Executables == {p \in DOMAIN files : files[p].kind = "executable"}

\* build.go:73 -- an executable holds one object of every input, in the order
\* given, and after them exactly one runtime for each offload language some
\* source or earlier object needs.
LinkLine ==
  \A p \in Executables :
    LET objs == files[p].objects
        k == Len(cfg.inputs)
    IN  /\ Len(objs) = k + Len(Runtimes)
        /\ \A i \in 1..k : objs[i].of = i
        /\ \A i \in 1..Len(Runtimes) : objs[k + i].pass = Runtimes[i]

\* device.go:202 -- an offload unit's host object carries an image for every
\* device named, once each and all of one vendor, whatever was named twice.
FatBinaryWhole ==
  \A i \in DOMAIN objects :
    LET o == objects[i]
        got == {o.images[j] : j \in DOMAIN o.images}
        named == {cfg.archs[j] : j \in DOMAIN cfg.archs}
    IN  (o.pass = "host" /\ ~host(language(cfg.inputs[o.of])) /\ ~cfg.hostOnly) =>
          /\ got = IF named = {} THEN {"sm_52"} ELSE named
          /\ Len(o.images) = Cardinality(got)
          /\ Cardinality({VendorOf[a] : a \in got}) = 1

\* A build that fails in its passes, its runtimes or its link has written
\* nothing: what fails late never leaves the work of what succeeded early.
FailureWritesNothing ==
  result \notin {None, "ok", "program", "write"} => DOMAIN files = {}

\* Build returns nil only when its outputs are on disk and whole: the executable
\* or library alone, or a file for each object compiled and no other.
SuccessIsComplete ==
  (result = "ok" /\ ~cfg.run) =>
     /\ \A p \in DOMAIN files : files[p].kind # "partial"
     /\ DOMAIN files =
          IF cfg.compileOnly \/ (cfg.deviceOnly /\ metal = {})
          THEN {objectPath(objects[i]) : i \in {j \in DOMAIN objects : objects[j].pass # "given"}}
          ELSE {output}

\* build.go:195 -- Run's directory is gone when Run has returned, whichever step
\* failed, unless a signal ended the process first.
TempRemoved == pc \in {"stop", "close", "exit"} => ~tmp /\ (cfg.run => DOMAIN files = {})

\* main.go:16 -- "A SIGTERM ends the build with the profile written": whichever
\* of main and the signal goroutine ends the process, the profile is whole.
ProfileWritten == exit # None /\ cfg.profile => prof = "whole"

\* build.go:126 -- "writes each object where -c and -o say", and docs/gpu.md:19
\* "-c makes one per file": a successful -c build leaves every object it made.
ObjectsSurvive ==
  (result = "ok" /\ cfg.compileOnly) =>
     \A i \in DOMAIN objects : objects[i].pass # "given" =>
        \E p \in DOMAIN files : files[p].objects = <<objects[i]>>
=============================================================================
