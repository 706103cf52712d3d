# Verification of vcx

TLA+ models of the parts of the vcx C++ compiler (`../src`) whose correctness
depends on the order of events: what its goroutines share, the stacks a pass
keeps, the ways out of a function it compiles, the life of its programs' static
objects, the runtime they link and the device functions its headers give them.
TLC checks each model on small instances; TLAPS proves the main facts about the
header cache, the directive walk, the build driver, static objects, the CUDA
runtime and the device functions for every instance. `PROJECT.json` lists the components, the runs, the
map from definitions to source lines, the hazards and the theorems.

## The system and its parts

A `v++` process takes sources and objects through these phases
(`docs/architecture.md`), each a package:

| part | package | modelled by |
|---|---|---|
| driver: inputs, device and host passes, runtimes, link, run, profile | root package, `cmd/v++` | `BuildDriver` (partly) |
| tokens, scanner, literals | `token`, `scanner`, `literal` | no: pure functions |
| preprocessor: the header cache the units of a build share | `preprocessor/cache.go`, `include.go` | `HeaderCache`, `HeaderStore` |
| preprocessor: the walk over files, conditionals, guards, imports | `preprocessor/{preprocessor,condition,directive,include,module}.go` | `IncludeWalk` (partly) |
| preprocessor: macro expansion, `#if` expressions, header search | `preprocessor/{expand,macro,eval}.go`, `sysroot` | no, planned |
| parser, syntax tree | `parser`, `ast` | no |
| semantic analysis, types, constant evaluation | `sema`, `types`, `constexpr` | no, two parts planned |
| control-flow graph: missing returns, unreachable code | `sema/cfg` | `FlowGraph` (partly) |
| lowering: objects, temporaries, exceptions | `lower/{stmt,dtor,eh,goto,switch,func,expr,op,record}.go` | `CleanupScopes` (partly) |
| lowering: static objects, static locals, what runs at exit | `lower/{init,itanium,stmt,lower}.go` | `StaticObjects` (partly) |
| lowering: kernel stubs, launches, registration | `lower/launch.go` | `CudaRuntime`, `CudaProgram` |
| lowering of expressions, virtual tables, Objective-C; mangling | `lower`, `mangle`, `objcrt` | no |
| device image containers | `offload` | `FatBinary` (the CUDA one) |
| runtime library for CUDA programs | `runtime/cuda` | `CudaRuntime` |
| runtime library for HIP programs | `runtime/hip` | no: it forwards to ROCm |
| device headers: reducing barriers, atomics, shuffles | `include/cuda`, `include/hip` | `DeviceBlock`, `DeviceCalls`, `WarpShuffle`, `DeviceKernel` (partly) |
| library headers | `include/linux` and the rest of `include` | no: declarations |
| command line, targets, predefined macros | `internal/cli`, tables | no: parsing and tables |
| back ends, linkers | other repositories | steps of `BuildDriver` that may fail |

How they meet: the driver compiles its inputs one after another; a program that
uses the packages as a library may preprocess units concurrently over one
`preprocessor.Cache` (`Compiler.Headers`; `concurrent_test.go` compiles so). Each unit opens headers through the
cache, and the walk decides which to open. `sema` asks `sema/cfg` of each
function body; `lower` lowers the bodies that passed. For a CUDA unit the driver
runs the device passes first and hands their images to the host pass, whose
`lower/launch.go` embeds them in the fat binary the runtime later searches. So
`HeaderCache` is `open` under `IncludeWalk`'s `IncludeFile`, `BuildDriver`'s
`images` are what `CudaRuntime` has in `Embeds`, and `CudaRuntime` extends
`FatBinary`, which has the writer of the container (Go) and its reader (C++).
A program's static objects and its device code meet twice: a unit's registration
stands in the startup order after the unit's initializers, and its destructor in
the one exit list; and initializers and destructors may launch. `CudaProgram`
composes `StaticObjects` and `CudaRuntime` so; `Stacks` has the two operators on
stacks they share. What a kernel then runs on the
device is `DeviceKernel`.

## The modules

Each component has a module with its state, actions and properties, and an `MC`
module that gives the constants values for TLC. Definitions keep the names of
the functions they translate. Operators that stand directly above a definition
with a similar name (`LockUnguarded` above `Lock`, `DoElifAgain` above `DoElif`)
are faulty variants of it: each property is shown to fail when its variant takes
the definition's place.

### HeaderCache, HeaderStore

The goroutine of each unit runs `Preprocessor.open`: look in the unit's own
`files`, else lock `Cache.mu`, look up or insert the entry, unlock, and enter the
entry's `sync.Once`, in which the first to come reads and scans the file. The
labels `pc` takes are the points between which another goroutine may run:
`Lock`, `Lookup`, `Insert`, `Unlock`, `OnceRun` / `OnceWait`, `ReadFile`,
`ScanFile`, `OnceDone`, `Finish`. Files may be edited (`Edit`) or be absent at
any moment. A route whose filesystem cannot key a map bypasses the cache
(`OpenDirect`). `sync.Once` is external: its two halves are `OnceWait` and
`OnceDone`. Contents are abstracted to model values, tokens to the contents with
the settings they were scanned under.

`HeaderStore` is what the cache promises: a map from keys to outcomes that
settles a key in one step and never changes it, and from which alone the units'
maps are filled. The mapping `Settled` says a key is settled when its entry's
once is done.

### IncludeWalk

One unit's phase 4: `stack` is `Preprocessor.stack`, each reader with its
position, its `conds` and the state of the guard detection. One action per
directive, each the whole handler, with what `directive` does around it
(`Cleared`) included. A file is a sequence of logical lines; a macro is defined
or not; a line of text is known by where it was written. What a line of code
outside the walk would decide is part of the line: whether `#if` holds, which
file a name leads to (None when no mount has it). The scanner's diagnostics are
left out. Conditional inclusion is checked against `Kept`, a definition of
[cpp.cond] on whole files that has no stack.

### BuildDriver

`Compiler.Build` and `Run`: one action for each input, device pass, host pass,
runtime, write and link, each of which may fail where the code's call may; then
`Run`'s temporary directory and the end of the process, where `main` and the
goroutine that waits for a signal both stop the profile. What a pass computes is
abstracted to which input, which pass and which images an object holds. The
decisions on languages, architectures, vendors and output names are translated
whole.

### FlowGraph

`Builder.addStmt` as a recursive operator from statements to the graph, and the
two analyses on it. Beside the graph the same statements are executed: a
condition that is not constant may go either way and any expression may throw.
The properties compare the analyses with the executions, so the reference shares
nothing with the graph. Being recursive the module is for TLC only.

### FatBinary, CudaRuntime

`Fatbin` lays the container out as offsets, and `findImage` walks it as the
runtime does; `Newest` says what the walk is for. `CudaRuntime` has the file-scope
state of `vcx_cudart.cpp` and one action per entry point, under the calls
`lower/launch.go` emits: a constructor and a destructor per unit, and for each
launch a push, the evaluation of the arguments, in which other launches may nest
and which may throw, and the stub. Any call to the driver may be refused, also
the two whose results the runtime does not look at: a question for the device's
capability that is not answered is read as 0 (`Readings`), and a module the driver
does not unload is forgotten all the same (`Unloads`). An
entry point is an operator from the state before to the set of outcomes, so that
early returns compose as they do in the source (`Then`). One host thread.

### StaticObjects, CudaProgram

`StaticObjects` is the code `lower` emits for objects with static storage: the
startup order (`Startup`: of each unit its initializer, the objects sorted by
declaration, then its registration), the initializers that are running
(`stack`), the guard bytes of static locals, which are set before the initializer
runs, the objects built (`alive`, in the order of completion), and the one list
`handlers` that `__cxa_atexit` and `atexit` fill. Initializers and destructors
are the program's code: they reach static locals for the first time, throw, or
end the program, during startup as well as in main. The C runtime's part (`EnterMain`, `Exit`, the walk of the list)
and the unwinder are external.

`CudaProgram` runs both modules as one program: `Constructor` and `Register` are
one step, so are `Destructor` and `Unregister`, every other call of the runtime
happens where the program's code runs (`UserCode`), and `saw` records which units
were registered when an object was finished.

### DeviceCalls, DeviceBlock, WarpShuffle, DeviceKernel

`DeviceBlock` has the threads of one block in the functions of the device
headers. A reducing barrier (`__vcx_sync_reduce`) is four barriers around one
word of workgroup storage: `Enter`, `Clear`, `Contribute`, `ReadWord`, `Leave`,
each at most one access to the word. `atomicInc` and `atomicDec` are a load and a
compare-and-swap loop (`Load`, `Cas`); the other atomics are one instruction
(`Atomic`). `bar` counts the barriers a thread has arrived at, and a thread goes
on when no other has arrived at fewer. `DeviceCalls` is what the functions
promise: an atomic takes effect in one step, and a reduction lets nobody out
before everybody is in and answers all with the reduction of their predicates.
`WarpShuffle` has the lane a shuffle reads from, in unsigned arithmetic
(`ReadFrom`), beside the lane as segments and places give it (`Source`); `DeviceKernel` puts a
warp's shuffles before a block's calls.

### CleanupScopes

A function body is lowered statement by statement as `fn` does it: `fn` holds the
blocks, the scopes of tracked objects, the temporaries of the full-expression,
the open tries, handlers, loops and labels, and `todo` what is still to be
lowered. An expression is a value, a call, an object made by a constructor or a
call, a copy passed by value, `&&`, or `?:`, with arguments that are expressions;
`expr`, `exprInto` and `declareLocal` register what each makes when the code does.
Each call site gets the landing pad `unwindPad` gives it. Then the blocks
are executed: conditions go either way, calls throw what they may, and `alive`
and `caught` record what is built and caught. The properties speak of the
execution only. The personality routine is external. Destructors do not throw.

The code registers some objects too early, and ends some nowhere. Bodies with
these are executed like the others, and the properties except exactly the objects
concerned, which they know by kind or by history:

| objects | where | excepted from |
|---|---|---|
| registered, and not built, where an exception was thrown (`exn.open`) | `stmt.go:235`, `expr.go:911`, `:1051` | `DestroysOnlyBuilt` |
| temporaries of an operand of `&&` or `?:` (`arm`) | `op.go:459`, `expr.go:839` | `DestroysOnlyBuilt` |
| declared directly in a switch's group (`group`) | `switch.go:87` | `DestroysOnlyBuilt` |
| temporaries among another temporary's arguments | `expr.go:911`, `:1051` | `ReverseOrder`, against that one |
| a while's declared variable, declarations after a label of their block (`again`) | `stmt.go:999`, `goto.go:46` | `NotBuiltTwice`, `ReverseOrder`, `NothingLeft` when unwound |
| temporaries of a mem-initializer, a returned reference, a range (`stray`) | `func.go:411`, `stmt.go:851`, `:1145` | `DestroysOnlyBuilt`, `NotBuiltTwice`, `ReverseOrder`, `TemporariesGoFirst`, `NothingLeft` |

A class object that is a condition is tested by its address (`func.go:569`,
`expr.go:608`), so that branch is always taken (`Tested`).

## The runs

Passing runs; states are distinct states.

| run | instance | checks |
|---|---|---|
| `header_cache` (47 k) | three units, two sharing scanner settings; two routes to one header, one not shareable; two edits, by any values including absence | `ReadOnce`: a key is read from disk once. `Agreement`: units of equal settings work from equal tokens although the file changes. `ImplementsStore`: refinement. `OpenReturns`: every open ends |
| `walk` (228 k) | every header of up to three lines and every balanced one of up to five over nine directives, read twice under three macro histories; two headers of up to two lines and two module units that include, import and pull in themselves and one another, a PreInclude, a missing header and module, depth limit 3 | `KeepsWhatIsSelected`: a line is live exactly when [cpp.cond] selects it. `NoActiveInDead`. `GuardedHeaderIsInert`: a header skipped for its guard would have had no effect. `ImportReadsOnce`, `OnceFirstRespected`, `ModuleReadOnce`, `StackBound`, and `WalkEnds`: every walk ends |
| `driver` | 7,011 invocations: no, one or two inputs of nine kinds, with every combination of devices, `-c`, `-o`, device- or host-only; `-x` and the choice of runtime; run and profile | `LinkLine`: each input once, in order, then each runtime needed once. `FatBinaryWhole`. `FailureWritesNothing`, `SuccessIsComplete`. `TempRemoved`. `ProfileWritten`: whichever of main and the signal ends the process |
| `flow` (275 k) | 33,912 bodies: every construct, two deep, with what follows it | `FallingOffIsReported`, `LiveCodeNotReported`, `ReportedReturnIsMissing` |
| `cuda` (829 k) | a program of three units from startup to exit: a kernel two units define, a variable, launches two deep; three static objects and two static locals; room for two units, one kernel, one variable and two configurations; images out of order and of sizes around a multiple of eight | `ConfigKept`: a kernel runs in its own launch's configuration. `LaunchesItsKernel`: from a live module of a unit that has it, of an image the device runs, the newest if the driver told the capability. `NoModuleLeaks`: but for modules the driver would not unload. `FailedLaunchIsKnown`. `InitializedOnce`, `DestroyedAtExit`, `ReverseOfCompletion`: initializers run once, destructors in the reverse of completion, none is left out. `SeesWhatItSaw`: a destructor finds registered every unit its object's initializer found |
| `cleanup` (293 k) | 4,026 bodies: each way out of a block from each construct it may stand in, conditions and inits that declare, temporaries in temporaries and in operands that may not be evaluated, throws at every call | `DestroysOnlyBuilt`, `NotBuiltTwice`, `ReverseOrder`, `TemporariesGoFirst`, `NothingLeft`, `CatchesEnded`, `CaughtInside` |
| `device` (303 k) | three threads and words of two bits: every pair of reductions with every predicate of 0, 1 and 2, and every pair of atomics beside an increment, before and after a reduction; a warp of eight lanes with six-bit unsigned and every shuffle | `NoRace`: two conflicting accesses to the word are never both next. `ImplementsCalls`: the functions are atomic to their callers (refinement). `AllReturn`: no barrier and no loop keeps a thread for ever. `ShuffleReads`: which lane each reads, for every argument |

The runs do not check type invariants: where a module has one it is proved.

**Why the bounds suffice.** Two units race for a key; the third, of other
settings, is what would expose a key that forgot them, and also a second waiter
on one once. Two edits let the file change and change back. A conditional's
behaviour depends on its own frame and on the frames outside it, and five lines
hold a chain of three groups or a chain in a group, with a line inside. Include
and import cycles need two files and two modules; depth 3 is the least at which
the limit is met by nesting and not by the primary file. The CUDA tables are
smaller than what is registered, so each is filled. A launch in a launch's
argument is the least nesting at which a configuration can be mistaken. Of the
static objects one is an array, which has no destructor, and two are met in
another order than they are declared; with two static locals an initializer can
reach another that reaches it again. The launch arguments of `CudaProgram` reach
no static local's first declaration. Three threads are two that race and one that
is ahead or behind; a word of two bits wraps under every atomic and still counts
the threads. The lane arithmetic is a function of its arguments, of which all are
tried; wider words repeat the pattern. A body
in `flow` and `cleanup` has one construct around another and a statement after
it, since a construct hands only its last block, and its scopes, to the next.

**Deadlock** is checked where the model has an explicit last step (`driver`,
`flow`, `cleanup`). It is not where the system may stop: units that have nothing
more to open, a walk that is over, a program that has ended or crashed, a kernel
whose threads have all returned (that they do is `AllReturn`).

**Fairness.** `header_cache`: a goroutine inside `open` is scheduled again (weak
fairness of its steps), and a goroutine that waits for a `sync.Mutex` gets it,
which Go's starvation mode guarantees (strong fairness of `Lock`); nothing is
assumed of callers or editors. `walk`: the walk is a loop on one goroutine that takes
its next step. `device`: a block is resident as a whole and each of its threads is
scheduled (weak fairness per thread), which CUDA's barriers require of the
hardware; a compare-and-swap that failed did so because another succeeded, so no
more is needed for the loops. No other run needs fairness.

## Where the code and its words disagree

Five runs state what a comment or document says and TLC finds a behaviour that
contradicts it.

| run | what happens | against |
|---|---|---|
| `walk_disjunction` | a header under `#if !defined A \|\| 1` is skipped once `A` is defined: the guard detection ignores the rest of the line | `preprocessor/include.go:306` |
| `driver_collide` | `-c x/a.cpp y/a.cpp` writes `a.o` twice and succeeds | `build.go:126`, `docs/gpu.md:19` |
| `flow_throw` | `int f() { try { throw 1; } catch (...) { } }` is accepted: a throw in the block the try begins in cuts off the handlers | `sema/cfg/cfg.go:446`, `flow.go:10` |
| `cuda_throw` | a launch abandoned by an exception in its arguments leaves its configuration to the enclosing launch's stub | `lower/launch.go:19` |
| `cleanup_from_call` | `T x = f();` where `f` throws destroys `x`, which was never built | `lower/eh.go:227`, `lower/dtor.go:56` |

The passing runs keep to programs without these. Others were met while modelling
and are kept out of the passing runs' instances. Those with a property named fail
it when such a body is added to the `MC` module; the others are read off the code
or are outside what the properties, as stated, speak of:

- cleanup: break, continue or goto out of a handler leaves its catch open, as does an
  exception that leaves a handler with nothing alive in the function, or that a
  handler throws inside an outer try (`CatchesEnded`, `stmt.go:80`, `eh.go:143`,
  `:146`); an inner try's pad names only its own clauses, so that what it does
  not catch misses the outer handlers unless the back end adds them
  (`CaughtInside`, `eh.go:144`). What the table above lists is in the instances;
- device: where `this lane's index XOR laneMask` (`__vcx_cuda_warp.h:45`) lies in a
  later segment a lane reads its own value (`:66`), and where `lane + delta` passes
  the unsigned range it reads a lane below its own (`:61`); `ShuffleReads` says so;
- walk: two adjacent `#ifndef` groups are taken for a guard by the second's
  macro; `#pragma once` is not seen by an include of the file from within its own
  read, and is forgotten when it follows such a read (`include.go:427`); a file
  read by `#include` and then named by `#import` is read again by the next
  `#include` (`include.go:325`, against `:76`);
- driver: `-x c++` cannot override an extension (`device.go:101`); objects that
  register HIP images link only when a device is named (`build.go:177`); `Run`
  executes whatever a device-only build wrote (`build.go:69`);
- static objects: an aggregate whose class has a destructor and whose initializer
  is constant becomes an image, and its destructor is registered nowhere
  (`init.go:49`, `stmt.go:337`, against `itanium.go:565`); a guard byte is set
  before the initializer and is not cleared when that throws, so the initializer
  is not tried again (`stmt.go:354`);
- flow: a case label inside a nested statement, and an `@finally` after a body
  that returns, are called unreachable (`cfg.go:346`, `:525`).

## The proofs

Every proof module quantifies over every value of the constants under the
assumptions its component names. Each theorem of the form `Spec => []P` rests on
an inductive invariant, and each proof that a step preserves it has a lemma per
action.

**HeaderCacheProof** (`ConstantsAssumption`, `OutcomesDistinct`: the constants
have their types and the two special values are no contents, units or tokens).
For any units, routes, settings, contents and edits:

- `TypeCorrect`, `ReadsOnce`, `EntriesWhole`, `UnitsAgree`: the four invariants;
- `Refinement`: `Spec => ImplementsStore`.

`ReadOnce` alone is not inductive: that the reader is alone depends on who may
be between `Lock` and `Unlock` and on who runs the once. `IInv` adds, per unit,
what its `pc` says of its entry (`UnitInv`: a unit that inserts holds the mutex
and the map has no entry; a unit that reads runs the once of the entry in the
map), per key, that a finished entry holds the tokens of what was read, scanned
under the key's settings (`EntryInv`), that one unit at most fills an entry
(`OneReader`), and that a unit's own map holds what the shared map settled on
(`FilesInv`). The proof has a lemma per action; `HeapUpdate`, `FilesFrame` and
`OtherUnit` say once what an update of one entry leaves of the others. The
refinement uses `SettledAfter`: only `OnceDone` changes what a key is settled to,
and from nothing.

**IncludeWalkProof** (a positive depth limit, finitely many modules, each with a
file, and programs made of lines). For any programs:

- `WalkTyped`, `DeadStaysDead` (`NoActiveInDead`), `ModulesReadOnce`
  (`ModuleReadOnce`), `StackBounded` (`StackBound`).

The invariant `WalkInv` says the readers are well typed, their conditionals
nested, each module on the stack is recorded as imported and is there once, and
the stack is no longer than the limit and the number of recorded modules. The
bound needs the modules' part: an import tests no depth, and what stops units
that import one another is that a module is recorded before its unit is read.
Every step replaces the top reader, pushes one or pops one; `ReplaceTop`,
`PushReader` and `PopReader` say what that does to a good stack.

**IncludeGroupsProof** (the same assumptions) extends it, and is about what the
walk keeps and what it opens:

- `SelectionKept` (`KeepsWhatIsSelected`), `GuardedIsInert`
  (`GuardedHeaderIsInert`), and of steps `ImportedReadOnce` (`ImportReadsOnce`)
  and `OnceRespected` (`OnceFirstRespected`).

`Kept`, the reference for conditional inclusion, counts openers and `#endif`s over
whole files and knows no stack. `GroupInv` ties the two together. The stack of a
reader in a well-formed file is as deep as the nesting of the lines it has read
(`Tracks`); for a file of conditionals and text there is for every frame a line
that began the group the frame stands for, and the frame is active exactly when
that group, and every group around it, is selected (`Matches`). That the macros
do not change under such a reader is part of the invariant: nothing in its file
opens another, so a reader that waits is not in one, or at its first line
(`Waiting`). For guards, `NotesGuard` says which line opened the group a reader's
`pendingGuard` came from and that nothing stood before it, so that what the cache
records at the end of a file in the idiom is a group around the whole file
(`CacheOK`). `said`, the files that have said `#pragma once`, are cached as such or
still being read (`SaidInv`). `GroupInv` was checked on the states of the `walk`
run before it was proved.

**DeviceBlockProof** (finitely many threads, thread 0 among them; fewer threads
than a word counts, and an even word size; kernels made of calls). For any block
and kernel:

- `WordNeverRaces` (`NoRace`), `BlockTyped`;
- `Refinement`: `Spec => ImplementsCalls`.

A thread's `bar` is four times the reductions it has left, plus the phase of the
one it is in; from the rule of the barrier no thread is more than one arrival
ahead of another (`Lag`), so that two threads that may both go on are in the same
phase of the same call. That gives the absence of races at once. For the
refinement `WordInv` says what the word holds in each phase: what the call starts
from, with the predicates gathered in of exactly the threads that have arrived
at the third barrier; a thread's register holds the whole reduction once it has read the
word. `Contributed` and `Gathered` are compared set by set, so no induction over
threads is needed.

**StaticObjectsProof** (`StartupAssumption`: an object is declared once, a unit
linked once). For any units, objects and static locals:

- `RunOnce` (`InitializedOnce`), `AllDestroyed` (`DestroyedAtExit`),
  `ReverseDestruction` (`ReverseOfCompletion`, an action property).

The invariant says that what startup has still to call has left no trace and that
an object is in one of the places `stack`, `alive`, `dying` (`Apart`); that a
static local that was reached has its guard set (`Reached`); and that the exit
list holds the objects alive that have a destructor, in the order in which they
were finished (`Listed`). The last is what makes the reverse of the list the
reverse of completion, registrations in between notwithstanding.

The module also has what is proved of `FatBinary`, from no assumption. For any
sequence of images, of any sizes and architectures, and any device:

- `FindsNewest`: `findImage`, run over what `Fatbin` wrote, ends at the payload of
  `Newest`, the first image of the newest architecture the device runs, or at none
  when there is none it runs.

This is an induction over data on both sides, the images written and the turns of
the loop. The library's induction theorems take an operator and are of no use to
first-order provers; two lemmas of the module need none.
`SetInduction` speaks of a set of numbers, and `RecursionExists` of a step that is a
function, from which it makes the function a recursive definition denotes; so
`WrittenSteps` and `WalkedSteps` unfold the two definitions once. `WellWritten`
then says that entry `i` stays where it was put, at a multiple of eight, whatever
is appended, and `HasFound` that after `m` turns the reader stands at the end of
entry `m` with the best of the first `m`. That a turn's step by the size field and
the bytes really written agree is `PaddingAfter`.

**CudaTablesProof** (`TablesAssumption`: sizes are numbers, a unit's stubs and
objects are sequences, what it embeds is a sequence of images) says once of every
entry point what it may come to (`Comes`): the tables name only what is in them,
every loaded module is named by a fat binary unless the driver refused to unload
it, an error that is returned is recorded; and what it leaves of the units' modules (`Arrives`, below).

**CudaProgramProof** extends both, and begins with what a program's registrations
have to do with its static objects. For any program on the runtime:

- `ProgramImplementsStatics`: `PSpec => SSpec`, so what is proved of
  `StaticObjects` holds of it (`ProgramStatics`);
- `SeesRegistered` (`SeesWhatItSaw`).

The invariant adds that a unit is registered exactly while its handler is in the
exit list (`InStep`) and that the handlers of the units an object saw are below
its own (`Below`), hence still there while its destructor runs (`Held`).

Then, for any units, kernels, images, devices and sizes of the tables, and
whichever calls the driver refuses:

- of the runtime alone: `RuntimeTyped`, and `RetriedUntilLoaded`
  (`WrittenOffInContext`: a fat binary is written off only in a context and while
  it has no module, so that a missing driver or a context that could not be made
  leaves it to be tried again);
- of programs with static objects too: `ModulesHeld` (`NoModuleLeaks`),
  `FailuresKnown` (`FailedLaunchIsKnown`), `ConfigurationKept` (`ConfigKept`);
- `LaunchesOwn` (`LaunchesItsKernel`).

The invariant, `RInv`, adds the two stacks to `Comes`: a launch that still counts
on its push finds it as far below the top of `configs` as it is itself below the
top of `frames` (`Stacked`). Configurations
left behind by abandoned launches lie below and do no harm, which `ConfigKept`
alone does not say.

`LaunchesItsKernel` speaks of one step, and depends on everything the tables went
through before it. `Faithful` carries that: every module is of the image
`findImage` chose for the capability that was read (`Chosen`), a unit has one fat binary, and
the module it names is live and the unit's own (`OfUnits`), and a kernel's entry is
of a unit that defines it, its cached function of that unit's module, which is the
current one for as long as the unit is registered (`Resolved`). The entry points
keep it (`Arrives`), as `Comes` is kept. A cached function outlives its module once
its unit is unregistered, so the launch is safe only if that does not happen before
the last launch: `AfterExit` says that no unit goes before exit, and that at exit
only destructors run the program's code, where `SeesWhatItSaw` keeps the units
they may launch from. `FindsNewest` turns
`findImage` into `Newest`; a capability that was read in part is below the device's
own (`ReadingsBelow`), so what is chosen for it still runs (`RunsOnNewer`). `Faithful` was checked on the states of the `cuda` run
before it was proved.

**BuildDriverProof** (`ConfigsAssumption`: the inputs and the devices are
sequences, `-x` names a language or nothing and the flags are flags; `NoneAssumption`: no result is not
success). For any invocations, any number of inputs and any names:

- `LinkLineWhole` (`LinkLine`), `FailuresWriteNothing` (`FailureWritesNothing`),
  `SuccessAlwaysComplete` (`SuccessIsComplete`), `TempAlwaysRemoved`
  (`TempRemoved`);
- `FatBinaryAlwaysWhole` (`FatBinaryWhole`);
- `ProfileAlwaysWritten` (`ProfileWritten`).

None of the first four is inductive: what a failure leaves and what a success has
made depend on how far the build is. `BInv` says that the objects are in step with
the inputs and the offload languages gathered are those of the inputs so far
(`Lined`), what may be on disk at each point and in which mode the point is reached
(`Placed`: nothing before the output, and while objects are written exactly the
paths of those met), and which runtimes are on the line (`Appended`). The profile
has an invariant of its own, `PInv`: `main` and the signal goroutine race, and
whoever closes the file or ends the process finds the profile whole. For the fat
binaries `Carried` says that the images gathered while a unit's device passes run
are those of a first part of its devices, and of all of them when the host pass
begins; `DistinctIs`, by a `SetInduction` of its own, that the devices are those
named, each once.

**Only model-checked.** Liveness (`OpenReturns`, `WalkEnds`, `AllReturn`), which is
outside the prover; everything about `FlowGraph`, whose graph and executions are
recursive operators over trees of statements, and `ShuffleReads` (bitwise
operators), neither of which the prover takes; and, so far, `CleanupScopes`: its
properties speak of executions of what was lowered, so their invariant has to say
of every block, pad and pending statement which objects are alive there, a
simulation between lowering and execution that goes through the folds that emit
cleanups. Nor do they hold of every body: the body of `cleanup_from_call` is one
they are false of, so a theorem needs an assumption that tells the bodies apart
of which the lowering makes what it should.

## Not modelled

Pure functions from input to output (scanner, literals, types, mangling, tables)
are better served by the tests they have. The parser and most of `sema` and
`lower` are left out because what they compute is the language's rules and not an
order of events. By far most lines of C and C++ in the repository are the vendored
headers under `include`, above all `include/linux`: declarations, macros and
inline wrappers for the user's program, which have no state and no order to get
wrong. The files there that do have some, the device headers, are modelled, and so
is the CUDA runtime; the compiler itself is written in Go.

Within the modelled components: header search and `#include_next`; in the driver,
the wording of diagnostics and what a linker does; in `sema/cfg`, the statements
that do not branch; in lowering, arrays, aggregates, virtual bases, range-for over
a class, function-try-blocks (`eh.go:461`), the elvis operator, the Microsoft ABI,
destructors that throw, and Objective-C's `@try`; of static storage, objects whose initializer is constant,
the MSVC ABI, for which no destructor is registered, `thread_local`, and a static
local's guard under several threads, for which the code emits no
synchronization; in the CUDA runtime, several host threads and the names of
errors; in the device headers, the votes, the bit intrinsics, the floating-point
and 64-bit forms, and shuffles with a partial mask.

Three hazards have no property: the unguarded tables of the CUDA runtime under
several host threads (`vcx_cudart.cpp:148`), the identifiers in hide sets after a
redefinition (`macro.go:94`) and the reports of an untaken arm in `#if`
(`eval.go:310`). `PROJECT.json` gives the reason for each, and for each component
that is not modelled.

## Plan

In order:

1. Macro expansion (`expand.go`, `macro.go`): hide sets under redefinition and
   `push_macro`; proof that an identifier names one macro.
2. Header search with `#include_next` under `IncludeWalk`; composition of
   `IncludeWalk` over `HeaderCache`, several units at once.
3. Template instantiation: the saved state of `enterInstantiation`, its depth.
4. Constant evaluation: lifetimes, and its limits.
5. An abstract specification for `CudaRuntime` (a launch is one step) and for
   `BuildDriver` (a build is one step), with refinement.
6. Proofs: `CleanupScopes`, beginning with which objects are alive at the start of
   a block.
