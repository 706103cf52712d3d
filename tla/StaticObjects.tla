--------------------------- MODULE StaticObjects ---------------------------
(* The life of the objects with static storage duration in a program of      *)
(* several units, as lower/init.go, declareStaticLocal and                   *)
(* registerStaticDtor emit it: each unit's initializer and the registration  *)
(* of its device code in the startup order, static locals behind their guard *)
(* byte, and one list of what runs at exit.  An initializer and a destructor *)
(* are code of the program: they may reach other static locals, throw, and   *)
(* end the program.  A handler the program gives atexit itself is, to the    *)
(* list, a static local with nothing to build.  There is one thread.         *)
EXTENDS Stacks, FiniteSets, Functions, TLC

CONSTANTS
  Link,          \* the units, in the order they are linked
  DynamicInits,  \* unit -> its objects that need code: [x, pos], as they were met
  Offloads,      \* the units with kernels or device objects to register
  Locals,        \* static locals that need code
  Destroyed      \* the objects whose class has a destructor; an array has none

VARIABLES
  startup,   \* what the startup code has still to call
  stack,     \* the objects being initialized, the innermost last
  guards,    \* the static locals whose guard byte is set
  alive,     \* the objects built and not destroyed, in the order they were finished
  handlers,  \* what is registered for exit
  dying,     \* the object whose destructor is running, in a set
  phase      \* "startup", "main", "exit", "over" or "aborted"

svars == <<startup, stack, guards, alive, handlers, dying, phase>>

-----------------------------------------------------------------------------
(* The startup order: of each unit its initializer, objects in the order of
   their declarations, and then its registration.                            *)

Object(x) == [k |-> "object", x |-> x]
Registration(u) == [k |-> "registration", x |-> u]

defineInitializer(u) == SortSeq(DynamicInits[u], LAMBDA a, b : a.pos < b.pos)

Calls(u) ==
  [i \in DOMAIN DynamicInits[u] |-> Object(defineInitializer(u)[i].x)]
    \o IF u \in Offloads THEN <<Registration(u)>> ELSE <<>>

StartupTo[n \in 0..Len(Link)] ==
  IF n = 0 THEN <<>> ELSE StartupTo[n - 1] \o Calls(Link[n])

Startup == StartupTo[Len(Link)]

Objects == Locals \cup UNION {{d.x : d \in Range(DynamicInits[u])} : u \in Range(Link)}
Entries == [k : {"object"}, x : Objects \ Locals] \cup [k : {"registration"}, x : Offloads]

\* An object is declared once, and a unit is linked once.
ASSUME StartupAssumption ==
  /\ Startup \in Seq(Entries)
  /\ \A i, j \in DOMAIN Startup : Startup[i] = Startup[j] => i = j

SInit ==
  /\ startup = Startup
  /\ stack = <<>> /\ guards = {} /\ alive = <<>> /\ handlers = <<>> /\ dying = {}
  /\ phase = "startup"

\* Code of the program is running: main, an initializer or a destructor.
UserCode == phase = "main" \/ stack # <<>> \/ dying # {}

\* __cxa_atexit and atexit: one list.
AtExitFirst(h) == <<h>> \o handlers
AtExit(h) == Append(handlers, h)

-----------------------------------------------------------------------------
(* Initialization *)

BeginObject ==
  /\ phase = "startup" /\ stack = <<>> /\ startup # <<>>
  /\ Head(startup).k = "object"
  /\ stack' = <<Head(startup).x>>
  /\ startup' = Tail(startup)
  /\ UNCHANGED <<guards, alive, handlers, dying, phase>>

\* The constructor of the unit's registration, as far as the lists go.
Register(u) ==
  /\ phase = "startup" /\ stack = <<>> /\ startup # <<>>
  /\ Head(startup) = Registration(u)
  /\ startup' = Tail(startup)
  /\ handlers' = AtExit(Registration(u))
  /\ UNCHANGED <<stack, guards, alive, dying, phase>>

\* The guard byte, set before the initializer runs; a local whose guard is set
\* is passed by.
GuardLate(x) == guards
Guarded(x) == guards \cup {x}
DeclareStaticLocal(x) ==
  /\ UserCode
  /\ x \notin guards
  /\ guards' = Guarded(x)
  /\ stack' = Append(stack, x)
  /\ UNCHANGED <<startup, alive, handlers, dying, phase>>

registerUntilExit(x) == IF x \in Destroyed /\ phase # "exit" THEN AtExit(Object(x)) ELSE handlers
registerStaticDtor(x) == IF x \in Destroyed THEN AtExit(Object(x)) ELSE handlers

\* The initializer is done: the object is built, and its destructor registered.
EndInitializer ==
  /\ stack # <<>>
  /\ stack' = Front(stack)
  /\ alive' = Append(alive, Last(stack))
  /\ handlers' = registerStaticDtor(Last(stack))
  /\ UNCHANGED <<startup, guards, dying, phase>>

\* An exception leaves the innermost initializers, which are static locals', and
\* is caught by code further out.  Their guards stay set.
ThrowInitializer(n) ==
  /\ n \in 1..Len(stack)
  /\ \A i \in Len(stack) - n + 1..Len(stack) : stack[i] \in Locals
  /\ stack' = SubSeq(stack, 1, Len(stack) - n)
  /\ UNCHANGED <<startup, guards, alive, handlers, dying, phase>>

\* An exception leaves an initializer and nothing catches it.
Terminate ==
  /\ stack # <<>>
  /\ phase' = "aborted"
  /\ stack' = <<>> /\ dying' = {}
  /\ UNCHANGED <<startup, guards, alive, handlers>>

-----------------------------------------------------------------------------
(* main, and exit *)

EnterMain ==
  /\ phase = "startup" /\ stack = <<>> /\ startup = <<>>
  /\ phase' = "main"
  /\ UNCHANGED <<startup, stack, guards, alive, handlers, dying>>

\* main returns, or it or an initializer, before main too, calls exit.
Exit ==
  /\ phase = "main" \/ (phase = "startup" /\ stack # <<>>)
  /\ phase' = "exit"
  /\ stack' = <<>>
  /\ UNCHANGED <<startup, guards, alive, handlers, dying>>

Idle == phase = "exit" /\ stack = <<>> /\ dying = {}

Without(s, i) == SubSeq(s, 1, i - 1) \o SubSeq(s, i + 1, Len(s))

\* The list is walked backwards, and what is added meanwhile comes first.
RunDestructor ==
  /\ Idle /\ handlers # <<>>
  /\ Last(handlers).k = "object"
  /\ dying' = {Last(handlers).x}
  /\ \E i \in DOMAIN alive : alive[i] = Last(handlers).x /\ alive' = Without(alive, i)
  /\ handlers' = Front(handlers)
  /\ UNCHANGED <<startup, stack, guards, phase>>

EndDestructor ==
  /\ dying # {} /\ stack = <<>>
  /\ dying' = {}
  /\ UNCHANGED <<startup, stack, guards, alive, handlers, phase>>

Unregister(u) ==
  /\ Idle /\ handlers # <<>>
  /\ Last(handlers) = Registration(u)
  /\ handlers' = Front(handlers)
  /\ UNCHANGED <<startup, stack, guards, alive, dying, phase>>

EndProgram ==
  /\ Idle /\ handlers = <<>>
  /\ phase' = "over"
  /\ UNCHANGED <<startup, stack, guards, alive, handlers, dying>>

\* The steps that touch no device code.
SStep ==
  \/ BeginObject
  \/ \E x \in Locals : DeclareStaticLocal(x)
  \/ EndInitializer
  \/ \E n \in 1..Cardinality(Locals) : ThrowInitializer(n)
  \/ Terminate \/ EnterMain \/ Exit \/ RunDestructor \/ EndDestructor \/ EndProgram

SNext == SStep \/ \E u \in Offloads : Register(u) \/ Unregister(u)

SSpec == SInit /\ [][SNext]_svars

-----------------------------------------------------------------------------
(* Properties *)

\* init.go:200, stmt.go:356 -- an object is destroyed when every object with a
\* destructor whose initialization was completed after its own is gone, static
\* locals first reached by a destructor included.
ReverseOfCompletion ==
  [][\A i \in DOMAIN alive :
       dying = {} /\ dying' = {alive[i]} =>
         \A j \in i + 1..Len(alive) : alive[j] \notin Destroyed]_svars

\* stmt.go:290, :358 -- the initializer of an object is run once, its own
\* initializer that reaches the declaration again included; what is registered
\* for exit is alive, and is registered once.
InitializedOnce ==
  /\ \A i, j \in DOMAIN stack : stack[i] = stack[j] => i = j
  /\ \A i \in DOMAIN stack : stack[i] \notin Range(alive) \cup dying
  /\ \A i, j \in DOMAIN handlers : handlers[i] = handlers[j] => i = j
  /\ \A i \in DOMAIN handlers : handlers[i].k = "object" => handlers[i].x \in Range(alive)

\* itanium.go:565 -- a program that runs to its end has destroyed every object
\* with a destructor that its code built.
DestroyedAtExit == phase = "over" => Range(alive) \cap Destroyed = {}
=============================================================================
