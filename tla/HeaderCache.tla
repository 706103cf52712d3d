---------------------------- MODULE HeaderCache ----------------------------
(***************************************************************************)
(* The header cache that the translation units of one build share          *)
(* (preprocessor/cache.go) and the open-once map each unit keeps in front   *)
(* of it (Preprocessor.open in preprocessor/include.go).  Each unit is      *)
(* preprocessed by a goroutine of its own.                                 *)
(*                                                                         *)
(* A route is a (filesystem, path) pair; two routes may lead to one         *)
(* display name.  A key is a route with the scanner settings of the unit    *)
(* that asks.  The entry a unit allocates for a key is named by that unit,  *)
(* so m[k] = u reads "the map holds the entry u allocated for k".           *)
(***************************************************************************)
EXTENDS Naturals

CONSTANTS Units,      \* translation units, one goroutine each
          Routes,     \* (filesystem, path) pairs
          Displays,   \* display names
          Modes,      \* scanner settings: scanner.Mode and token.Std
          Contents,   \* what a file may hold
          DisplayOf,  \* the display name of a route
          ModeOf,     \* the scanner settings of a unit
          Shareable,  \* routes whose filesystem can key a map
          MaxEdits,   \* bound on edits of files while the build runs
          None, Absent

ASSUME ConstantsAssumption ==
  /\ DisplayOf \in [Routes -> Displays]
  /\ ModeOf \in [Units -> Modes]
  /\ Shareable \subseteq Routes
  /\ MaxEdits \in Nat
  /\ None \notin Units
  /\ Absent \notin Contents
  /\ None \notin Contents \cup {Absent}

ASSUME OutcomesDistinct == None \notin Contents \X Modes /\ Absent \notin Contents \X Modes

VARIABLES disk,   \* display name -> what the file holds, or Absent
          edits,  \* number of edits so far
          mu,     \* Cache.mu: the unit holding it, or None
          m,      \* Cache.m
          heap,   \* the cacheEntry each unit may have allocated per key
          reads,  \* key -> disk reads made through the cache
          files,  \* Preprocessor.files of every unit
          pc, arg, ent  \* where a unit is in open, its route, its entry

vars == <<disk, edits, mu, m, heap, reads, files, pc, arg, ent>>

Keys == Routes \X Modes
Tokens == Contents \X Modes
File == Contents \cup {Absent, None}
Entry == [once : {"new", "running", "done"}, file : File, toks : Tokens \cup {None}]
NewEntry == [once |-> "new", file |-> None, toks |-> None]
Opened == [via : Routes, toks : Tokens]

KeyOf(u) == <<arg[u], ModeOf[u]>>
scanRaw(c, u) == <<c, ModeOf[u]>>

Init ==
  /\ disk \in [Displays -> Contents \cup {Absent}]
  /\ edits = 0
  /\ mu = None
  /\ m = [k \in Keys |-> None]
  /\ heap = [u \in Units |-> [k \in Keys |-> NewEntry]]
  /\ reads = [k \in Keys |-> 0]
  /\ files = [u \in Units |-> [d \in Displays |-> None]]
  /\ pc = [u \in Units |-> "idle"]
  /\ arg = [u \in Units |-> None]
  /\ ent = [u \in Units |-> None]

\* open misses p.files: a shareable route goes through the cache.
Open(u, r) ==
  /\ pc[u] = "idle"
  /\ files[u][DisplayOf[r]] = None
  /\ r \in Shareable
  /\ arg' = [arg EXCEPT ![u] = r]
  /\ pc' = [pc EXCEPT ![u] = "lock"]
  /\ UNCHANGED <<disk, edits, mu, m, heap, reads, files, ent>>

\* open misses p.files and reads the file itself; a failure is not recorded.
OpenDirect(u, r) ==
  /\ pc[u] = "idle"
  /\ files[u][DisplayOf[r]] = None
  /\ r \notin Shareable
  /\ disk[DisplayOf[r]] # Absent
  /\ files' = [files EXCEPT ![u][DisplayOf[r]] =
                 [via |-> r, toks |-> scanRaw(disk[DisplayOf[r]], u)]]
  /\ UNCHANGED <<disk, edits, mu, m, heap, reads, pc, arg, ent>>

\* Mutant: entry looks the key up without waiting for the mutex.
LockUnguarded(u) ==
  /\ pc[u] = "lock"
  /\ mu' = u
  /\ pc' = [pc EXCEPT ![u] = "lookup"]
  /\ UNCHANGED <<disk, edits, m, heap, reads, files, arg, ent>>

\* c.mu.Lock()
Lock(u) ==
  /\ pc[u] = "lock"
  /\ mu = None
  /\ mu' = u
  /\ pc' = [pc EXCEPT ![u] = "lookup"]
  /\ UNCHANGED <<disk, edits, m, heap, reads, files, arg, ent>>

\* e, ok := c.m[key]
Lookup(u) ==
  /\ pc[u] = "lookup"
  /\ ent' = [ent EXCEPT ![u] = m[KeyOf(u)]]
  /\ pc' = [pc EXCEPT ![u] = IF m[KeyOf(u)] = None THEN "insert" ELSE "unlock"]
  /\ UNCHANGED <<disk, edits, mu, m, heap, reads, files, arg>>

\* if !ok { e = &cacheEntry{}; c.m[key] = e }
Insert(u) ==
  /\ pc[u] = "insert"
  /\ heap' = [heap EXCEPT ![u][KeyOf(u)] = NewEntry]
  /\ m' = [m EXCEPT ![KeyOf(u)] = u]
  /\ ent' = [ent EXCEPT ![u] = u]
  /\ pc' = [pc EXCEPT ![u] = "unlock"]
  /\ UNCHANGED <<disk, edits, mu, reads, files, arg>>

\* c.mu.Unlock()
Unlock(u) ==
  /\ pc[u] = "unlock"
  /\ mu' = None
  /\ pc' = [pc EXCEPT ![u] = "once"]
  /\ UNCHANGED <<disk, edits, m, heap, reads, files, arg, ent>>

\* e.once.Do, the first caller: it runs read(e).
OnceRun(u) ==
  /\ pc[u] = "once"
  /\ heap[ent[u]][KeyOf(u)].once = "new"
  /\ heap' = [heap EXCEPT ![ent[u]][KeyOf(u)].once = "running"]
  /\ pc' = [pc EXCEPT ![u] = "read"]
  /\ UNCHANGED <<disk, edits, mu, m, reads, files, arg, ent>>

\* Mutant: a caller that finds the read under way does not wait for it.
OnceNoWait(u) ==
  /\ pc[u] = "once"
  /\ heap[ent[u]][KeyOf(u)].once # "new"
  /\ pc' = [pc EXCEPT ![u] = "got"]
  /\ UNCHANGED <<disk, edits, mu, m, heap, reads, files, arg, ent>>

\* e.once.Do, any other caller: it returns only when read(e) has returned.
OnceWait(u) ==
  /\ pc[u] = "once"
  /\ heap[ent[u]][KeyOf(u)].once = "done"
  /\ pc' = [pc EXCEPT ![u] = "got"]
  /\ UNCHANGED <<disk, edits, mu, m, heap, reads, files, arg, ent>>

\* fs.ReadFile in read(e); e.file or e.err is set.
ReadFile(u) ==
  /\ pc[u] = "read"
  /\ LET c == disk[DisplayOf[arg[u]]]
     IN  /\ heap' = [heap EXCEPT ![ent[u]][KeyOf(u)].file = c]
         /\ pc' = [pc EXCEPT ![u] = IF c = Absent THEN "return" ELSE "scan"]
  /\ reads' = [reads EXCEPT ![KeyOf(u)] = @ + 1]
  /\ UNCHANGED <<disk, edits, mu, m, files, arg, ent>>

\* e.toks, e.diags = p.scanRaw(e.file)
ScanFile(u) ==
  /\ pc[u] = "scan"
  /\ heap' = [heap EXCEPT ![ent[u]][KeyOf(u)].toks =
                scanRaw(heap[ent[u]][KeyOf(u)].file, u)]
  /\ pc' = [pc EXCEPT ![u] = "return"]
  /\ UNCHANGED <<disk, edits, mu, m, reads, files, arg, ent>>

\* Mutant: a read that failed leaves the entry's once unfinished.
OnceDoneOnSuccess(u) ==
  /\ pc[u] = "return"
  /\ heap' = IF heap[ent[u]][KeyOf(u)].file = Absent THEN heap
             ELSE [heap EXCEPT ![ent[u]][KeyOf(u)].once = "done"]
  /\ pc' = [pc EXCEPT ![u] = "got"]
  /\ UNCHANGED <<disk, edits, mu, m, reads, files, arg, ent>>

\* read(e) returns, and once.Do with it.
OnceDone(u) ==
  /\ pc[u] = "return"
  /\ heap' = [heap EXCEPT ![ent[u]][KeyOf(u)].once = "done"]
  /\ pc' = [pc EXCEPT ![u] = "got"]
  /\ UNCHANGED <<disk, edits, mu, m, reads, files, arg, ent>>

\* The tail of open: an error is returned and not kept in p.files.
Finish(u) ==
  /\ pc[u] = "got"
  /\ LET e == heap[ent[u]][KeyOf(u)]
     IN  files' = IF e.file = Absent THEN files
                  ELSE [files EXCEPT ![u][DisplayOf[arg[u]]] =
                          [via |-> arg[u], toks |-> e.toks]]
  /\ pc' = [pc EXCEPT ![u] = "idle"]
  /\ arg' = [arg EXCEPT ![u] = None]
  /\ ent' = [ent EXCEPT ![u] = None]
  /\ UNCHANGED <<disk, edits, mu, m, heap, reads>>

\* Someone edits, adds or removes a file while the build runs.
Edit(d, c) ==
  /\ edits < MaxEdits
  /\ c # disk[d]
  /\ disk' = [disk EXCEPT ![d] = c]
  /\ edits' = edits + 1
  /\ UNCHANGED <<mu, m, heap, reads, files, pc, arg, ent>>

Step(u) ==
  \/ Lookup(u) \/ Insert(u) \/ Unlock(u)
  \/ OnceRun(u) \/ OnceWait(u) \/ ReadFile(u) \/ ScanFile(u) \/ OnceDone(u)
  \/ Finish(u)

Next ==
  \/ \E u \in Units : Lock(u) \/ Step(u)
  \/ \E u \in Units, r \in Routes : Open(u, r) \/ OpenDirect(u, r)
  \/ \E d \in Displays, c \in Contents \cup {Absent} : Edit(d, c)

\* A goroutine inside open keeps running, and Go's mutex hands itself to a
\* goroutine that has waited long enough (its starvation mode).
Fairness == \A u \in Units : WF_vars(Step(u)) /\ SF_vars(Lock(u))

Spec == Init /\ [][Next]_vars
FairSpec == Spec /\ Fairness
-----------------------------------------------------------------------------
\* Where a unit is between Lock and Unlock of Cache.entry.
InCritical(u) == pc[u] \in {"lookup", "insert", "unlock"}

\* The program counters, the map, the entries and the units' own maps have the
\* shape that Cache, cacheEntry and Preprocessor.open give them.
TypeOK ==
  /\ disk \in [Displays -> Contents \cup {Absent}]
  /\ edits \in Nat
  /\ mu \in Units \cup {None}
  /\ m \in [Keys -> Units \cup {None}]
  /\ heap \in [Units -> [Keys -> Entry]]
  /\ reads \in [Keys -> Nat]
  /\ files \in [Units -> [Displays -> Opened \cup {None}]]
  /\ pc \in [Units -> {"idle", "lock", "lookup", "insert", "unlock", "once",
                       "read", "scan", "return", "got"}]
  /\ arg \in [Units -> Routes \cup {None}]
  /\ ent \in [Units -> Units \cup {None}]

\* "each found once however many units include it" (cache.go): no key is read
\* from disk twice, whether the read succeeds or fails.
ReadOnce == \A k \in Keys : reads[k] <= 1

\* A unit that Cache.entry has returned to never sees a half-filled entry: the
\* entry is finished, and holds either a failure or a file with its tokens,
\* scanned under the settings of the unit that uses them.
WholeEntry ==
  \A u \in Units : pc[u] = "got" =>
    LET e == heap[ent[u]][KeyOf(u)]
    IN  /\ e.once = "done"
        /\ e.file = Absent \/ e.toks = scanRaw(e.file, u)

\* Units with the same scanner settings that opened a header by the same
\* shareable route work from the same tokens, even if the file was edited
\* between their two opens.
Agreement ==
  \A u, v \in Units, d \in Displays :
    /\ ModeOf[u] = ModeOf[v]
    /\ files[u][d] # None
    /\ files[v][d] # None
    /\ files[u][d].via = files[v][d].via
    /\ files[u][d].via \in Shareable
    => files[u][d].toks = files[v][d].toks

\* What a key's outcome is, once its entry is finished (refinement mapping).
Settled(k) ==
  IF m[k] = None THEN None
  ELSE LET e == heap[m[k]][k]
       IN  IF e.once # "done" THEN None
           ELSE IF e.file = Absent THEN Absent ELSE e.toks

Store == INSTANCE HeaderStore WITH val <- [k \in Keys |-> Settled(k)]

\* The mutex, the entries and sync.Once together behave as a map that settles
\* every key atomically and for good.
ImplementsStore == Store!Spec

\* A unit that starts to open a file gets out of open again: nobody waits for
\* ever on the cache's mutex or on another unit's read.
OpenReturns == \A u \in Units : pc[u] = "lock" ~> pc[u] = "idle"
-----------------------------------------------------------------------------
HoldsEntry(u) == pc[u] \in {"unlock", "once", "read", "scan", "return", "got"}
Reading(u) == pc[u] \in {"read", "scan", "return"}

\* Filled entries are whole: a failure, or a file and its tokens.
Filled(e, k) ==
  \/ e.file = Absent
  \/ e.file \in Contents /\ e.toks = <<e.file, k[2]>>

\* Who holds the mutex and the entry it looks at.
UnitInv(u) ==
  /\ InCritical(u) => mu = u
  /\ pc[u] # "idle" => /\ arg[u] \in Shareable
                       /\ files[u][DisplayOf[arg[u]]] = None
  /\ pc[u] = "insert" => m[KeyOf(u)] = None
  /\ HoldsEntry(u) => ent[u] \in Units /\ m[KeyOf(u)] = ent[u]
  /\ Reading(u) => heap[ent[u]][KeyOf(u)].once = "running"
  /\ pc[u] = "read" => reads[KeyOf(u)] = 0
  /\ pc[u] = "scan" => heap[ent[u]][KeyOf(u)].file \in Contents
  /\ pc[u] = "return" => Filled(heap[ent[u]][KeyOf(u)], KeyOf(u))
  /\ pc[u] = "got" => heap[ent[u]][KeyOf(u)].once = "done"

\* One unit at most fills the entry of a key.
OneReader ==
  \A u, v \in Units : Reading(u) /\ Reading(v) /\ KeyOf(u) = KeyOf(v) => u = v

\* How far the entry the map holds for a key has come.
EntryInv(k) ==
  /\ m[k] = None => reads[k] = 0
  /\ m[k] # None => LET e == heap[m[k]][k]
                    IN  /\ e.once = "new" => reads[k] = 0
                        /\ e.once = "done" => Filled(e, k)

\* A unit's own map holds what the shared map settled on.
FilesInv(u, d) ==
  files[u][d] # None /\ files[u][d].via \in Shareable =>
    Settled(<<files[u][d].via, ModeOf[u]>>) = files[u][d].toks

\* The inductive invariant behind ReadOnce, WholeEntry and Agreement: the
\* mutex protects lookup and insert of Cache.entry, the once protects the entry.
IInv ==
  /\ TypeOK
  /\ ReadOnce
  /\ OneReader
  /\ \A u \in Units : UnitInv(u)
  /\ \A k \in Keys : EntryInv(k)
  /\ \A u \in Units, d \in Displays : FilesInv(u, d)
=============================================================================
