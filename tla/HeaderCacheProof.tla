-------------------------- MODULE HeaderCacheProof --------------------------
(***************************************************************************)
(* Proofs about the shared header cache, for any set of units, routes and   *)
(* files: the inductive invariant IInv, and from it that a key is read once, *)
(* that no unit sees a half-filled entry and that units agree.              *)
(***************************************************************************)
EXTENDS HeaderCache, TLAPS

USE ConstantsAssumption

\* The initial state of a build, with an empty Cache, satisfies the invariant.
LEMMA InitIInv == Init => IInv
BY DEF Init, IInv, TypeOK, ReadOnce, OneReader, UnitInv, EntryInv, FilesInv,
       Reading, HoldsEntry, InCritical, Keys, Entry, NewEntry, File

\* Changing one entry of the heap leaves every other entry alone.
LEMMA HeapUpdate ==
  ASSUME NEW h \in [Units -> [Keys -> Entry]], NEW w \in Units, NEW K \in Keys,
         NEW x \in Entry
  PROVE  /\ [h EXCEPT ![w][K] = x] \in [Units -> [Keys -> Entry]]
         /\ [h EXCEPT ![w][K] = x][w][K] = x
         /\ \A y \in Units, k \in Keys :
              y # w \/ k # K => [h EXCEPT ![w][K] = x][y][k] = h[y][k]
OBVIOUS

\* The types of the entries and of the map, as facts of their own.
LEMMA HeapType ==
  ASSUME IInv
  PROVE  /\ heap \in [Units -> [Keys -> Entry]]
         /\ \A y \in Units, k \in Keys : heap[y][k] \in Entry
         /\ \A k \in Keys : m[k] \in Units \cup {None}
<1>1. heap \in [Units -> [Keys -> Entry]] /\ m \in [Keys -> Units \cup {None}]
  BY DEF IInv, TypeOK
<1> QED BY <1>1

\* A unit inside Cache.entry works on a key of the cache.
LEMMA KeyInKeys ==
  ASSUME IInv, NEW u \in Units, pc[u] # "idle"
  PROVE  KeyOf(u) \in Keys /\ arg[u] \in Routes
BY DEF IInv, UnitInv, KeyOf, Keys

\* A unit's own map stays right in a step that leaves it alone and changes no
\* settled outcome.
LEMMA FilesFrame ==
  ASSUME IInv, files' = files,
         \A k \in Keys : Settled(k) # None => Settled(k)' = Settled(k)
  PROVE  \A v \in Units, d \in Displays : FilesInv(v, d)'
<1> SUFFICES ASSUME NEW v \in Units, NEW d \in Displays,
                    files[v][d] # None, files[v][d].via \in Shareable
             PROVE  Settled(<<files[v][d].via, ModeOf[v]>>)' = files[v][d].toks
  BY DEF FilesInv
<1> DEFINE k == <<files[v][d].via, ModeOf[v]>>
<1>1. k \in Keys
  BY DEF Keys
<1>2. Settled(k) = files[v][d].toks
  BY DEF IInv, FilesInv
<1>3. files[v][d].toks \in Tokens
  BY DEF IInv, TypeOK, Opened
<1>4. Settled(k) # None
  BY <1>2, <1>3, OutcomesDistinct DEF Tokens
<1>5. Settled(k)' = Settled(k)
  BY <1>1, <1>4
<1> QED BY <1>2, <1>5

\* A unit keeps its part of the invariant in a step of another unit that
\* leaves alone the mutex it holds, its key's place in the map, its entry once
\* it relies on it, and its key's reads.
LEMMA OtherUnit ==
  ASSUME IInv, NEW v \in Units,
         pc'[v] = pc[v], arg'[v] = arg[v], ent'[v] = ent[v], files'[v] = files[v],
         InCritical(v) => mu' = mu,
         pc[v] = "insert" \/ HoldsEntry(v) => m'[KeyOf(v)] = m[KeyOf(v)],
         Reading(v) \/ pc[v] = "got" =>
           heap'[ent[v]][KeyOf(v)] = heap[ent[v]][KeyOf(v)],
         pc[v] = "read" => reads'[KeyOf(v)] = reads[KeyOf(v)]
  PROVE  UnitInv(v)'
<1>1. UnitInv(v)
  BY DEF IInv
<1>2. KeyOf(v)' = KeyOf(v)
  BY DEF KeyOf
<1>3. InCritical(v)' = InCritical(v) /\ HoldsEntry(v)' = HoldsEntry(v) /\ Reading(v)' = Reading(v)
  BY DEF InCritical, HoldsEntry, Reading
<1>4. pc[v] \in {"scan", "return", "read"} => Reading(v)
  BY DEF Reading
<1> QED BY <1>1, <1>2, <1>3, <1>4 DEF UnitInv, Filled

\* Starting an open in front of the cache preserves the invariant.
LEMMA OpenIInv ==
  ASSUME NEW u \in Units, NEW r \in Routes, IInv, Open(u, r)
  PROVE  IInv'
<1>1. TypeOK'
  BY DEF IInv, TypeOK, Open
<1>2. ReadOnce' /\ OneReader'
  BY DEF IInv, TypeOK, ReadOnce, OneReader, Open, KeyOf, Reading
<1>3. ASSUME NEW v \in Units PROVE UnitInv(v)'
  <2>1. CASE v = u
    <3>1. pc'[u] = "lock" /\ arg'[u] = r /\ r \in Shareable /\ files'[u][DisplayOf[r]] = None
      BY DEF IInv, TypeOK, Open
    <3> QED BY <2>1, <3>1 DEF UnitInv, Reading, HoldsEntry, InCritical
  <2>2. CASE v # u
    <3>1. pc'[v] = pc[v] /\ arg'[v] = arg[v] /\ ent'[v] = ent[v] /\ files'[v] = files[v]
      BY <2>2 DEF IInv, TypeOK, Open
    <3>2. InCritical(v) => mu' = mu
      BY <2>2 DEF IInv, UnitInv, InCritical, Open
    <3> QED BY <3>1, <3>2, OtherUnit DEF Open
  <2> QED BY <2>1, <2>2
<1>4. ASSUME NEW k \in Keys PROVE EntryInv(k)'
  BY DEF IInv, EntryInv, Filled, Open
<1>5. \A v \in Units, d \in Displays : FilesInv(v, d)'
  BY FilesFrame DEF Settled, Open
<1> QED BY <1>1, <1>2, <1>3, <1>4, <1>5 DEF IInv

\* Reading a file past the cache preserves the invariant.
LEMMA OpenDirectIInv ==
  ASSUME NEW u \in Units, NEW r \in Routes, IInv, OpenDirect(u, r)
  PROVE  IInv'
<1>1. TypeOK'
  BY DEF IInv, TypeOK, OpenDirect, Opened, Tokens, scanRaw
<1>2. ReadOnce' /\ OneReader'
  BY DEF IInv, TypeOK, ReadOnce, OneReader, OpenDirect, KeyOf, Reading
<1>3. ASSUME NEW v \in Units PROVE UnitInv(v)'
  <2>1. CASE v = u
    BY <2>1, KeyInKeys DEF IInv, TypeOK, UnitInv, OpenDirect, KeyOf, Reading, HoldsEntry, InCritical, Filled
  <2>2. CASE v # u
    <3>1. pc'[v] = pc[v] /\ arg'[v] = arg[v] /\ ent'[v] = ent[v] /\ files'[v] = files[v]
      BY <2>2 DEF IInv, TypeOK, OpenDirect
    <3>2. InCritical(v) => mu' = mu
      BY <2>2 DEF IInv, UnitInv, InCritical, OpenDirect
    <3> QED BY <3>1, <3>2, OtherUnit DEF OpenDirect
  <2> QED BY <2>1, <2>2
<1>4. ASSUME NEW k \in Keys PROVE EntryInv(k)'
  BY DEF IInv, EntryInv, Filled, OpenDirect
<1>5. ASSUME NEW v \in Units, NEW d \in Displays PROVE FilesInv(v, d)'
  <2>1. CASE v = u /\ d = DisplayOf[r]
    <3>1. files'[v][d].via = r
      BY <2>1 DEF IInv, TypeOK, OpenDirect
    <3> QED BY <3>1 DEF OpenDirect, FilesInv
  <2>2. CASE v # u \/ d # DisplayOf[r]
    <3>1. files'[v][d] = files[v][d]
      BY <2>2 DEF IInv, TypeOK, OpenDirect
    <3>2. FilesInv(v, d)
      BY DEF IInv
    <3>3. \A k \in Keys : Settled(k)' = Settled(k)
      BY DEF OpenDirect, Settled
    <3>4. files[v][d] # None /\ files[v][d].via \in Shareable =>
            <<files[v][d].via, ModeOf[v]>> \in Keys
      BY DEF Keys
    <3> QED BY <3>1, <3>2, <3>3, <3>4 DEF FilesInv
  <2> QED BY <2>1, <2>2
<1> QED BY <1>1, <1>2, <1>3, <1>4, <1>5 DEF IInv

\* Cache.entry taking the mutex preserves the invariant.
LEMMA LockIInv ==
  ASSUME NEW u \in Units, IInv, Lock(u)
  PROVE  IInv'
<1>1. TypeOK'
  BY DEF IInv, TypeOK, Lock
<1>2. ReadOnce' /\ OneReader'
  BY DEF IInv, TypeOK, ReadOnce, OneReader, Lock, KeyOf, Reading
<1>3. ASSUME NEW v \in Units PROVE UnitInv(v)'
  <2>1. CASE v = u
    BY Zenon, <2>1, KeyInKeys DEF IInv, TypeOK, UnitInv, Lock, KeyOf, Reading, HoldsEntry, InCritical, Filled
  <2>2. CASE v # u
    <3>1. pc'[v] = pc[v] /\ arg'[v] = arg[v] /\ ent'[v] = ent[v] /\ files'[v] = files[v]
      BY <2>2 DEF IInv, TypeOK, Lock
    <3>2. InCritical(v) => mu' = mu
      BY <2>2 DEF IInv, UnitInv, InCritical, Lock
    <3> QED BY <3>1, <3>2, OtherUnit DEF Lock
  <2> QED BY <2>1, <2>2
<1>4. ASSUME NEW k \in Keys PROVE EntryInv(k)'
  BY DEF IInv, EntryInv, Filled, Lock
<1>5. \A v \in Units, d \in Displays : FilesInv(v, d)'
  BY FilesFrame DEF Settled, Lock
<1> QED BY <1>1, <1>2, <1>3, <1>4, <1>5 DEF IInv

\* The map lookup of Cache.entry preserves the invariant.
LEMMA LookupIInv ==
  ASSUME NEW u \in Units, IInv, Lookup(u)
  PROVE  IInv'
<1>1. TypeOK'
  BY Zenon DEF IInv, TypeOK, UnitInv, Lookup, KeyOf, Reading, HoldsEntry, InCritical, Keys, Entry, NewEntry, File, Tokens, Opened, scanRaw
<1>2. ReadOnce' /\ OneReader'
  BY DEF IInv, TypeOK, ReadOnce, OneReader, Lookup, KeyOf, Reading
<1>3. ASSUME NEW v \in Units PROVE UnitInv(v)'
  <2>1. CASE v = u
    <3>1. KeyOf(u) \in Keys /\ m[KeyOf(u)] \in Units \cup {None} /\ UnitInv(u)
      BY KeyInKeys DEF IInv, TypeOK, Lookup
    <3>2. /\ KeyOf(u)' = KeyOf(u) /\ arg'[u] = arg[u] /\ ent'[u] = m[KeyOf(u)]
          /\ pc'[u] = IF m[KeyOf(u)] = None THEN "insert" ELSE "unlock"
      BY DEF IInv, TypeOK, Lookup, KeyOf
    <3>3. /\ pc[u] = "lookup" /\ mu' = mu /\ m' = m /\ files' = files
      BY DEF Lookup
    <3>4. CASE m[KeyOf(u)] = None
      BY <2>1, <3>1, <3>2, <3>3, <3>4 DEF UnitInv, Reading, HoldsEntry, InCritical
    <3>5. CASE m[KeyOf(u)] \in Units
      BY <2>1, <3>1, <3>2, <3>3, <3>5 DEF UnitInv, Reading, HoldsEntry, InCritical
    <3> QED BY <3>1, <3>4, <3>5
  <2>2. CASE v # u
    <3>1. pc'[v] = pc[v] /\ arg'[v] = arg[v] /\ ent'[v] = ent[v] /\ files'[v] = files[v]
      BY <2>2 DEF IInv, TypeOK, Lookup
    <3>2. InCritical(v) => mu' = mu
      BY <2>2 DEF IInv, UnitInv, InCritical, Lookup
    <3> QED BY <3>1, <3>2, OtherUnit DEF Lookup
  <2> QED BY <2>1, <2>2
<1>4. ASSUME NEW k \in Keys PROVE EntryInv(k)'
  BY DEF IInv, EntryInv, Filled, Lookup
<1>5. \A v \in Units, d \in Displays : FilesInv(v, d)'
  BY FilesFrame DEF Settled, Lookup
<1> QED BY <1>1, <1>2, <1>3, <1>4, <1>5 DEF IInv

\* Cache.entry releasing the mutex preserves the invariant.
LEMMA UnlockIInv ==
  ASSUME NEW u \in Units, IInv, Unlock(u)
  PROVE  IInv'
<1>1. TypeOK'
  BY DEF IInv, TypeOK, Unlock
<1>2. ReadOnce' /\ OneReader'
  BY DEF IInv, TypeOK, ReadOnce, OneReader, Unlock, KeyOf, Reading
<1>3. ASSUME NEW v \in Units PROVE UnitInv(v)'
  <2>1. CASE v = u
    BY Zenon, <2>1, KeyInKeys DEF IInv, TypeOK, UnitInv, Unlock, KeyOf, Reading, HoldsEntry, InCritical, Filled
  <2>2. CASE v # u
    <3>1. pc'[v] = pc[v] /\ arg'[v] = arg[v] /\ ent'[v] = ent[v] /\ files'[v] = files[v]
      BY <2>2 DEF IInv, TypeOK, Unlock
    <3>2. InCritical(v) => mu' = mu
      BY <2>2 DEF IInv, UnitInv, InCritical, Unlock
    <3> QED BY <3>1, <3>2, OtherUnit DEF Unlock
  <2> QED BY <2>1, <2>2
<1>4. ASSUME NEW k \in Keys PROVE EntryInv(k)'
  BY DEF IInv, EntryInv, Filled, Unlock
<1>5. \A v \in Units, d \in Displays : FilesInv(v, d)'
  BY FilesFrame DEF Settled, Unlock
<1> QED BY <1>1, <1>2, <1>3, <1>4, <1>5 DEF IInv

\* Returning from a finished once preserves the invariant.
LEMMA OnceWaitIInv ==
  ASSUME NEW u \in Units, IInv, OnceWait(u)
  PROVE  IInv'
<1>1. TypeOK'
  BY DEF IInv, TypeOK, OnceWait
<1>2. ReadOnce' /\ OneReader'
  BY DEF IInv, TypeOK, ReadOnce, OneReader, OnceWait, KeyOf, Reading
<1>3. ASSUME NEW v \in Units PROVE UnitInv(v)'
  <2>1. CASE v = u
    BY Zenon, <2>1, KeyInKeys DEF IInv, TypeOK, UnitInv, OnceWait, KeyOf, Reading, HoldsEntry, InCritical, Filled
  <2>2. CASE v # u
    <3>1. pc'[v] = pc[v] /\ arg'[v] = arg[v] /\ ent'[v] = ent[v] /\ files'[v] = files[v]
      BY <2>2 DEF IInv, TypeOK, OnceWait
    <3>2. InCritical(v) => mu' = mu
      BY <2>2 DEF IInv, UnitInv, InCritical, OnceWait
    <3> QED BY Zenon, <3>1, <3>2, OtherUnit DEF OnceWait
  <2> QED BY <2>1, <2>2
<1>4. ASSUME NEW k \in Keys PROVE EntryInv(k)'
  BY DEF IInv, EntryInv, Filled, OnceWait
<1>5. \A v \in Units, d \in Displays : FilesInv(v, d)'
  BY FilesFrame DEF Settled, OnceWait
<1> QED BY <1>1, <1>2, <1>3, <1>4, <1>5 DEF IInv

\* Inserting a fresh entry under the mutex preserves the invariant.
LEMMA InsertIInv ==
  ASSUME NEW u \in Units, IInv, Insert(u)
  PROVE  IInv'
<1> DEFINE K == KeyOf(u)
           w == u
           x == NewEntry
<1>1. K \in Keys /\ arg[u] \in Routes
  BY KeyInKeys DEF Insert
<1>2. w \in Units
  BY DEF IInv, UnitInv, Insert, HoldsEntry
<1>3. x \in Entry
  BY DEF NewEntry, Entry, File
<1>4. heap' = [heap EXCEPT ![w][K] = x]
  BY <1>1, <1>2 DEF IInv, TypeOK, Insert
<1> HIDE DEF K, w, x
<1>5. /\ heap' \in [Units -> [Keys -> Entry]]
      /\ heap'[w][K] = x
      /\ \A y \in Units, k \in Keys : y # w \/ k # K => heap'[y][k] = heap[y][k]
  BY <1>1, <1>2, <1>3, <1>4, HeapUpdate, HeapType
<1>6. TypeOK'
  BY <1>1, <1>5 DEF IInv, TypeOK, Insert, KeyOf, K
<1>7. m[K] = None
  BY DEF IInv, UnitInv, Insert, HoldsEntry, K, w
<1>10. x.once = "new"
  BY DEF x, NewEntry
<1>11. \A v \in Units : v # u => /\ pc'[v] = pc[v] /\ arg'[v] = arg[v] /\ ent'[v] = ent[v]
                              /\ files'[v] = files[v] /\ KeyOf(v)' = KeyOf(v)
  BY DEF IInv, TypeOK, Insert, KeyOf
<1>12. /\ pc[u] = "insert" /\ pc'[u] = "unlock" /\ arg'[u] = arg[u]
       /\ ent'[u] = w /\ files'[u] = files[u] /\ KeyOf(u)' = K
  BY DEF IInv, TypeOK, Insert, KeyOf, K, w
<1>13. \A v \in Units : UnitInv(v)
  BY DEF IInv
<1>14. reads' = reads
  BY DEF Insert
<1>15. ReadOnce'
  BY <1>14 DEF IInv, ReadOnce
<1>16. OneReader'
  <2>1. \A v \in Units : Reading(v)' => Reading(v) /\ KeyOf(v)' = KeyOf(v)
    BY <1>11, <1>12 DEF Reading, K
  <2> QED BY <2>1 DEF IInv, OneReader
<1>17. ASSUME NEW v \in Units PROVE UnitInv(v)'
  <2>1. CASE v = u
    <3>1. m'[K] = u /\ mu' = mu /\ w = u
      BY <1>1 DEF IInv, TypeOK, Insert, K, w
    <3> QED BY ZenonT(40), <2>1, <3>1, <1>12, <1>13 DEF UnitInv, Reading, HoldsEntry, InCritical
  <2>2. CASE v # u
    <3>1. pc[v] # "idle" => KeyOf(v) \in Keys
      BY KeyInKeys
    <3>2. m'[K] = u /\ mu' = mu /\ w = u /\ \A k \in Keys : k # K => m'[k] = m[k]
      BY <1>1 DEF IInv, TypeOK, Insert, K, w
    <3>3. pc[v] # "insert"
      BY <2>2, <1>12, <1>13 DEF UnitInv, InCritical
    <3>4. HoldsEntry(v) => KeyOf(v) # K
      BY <1>7, <1>13 DEF UnitInv, HoldsEntry
    <3>5. HoldsEntry(v) => heap'[ent[v]][KeyOf(v)] = heap[ent[v]][KeyOf(v)]
      <4>1. HoldsEntry(v) => pc[v] # "idle" /\ ent[v] \in Units
        BY <1>13 DEF UnitInv, HoldsEntry
      <4> QED BY <3>1, <3>4, <4>1, <1>5
    <3>6. HoldsEntry(v) => m'[KeyOf(v)] = m[KeyOf(v)]
      BY <3>1, <3>2, <3>4 DEF HoldsEntry
    <3>7. Reading(v) \/ pc[v] = "got" => HoldsEntry(v)
      BY DEF Reading, HoldsEntry
    <3> QED BY <2>2, <3>2, <3>3, <3>5, <3>6, <3>7, <1>11, <1>14, OtherUnit
  <2> QED BY <2>1, <2>2
<1>18. ASSUME NEW k \in Keys PROVE EntryInv(k)'
  <2>1. m'[K] = u /\ w = u /\ \A j \in Keys : j # K => m'[j] = m[j]
    BY <1>1 DEF IInv, TypeOK, Insert, K, w
  <2>2. m[k] \in Units \cup {None} /\ EntryInv(k)
    BY DEF IInv, TypeOK
  <2>3. CASE k = K
    BY <2>1, <2>2, <2>3, <1>5, <1>7, <1>10, <1>14 DEF EntryInv
  <2>4. CASE k # K
    <3>1. m[k] # None => heap'[m[k]][k] = heap[m[k]][k]
      BY <2>2, <2>4, <1>5
    <3> QED BY <2>1, <2>2, <2>4, <3>1, <1>14 DEF EntryInv, Filled
  <2> QED BY <2>3, <2>4
<1>19. ASSUME NEW k \in Keys, Settled(k) # None PROVE Settled(k)' = Settled(k)
  <2>1. \A j \in Keys : j # K => m'[j] = m[j]
    BY <1>1 DEF IInv, TypeOK, Insert, K
  <2>2. k # K /\ m[k] \in Units
    BY <1>7, <1>19 DEF IInv, TypeOK, Settled
  <2>3. heap'[m[k]][k] = heap[m[k]][k]
    BY <2>2, <1>5
  <2> QED BY <2>1, <2>2, <2>3 DEF Settled
<1>20. \A v \in Units, d \in Displays : FilesInv(v, d)'
  BY <1>19, FilesFrame DEF Insert
<1> QED BY <1>6, <1>15, <1>16, <1>17, <1>18, <1>20 DEF IInv

\* Becoming the one reader of an entry preserves the invariant.
LEMMA OnceRunIInv ==
  ASSUME NEW u \in Units, IInv, OnceRun(u)
  PROVE  IInv'
<1> DEFINE K == KeyOf(u)
           w == ent[u]
           x == [heap[ent[u]][KeyOf(u)] EXCEPT !.once = "running"]
<1>1. K \in Keys /\ arg[u] \in Routes
  BY KeyInKeys DEF OnceRun
<1>2. w \in Units
  BY DEF IInv, UnitInv, OnceRun, HoldsEntry
<1>3. x \in Entry
  <2>1. heap[w][K] \in Entry
    BY <1>1, <1>2, HeapType
  <2> QED BY <2>1 DEF Entry
<1>4. heap' = [heap EXCEPT ![w][K] = x]
  BY <1>1, <1>2 DEF IInv, TypeOK, OnceRun
<1> HIDE DEF K, w, x
<1>5. /\ heap' \in [Units -> [Keys -> Entry]]
      /\ heap'[w][K] = x
      /\ \A y \in Units, k \in Keys : y # w \/ k # K => heap'[y][k] = heap[y][k]
  BY <1>1, <1>2, <1>3, <1>4, HeapUpdate, HeapType
<1>6. TypeOK'
  BY <1>1, <1>5 DEF IInv, TypeOK, OnceRun, KeyOf, K
<1>7. m[K] = w
  BY DEF IInv, UnitInv, OnceRun, HoldsEntry, K, w
<1>8. heap[w][K].once = "new"
  BY DEF IInv, UnitInv, Reading, OnceRun, K, w
<1>9. m' = m /\ files' = files /\ mu' = mu
  BY DEF OnceRun
<1>10. x.once = "running"
  BY <1>1, <1>2 DEF x, IInv, TypeOK, Entry, w, K
<1>11. \A v \in Units : v # u => /\ pc'[v] = pc[v] /\ arg'[v] = arg[v] /\ ent'[v] = ent[v]
                              /\ files'[v] = files[v] /\ KeyOf(v)' = KeyOf(v)
  BY DEF IInv, TypeOK, OnceRun, KeyOf
<1>12. /\ pc[u] = "once" /\ pc'[u] = "read" /\ arg'[u] = arg[u]
       /\ ent'[u] = w /\ files'[u] = files[u] /\ KeyOf(u)' = K
  BY DEF IInv, TypeOK, OnceRun, KeyOf, K, w
<1>13. \A v \in Units : UnitInv(v)
  BY DEF IInv
<1>14. reads' = reads
  BY DEF OnceRun
<1>15. ReadOnce'
  BY <1>14 DEF IInv, ReadOnce
<1>16. OneReader'
  <2>1. ASSUME NEW v \in Units, v # u, Reading(v)' PROVE KeyOf(v)' # K
    <3>1. Reading(v) /\ HoldsEntry(v) /\ KeyOf(v)' = KeyOf(v) /\ UnitInv(v)
      BY <2>1, <1>11, <1>13 DEF Reading, HoldsEntry
    <3>2. heap[m[KeyOf(v)]][KeyOf(v)].once = "running"
      BY <3>1 DEF UnitInv
    <3> QED BY <3>1, <3>2, <1>7, <1>8
  <2>2. ASSUME NEW v \in Units, NEW z \in Units, v # u, z # u, Reading(v)', Reading(z)', KeyOf(v)' = KeyOf(z)'
        PROVE  v = z
    BY Zenon, <2>2, <1>11 DEF IInv, OneReader, Reading
  <2> QED BY <2>1, <2>2, <1>12 DEF OneReader
<1>17. ASSUME NEW v \in Units PROVE UnitInv(v)'
  <2>1. CASE v = u
    <3>1. reads[K] = 0
      BY <1>1, <1>2, <1>7, <1>8 DEF IInv, EntryInv
    <3>2. heap'[ent'[u]][KeyOf(u)'].once = "running" /\ m'[KeyOf(u)'] = ent'[u] /\ ent'[u] \in Units
      BY ZenonT(40), <1>2, <1>5, <1>7, <1>9, <1>10, <1>12
    <3> QED BY Zenon, <2>1, <3>1, <3>2, <1>12, <1>13, <1>14
       DEF UnitInv, Reading, HoldsEntry, InCritical
  <2>2. CASE v # u
    <3>1. pc[v] # "idle" => KeyOf(v) \in Keys
      BY KeyInKeys
    <3>2. HoldsEntry(v) /\ KeyOf(v) = K => pc[v] \in {"unlock", "once"}
      BY <1>7, <1>8, <1>13 DEF UnitInv, HoldsEntry, Reading
    <3>3. Reading(v) \/ pc[v] = "got" => heap'[ent[v]][KeyOf(v)] = heap[ent[v]][KeyOf(v)]
      <4>1. Reading(v) \/ pc[v] = "got" => HoldsEntry(v) /\ pc[v] # "idle" /\ KeyOf(v) # K
        BY <3>2 DEF HoldsEntry, Reading
      <4>2. HoldsEntry(v) => ent[v] \in Units
        BY <1>13 DEF UnitInv
      <4> QED BY <3>1, <4>1, <4>2, <1>5
    <3>4. pc[v] = "read" => reads'[KeyOf(v)] = reads[KeyOf(v)]
      BY <3>1, <3>2, <1>14 DEF HoldsEntry
    <3> QED BY <2>2, <3>3, <3>4, <1>9, <1>11, OtherUnit
  <2> QED BY <2>1, <2>2
<1>18. ASSUME NEW k \in Keys PROVE EntryInv(k)'
  <2>1. m[k] \in Units \cup {None} /\ EntryInv(k)
    BY DEF IInv, TypeOK
  <2>2. CASE k = K
    BY <2>1, <2>2, <1>2, <1>5, <1>7, <1>9, <1>10 DEF EntryInv
  <2>3. CASE k # K
    <3>1. m[k] # None => heap'[m[k]][k] = heap[m[k]][k]
      BY <2>1, <2>3, <1>5
    <3> QED BY <2>1, <2>3, <3>1, <1>9, <1>14 DEF EntryInv, Filled
  <2> QED BY <2>2, <2>3
<1>19. ASSUME NEW k \in Keys, Settled(k) # None PROVE Settled(k)' = Settled(k)
  <2>1. k # K /\ m[k] \in Units
    BY <1>2, <1>7, <1>8, <1>19 DEF IInv, TypeOK, Settled
  <2>2. heap'[m[k]][k] = heap[m[k]][k]
    BY <2>1, <1>5
  <2> QED BY <2>1, <2>2, <1>9 DEF Settled
<1>20. \A v \in Units, d \in Displays : FilesInv(v, d)'
  BY <1>9, <1>19, FilesFrame
<1> QED BY <1>6, <1>15, <1>16, <1>17, <1>18, <1>20 DEF IInv

\* Reading the file, found or not, preserves the invariant.
LEMMA ReadFileIInv ==
  ASSUME NEW u \in Units, IInv, ReadFile(u)
  PROVE  IInv'
<1> DEFINE K == KeyOf(u)
           w == ent[u]
           x == [heap[ent[u]][KeyOf(u)] EXCEPT !.file = disk[DisplayOf[arg[u]]]]
<1>1. K \in Keys /\ arg[u] \in Routes
  BY KeyInKeys DEF ReadFile
<1>2. w \in Units
  BY DEF IInv, UnitInv, ReadFile, HoldsEntry
<1>3. x \in Entry
  <2>1. disk[DisplayOf[arg[u]]] \in File
    BY <1>1 DEF IInv, TypeOK, File
  <2>2. heap[w][K] \in Entry
    BY <1>1, <1>2, HeapType
  <2> QED BY <2>1, <2>2 DEF Entry
<1>4. heap' = [heap EXCEPT ![w][K] = x]
  BY <1>1, <1>2 DEF IInv, TypeOK, ReadFile
<1> HIDE DEF K, w, x
<1>5. /\ heap' \in [Units -> [Keys -> Entry]]
      /\ heap'[w][K] = x
      /\ \A y \in Units, k \in Keys : y # w \/ k # K => heap'[y][k] = heap[y][k]
  BY <1>1, <1>2, <1>3, <1>4, HeapUpdate, HeapType
<1>6. TypeOK'
  BY <1>1, <1>5 DEF IInv, TypeOK, ReadFile, KeyOf, K
<1>7. m[K] = w
  BY DEF IInv, UnitInv, ReadFile, HoldsEntry, K, w
<1>8. heap[w][K].once = "running"
  BY DEF IInv, UnitInv, Reading, ReadFile, K, w
<1>9. m' = m /\ files' = files /\ mu' = mu
  BY DEF ReadFile
<1>10. x.once = "running" /\ x.file = disk[DisplayOf[arg[u]]]
  BY <1>1, <1>2, <1>8 DEF x, IInv, TypeOK, Entry, w, K
<1>11. \A v \in Units : v # u => /\ pc'[v] = pc[v] /\ arg'[v] = arg[v] /\ ent'[v] = ent[v]
                              /\ files'[v] = files[v] /\ KeyOf(v)' = KeyOf(v)
  BY DEF IInv, TypeOK, ReadFile, KeyOf
<1>12. /\ pc[u] = "read" /\ pc'[u] = (IF disk[DisplayOf[arg[u]]] = Absent THEN "return" ELSE "scan") /\ arg'[u] = arg[u]
       /\ ent'[u] = w /\ files'[u] = files[u] /\ KeyOf(u)' = K
  BY DEF IInv, TypeOK, ReadFile, KeyOf, K, w
<1>13. \A v \in Units : UnitInv(v)
  BY DEF IInv
<1>14. reads'[K] = 1 /\ \A k \in Keys : k # K => reads'[k] = reads[k]
  BY <1>1, <1>12, <1>13 DEF IInv, TypeOK, UnitInv, ReadFile, K
<1>15. ReadOnce'
  BY <1>14 DEF IInv, ReadOnce
<1>16. OneReader'
  <2>1. \A v \in Units : Reading(v)' => Reading(v) /\ KeyOf(v)' = KeyOf(v)
    BY <1>11, <1>12 DEF Reading, K
  <2> QED BY <2>1 DEF IInv, OneReader
<1>17. ASSUME NEW v \in Units PROVE UnitInv(v)'
  <2>1. CASE v = u
    <3>1. disk[DisplayOf[arg[u]]] \in Contents \cup {Absent}
      BY <1>1 DEF IInv, TypeOK
    <3>2. /\ ent'[u] \in Units /\ m'[KeyOf(u)'] = ent'[u]
          /\ heap'[ent'[u]][KeyOf(u)'] = x
      BY <1>2, <1>5, <1>7, <1>9, <1>12
    <3>3. pc[u] # "idle" /\ UnitInv(u)
      BY <1>12, <1>13
    <3> QED BY <2>1, <3>1, <3>2, <3>3, <1>9, <1>10, <1>12
       DEF UnitInv, Reading, HoldsEntry, InCritical, Filled
  <2>2. CASE v # u
    <3>1. pc[v] # "idle" => KeyOf(v) \in Keys
      BY KeyInKeys
    <3>2. HoldsEntry(v) /\ KeyOf(v) = K => pc[v] \in {"unlock", "once"}
      <4>1. Reading(u) /\ OneReader
        BY <1>12 DEF Reading, IInv
      <4>2. Reading(v) => KeyOf(v) # K
        BY <2>2, <4>1 DEF OneReader, K
      <4>3. pc[v] = "got" => KeyOf(v) # K
        BY <1>7, <1>8, <1>13 DEF UnitInv, HoldsEntry
      <4> QED BY <4>2, <4>3 DEF HoldsEntry, Reading
    <3>3. Reading(v) \/ pc[v] = "got" => heap'[ent[v]][KeyOf(v)] = heap[ent[v]][KeyOf(v)]
      <4>1. Reading(v) \/ pc[v] = "got" => HoldsEntry(v) /\ pc[v] # "idle" /\ KeyOf(v) # K
        BY <3>2 DEF HoldsEntry, Reading
      <4>2. HoldsEntry(v) => ent[v] \in Units
        BY <1>13 DEF UnitInv
      <4> QED BY <3>1, <4>1, <4>2, <1>5
    <3>4. pc[v] = "read" => reads'[KeyOf(v)] = reads[KeyOf(v)]
      BY <3>1, <3>2, <1>14 DEF HoldsEntry
    <3> QED BY <2>2, <3>3, <3>4, <1>9, <1>11, OtherUnit
  <2> QED BY <2>1, <2>2
<1>18. ASSUME NEW k \in Keys PROVE EntryInv(k)'
  <2>1. m[k] \in Units \cup {None} /\ EntryInv(k)
    BY DEF IInv, TypeOK
  <2>2. CASE k = K
    BY <2>1, <2>2, <1>2, <1>5, <1>7, <1>9, <1>10 DEF EntryInv
  <2>3. CASE k # K
    <3>1. m[k] # None => heap'[m[k]][k] = heap[m[k]][k]
      BY <2>1, <2>3, <1>5
    <3> QED BY <2>1, <2>3, <3>1, <1>9, <1>14 DEF EntryInv, Filled
  <2> QED BY <2>2, <2>3
<1>19. ASSUME NEW k \in Keys, Settled(k) # None PROVE Settled(k)' = Settled(k)
  <2>1. k # K /\ m[k] \in Units
    BY <1>2, <1>7, <1>8, <1>19 DEF IInv, TypeOK, Settled
  <2>2. heap'[m[k]][k] = heap[m[k]][k]
    BY <2>1, <1>5
  <2> QED BY <2>1, <2>2, <1>9 DEF Settled
<1>20. \A v \in Units, d \in Displays : FilesInv(v, d)'
  BY <1>9, <1>19, FilesFrame
<1> QED BY <1>6, <1>15, <1>16, <1>17, <1>18, <1>20 DEF IInv

\* Scanning the file just read preserves the invariant.
LEMMA ScanFileIInv ==
  ASSUME NEW u \in Units, IInv, ScanFile(u)
  PROVE  IInv'
<1> DEFINE K == KeyOf(u)
           w == ent[u]
           x == [heap[ent[u]][KeyOf(u)] EXCEPT !.toks = scanRaw(heap[ent[u]][KeyOf(u)].file, u)]
<1>1. K \in Keys /\ arg[u] \in Routes
  BY KeyInKeys DEF ScanFile
<1>2. w \in Units
  BY DEF IInv, UnitInv, ScanFile, HoldsEntry
<1>a. heap[w][K].file \in Contents
  BY DEF IInv, UnitInv, ScanFile
<1>3. x \in Entry
  <2>1. scanRaw(heap[w][K].file, u) \in Tokens
    BY <1>a DEF scanRaw, Tokens
  <2>2. heap[w][K] \in Entry
    BY <1>1, <1>2, HeapType
  <2> QED BY <2>1, <2>2 DEF Entry
<1>4. heap' = [heap EXCEPT ![w][K] = x]
  BY <1>1, <1>2 DEF IInv, TypeOK, ScanFile
<1> HIDE DEF K, w, x
<1>5. /\ heap' \in [Units -> [Keys -> Entry]]
      /\ heap'[w][K] = x
      /\ \A y \in Units, k \in Keys : y # w \/ k # K => heap'[y][k] = heap[y][k]
  BY <1>1, <1>2, <1>3, <1>4, HeapUpdate, HeapType
<1>6. TypeOK'
  BY <1>1, <1>5 DEF IInv, TypeOK, ScanFile, KeyOf, K
<1>7. m[K] = w
  BY DEF IInv, UnitInv, ScanFile, HoldsEntry, K, w
<1>8. heap[w][K].once = "running"
  BY DEF IInv, UnitInv, Reading, ScanFile, K, w
<1>9. m' = m /\ files' = files /\ mu' = mu
  BY DEF ScanFile
<1>10. x.once = "running" /\ Filled(x, K)
  BY <1>1, <1>2, <1>8, <1>a DEF x, IInv, TypeOK, Entry, w, K, Filled, scanRaw, KeyOf
<1>11. \A v \in Units : v # u => /\ pc'[v] = pc[v] /\ arg'[v] = arg[v] /\ ent'[v] = ent[v]
                              /\ files'[v] = files[v] /\ KeyOf(v)' = KeyOf(v)
  BY DEF IInv, TypeOK, ScanFile, KeyOf
<1>12. /\ pc[u] = "scan" /\ pc'[u] = "return" /\ arg'[u] = arg[u]
       /\ ent'[u] = w /\ files'[u] = files[u] /\ KeyOf(u)' = K
  BY DEF IInv, TypeOK, ScanFile, KeyOf, K, w
<1>13. \A v \in Units : UnitInv(v)
  BY DEF IInv
<1>14. reads' = reads
  BY DEF ScanFile
<1>15. ReadOnce'
  BY <1>14 DEF IInv, ReadOnce
<1>16. OneReader'
  <2>1. \A v \in Units : Reading(v)' => Reading(v) /\ KeyOf(v)' = KeyOf(v)
    BY <1>11, <1>12 DEF Reading, K
  <2> QED BY <2>1 DEF IInv, OneReader
<1>17. ASSUME NEW v \in Units PROVE UnitInv(v)'
  <2>1. CASE v = u
    <3>1. /\ ent'[u] \in Units /\ m'[KeyOf(u)'] = ent'[u]
          /\ heap'[ent'[u]][KeyOf(u)'] = x
      BY Zenon, <1>2, <1>5, <1>7, <1>9, <1>12
    <3>2. pc[u] # "idle" /\ UnitInv(u)
      BY <1>12, <1>13
    <3> QED BY Zenon, <2>1, <3>1, <3>2, <1>9, <1>10, <1>12
       DEF UnitInv, Reading, HoldsEntry, InCritical
  <2>2. CASE v # u
    <3>1. pc[v] # "idle" => KeyOf(v) \in Keys
      BY KeyInKeys
    <3>2. HoldsEntry(v) /\ KeyOf(v) = K => pc[v] \in {"unlock", "once"}
      <4>1. Reading(u) /\ OneReader
        BY <1>12 DEF Reading, IInv
      <4>2. Reading(v) => KeyOf(v) # K
        BY <2>2, <4>1 DEF OneReader, K
      <4>3. pc[v] = "got" => KeyOf(v) # K
        BY <1>7, <1>8, <1>13 DEF UnitInv, HoldsEntry
      <4> QED BY <4>2, <4>3 DEF HoldsEntry, Reading
    <3>3. Reading(v) \/ pc[v] = "got" => heap'[ent[v]][KeyOf(v)] = heap[ent[v]][KeyOf(v)]
      <4>1. Reading(v) \/ pc[v] = "got" => HoldsEntry(v) /\ pc[v] # "idle" /\ KeyOf(v) # K
        BY <3>2 DEF HoldsEntry, Reading
      <4>2. HoldsEntry(v) => ent[v] \in Units
        BY <1>13 DEF UnitInv
      <4> QED BY <3>1, <4>1, <4>2, <1>5
    <3>4. pc[v] = "read" => reads'[KeyOf(v)] = reads[KeyOf(v)]
      BY <3>1, <3>2, <1>14 DEF HoldsEntry
    <3> QED BY <2>2, <3>3, <3>4, <1>9, <1>11, OtherUnit
  <2> QED BY <2>1, <2>2
<1>18. ASSUME NEW k \in Keys PROVE EntryInv(k)'
  <2>1. m[k] \in Units \cup {None} /\ EntryInv(k)
    BY DEF IInv, TypeOK
  <2>2. CASE k = K
    BY <2>1, <2>2, <1>2, <1>5, <1>7, <1>9, <1>10 DEF EntryInv
  <2>3. CASE k # K
    <3>1. m[k] # None => heap'[m[k]][k] = heap[m[k]][k]
      BY <2>1, <2>3, <1>5
    <3> QED BY <2>1, <2>3, <3>1, <1>9, <1>14 DEF EntryInv, Filled
  <2> QED BY <2>2, <2>3
<1>19. ASSUME NEW k \in Keys, Settled(k) # None PROVE Settled(k)' = Settled(k)
  <2>1. k # K /\ m[k] \in Units
    BY <1>2, <1>7, <1>8, <1>19 DEF IInv, TypeOK, Settled
  <2>2. heap'[m[k]][k] = heap[m[k]][k]
    BY <2>1, <1>5
  <2> QED BY <2>1, <2>2, <1>9 DEF Settled
<1>20. \A v \in Units, d \in Displays : FilesInv(v, d)'
  BY <1>9, <1>19, FilesFrame
<1> QED BY <1>6, <1>15, <1>16, <1>17, <1>18, <1>20 DEF IInv

\* Finishing the once preserves the invariant.
LEMMA OnceDoneIInv ==
  ASSUME NEW u \in Units, IInv, OnceDone(u)
  PROVE  IInv'
<1> DEFINE K == KeyOf(u)
           w == ent[u]
           x == [heap[ent[u]][KeyOf(u)] EXCEPT !.once = "done"]
<1>1. K \in Keys /\ arg[u] \in Routes
  BY KeyInKeys DEF OnceDone
<1>2. w \in Units
  BY DEF IInv, UnitInv, OnceDone, HoldsEntry
<1>3. x \in Entry
  <2>1. heap[w][K] \in Entry
    BY <1>1, <1>2, HeapType
  <2> QED BY <2>1 DEF Entry
<1>4. heap' = [heap EXCEPT ![w][K] = x]
  BY <1>1, <1>2 DEF IInv, TypeOK, OnceDone
<1> HIDE DEF K, w, x
<1>5. /\ heap' \in [Units -> [Keys -> Entry]]
      /\ heap'[w][K] = x
      /\ \A y \in Units, k \in Keys : y # w \/ k # K => heap'[y][k] = heap[y][k]
  BY <1>1, <1>2, <1>3, <1>4, HeapUpdate, HeapType
<1>6. TypeOK'
  BY <1>1, <1>5 DEF IInv, TypeOK, OnceDone, KeyOf, K
<1>7. m[K] = w
  BY DEF IInv, UnitInv, OnceDone, HoldsEntry, K, w
<1>8. heap[w][K].once = "running"
  BY DEF IInv, UnitInv, Reading, OnceDone, K, w
<1>9. m' = m /\ files' = files /\ mu' = mu
  BY DEF OnceDone
<1>10. x.once = "done" /\ Filled(x, K)
  BY <1>1, <1>2 DEF x, IInv, TypeOK, UnitInv, OnceDone, Entry, Filled, w, K
<1>11. \A v \in Units : v # u => /\ pc'[v] = pc[v] /\ arg'[v] = arg[v] /\ ent'[v] = ent[v]
                              /\ files'[v] = files[v] /\ KeyOf(v)' = KeyOf(v)
  BY DEF IInv, TypeOK, OnceDone, KeyOf
<1>12. /\ pc[u] = "return" /\ pc'[u] = "got" /\ arg'[u] = arg[u]
       /\ ent'[u] = w /\ files'[u] = files[u] /\ KeyOf(u)' = K
  BY DEF IInv, TypeOK, OnceDone, KeyOf, K, w
<1>13. \A v \in Units : UnitInv(v)
  BY DEF IInv
<1>14. reads' = reads
  BY DEF OnceDone
<1>15. ReadOnce'
  BY <1>14 DEF IInv, ReadOnce
<1>16. OneReader'
  <2>1. \A v \in Units : Reading(v)' => Reading(v) /\ KeyOf(v)' = KeyOf(v)
    BY <1>11, <1>12 DEF Reading, K
  <2> QED BY <2>1 DEF IInv, OneReader
<1>17. ASSUME NEW v \in Units PROVE UnitInv(v)'
  <2>1. CASE v = u
    <3>1. /\ ent'[u] \in Units /\ m'[KeyOf(u)'] = ent'[u]
          /\ heap'[ent'[u]][KeyOf(u)'] = x
      BY Zenon, <1>2, <1>5, <1>7, <1>9, <1>12
    <3>2. pc[u] # "idle" /\ UnitInv(u)
      BY <1>12, <1>13
    <3> QED BY Zenon, <2>1, <3>1, <3>2, <1>9, <1>10, <1>12
       DEF UnitInv, Reading, HoldsEntry, InCritical
  <2>2. CASE v # u
    <3>1. pc[v] # "idle" => KeyOf(v) \in Keys
      BY KeyInKeys
    <3>2. HoldsEntry(v) /\ KeyOf(v) = K => pc[v] \in {"unlock", "once"}
      <4>1. Reading(u) /\ OneReader
        BY <1>12 DEF Reading, IInv
      <4>2. Reading(v) => KeyOf(v) # K
        BY <2>2, <4>1 DEF OneReader, K
      <4>3. pc[v] = "got" => KeyOf(v) # K
        BY <1>7, <1>8, <1>13 DEF UnitInv, HoldsEntry
      <4> QED BY <4>2, <4>3 DEF HoldsEntry, Reading
    <3>3. Reading(v) \/ pc[v] = "got" => heap'[ent[v]][KeyOf(v)] = heap[ent[v]][KeyOf(v)]
      <4>1. Reading(v) \/ pc[v] = "got" => HoldsEntry(v) /\ pc[v] # "idle" /\ KeyOf(v) # K
        BY <3>2 DEF HoldsEntry, Reading
      <4>2. HoldsEntry(v) => ent[v] \in Units
        BY <1>13 DEF UnitInv
      <4> QED BY <3>1, <4>1, <4>2, <1>5
    <3>4. pc[v] = "read" => reads'[KeyOf(v)] = reads[KeyOf(v)]
      BY <3>1, <3>2, <1>14 DEF HoldsEntry
    <3> QED BY <2>2, <3>3, <3>4, <1>9, <1>11, OtherUnit
  <2> QED BY <2>1, <2>2
<1>18. ASSUME NEW k \in Keys PROVE EntryInv(k)'
  <2>1. m[k] \in Units \cup {None} /\ EntryInv(k)
    BY DEF IInv, TypeOK
  <2>2. CASE k = K
    BY <2>1, <2>2, <1>2, <1>5, <1>7, <1>9, <1>10 DEF EntryInv
  <2>3. CASE k # K
    <3>1. m[k] # None => heap'[m[k]][k] = heap[m[k]][k]
      BY <2>1, <2>3, <1>5
    <3> QED BY <2>1, <2>3, <3>1, <1>9, <1>14 DEF EntryInv, Filled
  <2> QED BY <2>2, <2>3
<1>19. ASSUME NEW k \in Keys, Settled(k) # None PROVE Settled(k)' = Settled(k)
  <2>1. k # K /\ m[k] \in Units
    BY <1>2, <1>7, <1>8, <1>19 DEF IInv, TypeOK, Settled
  <2>2. heap'[m[k]][k] = heap[m[k]][k]
    BY <2>1, <1>5
  <2> QED BY <2>1, <2>2, <1>9 DEF Settled
<1>20. \A v \in Units, d \in Displays : FilesInv(v, d)'
  BY <1>9, <1>19, FilesFrame
<1> QED BY <1>6, <1>15, <1>16, <1>17, <1>18, <1>20 DEF IInv

\* Handing the entry's outcome to the unit's own map preserves the invariant.
LEMMA FinishIInv ==
  ASSUME NEW u \in Units, IInv, Finish(u)
  PROVE  IInv'
<1> DEFINE K == KeyOf(u)
           e == heap[ent[u]][K]
           dd == DisplayOf[arg[u]]
<1>1. K \in Keys /\ arg[u] \in Routes /\ K = <<arg[u], ModeOf[u]>> /\ dd \in Displays
  BY KeyInKeys DEF Finish, KeyOf
<1>2. UnitInv(u) /\ EntryInv(K) /\ m[K] = ent[u] /\ ent[u] \in Units
  BY <1>1 DEF IInv, UnitInv, HoldsEntry, Finish
<1>3. e.once = "done" /\ Filled(e, K)
  BY <1>2 DEF UnitInv, EntryInv, Finish
<1>4. e.file # Absent => e.toks \in Tokens /\ Settled(K) = e.toks
  <2>1. K[2] \in Modes
    BY <1>1
  <2> HIDE DEF K, e
  <2>2. e.file # Absent => e.toks \in Tokens
    BY <2>1, <1>3 DEF Filled, Tokens
  <2> USE DEF e
  <2>3. e.file # Absent => Settled(K) = e.toks
    BY <1>2, <1>3 DEF Settled
  <2> QED BY <2>2, <2>3
<1> HIDE DEF K, dd
<1>5. /\ files' \in [Units -> [Displays -> Opened \cup {None}]]
      /\ \A v \in Units, d \in Displays : files'[v][d] # files[v][d] =>
           v = u /\ e.file # Absent /\ files'[v][d] = [via |-> arg[u], toks |-> e.toks]
  <2>1. CASE e.file = Absent
    BY <2>1 DEF Finish, K, IInv, TypeOK
  <2>2. CASE e.file # Absent
    <3>1. files' = [files EXCEPT ![u][dd] = [via |-> arg[u], toks |-> e.toks]]
      BY <2>2 DEF Finish, K, dd
    <3>2. [via |-> arg[u], toks |-> e.toks] \in Opened
      BY <2>2, <1>1, <1>4 DEF Opened
    <3> QED BY Zenon, <2>2, <3>1, <3>2, <1>1 DEF IInv, TypeOK
  <2> QED BY <2>1, <2>2
<1>6. TypeOK'
  BY ZenonT(40), <1>5 DEF IInv, TypeOK, Finish
<1>7. ReadOnce' /\ OneReader'
  BY DEF IInv, TypeOK, ReadOnce, OneReader, Finish, KeyOf, Reading
<1>8. ASSUME NEW v \in Units PROVE UnitInv(v)'
  <2>1. CASE v = u
    BY Zenon, <2>1 DEF IInv, TypeOK, UnitInv, Finish, Reading, HoldsEntry, InCritical
  <2>2. CASE v # u
    <3>1. pc'[v] = pc[v] /\ arg'[v] = arg[v] /\ ent'[v] = ent[v] /\ files'[v] = files[v]
      BY <2>2 DEF IInv, TypeOK, Finish
    <3> QED BY <3>1, OtherUnit DEF Finish
  <2> QED BY <2>1, <2>2
<1>9. ASSUME NEW k \in Keys PROVE EntryInv(k)'
  BY DEF IInv, EntryInv, Filled, Finish
<1>10. ASSUME NEW v \in Units, NEW d \in Displays PROVE FilesInv(v, d)'
  <2>1. \A k \in Keys : Settled(k)' = Settled(k)
    BY DEF Settled, Finish
  <2>2. CASE files'[v][d] = files[v][d]
    <3>1. files[v][d].via \in Shareable => <<files[v][d].via, ModeOf[v]>> \in Keys
      BY DEF Keys
    <3>2. FilesInv(v, d)
      BY DEF IInv
    <3> QED BY <2>1, <2>2, <3>1, <3>2 DEF FilesInv
  <2>3. CASE files'[v][d] # files[v][d]
    <3>1. v = u /\ e.file # Absent /\ files'[v][d] = [via |-> arg[u], toks |-> e.toks]
      BY <2>3, <1>5
    <3>2. files'[v][d].via = arg[u] /\ files'[v][d].toks = e.toks
      BY <3>1
    <3>3. \A k \in Keys : k = K => Settled(k)' = e.toks
      BY <2>1, <3>1, <1>4
    <3>4. <<files'[v][d].via, ModeOf[v]>> = K
      BY <3>1, <3>2, <1>1
    <3> QED BY <3>2, <3>3, <3>4, <1>1 DEF FilesInv
  <2> QED BY <2>2, <2>3
<1> QED BY <1>6, <1>7, <1>8, <1>9, <1>10 DEF IInv

\* An edit of a file on disk preserves the invariant.
LEMMA EditIInv ==
  ASSUME NEW d \in Displays, NEW c \in Contents \cup {Absent}, IInv, Edit(d, c)
  PROVE  IInv'
<1>1. TypeOK'
  BY DEF IInv, TypeOK, Edit
<1>2. ReadOnce' /\ OneReader'
  BY Zenon DEF IInv, ReadOnce, OneReader, Edit, KeyOf, Reading
<1>3. ASSUME NEW v \in Units PROVE UnitInv(v)'
  BY OtherUnit DEF Edit
<1>4. ASSUME NEW k \in Keys PROVE EntryInv(k)'
  BY DEF IInv, EntryInv, Filled, Edit
<1>5. \A v \in Units, x \in Displays : FilesInv(v, x)'
  BY FilesFrame DEF Settled, Edit
<1> QED BY <1>1, <1>2, <1>3, <1>4, <1>5 DEF IInv

\* Steps that change nothing preserve the invariant.
LEMMA StutterIInv == IInv /\ UNCHANGED vars => IInv'
<1> SUFFICES ASSUME IInv, UNCHANGED vars PROVE IInv'
  OBVIOUS
<1>1. TypeOK' /\ ReadOnce' /\ OneReader'
  BY DEF IInv, TypeOK, ReadOnce, OneReader, KeyOf, Reading, vars
<1>2. ASSUME NEW v \in Units PROVE UnitInv(v)'
  BY Zenon, OtherUnit DEF vars
<1>3. ASSUME NEW k \in Keys PROVE EntryInv(k)'
  BY DEF IInv, EntryInv, Filled, vars
<1>4. \A v \in Units, x \in Displays : FilesInv(v, x)'
  BY FilesFrame DEF Settled, vars
<1> QED BY <1>1, <1>2, <1>3, <1>4 DEF IInv

\* Every step of every unit, and every edit, preserves the invariant.
LEMMA NextIInv == IInv /\ [Next]_vars => IInv'
<1> SUFFICES ASSUME IInv, [Next]_vars PROVE IInv'
  OBVIOUS
<1>1. ASSUME NEW u \in Units, Lock(u) \/ Step(u) PROVE IInv'
  BY <1>1, LockIInv, LookupIInv, InsertIInv, UnlockIInv, OnceRunIInv, OnceWaitIInv,
     ReadFileIInv, ScanFileIInv, OnceDoneIInv, FinishIInv DEF Step
<1>2. ASSUME NEW u \in Units, NEW r \in Routes, Open(u, r) \/ OpenDirect(u, r) PROVE IInv'
  BY <1>2, OpenIInv, OpenDirectIInv
<1>3. ASSUME NEW d \in Displays, NEW c \in Contents \cup {Absent}, Edit(d, c) PROVE IInv'
  BY <1>3, EditIInv
<1> QED BY <1>1, <1>2, <1>3, StutterIInv DEF Next

\* The invariant holds in every state of every build.
THEOREM Invariance == Spec => []IInv
BY InitIInv, NextIInv, PTL DEF Spec

\* The state of the cache and of its units is always well typed; in particular
\* a unit's own map never holds an entry without tokens.
THEOREM TypeCorrect == Spec => []TypeOK
<1>1. IInv => TypeOK
  BY DEF IInv
<1> QED BY <1>1, Invariance, PTL

\* No key is read from disk twice, however many units ask for it at once.
THEOREM ReadsOnce == Spec => []ReadOnce
<1>1. IInv => ReadOnce
  BY DEF IInv
<1> QED BY <1>1, Invariance, PTL

\* What Cache.entry returns is never half filled.
THEOREM EntriesWhole == Spec => []WholeEntry
<1>1. IInv => WholeEntry
  <2> SUFFICES ASSUME IInv, NEW u \in Units, pc[u] = "got"
               PROVE  /\ heap[ent[u]][KeyOf(u)].once = "done"
                      /\ \/ heap[ent[u]][KeyOf(u)].file = Absent
                         \/ heap[ent[u]][KeyOf(u)].toks = scanRaw(heap[ent[u]][KeyOf(u)].file, u)
    BY Zenon DEF WholeEntry
  <2>1. KeyOf(u) \in Keys /\ KeyOf(u)[2] = ModeOf[u]
    BY KeyInKeys DEF KeyOf
  <2>2. UnitInv(u) /\ EntryInv(KeyOf(u)) /\ HoldsEntry(u)
    BY <2>1 DEF IInv, HoldsEntry
  <2> QED BY Zenon, <2>1, <2>2 DEF UnitInv, EntryInv, Filled, scanRaw
<1> QED BY <1>1, Invariance, PTL

\* Units with the same scanner settings that opened a header by the same
\* shareable route have the same tokens.
THEOREM UnitsAgree == Spec => []Agreement
<1>1. IInv => Agreement
  <2> SUFFICES ASSUME IInv, NEW u \in Units, NEW v \in Units, NEW d \in Displays,
                      ModeOf[u] = ModeOf[v], files[u][d] # None, files[v][d] # None,
                      files[u][d].via = files[v][d].via, files[u][d].via \in Shareable
               PROVE  files[u][d].toks = files[v][d].toks
    BY DEF Agreement
  <2>1. FilesInv(u, d) /\ FilesInv(v, d)
    BY DEF IInv
  <2> QED BY <2>1 DEF FilesInv
<1> QED BY <1>1, Invariance, PTL

\* Replacing the entry a unit works on changes the outcome of its key only.
LEMMA SettledAfter ==
  ASSUME IInv, NEW u \in Units, HoldsEntry(u), NEW x \in Entry, m' = m,
         heap' = [heap EXCEPT ![ent[u]][KeyOf(u)] = x]
  PROVE  \A k \in Keys : Settled(k)' =
           IF k # KeyOf(u) THEN Settled(k)
           ELSE IF x.once # "done" THEN None
           ELSE IF x.file = Absent THEN Absent ELSE x.toks
<1>1. KeyOf(u) \in Keys /\ ent[u] \in Units /\ m[KeyOf(u)] = ent[u]
  BY KeyInKeys DEF IInv, UnitInv, HoldsEntry
<1>2. /\ heap'[ent[u]][KeyOf(u)] = x
      /\ \A y \in Units, k \in Keys :
           y # ent[u] \/ k # KeyOf(u) => heap'[y][k] = heap[y][k]
  BY <1>1, HeapUpdate, HeapType
<1>3. \A k \in Keys : m[k] \in Units \cup {None}
  BY HeapType
<1>4. ASSUME NEW k \in Keys, k # KeyOf(u) PROVE Settled(k)' = Settled(k)
  <2>1. m[k] # None => heap'[m[k]][k] = heap[m[k]][k]
    BY <1>2, <1>3, <1>4
  <2> QED BY <2>1 DEF Settled
<1>5. \A k \in Keys : k = KeyOf(u) => Settled(k)' =
        IF x.once # "done" THEN None ELSE IF x.file = Absent THEN Absent ELSE x.toks
  BY <1>1, <1>2 DEF Settled
<1> QED BY <1>4, <1>5

\* The cache implements the atomic store: finishing the once settles a key,
\* the end of an open delivers it, and every other step changes nothing a unit
\* can tell.
THEOREM Refinement == Spec => ImplementsStore
<1> DEFINE V == [k \in Keys |-> Settled(k)]
<1>1. Init => Store!Init
  BY DEF Init, Store!Init, Settled, Keys
<1>2. ASSUME IInv, [Next]_vars PROVE [Store!Next]_(Store!vars)
  <2> USE <1>2
  <2>1. ASSUME files' = files, m' = m, heap' = heap PROVE [Store!Next]_(Store!vars)
    BY Zenon, <2>1 DEF Settled, Store!vars
  <2>2. ASSUME NEW u \in Units, Insert(u) \/ OnceRun(u) \/ ReadFile(u) \/ ScanFile(u)
        PROVE  [Store!Next]_(Store!vars)
    <3> DEFINE K == KeyOf(u)
    <3>1. \A k \in Keys : Settled(k)' = Settled(k)
      <4>1. CASE Insert(u)
        <5>1. K \in Keys /\ m[K] = None
          BY <4>1, KeyInKeys DEF IInv, UnitInv, Insert
        <5>2. /\ m'[K] = u /\ heap'[u][K].once = "new"
              /\ \A k \in Keys : k # K => m'[k] = m[k] /\ \A y \in Units : heap'[y][k] = heap[y][k]
          BY <4>1, <5>1 DEF IInv, TypeOK, Insert, NewEntry
        <5>3. \A k \in Keys : m[k] \in Units \cup {None}
          BY DEF IInv, TypeOK
        <5> HIDE DEF K
        <5>4. ASSUME NEW k \in Keys, k # K PROVE Settled(k)' = Settled(k)
          <6>1. m'[k] = m[k] /\ (m[k] # None => heap'[m[k]][k] = heap[m[k]][k])
            BY <5>2, <5>3, <5>4
          <6> QED BY <6>1 DEF Settled
        <5>5. \A k \in Keys : k = K => Settled(k)' = None /\ Settled(k) = None
          BY <5>1, <5>2 DEF Settled
        <5> QED BY <5>4, <5>5
      <4>2. CASE OnceRun(u)
        <5> DEFINE x == [heap[ent[u]][K] EXCEPT !.once = "running"]
        <5>1. /\ K \in Keys /\ ent[u] \in Units /\ m[K] = ent[u] /\ HoldsEntry(u)
              /\ heap[ent[u]][K] \in Entry /\ heap[ent[u]][K].once = "new"
          <6>1. /\ pc[u] = "once" /\ UnitInv(u) /\ K \in Keys
                /\ heap[ent[u]][K].once = "new"
            BY <4>2, KeyInKeys DEF IInv, OnceRun
          <6>2. HoldsEntry(u)
            BY <6>1 DEF HoldsEntry
          <6>3. ent[u] \in Units /\ m[K] = ent[u]
            BY <6>1, <6>2 DEF UnitInv
          <6> QED BY <6>1, <6>2, <6>3, HeapType
        <5>2. x \in Entry /\ x.once = "running"
          BY <5>1 DEF Entry
        <5>3. heap' = [heap EXCEPT ![ent[u]][K] = x] /\ m' = m
          BY <4>2, <5>1 DEF IInv, TypeOK, OnceRun
        <5> HIDE DEF x
        <5> HIDE DEF K
        <5>9. \A k \in Keys : Settled(k)' = IF k # K THEN Settled(k) ELSE None
          BY ZenonT(40), <5>1, <5>2, <5>3, SettledAfter DEF K
        <5> QED BY <5>1, <5>9 DEF Settled
      <4>3. CASE ReadFile(u)
        <5> DEFINE x == [heap[ent[u]][K] EXCEPT !.file = disk[DisplayOf[arg[u]]]]
        <5>1. /\ K \in Keys /\ ent[u] \in Units /\ m[K] = ent[u] /\ HoldsEntry(u) /\ arg[u] \in Routes
              /\ heap[ent[u]][K] \in Entry /\ heap[ent[u]][K].once = "running"
          <6>1. pc[u] = "read" /\ UnitInv(u) /\ K \in Keys /\ arg[u] \in Routes
            BY <4>3, KeyInKeys DEF IInv, ReadFile
          <6>2. HoldsEntry(u) /\ Reading(u)
            BY <6>1 DEF HoldsEntry, Reading
          <6>3. ent[u] \in Units /\ m[K] = ent[u] /\ heap[ent[u]][K].once = "running"
            BY Zenon, <6>1, <6>2 DEF UnitInv
          <6> QED BY Zenon, <6>1, <6>2, <6>3, HeapType
        <5>2. disk[DisplayOf[arg[u]]] \in File
          BY <5>1 DEF IInv, TypeOK, File
        <5>3. x \in Entry /\ x.once = "running"
          BY <5>1, <5>2 DEF Entry
        <5>4. heap' = [heap EXCEPT ![ent[u]][K] = x] /\ m' = m
          BY <4>3, <5>1 DEF IInv, TypeOK, ReadFile
        <5> HIDE DEF x
        <5> HIDE DEF K
        <5>9. \A k \in Keys : Settled(k)' = IF k # K THEN Settled(k) ELSE None
          BY Zenon, <5>1, <5>3, <5>4, SettledAfter DEF K
        <5> QED BY <5>1, <5>9 DEF Settled
      <4>4. CASE ScanFile(u)
        <5> DEFINE x == [heap[ent[u]][K] EXCEPT !.toks = scanRaw(heap[ent[u]][K].file, u)]
        <5>1. /\ K \in Keys /\ ent[u] \in Units /\ m[K] = ent[u] /\ HoldsEntry(u)
              /\ heap[ent[u]][K] \in Entry /\ heap[ent[u]][K].once = "running"
              /\ heap[ent[u]][K].file \in Contents
          <6>1. pc[u] = "scan" /\ UnitInv(u) /\ K \in Keys
            BY <4>4, KeyInKeys DEF IInv, ScanFile
          <6>2. HoldsEntry(u) /\ Reading(u)
            BY <6>1 DEF HoldsEntry, Reading
          <6>3. /\ ent[u] \in Units /\ m[K] = ent[u] /\ heap[ent[u]][K].once = "running"
                /\ heap[ent[u]][K].file \in Contents
            BY <6>1, <6>2 DEF UnitInv
          <6> QED BY Zenon, <6>1, <6>2, <6>3, HeapType
        <5>2. scanRaw(heap[ent[u]][K].file, u) \in Tokens
          BY <5>1 DEF scanRaw, Tokens
        <5>3. x \in Entry /\ x.once = "running"
          BY <5>1, <5>2 DEF Entry
        <5>4. heap' = [heap EXCEPT ![ent[u]][K] = x] /\ m' = m
          BY <4>4, <5>1 DEF IInv, TypeOK, ScanFile
        <5> HIDE DEF x
        <5> HIDE DEF K
        <5>9. \A k \in Keys : Settled(k)' = IF k # K THEN Settled(k) ELSE None
          BY Zenon, <5>1, <5>3, <5>4, SettledAfter DEF K
        <5> QED BY ZenonT(40), <5>1, <5>9 DEF Settled
      <4> QED BY <2>2, <4>1, <4>2, <4>3, <4>4
    <3>2. files' = files
      BY <2>2 DEF Insert, OnceRun, ReadFile, ScanFile
    <3> QED BY <3>1, <3>2 DEF Store!vars
  <2>3. ASSUME NEW u \in Units, OnceDone(u) PROVE [Store!Next]_(Store!vars)
    <3> DEFINE K == KeyOf(u)
               x == [heap[ent[u]][K] EXCEPT !.once = "done"]
               out == IF x.file = Absent THEN Absent ELSE x.toks
    <3>1. /\ K \in Keys /\ ent[u] \in Units /\ m[K] = ent[u] /\ HoldsEntry(u)
          /\ heap[ent[u]][K] \in Entry /\ heap[ent[u]][K].once = "running"
          /\ Filled(heap[ent[u]][K], K)
          /\ arg[u] \in Routes /\ ModeOf[u] \in Modes /\ K = <<arg[u], ModeOf[u]>>
      <4>1. /\ pc[u] = "return" /\ UnitInv(u) /\ K \in Keys /\ arg[u] \in Routes
            /\ K = <<arg[u], ModeOf[u]>> /\ ModeOf[u] \in Modes
        BY Zenon, <2>3, KeyInKeys DEF IInv, OnceDone, KeyOf
      <4>2. HoldsEntry(u) /\ Reading(u)
        BY <4>1 DEF HoldsEntry, Reading
      <4>3. /\ ent[u] \in Units /\ m[K] = ent[u] /\ heap[ent[u]][K].once = "running"
            /\ Filled(heap[ent[u]][K], K)
        BY Zenon, <4>1, <4>2 DEF UnitInv
      <4> QED BY Zenon, <4>1, <4>2, <4>3, HeapType
    <3>2. x \in Entry /\ x.once = "done" /\ Filled(x, K)
      BY Zenon, <3>1 DEF Entry, Filled
    <3>3. heap' = [heap EXCEPT ![ent[u]][K] = x] /\ m' = m /\ files' = files
      BY <2>3, <3>1 DEF IInv, TypeOK, OnceDone
    <3>4. out \in (Contents \X {ModeOf[u]}) \cup {Absent}
      <4>1. K[2] = ModeOf[u]
        BY DEF KeyOf
      <4>2. x.file # Absent => x.file \in Contents /\ x.toks = <<x.file, ModeOf[u]>>
        BY <3>2, <4>1 DEF Filled
      <4>3. CASE x.file = Absent
        BY <4>3
      <4>4. CASE x.file # Absent
        <5> HIDE DEF x
        <5>1. out = <<x.file, ModeOf[u]>>
          BY <4>2, <4>4
        <5> HIDE DEF out
        <5> QED BY <5>1, <4>2, <4>4
      <4> QED BY <4>3, <4>4
    <3> HIDE DEF x
    <3>5. \A k \in Keys : Settled(k)' = IF k = K THEN out ELSE Settled(k)
      <4> HIDE DEF K
      <4>1. \A k \in Keys : Settled(k)' = IF k # K THEN Settled(k)
              ELSE IF x.once # "done" THEN None ELSE IF x.file = Absent THEN Absent ELSE x.toks
        BY Zenon, <3>1, <3>2, <3>3, SettledAfter DEF K
      <4> QED BY <4>1, <3>2
    <3>6. Settled(K) = None
      BY <3>1 DEF Settled
    <3> HIDE DEF out, K
    <3>7. V' = [V EXCEPT ![<<arg[u], ModeOf[u]>>] = out]
      BY Zenon, <3>1, <3>5
    <3>8. Store!Resolve(arg[u], ModeOf[u])
      BY Zenon, <3>1, <3>3, <3>4, <3>6, <3>7 DEF Store!Resolve
    <3> QED BY Zenon, <3>1, <3>8 DEF Store!Next
  <2>4. ASSUME NEW u \in Units, Finish(u) PROVE [Store!Next]_(Store!vars)
    <3> DEFINE K == KeyOf(u)
               e == heap[ent[u]][K]
    <3>0. pc[u] = "got" /\ UnitInv(u) /\ K \in Keys /\ arg[u] \in Routes
          /\ K = <<arg[u], ModeOf[u]>> /\ EntryInv(K)
      BY <2>4, KeyInKeys DEF IInv, Finish, KeyOf
    <3>1. /\ K \in Keys /\ m[K] = ent[u] /\ ent[u] \in Units /\ e.once = "done" /\ Filled(e, K)
          /\ arg[u] \in Routes /\ arg[u] \in Shareable /\ K = <<arg[u], ModeOf[u]>>
          /\ files[u][DisplayOf[arg[u]]] = None
      BY Zenon, <3>0 DEF UnitInv, EntryInv, HoldsEntry
    <3>2. V' = V
      BY <2>4 DEF Finish, Settled
    <3>3. CASE e.file = Absent
      BY <2>4, <3>2, <3>3 DEF Finish, Store!vars
    <3>4. CASE e.file # Absent
      <4>1. Settled(K) = e.toks /\ e.toks \in Tokens
        <5>1. e.file \in Contents /\ e.toks = <<e.file, K[2]>> /\ K[2] \in Modes
          BY Zenon, <3>1, <3>4 DEF Filled, KeyOf
        <5> HIDE DEF K
        <5>2. Settled(K) = e.toks
          BY Zenon, <3>1, <3>4 DEF Settled
        <5> HIDE DEF e
        <5>3. ASSUME NEW a \in Contents, NEW b \in Modes PROVE <<a, b>> \in Tokens
          BY DEF Tokens
        <5>4. e.toks \in Tokens
          BY <5>1, <5>3
        <5> QED BY <5>2, <5>4
      <4>2. V[<<arg[u], ModeOf[u]>>] = e.toks /\ e.toks \notin {None, Absent}
        BY <4>1, <3>1, OutcomesDistinct DEF Tokens
      <4>3. files' = [files EXCEPT ![u][DisplayOf[arg[u]]] = [via |-> arg[u], toks |-> e.toks]]
        BY <2>4, <3>4 DEF Finish
      <4> HIDE DEF e, K
      <4>4. Store!Deliver(u, arg[u])
        BY Zenon, <4>2, <4>3, <3>1, <3>2 DEF Store!Deliver
      <4> QED BY <4>4, <3>1 DEF Store!Next
    <3> QED BY <3>3, <3>4
  <2>5. ASSUME NEW u \in Units, NEW r \in Routes, OpenDirect(u, r)
        PROVE  [Store!Next]_(Store!vars)
    <3>1. V' = V
      BY <2>5 DEF OpenDirect, Settled
    <3>2. disk[DisplayOf[r]] \in Contents
      BY Zenon, <2>5 DEF IInv, TypeOK, OpenDirect
    <3>3. Store!Deliver(u, r)
      BY Zenon, <2>5, <3>1, <3>2 DEF Store!Deliver, OpenDirect, scanRaw
    <3> QED BY <3>3 DEF Store!Next
  <2> QED
    BY Zenon, <2>1, <2>2, <2>3, <2>4, <2>5
       DEF Next, Step, Open, Lock, Lookup, Unlock, OnceWait, Edit, vars
<1> QED BY <1>1, <1>2, Invariance, PTL DEF Spec, ImplementsStore, Store!Spec

=============================================================================
