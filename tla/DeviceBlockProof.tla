-------------------------- MODULE DeviceBlockProof --------------------------
(***************************************************************************)
(* Proofs about the device headers' reducing barriers and atomics, for any  *)
(* number of threads, any word size that counts them and any kernel: the    *)
(* inductive invariant IInv, and from it that the accesses to the word do   *)
(* not race and that the functions implement DeviceCalls.                   *)
(***************************************************************************)
EXTENDS DeviceBlock, FiniteSetTheorems, TLAPS

CallRecord == [op : Reductions \cup {"atomic"}, fn : [Threads -> Fns], v : [Threads -> Word]]

-----------------------------------------------------------------------------
(* Arithmetic and counting *)

\* A number below the modulus is its own remainder, and a remainder is a word.
LEMMA Remainder ==
  /\ \A a \in Word : a % WordSize = a
  /\ \A a \in Int : a % WordSize \in Word
  /\ WordSize \in Nat \ {0} /\ 0 \in Word
<1>1. WordSize \in Nat \ {0}
  BY ThreadsAssumption, WordAssumption, FS_CardinalityType
<1>2. \A a \in Int : a % WordSize \in 0 .. WordSize - 1
  BY <1>1
<1>3. \A a \in 0 .. WordSize - 1 : a % WordSize = a
  BY <1>1
<1> QED BY <1>1, <1>2, <1>3 DEF Word

\* Counting one call more counts one reduction more if it is one, and a longer
\* beginning of the kernel has no fewer reductions.
LEMMA RoundsStep ==
  ASSUME NEW ker \in Seq(CallRecord), NEW k \in Nat, NEW j \in Nat
  PROVE  /\ Rounds(ker, k) \in Nat
         /\ Rounds(ker, k + 1) = Rounds(ker, k) + (IF ker[k + 1].op # "atomic" THEN 1 ELSE 0)
         /\ j <= k => Rounds(ker, j) <= Rounds(ker, k)
<1> DEFINE S(n) == {i \in 1 .. n : ker[i].op # "atomic"}
<1>1. ASSUME NEW n \in Nat PROVE IsFiniteSet(S(n))
  <2>1. IsFiniteSet(1 .. n)
    BY FS_Interval
  <2> QED BY <2>1, FS_Subset
<1>2. S(k + 1) = IF ker[k + 1].op # "atomic" THEN S(k) \cup {k + 1} ELSE S(k)
  OBVIOUS
<1>3. k + 1 \notin S(k)
  OBVIOUS
<1>4. j <= k => S(j) \in SUBSET S(k)
  OBVIOUS
<1>5. Cardinality(S(k)) \in Nat
  BY <1>1, FS_CardinalityType
<1>6. Cardinality(S(k) \cup {k + 1}) = Cardinality(S(k)) + 1
  BY <1>1, <1>3, FS_AddElement
<1>7. j <= k => Cardinality(S(j)) <= Cardinality(S(k))
  BY <1>1, <1>4, FS_Subset
<1>8. \A n \in Nat : Rounds(ker, n) = Cardinality(S(n))
  BY DEF Rounds
<1> HIDE DEF S
<1> QED BY <1>2, <1>5, <1>6, <1>7, <1>8

\* Two calls with as many reductions before them, both reductions, are one call.
LEMMA RoundsSame ==
  ASSUME NEW ker \in Seq(CallRecord), NEW i \in Nat, NEW j \in Nat,
         ker[i + 1].op # "atomic", i < j
  PROVE  Rounds(ker, i) + 1 <= Rounds(ker, j)
<1>1. Rounds(ker, i + 1) = Rounds(ker, i) + 1
  BY RoundsStep
<1>2. Rounds(ker, i + 1) <= Rounds(ker, j)
  BY RoundsStep
<1> QED BY <1>1, <1>2

\* What the word holds before the first contribution, after one more, and after all.
LEMMA GatheredStep ==
  ASSUME NEW c \in CallRecord, c.op # "atomic", NEW S \in SUBSET Threads,
         NEW t \in Threads, t \notin S
  PROVE  /\ Gathered(c, {}) = IF c.op = "and" THEN 1 ELSE 0
         /\ Gathered(c, S \cup {t}) = Contributed(Gathered(c, S), c.op, c.v[t])
         /\ Gathered(c, Threads) \in Word
         /\ Gathered(c, S) \in Word
<1> DEFINE V(Q) == {u \in Q : c.v[u] # 0}
<1>1. IsFiniteSet(Threads) /\ Cardinality(Threads) \in Nat
  BY ThreadsAssumption, FS_CardinalityType
<1>2. ASSUME NEW Q \in SUBSET Threads
      PROVE  IsFiniteSet(V(Q)) /\ Cardinality(V(Q)) \in Nat /\ Cardinality(V(Q)) <= Cardinality(Threads)
  <2>1. V(Q) \in SUBSET Threads
    OBVIOUS
  <2>2. IsFiniteSet(V(Q)) /\ Cardinality(V(Q)) <= Cardinality(Threads)
    BY <1>1, <2>1, FS_Subset
  <2> QED BY <2>2, FS_CardinalityType
<1>3. V({}) = {} /\ Cardinality({}) = 0
  BY FS_EmptySet
<1>4. Gathered(c, {}) = IF c.op = "and" THEN 1 ELSE 0
  BY <1>3 DEF Gathered, CallRecord, Reductions
<1>5. 1 \in Word
  <2>1. Cardinality(Threads) # 0
    BY <1>1, ThreadsAssumption, FS_EmptySet
  <2> QED BY <1>1, <2>1, WordAssumption DEF Word
<1>6. ASSUME NEW Q \in SUBSET Threads PROVE Gathered(c, Q) \in Word
  <2>1. Cardinality(V(Q)) \in Word
    BY <1>1, <1>2, WordAssumption DEF Word
  <2> QED BY <2>1, <1>5, Remainder DEF Gathered
<1>7. CASE c.op = "count"
  <2>1. CASE c.v[t] # 0
    <3>1. V(S \cup {t}) = V(S) \cup {t} /\ t \notin V(S)
      BY <2>1
    <3>2. Cardinality(V(S \cup {t})) = Cardinality(V(S)) + 1
      BY <3>1, <1>2, FS_AddElement
    <3>3. S \cup {t} \in SUBSET Threads
      OBVIOUS
    <3>4. Cardinality(V(S \cup {t})) \in Word
      BY <1>1, <1>2, <3>3, WordAssumption DEF Word
    <3> QED BY <1>4, <1>6, <1>7, <2>1, <3>2, <3>4, Remainder DEF Gathered, Contributed
  <2>2. CASE c.v[t] = 0
    <3>1. V(S \cup {t}) = V(S)
      BY <2>2
    <3> QED BY <1>4, <1>6, <1>7, <2>2, <3>1 DEF Gathered, Contributed
  <2> QED BY <2>1, <2>2
<1>8. CASE c.op = "and"
  BY <1>4, <1>6, <1>8 DEF Gathered, Contributed
<1>9. CASE c.op = "or"
  BY <1>4, <1>6, <1>9 DEF Gathered, Contributed
<1> QED BY <1>7, <1>8, <1>9 DEF CallRecord, Reductions

-----------------------------------------------------------------------------
(* Facts of the invariant *)

\* The types of a thread's place, arrivals and call.
LEMMA ThreadFacts ==
  ASSUME IInv, NEW t \in Threads
  PROVE  /\ kernel \in Seq(CallRecord)
         /\ at[t] \in Nat /\ at[t] <= Len(kernel)
         /\ at[t] < Len(kernel) => Call(t) \in CallRecord
         /\ bar[t] \in Nat /\ Rounds(kernel, at[t]) \in Nat
         /\ bar[t] = 4 * Rounds(kernel, at[t]) + Phase(pc[t])
         /\ pc[t] \in {"idle", "clear", "add", "read", "leave", "cas"}
<1>1. kernel \in Seq(CallRecord) /\ at[t] \in 0 .. Len(kernel) /\ bar[t] \in Nat
  BY DEF IInv, TypeOK, CallRecord
<1>2. at[t] \in Nat /\ at[t] <= Len(kernel)
  BY <1>1
<1>3. at[t] < Len(kernel) => kernel[at[t] + 1] \in CallRecord
  BY <1>1, <1>2
<1>4. Rounds(kernel, at[t]) \in Nat
  BY <1>1, <1>2, RoundsStep
<1> QED BY <1>1, <1>2, <1>3, <1>4 DEF IInv, TypeOK, Lag, Call

\* Threads inside reductions that have as many before them are in the same call.
LEMMA SameCall ==
  ASSUME IInv, NEW t \in Threads, NEW u \in Threads, InReduction(t), InReduction(u),
         Rounds(kernel, at[t]) = Rounds(kernel, at[u])
  PROVE  at[t] = at[u] /\ Call(t) = Call(u)
<1>1. kernel[at[t] + 1].op # "atomic" /\ kernel[at[u] + 1].op # "atomic"
  BY DEF IInv, InCall, Call
<1>2. kernel \in Seq(CallRecord) /\ at[t] \in Nat /\ at[u] \in Nat
  BY ThreadFacts
<1>3. Rounds(kernel, at[t]) \in Nat /\ Rounds(kernel, at[u]) \in Nat
  BY ThreadFacts
<1>4. ~(at[t] < at[u])
  BY <1>1, <1>2, <1>3, RoundsSame
<1>5. ~(at[u] < at[t])
  BY <1>1, <1>2, <1>3, RoundsSame
<1> QED BY <1>2, <1>4, <1>5 DEF Call

-----------------------------------------------------------------------------
(* Preservation, conjunct by conjunct where an action can disturb it *)

\* The initial states satisfy the invariant.
LEMMA InitIInv == Init => IInv
<1> SUFFICES ASSUME Init PROVE IInv
  OBVIOUS
<1>1. kernel \in Seq(CallRecord)
  BY KernelsAssumption DEF Init, CallRecord
<1>2. TypeOK
  BY <1>1, Remainder DEF Init, TypeOK, CallRecord
<1>3. Rounds(kernel, 0) = 0
  <2>1. {j \in 1 .. 0 : kernel[j].op # "atomic"} = {}
    OBVIOUS
  <2> QED BY <2>1, FS_EmptySet DEF Rounds
<1>4. ASSUME NEW t \in Threads PROVE InCall(t) /\ Lag(t)
  BY <1>3 DEF Init, InCall, Lag, InReduction, Phase
<1>5. WordInv
  BY ThreadsAssumption DEF Init, WordInv
<1> QED BY <1>2, <1>4, <1>5 DEF IInv, Init

\* The state stays well typed.
LEMMA StepType ==
  ASSUME IInv, NEW t \in Threads, Step(t)
  PROVE  TypeOK'
<1>1. TypeOK /\ InCall(t)
  BY DEF IInv
<1>2. at[t] < Len(kernel) => Call(t) \in CallRecord
  BY ThreadFacts
<1>3. CASE Enter(t) \/ Clear(t) \/ ReadWord(t) \/ Load(t)
  <2>1. 0 \in Word /\ 1 \in Word
    <3>1. Cardinality(Threads) \in Nat /\ Cardinality(Threads) # 0
      BY ThreadsAssumption, FS_CardinalityType, FS_EmptySet
    <3> QED BY <3>1, WordAssumption DEF Word
  <2>2. bar[t] + 1 \in Nat
    BY <1>1 DEF TypeOK
  <2>3. CASE Enter(t)
    BY <1>1, <2>2, <2>3 DEF TypeOK, Enter, Arrive, Goto
  <2>4. CASE Clear(t)
    BY <1>1, <2>1, <2>2, <2>4 DEF TypeOK, Clear, Arrive, Goto
  <2>5. CASE ReadWord(t)
    BY <1>1, <2>2, <2>5 DEF TypeOK, ReadWord, Arrive, Goto
  <2>6. CASE Load(t)
    BY <1>1, <2>6 DEF TypeOK, Load, Goto
  <2> QED BY <1>3, <2>3, <2>4, <2>5, <2>6
<1>4. CASE Contribute(t)
  <2>1. at[t] < Len(kernel)
    BY <1>1, <1>4 DEF InCall, InReduction, Contribute
  <2>2. Contributed(word, Call(t).op, Call(t).v[t]) \in Word
    <3>1. word \in Word /\ word \in Int
      BY <1>1 DEF TypeOK, Word
    <3>2. (word + 1) % WordSize \in Word
      BY <3>1, Remainder
    <3>3. word % 2 = 0 => word + 1 \in Word
      BY <3>1, WordAssumption, EvenAssumption DEF Word
    <3> QED BY <3>1, <3>2, <3>3, Remainder DEF Contributed
  <2>3. bar[t] + 1 \in Nat
    BY <1>1 DEF TypeOK
  <2> QED BY <1>1, <1>4, <2>2, <2>3 DEF TypeOK, Contribute, Arrive, Goto
<1>5. at[t] < Len(kernel) => at[t] + 1 \in 0 .. Len(kernel)
  <2>1. kernel \in Seq(CallRecord) /\ at[t] \in Nat
    BY ThreadFacts
  <2> QED BY <2>1
<1>6. CASE Leave(t)
  <2>1. at[t] < Len(kernel)
    BY <1>1, <1>6 DEF InCall, InReduction, Leave
  <2> QED BY <1>1, <1>5, <1>6, <2>1 DEF TypeOK, Leave, Returns, Goto
<1>7. CASE Atomic(t)
  <2>1. Call(t) \in CallRecord /\ at[t] < Len(kernel)
    BY <1>2, <1>7 DEF Atomic, Calls
  <2>2. Call(t).v[t] \in Word /\ cell \in Word /\ Call(t).fn[t] \in Fns \ Loops
    BY <1>1, <1>7, <2>1 DEF CallRecord, TypeOK, Atomic
  <2>3. Call(t).v[t] \in Int /\ cell \in Int
    BY <2>2 DEF Word
  <2>4. Rmw(Call(t).fn[t], cell, Call(t).v[t]) \in Word
    BY <2>2, <2>3, Remainder DEF Rmw, Fns, Loops
  <2> QED BY <1>1, <1>5, <1>7, <2>1, <2>4 DEF TypeOK, Atomic, Returns, Goto
<1>8. CASE Cas(t)
  <2>1. Call(t) \in CallRecord /\ at[t] < Len(kernel)
    BY <1>1, <1>2, <1>8 DEF Cas, InCall
  <2>2. Call(t).v[t] \in Word /\ reg[t] \in Word
    BY <1>1, <2>1 DEF CallRecord, TypeOK
  <2>3. Wanted(Call(t).fn[t], reg[t], Call(t).v[t]) \in Word
    BY <2>2, Remainder DEF Wanted, Word
  <2> QED BY <1>1, <1>5, <1>8, <2>1, <2>3 DEF TypeOK, Cas, Returns, Goto
<1> QED BY <1>3, <1>4, <1>6, <1>7, <1>8 DEF Step

\* Every thread stays inside a call that fits where it is.
LEMMA StepInCall ==
  ASSUME IInv, NEW t \in Threads, Step(t), NEW u \in Threads
  PROVE  InCall(u)'
<1>1. TypeOK /\ InCall(u) /\ InCall(t)
  BY DEF IInv
<1>2. kernel' = kernel
  BY DEF Step, Enter, Clear, Contribute, ReadWord, Leave, Atomic, Load, Cas
<1>3. CASE u # t
  <2>1. pc'[u] = pc[u] /\ at'[u] = at[u]
    BY <1>1, <1>3 DEF TypeOK, Step, Enter, Clear, Contribute, ReadWord, Leave, Atomic, Load, Cas,
                      Arrive, Goto, Returns
  <2> QED BY <1>1, <1>2, <2>1 DEF InCall, InReduction, Call
<1>4. CASE u = t
  <2>1. CASE pc'[t] = "idle"
    BY <1>4, <2>1 DEF InCall, InReduction
  <2>2. CASE pc'[t] # "idle"
    <3>1. at'[t] = at[t]
      BY <1>1, <2>2 DEF TypeOK, Step, Enter, Clear, Contribute, ReadWord, Leave, Atomic, Load, Cas,
                        Returns, Goto
    <3>2. pc'[t] = "cas" => Load(t) \/ pc[t] = "cas"
      BY <1>1, <2>2 DEF TypeOK, Step, Enter, Clear, Contribute, ReadWord, Leave, Atomic, Load, Cas,
                        Arrive, Goto, Returns
    <3>3. pc'[t] \in {"clear", "add", "read", "leave"} => Enter(t) \/ InReduction(t)
      BY <1>1, <2>2 DEF TypeOK, Step, Enter, Clear, Contribute, ReadWord, Leave, Atomic, Load, Cas,
                        Arrive, Goto, Returns, InReduction
    <3> QED BY <1>1, <1>2, <1>4, <3>1, <3>2, <3>3
            DEF InCall, InReduction, Call, Load, Enter, Calls, Reductions
  <2> QED BY <2>1, <2>2
<1> QED BY <1>3, <1>4

\* The arrivals stay those of the reductions, and the threads stay level.
LEMMA StepLag ==
  ASSUME IInv, NEW t \in Threads, Step(t), NEW u \in Threads
  PROVE  Lag(u)'
<1>1. TypeOK /\ InCall(t) /\ \A x \in Threads : Lag(x)
  BY DEF IInv
<1>2. kernel' = kernel
  BY DEF Step, Enter, Clear, Contribute, ReadWord, Leave, Atomic, Load, Cas
<1>3. \A x \in Threads : x # t => pc'[x] = pc[x] /\ at'[x] = at[x] /\ bar'[x] = bar[x]
  BY <1>1 DEF TypeOK, Step, Enter, Clear, Contribute, ReadWord, Leave, Atomic, Load, Cas,
              Arrive, Goto, Returns
<1>4. \A x \in Threads : bar[x] \in Nat
  BY <1>1 DEF TypeOK
<1>5. /\ kernel \in Seq(CallRecord) /\ at[t] \in Nat
      /\ Rounds(kernel, at[t]) \in Nat
      /\ Rounds(kernel, at[t] + 1)
           = Rounds(kernel, at[t]) + (IF Call(t).op # "atomic" THEN 1 ELSE 0)
  BY ThreadFacts, RoundsStep DEF Call
<1>6. CASE Enter(t) \/ Clear(t) \/ Contribute(t) \/ ReadWord(t)
  <2>1. /\ at' = at /\ bar'[t] = bar[t] + 1
        /\ Phase(pc'[t]) = Phase(pc[t]) + 1 /\ InReduction(t)'
    BY <1>1, <1>6 DEF TypeOK, Enter, Clear, Contribute, ReadWord, Calls, Arrive, Goto,
                      InReduction, Phase
  <2>2. \A x \in Threads : bar[t] <= bar[x]
    BY <1>1, <1>4, <1>6 DEF Enter, Clear, Contribute, ReadWord, Calls, MayPass, Lag, InReduction
  <2>3. CASE u = t
    <3>1. bar'[t] = 4 * Rounds(kernel, at[t]) + Phase(pc'[t])
      BY <1>1, <1>4, <1>5, <2>1 DEF Lag, Phase
    <3>2. \A x \in Threads : bar'[t] <= bar'[x] + 1
      BY <1>3, <1>4, <2>1, <2>2
    <3> QED BY <1>2, <2>1, <2>3, <3>1, <3>2 DEF Lag
  <2>4. CASE u # t
    <3>1. \A x \in Threads : bar[x] <= bar'[x] /\ bar'[x] \in Nat
      BY <1>3, <1>4, <2>1
    <3>2. InReduction(u)' = InReduction(u) /\ pc'[u] = pc[u] /\ bar'[u] = bar[u]
      BY <1>3, <2>4 DEF InReduction
    <3> QED BY <1>1, <1>2, <1>4, <2>1, <3>1, <3>2 DEF Lag
  <2> QED BY <2>3, <2>4
<1>7. CASE Leave(t) \/ Atomic(t) \/ (Cas(t) /\ pc'[t] = "idle")
  <2>1. /\ bar' = bar /\ at'[t] = at[t] + 1 /\ pc'[t] = "idle"
    BY <1>1, <1>7 DEF TypeOK, Leave, Atomic, Cas, Returns, Goto
  <2>2. bar[t] = 4 * Rounds(kernel, at[t] + 1)
    <3>1. CASE Leave(t)
      BY <1>1, <1>5, <3>1 DEF Leave, Lag, Phase, InCall, InReduction
    <3>2. CASE Atomic(t) \/ Cas(t)
      BY <1>1, <1>5, <3>2 DEF Atomic, Cas, Calls, Lag, Phase, InCall
    <3> QED BY <1>7, <3>1, <3>2
  <2>3. \A x \in Threads : bar[t] <= bar[x]
    BY <1>1, <1>4, <1>7 DEF Leave, Atomic, Cas, Calls, MayPass, Lag, InReduction
  <2>4. CASE u = t
    BY <1>2, <1>4, <2>1, <2>2, <2>3, <2>4 DEF Lag, Phase, InReduction
  <2>5. CASE u # t
    <3>1. InReduction(u)' = InReduction(u) /\ pc'[u] = pc[u] /\ at'[u] = at[u]
      BY <1>3, <2>5 DEF InReduction
    <3> QED BY <1>1, <1>2, <2>1, <3>1 DEF Lag
  <2> QED BY <2>4, <2>5
<1>8. CASE Load(t) \/ (Cas(t) /\ pc'[t] # "idle")
  <2>1. bar' = bar /\ at' = at
    BY <1>1, <1>8 DEF TypeOK, Load, Cas, Returns, Goto
  <2>2. pc[t] \in {"idle", "cas"} /\ pc'[t] \in {"idle", "cas"}
    BY <1>1, <1>8 DEF TypeOK, Load, Cas, Calls, Returns, Goto
  <2>3. Phase(pc'[u]) = Phase(pc[u]) /\ InReduction(u)' = InReduction(u)
    BY <1>3, <2>2 DEF Phase, InReduction
  <2> QED BY <1>1, <1>2, <2>1, <2>3 DEF Lag
<1> QED BY <1>6, <1>7, <1>8 DEF Step

\* The word stays what the contributors to thread 0's reduction made it.
LEMMA StepWord ==
  ASSUME IInv, NEW t \in Threads, Step(t)
  PROVE  WordInv'
<1> DEFINE R(x) == Rounds(kernel, at[x])
<1> SUFFICES ASSUME pc'[Zero] \in {"add", "read", "leave"}
             PROVE  word' = Gathered(Call(Zero), Contributors)'
  BY DEF WordInv
<1>1. TypeOK /\ WordInv /\ Zero \in Threads
  BY ThreadsAssumption DEF IInv
<1>2. kernel' = kernel
  BY DEF Step, Enter, Clear, Contribute, ReadWord, Leave, Atomic, Load, Cas
<1>3. at'[Zero] = at[Zero] /\ Call(Zero)' = Call(Zero)
  <2>1. at'[Zero] = at[Zero]
    BY <1>1 DEF TypeOK, Step, Enter, Clear, Contribute, ReadWord, Leave, Atomic, Load, Cas,
                Returns, Goto
  <2> QED BY <1>2, <2>1 DEF Call
<1>4. \A x \in Threads : x # t => pc'[x] = pc[x] /\ bar'[x] = bar[x]
  BY <1>1 DEF TypeOK, Step, Enter, Clear, Contribute, ReadWord, Leave, Atomic, Load, Cas,
              Arrive, Goto, Returns
<1>5. \A x \in Threads :
        /\ bar[x] \in Nat /\ R(x) \in Nat /\ bar[x] = 4 * R(x) + Phase(pc[x])
        /\ \A y \in Threads : bar[x] <= bar[y] + 1
  <2>1. \A x, y \in Threads : bar[x] \in Nat /\ bar[x] <= bar[y] + (IF InReduction(x) THEN 1 ELSE 0)
    BY <1>1 DEF IInv, Lag, TypeOK
  <2>2. \A x, y \in Threads : bar[x] <= bar[y] + 1
    BY <2>1
  <2> QED BY <2>2, ThreadFacts
<1>6. Contributors' = {u \in Threads : bar'[u] >= 4 * R(Zero) + 3}
  BY <1>2, <1>3 DEF Contributors
<1>7. ASSUME Contributors' = Contributors, word' = word,
             pc[Zero] \in {"add", "read", "leave"}
      PROVE  word' = Gathered(Call(Zero), Contributors)'
  <2>1. word = Gathered(Call(Zero), Contributors)
    BY <1>1, <1>7 DEF WordInv
  <2>2. Gathered(Call(Zero), Contributors)' = Gathered(Call(Zero), Contributors)
    BY <1>3, <1>7 DEF Gathered
  <2> QED BY <1>7, <2>1, <2>2
<1> HIDE DEF R
<1>8. CASE Enter(t)
  <2>0. pc[t] = "idle" /\ bar'[t] = bar[t] + 1 /\ word' = word /\ pc'[t] = "clear"
    BY <1>1, <1>8 DEF TypeOK, Enter, Calls, Arrive, Goto
  <2>1. bar[t] = 4 * R(t) /\ bar'[t] = 4 * R(t) + 1 /\ word' = word /\ pc'[t] = "clear"
    BY <1>5, <2>0 DEF Phase
  <2>2. Contributors' = Contributors
    BY <1>1, <1>4, <1>5, <1>6, <2>1 DEF Contributors, R
  <2>3. pc[Zero] \in {"add", "read", "leave"}
    BY <1>1, <1>4, <2>1
  <2> QED BY <1>7, <2>1, <2>2, <2>3
<1>9. CASE Clear(t)
  <2>0. pc[t] = "clear" /\ bar'[t] = bar[t] + 1 /\ pc'[t] = "add"
    BY <1>1, <1>9 DEF TypeOK, Clear, Arrive, Goto
  <2>1. bar[t] = 4 * R(t) + 1 /\ bar'[t] = 4 * R(t) + 2 /\ pc'[t] = "add" /\ pc[t] = "clear"
    BY <1>5, <2>0 DEF Phase
  <2>2. CASE t = Zero
    <3>1. Contributors' = {}
      BY <1>1, <1>4, <1>5, <1>6, <2>1, <2>2
    <3>2. Call(Zero) \in CallRecord /\ Call(Zero).op # "atomic"
      BY <1>1, <2>1, <2>2, ThreadFacts DEF IInv, InCall, InReduction
    <3>3. Gathered(Call(Zero), {}) = IF Call(Zero).op = "and" THEN 1 ELSE 0
      <4>1. {} \in SUBSET Threads /\ Zero \notin {}
        OBVIOUS
      <4> QED BY <1>1, <3>2, <4>1, GatheredStep
    <3>4. Gathered(Call(Zero), Contributors)' = Gathered(Call(Zero), {})
      BY <1>3, <3>1 DEF Gathered
    <3> QED BY <1>9, <2>2, <3>3, <3>4 DEF Clear
  <2>3. CASE t # Zero
    <3>1. pc[Zero] \in {"add", "read", "leave"} /\ word' = word
      BY <1>1, <1>4, <1>9, <2>3 DEF Clear
    <3>2. bar[Zero] <= 4 * R(Zero) + 4 /\ bar[Zero] >= bar[t]
      BY <1>1, <1>5, <1>9, <3>1 DEF Clear, MayPass, Phase
    <3>3. R(t) <= R(Zero)
      BY <1>1, <1>5, <2>1, <3>2
    <3>4. Contributors' = Contributors
      BY <1>1, <1>4, <1>5, <1>6, <2>1, <3>3 DEF Contributors, R
    <3> QED BY <1>7, <3>1, <3>4
  <2> QED BY <2>2, <2>3
<1>10. CASE Contribute(t)
  <2>0. pc[t] = "add" /\ bar'[t] = bar[t] + 1 /\ pc'[t] = "read"
    BY <1>1, <1>10 DEF TypeOK, Contribute, Arrive, Goto
  <2>1. bar[t] = 4 * R(t) + 2 /\ bar'[t] = 4 * R(t) + 3 /\ pc[t] = "add" /\ pc'[t] = "read"
    BY <1>5, <2>0 DEF Phase
  <2>2. pc[Zero] \in {"add", "read", "leave"}
    BY <1>1, <1>4, <2>1
  <2>3. bar[t] <= bar[Zero] /\ bar[Zero] <= bar[t] + 1
    BY <1>1, <1>5, <1>10 DEF Contribute, MayPass
  <2>4. R(Zero) = R(t)
    <3>1. bar[Zero] \in {4 * R(Zero) + 2, 4 * R(Zero) + 3, 4 * R(Zero) + 4}
      BY <1>1, <1>5, <2>2 DEF Phase
    <3>2. R(Zero) \in Nat /\ R(t) \in Nat
      BY <1>1, <1>5
    <3> QED BY <2>1, <2>3, <3>1, <3>2
  <2>5. Call(Zero) = Call(t)
    BY <1>1, <2>1, <2>2, <2>4, SameCall DEF InReduction, R
  <2>6. Contributors' = Contributors \cup {t} /\ t \notin Contributors
    BY <1>1, <1>4, <1>5, <1>6, <2>1, <2>4 DEF Contributors, R
  <2>7. Call(t) \in CallRecord /\ Call(t).op # "atomic"
    BY <2>1, ThreadFacts DEF IInv, InCall, InReduction
  <2>8. Gathered(Call(t), Contributors \cup {t})
          = Contributed(Gathered(Call(t), Contributors), Call(t).op, Call(t).v[t])
    <3>1. Contributors \in SUBSET Threads
      BY DEF Contributors
    <3> QED BY <2>6, <2>7, <3>1, GatheredStep
  <2>9. word = Gathered(Call(t), Contributors)
    BY <1>1, <2>2, <2>5 DEF WordInv
  <2>10. Gathered(Call(Zero), Contributors)' = Gathered(Call(t), Contributors \cup {t})
    BY <1>3, <2>5, <2>6 DEF Gathered
  <2> QED BY <1>10, <2>8, <2>9, <2>10 DEF Contribute
<1>11. CASE ReadWord(t)
  <2>0. pc[t] = "read" /\ bar'[t] = bar[t] + 1 /\ word' = word /\ pc'[t] = "leave"
    BY <1>1, <1>11 DEF TypeOK, ReadWord, Arrive, Goto
  <2>1. bar[t] = 4 * R(t) + 3 /\ bar'[t] = 4 * R(t) + 4 /\ word' = word /\ pc[t] = "read"
    BY <1>5, <2>0 DEF Phase
  <2>2. Contributors' = Contributors
    BY <1>1, <1>4, <1>5, <1>6, <2>1 DEF Contributors, R
  <2>3. pc[Zero] \in {"add", "read", "leave"}
    BY <1>1, <1>4, <2>1
  <2> QED BY <1>7, <2>1, <2>2, <2>3
<1>12. CASE Leave(t) \/ Atomic(t) \/ Load(t) \/ Cas(t)
  <2>1. bar' = bar /\ word' = word
    BY <1>12 DEF Leave, Atomic, Load, Cas
  <2>2. Contributors' = Contributors
    BY <1>6, <2>1 DEF Contributors, R
  <2>3. pc'[t] \in {"idle", "cas"}
    BY <1>1, <1>12 DEF TypeOK, Leave, Atomic, Load, Cas, Returns, Goto
  <2>4. pc[Zero] \in {"add", "read", "leave"}
    BY <1>1, <1>4, <2>3
  <2> QED BY <1>7, <2>1, <2>2, <2>4
<1> QED BY <1>8, <1>9, <1>10, <1>11, <1>12 DEF Step

\* What a thread has read when it leaves is the reduction of every predicate.
LEMMA StepReg ==
  ASSUME IInv, NEW t \in Threads, Step(t), NEW u \in Threads, pc'[u] = "leave"
  PROVE  reg'[u] = Gathered(Call(u), Threads)'
<1>1. TypeOK /\ WordInv /\ Zero \in Threads
  BY ThreadsAssumption DEF IInv
<1>2. kernel' = kernel
  BY DEF Step, Enter, Clear, Contribute, ReadWord, Leave, Atomic, Load, Cas
<1>3. CASE u # t \/ ~ReadWord(t)
  <2>1. pc[u] = "leave" /\ at'[u] = at[u] /\ reg'[u] = reg[u]
    BY <1>1, <1>3 DEF TypeOK, Step, Enter, Clear, Contribute, ReadWord, Leave, Atomic, Load, Cas,
                      Arrive, Goto, Returns
  <2>2. reg[u] = Gathered(Call(u), Threads)
    BY <2>1 DEF IInv
  <2> QED BY <1>2, <2>1, <2>2 DEF Gathered, Call
<1>4. CASE u = t /\ ReadWord(t)
  <2>1. pc[t] = "read" /\ reg'[t] = word /\ at' = at /\ MayPass(t)
    BY <1>1, <1>4 DEF TypeOK, ReadWord
  <2>2. /\ bar[t] \in Nat /\ Rounds(kernel, at[t]) \in Nat
        /\ bar[t] = 4 * Rounds(kernel, at[t]) + 3
    BY <2>1, ThreadFacts DEF Phase
  <2>3. /\ bar[Zero] \in Nat /\ Rounds(kernel, at[Zero]) \in Nat
        /\ bar[Zero] = 4 * Rounds(kernel, at[Zero]) + Phase(pc[Zero])
        /\ pc[Zero] \in {"idle", "clear", "add", "read", "leave", "cas"}
    BY <1>1, ThreadFacts
  <2>4. bar[t] <= bar[Zero] /\ bar[Zero] <= bar[t] + (IF InReduction(Zero) THEN 1 ELSE 0)
    BY <1>1, <2>1 DEF IInv, Lag, MayPass
  <2>5. pc[Zero] \in {"read", "leave"} /\ Rounds(kernel, at[Zero]) = Rounds(kernel, at[t])
    <3>1. CASE pc[Zero] \in {"idle", "cas"}
      BY <2>2, <2>3, <2>4, <3>1 DEF Phase, InReduction
    <3>2. CASE pc[Zero] \in {"clear", "add"}
      <4>1. bar[Zero] \in {4 * Rounds(kernel, at[Zero]) + 1, 4 * Rounds(kernel, at[Zero]) + 2}
        BY <2>3, <3>2 DEF Phase
      <4> QED BY <2>2, <2>3, <2>4, <4>1
    <3>3. CASE pc[Zero] \in {"read", "leave"}
      <4>1. bar[Zero] \in {4 * Rounds(kernel, at[Zero]) + 3, 4 * Rounds(kernel, at[Zero]) + 4}
        BY <2>3, <3>3 DEF Phase
      <4> QED BY <2>2, <2>3, <2>4, <3>3, <4>1
    <3> QED BY <2>3, <3>1, <3>2, <3>3
  <2>6. Call(Zero) = Call(t)
    BY <1>1, <2>1, <2>5, SameCall DEF InReduction
  <2>7. Contributors = Threads
    BY <2>1, <2>2, <2>5 DEF Contributors, MayPass
  <2>8. word = Gathered(Call(t), Threads)
    BY <1>1, <2>5, <2>6, <2>7 DEF WordInv
  <2> QED BY <1>2, <1>4, <2>1, <2>8 DEF Gathered, Call
<1> QED BY <1>3, <1>4

-----------------------------------------------------------------------------
(* Theorems *)

\* The inductive invariant of the reducing barriers and the atomics holds.
THEOREM Invariance == Spec => []IInv
<1>1. Init => IInv
  BY InitIInv
<1>2. IInv /\ [Next]_vars => IInv'
  <2> SUFFICES ASSUME IInv, [Next]_vars PROVE IInv'
    OBVIOUS
  <2>1. CASE Next
    <3>1. PICK t \in Threads : Step(t)
      BY <2>1 DEF Next
    <3> QED BY <3>1, StepType, StepInCall, StepLag, StepWord, StepReg DEF IInv
  <2>2. CASE UNCHANGED vars
    BY <2>2 DEF vars, IInv, TypeOK, InCall, Lag, WordInv, InReduction, Call, Contributors,
                Gathered
  <2> QED BY <2>1, <2>2
<1> QED BY <1>1, <1>2, PTL DEF Spec

\* The threads' state is always well typed.
THEOREM BlockTyped == Spec => []TypeOK
<1>1. IInv => TypeOK
  BY DEF IInv
<1> QED BY <1>1, Invariance, PTL

\* Thread 0's store to the word, the threads' updates and their loads never
\* race, for any kernel of reductions and atomics.
THEOREM WordNeverRaces == Spec => []NoRace
<1>1. IInv => NoRace
  <2> SUFFICES ASSUME IInv, NEW t \in Threads, NEW u \in Threads
               PROVE  /\ ~(Stores(t) /\ (Loads(u) \/ Updates(u)))
                      /\ ~(Loads(t) /\ Updates(u))
    BY DEF NoRace
  <2> DEFINE a == Rounds(kernel, at[t])
             b == Rounds(kernel, at[u])
  <2>1. a \in Nat /\ bar[t] \in Nat /\ bar[t] = 4 * a + Phase(pc[t])
    BY ThreadFacts
  <2>2. b \in Nat /\ bar[u] \in Nat /\ bar[u] = 4 * b + Phase(pc[u])
    BY ThreadFacts
  <2> HIDE DEF a, b
  <2>3. MayPass(t) /\ MayPass(u) => bar[t] = bar[u]
    BY <2>1, <2>2 DEF MayPass
  <2>4. Stores(t) => bar[t] = 4 * a + 1 /\ MayPass(t)
    BY <2>1 DEF Stores, Phase
  <2>5. Loads(t) => bar[t] = 4 * a + 3 /\ MayPass(t)
    BY <2>1 DEF Loads, Phase
  <2>6. Loads(u) => bar[u] = 4 * b + 3 /\ MayPass(u)
    BY <2>2 DEF Loads, Phase
  <2>7. Updates(u) => bar[u] = 4 * b + 2 /\ MayPass(u)
    BY <2>2 DEF Updates, Phase
  <2>8. 4 * a + 1 # 4 * b + 3 /\ 4 * a + 1 # 4 * b + 2 /\ 4 * a + 3 # 4 * b + 2
    BY <2>1, <2>2
  <2>9. ~(Stores(t) /\ Loads(u)) /\ ~(Stores(t) /\ Updates(u)) /\ ~(Loads(t) /\ Updates(u))
    BY <2>3, <2>4, <2>5, <2>6, <2>7, <2>8, Zenon
  <2> QED BY <2>9, Zenon
<1> QED BY <1>1, Invariance, PTL

-----------------------------------------------------------------------------
(* The functions implement DeviceCalls *)

Entered == [x \in Threads |-> IF InReduction(x) THEN at[x] + 1 ELSE at[x]]

\* What the atomics store is what DeviceCalls says they leave.
LEMMA SameUpdate ==
  ASSUME NEW old \in Word, NEW v \in Word, NEW fn \in Fns
  PROVE  /\ fn \notin Loops => Rmw(fn, old, v) = Abstract!Update(fn, old, v)
         /\ fn \in Loops => Wanted(fn, old, v) = Abstract!Update(fn, old, v)
<1>1. old \in Nat /\ v \in Nat
  BY Remainder DEF Word
<1>2. old + -v = old - v
  BY <1>1
<1>3. CASE fn \in {"add", "sub", "exch", "min", "max"}
  BY <1>1, <1>2, <1>3 DEF Loops, Rmw, Abstract!Update
<1>4. CASE fn = "inc"
  BY <1>1, <1>4 DEF Loops, Wanted, Abstract!Update
<1>5. CASE fn = "dec"
  <2>1. old \in 1 .. v <=> ~(old = 0 \/ old > v)
    BY <1>1
  <2> QED BY <1>5, <2>1 DEF Loops, Wanted, Abstract!Update
<1> QED BY <1>3, <1>4, <1>5 DEF Fns, Loops

\* A thread that leaves its reduction leaves one that every thread has entered.
LEMMA AllEntered ==
  ASSUME IInv, NEW t \in Threads, Leave(t), NEW u \in Threads
  PROVE  Entered[u] > at[t]
<1>1. kernel \in Seq(CallRecord) /\ at[t] \in Nat /\ at[u] \in Nat
  BY ThreadFacts
<1>2. /\ Rounds(kernel, at[t]) \in Nat /\ Rounds(kernel, at[u]) \in Nat
      /\ bar[t] = 4 * Rounds(kernel, at[t]) + 4
      /\ bar[u] = 4 * Rounds(kernel, at[u]) + Phase(pc[u])
      /\ bar[u] >= bar[t]
  BY ThreadFacts DEF Leave, Phase, MayPass
<1>3. CASE InReduction(u)
  <2>1. kernel[at[u] + 1].op # "atomic"
    BY <1>3 DEF IInv, InCall, Call
  <2>2. at[u] < at[t] => Rounds(kernel, at[u]) + 1 <= Rounds(kernel, at[t])
    BY <1>1, <2>1, RoundsSame
  <2>3. Phase(pc[u]) \in 0 .. 4
    BY DEF Phase
  <2>4. ~(at[u] < at[t])
    BY <1>2, <2>2, <2>3
  <2> QED BY <1>1, <1>3, <2>4 DEF Entered
<1>4. CASE ~InReduction(u)
  <2>1. Phase(pc[u]) = 0
    BY <1>4 DEF Phase, InReduction
  <2>2. at[u] <= at[t] => Rounds(kernel, at[u]) <= Rounds(kernel, at[t])
    BY <1>1, RoundsStep
  <2> QED BY <1>1, <1>2, <1>4, <2>1, <2>2 DEF Entered
<1> QED BY <1>3, <1>4

\* What the threads gather is the reduction DeviceCalls promises.
LEMMA GatheredAll ==
  ASSUME NEW c \in CallRecord, c.op # "atomic"
  PROVE  Gathered(c, Threads) = Abstract!Reduction(c)
<1>1. c.op \in {"count", "and", "or"}
  BY DEF CallRecord, Reductions
<1>2. CASE c.op = "count"
  <2>1. Gathered(c, Threads) = Cardinality(Abstract!Trues(c))
    BY <1>2 DEF Gathered, Abstract!Trues
  <2>2. Abstract!Reduction(c) = Cardinality(Abstract!Trues(c))
    <3>1. \A S : Abstract!Cardinality(S) = Cardinality(S)
      BY Zenon DEF Cardinality, Abstract!Cardinality
    <3> QED BY <1>2, <3>1 DEF Abstract!Reduction
  <2> QED BY <2>1, <2>2
<1>3. CASE c.op = "and"
  BY <1>3 DEF Gathered, Abstract!Reduction, Abstract!Trues
<1>4. CASE c.op = "or"
  BY <1>4 DEF Gathered, Abstract!Reduction, Abstract!Trues
<1> QED BY <1>1, <1>2, <1>3, <1>4

\* Every step of a thread is a step of DeviceCalls or changes nothing it sees.
LEMMA StepRefines ==
  ASSUME IInv, NEW t \in Threads, Step(t)
  PROVE  [Abstract!Next]_(Abstract!vars)
<1>1. TypeOK /\ InCall(t)
  BY DEF IInv
<1>2. at[t] < Len(kernel) => Call(t) \in CallRecord
  BY ThreadFacts
<1>3. \A x \in Threads : at[x] \in Nat
  BY ThreadFacts
<1>4. \A x \in Threads : x # t => pc'[x] = pc[x] /\ at'[x] = at[x]
  BY <1>1 DEF TypeOK, Step, Enter, Clear, Contribute, ReadWord, Leave, Atomic, Load, Cas,
              Arrive, Goto, Returns
<1>5. \A x \in Threads : x # t => Entered'[x] = Entered[x]
  BY <1>4 DEF Entered, InReduction
<1>6. Entered \in [Threads -> Nat] /\ Entered' = [x \in Threads |-> Entered'[x]]
  BY <1>3 DEF Entered
<1>7. CASE Enter(t)
  <2>1. /\ pc[t] = "idle" /\ pc'[t] = "clear" /\ at' = at /\ at[t] < Len(kernel)
        /\ Call(t).op # "atomic" /\ UNCHANGED <<kernel, cell, ret>>
    BY <1>1, <1>7 DEF TypeOK, Enter, Calls, Arrive, Goto, Reductions
  <2>2. Entered[t] = at[t] /\ Entered'[t] = Entered[t] + 1
    BY <2>1 DEF Entered, InReduction
  <2>3. Entered' = [Entered EXCEPT ![t] = @ + 1]
    BY <1>5, <1>6, <2>2
  <2>4. Abstract!Enter(t)
    BY <2>1, <2>2, <2>3 DEF Abstract!Enter, Abstract!MayCall, Abstract!Call, Call, Entered
  <2> QED BY <2>4 DEF Abstract!Next
<1>8. CASE Clear(t) \/ Contribute(t) \/ ReadWord(t) \/ Load(t) \/ (Cas(t) /\ cell # reg[t])
  <2>1. /\ at' = at /\ UNCHANGED <<kernel, cell, ret>>
        /\ InReduction(t)' = InReduction(t)
    BY <1>1, <1>8 DEF TypeOK, Clear, Contribute, ReadWord, Load, Cas, Calls, Arrive, Goto,
                      InReduction
  <2>2. Entered' = Entered
    BY <1>4, <2>1 DEF Entered, InReduction
  <2> QED BY <2>1, <2>2 DEF Abstract!vars, Entered
<1>9. CASE Leave(t)
  <2>1. /\ pc[t] = "leave" /\ pc'[t] = "idle" /\ at[t] < Len(kernel) /\ Call(t).op # "atomic"
        /\ at' = [at EXCEPT ![t] = @ + 1] /\ ret' = [ret EXCEPT ![t] = reg[t]]
        /\ UNCHANGED <<kernel, cell>>
    BY <1>1, <1>9 DEF TypeOK, Leave, Returns, Goto, InCall, InReduction
  <2>2. Entered[t] = at[t] + 1 /\ Entered'[t] = at[t] + 1
    BY <1>1, <2>1 DEF TypeOK, Entered, InReduction
  <2>3. Entered' = Entered
    BY <1>5, <1>6, <2>2
  <2>4. reg[t] = Abstract!Reduction(Call(t))
    BY <1>2, <2>1, GatheredAll DEF IInv
  <2>5. \A u \in Threads : Entered[u] > at[t]
    BY <1>9, AllEntered
  <2>6. Abstract!Leave(t)
    BY <2>1, <2>2, <2>3, <2>4, <2>5 DEF Abstract!Leave, Abstract!Returns, Abstract!Call, Call, Entered
  <2> QED BY <2>6 DEF Abstract!Next
<1>10. CASE Atomic(t) \/ (Cas(t) /\ cell = reg[t])
  <2>1. /\ pc[t] \in {"idle", "cas"} /\ pc'[t] = "idle" /\ at[t] < Len(kernel)
        /\ Call(t).op = "atomic"
        /\ at' = [at EXCEPT ![t] = @ + 1] /\ ret' = [ret EXCEPT ![t] = cell]
        /\ UNCHANGED kernel
    BY <1>1, <1>10 DEF TypeOK, Atomic, Cas, Calls, Returns, Goto, InCall
  <2>2. cell \in Word /\ Call(t).v[t] \in Word /\ Call(t).fn[t] \in Fns
    BY <1>1, <1>2, <2>1 DEF TypeOK, CallRecord
  <2>3. cell' = Abstract!Update(Call(t).fn[t], cell, Call(t).v[t])
    <3>1. CASE Atomic(t)
      BY <2>2, <3>1, SameUpdate DEF Atomic
    <3>2. CASE Cas(t) /\ cell = reg[t]
      BY <1>1, <2>2, <3>2, SameUpdate DEF Cas, InCall
    <3> QED BY <1>10, <3>1, <3>2
  <2>4. Entered[t] = at[t] /\ Entered'[t] = Entered[t] + 1
    BY <1>1, <2>1 DEF TypeOK, Entered, InReduction
  <2>5. Entered' = [Entered EXCEPT ![t] = @ + 1]
    BY <1>5, <1>6, <2>4
  <2>6. Abstract!Atomic(t)
    BY <2>1, <2>3, <2>4, <2>5
       DEF Abstract!Atomic, Abstract!MayCall, Abstract!Returns, Abstract!Call, Call, Entered
  <2> QED BY <2>6 DEF Abstract!Next
<1> QED BY <1>7, <1>8, <1>9, <1>10 DEF Step

\* The compare-and-swap loops are atomic updates and the reducing barriers give
\* every thread the reduction of the call it made, for any block and kernel.
THEOREM Refinement == Spec => ImplementsCalls
<1>1. Init => Abstract!Init
  BY Remainder DEF Init, Abstract!Init, InReduction, Word
<1>2. IInv /\ [Next]_vars => [Abstract!Next]_(Abstract!vars)
  <2> SUFFICES ASSUME IInv, [Next]_vars PROVE [Abstract!Next]_(Abstract!vars)
    OBVIOUS
  <2>1. CASE Next
    <3>1. PICK t \in Threads : Step(t)
      BY <2>1 DEF Next
    <3> QED BY <3>1, StepRefines
  <2>2. CASE UNCHANGED vars
    BY <2>2 DEF vars, Abstract!vars, InReduction
  <2> QED BY <2>1, <2>2
<1> QED BY <1>1, <1>2, Invariance, PTL DEF Spec, ImplementsCalls, Abstract!Spec
=============================================================================
