------------------------ MODULE CvcHeartbeat_proofs ------------------------
(***************************************************************************)
(* Proofs about the heartbeat supervision of the Central Vehicle Computer: *)
(* the incremental counters of the E2E state machine count what is in its  *)
(* circular buffer, for every window size, and the state machine           *)
(* implements the status over the last samples.                            *)
(***************************************************************************)
EXTENDS CvcHeartbeat, FiniteSetTheorems, TLAPS

\* The filled slots that hold a sample.
Slots(m, sample) == {i \in 0 .. m.SampleCount - 1 : m.WindowBuf[i] = sample}

\* The invariant of the state machine: the counters are those of the buffer,
\* which fills from its start.
SmInv(c, m) ==
    /\ m \in SmVariables(c)
    /\ m.SampleCount < c.WindowSize => m.WindowIdx = m.SampleCount
    /\ m.OkCount = Cardinality(Slots(m, "OK"))
    /\ m.ErrorCount = Cardinality(Slots(m, "ERROR"))

LEMMA SlotsFinite ==
  ASSUME NEW c \in SmConfigs, NEW m \in SmVariables(c), NEW sample
  PROVE  /\ IsFiniteSet(Slots(m, sample))
         /\ Cardinality(Slots(m, sample)) \in 0 .. c.WindowSize
  <1>1. c.WindowSize \in Nat \ {0} /\ m.SampleCount \in 0 .. c.WindowSize
    BY DEF SmConfigs, SmVariables
  <1> DEFINE n == m.SampleCount
             w == c.WindowSize
  <1>2. IsFiniteSet(0 .. n - 1) /\ Cardinality(0 .. n - 1) <= w
    <2>1. n \in Nat /\ w \in Nat /\ n <= w /\ 0 \in Int /\ n - 1 \in Int
      BY <1>1
    <2> HIDE DEF n, w
    <2>2. IsFiniteSet(0 .. n - 1) /\ Cardinality(0 .. n - 1) = IF 0 > n - 1 THEN 0 ELSE n - 1 - 0 + 1
      BY <2>1, FS_Interval
    <2> QED BY <2>1, <2>2
  <1>3. Slots(m, sample) \in SUBSET (0 .. n - 1)
    BY DEF Slots
  <1>4. IsFiniteSet(Slots(m, sample)) /\ Cardinality(Slots(m, sample)) <= Cardinality(0 .. n - 1)
    BY <1>2, <1>3, FS_Subset
  <1>5. Cardinality(Slots(m, sample)) \in Nat /\ Cardinality(0 .. n - 1) \in Nat
    BY <1>2, <1>4, FS_CardinalityType
  <1> QED BY <1>1, <1>2, <1>4, <1>5

LEMMA SmStarts ==
  ASSUME NEW c \in SmConfigs
  PROVE  SmInv(c, E2E_Sm_Init(c))
  <1> DEFINE m == E2E_Sm_Init(c)
  <1> SUFFICES SmInv(c, m)
    OBVIOUS
  <1>1. c.WindowSize \in Nat \ {0}
    BY DEF SmConfigs
  <1>2. m \in SmVariables(c)
    <2>1. 0 \in 0 .. c.WindowSize - 1 /\ 0 \in 0 .. c.WindowSize
      BY <1>1
    <2> QED BY <2>1 DEF E2E_Sm_Init, SmVariables, SmStatuses, Samples
  <1>3. \A sample : Slots(m, sample) = {}
    BY DEF Slots, E2E_Sm_Init
  <1>4. m.SampleCount = 0 /\ m.WindowIdx = 0 /\ m.OkCount = 0 /\ m.ErrorCount = 0
    BY DEF E2E_Sm_Init
  <1> HIDE DEF m
  <1> QED BY <1>2, <1>3, <1>4, FS_EmptySet DEF SmInv

\* The status that follows from any counts is a status.
LEMMA StatusType ==
  ASSUME NEW c, NEW status \in SmStatuses, NEW oks, NEW errors
  PROVE  NextStatus(c, status, oks, errors) \in SmStatuses
  BY DEF NextStatus, SmStatuses

\* What one check leaves, field by field.
SmChecked(c, m, sample, t) ==
    LET full == ~(m.SampleCount < c.WindowSize)
        old == m.WindowBuf[m.WindowIdx]
        oks == IF full /\ old = "OK" THEN m.OkCount - 1 ELSE m.OkCount
        errors == IF full /\ old = "ERROR" THEN m.ErrorCount - 1 ELSE m.ErrorCount
    IN  /\ t.WindowBuf = [m.WindowBuf EXCEPT ![m.WindowIdx] = sample]
        /\ t.SampleCount = IF full THEN m.SampleCount ELSE m.SampleCount + 1
        /\ t.WindowIdx = IF m.WindowIdx + 1 >= c.WindowSize THEN 0 ELSE m.WindowIdx + 1
        /\ t.OkCount = IF sample = "OK" THEN oks + 1 ELSE oks
        /\ t.ErrorCount = IF sample = "OK" THEN errors ELSE errors + 1
        /\ t.Status = NextStatus(c, m.Status, t.OkCount, t.ErrorCount)
        /\ t = [Status |-> t.Status, WindowBuf |-> t.WindowBuf, WindowIdx |-> t.WindowIdx,
                OkCount |-> t.OkCount, ErrorCount |-> t.ErrorCount, SampleCount |-> t.SampleCount]

\* A slot that is evicted was counted.
LEMMA EvictedWasCounted ==
  ASSUME NEW c \in SmConfigs, NEW m, SmInv(c, m), ~(m.SampleCount < c.WindowSize)
  PROVE  /\ m.WindowBuf[m.WindowIdx] \in Samples
         /\ m.WindowBuf[m.WindowIdx] = "OK" => m.OkCount > 0
         /\ m.WindowBuf[m.WindowIdx] = "ERROR" => m.ErrorCount > 0
  <1> DEFINE i == m.WindowIdx
  <1>1. c.WindowSize \in Nat \ {0} /\ m.SampleCount = c.WindowSize /\ i \in 0 .. c.WindowSize - 1
        /\ m.WindowBuf \in [0 .. c.WindowSize - 1 -> Samples] /\ m \in SmVariables(c)
    BY DEF SmInv, SmConfigs, SmVariables
  <1>2. \A sample : m.WindowBuf[i] = sample => Cardinality(Slots(m, sample)) > 0
    <2> SUFFICES ASSUME NEW sample, m.WindowBuf[i] = sample
                 PROVE  Cardinality(Slots(m, sample)) > 0
      OBVIOUS
    <2>1. i \in Slots(m, sample)
      BY <1>1 DEF Slots
    <2>2. IsFiniteSet(Slots(m, sample)) /\ Cardinality(Slots(m, sample)) \in Nat
      BY <1>1, SlotsFinite
    <2>3. Cardinality(Slots(m, sample)) # 0
      BY <2>1, <2>2, FS_EmptySet
    <2> QED BY <2>2, <2>3
  <1> QED BY <1>1, <1>2 DEF SmInv

LEMMA CheckRuns ==
  ASSUME NEW c \in SmConfigs, NEW m, SmInv(c, m), NEW sample \in Samples
  PROVE  SmChecked(c, m, sample, E2E_Sm_Check(c, m, sample))
  <1> DEFINE e == Evict(c, m)
             f == Insert(c, e, sample)
             t == E2E_Sm_Check(c, m, sample)
  <1> SUFFICES SmChecked(c, m, sample, t)
    OBVIOUS
  <1>1. /\ m = [Status |-> m.Status, WindowBuf |-> m.WindowBuf, WindowIdx |-> m.WindowIdx,
                OkCount |-> m.OkCount, ErrorCount |-> m.ErrorCount, SampleCount |-> m.SampleCount]
        /\ m.OkCount \in Nat /\ m.ErrorCount \in Nat
    BY DEF SmInv, SmVariables
  <1>2. e = [m EXCEPT !.SampleCount = IF m.SampleCount < c.WindowSize THEN @ + 1 ELSE @,
                      !.OkCount = IF ~(m.SampleCount < c.WindowSize)
                                     /\ m.WindowBuf[m.WindowIdx] = "OK" THEN @ - 1 ELSE @,
                      !.ErrorCount = IF ~(m.SampleCount < c.WindowSize)
                                     /\ m.WindowBuf[m.WindowIdx] = "ERROR" THEN @ - 1 ELSE @]
    <2>1. CASE m.SampleCount < c.WindowSize
      BY <1>1, <2>1 DEF Evict
    <2>2. CASE ~(m.SampleCount < c.WindowSize)
      BY <1>1, <2>2, EvictedWasCounted DEF Evict, Samples
    <2> QED BY <2>1, <2>2
  <1>3. f = [e EXCEPT !.WindowBuf[e.WindowIdx] = sample,
                      !.OkCount = IF sample = "OK" THEN @ + 1 ELSE @,
                      !.ErrorCount = IF sample = "OK" THEN @ ELSE @ + 1,
                      !.WindowIdx = IF @ + 1 >= c.WindowSize THEN 0 ELSE @ + 1]
    BY DEF Insert
  <1>4. t = [f EXCEPT !.Status = NextStatus(c, @, f.OkCount, f.ErrorCount)]
    BY DEF E2E_Sm_Check
  <1> HIDE DEF e, f, t
  <1>5. /\ e.WindowBuf = m.WindowBuf /\ e.WindowIdx = m.WindowIdx /\ e.Status = m.Status
        /\ e.SampleCount = IF m.SampleCount < c.WindowSize THEN m.SampleCount + 1 ELSE m.SampleCount
        /\ e.OkCount = IF ~(m.SampleCount < c.WindowSize) /\ m.WindowBuf[m.WindowIdx] = "OK"
                       THEN m.OkCount - 1 ELSE m.OkCount
        /\ e.ErrorCount = IF ~(m.SampleCount < c.WindowSize) /\ m.WindowBuf[m.WindowIdx] = "ERROR"
                          THEN m.ErrorCount - 1 ELSE m.ErrorCount
        /\ e = [Status |-> e.Status, WindowBuf |-> e.WindowBuf, WindowIdx |-> e.WindowIdx,
                OkCount |-> e.OkCount, ErrorCount |-> e.ErrorCount, SampleCount |-> e.SampleCount]
    BY <1>1, <1>2
  <1>6. /\ f.WindowBuf = [e.WindowBuf EXCEPT ![e.WindowIdx] = sample]
        /\ f.WindowIdx = IF e.WindowIdx + 1 >= c.WindowSize THEN 0 ELSE e.WindowIdx + 1
        /\ f.Status = e.Status /\ f.SampleCount = e.SampleCount
        /\ f.OkCount = IF sample = "OK" THEN e.OkCount + 1 ELSE e.OkCount
        /\ f.ErrorCount = IF sample = "OK" THEN e.ErrorCount ELSE e.ErrorCount + 1
        /\ f = [Status |-> f.Status, WindowBuf |-> f.WindowBuf, WindowIdx |-> f.WindowIdx,
                OkCount |-> f.OkCount, ErrorCount |-> f.ErrorCount, SampleCount |-> f.SampleCount]
    BY <1>3, <1>5
  <1>7. /\ t.WindowBuf = f.WindowBuf /\ t.WindowIdx = f.WindowIdx /\ t.SampleCount = f.SampleCount
        /\ t.OkCount = f.OkCount /\ t.ErrorCount = f.ErrorCount
        /\ t.Status = NextStatus(c, f.Status, f.OkCount, f.ErrorCount)
        /\ t = [Status |-> t.Status, WindowBuf |-> t.WindowBuf, WindowIdx |-> t.WindowIdx,
                OkCount |-> t.OkCount, ErrorCount |-> t.ErrorCount, SampleCount |-> t.SampleCount]
    BY <1>4, <1>6
  <1>8. /\ t.WindowBuf = [m.WindowBuf EXCEPT ![m.WindowIdx] = sample]
        /\ t.WindowIdx = IF m.WindowIdx + 1 >= c.WindowSize THEN 0 ELSE m.WindowIdx + 1
        /\ t.SampleCount = IF m.SampleCount < c.WindowSize THEN m.SampleCount + 1 ELSE m.SampleCount
        /\ t.Status = NextStatus(c, m.Status, t.OkCount, t.ErrorCount)
    BY <1>5, <1>6, <1>7
  <1> QED BY <1>5, <1>6, <1>7, <1>8 DEF SmChecked

\* The slots after a check: the slot written is out, and in again where the
\* sample is looked for.
LEMMA SlotsAfter ==
  ASSUME NEW c \in SmConfigs, NEW m, SmInv(c, m), NEW sample \in Samples, NEW t,
         SmChecked(c, m, sample, t), NEW s \in Samples
  PROVE  Slots(t, s) = IF sample = s THEN (Slots(m, s) \ {m.WindowIdx}) \cup {m.WindowIdx}
                       ELSE Slots(m, s) \ {m.WindowIdx}
  <1> DEFINE i == m.WindowIdx
             n == m.SampleCount
             w == c.WindowSize
             buf == m.WindowBuf
  <1>1. /\ w \in Nat \ {0} /\ n \in 0 .. w /\ i \in 0 .. w - 1
        /\ buf \in [0 .. w - 1 -> Samples]
        /\ n < w => i = n
    BY DEF SmInv, SmConfigs, SmVariables
  <1>2. /\ t.WindowBuf = [buf EXCEPT ![i] = sample]
        /\ t.SampleCount = IF n < w THEN n + 1 ELSE n
    BY DEF SmChecked
  <1>3. t.SampleCount \in 0 .. w /\ i \in 0 .. t.SampleCount - 1
        /\ \A j \in 0 .. t.SampleCount - 1 : j # i => j \in 0 .. n - 1
        /\ n <= t.SampleCount
    BY <1>1, <1>2
  <1>4. \A j \in 0 .. w - 1 : t.WindowBuf[j] = IF j = i THEN sample ELSE buf[j]
    BY <1>1, <1>2
  <1> HIDE DEF i, n, w, buf
  <1>5. \A j : j \in Slots(t, s) <=> j \in 0 .. t.SampleCount - 1
                                     /\ (IF j = i THEN sample = s ELSE buf[j] = s)
    BY <1>1, <1>3, <1>4 DEF Slots
  <1>6. \A j : j \in Slots(m, s) <=> j \in 0 .. n - 1 /\ buf[j] = s
    BY DEF Slots, n, buf
  <1>7. \A j : j # i => (j \in 0 .. t.SampleCount - 1 <=> j \in 0 .. n - 1)
    <2>1. CASE n < w
      <3>1. t.SampleCount - 1 = n /\ i = n /\ n \in Nat
        BY <1>1, <1>2, <2>1 DEF i, n, w
      <3> QED BY <3>1
    <2>2. CASE ~(n < w)
      <3>1. t.SampleCount = n
        BY <1>1, <1>2, <2>2 DEF i, n, w
      <3> QED BY <3>1
    <2> QED BY <2>1, <2>2
  <1>8. \A j : j \in Slots(t, s) <=> (j # i /\ j \in Slots(m, s)) \/ (j = i /\ sample = s)
    BY <1>3, <1>5, <1>6, <1>7
  <1> QED BY <1>8 DEF i

LEMMA CheckKeeps ==
  ASSUME NEW c \in SmConfigs, NEW m, SmInv(c, m), NEW sample \in Samples, NEW t,
         SmChecked(c, m, sample, t)
  PROVE  SmInv(c, t)
  <1> DEFINE i == m.WindowIdx
             n == m.SampleCount
             w == c.WindowSize
             old == m.WindowBuf[m.WindowIdx]
  <1>1. /\ w \in Nat \ {0} /\ n \in 0 .. w /\ i \in 0 .. w - 1
        /\ m.WindowBuf \in [0 .. w - 1 -> Samples] /\ m.Status \in SmStatuses
        /\ n < w => i = n
        /\ m \in SmVariables(c)
    BY DEF SmInv, SmConfigs, SmVariables
  <1>2. \A s \in Samples : /\ IsFiniteSet(Slots(m, s)) /\ Cardinality(Slots(m, s)) \in Nat
                            /\ IsFiniteSet(Slots(m, s) \ {i})
                            /\ Cardinality(Slots(m, s) \ {i}) = IF i \in Slots(m, s)
                                  THEN Cardinality(Slots(m, s)) - 1 ELSE Cardinality(Slots(m, s))
    <2> SUFFICES ASSUME NEW s \in Samples
                 PROVE  /\ IsFiniteSet(Slots(m, s)) /\ Cardinality(Slots(m, s)) \in Nat
                        /\ IsFiniteSet(Slots(m, s) \ {i})
                        /\ Cardinality(Slots(m, s) \ {i}) = IF i \in Slots(m, s)
                              THEN Cardinality(Slots(m, s)) - 1 ELSE Cardinality(Slots(m, s))
      OBVIOUS
    <2>1. IsFiniteSet(Slots(m, s)) /\ Cardinality(Slots(m, s)) \in Nat
      BY <1>1, SlotsFinite
    <2> HIDE DEF i
    <2> QED BY <2>1, FS_RemoveElement
  <1>3. \A s \in Samples : i \in Slots(m, s) <=> ~(n < w) /\ old = s
    BY <1>1 DEF Slots
  <1>4. \A s \in Samples : Cardinality(Slots(t, s)) = IF sample = s
                                  THEN Cardinality(Slots(m, s) \ {i}) + 1
                                  ELSE Cardinality(Slots(m, s) \ {i})
    <2> SUFFICES ASSUME NEW s \in Samples
                 PROVE  Cardinality(Slots(t, s)) = IF sample = s
                                  THEN Cardinality(Slots(m, s) \ {i}) + 1
                                  ELSE Cardinality(Slots(m, s) \ {i})
      OBVIOUS
    <2>1. Slots(t, s) = IF sample = s THEN (Slots(m, s) \ {i}) \cup {i} ELSE Slots(m, s) \ {i}
      BY SlotsAfter
    <2>2. Cardinality((Slots(m, s) \ {i}) \cup {i}) = Cardinality(Slots(m, s) \ {i}) + 1
      <3> DEFINE rest == Slots(m, s) \ {i}
      <3>1. IsFiniteSet(rest) /\ i \notin rest
        BY <1>2
      <3> HIDE DEF rest, i
      <3>2. Cardinality(rest \cup {i}) = Cardinality(rest) + 1
        BY <3>1, FS_AddElement
      <3> QED BY <3>2 DEF rest
    <2> QED BY <2>1, <2>2
  <1>5. t.OkCount = Cardinality(Slots(t, "OK"))
    <2>1. Cardinality(Slots(m, "OK") \ {i}) = IF ~(n < w) /\ old = "OK"
                                                THEN m.OkCount - 1 ELSE m.OkCount
      BY <1>2, <1>3 DEF SmInv, Samples
    <2> QED BY <1>4, <2>1 DEF SmChecked, Samples
  <1>6. t.ErrorCount = Cardinality(Slots(t, "ERROR"))
    <2>1. Cardinality(Slots(m, "ERROR") \ {i}) = IF ~(n < w) /\ old = "ERROR"
                                                   THEN m.ErrorCount - 1 ELSE m.ErrorCount
      BY <1>2, <1>3 DEF SmInv, Samples
    <2> QED BY <1>4, <2>1 DEF SmChecked, Samples
  <1>7. /\ t.WindowBuf \in [0 .. w - 1 -> Samples]
        /\ t.WindowIdx \in 0 .. w - 1 /\ t.SampleCount \in 0 .. w
        /\ t.SampleCount < w => t.WindowIdx = t.SampleCount
    BY <1>1 DEF SmChecked
  <1>8. t.Status \in SmStatuses
    BY <1>1, StatusType DEF SmChecked
  <1>9. t.OkCount \in 0 .. w /\ t.ErrorCount \in 0 .. w
    <2>1. \A s \in Samples : Slots(t, s) \in SUBSET (0 .. w - 1)
      BY <1>1, <1>7 DEF Slots
    <2>2. IsFiniteSet(0 .. w - 1) /\ Cardinality(0 .. w - 1) = w
      <3>1. w \in Nat \ {0} /\ 0 \in Int /\ w - 1 \in Int
        BY <1>1
      <3> HIDE DEF w
      <3>2. IsFiniteSet(0 .. w - 1) /\ Cardinality(0 .. w - 1) = IF 0 > w - 1 THEN 0 ELSE w - 1 - 0 + 1
        BY <3>1, FS_Interval
      <3> QED BY <3>1, <3>2
    <2>3. \A s \in Samples : IsFiniteSet(Slots(t, s)) /\ Cardinality(Slots(t, s)) <= w
      BY <2>1, <2>2, FS_Subset
    <2>4. \A s \in Samples : Cardinality(Slots(t, s)) \in Nat
      BY <2>3, FS_CardinalityType
    <2> QED BY <1>1, <1>5, <1>6, <2>3, <2>4 DEF Samples
  <1>10. t = [Status |-> t.Status, WindowBuf |-> t.WindowBuf, WindowIdx |-> t.WindowIdx,
              OkCount |-> t.OkCount, ErrorCount |-> t.ErrorCount, SampleCount |-> t.SampleCount]
    BY DEF SmChecked
  <1>11. t \in SmVariables(c)
    BY <1>7, <1>8, <1>9, <1>10 DEF SmVariables
  <1> QED BY <1>5, <1>6, <1>7, <1>11 DEF SmInv

-----------------------------------------------------------------------------
(* The window by age *)

LEMMA SlotsByAge ==
  ASSUME NEW c \in SmConfigs, NEW m, SmInv(c, m)
  PROVE  /\ \A age \in 1 .. m.SampleCount : Slot(c, m, age) \in 0 .. m.SampleCount - 1
         /\ \A a, b \in 1 .. m.SampleCount : Slot(c, m, a) = Slot(c, m, b) => a = b
         /\ \A j \in 0 .. m.SampleCount - 1 : \E age \in 1 .. m.SampleCount : Slot(c, m, age) = j
  <1> DEFINE i == m.WindowIdx
             n == m.SampleCount
             w == c.WindowSize
  <1>1. /\ w \in Nat \ {0} /\ n \in 0 .. w /\ i \in 0 .. w - 1
        /\ n < w => i = n
    BY DEF SmInv, SmConfigs, SmVariables
  <1>2. \A age : Slot(c, m, age) = IF i >= age THEN i - age ELSE i - age + w
    BY DEF Slot
  <1> HIDE DEF i, n, w
  <1>3. \A age \in 1 .. n : Slot(c, m, age) \in 0 .. n - 1
    BY <1>1, <1>2
  <1>4. \A a, b \in 1 .. n : Slot(c, m, a) = Slot(c, m, b) => a = b
    BY <1>1, <1>2
  <1>5. \A j \in 0 .. n - 1 : \E age \in 1 .. n : Slot(c, m, age) = j
    <2> SUFFICES ASSUME NEW j \in 0 .. n - 1
                 PROVE  \E age \in 1 .. n : Slot(c, m, age) = j
      OBVIOUS
    <2> DEFINE age == IF j < i THEN i - j ELSE i - j + w
    <2>1. age \in 1 .. n /\ Slot(c, m, age) = j
      BY <1>1, <1>2
    <2> QED BY <2>1
  <1> QED BY <1>3, <1>4, <1>5 DEF n

\* Counting by age is counting by slot.
LEMMA CountsByAge ==
  ASSUME NEW c \in SmConfigs, NEW m, SmInv(c, m), NEW s
  PROVE  Window!Count(ByAge(c, m), s) = Cardinality(Slots(m, s))
  <1> DEFINE n == m.SampleCount
             ages == {age \in 1 .. n : m.WindowBuf[Slot(c, m, age)] = s}
             f == [age \in ages |-> Slot(c, m, age)]
  <1>1. Window!Count(ByAge(c, m), s) = Cardinality(ages)
    <2>1. DOMAIN ByAge(c, m) = 1 .. n
          /\ \A age \in 1 .. n : ByAge(c, m)[age] = m.WindowBuf[Slot(c, m, age)]
      BY DEF ByAge
    <2>2. {age \in DOMAIN ByAge(c, m) : ByAge(c, m)[age] = s} = ages
      BY <2>1
    <2> QED BY <2>2 DEF Window!Count, Window!Cardinality, Cardinality
  <1>2. f \in [ages -> Slots(m, s)]
    BY SlotsByAge DEF Slots
  <1>3. \A a, b \in ages : f[a] = f[b] => a = b
    BY SlotsByAge
  <1>4. \A j \in Slots(m, s) : \E a \in ages : f[a] = j
    <2> SUFFICES ASSUME NEW j \in Slots(m, s)
                 PROVE  \E a \in ages : f[a] = j
      OBVIOUS
    <2>1. PICK a \in 1 .. n : Slot(c, m, a) = j
      BY SlotsByAge DEF Slots
    <2>2. a \in ages
      BY <2>1 DEF Slots
    <2> QED BY <2>1, <2>2
  <1>5. IsFiniteSet(Slots(m, s))
    BY SlotsFinite DEF SmInv
  <1>6. IsFiniteSet(ages)
    <2>1. n \in Int
      BY DEF SmInv, SmVariables
    <2>2. IsFiniteSet(1 .. n)
      BY <2>1, FS_Interval
    <2>3. ages \in SUBSET (1 .. n)
      OBVIOUS
    <2> HIDE DEF ages
    <2> QED BY <2>2, <2>3, FS_Subset
  <1> HIDE DEF f, ages
  <1>7. f \in Bijection(ages, Slots(m, s))
    BY <1>2, <1>3, <1>4 DEF Bijection, Injection, IsInjective, Surjection
  <1>8. ExistsBijection(ages, Slots(m, s))
    BY <1>7 DEF ExistsBijection
  <1> QED BY <1>1, <1>6, <1>8, FS_Bijection

\* A check puts its sample in front and the other samples one age up.
LEMMA SamplesAge ==
  ASSUME NEW c \in SmConfigs, NEW m, SmInv(c, m), NEW sample \in Samples, NEW t,
         SmChecked(c, m, sample, t)
  PROVE  ByAge(c, t) = [age \in 1 .. t.SampleCount |->
                          IF age = 1 THEN sample ELSE ByAge(c, m)[age - 1]]
  <1> DEFINE i == m.WindowIdx
             n == m.SampleCount
             w == c.WindowSize
             buf == m.WindowBuf
  <1>1. /\ w \in Nat \ {0} /\ n \in 0 .. w /\ i \in 0 .. w - 1
        /\ buf \in [0 .. w - 1 -> Samples]
        /\ n < w => i = n
    BY DEF SmInv, SmConfigs, SmVariables
  <1>2. /\ t.WindowBuf = [buf EXCEPT ![i] = sample]
        /\ t.SampleCount = IF n < w THEN n + 1 ELSE n
        /\ t.WindowIdx = IF i + 1 >= w THEN 0 ELSE i + 1
    BY DEF SmChecked
  <1>3. \A j \in 0 .. w - 1 : t.WindowBuf[j] = IF j = i THEN sample ELSE buf[j]
    BY <1>1, <1>2
  <1>4. \A age : /\ Slot(c, m, age) = IF i >= age THEN i - age ELSE i - age + w
                 /\ Slot(c, t, age) = IF t.WindowIdx >= age THEN t.WindowIdx - age
                                      ELSE t.WindowIdx - age + w
    BY DEF Slot
  <1>5. \A age \in 1 .. n : ByAge(c, m)[age] = buf[Slot(c, m, age)]
    BY DEF ByAge
  <1>6. \A age \in 1 .. t.SampleCount : ByAge(c, t)[age] = t.WindowBuf[Slot(c, t, age)]
    BY DEF ByAge
  <1>7. DOMAIN ByAge(c, t) = 1 .. t.SampleCount
        /\ ByAge(c, t) = [age \in 1 .. t.SampleCount |-> ByAge(c, t)[age]]
    BY DEF ByAge
  <1> HIDE DEF i, n, w, buf
  <1>8. ASSUME NEW age \in 1 .. t.SampleCount
        PROVE  ByAge(c, t)[age] = IF age = 1 THEN sample ELSE ByAge(c, m)[age - 1]
    <2>1. CASE age = 1
      <3>1. Slot(c, t, 1) = i
        BY <1>1, <1>2, <1>4
      <3> QED BY <1>1, <1>3, <1>6, <2>1, <3>1
    <2>2. CASE age # 1
      <3>1. age - 1 \in 1 .. n /\ age \in 2 .. w
        BY <1>1, <1>2, <2>2
      <3>2. Slot(c, t, age) = Slot(c, m, age - 1) /\ Slot(c, t, age) # i
            /\ Slot(c, t, age) \in 0 .. w - 1
        BY <1>1, <1>2, <1>4, <3>1
      <3> QED BY <1>3, <1>5, <1>6, <2>2, <3>1, <3>2
    <2> QED BY <2>1, <2>2
  <1> QED BY <1>7, <1>8

-----------------------------------------------------------------------------
(* The supervision *)

IInv == TypeOK /\ SmInv(config, sm)

LEMMA Numbers ==
  ASSUME config \in Configs
  PROVE  /\ config \in SmConfigs /\ config.WindowSize \in Nat \ {0}
         /\ FoundWithin \in Nat
         /\ AliveBytes \subseteq 0 .. AliveMod /\ AliveMod \in AliveBytes /\ 0 \in 0 .. AliveMod
  <1>1. config \in SmConfigs
    BY CvcHeartbeatAssumption
  <1>2. config.WindowSize \in Nat \ {0}
    BY <1>1 DEF SmConfigs
  <1>3. PollCycles \in Nat \ {0} /\ Deadline \in Nat \ {0} /\ AliveMod \in Nat \ {0, 1}
    BY CvcHeartbeatAssumption
  <1>4. FoundWithin \in Nat
    <2> DEFINE whole_window == WindowPolls * PollCycles - 1
               after_zero == Deadline + 2 * PollCycles - 2
    <2>0. WindowPolls \in Nat
      BY <1>2 DEF WindowPolls
    <2>1. WindowPolls * PollCycles \in Int /\ after_zero \in Nat
      BY <1>3, <2>0
    <2>2. whole_window \in Int
      BY <2>1
    <2>3. FoundWithin = IF whole_window >= after_zero THEN whole_window ELSE after_zero
      BY DEF FoundWithin
    <2> HIDE DEF whole_window, after_zero
    <2> QED BY <2>1, <2>2, <2>3
  <1>5. AliveBytes \subseteq 0 .. AliveMod /\ AliveMod \in AliveBytes /\ 0 \in 0 .. AliveMod
    BY <1>3 DEF AliveBytes
  <1> QED BY <1>1, <1>2, <1>4, <1>5

LEMMA Initially == Init => IInv
  <1> SUFFICES ASSUME Init
               PROVE  IInv
    OBVIOUS
  <1>1. config \in Configs
    BY DEF Init
  <1>2. SmInv(config, sm)
    BY <1>1, Numbers, SmStarts DEF Init
  <1>3. alive \in [value : 0 .. AliveMod, age : 0 .. Deadline]
    <2>1. 0 \in 0 .. AliveMod /\ 0 \in 0 .. Deadline
      BY <1>1, Numbers, CvcHeartbeatAssumption
    <2> QED BY <2>1 DEF Init, Com_Init
  <1>4. tx_timer \in 0 .. PollCycles - 1 /\ last_alive \in 0 .. AliveMod
        /\ silent \in 0 .. FoundWithin /\ healthy \in 0 .. config.WindowSize + 1
        /\ last_frame \in AliveBytes
    <2>1. PollCycles \in Nat \ {0}
      BY CvcHeartbeatAssumption
    <2> QED BY <1>1, <2>1, Numbers DEF Init
  <1>5. pc = "receive" /\ comm_status = "TIMEOUT"
    BY DEF Init
  <1> QED BY <1>1, <1>2, <1>3, <1>4, <1>5 DEF IInv, TypeOK, SmInv

LEMMA ReceiveKeeps == IInv /\ Receive => IInv'
  <1> SUFFICES ASSUME IInv, Receive
               PROVE  IInv'
    OBVIOUS
  <1>1. config \in Configs /\ config' = config /\ sm' = sm /\ SmInv(config, sm)
    BY DEF IInv, TypeOK, Receive
  <1>2. PICK frame \in {0} \cup AliveBytes :
          /\ alive' = Com_MainFunction_Rx(
                         IF frame = 0 THEN alive ELSE Com_RxIndication(alive, frame), Deadline, 0)
          /\ last_frame' = IF frame = 0 THEN last_frame ELSE frame
          /\ silent' = IF frame # 0 THEN 0
                       ELSE IF silent < FoundWithin THEN silent + 1 ELSE silent
          /\ healthy' = IF Irregular(frame) THEN 0 ELSE healthy
    BY DEF Receive
  <1>3. Deadline \in Nat \ {0}
    BY CvcHeartbeatAssumption
  <1>4. alive' \in [value : 0 .. AliveMod, age : 0 .. Deadline]
    <2> DEFINE pdu == IF frame = 0 THEN alive ELSE Com_RxIndication(alive, frame)
    <2>1. frame \in 0 .. AliveMod /\ 0 \in 0 .. AliveMod
      BY <1>1, Numbers
    <2>2. pdu \in [value : 0 .. AliveMod, age : 0 .. Deadline]
      BY <1>3, <2>1 DEF IInv, TypeOK, Com_RxIndication
    <2>3. alive' = Com_MainFunction_Rx(pdu, Deadline, 0)
      BY <1>2
    <2> HIDE DEF pdu
    <2> QED BY <1>3, <2>1, <2>2, <2>3 DEF Com_MainFunction_Rx
  <1>5. last_frame' \in AliveBytes
    BY <1>2 DEF IInv, TypeOK
  <1>6. silent' \in 0 .. FoundWithin
    <2>1. silent \in 0 .. FoundWithin /\ FoundWithin \in Nat
      BY <1>1, Numbers DEF IInv, TypeOK
    <2> QED BY <1>2, <2>1
  <1>7. healthy' \in 0 .. config.WindowSize + 1
    <2>1. healthy \in 0 .. config.WindowSize + 1 /\ config.WindowSize \in Nat
      BY <1>1, Numbers DEF IInv, TypeOK
    <2> QED BY <1>2, <2>1
  <1>8. FoundWithin' = FoundWithin
    BY <1>1 DEF FoundWithin, WindowPolls
  <1>9. /\ pc' \in {"receive", "monitor"} /\ tx_timer' \in 0 .. PollCycles - 1
        /\ last_alive' \in 0 .. AliveMod /\ comm_status' \in {"OK", "TIMEOUT"}
    BY DEF IInv, TypeOK, Receive
  <1>10. TypeOK'
    BY <1>1, <1>4, <1>5, <1>6, <1>7, <1>8, <1>9 DEF TypeOK, SmInv
  <1> QED BY <1>1, <1>10 DEF IInv

\* A poll checks one sample.
LEMMA PollChecks ==
  ASSUME IInv, Poll, config' = config
  PROVE  \E sample \in Samples : SmChecked(config, sm, sample, sm')
  <1> DEFINE sample == IF alive.value # last_alive THEN "OK" ELSE "ERROR"
  <1>1. sample \in Samples
    BY DEF Samples
  <1>2. sm' = E2E_Sm_Check(config, sm, sample)
    BY DEF Poll
  <1>3. config \in SmConfigs /\ SmInv(config, sm)
    BY Numbers DEF IInv, TypeOK
  <1> HIDE DEF sample
  <1> QED BY <1>1, <1>2, <1>3, CheckRuns

LEMMA MonitorKeeps == IInv /\ Monitor => IInv'
  <1> SUFFICES ASSUME IInv, Monitor
               PROVE  IInv'
    OBVIOUS
  <1>1. /\ config \in Configs /\ config' = config /\ SmInv(config, sm)
        /\ alive' = alive /\ last_frame' = last_frame /\ silent' = silent
        /\ pc' = "receive"
    BY DEF IInv, TypeOK, Monitor
  <1>2. config \in SmConfigs /\ config.WindowSize \in Nat \ {0}
    BY <1>1, Numbers
  <1>3. FoundWithin' = FoundWithin
    BY <1>1 DEF FoundWithin, WindowPolls
  <1>4. /\ SmInv(config, sm') /\ last_alive' \in 0 .. AliveMod /\ comm_status' \in {"OK", "TIMEOUT"}
        /\ healthy' \in 0 .. config.WindowSize + 1 /\ tx_timer' \in 0 .. PollCycles - 1
    <2>1. PollCycles \in Nat \ {0} /\ tx_timer \in 0 .. PollCycles - 1
      BY CvcHeartbeatAssumption DEF IInv, TypeOK
    <2>2. /\ last_alive \in 0 .. AliveMod /\ comm_status \in {"OK", "TIMEOUT"}
          /\ healthy \in 0 .. config.WindowSize + 1 /\ alive.value \in 0 .. AliveMod
      BY DEF IInv, TypeOK
    <2>3. CASE tx_timer + 1 >= PollCycles
      <3>1. tx_timer' = 0 /\ Poll
        BY <2>3 DEF Monitor
      <3>2. PICK sample \in Samples : SmChecked(config, sm, sample, sm')
        BY <1>1, <3>1, PollChecks
      <3>3. SmInv(config, sm')
        BY <1>1, <1>2, <3>2, CheckKeeps
      <3>4. /\ last_alive' = alive.value /\ comm_status' \in {"OK", "TIMEOUT"}
            /\ healthy' = IF healthy <= config.WindowSize THEN healthy + 1 ELSE healthy
        BY <3>1 DEF Poll
      <3>5. healthy' \in 0 .. config.WindowSize + 1
        BY <1>2, <2>2, <3>4
      <3> QED BY <2>1, <2>2, <3>1, <3>3, <3>4, <3>5
    <2>4. CASE ~(tx_timer + 1 >= PollCycles)
      <3>1. tx_timer' = tx_timer + 1 /\ UNCHANGED <<last_alive, sm, comm_status, healthy>>
        BY <2>4 DEF Monitor
      <3> QED BY <1>1, <2>1, <2>2, <2>4, <3>1
    <2> QED BY <2>3, <2>4
  <1>5. TypeOK'
    BY <1>1, <1>3, <1>4 DEF IInv, TypeOK, SmInv
  <1> QED BY <1>1, <1>4, <1>5 DEF IInv

\* The counters count what is in the buffer, always.
THEOREM Invariance == Spec => []IInv
  <1>1. IInv /\ UNCHANGED vars => IInv'
    BY DEF IInv, TypeOK, FoundWithin, WindowPolls, vars, observers
  <1>2. IInv /\ [Next]_vars => IInv'
    BY <1>1, ReceiveKeeps, MonitorKeeps DEF Next
  <1> QED BY <1>2, Initially, PTL DEF Spec

\* No counter of the state machine passes the window, and no field leaves
\* its range.
THEOREM TypesHold == Spec => []TypeOK
  <1>1. IInv => TypeOK
    BY DEF IInv
  <1> QED BY <1>1, Invariance, PTL

\* A poll that checks a sample is a check of the abstract window.
LEMMA CheckImplements ==
  ASSUME IInv, config' = config, NEW sample \in Samples, SmChecked(config, sm, sample, sm')
  PROVE  Window!Check(sample)
  <1> DEFINE old == ByAge(config, sm)
             new == ByAge(config, sm')
             n == sm.SampleCount
  <1>1. config \in SmConfigs /\ SmInv(config, sm)
    BY Numbers DEF IInv, TypeOK
  <1>2. SmInv(config, sm')
    BY <1>1, CheckKeeps
  <1>3. new = [age \in 1 .. sm'.SampleCount |-> IF age = 1 THEN sample ELSE old[age - 1]]
    BY <1>1, SamplesAge
  <1>4. Window!Cardinality(DOMAIN old) = n
    <2>1. n \in Nat /\ DOMAIN old = 1 .. n
      BY <1>1 DEF SmInv, SmVariables, ByAge, SmConfigs
    <2> HIDE DEF n, old
    <2>2. Cardinality(1 .. n) = IF 1 > n THEN 0 ELSE n - 1 + 1
      BY <2>1, FS_Interval
    <2>3. Cardinality(DOMAIN old) = n
      BY <2>1, <2>2
    <2> QED BY <2>3 DEF Window!Cardinality, Cardinality
  <1>5. sm'.SampleCount = IF n < config.WindowSize THEN n + 1 ELSE n
    BY DEF SmChecked
  <1>6. /\ Window!Count(new, "OK") = sm'.OkCount
        /\ Window!Count(new, "ERROR") = sm'.ErrorCount
    BY <1>1, <1>2, CountsByAge DEF SmInv
  <1>7. sm'.Status = Window!NextStatus(config, sm.Status, Window!Count(new, "OK"),
                                       Window!Count(new, "ERROR"))
    BY <1>6 DEF SmChecked, NextStatus, Window!NextStatus
  <1>8. ByAge(config, sm)' = new
    BY DEF ByAge, Slot
  <1> HIDE DEF old, new, n
  <1> QED BY <1>3, <1>4, <1>5, <1>7, <1>8 DEF Window!Check, old

\* The circular buffer with its incremental counters implements the status
\* over the last samples, for every window size and all thresholds.
THEOREM ImplementsSlidingWindow == Spec => ImplementsWindow
  <1>1. Init => Window!Init
    <2> SUFFICES ASSUME Init
                 PROVE  Window!Init
      OBVIOUS
    <2>1. sm.SampleCount = 0 /\ sm.Status = "INIT"
      BY DEF Init, E2E_Sm_Init
    <2>2. ByAge(config, sm) = <<>>
      BY <2>1 DEF ByAge
    <2> QED BY <2>1, <2>2 DEF Window!Init
  <1>2. IInv /\ [Next]_vars =>
          [\E sample \in Window!Samples : Window!Check(sample)]_<<config, ByAge(config, sm), sm.Status>>
    <2> SUFFICES ASSUME IInv, [Next]_vars,
                        ~UNCHANGED <<config, ByAge(config, sm), sm.Status>>
                 PROVE  \E sample \in Window!Samples : Window!Check(sample)
      OBVIOUS
    <2>1. CASE config' = config /\ sm' = sm
      BY <2>1 DEF ByAge, Slot
    <2>2. CASE Monitor /\ Poll
      <3>1. config' = config
        BY <2>2 DEF Monitor
      <3>2. PICK sample \in Samples : SmChecked(config, sm, sample, sm')
        BY <2>2, <3>1, PollChecks
      <3>3. Window!Check(sample)
        BY <3>1, <3>2, CheckImplements
      <3> QED BY <3>3 DEF Samples, Window!Samples
    <2> QED BY <2>1, <2>2 DEF Next, Receive, Monitor, vars, observers
  <1> QED BY <1>1, <1>2, Invariance, PTL DEF Spec, ImplementsWindow, Window!Spec

-----------------------------------------------------------------------------
(* The samples of the window *)

\* Every filled slot is good or bad.
LEMMA CountsAddUp ==
  ASSUME NEW c \in SmConfigs, NEW m, SmInv(c, m)
  PROVE  m.OkCount + m.ErrorCount = m.SampleCount
  <1> DEFINE n == m.SampleCount
             ok == Slots(m, "OK")
             bad == Slots(m, "ERROR")
  <1>1. /\ n \in 0 .. c.WindowSize /\ c.WindowSize \in Nat
        /\ m.WindowBuf \in [0 .. c.WindowSize - 1 -> Samples]
    BY DEF SmInv, SmVariables, SmConfigs
  <1>2. IsFiniteSet(ok) /\ IsFiniteSet(bad)
    BY SlotsFinite DEF SmInv
  <1>3. ok \cup bad = 0 .. n - 1 /\ ok \cap bad = {}
    BY <1>1 DEF Slots, Samples
  <1>4. Cardinality(0 .. n - 1) = n
    <2>1. n \in Nat /\ 0 \in Int /\ n - 1 \in Int
      BY <1>1
    <2> HIDE DEF n
    <2>2. Cardinality(0 .. n - 1) = IF 0 > n - 1 THEN 0 ELSE n - 1 - 0 + 1
      BY <2>1, FS_Interval
    <2> QED BY <2>1, <2>2
  <1>5. m.OkCount = Cardinality(ok) /\ m.ErrorCount = Cardinality(bad)
    BY DEF SmInv
  <1> HIDE DEF n, ok, bad
  <1>6. Cardinality(ok \cup bad) = Cardinality(ok) + Cardinality(bad) - Cardinality(ok \cap bad)
    BY <1>2, FS_Union
  <1>7. Cardinality(ok \cap bad) = 0
    BY <1>3, FS_EmptySet
  <1>8. Cardinality(ok) \in Nat /\ Cardinality(bad) \in Nat
    BY <1>2, FS_CardinalityType
  <1>9. Cardinality(ok \cup bad) = n
    BY <1>3, <1>4
  <1>10. n = m.SampleCount
    BY DEF n
  <1> QED BY <1>5, <1>6, <1>7, <1>8, <1>9, <1>10

\* The ages up to k whose sample is good.
OkAges(c, m, k) == {age \in 1 .. k : ByAge(c, m)[age] = "OK"}

LEMMA OkAgesFinite ==
  ASSUME NEW c, NEW m, NEW k \in Nat
  PROVE  /\ IsFiniteSet(OkAges(c, m, k))
         /\ Cardinality(OkAges(c, m, k)) \in 0 .. k
  <1>1. IsFiniteSet(1 .. k) /\ Cardinality(1 .. k) = k
    <2>1. Cardinality(1 .. k) = IF 1 > k THEN 0 ELSE k - 1 + 1
      BY FS_Interval
    <2> QED BY <2>1, FS_Interval
  <1>2. OkAges(c, m, k) \in SUBSET (1 .. k)
    BY DEF OkAges
  <1>3. IsFiniteSet(OkAges(c, m, k)) /\ Cardinality(OkAges(c, m, k)) <= Cardinality(1 .. k)
    BY <1>1, <1>2, FS_Subset
  <1> QED BY <1>1, <1>3, FS_CardinalityType

\* All ages together are what the machine has counted.
LEMMA OkAgesCounted ==
  ASSUME NEW c \in SmConfigs, NEW m, SmInv(c, m)
  PROVE  Cardinality(OkAges(c, m, m.SampleCount)) = m.OkCount
  <1>1. Window!Count(ByAge(c, m), "OK") = m.OkCount
    BY CountsByAge DEF SmInv
  <1>2. {age \in DOMAIN ByAge(c, m) : ByAge(c, m)[age] = "OK"} = OkAges(c, m, m.SampleCount)
    BY DEF ByAge, OkAges
  <1> QED BY <1>1, <1>2 DEF Window!Count, Window!Cardinality, Cardinality

\* A check adds its sample to those of the ages before.
LEMMA OkAgesShift ==
  ASSUME NEW c \in SmConfigs, NEW m, SmInv(c, m), NEW sample \in Samples, NEW t,
         SmChecked(c, m, sample, t), NEW k \in Nat, k < t.SampleCount
  PROVE  Cardinality(OkAges(c, t, k + 1))
           = Cardinality(OkAges(c, m, k)) + (IF sample = "OK" THEN 1 ELSE 0)
  <1> DEFINE old == OkAges(c, m, k)
             new == OkAges(c, t, k + 1)
             moved == new \ {1}
             f == [age \in old |-> age + 1]
  <1>1. t.SampleCount \in Int
    BY DEF SmChecked, SmInv, SmVariables, SmConfigs
  <1>2. \A age \in 1 .. k + 1 :
            ByAge(c, t)[age] = IF age = 1 THEN sample ELSE ByAge(c, m)[age - 1]
    <2>1. \A age \in 1 .. k + 1 : age \in 1 .. t.SampleCount
      BY <1>1
    <2>2. ByAge(c, t) = [age \in 1 .. t.SampleCount |->
                           IF age = 1 THEN sample ELSE ByAge(c, m)[age - 1]]
      BY SamplesAge
    <2> QED BY <2>1, <2>2
  <1>3. \A age : age \in moved <=> age \in 2 .. k + 1 /\ age - 1 \in old
    BY <1>2 DEF OkAges
  <1>4. 1 \in new <=> sample = "OK"
    BY <1>2 DEF OkAges
  <1>5. old \subseteq 1 .. k
    BY DEF OkAges
  <1> HIDE DEF old, new
  <1>6. f \in Bijection(old, moved)
    <2>1. f \in [old -> moved]
      BY <1>3, <1>5
    <2>2. \A a, b \in old : f[a] = f[b] => a = b
      BY <1>5
    <2>3. \A j \in moved : \E a \in old : f[a] = j
      <3> TAKE j \in moved
      <3>1. j \in 2 .. k + 1 /\ j - 1 \in old
        BY <1>3
      <3>2. f[j - 1] = j
        BY <3>1
      <3> QED BY <3>1, <3>2
    <2> HIDE DEF f, moved
    <2> QED BY <2>1, <2>2, <2>3 DEF Bijection, Injection, IsInjective, Surjection
  <1> HIDE DEF f
  <1>7. IsFiniteSet(old) /\ IsFiniteSet(new)
    BY OkAgesFinite DEF old, new
  <1>8. Cardinality(moved) = Cardinality(old)
    BY <1>6, <1>7, FS_Bijection DEF ExistsBijection
  <1>9. Cardinality(moved) = IF 1 \in new THEN Cardinality(new) - 1 ELSE Cardinality(new)
    BY <1>7, FS_RemoveElement
  <1>10. Cardinality(new) \in Nat /\ Cardinality(old) \in Nat
    BY <1>7, FS_CardinalityType
  <1> QED BY <1>4, <1>8, <1>9, <1>10 DEF old, new

-----------------------------------------------------------------------------
(* What both observers rest on *)

\* The good sample of a poll is a changed alive number.
LEMMA PollSamples ==
  ASSUME IInv, Monitor, tx_timer + 1 >= PollCycles
  PROVE  LET sample == IF alive.value # last_alive THEN "OK" ELSE "ERROR"
         IN  /\ SmChecked(config, sm, sample, sm') /\ sample \in Samples
             /\ SmInv(config, sm) /\ SmInv(config, sm') /\ config \in SmConfigs
             /\ last_alive' = alive.value /\ tx_timer' = 0
             /\ comm_status' = IF sm'.Status = "VALID" THEN "OK" ELSE "TIMEOUT"
             /\ healthy' = IF healthy <= config.WindowSize THEN healthy + 1 ELSE healthy
  <1> DEFINE sample == IF alive.value # last_alive THEN "OK" ELSE "ERROR"
  <1>1. sample \in Samples
    BY DEF Samples
  <1>2. Poll /\ tx_timer' = 0
    BY DEF Monitor
  <1>3. sm' = E2E_Sm_Check(config, sm, sample)
    BY <1>2 DEF Poll
  <1>4. config \in SmConfigs /\ SmInv(config, sm)
    BY Numbers DEF IInv, TypeOK
  <1> HIDE DEF sample
  <1>5. SmChecked(config, sm, sample, sm')
    BY <1>1, <1>3, <1>4, CheckRuns
  <1>6. SmInv(config, sm')
    BY <1>1, <1>4, <1>5, CheckKeeps
  <1> QED BY <1>1, <1>2, <1>4, <1>5, <1>6 DEF Poll, sample

\* A machine that has not been valid has not seen enough good samples, and
\* the reported status is the machine's.
StatusInv ==
    /\ comm_status = "OK" <=> sm.Status = "VALID"
    /\ sm.Status = "INIT" => sm.OkCount < config.MinOkStateInit

LEMMA StatusStarts ==
  ASSUME SilenceFits, Init
  PROVE  StatusInv
  BY DEF SilenceFits, Init, StatusInv, E2E_Sm_Init

LEMMA StatusKeeps ==
  ASSUME IInv, StatusInv, [Next]_vars
  PROVE  StatusInv'
  <1>1. CASE Monitor /\ tx_timer + 1 >= PollCycles
    <2>1. PICK sample \in Samples : SmChecked(config, sm, sample, sm')
      BY <1>1, PollSamples
    <2>2. /\ comm_status' = IF sm'.Status = "VALID" THEN "OK" ELSE "TIMEOUT"
          /\ SmInv(config, sm') /\ SmInv(config, sm) /\ config \in SmConfigs
      BY <1>1, PollSamples
    <2>3. config' = config
      BY <1>1 DEF Monitor
    <2>4. sm'.OkCount \in Nat /\ config.MinOkStateInit \in Nat /\ sm.Status \in SmStatuses
      BY <2>2 DEF SmInv, SmVariables, SmConfigs
    <2>5. sm'.Status = NextStatus(config, sm.Status, sm'.OkCount, sm'.ErrorCount)
      BY <2>1 DEF SmChecked
    <2>6. sm'.Status = "INIT" => sm'.OkCount < config.MinOkStateInit
      BY <2>4, <2>5 DEF NextStatus, SmStatuses
    <2> QED BY <2>2, <2>3, <2>6 DEF StatusInv
  <1>2. CASE UNCHANGED <<config, sm, comm_status>>
    BY <1>2 DEF StatusInv
  <1> QED BY <1>1, <1>2 DEF Next, Receive, Monitor, vars, observers

-----------------------------------------------------------------------------
(* A silent controller is found *)

\* How long the controller had been silent at the last poll; negative when a
\* frame came after it.
LastPoll == IF pc = "receive" THEN silent - tx_timer ELSE silent - 1 - tx_timer

\* How long it had been silent at the poll of an age.
AtPoll(age) == LastPoll - (age - 1) * PollCycles

\* The alive signal after a silence.
Heard(silence) == IF silence + 1 < Deadline THEN last_frame ELSE 0

\* The silences at which the alive signal has just changed: by the last frame,
\* or by Com's zero.
AfterFrame == 0 .. PollCycles - 1
AfterZero == Deadline - 1 .. Deadline + PollCycles - 2

\* How far the silence must reach beyond the window for the thresholds.
Slack ==
    IF config.WindowSize - GoodInSilence > config.MaxErrorStateValid THEN 0 ELSE PollCycles

\* The samples of the silence, up to the age at which it began.
SamplesTracked ==
    \A age \in 1 .. config.WindowSize : AtPoll(age) >= 0 =>
        /\ age <= sm.SampleCount
        /\ ByAge(config, sm)[age] = "OK" => AtPoll(age) \in AfterFrame \cup AfterZero

\* During a silence the signal and the samples follow from how long it lasts,
\* and a window inside it makes the controller invalid.
Tracked ==
    /\ alive.value = Heard(silent)
    /\ alive.age = IF silent + 1 < Deadline THEN silent + 1 ELSE Deadline
    /\ LastPoll >= 0 => last_alive = Heard(LastPoll)
    /\ SamplesTracked
    /\ AtPoll(config.WindowSize) >= Slack /\ LastPoll >= Deadline + PollCycles - 1 =>
          sm.Status # "VALID"

\* A controller that was silent for the whole time, or never heard of, stays
\* out until a frame comes.
Gone ==
    /\ silent = FoundWithin
    /\ alive.value = 0 /\ last_alive = 0
    /\ sm.OkCount <= GoodInSilence
    /\ sm.Status # "VALID"

SilenceInv == StatusInv /\ (Tracked \/ Gone)

\* The numbers of the supervision, of a configured controller.
LEMMA Periods ==
  ASSUME IInv
  PROVE  /\ PollCycles \in Nat \ {0} /\ Deadline \in Nat \ {0} /\ MaxGap \in Nat
         /\ MaxGap >= PollCycles
         /\ config \in SmConfigs /\ config.WindowSize \in Nat \ {0}
         /\ tx_timer \in 0 .. PollCycles - 1
         /\ silent \in 0 .. FoundWithin /\ FoundWithin \in Nat
         /\ FoundWithin >= Deadline + 2 * PollCycles - 2
         /\ FoundWithin >= (config.WindowSize - 1) * PollCycles + Slack + PollCycles - 1
         /\ (config.WindowSize - 1) * PollCycles \in Nat
         /\ last_frame # 0 /\ last_frame \in 1 .. AliveMod
         /\ last_alive \in 0 .. AliveMod /\ AliveMod \in Nat /\ AliveMod >= 2
         /\ alive \in [value : 0 .. AliveMod, age : 0 .. Deadline]
         /\ pc \in {"receive", "monitor"}
         /\ healthy \in 0 .. config.WindowSize + 1
  <1>1. /\ PollCycles \in Nat \ {0} /\ Deadline \in Nat \ {0} /\ AliveMod \in Nat \ {0, 1}
        /\ MaxGap \in Nat /\ MaxGap >= PollCycles
    BY CvcHeartbeatAssumption
  <1>2. config \in SmConfigs /\ config.WindowSize \in Nat \ {0} /\ FoundWithin \in Nat
    BY Numbers DEF IInv, TypeOK
  <1>3. (config.WindowSize - 1) * PollCycles \in Nat
    BY <1>1, <1>2
  <1>4. /\ FoundWithin >= Deadline + 2 * PollCycles - 2
        /\ FoundWithin >= (config.WindowSize - 1) * PollCycles + Slack + PollCycles - 1
    <2> DEFINE p == WindowPolls * PollCycles
    <2>1. FoundWithin = IF p - 1 >= Deadline + 2 * PollCycles - 2 THEN p - 1
                        ELSE Deadline + 2 * PollCycles - 2
      BY DEF FoundWithin
    <2>2. p = (config.WindowSize - 1) * PollCycles + PollCycles + Slack /\ Slack \in Nat
      BY <1>1, <1>2 DEF WindowPolls, Slack
    <2>3. p \in Nat
      BY <1>1, <1>3, <2>2
    <2> HIDE DEF p
    <2>4. FoundWithin >= Deadline + 2 * PollCycles - 2 /\ FoundWithin >= p - 1
      BY <1>1, <2>1, <2>3
    <2> QED BY <1>1, <1>3, <2>2, <2>4
  <1>5. /\ tx_timer \in 0 .. PollCycles - 1 /\ silent \in 0 .. FoundWithin
        /\ last_frame \in 1 .. AliveMod /\ last_alive \in 0 .. AliveMod
        /\ alive \in [value : 0 .. AliveMod, age : 0 .. Deadline]
        /\ pc \in {"receive", "monitor"} /\ healthy \in 0 .. config.WindowSize + 1
    BY DEF IInv, TypeOK, AliveBytes
  <1> QED BY <1>1, <1>2, <1>3, <1>4, <1>5

\* A range of one period holds at most one of the polls.
LEMMA OnePoll ==
  ASSUME NEW p \in Nat \ {0}, NEW x \in Int, NEW low \in Int,
         NEW a \in Nat, NEW b \in Nat,
         x - (a - 1) * p \in low .. low + p - 1, x - (b - 1) * p \in low .. low + p - 1
  PROVE  a = b
  <1>1. ASSUME NEW i \in Nat, NEW j \in Nat, i < j
        PROVE  (j - 1) * p >= (i - 1) * p + p
    <2>1. j - 1 >= i /\ i * p = (i - 1) * p + p
      BY <1>1
    <2>2. (j - 1) * p >= i * p
      BY <1>1
    <2> QED BY <2>1, <2>2
  <1>2. (a - 1) * p \in Int /\ (b - 1) * p \in Int
    OBVIOUS
  <1>3. ~(a < b)
    BY <1>1, <1>2
  <1>4. ~(b < a)
    BY <1>1, <1>2
  <1> QED BY <1>3, <1>4

LEMMA AtMostOne ==
  ASSUME NEW S, \A a, b \in S : a = b
  PROVE  IsFiniteSet(S) /\ Cardinality(S) \in 0 .. 1
  <1>1. CASE S = {}
    <2>1. IsFiniteSet({}) /\ Cardinality({}) = 0
      BY FS_EmptySet
    <2>2. 0 \in 0 .. 1
      OBVIOUS
    <2> QED BY <1>1, <2>1, <2>2, Zenon
  <1>2. CASE S # {}
    <2>1. PICK a : S = {a}
      BY <1>2
    <2>2. IsFiniteSet({a}) /\ Cardinality({a}) = 1
      BY FS_Singleton
    <2>3. 1 \in 0 .. 1
      OBVIOUS
    <2> QED BY <2>1, <2>2, <2>3, Zenon
  <1> QED BY <1>1, <1>2

\* Ages of which each is in one of two periods are two at the most.
LEMMA TwoPolls ==
  ASSUME NEW p \in Nat \ {0}, NEW x \in Int, NEW first \in Int, NEW second \in Int,
         NEW ages, ages \subseteq Nat, IsFiniteSet(ages),
         \A a \in ages : x - (a - 1) * p \in (first .. first + p - 1) \cup (second .. second + p - 1)
  PROVE  Cardinality(ages) <= 2
  <1> DEFINE A == {a \in ages : x - (a - 1) * p \in first .. first + p - 1}
             B == {a \in ages : x - (a - 1) * p \in second .. second + p - 1}
  <1>1. ages = A \cup B
    OBVIOUS
  <1>2. \A a, b \in A : a = b
    BY OnePoll
  <1>3. \A a, b \in B : a = b
    BY OnePoll
  <1>4. A \subseteq ages /\ B \subseteq ages
    OBVIOUS
  <1> HIDE DEF A, B
  <1>6. /\ IsFiniteSet(A) /\ IsFiniteSet(B)
        /\ Cardinality(A) \in 0 .. 1 /\ Cardinality(B) \in 0 .. 1
    BY <1>2, <1>3, AtMostOne
  <1>7. Cardinality(A \cup B) = Cardinality(A) + Cardinality(B) - Cardinality(A \cap B)
    BY <1>6, FS_Union
  <1>8. Cardinality(A \cap B) \in Nat
    BY <1>6, FS_Intersection, FS_CardinalityType
  <1>9. Cardinality(ages) = Cardinality(A) + Cardinality(B) - Cardinality(A \cap B)
    BY <1>1, <1>7
  <1> QED BY <1>6, <1>8, <1>9

\* A window inside the silence holds two good samples at the most, and one
\* once the last frame has left it.
LEMMA FewOks ==
  ASSUME IInv, SamplesTracked, AtPoll(config.WindowSize) >= 0
  PROVE  /\ sm.SampleCount = config.WindowSize
         /\ sm.OkCount <= GoodInSilence
         /\ AtPoll(config.WindowSize) >= PollCycles => sm.OkCount <= 1
  <1> DEFINE w == config.WindowSize
             good == OkAges(config, sm, w)
  <1>1. w \in Nat \ {0} /\ PollCycles \in Nat \ {0} /\ Deadline \in Nat \ {0} /\ config \in SmConfigs
    BY Periods
  <1>2. LastPoll \in Int
    BY Periods DEF LastPoll
  <1>3. sm.SampleCount \in 0 .. w /\ SmInv(config, sm)
    BY DEF IInv, SmInv, SmVariables
  <1>4. \A age \in 1 .. w : /\ AtPoll(age) >= 0
                            /\ AtPoll(w) >= PollCycles => AtPoll(age) >= PollCycles
    <2> SUFFICES ASSUME NEW age \in 1 .. w
                 PROVE  /\ AtPoll(age) >= 0
                        /\ AtPoll(w) >= PollCycles => AtPoll(age) >= PollCycles
      OBVIOUS
    <2>1. (age - 1) * PollCycles <= (w - 1) * PollCycles
      BY <1>1
    <2>2. (age - 1) * PollCycles \in Int /\ (w - 1) * PollCycles \in Int
      BY <1>1
    <2>3. AtPoll(w) >= 0
      OBVIOUS
    <2> HIDE DEF w
    <2> QED BY <1>1, <1>2, <2>1, <2>2, <2>3 DEF AtPoll
  <1>5. sm.SampleCount = w
    <2>1. w \in 1 .. w
      BY <1>1
    <2>2. w <= sm.SampleCount
      BY <1>4, <2>1 DEF SamplesTracked
    <2> QED BY <1>1, <1>3, <2>2
  <1>6. \A a \in good : LastPoll - (a - 1) * PollCycles \in
                          (0 .. 0 + PollCycles - 1)
                          \cup (Deadline - 1 .. (Deadline - 1) + PollCycles - 1)
    <2> SUFFICES ASSUME NEW a \in good
                 PROVE  AtPoll(a) \in (0 .. 0 + PollCycles - 1)
                                  \cup (Deadline - 1 .. (Deadline - 1) + PollCycles - 1)
      BY DEF AtPoll
    <2>1. a \in 1 .. w /\ ByAge(config, sm)[a] = "OK"
      BY DEF OkAges
    <2>2. AtPoll(a) \in AfterFrame \cup AfterZero
      BY <1>4, <2>1 DEF SamplesTracked
    <2>3. AfterFrame = 0 .. 0 + PollCycles - 1
          /\ AfterZero = Deadline - 1 .. (Deadline - 1) + PollCycles - 1
      <3>1. PollCycles - 1 = 0 + PollCycles - 1
            /\ Deadline + PollCycles - 2 = (Deadline - 1) + PollCycles - 1
        BY <1>1
      <3> QED BY <3>1 DEF AfterFrame, AfterZero
    <2> QED BY <2>2, <2>3
  <1>7. IsFiniteSet(good) /\ good \subseteq Nat
    <2>1. IsFiniteSet(good)
      BY <1>1, OkAgesFinite
    <2> QED BY <2>1, <1>1 DEF OkAges
  <1>8. Cardinality(good) <= 2
    <2>1. 0 \in Int /\ Deadline - 1 \in Int
      BY <1>1
    <2> HIDE DEF good
    <2> QED BY <1>1, <1>2, <1>6, <1>7, <2>1, TwoPolls
  <1>9. Cardinality(good) = sm.OkCount
    BY <1>1, <1>3, <1>5, OkAgesCounted
  <1>10. ASSUME AtPoll(w) >= PollCycles
         PROVE  Cardinality(good) <= 1
    <2>1. \A a \in good : LastPoll - (a - 1) * PollCycles \in
                             Deadline - 1 .. (Deadline - 1) + PollCycles - 1
      <3> SUFFICES ASSUME NEW a \in good
                   PROVE  AtPoll(a) \in Deadline - 1 .. (Deadline - 1) + PollCycles - 1
        BY DEF AtPoll
      <3>1. AtPoll(a) \in (0 .. 0 + PollCycles - 1)
                         \cup (Deadline - 1 .. (Deadline - 1) + PollCycles - 1)
        BY <1>6 DEF AtPoll
      <3>2. AtPoll(a) >= PollCycles
        BY <1>4, <1>10 DEF OkAges
      <3> QED BY <1>1, <3>1, <3>2
    <2>2. Deadline - 1 \in Int
      BY <1>1
    <2> HIDE DEF good
    <2>3. \A a, b \in good : a = b
      BY <1>1, <1>2, <1>7, <2>1, <2>2, OnePoll
    <2>4. Cardinality(good) \in 0 .. 1
      BY <2>3, AtMostOne
    <2> QED BY <2>4
  <1> QED BY <1>5, <1>8, <1>9, <1>10 DEF GoodInSilence

\* What the reception does to the signal, with a frame or without.
LEMMA Receives ==
  ASSUME IInv, Receive
  PROVE  /\ pc = "receive" /\ pc' = "monitor"
         /\ UNCHANGED <<config, tx_timer, last_alive, sm, comm_status>>
         /\ \/ /\ silent' = 0 /\ last_frame' \in 1 .. AliveMod
               /\ alive'.age = 1
               /\ alive'.value = IF 1 < Deadline THEN last_frame' ELSE 0
               /\ healthy' = IF silent + 1 \notin PollCycles .. MaxGap
                                \/ last_frame' # NextByte(last_frame) THEN 0 ELSE healthy
            \/ /\ silent' = IF silent < FoundWithin THEN silent + 1 ELSE silent
               /\ last_frame' = last_frame
               /\ alive'.age = IF alive.age < Deadline THEN alive.age + 1 ELSE alive.age
               /\ alive'.value = IF alive'.age < Deadline THEN alive.value ELSE 0
               /\ healthy' = IF silent + 1 >= MaxGap THEN 0 ELSE healthy
  <1>1. PICK frame \in {0} \cup AliveBytes :
          /\ alive' = Com_MainFunction_Rx(
                         IF frame = 0 THEN alive ELSE Com_RxIndication(alive, frame), Deadline, 0)
          /\ last_frame' = IF frame = 0 THEN last_frame ELSE frame
          /\ silent' = IF frame # 0 THEN 0
                       ELSE IF silent < FoundWithin THEN silent + 1 ELSE silent
          /\ healthy' = IF Irregular(frame) THEN 0 ELSE healthy
    BY DEF Receive
  <1>2. /\ Deadline \in Nat \ {0} /\ alive \in [value : 0 .. AliveMod, age : 0 .. Deadline]
        /\ AliveMod \in Nat
    BY Periods
  <1>3. CASE frame = 0
    <2>1. alive' = Com_MainFunction_Rx(alive, Deadline, 0)
      BY <1>1, <1>3
    <2>2. /\ alive'.age = IF alive.age < Deadline THEN alive.age + 1 ELSE alive.age
          /\ alive'.value = IF alive'.age < Deadline THEN alive.value ELSE 0
      BY <1>2, <2>1 DEF Com_MainFunction_Rx
    <2> QED BY <1>1, <1>3, <2>2 DEF Receive, Irregular
  <1>4. CASE frame # 0
    <2>1. alive' = Com_MainFunction_Rx([value |-> frame, age |-> 0], Deadline, 0)
      BY <1>1, <1>4 DEF Com_RxIndication
    <2>2. alive'.age = 1 /\ alive'.value = IF 1 < Deadline THEN frame ELSE 0
      BY <1>2, <2>1 DEF Com_MainFunction_Rx
    <2>3. frame \in 1 .. AliveMod
      BY <1>4 DEF AliveBytes
    <2> QED BY <1>1, <1>4, <2>2, <2>3 DEF Receive, Irregular
  <1> QED BY <1>3, <1>4

\* Once the observer has counted all it counts, the controller is gone: the
\* last poll was late enough to fill the window with silence.
LEMMA TrackedGone ==
  ASSUME IInv, Tracked, pc = "receive", silent = FoundWithin
  PROVE  Gone
  <1> DEFINE w == config.WindowSize
             p == PollCycles
  <1>1. /\ p \in Nat \ {0} /\ w \in Nat \ {0} /\ Deadline \in Nat \ {0}
        /\ tx_timer \in 0 .. p - 1 /\ FoundWithin \in Nat
        /\ FoundWithin >= Deadline + 2 * p - 2 /\ FoundWithin >= (w - 1) * p + Slack + p - 1
        /\ (w - 1) * p \in Nat
    BY Periods
  <1>2. LastPoll = FoundWithin - tx_timer
    BY DEF LastPoll
  <1>3. Slack \in Nat
    BY <1>1 DEF Slack
  <1>4. AtPoll(w) >= Slack /\ AtPoll(w) >= 0
    <2>1. AtPoll(w) = LastPoll - (w - 1) * p
      BY DEF AtPoll
    <2> HIDE DEF w, p
    <2> QED BY <1>1, <1>2, <1>3, <2>1
  <1>5. LastPoll >= Deadline + p - 1 /\ LastPoll >= 0
    <2> HIDE DEF w, p
    <2> QED BY <1>1, <1>2
  <1>6. Heard(silent) = 0 /\ Heard(LastPoll) = 0
    <2> HIDE DEF w
    <2> QED BY <1>1, <1>2, <1>5 DEF Heard
  <1>7. sm.OkCount <= GoodInSilence
    BY <1>4, FewOks DEF Tracked
  <1> QED BY <1>4, <1>5, <1>6, <1>7 DEF Tracked, Gone

LEMMA SilenceReceives ==
  ASSUME IInv, SilenceInv, Receive
  PROVE  Tracked' \/ Gone'
  <1>1. /\ pc = "receive" /\ pc' = "monitor"
        /\ UNCHANGED <<config, tx_timer, last_alive, sm, comm_status>>
    BY Receives
  <1>2. /\ PollCycles \in Nat \ {0} /\ Deadline \in Nat \ {0} /\ config.WindowSize \in Nat \ {0}
        /\ tx_timer \in 0 .. PollCycles - 1 /\ FoundWithin \in Nat /\ silent \in 0 .. FoundWithin
        /\ alive.age \in 0 .. Deadline
    BY Periods
  <1>3. FoundWithin' = FoundWithin
    BY <1>1 DEF FoundWithin, WindowPolls
  <1>4. ASSUME silent' = 0, last_frame' \in 1 .. AliveMod, alive'.age = 1,
               alive'.value = IF 1 < Deadline THEN last_frame' ELSE 0
        PROVE  Tracked'
    <2>1. LastPoll' = -1 - tx_timer
      BY <1>1, <1>4, <1>2 DEF LastPoll
    <2>2. LastPoll' < 0 /\ LastPoll' \in Int
      BY <1>2, <2>1
    <2>3. \A age \in 1 .. config.WindowSize : ~(AtPoll(age)' >= 0)
      <3> TAKE age \in 1 .. config.WindowSize
      <3>1. AtPoll(age)' = LastPoll' - (age - 1) * PollCycles
        BY DEF AtPoll
      <3>2. (age - 1) * PollCycles \in Nat
        BY <1>2
      <3> QED BY <2>2, <3>1, <3>2
    <2>5. ~(AtPoll(config.WindowSize)' >= Slack')
      <3>1. AtPoll(config.WindowSize)' = LastPoll' - (config.WindowSize - 1) * PollCycles
        BY <1>1 DEF AtPoll
      <3>2. (config.WindowSize - 1) * PollCycles \in Nat
        BY <1>2
      <3>3. Slack' \in Nat
        BY <1>1, <1>2 DEF Slack
      <3> QED BY <2>2, <3>1, <3>2, <3>3
    <2>6. alive'.value = Heard(silent)'
          /\ alive'.age = IF silent' + 1 < Deadline THEN silent' + 1 ELSE Deadline
      BY <1>2, <1>4 DEF Heard
    <2> QED BY <1>1, <2>2, <2>3, <2>5, <2>6 DEF Tracked, SamplesTracked
  <1>5. ASSUME silent' = IF silent < FoundWithin THEN silent + 1 ELSE silent,
               last_frame' = last_frame,
               alive'.age = IF alive.age < Deadline THEN alive.age + 1 ELSE alive.age,
               alive'.value = IF alive'.age < Deadline THEN alive.value ELSE 0
        PROVE  Tracked' \/ Gone'
    <2>1. CASE Gone
      <3>1. silent' = FoundWithin /\ alive'.value = 0
        BY <1>5, <1>2, <2>1 DEF Gone
      <3> QED BY <1>1, <1>3, <2>1, <3>1 DEF Gone
    <2>2. CASE Tracked /\ silent # FoundWithin
      <3>1. silent' = silent + 1
        BY <1>2, <1>5, <2>2
      <3>2. LastPoll' = LastPoll
        BY <1>1, <1>2, <3>1 DEF LastPoll
      <3>3. \A age : AtPoll(age)' = AtPoll(age)
        BY <3>2 DEF AtPoll
      <3>4. \A s : Heard(s)' = Heard(s)
        BY <1>5 DEF Heard
      <3>5. alive'.age = IF silent' + 1 < Deadline THEN silent' + 1 ELSE Deadline
        BY <1>2, <1>5, <2>2, <3>1 DEF Tracked
      <3>6. alive'.value = Heard(silent')
        BY <1>2, <1>5, <2>2, <3>1, <3>5 DEF Tracked, Heard
      <3>7. Heard(silent)' = Heard(silent') /\ Heard(LastPoll)' = Heard(LastPoll)
        BY <1>5, <3>2 DEF Heard
      <3>8. ByAge(config, sm)' = ByAge(config, sm)
        BY <1>1 DEF ByAge, Slot
      <3> QED BY <1>1, <2>2, <3>2, <3>3, <3>5, <3>6, <3>7, <3>8
             DEF Tracked, SamplesTracked, Slack
    <2>3. CASE Tracked /\ silent = FoundWithin
      BY <1>1, <2>1, <2>3, TrackedGone
    <2> QED BY <2>1, <2>2, <2>3 DEF SilenceInv
  <1> QED BY <1>4, <1>5, Receives

\* A poll of a silent controller is bad, unless the frame or the zero has come
\* since the poll before.
LEMMA SilencePolls ==
  ASSUME SilenceFits, IInv, SilenceInv, Monitor, tx_timer + 1 >= PollCycles
  PROVE  Tracked' \/ Gone'
  <1> DEFINE sample == IF alive.value # last_alive THEN "OK" ELSE "ERROR"
             w == config.WindowSize
             p == PollCycles
  <1>1. /\ SmChecked(config, sm, sample, sm') /\ sample \in Samples
        /\ SmInv(config, sm) /\ SmInv(config, sm') /\ config \in SmConfigs
        /\ last_alive' = alive.value /\ tx_timer' = 0
    BY PollSamples
  <1>2. /\ pc = "monitor" /\ pc' = "receive"
        /\ UNCHANGED <<config, alive, last_frame, silent>>
    BY DEF Monitor
  <1>3. /\ p \in Nat \ {0} /\ Deadline \in Nat \ {0} /\ w \in Nat \ {0}
        /\ tx_timer = p - 1 /\ FoundWithin \in Nat /\ silent \in 0 .. FoundWithin
    BY Periods
  <1>4. FoundWithin' = FoundWithin
    BY <1>2 DEF FoundWithin, WindowPolls
  <1>5. /\ sm.OkCount \in Nat /\ sm'.OkCount \in Nat /\ sm.Status \in SmStatuses
        /\ sm.SampleCount \in 0 .. w /\ sm'.SampleCount \in 0 .. w
        /\ config.MinOkStateInit \in Nat /\ config.MinOkStateInvalid \in Nat
        /\ config.MaxErrorStateValid \in Nat
        /\ sm'.ErrorCount \in Nat
    BY <1>1 DEF SmInv, SmVariables, SmConfigs
  <1>6. sample = "ERROR" => sm'.OkCount <= sm.OkCount
    BY <1>1, <1>5 DEF SmChecked
  <1>7. sm'.Status = NextStatus(config, sm.Status, sm'.OkCount, sm'.ErrorCount)
    BY <1>1 DEF SmChecked
  <1>8. /\ w - 1 > config.MaxErrorStateValid
        /\ config.MinOkStateInvalid > 2
    BY DEF SilenceFits, GoodInSilence, IInv, TypeOK
  <1>9. StatusInv
    BY DEF SilenceInv
  <1> HIDE DEF sample
  <1>10. CASE Gone
    <2>1. sample = "ERROR"
      BY <1>10 DEF Gone, sample
    <2>2. sm'.OkCount <= 2 /\ sm'.OkCount <= sm.OkCount
      BY <1>5, <1>6, <1>10, <2>1 DEF Gone, GoodInSilence
    <2>3. sm'.Status # "VALID"
      <3>1. sm.Status = "INIT" => sm'.OkCount < config.MinOkStateInit
        BY <1>5, <1>9, <2>2 DEF StatusInv
      <3>2. ~(sm'.OkCount >= config.MinOkStateInvalid)
        BY <1>5, <1>8, <2>2
      <3> QED BY <1>5, <1>7, <1>10, <3>1, <3>2 DEF NextStatus, SmStatuses, Gone
    <2> QED BY <1>1, <1>2, <1>4, <1>10, <2>2, <2>3 DEF Gone, GoodInSilence
  <1>11. CASE Tracked
    <2>1. LastPoll = silent - p /\ LastPoll' = silent
      <3> HIDE DEF w
      <3> QED BY <1>1, <1>2, <1>3 DEF LastPoll
    <2>2. \A s : Heard(s)' = Heard(s)
      BY <1>2 DEF Heard
    <2>3. alive.value = Heard(silent)
      BY <1>11 DEF Tracked
    <2>4. sample = "OK" => silent \in AfterFrame \cup AfterZero
      <3>1. CASE LastPoll >= 0
        <4>1. last_alive = Heard(silent - p)
          BY <1>11, <2>1, <3>1 DEF Tracked
        <4> HIDE DEF w
        <4>2. sample = "OK" => silent - p + 1 < Deadline /\ ~(silent + 1 < Deadline)
          BY <2>3, <1>3, <4>1 DEF sample, Heard
        <4> QED BY <1>3, <4>2 DEF AfterZero
      <3>2. CASE ~(LastPoll >= 0)
        <4> HIDE DEF w
        <4> QED BY <1>3, <2>1, <3>2 DEF AfterFrame
      <3> QED BY <3>1, <3>2
    <2>5. ByAge(config, sm)' = [age \in 1 .. sm'.SampleCount |->
                                 IF age = 1 THEN sample ELSE ByAge(config, sm)[age - 1]]
      <3>1. ByAge(config, sm') = [age \in 1 .. sm'.SampleCount |->
                                 IF age = 1 THEN sample ELSE ByAge(config, sm)[age - 1]]
        BY <1>1, SamplesAge
      <3>2. ByAge(config, sm)' = ByAge(config, sm')
        BY <1>2 DEF ByAge, Slot
      <3> QED BY <3>1, <3>2
    <2>6. AtPoll(1)' = silent
      BY <1>3, <2>1 DEF AtPoll
    <2>7. \A age \in 2 .. w : AtPoll(age)' = AtPoll(age - 1)
      <3> TAKE age \in 2 .. w
      <3>1. AtPoll(age)' = silent - (age - 1) * p /\ AtPoll(age - 1) = silent - p - (age - 1 - 1) * p
        BY <2>1 DEF AtPoll
      <3>2. (age - 1) * p = (age - 1 - 1) * p + p /\ (age - 1 - 1) * p \in Int
        BY <1>3
      <3> HIDE DEF w, p
      <3> QED BY <1>3, <3>1, <3>2
    <2>8. sm'.SampleCount = IF sm.SampleCount < w THEN sm.SampleCount + 1 ELSE sm.SampleCount
      BY <1>1 DEF SmChecked
    <2>9. ASSUME NEW age \in 1 .. w, AtPoll(age)' >= 0
          PROVE  /\ age <= sm'.SampleCount
                 /\ ByAge(config, sm)'[age] = "OK" => AtPoll(age)' \in AfterFrame \cup AfterZero
      <3>1. CASE age = 1
        <4>1. age <= sm'.SampleCount
          BY <1>3, <1>5, <2>8, <3>1
        <4>2. ByAge(config, sm)'[age] = sample
          BY <2>5, <3>1, <4>1, <1>5
        <4> QED BY <2>4, <2>6, <3>1, <4>1, <4>2
      <3>2. CASE age # 1
        <4>1. age - 1 \in 1 .. w /\ age \in 2 .. w
          BY <1>3, <3>2
        <4>2. AtPoll(age - 1) >= 0 /\ AtPoll(age)' = AtPoll(age - 1)
          BY <2>7, <2>9, <4>1
        <4>3. /\ age - 1 <= sm.SampleCount
              /\ ByAge(config, sm)[age - 1] = "OK" => AtPoll(age - 1) \in AfterFrame \cup AfterZero
          BY <1>11, <4>1, <4>2 DEF Tracked, SamplesTracked
        <4>4. age <= sm'.SampleCount
          BY <1>3, <1>5, <2>8, <4>1, <4>3
        <4>5. ByAge(config, sm)'[age] = ByAge(config, sm)[age - 1]
          BY <2>5, <3>2, <4>4, <1>5
        <4> QED BY <4>2, <4>3, <4>4, <4>5
      <3> QED BY <3>1, <3>2
    <2>10. SamplesTracked'
      BY <1>2, <2>9 DEF SamplesTracked
    <2>11. ASSUME AtPoll(w)' >= Slack, LastPoll' >= Deadline + p - 1
           PROVE  sm'.Status # "VALID"
      <3>0. AtPoll(w)' >= 0 /\ (Slack = p => AtPoll(w)' >= p)
            /\ (Slack # p => w - 2 > config.MaxErrorStateValid)
        <4>1. AtPoll(w)' = silent - (w - 1) * p
          BY <1>2, <2>1 DEF AtPoll
        <4>2. (w - 1) * p \in Int
          BY <1>3
        <4>3. p \in Int /\ p > 0 /\ w \in Int /\ silent \in Int
          BY <1>3
        <4>4. Slack = IF w - GoodInSilence > config.MaxErrorStateValid THEN 0 ELSE p
          BY DEF Slack
        <4> QED BY <2>11, <4>1, <4>2, <4>3, <4>4 DEF GoodInSilence
      <3>1. /\ sm'.SampleCount = w /\ sm'.OkCount <= 2
            /\ Slack = p => sm'.OkCount <= 1
        <4>1. (IInv /\ SamplesTracked /\ AtPoll(config.WindowSize) >= 0 =>
                  /\ sm.SampleCount = config.WindowSize
                  /\ sm.OkCount <= GoodInSilence
                  /\ AtPoll(config.WindowSize) >= PollCycles => sm.OkCount <= 1)'
          BY FewOks, PTL
        <4>2. IInv'
          BY MonitorKeeps
        <4>3. AtPoll(config.WindowSize)' = AtPoll(w)'
          BY <1>2 DEF AtPoll
        <4> QED BY <1>2, <2>10, <3>0, <4>1, <4>2, <4>3 DEF GoodInSilence
      <3>2. sm'.OkCount + sm'.ErrorCount = w
        BY <1>1, <3>1, CountsAddUp
      <3>3. sm'.ErrorCount > config.MaxErrorStateValid /\ ~(sm'.OkCount >= config.MinOkStateInvalid)
        BY <1>3, <1>5, <1>8, <3>0, <3>1, <3>2
      <3>4. sample = "ERROR"
        <4>1. ~(silent \in AfterFrame \cup AfterZero)
          <5> HIDE DEF w
          <5> QED BY <1>3, <2>1, <2>11 DEF AfterFrame, AfterZero
        <4> QED BY <1>1, <2>4, <4>1 DEF Samples
      <3>5. sm.Status = "INIT" => ~(sm'.OkCount >= config.MinOkStateInit)
        BY <1>5, <1>6, <1>9, <3>4 DEF StatusInv
      <3> QED BY <1>5, <1>7, <3>3, <3>5 DEF NextStatus, SmStatuses
    <2>12. /\ alive'.value = Heard(silent)' /\ last_alive' = Heard(LastPoll)'
           /\ alive'.age = IF silent' + 1 < Deadline THEN silent' + 1 ELSE Deadline
      BY <1>1, <1>2, <1>11, <2>1, <2>3 DEF Tracked, Heard
    <2>13. AtPoll(config.WindowSize)' = AtPoll(w)' /\ Slack' = Slack
      BY <1>2 DEF AtPoll, Slack
    <2> QED BY <2>10, <2>11, <2>12, <2>13 DEF Tracked
  <1> QED BY <1>10, <1>11 DEF SilenceInv

LEMMA SilenceKeeps ==
  ASSUME SilenceFits, IInv, SilenceInv, [Next]_vars
  PROVE  SilenceInv'
  <1>1. StatusInv'
    BY StatusKeeps DEF SilenceInv
  <1>2. CASE Receive
    BY <1>1, <1>2, SilenceReceives DEF SilenceInv
  <1>3. CASE Monitor /\ tx_timer + 1 >= PollCycles
    BY <1>1, <1>3, SilencePolls DEF SilenceInv
  <1>4. CASE Monitor /\ ~(tx_timer + 1 >= PollCycles)
    <2>1. /\ pc = "monitor" /\ pc' = "receive" /\ tx_timer' = tx_timer + 1
          /\ UNCHANGED <<config, alive, last_alive, sm, comm_status, last_frame, silent>>
      BY <1>4 DEF Monitor
    <2>2. tx_timer \in Int /\ silent \in Int
      BY Periods
    <2>3. LastPoll' = LastPoll
      BY <2>1, <2>2 DEF LastPoll
    <2>4. Tracked => Tracked'
      BY <2>1, <2>3 DEF Tracked, SamplesTracked, Slack, Heard, AtPoll, ByAge, Slot
    <2>5. Gone => Gone'
      BY <2>1 DEF Gone, FoundWithin, WindowPolls
    <2> QED BY <1>1, <2>4, <2>5 DEF SilenceInv
  <1>5. CASE UNCHANGED vars
    BY <1>1, <1>5 DEF SilenceInv, Tracked, SamplesTracked, Slack, Heard, LastPoll, AtPoll, ByAge,
                      Slot, Gone, FoundWithin, WindowPolls, vars, observers
  <1> QED BY <1>2, <1>3, <1>4, <1>5 DEF Next

\* A controller that falls silent is reported as timed out within a window of
\* polls, or two polls after Com's deadline, and not taken for alive again: for
\* all periods, and all thresholds that one good sample does not keep valid and
\* two do not bring back.
THEOREM SilenceFound ==
  ASSUME SilenceFits
  PROVE  Spec => []SilentIsFound
  <1>1. Init => SilenceInv
    <2> SUFFICES ASSUME Init PROVE SilenceInv
      OBVIOUS
    <2>1. StatusInv
      BY StatusStarts
    <2>2. Gone
      BY DEF Init, Gone, GoodInSilence, Com_Init, E2E_Sm_Init
    <2> QED BY <2>1, <2>2 DEF SilenceInv
  <1>2. IInv /\ SilenceInv /\ [Next]_vars => SilenceInv'
    BY SilenceKeeps
  <1>3. IInv /\ SilenceInv => SilentIsFound
    <2> SUFFICES ASSUME IInv, SilenceInv, pc = "receive", silent >= FoundWithin
                 PROVE  comm_status = "TIMEOUT"
      BY DEF SilentIsFound
    <2>1. silent = FoundWithin
      <3>1. silent \in 0 .. FoundWithin /\ FoundWithin \in Nat
        BY Periods
      <3> QED BY <3>1
    <2>2. Gone
      BY <2>1, TrackedGone DEF SilenceInv
    <2> QED BY <2>2 DEF Gone, SilenceInv, StatusInv, IInv, TypeOK
  <1> QED BY <1>1, <1>2, <1>3, Invariance, PTL DEF Spec

-----------------------------------------------------------------------------
(* A healthy controller is alive *)

\* Cycles received since the last poll.
Elapsed == IF pc = "receive" THEN tx_timer ELSE tx_timer + 1

\* The frames since the last poll: periods are too long for two.
Pending == IF silent < Elapsed THEN 1 ELSE 0

Oks(k) == Cardinality(OkAges(config, sm, k))

\* While frames come in time, the signal is the last of them.
SignalFresh ==
    silent < MaxGap => alive.value = last_frame /\ alive.age = silent + 1

\* Nothing is healthy while a frame is overdue, and each healthy poll has its
\* sample in the window.
HealthCounted ==
    /\ silent >= MaxGap => healthy <= IF pc = "receive" THEN 1 ELSE 0
    /\ healthy <= sm.SampleCount \/ sm.SampleCount = config.WindowSize

\* A frame that came since the last poll is the next one in the sequence.
FrameFollows ==
    healthy >= 1 /\ silent < MaxGap =>
        last_frame = IF silent < Elapsed THEN NextByte(last_alive) ELSE last_alive

\* The frames that came since any of the healthy polls, each a good sample or
\* still to be polled, span the time since that poll.
FramesSpan ==
    healthy >= 1 /\ silent < MaxGap =>
        \A k \in 0 .. config.WindowSize :
            k < healthy => k * PollCycles + Elapsed <= silent + (Oks(k) + Pending) * MaxGap

\* A controller healthy for more than a window is reported as alive.
HealthReported == healthy > config.WindowSize => comm_status = "OK"

HealthInv == SignalFresh /\ HealthCounted /\ FrameFollows /\ FramesSpan /\ HealthReported

\* The next number is a different one, also after the zero.
LEMMA NextDiffers ==
  ASSUME NEW byte \in 0 .. AliveMod, AliveMod \in Nat, AliveMod >= 2
  PROVE  NextByte(byte) # byte
  BY DEF NextByte

LEMMA HealthReceives ==
  ASSUME HealthFits, IInv, HealthInv, Receive
  PROVE  HealthInv'
  <1>1. /\ pc = "receive" /\ pc' = "monitor"
        /\ UNCHANGED <<config, tx_timer, last_alive, sm, comm_status>>
    BY Receives
  <1>2. /\ PollCycles \in Nat \ {0} /\ Deadline \in Nat \ {0} /\ config.WindowSize \in Nat \ {0}
        /\ MaxGap \in Nat /\ MaxGap >= PollCycles /\ MaxGap < Deadline
        /\ tx_timer \in 0 .. PollCycles - 1 /\ FoundWithin \in Nat /\ silent \in 0 .. FoundWithin
        /\ FoundWithin >= Deadline + 2 * PollCycles - 2
        /\ alive.age \in 0 .. Deadline /\ healthy \in 0 .. config.WindowSize + 1
    BY Periods DEF HealthFits
  <1>3. Elapsed = tx_timer /\ Elapsed' = tx_timer + 1
    BY <1>1 DEF Elapsed
  <1>4. \A k : Oks(k)' = Oks(k)
    BY <1>1 DEF Oks, OkAges, ByAge, Slot
  <1>5. \A k \in 0 .. config.WindowSize : Oks(k) \in Nat /\ k * PollCycles \in Nat
    <2> TAKE k \in 0 .. config.WindowSize
    <2>1. k \in Nat
      BY <1>2
    <2>2. Oks(k) \in Nat
      BY <2>1, OkAgesFinite DEF Oks
    <2> QED BY <1>2, <2>1, <2>2
  <1>0. sm.SampleCount \in Nat
    BY <1>2 DEF IInv, SmInv, SmVariables
  <1>6. ASSUME silent' = 0, last_frame' \in 1 .. AliveMod, alive'.age = 1,
               alive'.value = IF 1 < Deadline THEN last_frame' ELSE 0,
               healthy' = IF silent + 1 \notin PollCycles .. MaxGap
                                \/ last_frame' # NextByte(last_frame) THEN 0 ELSE healthy
        PROVE  HealthInv'
    <2>1. SignalFresh'
      BY <1>2, <1>6 DEF SignalFresh
    <2>2. HealthCounted'
      BY <1>0, <1>1, <1>2, <1>6 DEF HealthCounted, HealthInv
    <2>3. HealthReported'
      BY <1>1, <1>2, <1>6 DEF HealthReported, HealthInv
    <2>4. CASE healthy' = 0
      BY <2>1, <2>2, <2>3, <2>4 DEF HealthInv, FrameFollows, FramesSpan
    <2>5. CASE healthy' # 0
      <3>1. /\ healthy' = healthy /\ healthy >= 1
            /\ silent + 1 >= PollCycles /\ silent + 1 <= MaxGap /\ silent < MaxGap
            /\ last_frame' = NextByte(last_frame)
        BY <1>2, <1>6, <2>5
      <3>2. ~(silent < Elapsed) /\ silent' < Elapsed'
        BY <1>2, <1>3, <1>6, <3>1
      <3>3. last_frame = last_alive
        BY <3>1, <3>2 DEF FrameFollows, HealthInv
      <3>4. FrameFollows'
        BY <1>1, <3>1, <3>2, <3>3 DEF FrameFollows, NextByte
      <3>5. Pending = 0 /\ Pending' = 1
        BY <3>2 DEF Pending
      <3>6. FramesSpan'
        <4> SUFFICES ASSUME NEW k \in 0 .. config.WindowSize, k < healthy
                     PROVE  k * PollCycles + Elapsed' <= silent' + (Oks(k) + 1) * MaxGap
          BY <1>1, <1>4, <3>1, <3>5 DEF FramesSpan
        <4>1. k * PollCycles + Elapsed <= silent + (Oks(k) + 0) * MaxGap
          BY <3>1, <3>5 DEF FramesSpan, HealthInv
        <4>2. (Oks(k) + 1) * MaxGap = (Oks(k) + 0) * MaxGap + MaxGap
              /\ (Oks(k) + 0) * MaxGap \in Int
          BY <1>2, <1>5
        <4>3. k * PollCycles \in Int
          BY <1>5
        <4> QED BY <1>2, <1>3, <1>6, <3>1, <4>1, <4>2, <4>3
      <3> QED BY <2>1, <2>2, <2>3, <3>4, <3>6 DEF HealthInv
    <2> QED BY <2>4, <2>5
  <1>7. ASSUME silent' = IF silent < FoundWithin THEN silent + 1 ELSE silent,
               last_frame' = last_frame,
               alive'.age = IF alive.age < Deadline THEN alive.age + 1 ELSE alive.age,
               alive'.value = IF alive'.age < Deadline THEN alive.value ELSE 0,
               healthy' = IF silent + 1 >= MaxGap THEN 0 ELSE healthy
        PROVE  HealthInv'
    <2>1. silent' < MaxGap => silent' = silent + 1 /\ silent + 1 < MaxGap
      BY <1>2, <1>7
    <2>2. silent' >= MaxGap => healthy' = 0
      BY <1>2, <1>7
    <2>3. SignalFresh'
      BY <1>2, <1>7, <2>1 DEF SignalFresh, HealthInv
    <2>4. HealthCounted'
      BY <1>0, <1>1, <1>2, <1>7, <2>2 DEF HealthCounted, HealthInv
    <2>5. HealthReported'
      BY <1>1, <1>2, <1>7 DEF HealthReported, HealthInv
    <2>6. CASE silent' < MaxGap
      <3>1. /\ healthy' = healthy /\ silent' = silent + 1 /\ silent < MaxGap
            /\ (silent' < Elapsed' <=> silent < Elapsed)
        BY <1>2, <1>3, <1>7, <2>1, <2>6
      <3>2. FrameFollows'
        BY <1>1, <1>7, <3>1 DEF FrameFollows, NextByte, HealthInv
      <3>3. Pending' = Pending
        BY <3>1 DEF Pending
      <3>4. FramesSpan'
        <4> SUFFICES ASSUME NEW k \in 0 .. config.WindowSize, k < healthy, healthy >= 1
                     PROVE  k * PollCycles + Elapsed' <= silent' + (Oks(k) + Pending) * MaxGap
          BY <1>1, <1>4, <3>1, <3>3 DEF FramesSpan
        <4>1. k * PollCycles + Elapsed <= silent + (Oks(k) + Pending) * MaxGap
          BY <3>1 DEF FramesSpan, HealthInv
        <4>2. (Oks(k) + Pending) * MaxGap \in Int
          BY <1>2, <1>5 DEF Pending
        <4>3. k * PollCycles \in Int
          BY <1>5
        <4> QED BY <1>2, <1>3, <3>1, <4>1, <4>2, <4>3
      <3> QED BY <2>3, <2>4, <2>5, <3>2, <3>4 DEF HealthInv
    <2>7. CASE ~(silent' < MaxGap)
      BY <2>3, <2>4, <2>5, <2>7 DEF HealthInv, FrameFollows, FramesSpan
    <2> QED BY <2>6, <2>7
  <1> QED BY <1>6, <1>7, Receives

LEMMA HealthPolls ==
  ASSUME HealthFits, IInv, HealthInv, Monitor, tx_timer + 1 >= PollCycles
  PROVE  HealthInv'
  <1> DEFINE sample == IF alive.value # last_alive THEN "OK" ELSE "ERROR"
             w == config.WindowSize
             p == PollCycles
             G == MaxGap
             n == sm.SampleCount
  <1>1. /\ SmChecked(config, sm, sample, sm') /\ sample \in Samples
        /\ SmInv(config, sm) /\ SmInv(config, sm') /\ config \in SmConfigs
        /\ last_alive' = alive.value /\ tx_timer' = 0
        /\ comm_status' = IF sm'.Status = "VALID" THEN "OK" ELSE "TIMEOUT"
        /\ healthy' = IF healthy <= w THEN healthy + 1 ELSE healthy
    BY PollSamples
  <1>2. /\ pc = "monitor" /\ pc' = "receive"
        /\ UNCHANGED <<config, alive, last_frame, silent>>
    BY DEF Monitor
  <1>3. /\ p \in Nat \ {0} /\ w \in Nat \ {0} /\ G \in Nat
        /\ tx_timer = p - 1 /\ FoundWithin \in Nat /\ silent \in 0 .. FoundWithin
        /\ healthy \in 0 .. w + 1
        /\ last_alive \in 0 .. AliveMod /\ AliveMod \in Nat /\ AliveMod >= 2
    BY Periods
  <1>4. n \in 0 .. w /\ sm'.SampleCount = IF n < w THEN n + 1 ELSE n
    BY <1>1 DEF SmInv, SmVariables, SmChecked
  <1>5. Elapsed = p /\ Elapsed' = 0
    <2> HIDE DEF w, G, n
    <2> QED BY <1>1, <1>2, <1>3 DEF Elapsed
  <1>6. SignalFresh'
    BY <1>2 DEF SignalFresh, HealthInv
  <1>7. HealthCounted'
    <2> HIDE DEF w, p, G
    <2>1. silent >= G => healthy = 0
      BY <1>2, <1>3 DEF HealthCounted, HealthInv, G
    <2>2. healthy <= n \/ n = w
      BY DEF HealthCounted, HealthInv, w
    <2>3. silent >= G => healthy' <= 1
      BY <1>1, <1>3, <2>1
    <2>4. healthy' <= sm'.SampleCount \/ sm'.SampleCount = w
      <3> HIDE DEF n
      <3> QED BY <1>1, <1>3, <1>4, <2>2
    <2> QED BY <1>2, <2>3, <2>4 DEF HealthCounted, w, G
  <1>8. FrameFollows'
    <2>1. ~(silent' < Elapsed')
      BY <1>2, <1>3, <1>5
    <2>2. silent < MaxGap => alive.value = last_frame
      BY DEF SignalFresh, HealthInv
    <2> QED BY <1>1, <1>2, <2>1, <2>2 DEF FrameFollows
  \* The sample of a healthy poll is good just when a frame came.
  <1>9. ASSUME healthy >= 1, silent < G
        PROVE  Pending = IF sample = "OK" THEN 1 ELSE 0
    <2>1. alive.value = last_frame
      BY <1>9 DEF SignalFresh, HealthInv
    <2>2. last_frame = IF silent < Elapsed THEN NextByte(last_alive) ELSE last_alive
      BY <1>9 DEF FrameFollows, HealthInv
    <2>3. NextByte(last_alive) # last_alive
      BY <1>3, NextDiffers
    <2> QED BY <2>1, <2>2, <2>3 DEF Pending
  <1>10. Pending' = 0
    BY <1>2, <1>3, <1>5 DEF Pending
  <1>11. ASSUME silent < G, NEW k \in 0 .. w, k < healthy'
         PROVE  k * p <= silent + Cardinality(OkAges(config, sm', k)) * G
    <2>2. CASE k = 0
      <3>1. Cardinality(OkAges(config, sm', k)) = 0
        <4>1. Cardinality(OkAges(config, sm', k)) \in 0 .. k
          BY <2>2, OkAgesFinite
        <4> QED BY <2>2, <4>1
      <3>2. k * p = 0 /\ 0 * G = 0
        BY <1>3, <2>2
      <3> QED BY <1>3, <3>1, <3>2
    <2>3. CASE k # 0
      <3> DEFINE j == k - 1
      <3>1. j \in 0 .. w /\ j \in Nat /\ j < healthy /\ healthy >= 1 /\ k = j + 1
        BY <1>1, <1>3, <1>11, <2>3
      <3>2. j * p + p <= silent + (Oks(j) + Pending) * G
        BY <1>5, <1>11, <3>1 DEF FramesSpan, HealthInv
      <3>3. j < sm'.SampleCount
        <4>1. healthy <= n \/ n = w
          BY DEF HealthCounted, HealthInv
        <4> HIDE DEF w, n, j
        <4> QED BY <1>3, <1>4, <1>11, <3>1, <4>1
      <3>4. Cardinality(OkAges(config, sm', j + 1)) = Oks(j) + (IF sample = "OK" THEN 1 ELSE 0)
        BY <1>1, <3>1, <3>3, OkAgesShift DEF Oks
      <3>5. Cardinality(OkAges(config, sm', k)) = Oks(j) + Pending
        BY <1>9, <1>11, <3>1, <3>4
      <3>6. k * p = j * p + p
        BY <1>3, <3>1
      <3> QED BY <3>2, <3>5, <3>6
    <2> QED BY <2>2, <2>3
  <1>12. FramesSpan'
    <2> SUFFICES ASSUME silent < G, NEW k \in 0 .. w, k < healthy'
                 PROVE  k * p + 0 <= silent + (Oks(k)' + 0) * G
      BY <1>2, <1>5, <1>10 DEF FramesSpan
    <2>0. Oks(k)' = Cardinality(OkAges(config, sm', k))
      BY <1>2 DEF Oks, OkAges, ByAge, Slot
    <2>1. k * p <= silent + Oks(k)' * G
      BY <1>11, <2>0
    <2>2. k * p \in Int
      BY <1>3
    <2>3. Oks(k)' \in Nat
      <3>1. k \in Nat
        BY <1>3
      <3> QED BY <2>0, <3>1, OkAgesFinite
    <2>4. k * p + 0 = k * p /\ Oks(k)' + 0 = Oks(k)'
      BY <2>2, <2>3
    <2> QED BY <2>1, <2>4
  <1>13. HealthReported'
    <2> SUFFICES ASSUME healthy' > w
                 PROVE  comm_status' = "OK"
      BY <1>2 DEF HealthReported
    <2>1. silent < G
      <3>1. silent >= G => healthy = 0
        BY <1>2, <1>3 DEF HealthCounted, HealthInv
      <3> HIDE DEF w, G, p, n
      <3> QED BY <1>1, <1>3, <3>1
    <2>2. sm'.SampleCount = w
      <3>1. healthy' <= sm'.SampleCount \/ sm'.SampleCount = w
        BY <1>2, <1>7 DEF HealthCounted
      <3>2. healthy' \in Int /\ sm'.SampleCount \in 0 .. w
        BY <1>1, <1>3 DEF SmInv, SmVariables
      <3> HIDE DEF w, G, p, n
      <3> QED BY <1>3, <3>1, <3>2
    <2>3. Cardinality(OkAges(config, sm', w)) = sm'.OkCount
      BY <1>1, <2>2, OkAgesCounted
    <2> DEFINE oks == sm'.OkCount
    <2>4. oks \in 0 .. w /\ sm'.ErrorCount \in Nat /\ oks + sm'.ErrorCount = w
      BY <1>1, <2>2, CountsAddUp DEF SmInv, SmVariables
    <2>5. w * p < (oks + 1) * G
      <3>1. w \in 0 .. w /\ w < healthy'
        BY <1>3
      <3>2. w * p <= silent + oks * G
        BY <1>11, <2>1, <2>3, <3>1
      <3>3. (oks + 1) * G = oks * G + G /\ oks * G \in Int /\ w * p \in Int
        BY <1>3, <2>4
      <3> HIDE DEF oks, w, p, G
      <3> QED BY <1>3, <2>1, <3>2, <3>3
    <2>6. /\ oks >= config.MinOkStateInit /\ oks >= config.MinOkStateInvalid
          /\ w - oks <= config.MaxErrorStateValid
      BY <2>4, <2>5 DEF HealthFits, IInv, TypeOK
    <2>7. sm'.Status = NextStatus(config, sm.Status, oks, sm'.ErrorCount)
          /\ sm.Status \in SmStatuses /\ config.MaxErrorStateValid \in Nat
      BY <1>1 DEF SmChecked, SmInv, SmVariables, SmConfigs
    <2>8. ~(sm'.ErrorCount > config.MaxErrorStateValid)
      <3> HIDE DEF oks, w
      <3> QED BY <1>3, <2>4, <2>6, <2>7
    <2>9. sm'.Status = "VALID"
      BY <2>6, <2>7, <2>8 DEF NextStatus, SmStatuses
    <2> QED BY <1>1, <2>9
  <1> QED BY <1>6, <1>7, <1>8, <1>12, <1>13 DEF HealthInv

LEMMA HealthKeeps ==
  ASSUME HealthFits, IInv, HealthInv, [Next]_vars
  PROVE  HealthInv'
  <1>1. CASE Receive
    BY <1>1, HealthReceives
  <1>2. CASE Monitor /\ tx_timer + 1 >= PollCycles
    BY <1>2, HealthPolls
  <1>3. CASE Monitor /\ ~(tx_timer + 1 >= PollCycles)
    <2>1. /\ pc = "monitor" /\ pc' = "receive" /\ tx_timer' = tx_timer + 1
          /\ UNCHANGED <<config, alive, last_alive, sm, comm_status, last_frame, silent, healthy>>
      BY <1>3 DEF Monitor
    <2>2. Elapsed' = Elapsed
      BY <2>1 DEF Elapsed
    <2>3. healthy \in Nat
      <3>1. healthy \in 0 .. config.WindowSize + 1 /\ config.WindowSize \in Nat
        BY Periods
      <3> QED BY <3>1
    <2>4. HealthCounted'
      BY <2>1, <2>3 DEF HealthCounted, HealthInv
    <2>5. SignalFresh' /\ FrameFollows' /\ HealthReported'
      BY <2>1, <2>2 DEF SignalFresh, FrameFollows, HealthReported, HealthInv, NextByte
    <2>6. FramesSpan'
      <3>1. \A k : Oks(k)' = Oks(k)
        BY <2>1 DEF Oks, OkAges, ByAge, Slot
      <3>2. Pending' = Pending
        BY <2>1, <2>2 DEF Pending
      <3> QED BY <2>1, <2>2, <3>1, <3>2 DEF FramesSpan, HealthInv
    <2> QED BY <2>4, <2>5, <2>6 DEF HealthInv
  <1>4. CASE UNCHANGED vars
    BY <1>4 DEF HealthInv, SignalFresh, HealthCounted, FrameFollows, FramesSpan, HealthReported,
                Elapsed, Pending, Oks, OkAges, ByAge, Slot, NextByte, vars, observers
  <1> QED BY <1>1, <1>2, <1>3, <1>4 DEF Next

\* A controller whose heartbeats came in sequence and in time for more than a
\* whole window is reported as alive, whatever was before: for all periods
\* within the deadline, and all thresholds that the fewest heartbeats that can
\* come in a window reach.
THEOREM HealthSeen ==
  ASSUME HealthFits
  PROVE  Spec => []HealthyIsAlive
  <1>1. Init => HealthInv
    <2> SUFFICES ASSUME Init PROVE HealthInv
      OBVIOUS
    <2>1. IInv
      BY Initially
    <2>2. /\ silent = FoundWithin /\ healthy = 0 /\ sm.SampleCount = 0 /\ pc = "receive"
      BY DEF Init, E2E_Sm_Init
    <2>3. /\ FoundWithin \in Nat /\ Deadline \in Nat /\ MaxGap \in Nat /\ MaxGap < Deadline
          /\ FoundWithin >= Deadline + 2 * PollCycles - 2 /\ PollCycles \in Nat \ {0}
          /\ config.WindowSize \in Nat \ {0}
      BY <2>1, Periods DEF HealthFits
    <2>4. ~(silent < MaxGap)
      BY <2>2, <2>3
    <2>5. ~(healthy > config.WindowSize)
      BY <2>2, <2>3
    <2> QED BY <2>2, <2>4, <2>5
            DEF HealthInv, SignalFresh, HealthCounted, FrameFollows, FramesSpan, HealthReported
  <1>2. IInv /\ HealthInv /\ [Next]_vars => HealthInv'
    BY HealthKeeps
  <1>3. HealthInv => HealthyIsAlive
    BY DEF HealthInv, HealthReported, HealthyIsAlive
  <1> QED BY <1>1, <1>2, <1>3, Invariance, PTL DEF Spec
=============================================================================
