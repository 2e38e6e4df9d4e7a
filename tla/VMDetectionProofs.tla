------------------------- MODULE VMDetectionProofs -------------------------
(***************************************************************************)
(* Theorems about VMDetection: the timing verdict for any number of        *)
(* threads and samples, any threshold, counter width and starting point.   *)
(***************************************************************************)
EXTENDS VMDetection, TLAPS

-----------------------------------------------------------------------------
(* One sample.                                                             *)

LEMMA LowBelow == ASSUME NEW c \in 0 .. Word - 1 PROVE Low(c) = c
  BY VMAssumption DEF Low

LEMMA LowAbove == ASSUME NEW c \in Word .. 2 * Word - 1 PROVE Low(c) = c - Word
  BY VMAssumption DEF Low

\* A slow sample always counts, and a fast one only if the counter wrapped
\* between its two readings.
LEMMA SampleVerdict ==
  ASSUME NEW c \in Nat, NEW d \in 1 .. MaxCycles, c + d < 2 * Word, d < Word
  PROVE  /\ d > THRESHOLD => GetTimingCycles(c, d) > THRESHOLD
         /\ GetTimingCycles(c, d) > THRESHOLD =>
              d > THRESHOLD \/ (c < Word /\ c + d >= Word)
<1> USE VMAssumption
<1>1. CASE c + d < Word
  <2>1. Low(c) = c /\ Low(c + d) = c + d
    BY <1>1, LowBelow
  <2> QED BY <2>1 DEF GetTimingCycles
<1>2. CASE c >= Word
  <2>1. Low(c) = c - Word /\ Low(c + d) = c + d - Word
    BY <1>2, LowAbove
  <2> QED BY <2>1 DEF GetTimingCycles
<1>3. CASE c < Word /\ c + d >= Word
  <2>1. Low(c) = c /\ Low(c + d) = c + d - Word
    BY <1>3, LowBelow, LowAbove
  <2> QED BY <1>3, <2>1 DEF GetTimingCycles
<1> QED BY <1>1, <1>2, <1>3

-----------------------------------------------------------------------------
(* Types, and the measurement.                                             *)

\* The counter has moved at most MaxCycles a sample; on a machine that traps
\* only the disturbed samples are missing, on another only they and the one
\* that met the wrap were counted.
MeasurementInv ==
  \A t \in Threads : pc[t] = "measure" =>
    /\ m[t].tsc <= Word - 1 + m[t].i * MaxCycles
    /\ m[t].crossings <= m[t].i
    /\ Traps(kind) => m[t].crossings + m[t].odd >= m[t].i
    /\ ~Traps(kind) =>
         m[t].crossings <= m[t].odd + IF m[t].tsc < Word THEN 0 ELSE 1

\* A verdict stored, on its way to memory or about to be returned is right; and
\* once _finished is raised a verdict is there or being made.
VerdictInv ==
  /\ ret => Traps(kind)
  /\ \A t \in Threads :
       /\ "ret" \in pending[t] => mine[t] = Traps(kind)
       /\ pc[t] = "return" => SeesRet(t) = Traps(kind)
       /\ SeesFinished(t) =>
            \/ ret = Traps(kind)
            \/ \E u \in Threads : pc[u] = "measure" \/ "ret" \in pending[u]

Inv == TypeOK /\ MeasurementInv /\ VerdictInv

LEMMA InitInv == Init => Inv
<1> SUFFICES ASSUME Init PROVE Inv
  OBVIOUS
<1>1. Unused \in Measurement
  BY VMAssumption DEF Unused, Measurement
<1>2. TypeOK
  BY <1>1 DEF Init, TypeOK
<1>3. MeasurementInv
  BY DEF Init, MeasurementInv
<1>4. VerdictInv
  BY DEF Init, VerdictInv, SeesFinished
<1> QED BY <1>2, <1>3, <1>4 DEF Inv

LEMMA Budget == ASSUME NEW i \in 0 .. RUNS PROVE i * MaxCycles <= RUNS * MaxCycles
  BY VMAssumption

LEMMA StepSample ==
  ASSUME Inv, NEW t \in Threads, Sample(t)
  PROVE  /\ m' \in [Threads -> Measurement]
         /\ MeasurementInv'
<1> USE VMAssumption DEF Inv, TypeOK, Measurement
<1>1. PICK d \in Fast \cup Slow :
        LET odd == m[t].odd + IF Typical(d) THEN 0 ELSE 1 IN
          /\ odd <= MaxNoise
          /\ m' = [m EXCEPT ![t] =
                    [i |-> @.i + 1, odd |-> odd, tsc |-> @.tsc + d,
                     crossings |-> @.crossings +
                       IF GetTimingCycles(@.tsc, d) > THRESHOLD THEN 1 ELSE 0]]
  BY DEF Sample
<1> DEFINE c == m[t].tsc
           counted == GetTimingCycles(c, d) > THRESHOLD
           n == m'[t]
<1>2. /\ pc[t] = "measure" /\ pc' = pc /\ kind' = kind
      /\ m[t].i \in 0 .. RUNS - 1 /\ m[t].crossings \in 0 .. RUNS
      /\ m[t].odd \in 0 .. MaxNoise /\ c \in Nat
  BY DEF Sample
<1>3. d \in 1 .. MaxCycles /\ (d > THRESHOLD <=> d \in Slow)
  OBVIOUS
<1>4. /\ n.i = m[t].i + 1
      /\ n.odd = m[t].odd + (IF Typical(d) THEN 0 ELSE 1)
      /\ n.odd <= MaxNoise
      /\ n.tsc = c + d
      /\ n.crossings = m[t].crossings + IF counted THEN 1 ELSE 0
      /\ n = [i |-> n.i, odd |-> n.odd, tsc |-> n.tsc, crossings |-> n.crossings]
      /\ \A u \in Threads : u # t => m'[u] = m[u]
  BY <1>1
<1>5. (m[t].i + 1) * MaxCycles = m[t].i * MaxCycles + MaxCycles
  BY <1>2
<1>6. (m[t].i + 1) * MaxCycles <= RUNS * MaxCycles
  <2>1. m[t].i + 1 \in 0 .. RUNS
    BY <1>2
  <2> HIDE DEF Inv, TypeOK, Measurement
  <2> QED BY ONLY <2>1, Budget
<1>7. m[t].i * MaxCycles \in Nat /\ RUNS * MaxCycles \in Nat
  BY <1>2
<1>8. /\ c <= Word - 1 + m[t].i * MaxCycles
      /\ m[t].crossings <= m[t].i
      /\ Traps(kind) => m[t].crossings + m[t].odd >= m[t].i
      /\ ~Traps(kind) => m[t].crossings <= m[t].odd + IF c < Word THEN 0 ELSE 1
  BY <1>2 DEF MeasurementInv
<1>9. c + d <= Word - 1 + (m[t].i + 1) * MaxCycles
  BY <1>2, <1>3, <1>5, <1>7, <1>8
<1>10. c + d < 2 * Word /\ d < Word
  <2>1. RUNS * MaxCycles < Word
    BY MeasurementAssumption
  <2>2. MaxCycles <= RUNS * MaxCycles
    <3>1. 1 * MaxCycles <= RUNS * MaxCycles
      BY Budget
    <3> QED BY <3>1
  <2>3. (m[t].i + 1) * MaxCycles \in Nat
    BY <1>2
  <2> QED BY <1>2, <1>3, <1>6, <1>7, <1>9, <2>1, <2>2, <2>3
<1>11. /\ d > THRESHOLD => counted
       /\ counted => d > THRESHOLD \/ (c < Word /\ c + d >= Word)
  BY <1>2, <1>3, <1>10, SampleVerdict
<1>12. ASSUME Traps(kind) PROVE n.crossings + n.odd >= n.i
  <2>1. m[t].crossings + m[t].odd >= m[t].i
    BY <1>8, <1>12
  <2>2. Typical(d) => counted
    BY <1>3, <1>11, <1>12 DEF Typical
  <2> QED BY <1>2, <1>4, <2>1, <2>2
<1>13. ASSUME ~Traps(kind)
       PROVE  n.crossings <= n.odd + IF n.tsc < Word THEN 0 ELSE 1
  <2>1. m[t].crossings <= m[t].odd + IF c < Word THEN 0 ELSE 1
    BY <1>8, <1>13
  <2>2. Typical(d) => d <= THRESHOLD
    BY <1>13 DEF Typical
  <2> QED BY <1>2, <1>3, <1>4, <1>11, <2>1, <2>2
<1>14. n.crossings <= n.i
  BY <1>2, <1>4, <1>8
<1>15. n \in Measurement
  <2>1. n.i \in 0 .. RUNS /\ n.crossings \in 0 .. RUNS
    BY <1>2, <1>4, <1>14
  <2>2. n.odd \in 0 .. MaxNoise
    BY <1>2, <1>4
  <2>3. n.tsc \in 0 .. 2 * Word
    BY <1>2, <1>3, <1>4, <1>10
  <2> QED BY <1>4, <2>1, <2>2, <2>3
<1>16. m' \in [Threads -> Measurement]
  <2>1. m' = [m EXCEPT ![t] = n]
    BY <1>1
  <2> QED BY <1>15, <2>1
<1>17. MeasurementInv'
  <2> SUFFICES ASSUME NEW u \in Threads, pc'[u] = "measure"
               PROVE  /\ m'[u].tsc <= Word - 1 + m'[u].i * MaxCycles
                      /\ m'[u].crossings <= m'[u].i
                      /\ Traps(kind) => m'[u].crossings + m'[u].odd >= m'[u].i
                      /\ ~Traps(kind) => m'[u].crossings <=
                           m'[u].odd + IF m'[u].tsc < Word THEN 0 ELSE 1
    BY <1>2 DEF MeasurementInv, Traps
  <2>1. CASE u = t
    <3>1. n.tsc <= Word - 1 + n.i * MaxCycles
      BY <1>4, <1>9
    <3> QED BY <2>1, <3>1, <1>12, <1>13, <1>14
  <2>2. CASE u # t
    BY <1>2, <1>4, <2>2 DEF MeasurementInv
  <2> QED BY <2>1, <2>2
<1> QED BY <1>16, <1>17

LEMMA StepStore ==
  ASSUME Inv, NEW t \in Threads, Store(t)
  PROVE  mine'[t] = Traps(kind)
<1> USE VMAssumption, MeasurementAssumption DEF Inv, TypeOK, Measurement
<1>1. /\ m[t].crossings \in 0 .. RUNS /\ m[t].odd \in 0 .. MaxNoise
      /\ m[t].i = RUNS
      /\ mine'[t] = (m[t].crossings > RUNS \div 2)
  BY DEF Store
<1>2. RUNS \div 2 \in Nat
  OBVIOUS
<1>3. CASE Traps(kind)
  <2>1. m[t].crossings + m[t].odd >= RUNS
    BY <1>1, <1>3 DEF MeasurementInv, Store
  <2>2. m[t].crossings > RUNS \div 2
    BY <1>1, <1>2, <2>1
  <2> QED BY <1>1, <1>3, <2>2 DEF Traps
<1>4. CASE ~Traps(kind)
  <2>1. m[t].crossings <= m[t].odd + 1
    BY <1>1, <1>4 DEF MeasurementInv, Store
  <2>2. ~(m[t].crossings > RUNS \div 2)
    BY <1>1, <1>2, <2>1
  <2> QED BY <1>1, <1>4, <2>2 DEF Traps
<1> QED BY <1>3, <1>4

-----------------------------------------------------------------------------
(* Every step.                                                             *)

LEMMA BeginStep ==
  ASSUME Inv, NEW t \in Threads, BeginMeasure(t)
  PROVE  Inv'
<1> USE DEF Inv
<1>1. PICK s \in Starts : m' = [m EXCEPT ![t] = [Unused EXCEPT !.tsc = s]]
  BY DEF BeginMeasure
<1>2. [Unused EXCEPT !.tsc = s] = [i |-> 0, crossings |-> 0, odd |-> 0, tsc |-> s]
  BY DEF Unused
<1>3. s \in 0 .. Word - 1
  BY VMAssumption
<1>4. [Unused EXCEPT !.tsc = s] \in Measurement
  BY <1>2, <1>3, VMAssumption DEF Measurement
<1>5. m'[t] = [i |-> 0, crossings |-> 0, odd |-> 0, tsc |-> s]
      /\ \A u \in Threads : u # t => m'[u] = m[u]
  BY <1>1, <1>2 DEF TypeOK
<1>6. TypeOK'
  BY <1>1, <1>4 DEF TypeOK, BeginMeasure, Stores
<1>7. MeasurementInv'
  <2>1. ASSUME NEW u \in Threads, u # t, pc'[u] = "measure"
        PROVE  pc[u] = "measure" /\ m'[u] = m[u]
    BY <1>5, <2>1 DEF BeginMeasure, TypeOK
  <2>2. /\ m'[t].tsc <= Word - 1 + m'[t].i * MaxCycles
        /\ m'[t].crossings <= m'[t].i
        /\ m'[t].crossings + m'[t].odd >= m'[t].i
        /\ m'[t].crossings <= m'[t].odd + IF m'[t].tsc < Word THEN 0 ELSE 1
    BY <1>3, <1>5, VMAssumption
  <2>3. kind' = kind
    BY DEF BeginMeasure
  <2> QED BY <2>1, <2>2, <2>3 DEF MeasurementInv, Traps
<1>8. VerdictInv'
  <2>1. /\ ret' = ret /\ mine' = mine /\ kind' = kind /\ finished' = finished
        /\ pc'[t] = "measure"
        /\ \A u \in Threads : u # t => pc'[u] = pc[u] /\ pending'[u] = pending[u]
        /\ "ret" \in pending'[t] => "ret" \in pending[t]
    BY DEF BeginMeasure, TypeOK
  <2> QED BY <2>1 DEF VerdictInv, SeesRet, SeesFinished, Traps
<1> QED BY <1>6, <1>7, <1>8

LEMMA StoreStep ==
  ASSUME Inv, NEW t \in Threads, Store(t)
  PROVE  Inv'
<1> USE DEF Inv
<1>1. mine'[t] = Traps(kind)
  BY StepStore
<1>2. Unused \in Measurement
  BY VMAssumption DEF Unused, Measurement
<1>3. TypeOK'
  BY <1>1, <1>2 DEF TypeOK, Store, Stores, Traps
<1>4. MeasurementInv'
  <2>1. \A u \in Threads : pc'[u] = "measure" => pc[u] = "measure" /\ m'[u] = m[u]
    BY DEF Store, TypeOK
  <2>2. kind' = kind
    BY DEF Store
  <2> QED BY <2>1, <2>2 DEF MeasurementInv, Traps
<1>5. VerdictInv'
  <2>1. /\ ret' = ret /\ kind' = kind /\ finished' = finished
        /\ "ret" \in pending'[t]
        /\ \A u \in Threads : u # t => /\ pc'[u] = pc[u] /\ mine'[u] = mine[u]
                                      /\ pending'[u] = pending[u]
    BY DEF Store, TypeOK
  <2> QED BY <1>1, <2>1 DEF VerdictInv, SeesRet, SeesFinished, Traps
<1> QED BY <1>3, <1>4, <1>5

LEMMA DrainStep ==
  ASSUME Inv, NEW t \in Threads, Drain(t)
  PROVE  Inv'
<1> USE DEF Inv
<1>1. TypeOK'
  <2>1. CASE DrainFinished(t)
    BY <2>1 DEF TypeOK, DrainFinished
  <2>2. CASE DrainRet(t)
    BY <2>2 DEF TypeOK, DrainRet
  <2> QED BY <2>1, <2>2 DEF Drain
<1>2. MeasurementInv'
  <2>1. UNCHANGED <<kind, pc, m>>
    BY DEF Drain, DrainFinished, DrainRet
  <2> QED BY <2>1 DEF MeasurementInv, Traps
<1>3. CASE DrainFinished(t)
  <2>1. /\ UNCHANGED <<kind, ret, mine, pc>>
        /\ "finished" \in pending[t]
        /\ \A u \in Threads : "ret" \in pending'[u] <=> "ret" \in pending[u]
    BY <1>3 DEF DrainFinished, TypeOK
  <2> QED BY <1>1, <1>2, <2>1 DEF VerdictInv, SeesRet, SeesFinished, Traps
<1>4. CASE DrainRet(t)
  <2>1. /\ UNCHANGED <<kind, finished, mine, pc>>
        /\ "ret" \in pending[t]
        /\ ret' = mine[t]
        /\ \A u \in Threads : "ret" \in pending'[u] => "ret" \in pending[u]
    BY <1>4 DEF DrainRet, TypeOK
  <2>2. ret' = Traps(kind)
    BY <2>1 DEF VerdictInv
  <2>3. VerdictInv'
    <3>1. \A u \in Threads : "ret" \in pending'[u] => mine'[u] = Traps(kind)'
      BY <2>1 DEF VerdictInv, Traps
    <3>2. ret' = Traps(kind)'
      BY <2>1, <2>2 DEF Traps
    <3>3. \A u \in Threads : SeesRet(u)' = Traps(kind)'
      BY <3>1, <3>2 DEF SeesRet
    <3> QED BY <3>1, <3>2, <3>3 DEF VerdictInv
  <2> QED BY <1>1, <1>2, <2>3
<1> QED BY <1>3, <1>4 DEF Drain

\* Call, Return and a stuttering step: neither the statics nor a measurement.
LEMMA QuietStep ==
  ASSUME Inv, TypeOK', UNCHANGED <<kind, finished, ret, pending, mine, m>>,
         \A u \in Threads : /\ pc'[u] = "measure" <=> pc[u] = "measure"
                            /\ pc'[u] = "return" => pc[u] = "return"
  PROVE  Inv'
<1>1. Traps(kind)' = Traps(kind)
  BY DEF Traps
<1>2. MeasurementInv'
  BY <1>1 DEF Inv, MeasurementInv
<1>3. \A u \in Threads : SeesRet(u)' = SeesRet(u) /\ SeesFinished(u)' = SeesFinished(u)
  BY DEF SeesRet, SeesFinished
<1>4. VerdictInv'
  BY <1>1, <1>3 DEF Inv, VerdictInv
<1> QED BY <1>2, <1>4 DEF Inv

LEMMA StepInv == Inv /\ [Next]_vars => Inv'
<1> SUFFICES ASSUME Inv, [Next]_vars PROVE Inv'
  OBVIOUS
<1> USE DEF Inv
<1>1. ASSUME NEW t \in Threads, NEW f \in {"timing", "suspect"}, Call(t, f)
      PROVE  Inv'
  <2>1. TypeOK'
    BY <1>1 DEF Call, TypeOK
  <2>2. \A u \in Threads : /\ pc'[u] = "measure" <=> pc[u] = "measure"
                           /\ pc'[u] = "return" => pc[u] = "return"
    BY <1>1 DEF Call, TypeOK
  <2> QED BY <1>1, <2>1, <2>2, QuietStep DEF Call
<1>2. ASSUME NEW t \in Threads, Sample(t) PROVE Inv'
  <2>1. m' \in [Threads -> Measurement] /\ MeasurementInv'
    BY <1>2, StepSample
  <2>2. TypeOK'
    BY <1>2, <2>1 DEF Sample, TypeOK
  <2>3. VerdictInv'
    BY <1>2 DEF Sample, VerdictInv, SeesRet, SeesFinished, Traps
  <2> QED BY <2>1, <2>2, <2>3
<1>3. ASSUME NEW t \in Threads, Return(t) PROVE Inv'
  <2>1. SeesRet(t) \in BOOLEAN /\ IsSuspectedVM(kind, SeesRet(t)) \in BOOLEAN
    BY DEF SeesRet, TypeOK, IsSuspectedVM
  <2>2. TypeOK'
    BY <1>3, <2>1 DEF Return, TypeOK
  <2>3. \A u \in Threads : /\ pc'[u] = "measure" <=> pc[u] = "measure"
                           /\ pc'[u] = "return" => pc[u] = "return"
    BY <1>3 DEF Return, TypeOK
  <2> QED BY <1>3, <2>2, <2>3, QuietStep DEF Return
<1>4. CASE UNCHANGED vars
  BY <1>4, QuietStep DEF vars, TypeOK
<1> QED BY <1>1, <1>2, <1>3, <1>4, BeginStep, StoreStep, DrainStep
        DEF Next, HasVMExecutionTiming

\* Every variable keeps its type: a measurement takes RUNS samples, counts no
\* more, and the counter wraps at most once during it.
THEOREM TypeCorrect == Spec => []TypeOK
<1>1. Inv => TypeOK
  BY DEF Inv
<1> QED BY <1>1, InitInv, StepInv, PTL DEF Spec

\* Once nothing is under way the statics hold the right verdict, whatever
\* overlapped before.
THEOREM SettledIsRightAlways == Spec => []SettledIsRight
<1>1. Inv => SettledIsRight
  <2> SUFFICES ASSUME Inv, Settled PROVE ret = Traps(kind)
    BY DEF SettledIsRight
  <2>1. PICK t \in Threads : SeesFinished(t)
    BY VMAssumption DEF Settled, SeesFinished
  <2> QED BY <2>1 DEF Settled, Inv, VerdictInv
<1> QED BY <1>1, InitInv, StepInv, PTL DEF Spec

-----------------------------------------------------------------------------
(* What is answered.                                                       *)

LEMMA AnswersStep ==
  ASSUME Inv, [Next]_vars, NEW t \in Threads
  PROVE  \/ timed'[t] = timed[t] /\ suspected'[t] = suspected[t]
         \/ /\ Return(t)
            /\ timed'[t] = timed[t] \cup {SeesRet(t)}
            /\ \/ suspected'[t] = suspected[t]
               \/ suspected'[t] = suspected[t] \cup
                                    {IsSuspectedVM(kind, SeesRet(t))}
<1> USE DEF Inv, TypeOK
<1>1. CASE UNCHANGED <<timed, suspected>>
  BY <1>1
<1>2. ASSUME NEW u \in Threads, Return(u) PROVE
         \/ timed'[t] = timed[t] /\ suspected'[t] = suspected[t]
         \/ /\ Return(t)
            /\ timed'[t] = timed[t] \cup {SeesRet(t)}
            /\ \/ suspected'[t] = suspected[t]
               \/ suspected'[t] = suspected[t] \cup
                                    {IsSuspectedVM(kind, SeesRet(t))}
  BY <1>2 DEF Return
<1> QED BY <1>1, <1>2 DEF Next, HasVMExecutionTiming, Call, BeginMeasure, Sample,
        Store, Drain, DrainFinished, DrainRet, vars

LEMMA KindStays == [Next]_vars => kind' = kind
  BY DEF Next, HasVMExecutionTiming, Call, BeginMeasure, Sample, Store, Return,
     Drain, DrainFinished, DrainRet, vars

\* CPUID alone suspects virtual machines only.
LEMMA SuspicionSound ==
  ASSUME NEW k \in Kinds, NEW v \in BOOLEAN, v => Traps(k), IsSuspectedVM(k, v)
  PROVE  IsVM(k)
  BY VMAssumption DEF AllKinds, Traps, IsVM, IsSuspectedVM, IsHyperVGuestOS,
     GuestLeaves, GetHypervisorName, HypervisorBit, HypervisorLeaf

\* However the calls overlap and wherever the counter wraps, a machine that
\* does not trap is never said to, and a bare machine is never suspected.
THEOREM NeverFalseAlarmAlways == Spec => []NeverFalseAlarm
<1>1. Init => NeverFalseAlarm
  BY DEF Init, NeverFalseAlarm
<1>2. Inv /\ NeverFalseAlarm /\ [Next]_vars => NeverFalseAlarm'
  <2> SUFFICES ASSUME Inv, NeverFalseAlarm, [Next]_vars, NEW t \in Threads
               PROVE  /\ TRUE \in timed'[t] => Traps(kind)
                      /\ TRUE \in suspected'[t] => IsVM(kind)
    BY KindStays DEF NeverFalseAlarm, Traps, IsVM
  <2>1. SeesRet(t) \in BOOLEAN /\ (SeesRet(t) => Traps(kind)) /\ kind \in Kinds
    BY DEF Inv, TypeOK, VerdictInv, SeesRet
  <2>2. IsSuspectedVM(kind, SeesRet(t)) => IsVM(kind)
    BY <2>1, SuspicionSound
  <2> QED BY <2>1, <2>2, AnswersStep DEF NeverFalseAlarm
<1> QED BY <1>1, <1>2, InitInv, StepInv, PTL DEF Spec

\* One call at a time, and its predecessors' stores are in memory.
OneCall ==
  \A t \in Threads :
    /\ pc[t] # "host" =>
         \A u \in Threads : u # t => pc[u] = "host" /\ pending[u] = {}
    /\ pc[t] = "check" => pending[t] = {}

LEMMA StepOneCall ==
  ASSUME Serialised, TypeOK, OneCall, [Next]_vars
  PROVE  OneCall'
<1> USE DEF TypeOK, OneCall
<1>1. ASSUME NEW t \in Threads, NEW f \in {"timing", "suspect"}, Call(t, f)
      PROVE  OneCall'
  BY <1>1 DEF Call
<1>2. ASSUME NEW t \in Threads, BeginMeasure(t) PROVE OneCall'
  BY <1>2 DEF BeginMeasure
<1>3. ASSUME NEW t \in Threads, Sample(t) PROVE OneCall'
  BY <1>3 DEF Sample
<1>4. ASSUME NEW t \in Threads, Store(t) PROVE OneCall'
  BY <1>4 DEF Store
<1>5. ASSUME NEW t \in Threads, Return(t) PROVE OneCall'
  BY <1>5 DEF Return
<1>6. ASSUME NEW t \in Threads, DrainFinished(t) PROVE OneCall'
  BY <1>6 DEF DrainFinished
<1>7. ASSUME NEW t \in Threads, DrainRet(t) PROVE OneCall'
  BY <1>7 DEF DrainRet
<1>8. CASE UNCHANGED vars
  BY <1>8 DEF vars
<1> QED BY <1>1, <1>2, <1>3, <1>4, <1>5, <1>6, <1>7, <1>8
        DEF Next, HasVMExecutionTiming, Drain

\* A call about to return has the right verdict at hand.
LEMMA SerialRet ==
  ASSUME Inv, OneCall, NEW t \in Threads, Return(t)
  PROVE  SeesRet(t) = Traps(kind)
<1>1. CASE pc[t] = "return"
  BY <1>1 DEF Inv, VerdictInv
<1>2. CASE pc[t] = "check" /\ SeesFinished(t)
  <2>1. \A u \in Threads : pc[u] # "measure" /\ pending[u] = {}
    BY <1>2 DEF OneCall
  <2> QED BY <1>2, <2>1 DEF Inv, VerdictInv, SeesRet
<1> QED BY <1>1, <1>2 DEF Return

LEMMA SuspicionComplete ==
  ASSUME NEW k \in Kinds
  PROVE  IsSuspectedVM(k, Traps(k)) = (k \notin Signless)
  BY VMAssumption DEF AllKinds, Signless, Traps, IsSuspectedVM, IsHyperVGuestOS,
     GuestLeaves, GetHypervisorName, HypervisorBit, HypervisorLeaf

\* A host that serialises its calls is always told whether the machine traps,
\* and suspects exactly the machines that show a sign.
THEOREM SerialVerdictAlways ==
  ASSUME Serialised PROVE Spec => []SerialVerdict
<1>1. Init => OneCall /\ SerialVerdict
  BY DEF Init, OneCall, SerialVerdict
<1>2. Inv /\ OneCall /\ SerialVerdict /\ [Next]_vars => OneCall' /\ SerialVerdict'
  <2> SUFFICES ASSUME Inv, OneCall, SerialVerdict, [Next]_vars
               PROVE  OneCall' /\ SerialVerdict'
    OBVIOUS
  <2>1. OneCall'
    BY StepOneCall DEF Inv
  <2>2. ASSUME NEW t \in Threads
        PROVE  /\ timed'[t] \subseteq {Traps(kind)}
               /\ suspected'[t] \subseteq {kind \notin Signless}
    <3>1. Return(t) => /\ SeesRet(t) = Traps(kind)
                       /\ IsSuspectedVM(kind, SeesRet(t)) = (kind \notin Signless)
      BY SerialRet, SuspicionComplete DEF Inv, TypeOK
    <3>2. timed[t] \subseteq {Traps(kind)} /\ suspected[t] \subseteq {kind \notin Signless}
      BY DEF SerialVerdict
    <3> QED BY <3>1, <3>2, AnswersStep
  <2> QED BY <2>1, <2>2, KindStays DEF SerialVerdict, Traps
<1> QED BY <1>1, <1>2, InitInv, StepInv, PTL DEF Spec

-----------------------------------------------------------------------------
(* The refinement of WriteOnce, when the calls do not overlap.             *)
Cell == IF Measured THEN Latest ELSE Unmeasured

\* Whoever measures or has measured raised the flag first.
Marked == \A t \in Threads : pc[t] \in {"measure", "return"} => SeesFinished(t)

LEMMA StepMarked ==
  ASSUME TypeOK, Marked, [Next]_vars
  PROVE  Marked'
<1> USE DEF TypeOK, Marked, SeesFinished
<1>1. ASSUME NEW t \in Threads, NEW f \in {"timing", "suspect"}, Call(t, f)
      PROVE  Marked'
  BY <1>1 DEF Call
<1>2. ASSUME NEW t \in Threads, BeginMeasure(t) PROVE Marked'
  BY <1>2 DEF BeginMeasure
<1>3. ASSUME NEW t \in Threads, Sample(t) PROVE Marked'
  BY <1>3 DEF Sample
<1>4. ASSUME NEW t \in Threads, Store(t) PROVE Marked'
  BY <1>4 DEF Store
<1>5. ASSUME NEW t \in Threads, Return(t) PROVE Marked'
  BY <1>5 DEF Return
<1>6. ASSUME NEW t \in Threads, DrainFinished(t) PROVE Marked'
  BY <1>6 DEF DrainFinished
<1>7. ASSUME NEW t \in Threads, DrainRet(t) PROVE Marked'
  BY <1>7 DEF DrainRet
<1>8. CASE UNCHANGED vars
  BY <1>8 DEF vars
<1> QED BY <1>1, <1>2, <1>3, <1>4, <1>5, <1>6, <1>7, <1>8
        DEF Next, HasVMExecutionTiming, Drain

\* What the statics together hold is nothing or the right verdict.
CellRight == Cell = IF Measured THEN Traps(kind) ELSE Unmeasured

LEMMA CellIsRight ==
  ASSUME Inv
  PROVE  CellRight
<1> SUFFICES ASSUME Measured PROVE Latest = Traps(kind)
  BY DEF CellRight, Cell
<1>1. CASE \E t \in Threads : "ret" \in pending[t]
  <2> DEFINE w == CHOOSE t \in Threads : "ret" \in pending[t]
  <2>1. w \in Threads /\ "ret" \in pending[w]
    BY <1>1
  <2>2. Latest = mine[w]
    BY <1>1 DEF Latest
  <2> HIDE DEF w
  <2> QED BY <2>1, <2>2 DEF Inv, VerdictInv
<1>2. CASE ~\E t \in Threads : "ret" \in pending[t]
  <2>1. \E t \in Threads : SeesFinished(t)
    BY VMAssumption DEF Measured, SeesFinished
  <2>2. ret = Traps(kind)
    BY <1>2, <2>1 DEF Measured, Inv, VerdictInv
  <2> QED BY <1>2, <2>2 DEF Latest
<1> QED BY <1>1, <1>2

LEMMA CellQuiet ==
  ASSUME Cell' = Cell, timed' = timed
  PROVE  [Once!Next]_(Once!vars)
BY DEF Cell, Once!vars

LEMMA StepCell ==
  ASSUME Serialised, Inv, OneCall, Marked, CellRight, CellRight', [Next]_vars
  PROVE  [Once!Next]_(Once!vars)
<1> USE DEF Inv, TypeOK
<1>0. Traps(kind)' = Traps(kind) /\ Traps(kind) \in BOOLEAN
  BY KindStays DEF Traps
<1>1. ASSUME Measured' <=> Measured, timed' = timed PROVE [Once!Next]_(Once!vars)
  BY <1>0, <1>1, CellQuiet DEF CellRight
<1>2. ASSUME NEW t \in Threads, NEW f \in {"timing", "suspect"}, Call(t, f)
      PROVE  [Once!Next]_(Once!vars)
  <2>1. (Measured' <=> Measured) /\ timed' = timed
    BY <1>2 DEF Call, Measured
  <2> QED BY <1>1, <2>1
<1>3. ASSUME NEW t \in Threads, BeginMeasure(t) PROVE [Once!Next]_(Once!vars)
  <2>1. ~Measured /\ ~Measured' /\ timed' = timed
    BY <1>3 DEF BeginMeasure, Measured, SeesFinished, OneCall
  <2> QED BY <1>1, <2>1
<1>4. ASSUME NEW t \in Threads, Sample(t) PROVE [Once!Next]_(Once!vars)
  <2>1. ~Measured /\ ~Measured' /\ timed' = timed
    BY <1>4 DEF Sample, Measured
  <2> QED BY <1>1, <2>1
<1>5. ASSUME NEW t \in Threads, Store(t) PROVE [Once!Next]_(Once!vars)
  <2>1. ~Measured /\ timed' = timed
    BY <1>5 DEF Store, Measured
  <2>2. Measured'
    BY <1>5 DEF Store, Measured, Marked, SeesFinished, OneCall
  <2>3. Cell = Unmeasured /\ Cell' = Traps(kind)
    BY <1>0, <2>1, <2>2 DEF CellRight
  <2>4. Once!Publish
    BY <1>0, <2>1, <2>3 DEF Once!Publish, Cell
  <2> QED BY <2>4 DEF Once!Next
<1>6. ASSUME NEW t \in Threads, Return(t) PROVE [Once!Next]_(Once!vars)
  <2>1. Measured /\ Measured'
    BY <1>6 DEF Return, Measured, Marked, SeesFinished, OneCall
  <2>2. SeesRet(t) = Traps(kind)
    BY <1>6, SerialRet
  <2>3. Cell = Traps(kind) /\ Cell' = Cell
    BY <1>0, <2>1 DEF CellRight
  <2>4. Cell # Unmeasured
    BY <1>0, <2>3, VMAssumption
  <2>5. timed' = [timed EXCEPT ![t] = @ \cup {Cell}]
    BY <1>6, <2>2, <2>3 DEF Return
  <2>6. Once!Answer(t)
    BY <2>3, <2>4, <2>5 DEF Once!Answer, Cell
  <2> QED BY <2>6 DEF Once!Next
<1>7. ASSUME NEW t \in Threads, DrainFinished(t) PROVE [Once!Next]_(Once!vars)
  <2>1. (Measured' <=> Measured) /\ timed' = timed
    BY <1>7 DEF DrainFinished, Measured
  <2> QED BY <1>1, <2>1
<1>8. ASSUME NEW t \in Threads, DrainRet(t) PROVE [Once!Next]_(Once!vars)
  <2>1. (Measured' <=> Measured) /\ timed' = timed
    BY <1>8 DEF DrainRet, Measured
  <2> QED BY <1>1, <2>1
<1>9. CASE UNCHANGED vars
  <2>1. (Measured' <=> Measured) /\ timed' = timed
    BY <1>9 DEF vars, Measured
  <2> QED BY <1>1, <2>1
<1> QED BY <1>2, <1>3, <1>4, <1>5, <1>6, <1>7, <1>8, <1>9
        DEF Next, HasVMExecutionTiming, Drain

\* A host that serialises its calls sees a static filled once, although
\* _finished is raised before the verdict is known.
THEOREM ImplementsWriteOnceWhenSerialised ==
  ASSUME Serialised PROVE Spec => ImplementsWriteOnce
<1>1. Init => OneCall /\ Marked
  BY DEF Init, OneCall, Marked
<1>2. Inv /\ OneCall /\ Marked /\ [Next]_vars => OneCall' /\ Marked'
  BY StepOneCall, StepMarked DEF Inv
<1>3. Init => Once!Init
  <2> SUFFICES ASSUME Init PROVE Once!Init
    OBVIOUS
  <2>1. Cell = Unmeasured /\ timed = [t \in Threads |-> {}]
    BY DEF Init, Cell, Measured
  <2> QED BY <2>1 DEF Once!Init, Cell
<1>4. Inv => CellRight
  BY CellIsRight
<1>5. /\ Inv /\ OneCall /\ Marked /\ CellRight /\ CellRight' /\ [Next]_vars
      => [Once!Next]_(Once!vars)
  BY StepCell
<1> QED BY <1>1, <1>2, <1>3, <1>4, <1>5, InitInv, StepInv, PTL
        DEF Spec, ImplementsWriteOnce, Once!Spec
=============================================================================
