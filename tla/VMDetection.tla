---------------------------- MODULE VMDetection ----------------------------
(***************************************************************************)
(* HasVMExecutionTiming (src/gatherer.cpp) and IsSuspectedVM               *)
(* (src/cpu_extensions.h), both exported and called by any thread of the   *)
(* host and twice by GatherData.                                           *)
(*                                                                         *)
(* HasVMExecutionTiming raises its static _finished BEFORE it measures and *)
(* stores _ret afterwards; a call that finds _finished answers with _ret   *)
(* at once.  As in Retrieval, the two plain bools reach memory in any      *)
(* order.  The measurement is RUNS samples of GetTimingCycles, which       *)
(* subtracts two readings of the time stamp counter: of its low 32 bits    *)
(* kept in a 64-bit size_t by the Unix x86 build, of the whole counter, or *)
(* of 32 bits in 32 bits by the others.                                    *)
(***************************************************************************)
EXTENDS Integers

CONSTANTS
  Threads,     \* threads of the host
  RUNS,        \* samples of a measurement (1024)
  THRESHOLD,   \* THRESHOLD_CYCLES: a sample above it is a crossing (100)
  Word,        \* what the counter is read modulo
  Wide,        \* what size_t arithmetic is modulo
  Starts,      \* bound: counter values a measurement may start at
  Fast, Slow,  \* bounds: cycles of an ordinary and of a trapped sample
  MaxCycles,   \* bound: the longest of them
  MaxNoise,    \* bound: untypical samples in one measurement
  Serialised,  \* TRUE: the host never lets two calls overlap
  Arm64,       \* TRUE: the arm64 build of macOS
  Kinds,       \* the kinds of machine to consider, a subset of AllKinds
  Unmeasured   \* no verdict yet

VARIABLES
  kind,        \* what the program runs on
  finished,    \* the static _finished, as memory holds it
  ret,         \* the static _ret, as memory holds it
  pending,     \* pending[t]: stores of t that have not reached memory
  mine,        \* mine[t]: what t last stored to _ret
  pc,          \* where each thread is
  call,        \* call[t]: "timing" or "suspect", the function t called
  m,           \* m[t]: t's measurement
  timed,       \* timed[t]: every answer of HasVMExecutionTiming to t
  suspected    \* suspected[t]: every answer of IsSuspectedVM to t

vars == <<kind, finished, ret, pending, mine, pc, call, m, timed, suspected>>

(* Machines, by what each of them shows to the program: does a trap make   *)
(* RDTSC slow; does CPUID or kern.hv_vmm_present announce a hypervisor; the *)
(* name found in CPUID's hypervisor leaf, or a hw.model without "mac"; are *)
(* Hyper-V's guest leaves filled.  Only the last two trap: a hypervisor    *)
(* that announces itself and lets RDTSC run is found by CPUID alone.       *)
AllKinds == {"bare", "hypervRoot", "hypervGuest", "announced", "nameless",
             "renamed", "silent", "loud", "trapping"}
Traps(k)         == k \in {"loud", "trapping"}
HypervisorBit(k) ==
  k \in {"hypervRoot", "hypervGuest", "announced", "nameless", "loud"}
HypervisorLeaf(k) ==
  CASE k \in {"hypervRoot", "hypervGuest"} -> "Microsoft Hv"
    [] k \in {"announced", "renamed", "loud"} -> "KVMKVMKVM"
    [] OTHER -> ""
GuestLeaves(k)   == k = "hypervGuest"
IsVM(k)          == k \notin {"bare", "hypervRoot"}

ASSUME VMAssumption ==
  /\ Threads # {}
  /\ RUNS \in Nat \ {0}
  /\ THRESHOLD \in Nat /\ MaxNoise \in Nat
  /\ MaxCycles \in Nat /\ THRESHOLD <= MaxCycles
  /\ Word \in Nat /\ Wide \in Nat /\ Word <= Wide
  /\ Starts \subseteq 0 .. Word - 1
  /\ Fast \subseteq 1 .. THRESHOLD
  /\ Slow \subseteq THRESHOLD + 1 .. MaxCycles
  /\ Serialised \in BOOLEAN
  /\ Arm64 \in BOOLEAN
  /\ Unmeasured \notin BOOLEAN
  /\ Kinds \subseteq AllKinds \ IF Arm64 THEN {"hypervRoot", "hypervGuest"} ELSE {}

\* The counter wraps at most once in a measurement (2^32 cycles take over a
\* second, 1024 trapped samples a few million cycles), and a wrap and the noise
\* together stay below half of the samples.
ASSUME MeasurementAssumption ==
  /\ RUNS * MaxCycles < Word
  /\ Word < Wide => Wide - Word > THRESHOLD
  /\ MaxNoise + 1 <= RUNS \div 2
  /\ MaxNoise < RUNS - RUNS \div 2

Stores == {"finished", "ret"}
\* tsc: the counter at the next reading (not yet truncated); odd: untypical
\* samples so far; i and crossings: the locals of the loop.
Measurement == [i : 0 .. RUNS, crossings : 0 .. RUNS, odd : 0 .. MaxNoise,
                tsc : 0 .. 2 * Word]
Unused == [i |-> 0, crossings |-> 0, odd |-> 0, tsc |-> 0]

TypeOK ==
  /\ kind \in Kinds
  /\ finished \in BOOLEAN /\ ret \in BOOLEAN
  /\ pending \in [Threads -> SUBSET Stores]
  /\ mine \in [Threads -> BOOLEAN]
  /\ pc \in [Threads -> {"host", "check", "measure", "return"}]
  /\ call \in [Threads -> {"timing", "suspect"}]
  /\ m \in [Threads -> Measurement]
  /\ timed \in [Threads -> SUBSET BOOLEAN]
  /\ suspected \in [Threads -> SUBSET BOOLEAN]

Init ==
  /\ kind \in Kinds
  /\ finished = FALSE /\ ret = FALSE
  /\ pending = [t \in Threads |-> {}]
  /\ mine = [t \in Threads |-> FALSE]
  /\ pc = [t \in Threads |-> "host"]
  /\ call = [t \in Threads |-> "timing"]
  /\ m = [t \in Threads |-> Unused]
  /\ timed = [t \in Threads |-> {}]
  /\ suspected = [t \in Threads |-> {}]

SeesFinished(t) == finished \/ "finished" \in pending[t]
SeesRet(t)      == IF "ret" \in pending[t] THEN mine[t] ELSE ret

-----------------------------------------------------------------------------
(* The hypervisor's own word, and IsSuspectedVM given what                 *)
(* HasVMExecutionTiming answered.                                          *)
GetHypervisorName(k) ==
  IF Arm64 \/ HypervisorBit(k) THEN HypervisorLeaf(k) ELSE ""

IsHyperVGuestOS(k) ==
  ~Arm64 /\ GetHypervisorName(k) = "Microsoft Hv" /\ GuestLeaves(k)

\* Mutations: the root partition of Hyper-V is forgotten; the bit is not looked
\* at; neither the bit nor the name is.
SuspectsRootPartition(k, timing) == timing \/ HypervisorBit(k)
ForgetsBit(k, timing) ==
  timing \/ IsHyperVGuestOS(k) \/ (Arm64 /\ GetHypervisorName(k) # "")
IgnoresName(k, timing) == timing \/ IsHyperVGuestOS(k)

IsSuspectedVM(k, timing) ==
  \/ timing
  \/ IsHyperVGuestOS(k)
  \/ IF Arm64
     THEN HypervisorBit(k) \/ GetHypervisorName(k) # ""
     ELSE HypervisorBit(k) /\ GetHypervisorName(k) # "Microsoft Hv"

(* GetTimingCycles, when the counter is at c and the second reading is     *)
(* taken d cycles later: time2 - time1 in size_t arithmetic.               *)
Low(c) == c % Word

GetTimingCycles(c, d) ==
  IF Low(c + d) >= Low(c) THEN Low(c + d) - Low(c)
                          ELSE Wide + Low(c + d) - Low(c)

-----------------------------------------------------------------------------
\* The host calls HasVMExecutionTiming or IsSuspectedVM, whose first act is to
\* call the former.
Call(t, f) ==
  /\ pc[t] = "host"
  /\ Serialised => \A u \in Threads : pc[u] = "host" /\ pending[u] = {}
  /\ pc' = [pc EXCEPT ![t] = "check"]
  /\ call' = [call EXCEPT ![t] = f]
  /\ UNCHANGED <<kind, finished, ret, pending, mine, m, timed, suspected>>

\* Mutations: the static is not tested; the static is not set.
MeasureAlways(t) ==
  /\ pc[t] = "check"
  /\ pc' = [pc EXCEPT ![t] = "measure"]
  /\ pending' = [pending EXCEPT ![t] = @ \cup {"finished"}]
  /\ m' \in {[m EXCEPT ![t] = [Unused EXCEPT !.tsc = s]] : s \in Starts}
  /\ UNCHANGED <<kind, finished, ret, mine, call, timed, suspected>>

MeasureUnmarked(t) ==
  /\ pc[t] = "check"
  /\ ~SeesFinished(t)
  /\ pc' = [pc EXCEPT ![t] = "measure"]
  /\ m' \in {[m EXCEPT ![t] = [Unused EXCEPT !.tsc = s]] : s \in Starts}
  /\ UNCHANGED <<kind, finished, ret, pending, mine, call, timed, suspected>>

\* if (_finished) is false: _finished = true; the loop starts.
BeginMeasure(t) ==
  /\ pc[t] = "check"
  /\ ~SeesFinished(t)
  /\ pc' = [pc EXCEPT ![t] = "measure"]
  /\ pending' = [pending EXCEPT ![t] = @ \cup {"finished"}]
  /\ m' \in {[m EXCEPT ![t] = [Unused EXCEPT !.tsc = s]] : s \in Starts}
  /\ UNCHANGED <<kind, finished, ret, mine, call, timed, suspected>>

Typical(d) == d \in IF Traps(kind) THEN Slow ELSE Fast

\* Mutation: a sample at the threshold counts.
SampleOffByOne(t) ==
  /\ pc[t] = "measure"
  /\ m[t].i < RUNS
  /\ \E d \in Fast \cup Slow :
       LET odd == m[t].odd + IF Typical(d) THEN 0 ELSE 1 IN
         /\ odd <= MaxNoise
         /\ m' = [m EXCEPT ![t] =
                   [i |-> @.i + 1, odd |-> odd, tsc |-> @.tsc + d,
                    crossings |-> @.crossings +
                      IF GetTimingCycles(@.tsc, d) >= THRESHOLD THEN 1 ELSE 0]]
  /\ UNCHANGED <<kind, finished, ret, pending, mine, pc, call, timed, suspected>>

\* One turn of the loop.
Sample(t) ==
  /\ pc[t] = "measure"
  /\ m[t].i < RUNS
  /\ \E d \in Fast \cup Slow :
       LET odd == m[t].odd + IF Typical(d) THEN 0 ELSE 1 IN
         /\ odd <= MaxNoise
         /\ m' = [m EXCEPT ![t] =
                   [i |-> @.i + 1, odd |-> odd, tsc |-> @.tsc + d,
                    crossings |-> @.crossings +
                      IF GetTimingCycles(@.tsc, d) > THRESHOLD THEN 1 ELSE 0]]
  /\ UNCHANGED <<kind, finished, ret, pending, mine, pc, call, timed, suspected>>

\* Mutation: every sample has to cross.
StoreAllCrossings(t) ==
  /\ pc[t] = "measure"
  /\ m[t].i = RUNS
  /\ pc' = [pc EXCEPT ![t] = "return"]
  /\ mine' = [mine EXCEPT ![t] = m[t].crossings = RUNS]
  /\ pending' = [pending EXCEPT ![t] = @ \cup {"ret"}]
  /\ m' = [m EXCEPT ![t] = Unused]
  /\ UNCHANGED <<kind, finished, ret, call, timed, suspected>>

\* _ret = thresholdCrossings > (RUNS / 2).
Store(t) ==
  /\ pc[t] = "measure"
  /\ m[t].i = RUNS
  /\ pc' = [pc EXCEPT ![t] = "return"]
  /\ mine' = [mine EXCEPT ![t] = m[t].crossings > RUNS \div 2]
  /\ pending' = [pending EXCEPT ![t] = @ \cup {"ret"}]
  /\ m' = [m EXCEPT ![t] = Unused]
  /\ UNCHANGED <<kind, finished, ret, call, timed, suspected>>

\* return _ret, after the loop or at once; IsSuspectedVM goes on to CPUID.
Return(t) ==
  /\ \/ pc[t] = "return"
     \/ pc[t] = "check" /\ SeesFinished(t)
  /\ pc' = [pc EXCEPT ![t] = "host"]
  /\ timed' = [timed EXCEPT ![t] = @ \cup {SeesRet(t)}]
  /\ suspected' = [suspected EXCEPT ![t] = @ \cup
       IF call[t] = "suspect" THEN {IsSuspectedVM(kind, SeesRet(t))} ELSE {}]
  /\ UNCHANGED <<kind, finished, ret, pending, mine, call, m>>

\* A store reaches memory.
DrainFinished(t) ==
  /\ "finished" \in pending[t]
  /\ pending' = [pending EXCEPT ![t] = @ \ {"finished"}]
  /\ finished' = TRUE
  /\ UNCHANGED <<kind, ret, mine, pc, call, m, timed, suspected>>

DrainRet(t) ==
  /\ "ret" \in pending[t]
  /\ pending' = [pending EXCEPT ![t] = @ \ {"ret"}]
  /\ ret' = mine[t]
  /\ UNCHANGED <<kind, finished, mine, pc, call, m, timed, suspected>>

HasVMExecutionTiming(t) ==
  BeginMeasure(t) \/ Sample(t) \/ Store(t) \/ Return(t)

Drain(t) == DrainFinished(t) \/ DrainRet(t)

Next ==
  \E t \in Threads :
    \/ \E f \in {"timing", "suspect"} : Call(t, f)
    \/ HasVMExecutionTiming(t)
    \/ Drain(t)

Spec == Init /\ [][Next]_vars

\* A call in progress runs on and a store reaches memory in the end.
Fairness ==
  \A t \in Threads : WF_vars(HasVMExecutionTiming(t)) /\ WF_vars(Drain(t))

FairSpec == Spec /\ Fairness

-----------------------------------------------------------------------------
\* However the calls overlap, wherever the counter wraps and whichever samples
\* are disturbed: TRUE is never said of a machine that does not trap, and a
\* bare machine, the root partition of Hyper-V included, is never suspected.
NeverFalseAlarm ==
  \A t \in Threads :
    /\ TRUE \in timed[t] => Traps(kind)
    /\ TRUE \in suspected[t] => IsVM(kind)

\* A host that serialises its calls is told the truth every time: about the
\* timing, and about every machine that shows any sign at all.  (On x86 a name
\* without the hypervisor bit is no sign: the leaf is not even read.)
Signless == {"bare", "hypervRoot", "silent"} \cup IF Arm64 THEN {} ELSE {"renamed"}
SerialVerdict ==
  \A t \in Threads :
    /\ timed[t] \subseteq {Traps(kind)}
    /\ suspected[t] \subseteq {kind \notin Signless}

\* When no measurement is under way or on its way to memory, the statics hold
\* the right verdict: the early _finished hides a missing one only so long.
Settled ==
  /\ finished
  /\ \A t \in Threads : pc[t] \notin {"measure", "return"} /\ pending[t] = {}
SettledIsRight == Settled => ret = Traps(kind)

\* Every measurement begun leads there, for good.
VerdictSettles == (\E t \in Threads : pc[t] = "measure") ~> []Settled

\* With serialised calls the pair of statics is a write-once cell, although it
\* claims to be filled before it is.
Measured == /\ finished \/ \E t \in Threads : "finished" \in pending[t]
            /\ \A t \in Threads : pc[t] # "measure"
Latest == IF \E t \in Threads : "ret" \in pending[t]
          THEN mine[CHOOSE t \in Threads : "ret" \in pending[t]]
          ELSE ret
Once == INSTANCE WriteOnce WITH
          Values  <- BOOLEAN,
          Default <- Unmeasured,
          MayMiss <- FALSE,
          value   <- IF Measured THEN Latest ELSE Unmeasured,
          answers <- timed
ImplementsWriteOnce == Once!Spec
=============================================================================
