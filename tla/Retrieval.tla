------------------------------ MODULE Retrieval ------------------------------
(***************************************************************************)
(* RetrievePDMData (src/pdm.cpp) called by several threads of a host, and  *)
(* what the host then reads through the reference it returns.              *)
(*                                                                         *)
(* The function keeps a static report `data` and a plain bool `hasData`    *)
(* and takes no lock.  `data = GatherData(...)` is a member-wise move, and *)
(* nothing orders its stores and the store to hasData for other threads    *)
(* (the macOS build targets arm64, and the compiler may reorder them): the *)
(* stores of a thread stay in pending[t], visible to t alone, and reach    *)
(* memory one by one in any order.                                         *)
(*                                                                         *)
(* A report is abstracted to which gathering made it and for which         *)
(* application name; of PDMData's two members, `tree` is PDMData::data and *)
(* `stamp` is PDMData::timestamp.                                          *)
(***************************************************************************)
EXTENDS Naturals

CONSTANTS
  Threads,     \* threads of the host
  Apps,        \* application names they pass
  MaxThrows,   \* bound: how often GatherData may throw
  Serialised,  \* TRUE: the host never lets two calls overlap (it holds a lock)
  Empty,       \* a member of the default-constructed static
  Torn         \* what a read that overlaps a store to the same member yields

VARIABLES
  data,        \* the static report, as memory holds it
  hasData,     \* the static flag, as memory holds it
  pending,     \* pending[t]: stores of t that have not reached memory
  pc,          \* where each thread is
  app,         \* app[t]: the argument of t's current or last call
  local,       \* local[t]: the report t gathered last
  runs,        \* gatherings begun
  throws,      \* gatherings that threw
  holding,     \* holding[t]: t has been given the reference
  draft,       \* draft[t]: the tree member of the copy t is making
  copies       \* copies[t]: every copy of the report that t has made

vars == <<data, hasData, pending, pc, app, local, runs, throws, holding,
          draft, copies>>

Members == {"tree", "stamp"}
Stores  == Members \cup {"hasData"}
Reports == [app : Apps, run : Nat \ {0}]
Whole(r) == [m \in Members |-> r]

ASSUME RetrievalAssumption ==
  /\ Threads # {}
  /\ MaxThrows \in Nat
  /\ Serialised \in BOOLEAN
  /\ Empty \notin Reports
  /\ Torn \notin Reports
  /\ Torn # Empty

TypeOK ==
  /\ data \in [Members -> Reports \cup {Empty}]
  /\ hasData \in BOOLEAN
  /\ pending \in [Threads -> SUBSET Stores]
  /\ pc \in [Threads -> {"host", "check", "gather", "copy"}]
  /\ app \in [Threads -> Apps]
  /\ local \in [Threads -> Reports \cup {Empty}]
  /\ runs \in Nat
  /\ throws \in 0 .. MaxThrows
  /\ holding \in [Threads -> BOOLEAN]
  /\ draft \in [Threads -> Reports \cup {Empty, Torn}]
  /\ copies \in [Threads -> SUBSET [Members -> Reports \cup {Empty, Torn}]]

Init ==
  /\ data = Whole(Empty)
  /\ hasData = FALSE
  /\ pending = [t \in Threads |-> {}]
  /\ pc = [t \in Threads |-> "host"]
  /\ app \in [Threads -> Apps]
  /\ local = [t \in Threads |-> Empty]
  /\ runs = 0
  /\ throws = 0
  /\ holding = [t \in Threads |-> FALSE]
  /\ draft = [t \in Threads |-> Empty]
  /\ copies = [t \in Threads |-> {}]

\* A thread reads its own stores before they reach memory.
View(t, m) == IF m \in pending[t] THEN local[t] ELSE data[m]
SeesData(t) == hasData \/ "hasData" \in pending[t]

Inside(t) == pc[t] \in {"check", "gather"}

-----------------------------------------------------------------------------
\* The host calls RetrievePDMData(a, _).  A host that serialises its calls
\* takes a lock, and taking it publishes the stores made under it before.
Call(t, a) ==
  /\ pc[t] = "host"
  /\ Serialised => \A u \in Threads : ~Inside(u) /\ pending[u] = {}
  /\ pc' = [pc EXCEPT ![t] = "check"]
  /\ app' = [app EXCEPT ![t] = a]
  /\ UNCHANGED <<data, hasData, pending, local, runs, throws, holding, draft,
                 copies>>

\* if (!hasData) is false: return data.
ReturnCached(t) ==
  /\ pc[t] = "check"
  /\ SeesData(t)
  /\ pc' = [pc EXCEPT ![t] = "host"]
  /\ holding' = [holding EXCEPT ![t] = TRUE]
  /\ UNCHANGED <<data, hasData, pending, app, local, runs, throws, draft,
                 copies>>

\* Mutations of BeginGather: the flag is raised before the gathering (which may
\* still throw); the test of the flag is lost.
FlagBeforeGather(t) ==
  /\ pc[t] = "check"
  /\ ~SeesData(t)
  /\ pc' = [pc EXCEPT ![t] = "gather"]
  /\ runs' = runs + 1
  /\ local' = [local EXCEPT ![t] = [app |-> app[t], run |-> runs + 1]]
  /\ hasData' = TRUE
  /\ UNCHANGED <<data, pending, app, throws, holding, draft, copies>>

GatherWithoutTest(t) ==
  /\ pc[t] = "check"
  /\ pc' = [pc EXCEPT ![t] = "gather"]
  /\ runs' = runs + 1
  /\ local' = [local EXCEPT ![t] = [app |-> app[t], run |-> runs + 1]]
  /\ UNCHANGED <<data, hasData, pending, app, throws, holding, draft, copies>>

\* if (!hasData) is true: GatherData starts, taking its time stamp first.
BeginGather(t) ==
  /\ pc[t] = "check"
  /\ ~SeesData(t)
  /\ pc' = [pc EXCEPT ![t] = "gather"]
  /\ runs' = runs + 1
  /\ local' = [local EXCEPT ![t] = [app |-> app[t], run |-> runs + 1]]
  /\ UNCHANGED <<data, hasData, pending, app, throws, holding, draft, copies>>

\* GatherData throws: neither static is touched, the next call gathers again.
GatherThrows(t) ==
  /\ pc[t] = "gather"
  /\ throws < MaxThrows
  /\ throws' = throws + 1
  /\ pc' = [pc EXCEPT ![t] = "host"]
  /\ UNCHANGED <<data, hasData, pending, app, local, runs, holding, draft,
                 copies>>

\* Mutation of Assign: the flag is never raised.
AssignWithoutFlag(t) ==
  /\ pc[t] = "gather"
  /\ pending' = [pending EXCEPT ![t] = Members]
  /\ pc' = [pc EXCEPT ![t] = "host"]
  /\ holding' = [holding EXCEPT ![t] = TRUE]
  /\ UNCHANGED <<data, hasData, app, local, runs, throws, draft, copies>>

\* data = GatherData(...); hasData = true; return data.
Assign(t) ==
  /\ pc[t] = "gather"
  /\ pending' = [pending EXCEPT ![t] = Stores]
  /\ pc' = [pc EXCEPT ![t] = "host"]
  /\ holding' = [holding EXCEPT ![t] = TRUE]
  /\ UNCHANGED <<data, hasData, app, local, runs, throws, draft, copies>>

\* The store of a member reaches memory; it destroys what the member held, so
\* a thread in the middle of reading the tree reads freed memory.
DrainMember(t, m) ==
  /\ m \in pending[t]
  /\ pending' = [pending EXCEPT ![t] = @ \ {m}]
  /\ data' = [data EXCEPT ![m] = local[t]]
  /\ draft' = [u \in Threads |->
                 IF m = "tree" /\ u # t /\ pc[u] = "copy" THEN Torn ELSE draft[u]]
  /\ UNCHANGED <<hasData, pc, app, local, runs, throws, holding, copies>>

\* The store to hasData reaches memory.
DrainFlag(t) ==
  /\ "hasData" \in pending[t]
  /\ pending' = [pending EXCEPT ![t] = @ \ {"hasData"}]
  /\ hasData' = TRUE
  /\ UNCHANGED <<data, pc, app, local, runs, throws, holding, draft, copies>>

\* A holder copies the report (auto metrics = RetrievePDMData(...)) or prints
\* it: it walks the tree ...
BeginCopy(t) ==
  /\ pc[t] = "host"
  /\ holding[t]
  /\ pc' = [pc EXCEPT ![t] = "copy"]
  /\ draft' = [draft EXCEPT ![t] = View(t, "tree")]
  /\ UNCHANGED <<data, hasData, pending, app, local, runs, throws, holding,
                 copies>>

\* ... and then reads the time stamp.
EndCopy(t) ==
  /\ pc[t] = "copy"
  /\ pc' = [pc EXCEPT ![t] = "host"]
  /\ copies' = [copies EXCEPT ![t] = @ \cup
                  {[Whole(draft[t]) EXCEPT !.stamp = View(t, "stamp")]}]
  /\ UNCHANGED <<data, hasData, pending, app, local, runs, throws, holding,
                 draft>>

Retrieve(t) ==
  ReturnCached(t) \/ BeginGather(t) \/ GatherThrows(t) \/ Assign(t)

Drain(t) == DrainFlag(t) \/ \E m \in Members : DrainMember(t, m)

Next ==
  \E t \in Threads :
    \/ \E a \in Apps : Call(t, a)
    \/ Retrieve(t)
    \/ Drain(t)
    \/ BeginCopy(t)
    \/ EndCopy(t)

Spec == Init /\ [][Next]_vars

\* A call in progress runs on and a store reaches memory in the end; nobody
\* has to call, and nobody has to read.
Fairness == \A t \in Threads : WF_vars(Retrieve(t)) /\ WF_vars(Drain(t))

FairSpec == Spec /\ Fairness

-----------------------------------------------------------------------------
(* The promise to a host that serialises its calls.                        *)

\* Every copy anyone ever makes, through whichever call's reference and
\* whichever name it passed, is the same complete report: one gathering, tree
\* and stamp alike (Tests.cpp: GetEqualMetrics, CanGetMetrics).
OneReport ==
  \A t, u \in Threads : \A x \in copies[t], y \in copies[u] :
    x = y /\ x.tree = x.stamp /\ x.tree \in Reports

\* What a holder sees through its reference never changes under it.
ReferenceStable ==
  [][\A t \in Threads : holding[t] =>
       /\ holding'[t]
       /\ \A m \in Members : View(t, m)' = View(t, m)]_vars

\* Why: there is one writer, it alone holds the reference until its stores
\* are in memory, and nothing is handed out before it.
Unpublished ==
  /\ data = Whole(Empty)
  /\ ~hasData
  /\ \A t \in Threads :
       pending[t] = {} /\ ~holding[t] /\ pc[t] # "copy" /\ copies[t] = {}
Published(r) ==
  /\ r # Empty
  /\ hasData \/ \E t \in Threads : "hasData" \in pending[t]
  /\ \A m \in Members : data[m] = r \/ \E t \in Threads : m \in pending[t]
  /\ \A t \in Threads :
       /\ pc[t] # "gather"
       /\ pc[t] = "copy" => holding[t] /\ draft[t] = r
       /\ copies[t] \subseteq {Whole(r)}
       /\ pending[t] # {} =>
            /\ local[t] = r
            /\ \A u \in Threads \ {t} : pending[u] = {} /\ ~holding[u]
Exclusive ==
  /\ \A t, u \in Threads : Inside(t) => (Inside(u) => t = u) /\ pending[u] = {}
  /\ \A t \in Threads : pc[t] = "gather" => local[t] # Empty
SerialisedInv ==
  /\ Exclusive
  /\ Unpublished \/ \E w \in Threads : Published(local[w])

\* The static is a write-once cell whose value is the latest store.
Latest(m) == IF \E t \in Threads : m \in pending[t]
             THEN local[CHOOSE t \in Threads : m \in pending[t]]
             ELSE data[m]
Once == INSTANCE WriteOnce WITH
          Values  <- {x \in [Members -> Reports] : x.tree = x.stamp},
          Default <- Whole(Empty),
          MayMiss <- FALSE,
          value   <- [m \in Members |-> Latest(m)],
          answers <- copies
ImplementsWriteOnce == Once!Spec

-----------------------------------------------------------------------------
(* What is left to a host that lets calls overlap.                         *)

\* A thread that has been given the report never gathers again, whatever the
\* other threads did to hasData meanwhile: at most one successful gathering a
\* thread.
HoldersNeverRegather ==
  \A t \in Threads : pc[t] = "gather" => ~holding[t] /\ pending[t] = {}

\* The window closes: once the flag is in memory, no gathering is under way
\* and no store is pending, the report is frozen for good and a call can only
\* return it.
Settled ==
  /\ hasData
  /\ \A t \in Threads : pc[t] # "gather" /\ pending[t] = {}
SettledIsFinal == [][Settled => Settled' /\ UNCHANGED data]_vars

\* And it does close: from the first reference handed out on, the system is
\* bound to settle for ever, so all holders end up looking at one report.
RaceWindowCloses == (\E t \in Threads : holding[t]) ~> []Settled
=============================================================================
