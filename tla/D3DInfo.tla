------------------------------ MODULE D3DInfo ------------------------------
(***************************************************************************)
(* GetD3DInfo (src/windows/d3d_info.cpp): the static description of the    *)
(* display adapters, their outputs and the highest Direct3D feature level, *)
(* filled by the first call that gets hold of DXGI.  GetGPUInfo,           *)
(* GetMonitorsInfo and GetD3DHighestSupport (windows_data.cpp) call it.    *)
(* Calls are made one at a time.                                           *)
(*                                                                         *)
(* The module follows what every path must give back (libraries, the       *)
(* factory, adapters, outputs) as well as what it collects.  A driver's    *)
(* answers are a topology, fixed while the process runs; an output is      *)
(* named by its place <<adapter, output>> in it.                           *)
(***************************************************************************)
EXTENDS Integers, Sequences

CONSTANTS
  Descs,        \* the values of a GPUInfo
  Topologies,   \* adapters the machine may have: sequences of records with
                \*   desc     its GPUInfo
                \*   basic    is it the Microsoft Basic Render Driver
                \*   level    level[api]: what a device of it supports, 0 if none
                \*   outputs  a sequence of [primary, modern]; modern: the
                \*            output implements IDXGIOutput6
  None          \* no output

VARIABLES
  topo,         \* the machine's adapters
  info,         \* the static info: level, adapters, monitors
  initialized,  \* the static flag
  pc,
  loaded,       \* libraries loaded and not yet freed
  have,         \* APIs whose CreateDevice was found
  factory,      \* is the DXGI factory alive
  a, o,         \* locals count and index: adapters and outputs asked for
  pOutput,      \* the output the smart pointer owns
  refs,         \* refs[i]: references to adapter i handed out by EnumAdapters
  leaked,       \* outputs whose reference was lost
  answers,      \* what the calls returned, and whether it had been filled
  thrown        \* has the enumeration ended in an exception

locals  == <<a, o, pOutput>>
vars == <<topo, info, initialized, pc, loaded, have, factory, locals, refs,
          leaked, answers, thrown>>

Apis    == {"d3d11", "d3d12"}
Modules == Apis \cup {"dxgi"}

Display == [primary : BOOLEAN, modern : BOOLEAN]
Adapter == [desc : Descs, basic : BOOLEAN, level : [Apis -> Nat],
            outputs : Seq(Display)]

ASSUME D3DAssumption == Topologies \subseteq Seq(Adapter)

Real(i)   == i \in DOMAIN topo /\ ~topo[i].basic
Output(x) == topo[x[1]].outputs[x[2]]
Outputs   == UNION {{<<i, k>> : k \in DOMAIN topo[i].outputs} :
                      i \in {n \in DOMAIN topo : Real(n)}}

Nothing == [level |-> 0, adapters |-> <<>>, monitors |-> <<>>]

TypeOK ==
  /\ topo \in Topologies
  /\ info \in [level : Nat, adapters : Seq(Descs), monitors : Seq(Outputs)]
  /\ initialized \in BOOLEAN
  /\ pc \in {"host", "load", "entry", "factory", "adapter", "outputs", "driver",
             "exit", "free"}
  /\ loaded \subseteq Modules /\ have \subseteq Apis
  /\ factory \in BOOLEAN
  /\ a \in 0 .. Len(topo) + 1
  /\ o \in Nat
  /\ pOutput = None \/ pOutput \in Outputs
  /\ refs \in [DOMAIN topo -> Nat]
  /\ leaked \subseteq Outputs
  /\ thrown \in BOOLEAN

Init ==
  /\ topo \in Topologies
  /\ info = Nothing
  /\ initialized = FALSE
  /\ pc = "host"
  /\ loaded = {} /\ have = {} /\ factory = FALSE
  /\ a = 0 /\ o = 0 /\ pOutput = None
  /\ refs = [i \in DOMAIN topo |-> 0]
  /\ leaked = {}
  /\ answers = {}
  /\ thrown = FALSE

-----------------------------------------------------------------------------
\* GetD3DHighestSupport or, unless under Wine, GetGPUInfo or GetMonitorsInfo:
\* if (initialized) return info; else SetDPIScalingAware and go on.
Call ==
  /\ pc = "host"
  /\ IF initialized
     THEN /\ answers' = answers \cup {[filled |-> TRUE, info |-> info]}
          /\ UNCHANGED pc
     ELSE /\ pc' = "load"
          /\ UNCHANGED answers
  /\ UNCHANGED <<topo, info, initialized, loaded, have, factory, locals, refs,
                 leaked, thrown>>

\* LoadLibrary of dxgi.dll, and if that worked of d3d11.dll and d3d12.dll.
LoadLibraries ==
  /\ pc = "load"
  /\ \/ pc' = "exit" /\ UNCHANGED loaded
     \/ pc' = "entry" /\ loaded' \in {{"dxgi"} \cup l : l \in SUBSET Apis}
  /\ UNCHANGED <<topo, info, initialized, have, factory, locals, refs, leaked,
                 answers, thrown>>

\* Mutation: a return that is not covered by the scope exit.
EntryPointsReturnAtOnce ==
  /\ pc = "entry"
  /\ have' \in SUBSET (loaded \cap Apis)
  /\ pc' \in IF have' = {} THEN {"host"} ELSE {"host", "factory"}
  /\ UNCHANGED <<topo, info, initialized, loaded, factory, locals, refs, leaked,
                 answers, thrown>>

\* GetProcAddress of CreateDXGIFactory and of the CreateDevice functions.
FindEntryPoints ==
  /\ pc = "entry"
  /\ have' \in SUBSET (loaded \cap Apis)
  /\ pc' \in IF have' = {} THEN {"exit"} ELSE {"exit", "factory"}
  /\ UNCHANGED <<topo, info, initialized, loaded, factory, locals, refs, leaked,
                 answers, thrown>>

\* Mutation: the flag is not set.
FactoryWithoutFlag ==
  /\ pc = "factory"
  /\ \/ /\ pc' = "exit"
        /\ UNCHANGED <<factory, a>>
     \/ /\ pc' = "adapter"
        /\ factory' = TRUE
        /\ a' = 0
  /\ UNCHANGED <<topo, info, initialized, loaded, have, o, pOutput, refs, leaked,
                 answers, thrown>>

\* CreateDXGIFactory; initialized = true comes before the enumeration.
CreateFactory ==
  /\ pc = "factory"
  /\ \/ /\ pc' = "exit"
        /\ UNCHANGED <<initialized, factory, a>>
     \/ /\ pc' = "adapter"
        /\ initialized' = TRUE
        /\ factory' = TRUE
        /\ a' = 0
  /\ UNCHANGED <<topo, info, loaded, have, o, pOutput, refs, leaked, answers,
                 thrown>>

\* Mutation: the last device's level counts, not the highest.
RaiseToLast(level, i, api) == IF api \in have THEN topo[i].level[api] ELSE level

\* maxSupportedFeatureLevel after a device of each available API was created at
\* the highest level it supports: Direct3D 12 first, then 11.
Raise(level, i, api) ==
  IF api \in have /\ topo[i].level[api] > level THEN topo[i].level[api] ELSE level

\* Mutation: the render driver is skipped without counting it.
SkipUncounted ==
  /\ pc = "adapter"
  /\ IF a + 1 \notin DOMAIN topo
     THEN /\ pc' = "exit"
          /\ UNCHANGED <<info, a, o, refs>>
     ELSE IF topo[a + 1].basic
          THEN UNCHANGED <<info, a, o, refs, pc>>
          ELSE /\ pc' = "outputs"
               /\ a' = a + 1
               /\ refs' = [refs EXCEPT ![a'] = @ + 1]
               /\ info' = [info EXCEPT !.level =
                    Raise(Raise(@, a', "d3d12"), a', "d3d11")]
               /\ o' = 0
  /\ UNCHANGED <<topo, initialized, loaded, have, factory, pOutput, leaked,
                 answers, thrown>>

\* EnumAdapters(count++): the end of the list, the basic render driver, or an
\* adapter whose devices are tried.
NextAdapter ==
  /\ pc = "adapter"
  /\ a' = a + 1
  /\ IF a' \notin DOMAIN topo
     THEN /\ pc' = "exit"
          /\ UNCHANGED <<info, o, refs>>
     ELSE /\ refs' = [refs EXCEPT ![a'] = @ + 1]
          /\ IF topo[a'].basic
             THEN UNCHANGED <<info, o, pc>>
             ELSE /\ pc' = "outputs"
                  /\ info' = [info EXCEPT !.level =
                       Raise(Raise(@, a', "d3d12"), a', "d3d11")]
                  /\ o' = 0
  /\ UNCHANGED <<topo, initialized, loaded, have, factory, pOutput, leaked,
                 answers, thrown>>

Overwritten == leaked \cup ({pOutput} \ {None})

\* GetMonitorBPC takes the pointer by reference and gives the output up if it
\* is an IDXGIOutput6.  (Mutation: it takes a copy.)
BPCOfCopy(x) == x
GetMonitorBPC(x) == IF Output(x).modern THEN None ELSE x

\* Always have primary monitor first.  (Mutation: have it where DXGI has it.)
ListInOrder(list, x) == Append(list, x)
List(list, x) == IF Output(x).primary THEN <<x>> \o list ELSE Append(list, x)

\* EnumOutputs(index++, &pOutput) finds an output: it overwrites the pointer,
\* and the monitor is described and listed.
NextOutput ==
  /\ pc = "outputs"
  /\ o + 1 \in DOMAIN topo[a].outputs
  /\ o' = o + 1
  /\ leaked' = Overwritten
  /\ LET x == <<a, o + 1>> IN
       /\ pOutput' = GetMonitorBPC(x)
       /\ info' = [info EXCEPT !.monitors = List(@, x)]
  /\ UNCHANGED <<topo, initialized, pc, loaded, have, factory, a, refs,
                 answers, thrown>>

\* EnumOutputs finds no more; DXGI may or may not clear the pointer.
LastOutput ==
  /\ pc = "outputs"
  /\ o + 1 \notin DOMAIN topo[a].outputs
  /\ o' = o + 1
  /\ pc' = "driver"
  /\ \/ pOutput' = None /\ leaked' = Overwritten
     \/ UNCHANGED <<pOutput, leaked>>
  /\ UNCHANGED <<topo, info, initialized, loaded, have, factory, a, refs,
                 answers, thrown>>

\* The adapter, with its driver's version, joins the list unless an equal one
\* is there; the smart pointer goes out of scope.
AddAdapter ==
  /\ pc = "driver"
  /\ pc' = "adapter"
  /\ pOutput' = None
  /\ info' = [info EXCEPT !.adapters =
       IF \E k \in DOMAIN @ : @[k] = topo[a].desc THEN @
       ELSE Append(@, topo[a].desc)]
  /\ UNCHANGED <<topo, initialized, loaded, have, factory, a, o, refs, leaked,
                 answers, thrown>>

\* A string or a vector cannot grow: while an adapter just handed out is named,
\* while an output just handed out is described, or while the driver's version is
\* looked up.  The exception leaves through the scope exits, and the pointer to
\* the output with them; initialized stays true.
Throw ==
  /\ \/ /\ pc = "adapter" /\ a + 1 \in DOMAIN topo
        /\ a' = a + 1
        /\ refs' = [refs EXCEPT ![a'] = @ + 1]
        /\ UNCHANGED leaked
     \/ /\ pc = "outputs" /\ o + 1 \in DOMAIN topo[a].outputs
        /\ leaked' = Overwritten
        /\ UNCHANGED <<a, refs>>
     \/ pc = "driver" /\ UNCHANGED <<a, refs, leaked>>
  /\ thrown' = TRUE
  /\ pc' = "exit"
  /\ pOutput' = None
  /\ UNCHANGED <<topo, info, initialized, loaded, have, factory, o, answers>>

\* Mutation: the factory is left to its destructor, after the libraries.
FactoryAfterLibraries ==
  /\ pc = "exit"
  /\ pc' = "free"
  /\ UNCHANGED <<topo, info, initialized, loaded, have, factory, locals, refs,
                 leaked, answers, thrown>>

\* SCOPE_EXIT, on every way out: the factory first ...
ReleaseFactory ==
  /\ pc = "exit"
  /\ pc' = "free"
  /\ factory' = FALSE
  /\ UNCHANGED <<topo, info, initialized, loaded, have, locals, refs, leaked,
                 answers, thrown>>

\* ... then the libraries, DXGI's last.
FreeLibrary(m) ==
  /\ pc = "free"
  /\ m \in loaded
  /\ CASE m = "d3d11" -> TRUE
       [] m = "d3d12" -> "d3d11" \notin loaded
       [] m = "dxgi"  -> loaded \cap Apis = {}
  /\ loaded' = loaded \ {m}
  /\ UNCHANGED <<topo, info, initialized, pc, have, factory, locals, refs,
                 leaked, answers, thrown>>

\* return info, unless an exception is on its way out.  (It is the last call to
\* come here then: initialized is set.)
Return ==
  /\ pc = "free"
  /\ loaded = {}
  /\ pc' = "host"
  /\ answers' = IF thrown THEN answers
                ELSE answers \cup {[filled |-> initialized, info |-> info]}
  /\ UNCHANGED <<topo, info, initialized, loaded, have, factory, locals, refs,
                 leaked, thrown>>

Enumerate == NextAdapter \/ NextOutput \/ LastOutput \/ AddAdapter
Leave == ReleaseFactory \/ Return \/ \E m \in Modules : FreeLibrary(m)
Run == LoadLibraries \/ FindEntryPoints \/ CreateFactory \/ Enumerate \/ Leave
Next == Call \/ Run \/ Throw

Spec == Init /\ [][Next]_vars

\* A call in progress runs on; nobody has to call, and nothing has to throw.
FairSpec == Spec /\ WF_vars(Run)

-----------------------------------------------------------------------------
\* The objects of DXGI that are alive, by their place: <<>> is the factory, <<i>>
\* an adapter, <<i, k>> one of its outputs.
Alive == (IF factory THEN {<<>>} ELSE {})
         \cup {<<i>> : i \in {n \in DOMAIN refs : refs[n] > 0}}
         \cup Overwritten

\* Those the code has no release for: adapters, and outputs that GetMonitorBPC
\* does not give up.
Lost == {<<i>> : i \in DOMAIN topo} \cup {x \in Outputs : ~Output(x).modern}

\* On whichever of its ways out, GetD3DInfo gives back the libraries, and DXGI's
\* only after the factory and the output it holds.  What outlives dxgi.dll is
\* what it has lost: adapters and old outputs, and nothing of a call that never
\* had a factory.
OnlyLostOutlive ==
  /\ pc = "host" => loaded = {}
  /\ "dxgi" \notin loaded => Alive \subseteq IF initialized THEN Lost ELSE {}

\* pAdapter is never released.  The leak is one reference an adapter in the
\* life of the process, whatever fails and is retried.
AdaptersLeakOnce == \A i \in DOMAIN refs : refs[i] <= 1

\* An output that implements IDXGIOutput6 is never lost.
ModernOutputsKept == \A x \in leaked : ~Output(x).modern

\* The comment at the call of GetMonitorBPC (d3d_info.cpp:393) says it destroys
\* the handle: the pointer is empty when the next output is asked for.
HandleDestroyed == pc = "outputs" => pOutput = None

\* At no moment is a monitor listed before the primary one (or, with a mirrored
\* desktop, the primary ones).
PrimaryFirst ==
  \A j, k \in DOMAIN info.monitors :
    j < k /\ Output(info.monitors[k]).primary => Output(info.monitors[j]).primary

\* What a complete enumeration has collected: the highest level of any API that
\* can be had, every output once, the others in DXGI's order, and every kind of
\* adapter once, in the order of their first appearance.
Before(x, y) == x[1] < y[1] \/ (x[1] = y[1] /\ x[2] < y[2])
Complete(x) ==
  /\ \A i \in DOMAIN topo, api \in have : Real(i) => topo[i].level[api] <= x.level
  /\ \/ x.level = 0
     \/ \E i \in DOMAIN topo, api \in have : Real(i) /\ topo[i].level[api] = x.level
  /\ {x.monitors[k] : k \in DOMAIN x.monitors} = Outputs
  /\ \A j, k \in DOMAIN x.monitors : j < k =>
       /\ x.monitors[j] # x.monitors[k]
       /\ Before(x.monitors[j], x.monitors[k]) \/ Output(x.monitors[j]).primary
  /\ {x.adapters[k] : k \in DOMAIN x.adapters}
       = {topo[i].desc : i \in {n \in DOMAIN topo : Real(n)}}
  /\ \A j, k \in DOMAIN x.adapters : j < k =>
       /\ x.adapters[j] # x.adapters[k]
       /\ \E i \in DOMAIN topo : /\ Real(i) /\ topo[i].desc = x.adapters[j]
                                /\ \A n \in 1 .. i : Real(n) => topo[n].desc # x.adapters[k]

\* Nobody is given half an enumeration unless an exception cut it short, and
\* who is told nothing is told the default.
AnswersComplete ==
  \A x \in answers : IF x.filled THEN thrown \/ Complete(x.info)
                                 ELSE x.info = Nothing

\* The static is a write-once cell whose failed computations are retried; an
\* exception fills it for good with what had been collected.
Miss == [filled |-> FALSE, info |-> Nothing]
Once == INSTANCE WriteOnce WITH
          Threads <- {"host"},
          Values  <- [filled : {TRUE},
                      info : [level : Nat, adapters : Seq(Descs),
                              monitors : Seq(Nat \X Nat)]],
          Default <- Miss,
          MayMiss <- TRUE,
          value   <- IF initialized /\ pc \in {"host", "free"}
                     THEN [filled |-> TRUE, info |-> info] ELSE Miss,
          answers <- [t \in {"host"} |-> answers]
ImplementsWriteOnce == Once!Spec

\* Every call returns.
CallReturns == pc # "host" ~> pc = "host"
=============================================================================
