--------------------------- MODULE D3DInfoProofs ---------------------------
(***************************************************************************)
(* Theorems about D3DInfo for every list of adapters and outputs: what the *)
(* function holds and gives back, and where the primary monitor is.        *)
(***************************************************************************)
EXTENDS D3DInfo, TLAPS

\* None is not an output, and what a topology is.
LEMMA TopologyFacts ==
  ASSUME NEW tp \in Topologies
  PROVE  /\ Len(tp) \in Nat /\ DOMAIN tp = 1 .. Len(tp)
         /\ \A i \in DOMAIN tp : /\ tp[i] \in Adapter
                                 /\ tp[i].basic \in BOOLEAN
                                 /\ tp[i].level \in [Apis -> Nat]
                                 /\ tp[i].outputs \in Seq(Display)
<1>1. tp \in Seq(Adapter)
  BY D3DAssumption
<1>2. \A i \in DOMAIN tp : tp[i] \in Adapter
  BY <1>1
<1> QED BY <1>1, <1>2 DEF Adapter

\* Where in a call what is held.
Enumerating == pc \in {"adapter", "outputs", "driver"}
HoldInv ==
  /\ pc \in {"host", "load"} => loaded = {}
  /\ pc \in {"entry", "factory"} => "dxgi" \in loaded
  /\ Enumerating => factory
  /\ factory => Enumerating \/ pc = "exit"
  /\ factory => "dxgi" \in loaded
  /\ pOutput # None => pc \in {"outputs", "driver"}

\* Which adapters have been asked for.
RefsInv ==
  /\ pc \in {"load", "entry", "factory"} => ~initialized
  /\ Enumerating => initialized
  /\ \A i \in DOMAIN topo :
       /\ refs[i] <= 1
       /\ ~initialized => refs[i] = 0
       /\ Enumerating /\ i > a => refs[i] = 0

\* The adapter being described exists, and is not the render driver.
PlaceInv ==
  /\ pc = "adapter" => a <= Len(topo)
  /\ pc \in {"outputs", "driver"} => Real(a)

Inv == TypeOK /\ PlaceInv /\ HoldInv /\ RefsInv

LEMMA InitInv == Init => Inv
<1> SUFFICES ASSUME Init PROVE Inv
  OBVIOUS
<1>1. Len(topo) \in Nat
  BY TopologyFacts DEF Init
<1>2. refs \in [DOMAIN topo -> Nat] /\ a \in 0 .. Len(topo) + 1
  BY <1>1 DEF Init, Nothing
<1>3. info \in [level : Nat, adapters : Seq(Descs), monitors : Seq(Outputs)]
  BY DEF Init, Nothing
<1>6. TypeOK
  BY <1>2, <1>3 DEF Init, TypeOK
<1>4. PlaceInv /\ HoldInv
  BY <1>1 DEF Init, PlaceInv, HoldInv, Enumerating
<1>5. RefsInv
  BY <1>2 DEF Init, RefsInv, Enumerating
<1> QED BY <1>6, <1>4, <1>5 DEF Inv

LEMMA RaiseType ==
  ASSUME topo \in Topologies, NEW i \in DOMAIN topo, NEW api \in Apis,
         NEW level \in Nat
  PROVE  Raise(level, i, api) \in Nat
<1>1. topo[i].level \in [Apis -> Nat]
  BY TopologyFacts
<1> QED BY <1>1 DEF Raise

LEMMA ListType ==
  ASSUME NEW list \in Seq(Outputs), NEW x \in Outputs
  PROVE  List(list, x) \in Seq(Outputs)
<1>1. Append(list, x) \in Seq(Outputs) /\ <<x>> \o list \in Seq(Outputs)
  OBVIOUS
<1> QED BY <1>1 DEF List

\* The driver's answers stay what they are.
LEMMA Fixed ==
  ASSUME [Next]_vars
  PROVE  topo' = topo /\ Outputs' = Outputs /\ \A i : Real(i)' = Real(i)
<1>1. topo' = topo
  BY DEF Next, Run, Enumerate, Leave, Call, LoadLibraries, FindEntryPoints, CreateFactory,
         NextAdapter, NextOutput, LastOutput, AddAdapter, Throw, ReleaseFactory,
         FreeLibrary, Return, vars
<1> QED BY <1>1 DEF Outputs, Real

LEMMA StepType ==
  ASSUME Inv, [Next]_vars
  PROVE  TypeOK' /\ PlaceInv'
<1> USE Fixed DEF Inv, TypeOK, PlaceInv
<1>0. Len(topo) \in Nat /\ DOMAIN topo = 1 .. Len(topo)
  BY TopologyFacts
<1>1. CASE Call
  BY <1>1 DEF Call, locals
<1>2. CASE LoadLibraries
  BY <1>2 DEF LoadLibraries, locals, Modules
<1>3. CASE FindEntryPoints
  BY <1>3 DEF FindEntryPoints, locals
<1>4. CASE CreateFactory
  <2>1. a' \in {a, 0} /\ 0 \in 0 .. Len(topo) + 1 /\ 0 <= Len(topo)
    BY <1>0, <1>4 DEF CreateFactory
  <2>2. a' \in 0 .. Len(topo) + 1
    BY <2>1
  <2>3. PlaceInv'
    BY <1>4, <2>1 DEF CreateFactory
  <2> QED BY <1>4, <2>2, <2>3 DEF CreateFactory
<1>5. CASE NextAdapter
  <2>1. a' = a + 1 /\ a' \in 0 .. Len(topo) + 1
    BY <1>5, <1>0 DEF NextAdapter
  <2>2. UNCHANGED <<topo, initialized, loaded, have, factory, pOutput, leaked, thrown>>
    BY <1>5 DEF NextAdapter
  <2>3. CASE a' \notin DOMAIN topo
    BY <1>5, <2>1, <2>2, <2>3 DEF NextAdapter
  <2>4. CASE a' \in DOMAIN topo
    <3>1. refs' = [refs EXCEPT ![a'] = @ + 1]
      BY <1>5, <2>4 DEF NextAdapter
    <3>2. refs' \in [DOMAIN topo -> Nat]
      BY <3>1, <2>4
    <3>3. CASE topo[a'].basic
      BY <1>5, <1>0, <2>1, <2>2, <2>4, <3>2, <3>3 DEF NextAdapter
    <3>4. CASE ~topo[a'].basic
      <4>1. Raise(info.level, a', "d3d12") \in Nat
        BY <2>4, RaiseType DEF Apis
      <4>2. Raise(Raise(info.level, a', "d3d12"), a', "d3d11") \in Nat
        BY <2>4, <4>1, RaiseType DEF Apis
      <4>3. /\ info' = [info EXCEPT !.level = Raise(Raise(@, a', "d3d12"), a', "d3d11")]
            /\ pc' = "outputs" /\ o' = 0
        BY <1>5, <2>4, <3>4 DEF NextAdapter
      <4>4. info' \in [level : Nat, adapters : Seq(Descs), monitors : Seq(Outputs)]
        BY <4>2, <4>3
      <4>5. Real(a')
        BY <2>4, <3>4 DEF Real
      <4> QED BY <2>1, <2>2, <3>2, <4>3, <4>4, <4>5
    <3> QED BY <3>3, <3>4
  <2> QED BY <2>3, <2>4
<1>6. CASE NextOutput
  <2>1. <<a, o + 1>> \in Outputs
    BY <1>6 DEF NextOutput, Outputs, Real
  <2>2. pOutput' = None \/ pOutput' \in Outputs
    BY <1>6, <2>1 DEF NextOutput, GetMonitorBPC
  <2>3. leaked' \subseteq Outputs
    BY <1>6 DEF NextOutput, Overwritten
  <2>4. List(info.monitors, <<a, o + 1>>) \in Seq(Outputs)
    BY <2>1, ListType
  <2>6. info' \in [level : Nat, adapters : Seq(Descs), monitors : Seq(Outputs)]
    BY <1>6, <2>4 DEF NextOutput
  <2>7. o' \in Nat
    BY <1>6 DEF NextOutput
  <2>5. UNCHANGED <<topo, initialized, pc, loaded, have, factory, a, refs, thrown>>
    BY <1>6 DEF NextOutput
  <2> QED BY <2>2, <2>3, <2>5, <2>6, <2>7
<1>7. CASE LastOutput
  <2>1. /\ pOutput' = None \/ pOutput' \in Outputs
        /\ leaked' \subseteq Outputs
    BY <1>7 DEF LastOutput, Overwritten
  <2> QED BY <1>7, <2>1 DEF LastOutput
<1>8. CASE AddAdapter
  <2>1. info' \in [level : Nat, adapters : Seq(Descs), monitors : Seq(Outputs)]
    <3>1. topo[a].desc \in Descs
      BY <1>8, TopologyFacts DEF AddAdapter, Real, Adapter
    <3> DEFINE list == IF \E k \in DOMAIN info.adapters : info.adapters[k] = topo[a].desc
                       THEN info.adapters ELSE Append(info.adapters, topo[a].desc)
    <3>2. list \in Seq(Descs)
      BY <3>1
    <3>3. info' = [info EXCEPT !.adapters = list]
      BY <1>8 DEF AddAdapter
    <3> HIDE DEF list
    <3> QED BY <3>2, <3>3
  <2>2. a <= Len(topo)
    BY <1>0, <1>8 DEF AddAdapter, Real
  <2> QED BY <1>8, <2>1, <2>2 DEF AddAdapter
<1>9. CASE Throw
  <2>1. a' \in 0 .. Len(topo) + 1 /\ refs' \in [DOMAIN topo -> Nat]
    <3>1. CASE a + 1 \in DOMAIN topo /\ a' = a + 1 /\ refs' = [refs EXCEPT ![a + 1] = @ + 1]
      <4>1. refs' \in [DOMAIN topo -> Nat]
        BY <3>1
      <4> QED BY <1>0, <3>1, <4>1
    <3>2. CASE UNCHANGED <<a, refs>>
      BY <1>0, <3>2
    <3> QED BY <1>9, <3>1, <3>2 DEF Throw
  <2>2. leaked' \subseteq Outputs
    BY <1>9 DEF Throw, Overwritten
  <2> QED BY <1>9, <2>1, <2>2 DEF Throw
<1>10. CASE ReleaseFactory
  BY <1>10 DEF ReleaseFactory, locals
<1>11. ASSUME NEW m \in Modules, FreeLibrary(m) PROVE TypeOK' /\ PlaceInv'
  BY <1>11 DEF FreeLibrary, locals
<1>12. CASE Return
  BY <1>12 DEF Return, locals
<1>13. CASE UNCHANGED vars
  BY <1>13 DEF vars, locals
<1> QED BY <1>1, <1>2, <1>3, <1>4, <1>5, <1>6, <1>7, <1>8, <1>9, <1>10, <1>11,
        <1>12, <1>13 DEF Next, Run, Enumerate, Leave

LEMMA StepHold ==
  ASSUME Inv, [Next]_vars
  PROVE  HoldInv'
<1> USE DEF Inv, TypeOK, HoldInv, Enumerating, locals
<1>1. CASE Call
  BY <1>1 DEF Call
<1>2. CASE LoadLibraries
  BY <1>2 DEF LoadLibraries
<1>3. CASE FindEntryPoints
  BY <1>3 DEF FindEntryPoints
<1>4. CASE CreateFactory
  BY <1>4 DEF CreateFactory
<1>5. CASE NextAdapter
  <2>1. UNCHANGED <<factory, loaded, pOutput>> /\ pc' \in {"adapter", "outputs", "exit"}
    BY <1>5 DEF NextAdapter
  <2>2. pc = "adapter"
    BY <1>5 DEF NextAdapter
  <2> QED BY <2>1, <2>2
<1>6. CASE NextOutput
  <2>1. UNCHANGED <<factory, loaded, pc>> /\ pc = "outputs"
    BY <1>6 DEF NextOutput
  <2> QED BY <2>1
<1>7. CASE LastOutput
  <2>1. UNCHANGED <<factory, loaded>> /\ pc = "outputs" /\ pc' = "driver"
    BY <1>7 DEF LastOutput
  <2> QED BY <2>1
<1>8. CASE AddAdapter
  <2>1. UNCHANGED <<factory, loaded>> /\ pc = "driver" /\ pc' = "adapter" /\ pOutput' = None
    BY <1>8 DEF AddAdapter
  <2> QED BY <2>1
<1>9. CASE Throw
  BY <1>9 DEF Throw
<1>10. CASE ReleaseFactory
  BY <1>10 DEF ReleaseFactory
<1>11. ASSUME NEW m \in Modules, FreeLibrary(m) PROVE HoldInv'
  <2>1. UNCHANGED <<factory, pOutput, pc>> /\ pc = "free"
    BY <1>11 DEF FreeLibrary
  <2> QED BY <2>1
<1>12. CASE Return
  BY <1>12 DEF Return
<1>13. CASE UNCHANGED vars
  BY <1>13 DEF vars
<1> QED BY <1>1, <1>2, <1>3, <1>4, <1>5, <1>6, <1>7, <1>8, <1>9, <1>10, <1>11,
        <1>12, <1>13 DEF Next, Run, Enumerate, Leave

\* Only CreateFactory starts an enumeration, and never a second one.
LEMMA StepRefs ==
  ASSUME Inv, [Next]_vars
  PROVE  RefsInv'
<1> USE Fixed DEF Inv, TypeOK, PlaceInv, RefsInv, Enumerating, locals
<1>0. Len(topo) \in Nat /\ DOMAIN topo = 1 .. Len(topo)
  BY TopologyFacts
<1>1. CASE Call
  BY <1>1 DEF Call
<1>2. CASE LoadLibraries
  BY <1>2 DEF LoadLibraries
<1>3. CASE FindEntryPoints
  BY <1>3 DEF FindEntryPoints
<1>4. CASE CreateFactory
  <2>1. /\ ~initialized /\ UNCHANGED refs /\ pc' \in {"exit", "adapter"}
        /\ pc' = "adapter" => initialized'
    BY <1>4 DEF CreateFactory
  <2>2. \A i \in DOMAIN topo : refs[i] = 0
    BY <2>1
  <2> QED BY <2>1, <2>2
<1>5. CASE NextAdapter
  <2>1. /\ initialized' = initialized /\ pc = "adapter" /\ a' = a + 1
        /\ pc' \in {"exit", "adapter", "outputs"}
    BY <1>5 DEF NextAdapter
  <2>2. refs' = refs \/ (a' \in DOMAIN topo /\ refs' = [refs EXCEPT ![a'] = @ + 1])
    BY <1>5 DEF NextAdapter
  <2>3. initialized
    BY <2>1
  <2>6. \A i \in DOMAIN topo : i > a' => i > a
    BY <1>0, <2>1
  <2>4. CASE refs' = refs
    BY <2>1, <2>3, <2>4, <2>6
  <2>5. CASE a' \in DOMAIN topo /\ refs' = [refs EXCEPT ![a'] = @ + 1]
    <3>0. a' > a
      BY <1>0, <2>1
    <3>1. refs[a'] = 0
      BY <2>1, <2>5, <3>0
    <3>2. \A i \in DOMAIN topo : refs'[i] = IF i = a' THEN 1 ELSE refs[i]
      BY <2>5, <3>1
    <3>3. \A i \in DOMAIN topo : refs'[i] <= 1 /\ (i > a' => refs'[i] = 0)
      BY <1>0, <2>1, <2>6, <3>2
    <3> QED BY <2>1, <2>3, <3>3
  <2> QED BY <2>2, <2>4, <2>5
<1>6. CASE NextOutput
  <2>1. UNCHANGED <<initialized, pc, a, refs>>
    BY <1>6 DEF NextOutput
  <2> QED BY <2>1
<1>7. CASE LastOutput
  <2>1. UNCHANGED <<initialized, a, refs>> /\ pc = "outputs" /\ pc' = "driver"
    BY <1>7 DEF LastOutput
  <2> QED BY <2>1
<1>8. CASE AddAdapter
  <2>1. UNCHANGED <<initialized, a, refs>> /\ pc = "driver" /\ pc' = "adapter"
    BY <1>8 DEF AddAdapter
  <2> QED BY <2>1
<1>9. CASE Throw
  <2>1. initialized /\ UNCHANGED initialized /\ pc' = "exit"
    BY <1>9 DEF Throw
  <2>2. CASE UNCHANGED refs
    BY <2>1, <2>2
  <2>3. CASE pc = "adapter" /\ a + 1 \in DOMAIN topo /\ refs' = [refs EXCEPT ![a + 1] = @ + 1]
    <3>1. refs[a + 1] = 0
      BY <1>0, <2>3
    <3>2. \A i \in DOMAIN topo : refs'[i] = IF i = a + 1 THEN 1 ELSE refs[i]
      BY <2>3, <3>1
    <3>3. \A i \in DOMAIN topo : refs'[i] <= 1
      BY <3>2
    <3> QED BY <2>1, <3>3
  <2> QED BY <1>9, <2>2, <2>3 DEF Throw
<1>10. CASE ReleaseFactory
  BY <1>10 DEF ReleaseFactory
<1>11. ASSUME NEW m \in Modules, FreeLibrary(m) PROVE RefsInv'
  <2>1. UNCHANGED <<initialized, a, refs, pc>> /\ pc = "free"
    BY <1>11 DEF FreeLibrary
  <2> QED BY <2>1
<1>12. CASE Return
  BY <1>12 DEF Return
<1>13. CASE UNCHANGED vars
  BY <1>13 DEF vars
<1> QED BY <1>1, <1>2, <1>3, <1>4, <1>5, <1>6, <1>7, <1>8, <1>9, <1>10, <1>11,
        <1>12, <1>13 DEF Next, Run, Enumerate, Leave

\* The invariant the theorems rest on.
LEMMA Invariance == Spec => []Inv
<1>1. Inv /\ [Next]_vars => Inv'
  BY StepType, StepHold, StepRefs DEF Inv
<1> QED BY <1>1, InitInv, PTL DEF Spec

\* Every state the function reaches has the types of the model: the list of
\* adapters is never indexed out of bounds, and what is listed are outputs.
THEOREM TypeCorrect == Spec => []TypeOK
<1>1. Inv => TypeOK
  BY DEF Inv
<1> QED BY <1>1, Invariance, PTL

\* However many calls fail and are made again, an adapter is asked for at most
\* once: initialized is set before the enumeration starts.
THEOREM AdaptersLeakOnceAlways == Spec => []AdaptersLeakOnce
<1>1. Inv => AdaptersLeakOnce
  BY DEF Inv, TypeOK, RefsInv, AdaptersLeakOnce
<1> QED BY <1>1, Invariance, PTL

-----------------------------------------------------------------------------
\* The pointer is left owning an output only if GetMonitorBPC did not take it.
Owned == pOutput # None => ~Output(pOutput).modern
\* Nothing is lost before there was a factory.
FreshInv == ~initialized => leaked = {}
KeptInv == Owned /\ ModernOutputsKept /\ FreshInv

LEMMA StepKept ==
  ASSUME Inv, KeptInv, [Next]_vars
  PROVE  KeptInv'
<1> USE DEF KeptInv, Owned, ModernOutputsKept, FreshInv
<1>0. \A x : Output(x)' = Output(x)
  BY Fixed DEF Output
<1>6. pc \in {"adapter", "outputs", "driver"} => initialized
  BY DEF Inv, RefsInv, Enumerating
<1>1. CASE NextOutput
  <2>1. leaked' = Overwritten /\ pOutput' = GetMonitorBPC(<<a, o + 1>>)
    BY <1>1 DEF NextOutput
  <2>2. Owned'
    BY <1>0, <2>1 DEF GetMonitorBPC
  <2>3. ModernOutputsKept'
    BY <1>0, <2>1 DEF Overwritten
  <2> QED BY <1>1, <1>6, <2>2, <2>3 DEF NextOutput
<1>2. CASE LastOutput
  BY <1>0, <1>2, <1>6 DEF LastOutput, Overwritten
<1>3. CASE Throw
  BY <1>0, <1>3, <1>6 DEF Throw, Overwritten
<1>4. CASE /\ UNCHANGED leaked /\ (pOutput' = None \/ UNCHANGED pOutput)
           /\ initialized => initialized'
  BY <1>0, <1>4
<1>5. \/ NextOutput \/ LastOutput \/ Throw
      \/ /\ UNCHANGED leaked /\ (pOutput' = None \/ UNCHANGED pOutput)
         /\ initialized => initialized'
  BY DEF Next, Run, Enumerate, Leave, Call, LoadLibraries, FindEntryPoints, CreateFactory,
         NextAdapter, AddAdapter, ReleaseFactory, FreeLibrary, Return, vars, locals
<1> QED BY <1>1, <1>2, <1>3, <1>4, <1>5

LEMMA KeptInvariance == Spec => []KeptInv
<1>1. Init => KeptInv
  BY DEF Init, KeptInv, Owned, ModernOutputsKept, FreshInv
<1>2. Inv /\ KeptInv /\ [Next]_vars => KeptInv'
  BY StepKept
<1> QED BY <1>1, <1>2, Invariance, PTL DEF Spec

\* Only an output without IDXGIOutput6 is ever overwritten while it is owned.
THEOREM ModernOutputsKeptAlways == Spec => []ModernOutputsKept
<1>1. KeptInv => ModernOutputsKept
  BY DEF KeptInv
<1> QED BY <1>1, KeptInvariance, PTL

\* On whichever way out of GetD3DInfo, exceptions included, the libraries are given
\* back.  When dxgi.dll goes, the factory and the output held are gone already;
\* what is still alive is adapters, which have no release, and outputs without
\* IDXGIOutput6, and these only once an enumeration has begun.
THEOREM OnlyLostOutliveAlways == Spec => []OnlyLostOutlive
<1>1. Inv /\ KeptInv => OnlyLostOutlive
  <2> SUFFICES ASSUME Inv, KeptInv PROVE OnlyLostOutlive
    OBVIOUS
  <2>1. pc = "host" => loaded = {}
    BY DEF Inv, HoldInv
  <2>2. ASSUME "dxgi" \notin loaded
        PROVE  Alive \subseteq IF initialized THEN Lost ELSE {}
    <3>1. ~factory /\ pOutput = None
      BY <2>2 DEF Inv, HoldInv, Enumerating
    <3>2. leaked \subseteq {x \in Outputs : ~Output(x).modern}
      BY DEF Inv, TypeOK, KeptInv, ModernOutputsKept
    <3>3. DOMAIN refs = DOMAIN topo
      BY DEF Inv, TypeOK
    <3>4. Alive \subseteq Lost
      BY <3>1, <3>2, <3>3 DEF Alive, Lost, Overwritten
    <3>5. CASE ~initialized
      <4>1. \A n \in DOMAIN refs : refs[n] = 0
        BY <3>3, <3>5 DEF Inv, RefsInv
      <4>2. leaked = {}
        BY <3>5 DEF KeptInv, FreshInv
      <4> QED BY <3>1, <4>1, <4>2 DEF Alive, Overwritten
    <3> QED BY <3>4, <3>5
  <2> QED BY <2>1, <2>2 DEF OnlyLostOutlive
<1> QED BY <1>1, Invariance, KeptInvariance, PTL

-----------------------------------------------------------------------------
\* Where List puts a monitor.
LEMMA ListPrimaryFirst ==
  ASSUME NEW list \in Seq(Outputs), NEW x \in Outputs,
         \A j, k \in DOMAIN list :
           j < k /\ Output(list[k]).primary => Output(list[j]).primary,
         NEW j \in DOMAIN List(list, x), NEW k \in DOMAIN List(list, x),
         j < k, Output(List(list, x)[k]).primary
  PROVE  Output(List(list, x)[j]).primary
<1>1. Len(list) \in Nat /\ DOMAIN list = 1 .. Len(list)
  OBVIOUS
<1>2. CASE Output(x).primary
  <2> DEFINE new == <<x>> \o list
  <2>1. List(list, x) = new
    BY <1>2 DEF List
  <2>2. /\ DOMAIN new = 1 .. Len(list) + 1 /\ new[1] = x
        /\ \A n \in 2 .. Len(list) + 1 : new[n] = list[n - 1]
    OBVIOUS
  <2> HIDE DEF new
  <2>3. k - 1 \in DOMAIN list /\ new[k] = list[k - 1]
    BY <1>1, <2>1, <2>2
  <2>4. CASE j = 1
    BY <1>2, <2>1, <2>2, <2>4
  <2>5. CASE j # 1
    <3>1. j - 1 \in DOMAIN list /\ new[j] = list[j - 1] /\ j - 1 < k - 1
      BY <1>1, <2>1, <2>2, <2>5
    <3> QED BY <2>1, <2>3, <3>1
  <2> QED BY <2>4, <2>5
<1>3. CASE ~Output(x).primary
  <2> DEFINE new == Append(list, x)
  <2>1. List(list, x) = new
    BY <1>3 DEF List
  <2>2. /\ DOMAIN new = 1 .. Len(list) + 1 /\ new[Len(list) + 1] = x
        /\ \A n \in DOMAIN list : new[n] = list[n]
    OBVIOUS
  <2> HIDE DEF new
  <2>3. j \in DOMAIN list /\ k \in DOMAIN list
    BY <1>1, <1>3, <2>1, <2>2
  <2> QED BY <2>1, <2>2, <2>3
<1> QED BY <1>2, <1>3

\* The first monitor of the report is a primary one if any is.
THEOREM PrimaryFirstAlways == Spec => []PrimaryFirst
<1>1. Init => PrimaryFirst
  BY DEF Init, Nothing, PrimaryFirst
<1>2. ASSUME Inv, PrimaryFirst, [Next]_vars PROVE PrimaryFirst'
  <2>0. \A x : Output(x)' = Output(x)
    BY <1>2, Fixed DEF Output
  <2>1. info.monitors \in Seq(Outputs) /\ info \in [level : Nat, adapters : Seq(Descs), monitors : Seq(Outputs)]
    BY <1>2 DEF Inv, TypeOK
  <2>2. CASE info'.monitors = info.monitors
    BY <1>2, <2>0, <2>2 DEF PrimaryFirst
  <2>3. CASE NextOutput
    <3>1. <<a, o + 1>> \in Outputs
      BY <1>2, <2>3 DEF NextOutput, Outputs, Real, Inv, PlaceInv
    <3>2. info' = [info EXCEPT !.monitors = List(info.monitors, <<a, o + 1>>)]
      BY <2>3 DEF NextOutput
    <3>3. info'.monitors = List(info.monitors, <<a, o + 1>>)
      BY <2>1, <3>2
    <3> QED BY <1>2, <2>0, <2>1, <3>1, <3>3, ListPrimaryFirst DEF PrimaryFirst
  <2>4. NextOutput \/ info'.monitors = info.monitors
    <3>1. CASE NextAdapter
      <4>1. \/ info' = info
            \/ info' = [info EXCEPT !.level = Raise(Raise(@, a', "d3d12"), a', "d3d11")]
        BY <3>1 DEF NextAdapter
      <4> QED BY <2>1, <4>1
    <3>2. CASE AddAdapter
      BY <2>1, <3>2 DEF AddAdapter
    <3>3. NextOutput \/ NextAdapter \/ AddAdapter \/ UNCHANGED info
      BY <1>2 DEF Next, Run, Enumerate, Leave, Call, LoadLibraries, FindEntryPoints,
           CreateFactory, LastOutput, Throw, ReleaseFactory, FreeLibrary, Return, vars
    <3> QED BY <3>1, <3>2, <3>3
  <2> QED BY <2>2, <2>3, <2>4
<1> QED BY <1>1, <1>2, Invariance, PTL DEF Spec

-----------------------------------------------------------------------------
(* What an enumeration has collected after some of the adapters and outputs.*)
\* The highest level of the first n adapters.
Levels(level, tp, apis, n) ==
  /\ \A i \in DOMAIN tp, api \in apis : i <= n /\ ~tp[i].basic => tp[i].level[api] <= level
  /\ \/ level = 0
     \/ \E i \in DOMAIN tp, api \in apis : i <= n /\ ~tp[i].basic /\ tp[i].level[api] = level

\* The outputs of the adapters before n, and the first k of n.
Upto(y, n, k) == y[1] < n \/ (y[1] = n /\ y[2] <= k)
Described(list, outs, prims, n, k) ==
  /\ \A y \in outs : Upto(y, n, k) <=> \E p \in DOMAIN list : list[p] = y
  /\ \A i, j \in DOMAIN list : i < j =>
       list[i] # list[j] /\ (Before(list[i], list[j]) \/ list[i] \in prims)

\* The kinds of the first n adapters; y is met before z.
AllSeen(list, tp, n) ==
  \A i \in DOMAIN tp : i <= n /\ ~tp[i].basic => \E p \in DOMAIN list : list[p] = tp[i].desc
NoneElse(list, tp, n) ==
  \A p \in DOMAIN list : \E i \in DOMAIN tp : i <= n /\ ~tp[i].basic /\ tp[i].desc = list[p]
Ahead(tp, y, z) ==
  \E i \in DOMAIN tp : /\ ~tp[i].basic /\ tp[i].desc = y
                       /\ \A m \in 1 .. i : ~tp[m].basic => tp[m].desc # z
Kinds(list, tp, n) ==
  /\ AllSeen(list, tp, n)
  /\ NoneElse(list, tp, n)
  /\ \A j, k \in DOMAIN list : j < k => list[j] # list[k] /\ Ahead(tp, list[j], list[k])

Prims == {x \in Outputs : Output(x).primary}
Whole(x, tp, apis, outs, prims) ==
  /\ Levels(x.level, tp, apis, Len(tp))
  /\ Described(x.monitors, outs, prims, Len(tp) + 1, 0)
  /\ Kinds(x.adapters, tp, Len(tp))

Progress ==
  /\ pc \in {"adapter", "outputs", "driver"} => Levels(info.level, topo, have, a)
  /\ pc = "adapter" => Kinds(info.adapters, topo, a)
  /\ pc \in {"outputs", "driver"} => Kinds(info.adapters, topo, a - 1)
  /\ pc \in {"adapter", "driver"} => Described(info.monitors, Outputs, Prims, a + 1, 0)
  /\ pc = "outputs" => Described(info.monitors, Outputs, Prims, a, o)
  /\ pc \in {"exit", "free", "host"} => Whole(info, topo, have, Outputs, Prims)
EmptyInv == ~initialized => info = Nothing /\ \A x \in answers : ~x.filled
AnswersInv ==
  \A x \in answers : IF x.filled THEN thrown \/ Whole(x.info, topo, have, Outputs, Prims)
                                 ELSE x.info = Nothing
CollectInv == EmptyInv /\ (initialized /\ ~thrown => Progress) /\ AnswersInv

LEMMA OutputsPairs ==
  ASSUME topo \in Topologies
  PROVE  /\ Outputs \subseteq (Nat \ {0}) \X (Nat \ {0})
         /\ \A y \in Outputs : Real(y[1]) /\ y[2] \in DOMAIN topo[y[1]].outputs
<1> SUFFICES ASSUME NEW y \in Outputs
             PROVE  /\ y \in (Nat \ {0}) \X (Nat \ {0})
                    /\ Real(y[1]) /\ y[2] \in DOMAIN topo[y[1]].outputs
  OBVIOUS
<1>1. PICK i \in DOMAIN topo : Real(i) /\ \E k \in DOMAIN topo[i].outputs : y = <<i, k>>
  BY DEF Outputs
<1>2. PICK k \in DOMAIN topo[i].outputs : y = <<i, k>>
  BY <1>1
<1>3. i \in Nat \ {0}
  BY <1>1, TopologyFacts
<1>4. k \in Nat \ {0}
  BY <1>2, TopologyFacts
<1> QED BY <1>1, <1>2, <1>3, <1>4

(* What a list holds that has grown by x at one of its ends.                *)
HasAlso(longer, list, x) ==
  \A y : (\E p \in DOMAIN longer : longer[p] = y) <=> y = x \/ \E p \in DOMAIN list : list[p] = y
InOrder(list, y, z) == \E p, q \in DOMAIN list : p < q /\ list[p] = y /\ list[q] = z
XFirst(longer, list, x) ==
  \A i, j \in DOMAIN longer : i < j =>
    \/ longer[i] = x /\ \E q \in DOMAIN list : longer[j] = list[q]
    \/ InOrder(list, longer[i], longer[j])
XLast(longer, list, x) ==
  \A i, j \in DOMAIN longer : i < j =>
    \/ longer[j] = x /\ \E p \in DOMAIN list : longer[i] = list[p]
    \/ InOrder(list, longer[i], longer[j])

LEMMA Prepended ==
  ASSUME NEW S, NEW list \in Seq(S), NEW x \in S
  PROVE  HasAlso(<<x>> \o list, list, x) /\ XFirst(<<x>> \o list, list, x)
<1> DEFINE longer == <<x>> \o list
           n == Len(list)
<1>1. /\ DOMAIN longer = 1 .. n + 1 /\ longer[1] = x
      /\ \A p \in 2 .. n + 1 : longer[p] = list[p - 1]
      /\ n \in Nat /\ DOMAIN list = 1 .. n
  OBVIOUS
<1> HIDE DEF longer, n
<1>2. \A p \in DOMAIN list : p + 1 \in DOMAIN longer /\ longer[p + 1] = list[p]
  BY <1>1
<1>3. 1 \in DOMAIN longer /\ longer[1] = x
  BY <1>1
<1>4. \A p \in DOMAIN longer : p = 1 \/ (p - 1 \in DOMAIN list /\ longer[p] = list[p - 1])
  BY <1>1
<1>5. \A y : (\E p \in DOMAIN longer : longer[p] = y)
              <=> y = x \/ \E p \in DOMAIN list : list[p] = y
  <2> SUFFICES ASSUME NEW y
               PROVE  (\E p \in DOMAIN longer : longer[p] = y)
                        <=> y = x \/ \E p \in DOMAIN list : list[p] = y
    OBVIOUS
  <2>1. ASSUME NEW p \in DOMAIN longer, longer[p] = y
        PROVE  y = x \/ \E q \in DOMAIN list : list[q] = y
    BY <1>3, <1>4, <2>1
  <2>2. ASSUME NEW p \in DOMAIN list, list[p] = y PROVE \E q \in DOMAIN longer : longer[q] = y
    BY <1>2, <2>2
  <2> QED BY <1>3, <2>1, <2>2
<1>6. ASSUME NEW i \in DOMAIN longer, NEW j \in DOMAIN longer, i < j
      PROVE  \/ longer[i] = x /\ \E q \in DOMAIN list : longer[j] = list[q]
             \/ InOrder(list, longer[i], longer[j])
  <2>1. i \in Nat \ {0} /\ j \in Nat \ {0} /\ j # 1
    BY <1>1, <1>6
  <2>2. j - 1 \in DOMAIN list /\ longer[j] = list[j - 1]
    BY <1>4, <2>1
  <2>3. CASE i = 1
    BY <1>3, <2>2, <2>3
  <2>4. CASE i # 1
    <3>1. i - 1 \in DOMAIN list /\ longer[i] = list[i - 1]
      BY <1>4, <2>4
    <3>2. i - 1 < j - 1
      BY <1>6, <2>1
    <3> QED BY <2>2, <3>1, <3>2 DEF InOrder
  <2> QED BY <2>3, <2>4
<1> QED BY <1>5, <1>6 DEF HasAlso, XFirst, longer

LEMMA Appended ==
  ASSUME NEW S, NEW list \in Seq(S), NEW x \in S
  PROVE  HasAlso(Append(list, x), list, x) /\ XLast(Append(list, x), list, x)
<1> DEFINE longer == Append(list, x)
           n == Len(list)
<1>1. /\ DOMAIN longer = 1 .. n + 1 /\ longer[n + 1] = x
      /\ \A p \in 1 .. n : longer[p] = list[p]
      /\ n \in Nat /\ DOMAIN list = 1 .. n
  OBVIOUS
<1> HIDE DEF longer, n
<1>2. \A p \in DOMAIN list : p \in DOMAIN longer /\ longer[p] = list[p]
  BY <1>1
<1>3. n + 1 \in DOMAIN longer /\ longer[n + 1] = x
  BY <1>1
<1>4. \A p \in DOMAIN longer : p = n + 1 \/ (p \in DOMAIN list /\ longer[p] = list[p])
  BY <1>1
<1>5. \A y : (\E p \in DOMAIN longer : longer[p] = y)
              <=> y = x \/ \E p \in DOMAIN list : list[p] = y
  BY <1>2, <1>3, <1>4
<1>6. ASSUME NEW i \in DOMAIN longer, NEW j \in DOMAIN longer, i < j
      PROVE  \/ longer[j] = x /\ \E p \in DOMAIN list : longer[i] = list[p]
             \/ InOrder(list, longer[i], longer[j])
  <2>1. i # n + 1
    BY <1>1, <1>6
  <2>2. i \in DOMAIN list /\ longer[i] = list[i]
    BY <1>4, <2>1
  <2>3. CASE j = n + 1
    BY <1>3, <2>2, <2>3
  <2>4. CASE j # n + 1
    BY <1>4, <1>6, <2>2, <2>4 DEF InOrder
  <2> QED BY <2>3, <2>4
<1> QED BY <1>5, <1>6 DEF HasAlso, XLast, longer

LEMMA OneMonitor ==
  ASSUME NEW outs \in SUBSET ((Nat \ {0}) \X (Nat \ {0})), NEW prims, NEW n \in Nat, NEW k \in Nat,
         NEW list \in Seq(outs), <<n, k + 1>> \in outs, Described(list, outs, prims, n, k),
         NEW longer,
         longer = IF <<n, k + 1>> \in prims THEN <<<<n, k + 1>>>> \o list
                                            ELSE Append(list, <<n, k + 1>>)
  PROVE  Described(longer, outs, prims, n, k + 1)
<1> DEFINE x == <<n, k + 1>>
<1>1. Len(list) \in Nat /\ DOMAIN list = 1 .. Len(list) /\ \A p \in DOMAIN list : list[p] \in outs
  OBVIOUS
<1>2. x[1] = n /\ x[2] = k + 1 /\ ~Upto(x, n, k)
  BY DEF Upto
<1>3. \A y \in outs : y[1] \in Nat /\ y[2] \in Nat /\ y = <<y[1], y[2]>>
  OBVIOUS
<1>4. \A y \in outs : Upto(y, n, k + 1) <=> Upto(y, n, k) \/ y = x
  BY <1>3 DEF Upto
<1>5. \A y \in outs : Upto(y, n, k) => Before(y, x)
  BY <1>2, <1>3 DEF Upto, Before
<1>6. \A p \in DOMAIN list : list[p] # x /\ Before(list[p], x)
  <2> SUFFICES ASSUME NEW p \in DOMAIN list PROVE list[p] # x /\ Before(list[p], x)
    OBVIOUS
  <2>1. list[p] \in outs /\ Upto(list[p], n, k)
    BY <1>1 DEF Described
  <2> QED BY <1>2, <1>5, <2>1
<1>7. x \in outs
  OBVIOUS
<1> HIDE DEF x
<1>8. IF x \in prims THEN longer = <<x>> \o list ELSE longer = Append(list, x)
  BY DEF x
<1>9. HasAlso(longer, list, x)
  BY <1>7, <1>8, Prepended, Appended
<1>10. \A y \in outs : Upto(y, n, k + 1) <=> \E p \in DOMAIN longer : longer[p] = y
  BY <1>4, <1>9 DEF Described, HasAlso
<1>11. ASSUME NEW i \in DOMAIN longer, NEW j \in DOMAIN longer, i < j
       PROVE  longer[i] # longer[j] /\ (Before(longer[i], longer[j]) \/ longer[i] \in prims)
  <2>1. CASE InOrder(list, longer[i], longer[j])
    BY <2>1 DEF Described, InOrder
  <2>2. CASE x \in prims
    <3>1. XFirst(longer, list, x)
      BY <1>7, <1>8, <2>2, Prepended
    <3>2. CASE longer[i] = x /\ \E q \in DOMAIN list : longer[j] = list[q]
      BY <1>6, <2>2, <3>2
    <3> QED BY <1>11, <2>1, <3>1, <3>2 DEF XFirst
  <2>3. CASE x \notin prims
    <3>1. XLast(longer, list, x)
      BY <1>7, <1>8, <2>3, Appended
    <3>2. CASE longer[j] = x /\ \E p \in DOMAIN list : longer[i] = list[p]
      BY <1>6, <3>2
    <3> QED BY <1>11, <2>1, <3>1, <3>2 DEF XLast
  <2> QED BY <2>2, <2>3
<1> QED BY <1>10, <1>11 DEF Described

\* Places that have the same outputs behind them.
LEMMA SamePlace ==
  ASSUME NEW outs, NEW prims, NEW n, NEW k, NEW m, NEW l, NEW list,
         Described(list, outs, prims, n, k), \A y \in outs : Upto(y, n, k) <=> Upto(y, m, l)
  PROVE  Described(list, outs, prims, m, l)
BY DEF Described

LEMMA OneLevel ==
  ASSUME topo \in Topologies, have \subseteq Apis, NEW n \in Nat, n + 1 \in DOMAIN topo,
         ~topo[n + 1].basic, NEW level \in Nat, Levels(level, topo, have, n)
  PROVE  Levels(Raise(Raise(level, n + 1, "d3d12"), n + 1, "d3d11"), topo, have, n + 1)
<1> DEFINE i == n + 1
           mid  == Raise(level, i, "d3d12")
           high == Raise(mid, i, "d3d11")
<1>1. /\ DOMAIN topo \subseteq Nat /\ Apis = {"d3d11", "d3d12"}
      /\ \A k \in DOMAIN topo, api \in Apis : topo[k].level[api] \in Nat
  BY TopologyFacts DEF Apis
<1>2. i \in DOMAIN topo /\ ~topo[i].basic /\ i \in Nat
  BY <1>1
<1>3. \A k \in DOMAIN topo : k <= i <=> k <= n \/ k = i
  BY <1>1
<1>4. /\ mid \in Nat /\ mid >= level /\ ("d3d12" \in have => topo[i].level["d3d12"] <= mid)
      /\ mid = level \/ ("d3d12" \in have /\ mid = topo[i].level["d3d12"])
  BY <1>1, <1>2 DEF Raise
<1> HIDE DEF mid
<1>5. /\ high \in Nat /\ high >= mid /\ ("d3d11" \in have => topo[i].level["d3d11"] <= high)
      /\ high = mid \/ ("d3d11" \in have /\ high = topo[i].level["d3d11"])
  BY <1>1, <1>2, <1>4 DEF Raise
<1> HIDE DEF high, i
<1>6. \A k \in DOMAIN topo, api \in have : k <= i /\ ~topo[k].basic => topo[k].level[api] <= high
  <2> SUFFICES ASSUME NEW k \in DOMAIN topo, NEW api \in have, k <= i, ~topo[k].basic
               PROVE  topo[k].level[api] <= high
    OBVIOUS
  <2>1. CASE k = i
    BY <1>1, <1>4, <1>5, <2>1
  <2>2. CASE k # i
    <3>1. topo[k].level[api] <= level /\ topo[k].level[api] \in Nat
      BY <1>1, <1>3, <2>2 DEF Levels
    <3> QED BY <1>4, <1>5, <3>1
  <2> QED BY <2>1, <2>2
<1>7. high = 0 \/ \E k \in DOMAIN topo, api \in have :
                    k <= i /\ ~topo[k].basic /\ topo[k].level[api] = high
  <2>1. CASE high = level
    BY <1>3, <2>1 DEF Levels
  <2>2. CASE high # level
    <3>1. \E api \in have : topo[i].level[api] = high
      BY <1>4, <1>5, <2>2
    <3> QED BY <1>2, <3>1
  <2> QED BY <2>1, <2>2
<1> QED BY <1>6, <1>7 DEF Levels, high, mid, i

\* The render driver, or the end of the list, adds nothing.
LEMMA NoLevel ==
  ASSUME topo \in Topologies, NEW n \in Nat, NEW apis, NEW level,
         ~Real(n + 1), Levels(level, topo, apis, n)
  PROVE  Levels(level, topo, apis, n + 1)
<1>1. \A k \in DOMAIN topo : ~topo[k].basic => (k <= n + 1 <=> k <= n)
  <2> SUFFICES ASSUME NEW k \in DOMAIN topo, ~topo[k].basic PROVE k <= n + 1 <=> k <= n
    OBVIOUS
  <2>1. k \in Nat /\ k # n + 1
    BY TopologyFacts DEF Real
  <2> QED BY <2>1
<1> QED BY <1>1 DEF Levels

LEMMA NoKind ==
  ASSUME topo \in Topologies, NEW n \in Nat, NEW list, ~Real(n + 1), Kinds(list, topo, n)
  PROVE  Kinds(list, topo, n + 1)
<1>1. \A k \in DOMAIN topo : ~topo[k].basic => (k <= n + 1 <=> k <= n)
  <2> SUFFICES ASSUME NEW k \in DOMAIN topo, ~topo[k].basic PROVE k <= n + 1 <=> k <= n
    OBVIOUS
  <2>1. k \in Nat /\ k # n + 1
    BY TopologyFacts DEF Real
  <2> QED BY <2>1
<1> QED BY <1>1 DEF Kinds, AllSeen, NoneElse

LEMMA NoMonitor ==
  ASSUME topo \in Topologies, NEW n \in Nat, ~Real(n), NEW list,
         Described(list, Outputs, Prims, n, 0)
  PROVE  Described(list, Outputs, Prims, n + 1, 0)
<1>1. \A y \in Outputs : Upto(y, n, 0) <=> Upto(y, n + 1, 0)
  <2> SUFFICES ASSUME NEW y \in Outputs PROVE Upto(y, n, 0) <=> Upto(y, n + 1, 0)
    OBVIOUS
  <2>1. y[1] \in Nat /\ y[2] \in Nat \ {0} /\ y[1] # n
    BY OutputsPairs
  <2> QED BY <2>1 DEF Upto
<1> QED BY <1>1, SamePlace

\* With its last output an adapter's are all behind.
LEMMA LastMonitor ==
  ASSUME topo \in Topologies, NEW n \in DOMAIN topo, NEW k \in Nat, NEW list,
         k + 1 \notin DOMAIN topo[n].outputs, Described(list, Outputs, Prims, n, k)
  PROVE  Described(list, Outputs, Prims, n + 1, 0)
<1>1. n \in Nat /\ topo[n].outputs \in Seq(Display)
  BY TopologyFacts
<1>2. \A y \in Outputs : Upto(y, n, k) <=> Upto(y, n + 1, 0)
  <2> SUFFICES ASSUME NEW y \in Outputs PROVE Upto(y, n, k) <=> Upto(y, n + 1, 0)
    OBVIOUS
  <2>1. y[1] \in Nat /\ y[2] \in Nat \ {0} /\ y[2] \in DOMAIN topo[y[1]].outputs
    BY OutputsPairs
  <2>2. y[1] = n => y[2] <= k
    <3>1. \A l \in DOMAIN topo[n].outputs : l <= k
      <4> DEFINE len == Len(topo[n].outputs)
      <4>1. len \in Nat /\ DOMAIN topo[n].outputs = 1 .. len
        BY <1>1
      <4> HIDE DEF len
      <4> QED BY <4>1
    <3> QED BY <2>1, <3>1
  <2> QED BY <1>1, <2>1, <2>2 DEF Upto
<1> QED BY <1>2, SamePlace

LEMMA OneKind ==
  ASSUME topo \in Topologies, NEW n \in DOMAIN topo, ~topo[n].basic, NEW list \in Seq(Descs),
         Kinds(list, topo, n - 1), NEW longer,
         longer = IF \E k \in DOMAIN list : list[k] = topo[n].desc THEN list
                  ELSE Append(list, topo[n].desc)
  PROVE  Kinds(longer, topo, n)
<1> DEFINE x == topo[n].desc
<1>1. DOMAIN topo \subseteq Nat /\ n \in Nat /\ x \in Descs
  BY TopologyFacts DEF Adapter
<1>2. \A k \in DOMAIN topo : k <= n <=> k <= n - 1 \/ k = n
  BY <1>1
<1>3. CASE \E k \in DOMAIN list : list[k] = x
  <2>1. longer = list
    BY <1>3
  <2>2. AllSeen(list, topo, n)
    BY <1>2, <1>3 DEF Kinds, AllSeen
  <2>3. NoneElse(list, topo, n)
    BY <1>2 DEF Kinds, NoneElse
  <2> QED BY <2>1, <2>2, <2>3 DEF Kinds
<1>4. CASE ~\E k \in DOMAIN list : list[k] = x
  <2>1. longer = Append(list, x)
    BY <1>4
  <2>2. HasAlso(longer, list, x) /\ XLast(longer, list, x)
    BY <1>1, <2>1, Appended
  <2> HIDE DEF x
  <2>3. AllSeen(longer, topo, n)
    BY <1>2, <2>2 DEF HasAlso, Kinds, AllSeen, x
  <2>4. NoneElse(longer, topo, n)
    <3> SUFFICES ASSUME NEW p \in DOMAIN longer
                 PROVE  \E i \in DOMAIN topo : i <= n /\ ~topo[i].basic /\ topo[i].desc = longer[p]
      BY DEF NoneElse
    <3>1. longer[p] = x \/ \E q \in DOMAIN list : list[q] = longer[p]
      BY <2>2 DEF HasAlso
    <3>2. CASE longer[p] = x
      <4>1. n <= n
        BY <1>1
      <4> QED BY <3>2, <4>1 DEF x
    <3>3. CASE \E q \in DOMAIN list : list[q] = longer[p]
      <4>1. PICK i \in DOMAIN topo : i <= n - 1 /\ ~topo[i].basic /\ topo[i].desc = longer[p]
        BY <3>3 DEF Kinds, NoneElse
      <4> QED BY <1>2, <4>1
    <3> QED BY <3>1, <3>2, <3>3
  <2>5. ASSUME NEW j \in DOMAIN longer, NEW k \in DOMAIN longer, j < k
        PROVE  longer[j] # longer[k] /\ Ahead(topo, longer[j], longer[k])
    <3>1. CASE InOrder(list, longer[j], longer[k])
      BY <3>1 DEF InOrder, Kinds
    <3>2. CASE longer[k] = x /\ \E p \in DOMAIN list : longer[j] = list[p]
      <4>0. PICK p \in DOMAIN list : longer[j] = list[p]
        BY <3>2
      <4>1. PICK i \in DOMAIN topo : i <= n - 1 /\ ~topo[i].basic /\ topo[i].desc = list[p]
        BY DEF Kinds, NoneElse
      <4>2. \A m \in 1 .. i : m \in DOMAIN topo /\ m <= n - 1
        BY <1>1, <4>1, TopologyFacts
      <4>3. \A m \in 1 .. i : ~topo[m].basic => topo[m].desc # x
        BY <1>4, <4>2 DEF Kinds, AllSeen
      <4>4. list[p] # x
        BY <1>4
      <4> QED BY <3>2, <4>0, <4>1, <4>3, <4>4 DEF Ahead
    <3> QED BY <2>2, <2>5, <3>1, <3>2 DEF XLast
  <2> QED BY <2>3, <2>4, <2>5 DEF Kinds
<1> QED BY <1>3, <1>4

\* What has been collected when an adapter is passed over, or the list ends.
LEMMA PassedOver ==
  ASSUME Inv, pc = "adapter", a + 1 \in Nat, ~Real(a + 1), Progress
  PROVE  /\ Levels(info.level, topo, have, a + 1)
         /\ Kinds(info.adapters, topo, a + 1)
         /\ Described(info.monitors, Outputs, Prims, a + 2, 0)
<1>1. /\ topo \in Topologies /\ a \in Nat
      /\ Levels(info.level, topo, have, a) /\ Kinds(info.adapters, topo, a)
      /\ Described(info.monitors, Outputs, Prims, a + 1, 0)
  BY TopologyFacts DEF Inv, TypeOK, Progress
<1>2. Levels(info.level, topo, have, a + 1)
  BY <1>1, NoLevel
<1>3. Kinds(info.adapters, topo, a + 1)
  BY <1>1, NoKind
<1>4. Described(info.monitors, Outputs, Prims, (a + 1) + 1, 0)
  BY <1>1, NoMonitor
<1>5. (a + 1) + 1 = a + 2
  BY <1>1
<1> QED BY <1>2, <1>3, <1>4, <1>5

LEMMA StepNextAdapter ==
  ASSUME Inv, Progress, NextAdapter
  PROVE  Progress'
<1> USE DEF Inv, TypeOK, PlaceInv
<1>1. /\ topo' = topo /\ have' = have /\ Outputs' = Outputs /\ Prims' = Prims
      /\ pc = "adapter" /\ a' = a + 1
  BY DEF NextAdapter, Outputs, Prims, Real, Output
<1>2. /\ topo \in Topologies /\ Len(topo) \in Nat /\ DOMAIN topo = 1 .. Len(topo)
      /\ a \in Nat /\ a <= Len(topo)
  BY <1>1, TopologyFacts
<1>3. CASE a' \notin DOMAIN topo
  <2>1. pc' = "exit" /\ info' = info
    BY <1>3 DEF NextAdapter
  <2>2. a = Len(topo)
    <3>1. \A n, m \in Nat : n <= m /\ n + 1 \notin 1 .. m => n = m
      OBVIOUS
    <3>2. a + 1 \notin 1 .. Len(topo)
      BY <1>1, <1>2, <1>3
    <3> QED BY <1>2, <3>1, <3>2
  <2>3. Whole(info, topo, have, Outputs, Prims)
    BY <1>1, <2>2 DEF Progress, Whole
  <2> QED BY <1>1, <2>1, <2>3 DEF Progress
<1>4. CASE a' \in DOMAIN topo /\ topo[a'].basic
  <2>1. pc' = pc /\ info' = info
    BY <1>4 DEF NextAdapter
  <2>2. ~Real(a + 1) /\ a + 1 \in Nat /\ a' + 1 = a + 2
    BY <1>1, <1>2, <1>4 DEF Real
  <2>3. /\ Levels(info.level, topo, have, a + 1)
        /\ Kinds(info.adapters, topo, a + 1)
        /\ Described(info.monitors, Outputs, Prims, a + 2, 0)
    BY <1>1, <2>2, PassedOver
  <2> QED BY <1>1, <2>1, <2>2, <2>3 DEF Progress
<1>5. CASE a' \in DOMAIN topo /\ ~topo[a'].basic
  <2> DEFINE high == Raise(Raise(info.level, a', "d3d12"), a', "d3d11")
  <2>1. /\ pc' = "outputs" /\ o' = 0 /\ info' = [info EXCEPT !.level = high]
    BY <1>5 DEF NextAdapter
  <2>2. a + 1 \in DOMAIN topo /\ ~topo[a + 1].basic /\ info.level \in Nat /\ have \subseteq Apis
    BY <1>1, <1>5
  <2>3. Levels(info.level, topo, have, a)
    BY <1>1 DEF Progress
  <2>4. Levels(high, topo, have, a + 1)
    BY <1>1, <1>2, <2>2, <2>3, OneLevel
  <2> HIDE DEF high
  <2>5. info'.level = high /\ info'.adapters = info.adapters /\ info'.monitors = info.monitors
    BY <2>1
  <2>6. a' - 1 = a
    BY <1>1, <1>2
  <2>7. Kinds(info'.adapters, topo, a' - 1)
    BY <1>1, <2>5, <2>6 DEF Progress
  <2>8. Described(info'.monitors, Outputs, Prims, a', 0)
    BY <1>1, <2>5 DEF Progress
  <2> QED BY <1>1, <2>1, <2>4, <2>5, <2>7, <2>8 DEF Progress
<1> QED BY <1>3, <1>4, <1>5

LEMMA StepNextOutput ==
  ASSUME Inv, Progress, NextOutput
  PROVE  Progress'
<1> USE DEF Inv, TypeOK, PlaceInv
<1> DEFINE x == <<a, o + 1>>
           longer == List(info.monitors, x)
<1>1. /\ topo' = topo /\ have' = have /\ Outputs' = Outputs /\ Prims' = Prims
      /\ pc = "outputs" /\ pc' = pc /\ a' = a /\ o' = o + 1
      /\ info' = [info EXCEPT !.monitors = longer]
  BY DEF NextOutput, Outputs, Prims, Real, Output
<1>2. /\ topo \in Topologies /\ a \in Nat /\ o \in Nat /\ info.monitors \in Seq(Outputs)
      /\ Outputs \in SUBSET ((Nat \ {0}) \X (Nat \ {0}))
  BY <1>1, OutputsPairs, TopologyFacts
<1>3. x \in Outputs
  BY DEF NextOutput, Outputs, Real
<1>4. longer = IF x \in Prims THEN <<x>> \o info.monitors ELSE Append(info.monitors, x)
  BY <1>3 DEF List, Prims
<1>5. Described(info.monitors, Outputs, Prims, a, o)
  BY <1>1 DEF Progress
<1> HIDE DEF longer
<1>6. Described(longer, Outputs, Prims, a, o + 1)
  BY <1>2, <1>3, <1>4, <1>5, OneMonitor
<1>7. info'.level = info.level /\ info'.adapters = info.adapters /\ info'.monitors = longer
  BY <1>1
<1> QED BY <1>1, <1>6, <1>7 DEF Progress

LEMMA StepLastOutput ==
  ASSUME Inv, Progress, LastOutput
  PROVE  Progress'
<1> USE DEF Inv, TypeOK, PlaceInv
<1>1. /\ topo' = topo /\ have' = have /\ Outputs' = Outputs /\ Prims' = Prims
      /\ pc = "outputs" /\ pc' = "driver" /\ a' = a /\ info' = info
  BY DEF LastOutput, Outputs, Prims, Real, Output
<1>2. topo \in Topologies /\ a \in DOMAIN topo /\ o \in Nat /\ o + 1 \notin DOMAIN topo[a].outputs
  BY <1>1 DEF LastOutput, Real
<1>3. Described(info.monitors, Outputs, Prims, a, o)
  BY <1>1 DEF Progress
<1>4. Described(info.monitors, Outputs, Prims, a + 1, 0)
  BY <1>2, <1>3, LastMonitor
<1> QED BY <1>1, <1>4 DEF Progress

LEMMA StepAddAdapter ==
  ASSUME Inv, Progress, AddAdapter
  PROVE  Progress'
<1> USE DEF Inv, TypeOK, PlaceInv
<1> DEFINE longer == IF \E k \in DOMAIN info.adapters : info.adapters[k] = topo[a].desc
                     THEN info.adapters ELSE Append(info.adapters, topo[a].desc)
<1>1. /\ topo' = topo /\ have' = have /\ Outputs' = Outputs /\ Prims' = Prims
      /\ pc = "driver" /\ pc' = "adapter" /\ a' = a
      /\ info' = [info EXCEPT !.adapters = longer]
  BY DEF AddAdapter, Outputs, Prims, Real, Output
<1>2. /\ topo \in Topologies /\ a \in DOMAIN topo /\ ~topo[a].basic
      /\ info.adapters \in Seq(Descs) /\ Kinds(info.adapters, topo, a - 1)
  BY <1>1 DEF Real, Progress
<1>3. Kinds(longer, topo, a)
  BY <1>2, OneKind
<1> HIDE DEF longer
<1>4. info'.level = info.level /\ info'.adapters = longer /\ info'.monitors = info.monitors
  BY <1>1
<1> QED BY <1>1, <1>3, <1>4 DEF Progress

\* Nothing has been collected when the enumeration starts.
LEMMA StepCreateFactory ==
  ASSUME Inv, info = Nothing, CreateFactory, initialized'
  PROVE  Progress'
<1> USE DEF Inv, TypeOK, RefsInv
<1>0. pc' = "adapter" /\ a' = 0
  <2>1. ~initialized
    BY DEF CreateFactory
  <2> QED BY <2>1 DEF CreateFactory
<1>1. /\ topo' = topo /\ have' = have /\ Outputs' = Outputs /\ Prims' = Prims
      /\ pc' = "adapter" /\ a' = 0 /\ info' = info
  BY <1>0 DEF CreateFactory, Outputs, Prims, Real, Output
<1>2. info.level = 0 /\ info.adapters = <<>> /\ info.monitors = <<>>
  BY DEF Nothing
<1>3. topo \in Topologies /\ \A i \in DOMAIN topo : i \in Nat /\ ~(i <= 0)
  BY TopologyFacts
<1>4. Levels(0, topo, have, 0)
  BY <1>3 DEF Levels
<1>5. Kinds(<<>>, topo, 0)
  BY <1>3 DEF Kinds, AllSeen, NoneElse
<1>6. \A y \in Outputs : ~Upto(y, 1, 0)
  <2> SUFFICES ASSUME NEW y \in Outputs PROVE ~Upto(y, 1, 0)
    OBVIOUS
  <2>1. y[1] \in Nat \ {0} /\ y[2] \in Nat \ {0}
    BY <1>3, OutputsPairs
  <2> QED BY <2>1 DEF Upto
<1>7. Described(<<>>, Outputs, Prims, 1, 0)
  BY <1>6 DEF Described
<1>8. a' + 1 = 1
  BY <1>1
<1> QED BY <1>1, <1>2, <1>4, <1>5, <1>7, <1>8 DEF Progress

LEMMA StepProgress ==
  ASSUME Inv, EmptyInv, initialized /\ ~thrown => Progress, [Next]_vars, initialized', ~thrown'
  PROVE  Progress'
<1>1. ~thrown
  BY DEF Next, Run, Enumerate, Leave, Call, LoadLibraries, FindEntryPoints, CreateFactory,
         NextAdapter, NextOutput, LastOutput, AddAdapter, Throw, ReleaseFactory,
         FreeLibrary, Return, vars
<1>2. topo' = topo /\ Outputs' = Outputs /\ Prims' = Prims
  BY Fixed DEF Prims, Output
<1>3. CASE Call \/ ReleaseFactory \/ Return \/ \E m \in Modules : FreeLibrary(m)
  <2>1. /\ UNCHANGED <<initialized, info, have>>
        /\ pc \in {"host", "exit", "free"} /\ pc' \in {"host", "exit", "free", "load"}
        /\ initialized => pc' # "load"
    BY <1>3 DEF Call, ReleaseFactory, Return, FreeLibrary
  <2>2. Progress /\ pc' \in {"host", "exit", "free"}
    BY <1>1, <2>1
  <2>3. Whole(info, topo, have, Outputs, Prims)
    BY <2>1, <2>2 DEF Progress
  <2> QED BY <1>2, <2>1, <2>2, <2>3 DEF Progress
<1>4. CASE LoadLibraries \/ FindEntryPoints
  <2>1. ~initialized /\ initialized' = initialized
    BY <1>4 DEF LoadLibraries, FindEntryPoints, Inv, RefsInv
  <2> QED BY <2>1
<1>5. CASE CreateFactory
  <2>1. ~initialized
    BY <1>5 DEF CreateFactory, Inv, RefsInv
  <2>2. info = Nothing
    BY <2>1 DEF EmptyInv
  <2> QED BY <1>5, <2>2, StepCreateFactory
<1>6. CASE NextAdapter \/ NextOutput \/ LastOutput \/ AddAdapter
  <2>1. initialized' = initialized
    BY <1>6 DEF NextAdapter, NextOutput, LastOutput, AddAdapter
  <2>2. Progress
    BY <1>1, <2>1
  <2> QED BY <1>6, <2>2, StepNextAdapter, StepNextOutput, StepLastOutput, StepAddAdapter
<1>7. CASE Throw
  BY <1>7 DEF Throw
<1>8. CASE UNCHANGED vars
  <2>1. Progress /\ UNCHANGED <<info, pc, have, a, o>>
    BY <1>1, <1>8 DEF vars, locals
  <2> QED BY <1>2, <2>1 DEF Progress
<1> QED BY <1>3, <1>4, <1>5, <1>6, <1>7, <1>8 DEF Next, Run, Enumerate, Leave

\* Before the flag is set nothing is collected, and nobody told otherwise.
LEMMA StepEmpty ==
  ASSUME Inv, EmptyInv, [Next]_vars
  PROVE  EmptyInv'
<1> USE DEF EmptyInv
<1>0. initialized \in BOOLEAN
  BY DEF Inv, TypeOK
<1>1. CASE CreateFactory
  BY <1>1 DEF CreateFactory
<1>2. CASE NextAdapter \/ NextOutput \/ LastOutput \/ AddAdapter \/ Throw
  <2>1. initialized
    BY <1>2 DEF NextAdapter, NextOutput, LastOutput, AddAdapter, Throw, Inv, RefsInv, Enumerating
  <2>2. initialized' = initialized
    BY <1>2 DEF NextAdapter, NextOutput, LastOutput, AddAdapter, Throw
  <2> QED BY <2>1, <2>2
<1>3. CASE Call \/ Return
  <2>1. UNCHANGED <<initialized, info>>
    BY <1>3 DEF Call, Return
  <2>2. ~initialized => \A x \in answers' : x \in answers \/ ~x.filled
    BY <1>0, <1>3 DEF Call, Return
  <2> QED BY <2>1, <2>2
<1>4. CASE UNCHANGED <<initialized, info, answers>>
  BY <1>4
<1>5. \/ LoadLibraries \/ FindEntryPoints \/ ReleaseFactory \/ UNCHANGED vars
      \/ \E m \in Modules : FreeLibrary(m)
      => UNCHANGED <<initialized, info, answers>>
  BY DEF LoadLibraries, FindEntryPoints, ReleaseFactory, FreeLibrary, vars
<1> QED BY <1>1, <1>2, <1>3, <1>4, <1>5 DEF Next, Run, Enumerate, Leave

LEMMA StepAnswers ==
  ASSUME Inv, CollectInv, [Next]_vars
  PROVE  AnswersInv'
<1>1. topo' = topo /\ Outputs' = Outputs /\ Prims' = Prims
  BY Fixed DEF Prims, Output
<1>2. thrown => thrown'
  BY DEF Next, Run, Enumerate, Leave, Call, LoadLibraries, FindEntryPoints, CreateFactory,
         NextAdapter, NextOutput, LastOutput, AddAdapter, Throw, ReleaseFactory,
         FreeLibrary, Return, vars
<1>3. CASE answers' = answers /\ have' = have
  BY <1>1, <1>2, <1>3 DEF CollectInv, AnswersInv
<1>4. CASE FindEntryPoints
  <2>1. ~initialized /\ answers' = answers
    BY <1>4 DEF FindEntryPoints, Inv, RefsInv
  <2> QED BY <2>1 DEF CollectInv, EmptyInv, AnswersInv
<1>5. CASE Call \/ Return
  <2>1. have' = have /\ thrown' = thrown /\ pc \in {"host", "free"}
    BY <1>5 DEF Call, Return
  <2>2. initialized => thrown \/ Whole(info, topo, have, Outputs, Prims)
    BY <2>1 DEF CollectInv, Progress
  <2>3. ~initialized => info = Nothing
    BY DEF CollectInv, EmptyInv
  <2>4. \A x \in answers' : x \in answers \/ (x.info = info /\ (x.filled <=> initialized))
    BY <1>5 DEF Call, Return
  <2>5. ASSUME NEW x \in answers'
        PROVE  IF x.filled THEN thrown \/ Whole(x.info, topo, have, Outputs, Prims)
                           ELSE x.info = Nothing
    BY <2>2, <2>3, <2>4 DEF CollectInv, AnswersInv
  <2> QED BY <1>1, <2>1, <2>5 DEF AnswersInv
<1>6. \/ LoadLibraries \/ CreateFactory \/ NextAdapter \/ NextOutput \/ LastOutput
      \/ AddAdapter \/ Throw \/ ReleaseFactory \/ UNCHANGED vars
      \/ \E m \in Modules : FreeLibrary(m)
      => answers' = answers /\ have' = have
  BY DEF LoadLibraries, CreateFactory, NextAdapter, NextOutput, LastOutput, AddAdapter,
         Throw, ReleaseFactory, FreeLibrary, vars
<1> QED BY <1>3, <1>4, <1>5, <1>6 DEF Next, Run, Enumerate, Leave

\* All of the adapters, and all of their outputs, make the enumeration complete.
LEMMA WholeIsComplete ==
  ASSUME topo \in Topologies, NEW x, Whole(x, topo, have, Outputs, Prims),
         \A p \in DOMAIN x.monitors : x.monitors[p] \in Outputs
  PROVE  Complete(x)
<1>1. /\ Levels(x.level, topo, have, Len(topo)) /\ Kinds(x.adapters, topo, Len(topo))
      /\ Described(x.monitors, Outputs, Prims, Len(topo) + 1, 0)
  BY DEF Whole
<1>2. Len(topo) \in Nat /\ \A i \in DOMAIN topo : i <= Len(topo) /\ i \in Nat
  BY TopologyFacts
<1>3. \A i : Real(i) <=> i \in DOMAIN topo /\ ~topo[i].basic
  BY DEF Real
<1>4. /\ \A i \in DOMAIN topo, api \in have : Real(i) => topo[i].level[api] <= x.level
      /\ \/ x.level = 0
         \/ \E i \in DOMAIN topo, api \in have : Real(i) /\ topo[i].level[api] = x.level
  BY <1>1, <1>2, <1>3 DEF Levels
<1>5. \A y \in Outputs : Upto(y, Len(topo) + 1, 0)
  <2> SUFFICES ASSUME NEW y \in Outputs PROVE Upto(y, Len(topo) + 1, 0)
    OBVIOUS
  <2>1. y[1] \in DOMAIN topo
    BY OutputsPairs DEF Real
  <2> QED BY <1>2, <2>1 DEF Upto
<1>6. {x.monitors[k] : k \in DOMAIN x.monitors} = Outputs
  BY <1>1, <1>5 DEF Described
<1>7. \A j, k \in DOMAIN x.monitors : j < k =>
        /\ x.monitors[j] # x.monitors[k]
        /\ Before(x.monitors[j], x.monitors[k]) \/ Output(x.monitors[j]).primary
  BY <1>1 DEF Described, Prims
<1>8. {x.adapters[k] : k \in DOMAIN x.adapters}
        = {topo[i].desc : i \in {n \in DOMAIN topo : Real(n)}}
  <2>1. ASSUME NEW i \in DOMAIN topo, Real(i)
        PROVE  \E k \in DOMAIN x.adapters : x.adapters[k] = topo[i].desc
    BY <1>1, <1>2, <1>3, <2>1 DEF Kinds, AllSeen
  <2>2. ASSUME NEW k \in DOMAIN x.adapters
        PROVE  \E i \in DOMAIN topo : Real(i) /\ x.adapters[k] = topo[i].desc
    BY <1>1, <1>3 DEF Kinds, NoneElse
  <2> QED BY <2>1, <2>2
<1>9. ASSUME NEW j \in DOMAIN x.adapters, NEW k \in DOMAIN x.adapters, j < k
      PROVE  /\ x.adapters[j] # x.adapters[k]
             /\ \E i \in DOMAIN topo : /\ Real(i) /\ topo[i].desc = x.adapters[j]
                                      /\ \A n \in 1 .. i : Real(n) => topo[n].desc # x.adapters[k]
  BY <1>1, <1>3, <1>9 DEF Kinds, Ahead
<1> QED BY <1>4, <1>6, <1>7, <1>8, <1>9 DEF Complete

\* An answer is an info.
Infos == [level : Nat, adapters : Seq(Descs), monitors : Seq(Outputs)]
AnswerTypes == \A x \in answers : x.info \in Infos

LEMMA StepAnswerTypes ==
  ASSUME Inv, AnswerTypes, [Next]_vars
  PROVE  AnswerTypes'
<1>1. Infos' = Infos /\ info \in Infos
  BY Fixed DEF Infos, Inv, TypeOK
<1>2. \A x \in answers' : x \in answers \/ x.info = info
  <2>1. CASE Call \/ Return
    BY <2>1 DEF Call, Return
  <2>2. Call \/ Return \/ answers' = answers
    BY DEF Next, Run, Enumerate, Leave, LoadLibraries, FindEntryPoints, CreateFactory,
           NextAdapter, NextOutput, LastOutput, AddAdapter, Throw, ReleaseFactory,
           FreeLibrary, vars
  <2> QED BY <2>1, <2>2
<1> QED BY <1>1, <1>2 DEF AnswerTypes

LEMMA Collected == Spec => [](CollectInv /\ AnswerTypes)
<1>1. Init => CollectInv /\ AnswerTypes
  BY DEF Init, CollectInv, EmptyInv, AnswersInv, AnswerTypes
<1>2. Inv /\ CollectInv /\ AnswerTypes /\ [Next]_vars => CollectInv' /\ AnswerTypes'
  <2> SUFFICES ASSUME Inv, CollectInv, AnswerTypes, [Next]_vars
               PROVE  CollectInv' /\ AnswerTypes'
    OBVIOUS
  <2>1. EmptyInv'
    BY StepEmpty DEF CollectInv
  <2>2. initialized' /\ ~thrown' => Progress'
    BY StepProgress DEF CollectInv
  <2>3. AnswersInv'
    BY StepAnswers
  <2>4. AnswerTypes'
    BY StepAnswerTypes
  <2> QED BY <2>1, <2>2, <2>3, <2>4 DEF CollectInv
<1> QED BY <1>1, <1>2, Invariance, PTL DEF Spec

\* Nobody is given half an enumeration unless an exception cut it short: on any
\* machine, an answer of a filled GetD3DInfo holds every output once, each kind of
\* adapter once in order and the highest level, and any other holds nothing.
THEOREM AnswersCompleteAlways == Spec => []AnswersComplete
<1>1. ASSUME Inv, CollectInv, AnswerTypes PROVE AnswersComplete
  <2> SUFFICES ASSUME NEW x \in answers
               PROVE  IF x.filled THEN thrown \/ Complete(x.info) ELSE x.info = Nothing
    BY DEF AnswersComplete
  <2>1. IF x.filled THEN thrown \/ Whole(x.info, topo, have, Outputs, Prims)
                    ELSE x.info = Nothing
    BY <1>1 DEF CollectInv, AnswersInv
  <2>2. \A p \in DOMAIN x.info.monitors : x.info.monitors[p] \in Outputs
    BY <1>1 DEF AnswerTypes, Infos
  <2>3. Whole(x.info, topo, have, Outputs, Prims) => Complete(x.info)
    BY <1>1, <2>2, WholeIsComplete DEF Inv, TypeOK
  <2> QED BY <2>1, <2>3
<1> QED BY <1>1, Invariance, Collected, PTL

-----------------------------------------------------------------------------
(* The refinement of WriteOnce.                                            *)
Cell == IF initialized /\ pc \in {"host", "free"} THEN [filled |-> TRUE, info |-> info] ELSE Miss
Told == [t \in {"host"} |-> answers]

\* A step that neither fills the static nor answers.
LEMMA Quiet ==
  ASSUME Cell' = Cell, answers' = answers
  PROVE  [Once!Next]_(Once!vars)
BY DEF Cell, Once!vars

\* A caller is told what the static holds, or that there was nothing to hold.
LEMMA Tells ==
  ASSUME EmptyInv, initialized \in BOOLEAN, pc \in {"host", "free"}, Cell' = Cell,
         answers' = answers \cup {[filled |-> initialized, info |-> info]}
  PROVE  [Once!Next]_(Once!vars)
<1>1. Told' = [Told EXCEPT !["host"] = @ \cup {[filled |-> initialized, info |-> info]}]
  BY DEF Told
<1>2. CASE initialized
  <2>1. Cell = [filled |-> TRUE, info |-> info] /\ initialized = TRUE
    BY <1>2 DEF Cell
  <2>2. Cell # Miss
    BY <2>1 DEF Miss
  <2>3. Once!Answer("host")
    BY <1>1, <2>1, <2>2 DEF Once!Answer, Cell, Told
  <2> QED BY <2>3 DEF Once!Next
<1>3. CASE ~initialized
  <2>1. Cell = Miss /\ [filled |-> initialized, info |-> info] = Miss
    BY <1>3 DEF Cell, Miss, EmptyInv
  <2>2. Once!Miss("host")
    BY <1>1, <2>1 DEF Once!Miss, Cell, Told
  <2> QED BY <2>2 DEF Once!Next
<1> QED BY <1>2, <1>3

LEMMA StepWriteOnce ==
  ASSUME Inv, EmptyInv, [Next]_vars
  PROVE  [Once!Next]_(Once!vars)
<1>0. initialized \in BOOLEAN
  BY DEF Inv, TypeOK
<1>1. CASE Call
  <2>1. CASE initialized
    <3>1. Cell' = Cell /\ pc = "host"
      BY <1>1, <2>1 DEF Call, Cell, Miss
    <3>2. answers' = answers \cup {[filled |-> initialized, info |-> info]}
      BY <1>0, <1>1, <2>1 DEF Call
    <3> QED BY <1>0, <3>1, <3>2, Tells
  <2>2. CASE ~initialized
    <3>1. Cell' = Cell /\ answers' = answers
      BY <1>1, <2>2 DEF Call, Cell, Miss
    <3> QED BY <3>1, Quiet
  <2> QED BY <2>1, <2>2
<1>2. CASE LoadLibraries \/ FindEntryPoints \/ CreateFactory
  <2>1. /\ ~initialized /\ pc \notin {"host", "free"} /\ pc' \notin {"host", "free"}
        /\ answers' = answers
    BY <1>2 DEF LoadLibraries, FindEntryPoints, CreateFactory, Inv, RefsInv
  <2>2. Cell = Miss /\ Cell' = Miss
    BY <2>1 DEF Cell, Miss
  <2> QED BY <2>1, <2>2, Quiet
<1>3. CASE NextAdapter \/ NextOutput \/ LastOutput \/ AddAdapter \/ Throw
  <2>1. /\ pc \notin {"host", "free"} /\ pc' \notin {"host", "free"}
        /\ answers' = answers
    BY <1>3 DEF NextAdapter, NextOutput, LastOutput, AddAdapter, Throw
  <2>2. Cell = Miss /\ Cell' = Miss
    BY <2>1 DEF Cell, Miss
  <2> QED BY <2>1, <2>2, Quiet
<1>4. CASE ReleaseFactory
  <2>1. /\ pc = "exit" /\ pc' = "free"
        /\ UNCHANGED <<initialized, info, answers>>
    BY <1>4 DEF ReleaseFactory
  <2>2. Cell = Miss
    BY <2>1 DEF Cell
  <2>3. CASE initialized
    <3>1. Cell' = [filled |-> TRUE, info |-> info]
      BY <2>1, <2>3 DEF Cell
    <3>2. info.monitors \in Seq(Nat \X Nat)
      <4>1. Outputs \subseteq Nat \X Nat
        BY OutputsPairs DEF Inv, TypeOK
      <4> QED BY <4>1 DEF Inv, TypeOK
    <3>3. [filled |-> TRUE, info |-> info]
            \in [filled : {TRUE},
                 info : [level : Nat, adapters : Seq(Descs), monitors : Seq(Nat \X Nat)]]
      BY <3>2 DEF Inv, TypeOK
    <3>4. Told' = Told
      BY <2>1 DEF Told
    <3>5. Once!Publish
      BY <2>2, <3>1, <3>3, <3>4 DEF Once!Publish, Cell, Told
    <3> QED BY <3>5 DEF Once!Next
  <2>4. CASE ~initialized
    <3>1. Cell' = Miss
      BY <2>1, <2>4 DEF Cell, Miss
    <3> QED BY <2>1, <2>2, <3>1, Quiet
  <2> QED BY <2>3, <2>4
<1>5. ASSUME NEW m \in Modules, FreeLibrary(m) PROVE [Once!Next]_(Once!vars)
  <2>1. Cell' = Cell /\ answers' = answers
    BY <1>5 DEF FreeLibrary, Cell, Miss
  <2> QED BY <2>1, Quiet
<1>6. CASE Return
  <2>1. /\ pc = "free" /\ pc' = "host" /\ UNCHANGED <<initialized, info>>
        /\ answers' \in {answers, answers \cup {[filled |-> initialized, info |-> info]}}
    BY <1>6 DEF Return
  <2>2. Cell' = Cell
    BY <2>1 DEF Cell, Miss
  <2>3. CASE answers' = answers
    BY <2>2, <2>3, Quiet
  <2>4. CASE answers' = answers \cup {[filled |-> initialized, info |-> info]}
    BY <1>0, <2>1, <2>2, <2>4, Tells
  <2> QED BY <2>1, <2>3, <2>4
<1>7. CASE UNCHANGED vars
  <2>1. Cell' = Cell /\ answers' = answers
    BY <1>7 DEF vars, Cell, Miss
  <2> QED BY <2>1, Quiet
<1> QED BY <1>1, <1>2, <1>3, <1>4, <1>5, <1>6, <1>7 DEF Next, Run, Enumerate, Leave

\* The static of GetD3DInfo is filled at most once, by the call that reached DXGI,
\* and every answer after that is that one; a call before it may fail and is
\* told nothing.
THEOREM ImplementsWriteOnceAlways == Spec => ImplementsWriteOnce
<1>1. Init => Once!Init
  <2> SUFFICES ASSUME Init PROVE Once!Init
    OBVIOUS
  <2>1. Cell = Miss /\ Told = [t \in {"host"} |-> {}]
    BY DEF Init, Cell, Told
  <2> QED BY <2>1 DEF Once!Init, Cell, Told
<1>2. Inv /\ CollectInv /\ [Next]_vars => [Once!Next]_(Once!vars)
  BY StepWriteOnce DEF CollectInv
<1> QED BY <1>1, <1>2, Invariance, Collected, PTL DEF Spec, ImplementsWriteOnce, Once!Spec
=============================================================================
