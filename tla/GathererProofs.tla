--------------------------- MODULE GathererProofs ---------------------------
(***************************************************************************)
(* What is proved of Gatherer, for every set of machines: the report is    *)
(* typed, its sections agree, it speaks of one enumeration, and only a     *)
(* failure or an exception in an enumeration makes it incomplete.          *)
(***************************************************************************)
EXTENDS Gatherer, TLAPS

\* GetD3DInfo changes its statics only from unfilled to whole.
LEMMA Enumeration ==
  ASSUME NEW info, GetD3DInfo(info)
  PROVE  /\ (displays' = displays \/ (~displays.filled /\ displays' = Whole))
         /\ \/ info = displays' /\ displays'.filled /\ failed' = failed
            \/ info = Unfilled /\ displays' = displays /\ ~displays.filled /\ failed' = TRUE
<1>1. Whole.filled = TRUE
  BY DEF Whole
<1>2. CASE displays.filled /\ info = displays /\ UNCHANGED <<displays, failed>>
  BY <1>2
<1>3. CASE ~displays.filled /\ info = Unfilled /\ failed' = TRUE /\ UNCHANGED displays
  BY <1>3
<1>4. CASE ~displays.filled /\ info = Whole /\ displays' = Whole /\ UNCHANGED failed
  BY <1>1, <1>4
<1> QED BY <1>2, <1>3, <1>4 DEF GetD3DInfo

-----------------------------------------------------------------------------
LEMMA BlankType == Blank \in Report
BY DEF Blank, Report, Hypervisors

LEMMA InitType == Init => TypeOK
<1> SUFFICES ASSUME Init PROVE TypeOK
  OBVIOUS
<1>1. machine \in Machine /\ machine \in Machines
  BY GathererAssumption DEF Init
<1>2. attached \in 0 .. Sockets
  BY <1>1 DEF Init, Machine, Sockets
<1> QED
  BY <1>1, <1>2, BlankType DEF Init, TypeOK

Displays == {Unfilled} \cup
  [filled : {TRUE}, monitors : 0 .. Sockets, gpus : 0 .. machine.gpus, level : {0, machine.level}]

LEMMA DisplayTypes ==
  ASSUME TypeOK
  PROVE  /\ machine \in Machine /\ machine \in Machines
         /\ displays \in Displays /\ Whole \in Displays /\ Cuts \subseteq Displays
         /\ \A x \in Displays : /\ x.monitors \in Nat /\ x.gpus \in Nat /\ x.level \in Nat
<1>1. machine \in Machine /\ machine \in Machines
  BY GathererAssumption DEF TypeOK
<1>2. displays \in Displays
  BY DEF TypeOK, Displays
<1>3. Whole \in Displays
  BY <1>1 DEF TypeOK, Displays, Whole, Machine
<1>4. ASSUME NEW x \in Cuts PROVE x \in Displays
  <2>1. PICK i \in 0 .. attached, k \in 0 .. machine.gpus, l \in {0, machine.level} :
          x = [filled |-> TRUE, monitors |-> i, gpus |-> k, level |-> l]
    BY DEF Cuts
  <2>2. attached \in 0 .. Sockets /\ machine.monitors \in Nat
    BY <1>1 DEF TypeOK, Machine
  <2>3. i \in 0 .. Sockets
    BY <2>2 DEF Sockets
  <2> QED BY <2>1, <2>3 DEF Displays
<1>5. ASSUME NEW x \in Displays
      PROVE  x.monitors \in Nat /\ x.gpus \in Nat /\ x.level \in Nat
  <2>1. Unfilled \in [filled : {FALSE}, monitors : Nat, gpus : Nat, level : Nat]
    BY DEF Unfilled
  <2>2. machine.gpus \in Nat /\ machine.level \in Nat /\ Sockets \in Nat
    BY <1>1 DEF Machine, Sockets
  <2>3. CASE x = Unfilled
    BY <2>1, <2>3
  <2>4. CASE x \in [filled : {TRUE}, monitors : 0 .. Sockets, gpus : 0 .. machine.gpus,
                    level : {0, machine.level}]
    <3>1. x.monitors \in 0 .. Sockets
          /\ x.gpus \in 0 .. machine.gpus /\ x.level \in {0, machine.level}
      BY <2>4
    <3> QED BY <2>2, <3>1
  <2> QED BY <2>3, <2>4 DEF Displays
<1> QED BY <1>1, <1>2, <1>3, <1>4, <1>5

LEMMA ReportTypes ==
  ASSUME NEW r \in Report, NEW n \in Nat
  PROVE  /\ [r EXCEPT !.monitors = n] \in Report /\ [r EXCEPT !.gpus = n] \in Report
         /\ [r EXCEPT !.level = n] \in Report /\ [r EXCEPT !.drives = n] \in Report
         /\ [r EXCEPT !.count = n] \in Report
BY DEF Report

\* The words of bitness.
LEMMA Bitness ==
  ASSUME TypeOK
  PROVE  /\ machine.process \in {32, 64} /\ GetOSBitness \in {32, 64} /\ GetCPUBitness \in {32, 64}
         /\ machine.process <= GetOSBitness /\ GetOSBitness <= GetCPUBitness
<1>1. machine.process \in {32, 64} /\ machine.os \in {32, 64} /\ machine.cpu \in {32, 64}
  BY DisplayTypes DEF Machine
<1> QED BY <1>1 DEF GetOSBitness, GetCPUBitness

LEMMA AskDisplaysType ==
  ASSUME TypeOK, NEW field \in {"monitors", "gpus", "level"}, NEW next \in Order,
         AskDisplays(field, next), UNCHANGED <<attached, drifted>>
  PROVE  TypeOK'
<1>1. \A x \in Displays : x[field] \in Nat
  BY DisplayTypes
<1>2. machine' = machine /\ Displays' = Displays
  BY DEF AskDisplays, Displays, Sockets, Unfilled
<1>3. /\ displays' \in Displays /\ report' \in Report /\ failed' \in BOOLEAN
  <2>1. CASE UNCHANGED <<displays, failed, report>>
    BY <2>1, DisplayTypes DEF TypeOK
  <2>2. ASSUME NEW info \in {Whole, Unfilled, displays}, GetD3DInfo(info),
               report' = [report EXCEPT ![field] = info[field]]
        PROVE  displays' \in Displays /\ report' \in Report /\ failed' \in BOOLEAN
    <3>1. displays' \in Displays
      BY <2>2, Enumeration, DisplayTypes
    <3>2. info \in Displays
      BY DisplayTypes DEF Displays
    <3>3. report' \in Report
      BY <1>1, <2>2, <3>2, ReportTypes DEF TypeOK
    <3>4. failed' \in BOOLEAN
      BY <2>2 DEF GetD3DInfo, TypeOK
    <3> QED BY <3>1, <3>3, <3>4
  <2> QED BY <2>1, <2>2 DEF AskDisplays
<1>4. pc' \in Order /\ UNCHANGED <<measured, secured, data, cut>>
  BY DEF AskDisplays
<1> QED
  BY <1>2, <1>3, <1>4 DEF TypeOK, Displays, Unfilled, Sockets

LEMMA NextType == TypeOK /\ [Next]_vars => TypeOK'
<1> SUFFICES ASSUME TypeOK, [Next]_vars PROVE TypeOK'
  OBVIOUS
<1>1. CASE UNCHANGED vars
  BY <1>1 DEF vars, TypeOK, Unfilled, Sockets
<1>2. CASE Replug
  <2>1. attached' \in 0 .. Sockets
    BY <1>2 DEF Replug
  <2>2. drifted' \in BOOLEAN
    BY <1>2 DEF Replug
  <2> QED
    BY <1>2, <2>1, <2>2 DEF Replug, TypeOK, Unfilled, Sockets
<1> DEFINE Still == UNCHANGED <<attached, drifted>>
<1>3. CASE Begin /\ Still
  <2>1. [Blank EXCEPT !.process = machine.process] \in Report
    BY BlankType, DisplayTypes DEF Report, Machine
  <2> QED
    BY <1>3, <2>1 DEF Begin, TypeOK, Unfilled, Sockets, Order
<1>4. CASE Monitors /\ Still
  BY <1>4, AskDisplaysType DEF Monitors, Order
<1>5. CASE GPUs /\ Still
  BY <1>5, AskDisplaysType DEF GPUs, Order
<1>6. CASE GraphicsAPIs /\ Still
  BY <1>6, AskDisplaysType DEF GraphicsAPIs, Order
<1>7. CASE HardDrives /\ Still
  <2>1. PICK n \in {0, machine.drives} :
          GetHardDriveInfo(n) /\ report' = [report EXCEPT !.drives = n]
    BY <1>7 DEF HardDrives
  <2>2. n \in Nat /\ machine.forgets \in BOOLEAN
    BY DisplayTypes DEF Machine
  <2>3. report' \in Report
    BY <2>1, <2>2, ReportTypes DEF TypeOK
  <2>4. secured' \in BOOLEAN /\ failed' \in BOOLEAN
    BY <2>1, <2>2 DEF GetHardDriveInfo, TypeOK
  <2> QED
    BY <1>7, <2>3, <2>4 DEF HardDrives, TypeOK, Unfilled, Sockets, Order
<1>8. CASE OperatingSystem /\ Still
  <2>1. report' \in Report
    BY <1>8, Bitness DEF OperatingSystem, TypeOK, Report
  <2> QED
    BY <1>8, <2>1 DEF OperatingSystem, TypeOK, Unfilled, Sockets, Order
<1>9. CASE CPU /\ Still
  <2>1. report' \in Report
    BY <1>9, Bitness DEF CPU, TypeOK, Report
  <2> QED
    BY <1>9, <2>1 DEF CPU, TypeOK, Unfilled, Sockets, Order
<1>10. CASE SuspectedVM /\ Still
  <2>1. PICK verdict \in BOOLEAN :
          /\ HasVMExecutionTiming(verdict)
          /\ report' = [report EXCEPT !.suspected = IsSuspectedVM(verdict)]
    BY <1>10 DEF SuspectedVM
  <2>2. report' \in Report
    BY <2>1 DEF TypeOK, Report, IsSuspectedVM
  <2>3. measured' \in {{}, {TRUE}, {FALSE}}
    BY <2>1 DEF HasVMExecutionTiming, TypeOK
  <2> QED
    BY <1>10, <2>2, <2>3 DEF SuspectedVM, TypeOK, Unfilled, Sockets, Order
<1>11. CASE VMSigns /\ Still
  <2>1. HasHypervisorBit \in BOOLEAN /\ IsHyperVGuestOS \in BOOLEAN
    BY DEF HasHypervisorBit, IsHyperVGuestOS
  <2>2. machine.hypervisor \in Hypervisors
    BY DisplayTypes DEF Machine
  <2>3. report' \in Report
    BY <1>11, <2>1, <2>2 DEF VMSigns, TypeOK, Report
  <2> QED
    BY <1>11, <2>3 DEF VMSigns, TypeOK, Unfilled, Sockets, Order
<1>12. CASE VMTiming /\ Still
  <2>1. PICK verdict \in BOOLEAN :
          HasVMExecutionTiming(verdict) /\ report' = [report EXCEPT !.timing = verdict]
    BY <1>12 DEF VMTiming
  <2>2. report' \in Report
    BY <2>1 DEF TypeOK, Report
  <2>3. measured' \in {{}, {TRUE}, {FALSE}}
    BY <2>1 DEF HasVMExecutionTiming, TypeOK
  <2> QED
    BY <1>12, <2>2, <2>3 DEF VMTiming, TypeOK, Unfilled, Sockets, Order
<1>13. CASE MonitorCount /\ Still
  <2>1. attached \in Nat
    BY DisplayTypes DEF TypeOK, Sockets, Machine
  <2> QED
    BY <1>13, <2>1, ReportTypes DEF MonitorCount, TypeOK, Unfilled, Sockets, Order
<1>14. CASE Deliver /\ Still
  BY <1>14 DEF Deliver, TypeOK, Unfilled, Sockets
<1>15. CASE Throw /\ Still
  BY <1>15 DEF Throw, TypeOK, Unfilled, Sockets
<1>16. CASE CutShort /\ Still
  <2>1. displays' \in Displays
    BY <1>16, DisplayTypes DEF CutShort
  <2> QED
    BY <1>16, <2>1 DEF CutShort, TypeOK, Unfilled, Sockets, Displays
<1>17. CASE HostAsks /\ Still
  <2> DEFINE Typed == /\ displays' \in Displays /\ measured' \in {{}, {TRUE}, {FALSE}}
                      /\ secured' \in BOOLEAN /\ failed' \in BOOLEAN
  <2>1. Typed
    <3>1. ASSUME NEW info \in {Whole, Unfilled, displays}, GetD3DInfo(info),
                 UNCHANGED <<measured, secured>>
          PROVE  Typed
      BY <3>1, Enumeration, DisplayTypes DEF GetD3DInfo, TypeOK
    <3>2. ASSUME NEW verdict \in BOOLEAN, HasVMExecutionTiming(verdict),
                 UNCHANGED <<displays, secured, failed>>
          PROVE  Typed
      BY <3>2, DisplayTypes DEF HasVMExecutionTiming, TypeOK
    <3>3. ASSUME NEW n \in {0, machine.drives}, GetHardDriveInfo(n),
                 UNCHANGED <<displays, measured>>
          PROVE  Typed
      BY <3>3, DisplayTypes DEF GetHardDriveInfo, TypeOK, Machine
    <3> HIDE DEF Typed
    <3> QED BY <1>17, <3>1, <3>2, <3>3 DEF HostAsks
  <2> QED
    BY <1>17, <2>1 DEF HostAsks, TypeOK, Unfilled, Sockets, Displays
<1> QED
  BY <1>1, <1>2, <1>3, <1>4, <1>5, <1>6, <1>7, <1>8, <1>9, <1>10, <1>11, <1>12, <1>13,
     <1>14, <1>15, <1>16, <1>17 DEF Next, Call, Gather

\* Every field of a report and every static keeps its type.
THEOREM TypeCorrect == Spec => []TypeOK
BY InitType, NextType, PTL DEF Spec

-----------------------------------------------------------------------------
(* The bitness and the signs of a virtual machine, as far as the report being *)
(* put together has them: what is said twice was measured once.               *)
SectionsInv ==
  /\ pc # "host" => report.process = machine.process
  /\ pc \in {"cpu", "suspected", "signs", "timing", "count", "done"} =>
       report.os = GetOSBitness
  /\ pc \in {"suspected", "signs", "timing", "count", "done"} => report.cpu = GetCPUBitness
  /\ pc \in {"signs", "timing", "count", "done"} =>
       \E verdict \in BOOLEAN :
         measured = {verdict} /\ report.suspected = IsSuspectedVM(verdict)
  /\ pc \in {"timing", "count", "done"} =>
       /\ report.bit = HasHypervisorBit /\ report.guest = IsHyperVGuestOS
       /\ report.hypervisor = machine.hypervisor
  /\ pc \in {"count", "done"} => measured = {report.timing}
  /\ SectionsAgree

LEMMA InitSections == Init => SectionsInv
BY DEF Init, SectionsInv, SectionsAgree, Told

LEMMA DoneAgrees ==
  ASSUME TypeOK, SectionsInv, pc = "done"
  PROVE  /\ report.suspected <=> \/ report.timing \/ report.guest
                                 \/ report.bit /\ report.hypervisor # "Microsoft Hv"
         /\ report.process <= report.os /\ report.os <= report.cpu
<1>1. PICK verdict \in BOOLEAN :
        measured = {verdict} /\ report.suspected = IsSuspectedVM(verdict)
  BY DEF SectionsInv
<1>2. report.timing = verdict
  BY <1>1 DEF SectionsInv
<1>3. report.bit = HasHypervisorBit /\ report.guest = IsHyperVGuestOS
      /\ report.hypervisor = machine.hypervisor
  BY DEF SectionsInv
<1>4. report.suspected <=> \/ report.timing \/ report.guest
                           \/ report.bit /\ report.hypervisor # "Microsoft Hv"
  BY <1>1, <1>2, <1>3, Zenon DEF IsSuspectedVM
<1> QED BY <1>4, Bitness DEF SectionsInv

\* Whoever asks, there is one verdict.
LEMMA Measured ==
  ASSUME TypeOK, NEW verdict \in BOOLEAN, HasVMExecutionTiming(verdict)
  PROVE  measured' = {verdict}
BY DEF HasVMExecutionTiming, TypeOK

LEMMA NextSections == TypeOK /\ SectionsInv /\ [Next]_vars => SectionsInv'
<1> SUFFICES ASSUME TypeOK, SectionsInv, [Next]_vars PROVE SectionsInv'
  OBVIOUS
<1> USE DEF GetOSBitness, GetCPUBitness, IsSuspectedVM, HasHypervisorBit, IsHyperVGuestOS
<1>1. CASE UNCHANGED vars
  BY <1>1 DEF vars, SectionsInv, SectionsAgree, Told
<1>2. CASE Replug
  BY <1>2 DEF Replug, SectionsInv, SectionsAgree, Told
<1>3. CASE Begin
  BY <1>3 DEF Begin, Blank, SectionsInv, SectionsAgree, Told
<1>4. ASSUME Monitors \/ GPUs \/ GraphicsAPIs PROVE SectionsInv'
  <2>1. PICK field \in {"monitors", "gpus", "level"}, next \in {"gpus", "drives", "os"} :
          AskDisplays(field, next)
    BY <1>4 DEF Monitors, GPUs, GraphicsAPIs
  <2>2. pc # "host" /\ pc' = next /\ UNCHANGED <<machine, data>>
    BY <2>1 DEF AskDisplays
  <2>3. report'.process = report.process
    BY <2>1 DEF AskDisplays, TypeOK, Report
  <2> QED BY <2>2, <2>3 DEF SectionsInv, SectionsAgree, Told
<1>5. CASE HardDrives
  BY <1>5 DEF HardDrives, TypeOK, Report, SectionsInv, SectionsAgree, Told
<1>6. CASE OperatingSystem
  BY <1>6 DEF OperatingSystem, TypeOK, Report, SectionsInv, SectionsAgree, Told
<1>7. CASE CPU
  BY <1>7 DEF CPU, TypeOK, Report, SectionsInv, SectionsAgree, Told
<1>8. CASE SuspectedVM
  <2>1. PICK verdict \in BOOLEAN :
          /\ HasVMExecutionTiming(verdict)
          /\ report' = [report EXCEPT !.suspected = IsSuspectedVM(verdict)]
    BY <1>8 DEF SuspectedVM
  <2>2. measured' = {verdict}
    BY <2>1, Measured
  <2>3. /\ report'.suspected = IsSuspectedVM(verdict) /\ report'.process = report.process
        /\ report'.os = report.os /\ report'.cpu = report.cpu
    BY <2>1 DEF TypeOK, Report
  <2>4. pc = "suspected" /\ pc' = "signs" /\ UNCHANGED <<machine, data>>
    BY <1>8 DEF SuspectedVM
  <2> QED
    BY <2>2, <2>3, <2>4 DEF SectionsInv, SectionsAgree, Told
<1>9. CASE VMSigns
  <2>1. /\ report'.bit = HasHypervisorBit /\ report'.guest = IsHyperVGuestOS
        /\ report'.hypervisor = machine.hypervisor /\ report'.suspected = report.suspected
        /\ report'.process = report.process
        /\ report'.os = report.os /\ report'.cpu = report.cpu
    BY <1>9 DEF VMSigns, TypeOK, Report
  <2>2. pc = "signs" /\ pc' = "timing" /\ UNCHANGED <<machine, measured, data>>
    BY <1>9 DEF VMSigns
  <2> QED
    BY <2>1, <2>2 DEF SectionsInv, SectionsAgree, Told
<1>10. CASE VMTiming
  <2>1. PICK verdict \in BOOLEAN :
          HasVMExecutionTiming(verdict) /\ report' = [report EXCEPT !.timing = verdict]
    BY <1>10 DEF VMTiming
  <2>2. PICK first \in BOOLEAN :
          measured = {first} /\ report.suspected = IsSuspectedVM(first)
    BY <1>10 DEF VMTiming, SectionsInv
  <2>3. measured' = {verdict} /\ measured' = measured
    BY <2>1, <2>2, Measured DEF HasVMExecutionTiming
  <2>4. /\ report'.timing = verdict /\ report'.suspected = report.suspected
        /\ report'.bit = report.bit /\ report'.guest = report.guest
        /\ report'.hypervisor = report.hypervisor /\ report'.process = report.process
        /\ report'.os = report.os /\ report'.cpu = report.cpu
    BY <2>1 DEF TypeOK, Report
  <2>5. pc = "timing" /\ pc' = "count" /\ UNCHANGED <<machine, data>>
    BY <1>10 DEF VMTiming
  <2> QED
    BY <2>2, <2>3, <2>4, <2>5 DEF SectionsInv, SectionsAgree, Told
<1>11. CASE MonitorCount
  <2>1. /\ report'.timing = report.timing /\ report'.suspected = report.suspected
        /\ report'.bit = report.bit /\ report'.guest = report.guest
        /\ report'.hypervisor = report.hypervisor /\ report'.process = report.process
        /\ report'.os = report.os /\ report'.cpu = report.cpu
    BY <1>11 DEF MonitorCount, TypeOK, Report
  <2>2. pc = "count" /\ pc' = "done" /\ UNCHANGED <<machine, measured, data>>
    BY <1>11 DEF MonitorCount
  <2> QED
    BY <2>1, <2>2 DEF SectionsInv, SectionsAgree, Told
<1>12. CASE Deliver
  BY <1>12, DoneAgrees DEF Deliver, SectionsInv, SectionsAgree, Told
<1>13. CASE Throw \/ CutShort
  BY <1>13 DEF Throw, CutShort, SectionsInv, SectionsAgree, Told
<1>14. CASE HostAsks
  BY <1>14 DEF HostAsks, SectionsInv, SectionsAgree, Told
<1> QED
  BY <1>1, <1>2, <1>3, <1>4, <1>5, <1>6, <1>7, <1>8, <1>9, <1>10, <1>11, <1>12, <1>13, <1>14
  DEF Next, Call, Gather

\* In every report, IS_SUSPECTED_VM agrees with the signs beside it, and the
\* process is of no more bits than the system, the system of no more than the
\* processor.
THEOREM SectionsAgreeAlways == Spec => []SectionsAgree
<1>1. SectionsInv => SectionsAgree
  BY DEF SectionsInv
<1> QED BY <1>1, InitType, NextType, InitSections, NextSections, PTL DEF Spec

-----------------------------------------------------------------------------
(* The displays: what the half-made report has of them is what the statics  *)
(* hold, and they change no more once they are filled.                       *)
Late == {"os", "cpu", "suspected", "signs", "timing", "count", "done"}

LEMMA FilledStays ==
  ASSUME TypeOK, [Next]_vars, displays.filled
  PROVE  displays' = displays
<1>1. ASSUME NEW info, GetD3DInfo(info) PROVE displays' = displays
  BY <1>1, Enumeration
<1>2. ASSUME NEW field, NEW next, AskDisplays(field, next) PROVE displays' = displays
  BY <1>1, <1>2 DEF AskDisplays
<1>3. CASE HostAsks
  BY <1>1, <1>3 DEF HostAsks
<1>4. CASE Gather
  BY <1>2, <1>4 DEF Gather, Begin, Monitors, GPUs, HardDrives, GraphicsAPIs, OperatingSystem,
                   CPU, SuspectedVM, VMSigns, VMTiming, MonitorCount, Deliver
<1>5. CASE Replug \/ Throw \/ CutShort \/ UNCHANGED vars
  BY <1>5 DEF Replug, Throw, CutShort, vars
<1> QED BY <1>3, <1>4, <1>5 DEF Next, Call

\* The steps between the level and the end that count nothing.
LEMMA NothingCounted ==
  ASSUME TypeOK, OperatingSystem \/ CPU \/ SuspectedVM \/ VMSigns \/ VMTiming
  PROVE  /\ pc \in Late /\ pc' \in Late \ {"done"}
         /\ UNCHANGED <<machine, displays, secured, data, failed, cut>>
         /\ report'.monitors = report.monitors /\ report'.gpus = report.gpus
         /\ report'.level = report.level /\ report'.drives = report.drives
<1>1. CASE OperatingSystem \/ CPU
  BY <1>1 DEF OperatingSystem, CPU, TypeOK, Report, Late
<1>2. CASE SuspectedVM \/ VMSigns \/ VMTiming
  BY <1>2 DEF SuspectedVM, VMSigns, VMTiming, TypeOK, Report, Late
<1> QED BY <1>1, <1>2

\* GetMonitorsInfo, GetGPUInfo and GetD3DHighestSupport copy their own field, of
\* what is enumerated or of nothing, and leave the others alone.
Fields == {"monitors", "gpus", "level"}
Copied(field) ==
  /\ \A other \in (Fields \cup {"drives"}) \ {field} : report'[other] = report[other]
  /\ \/ /\ displays'.filled /\ failed' = failed /\ report'[field] = displays'[field]
        /\ displays' = displays \/ (~displays.filled /\ displays' = Whole)
     \/ /\ ~displays.filled /\ displays' = displays /\ failed' = TRUE
        /\ report'[field] = 0

LEMMA Asked ==
  ASSUME TypeOK, NEW field \in Fields, NEW next, AskDisplays(field, next)
  PROVE  /\ pc = field /\ pc' = next /\ UNCHANGED <<machine, secured, data, cut>>
         /\ \/ ~(Lists \/ field = "level") /\ UNCHANGED <<displays, failed, report>>
            \/ (Lists \/ field = "level") /\ Copied(field)
<1>1. ASSUME NEW info, GetD3DInfo(info), report' = [report EXCEPT ![field] = info[field]]
      PROVE  Copied(field)
  <2>1. \A other \in (Fields \cup {"drives"}) \ {field} : report'[other] = report[other]
    BY <1>1 DEF TypeOK, Report, Fields
  <2>2. report'[field] = info[field]
    BY <1>1 DEF TypeOK, Report, Fields
  <2>3. Unfilled[field] = 0
    BY DEF Unfilled, Fields
  <2> QED BY <1>1, <2>1, <2>2, <2>3, Enumeration DEF Copied
<1> HIDE DEF Copied
<1> QED BY <1>1 DEF AskDisplays

Enumerated(r) ==
  /\ r.monitors # 0 => displays.filled /\ r.monitors = displays.monitors
  /\ r.gpus # 0 => displays.filled /\ r.gpus = displays.gpus

Carried(r) ==
  /\ Enumerated(r)
  /\ r.level # 0 => displays.filled /\ r.level = displays.level
  /\ r.monitors # 0 => r.gpus = displays.gpus
  /\ r.monitors # 0 \/ r.gpus # 0 => r.level = displays.level

EnumInv ==
  /\ pc = "monitors" => report.monitors = 0
  /\ pc \in {"monitors", "gpus"} => report.gpus = 0
  /\ pc = "gpus" /\ ~Lists => report.monitors = 0
  /\ pc # "host" => Enumerated(report)
  /\ pc \in {"drives", "level"} /\ report.monitors # 0 => report.gpus = displays.gpus
  /\ pc \in Late => Carried(report)
  /\ Told => Carried(data)

LEMMA InitEnum == Init => EnumInv
BY DEF Init, EnumInv, Told, Late

LEMMA NextEnum == TypeOK /\ EnumInv /\ [Next]_vars => EnumInv'
<1> SUFFICES ASSUME TypeOK, EnumInv, [Next]_vars PROVE EnumInv'
  OBVIOUS
<1> USE DEF Enumerated, Carried
<1>1. Told => Carried(data)
  BY DEF EnumInv
<1>2. ASSUME data' = data PROVE Told' => Carried(data)'
  BY <1>1, <1>2, FilledStays DEF Told
<1>3. ASSUME UNCHANGED <<machine, report, pc, data>> PROVE EnumInv'
  BY <1>2, <1>3, FilledStays DEF EnumInv, Late, Lists
<1>4. ASSUME data' = data, pc' = "host" PROVE EnumInv'
  BY <1>2, <1>4 DEF EnumInv, Late
<1>5. CASE Begin
  <2>1. report'.monitors = 0 /\ report'.gpus = 0
    BY <1>5 DEF Begin, Blank
  <2>2. pc' = "monitors" /\ data' = data
    BY <1>5 DEF Begin
  <2> QED BY <1>2, <2>1, <2>2 DEF EnumInv, Late
<1>6. CASE Monitors
  <2>1. AskDisplays("monitors", "gpus")
    BY <1>6 DEF Monitors
  <2>2. /\ pc = "monitors" /\ pc' = "gpus" /\ UNCHANGED <<machine, data>>
        /\ displays.filled => displays' = displays
        /\ report'.gpus = report.gpus
        /\ \/ ~Lists /\ UNCHANGED <<displays, report>>
           \/ Lists /\ displays'.filled /\ report'.monitors = displays'.monitors
           \/ ~displays.filled /\ displays' = displays /\ report'.monitors = 0
    BY <2>1, Asked, FilledStays DEF Copied, Fields
  <2> QED BY <1>2, <2>2 DEF EnumInv, Late, Lists
<1>7. CASE GPUs
  <2>1. AskDisplays("gpus", "drives")
    BY <1>7 DEF GPUs
  <2>2. /\ pc = "gpus" /\ pc' = "drives" /\ data' = data
        /\ displays.filled => displays' = displays
        /\ report'.monitors = report.monitors
        /\ \/ ~Lists /\ UNCHANGED <<displays, report>>
           \/ displays'.filled /\ report'.gpus = displays'.gpus
           \/ ~displays.filled /\ displays' = displays /\ report'.gpus = 0
    BY <2>1, Asked, FilledStays DEF Copied, Fields
  <2> QED BY <1>2, <2>2 DEF EnumInv, Late
<1>8. CASE HardDrives
  <2>1. report'.monitors = report.monitors /\ report'.gpus = report.gpus
    BY <1>8 DEF HardDrives, TypeOK, Report
  <2>2. pc = "drives" /\ pc' = "level" /\ UNCHANGED <<displays, data>>
    BY <1>8 DEF HardDrives
  <2> QED BY <1>2, <2>1, <2>2 DEF EnumInv, Late
<1>9. CASE GraphicsAPIs
  <2>1. AskDisplays("level", "os")
    BY <1>9 DEF GraphicsAPIs
  <2>2. /\ pc = "level" /\ pc' = "os" /\ data' = data
        /\ displays.filled => displays' = displays
        /\ report'.monitors = report.monitors
        /\ report'.gpus = report.gpus
        /\ \/ displays'.filled /\ report'.level = displays'.level
           \/ ~displays.filled /\ displays' = displays /\ report'.level = 0
    BY <2>1, Asked, FilledStays DEF Copied, Fields
  <2>3. Enumerated(report) /\ (report.monitors # 0 => report.gpus = displays.gpus)
    BY <2>2 DEF EnumInv
  <2>4. CASE displays'.filled /\ report'.level = displays'.level
    BY <1>2, <2>2, <2>3, <2>4 DEF EnumInv
  <2>5. CASE ~displays.filled /\ displays' = displays /\ report'.level = 0
    BY <1>2, <2>2, <2>3, <2>5 DEF EnumInv
  <2> QED BY <2>2, <2>4, <2>5
<1>10. CASE OperatingSystem \/ CPU \/ SuspectedVM \/ VMSigns \/ VMTiming
  BY <1>2, <1>10, NothingCounted DEF EnumInv, Late
<1>11. CASE MonitorCount
  <2>1. /\ report'.monitors = report.monitors /\ report'.gpus = report.gpus
        /\ report'.level = report.level
    BY <1>11 DEF MonitorCount, TypeOK, Report
  <2>2. pc = "count" /\ pc' = "done" /\ UNCHANGED <<displays, data>>
    BY <1>11 DEF MonitorCount
  <2> QED BY <1>2, <2>1, <2>2 DEF EnumInv, Late
<1>12. CASE Deliver
  BY <1>12 DEF Deliver, EnumInv, Late
<1>13. CASE Throw \/ CutShort
  BY <1>4, <1>13 DEF Throw, CutShort
<1>14. CASE HostAsks \/ Replug \/ UNCHANGED vars
  BY <1>3, <1>14 DEF HostAsks, Replug, vars
<1> QED
  BY <1>5, <1>6, <1>7, <1>8, <1>9, <1>10, <1>11, <1>12, <1>13, <1>14 DEF Next, Call, Gather

\* The monitors, GPUs and feature level of every report are of one enumeration,
\* the one the statics hold for good.
THEOREM SameEnumerationAlways == Spec => []SameEnumeration
<1>1. EnumInv => SameEnumeration
  BY DEF EnumInv, SameEnumeration, Carried, Enumerated
<1> QED BY <1>1, InitType, NextType, InitEnum, NextEnum, PTL DEF Spec

-----------------------------------------------------------------------------
(* Completeness: as long as nothing has failed, and no enumeration been cut,  *)
(* the statics are whole, and so is what was taken from them.  drifted covers  *)
(* the only thing that still changes, the monitors.                            *)
Complete(r) ==
  ~failed =>
    /\ machine.forgets => r.drives = machine.drives
    /\ ~cut => /\ r.level = machine.level
               /\ Lists => r.monitors = displays.monitors /\ r.gpus = machine.gpus

StaticsInv ==
  /\ machine.forgets => secured = FALSE
  /\ displays.filled /\ ~cut =>
       /\ displays.gpus = machine.gpus /\ displays.level = machine.level
       /\ displays.monitors = attached \/ drifted

WholeInv ==
  /\ StaticsInv
  /\ pc \in Order \ {"monitors"} /\ ~failed /\ ~cut /\ Lists =>
       /\ displays.filled /\ report.monitors = displays.monitors
       /\ pc # "gpus" => report.gpus = machine.gpus
  /\ pc \in Late \cup {"level"} /\ ~failed /\ machine.forgets => report.drives = machine.drives
  /\ pc \in Late => Complete(report)
  /\ pc = "done" /\ ~failed /\ ~cut /\ Lists => report.monitors = report.count \/ drifted
  /\ WholeReport

LEMMA InitWhole == Init => WholeInv
BY DEF Init, WholeInv, StaticsInv, Unfilled, Order, Late, WholeReport, Told

\* A failure, an exception and a change of the monitors are not forgotten.
LEMMA Remembered ==
  ASSUME TypeOK, [Next]_vars
  PROVE  /\ failed => failed' = TRUE
         /\ cut => cut' = TRUE
         /\ drifted => drifted' = TRUE
         /\ machine' = machine
<1>1. ASSUME NEW info, GetD3DInfo(info) PROVE failed => failed' = TRUE
  BY <1>1 DEF GetD3DInfo, TypeOK
<1>2. ASSUME NEW n, GetHardDriveInfo(n) PROVE failed => failed' = TRUE
  BY <1>2 DEF GetHardDriveInfo, TypeOK
<1> DEFINE Kept == (failed => failed' = TRUE) /\ (cut => cut' = TRUE) /\ machine' = machine
<1>3. ASSUME NEW field, NEW next, AskDisplays(field, next) PROVE Kept
  BY <1>1, <1>3 DEF AskDisplays
<1>4. ASSUME HardDrives PROVE Kept
  BY <1>2, <1>4 DEF HardDrives
<1>5. ASSUME HostAsks PROVE Kept
  BY <1>1, <1>2, <1>5 DEF HostAsks
<1>6. ASSUME \/ Begin \/ OperatingSystem \/ CPU \/ SuspectedVM \/ VMSigns \/ VMTiming
             \/ MonitorCount \/ Deliver
      PROVE  Kept
  BY <1>6 DEF Begin, OperatingSystem, CPU, SuspectedVM, VMSigns, VMTiming, MonitorCount, Deliver
<1>7. ASSUME Replug \/ Throw \/ CutShort \/ UNCHANGED vars PROVE Kept
  BY <1>7 DEF Replug, Throw, CutShort, vars
<1>8. Kept
  <2> HIDE DEF Kept
  <2> QED BY <1>3, <1>4, <1>5, <1>6, <1>7
          DEF Next, Call, Gather, Monitors, GPUs, GraphicsAPIs
<1>9. drifted => drifted' = TRUE
  BY DEF Next, Replug, vars
<1> QED BY <1>8, <1>9

LEMMA NextStatics == TypeOK /\ StaticsInv /\ [Next]_vars => StaticsInv'
<1> SUFFICES ASSUME TypeOK, StaticsInv, [Next]_vars PROVE StaticsInv'
  OBVIOUS
<1>1. ASSUME NEW info, GetD3DInfo(info), UNCHANGED <<machine, secured, cut, attached, drifted>>
      PROVE  StaticsInv'
  <2>1. CASE displays' = displays
    BY <1>1, <2>1 DEF StaticsInv
  <2>2. CASE displays' = Whole
    <3>1. displays'.gpus = machine.gpus /\ displays'.level = machine.level
          /\ displays'.monitors = attached
      BY <2>2 DEF Whole
    <3> QED BY <1>1, <3>1 DEF StaticsInv
  <2> QED BY <1>1, <2>1, <2>2, Enumeration
<1>2. ASSUME NEW n, GetHardDriveInfo(n), UNCHANGED <<machine, displays, cut, attached, drifted>>
      PROVE  StaticsInv'
  <2>1. machine.forgets => secured' = FALSE
    BY <1>2, DisplayTypes DEF GetHardDriveInfo, StaticsInv, Machine
  <2> QED BY <1>2, <2>1 DEF StaticsInv
<1>3. ASSUME UNCHANGED <<machine, displays, secured, cut, attached, drifted>> PROVE StaticsInv'
  BY <1>3 DEF StaticsInv
<1>4. CASE Replug
  BY <1>4 DEF Replug, StaticsInv
<1>5. CASE CutShort /\ UNCHANGED <<attached, drifted>>
  BY <1>5 DEF CutShort, StaticsInv
<1>6. ASSUME NEW field, NEW next, AskDisplays(field, next), UNCHANGED <<attached, drifted>>
      PROVE  StaticsInv'
  BY <1>1, <1>3, <1>6 DEF AskDisplays
<1>7. CASE HardDrives /\ UNCHANGED <<attached, drifted>>
  BY <1>2, <1>7 DEF HardDrives
<1>8. CASE HostAsks /\ UNCHANGED <<attached, drifted>>
  BY <1>1, <1>2, <1>3, <1>8 DEF HostAsks
<1>9. ASSUME \/ Begin \/ OperatingSystem \/ CPU \/ SuspectedVM \/ VMSigns \/ VMTiming
             \/ MonitorCount \/ Deliver \/ Throw,
             UNCHANGED <<attached, drifted>>
      PROVE  StaticsInv'
  BY <1>3, <1>9 DEF Begin, OperatingSystem, CPU, SuspectedVM, VMSigns, VMTiming, MonitorCount,
                    Deliver, Throw
<1>10. CASE UNCHANGED vars
  BY <1>3, <1>10 DEF vars
<1> QED
  BY <1>4, <1>5, <1>6, <1>7, <1>8, <1>9, <1>10
  DEF Next, Call, Gather, Monitors, GPUs, GraphicsAPIs

LEMMA NextWhole == TypeOK /\ WholeInv /\ [Next]_vars => WholeInv'
<1> SUFFICES ASSUME TypeOK, WholeInv, [Next]_vars PROVE WholeInv'
  OBVIOUS
<1>1. /\ StaticsInv /\ StaticsInv'
      /\ failed => failed' = TRUE
      /\ cut => cut' = TRUE
      /\ drifted => drifted' = TRUE
      /\ machine' = machine
      /\ displays.filled => displays' = displays
  BY NextStatics, Remembered, FilledStays DEF WholeInv
<1>2. ASSUME data' = data PROVE WholeReport'
  BY <1>1, <1>2 DEF WholeInv, WholeReport, Told
<1> USE DEF Complete, Lists
<1>3. ASSUME UNCHANGED <<report, pc, data>> PROVE WholeInv'
  BY <1>1, <1>2, <1>3 DEF WholeInv, Late, Order
<1>4. ASSUME data' = data, pc' = "host" PROVE WholeInv'
  BY <1>1, <1>2, <1>4 DEF WholeInv, Late, Order
<1>5. CASE Begin
  <2>1. pc' = "monitors" /\ data' = data
    BY <1>5 DEF Begin
  <2> QED BY <1>1, <1>2, <2>1 DEF WholeInv, Late, Order
<1>6. CASE Monitors
  <2>1. AskDisplays("monitors", "gpus")
    BY <1>6 DEF Monitors
  <2>2. /\ pc' = "gpus" /\ data' = data
        /\ Lists => \/ displays'.filled /\ report'.monitors = displays'.monitors
                    \/ failed' = TRUE
    BY <2>1, Asked DEF Copied, Fields
  <2> QED BY <1>1, <1>2, <2>2 DEF WholeInv, Late, Order
<1>7. CASE GPUs
  <2>1. AskDisplays("gpus", "drives")
    BY <1>7 DEF GPUs
  <2>2. /\ pc = "gpus" /\ pc' = "drives" /\ data' = data
        /\ report'.monitors = report.monitors
        /\ Lists => \/ displays'.filled /\ report'.gpus = displays'.gpus
                    \/ failed' = TRUE
    BY <2>1, Asked DEF Copied, Fields
  <2> QED BY <1>1, <1>2, <2>2 DEF WholeInv, StaticsInv, Late, Order
<1>8. CASE HardDrives
  <2>1. PICK n \in {0, machine.drives} :
          GetHardDriveInfo(n) /\ report' = [report EXCEPT !.drives = n]
    BY <1>8 DEF HardDrives
  <2>2. /\ report'.monitors = report.monitors /\ report'.gpus = report.gpus
        /\ report'.drives = n
    BY <2>1 DEF TypeOK, Report
  <2>3. ~failed' /\ machine.forgets => n = machine.drives
    BY <1>1, <2>1 DEF GetHardDriveInfo, StaticsInv
  <2>4. pc = "drives" /\ pc' = "level" /\ UNCHANGED <<displays, data>>
    BY <1>8 DEF HardDrives
  <2> QED BY <1>1, <1>2, <2>2, <2>3, <2>4 DEF WholeInv, Late, Order
<1>9. CASE GraphicsAPIs
  <2>1. AskDisplays("level", "os")
    BY <1>9 DEF GraphicsAPIs
  <2>2. /\ pc = "level" /\ pc' = "os" /\ data' = data
        /\ report'.monitors = report.monitors /\ report'.gpus = report.gpus
        /\ report'.drives = report.drives
        /\ \/ displays'.filled /\ report'.level = displays'.level
           \/ failed' = TRUE
    BY <2>1, Asked DEF Copied, Fields
  <2> QED BY <1>1, <1>2, <2>2 DEF WholeInv, StaticsInv, Late, Order
<1>10. CASE OperatingSystem \/ CPU \/ SuspectedVM \/ VMSigns \/ VMTiming
  BY <1>1, <1>2, <1>10, NothingCounted DEF WholeInv, Late, Order
<1>11. CASE MonitorCount
  <2>1. /\ report'.monitors = report.monitors /\ report'.gpus = report.gpus
        /\ report'.level = report.level /\ report'.drives = report.drives
        /\ report'.count = attached
    BY <1>11 DEF MonitorCount, TypeOK, Report
  <2>2. pc = "count" /\ pc' = "done" /\ UNCHANGED <<displays, data>>
    BY <1>11 DEF MonitorCount
  <2> QED BY <1>1, <1>2, <2>1, <2>2 DEF WholeInv, StaticsInv, Late, Order
<1>12. CASE Deliver
  <2>1. pc = "done" /\ pc' = "host" /\ data' = report
    BY <1>12 DEF Deliver
  <2>2. WholeReport'
    BY <1>1, <2>1 DEF WholeInv, WholeReport, Late, Order
  <2> QED BY <1>1, <2>1, <2>2 DEF WholeInv, Late, Order
<1>13. CASE Throw \/ CutShort
  BY <1>4, <1>13 DEF Throw, CutShort
<1>14. CASE HostAsks \/ Replug \/ UNCHANGED vars
  BY <1>3, <1>14 DEF HostAsks, Replug, vars
<1> QED
  BY <1>5, <1>6, <1>7, <1>8, <1>9, <1>10, <1>11, <1>12, <1>13, <1>14 DEF Next, Call, Gather

\* However many exceptions leave gatherings, and whatever the host asks in
\* between: a report lacks something only if DXGI or WMI failed, an enumeration
\* was cut short or COM remembers; and its monitors are as many as it counts
\* unless they came or went.
THEOREM WholeReportAlways == Spec => []WholeReport
<1>1. WholeInv => WholeReport
  BY DEF WholeInv
<1> QED BY <1>1, InitType, NextType, InitWhole, NextWhole, PTL DEF Spec
=============================================================================
