------------------------------ MODULE Gatherer ------------------------------
(***************************************************************************)
(* GatherData (src/gatherer.cpp) in the Windows build: the report is put   *)
(* together from functions that keep statics of their own, and those the   *)
(* host may call too, before, after and between the gatherings.  Calls are *)
(* made one at a time, and an exception may leave a gathering anywhere;    *)
(* RetrievePDMData then gathers again at its next call.                    *)
(*                                                                         *)
(* The functions are given by what the modules about them establish:       *)
(* GetD3DInfo (D3DInfo) fills a static once, fails, or is cut short by an  *)
(* exception and stays so; HasVMExecutionTiming (VMDetection) measures     *)
(* once; GetHardDriveInfo (HardDrives) is refused once COM is secured.     *)
(* GetMonitorCount remembers nothing, and monitors come and go.            *)
(***************************************************************************)
EXTENDS Integers

CONSTANTS
  Machines,   \* the machines: see Machine
  NoReport    \* what data holds before the first gathering

VARIABLES
  machine,
  displays,   \* GetD3DInfo's statics
  attached,   \* the monitors there are now
  measured,   \* HasVMExecutionTiming's statics: {}, or the set of its verdict
  secured,    \* has CoInitializeSecurity succeeded, and been remembered
  data,       \* RetrievePDMData's static
  report,     \* the report being put together
  pc,         \* what is gathered next; "host" between calls
  failed,     \* has DXGI or WMI ever failed
  cut,        \* has an exception ever cut an enumeration short
  drifted     \* have monitors come or gone since they were enumerated

vars == <<machine, displays, attached, measured, secured, data, report, pc, failed, cut,
          drifted>>

Hypervisors == {"", "Microsoft Hv", "KVMKVMKVM"}

\* wine: is this Wine; monitors (at the start, none mirroring another: DXGI lists
\* mirrors, SM_CMONITORS does not), gpus, drives: how many there are; level: the
\* highest feature level; verdicts: what measuring may come to (both, on a
\* machine near the threshold); hypervisor: the name behind CPUID's hypervisor
\* bit, "" without it; guest: are Hyper-V's guest leaves filled; forgets: does
\* COM forget it was secured; process, os, cpu: bitness of the build, of
\* what IsWow64Process tells of the system, of what CPUID tells.
Machine == [wine : BOOLEAN, monitors : Nat, gpus : Nat, drives : Nat, level : Nat,
            verdicts : SUBSET BOOLEAN, hypervisor : Hypervisors,
            guest : BOOLEAN, forgets : BOOLEAN,
            process : {32, 64}, os : {32, 64}, cpu : {32, 64}]

ASSUME GathererAssumption ==
  /\ Machines \subseteq Machine
  /\ \A x \in Machines : x.verdicts # {}

Whole    == [filled |-> TRUE, monitors |-> attached, gpus |-> machine.gpus,
             level |-> machine.level]
Unfilled == [filled |-> FALSE, monitors |-> 0, gpus |-> 0, level |-> 0]
Cuts     == {[filled |-> TRUE, monitors |-> i, gpus |-> k, level |-> l] :
               i \in 0 .. attached, k \in 0 .. machine.gpus,
               l \in {0, machine.level}}

Blank == [monitors |-> 0, gpus |-> 0, drives |-> 0, level |-> 0, type |-> "UNKNOWN",
          count |-> 0, os |-> 0, process |-> 0, cpu |-> 0, suspected |-> FALSE, bit |-> FALSE,
          hypervisor |-> "", guest |-> FALSE, timing |-> FALSE]

Report == [monitors : Nat, gpus : Nat, drives : Nat, level : Nat,
           count : Nat, type : {"UNKNOWN", "WINE", "WINDOWS"},
           os : {0, 32, 64}, process : {0, 32, 64}, cpu : {0, 32, 64},
           suspected : BOOLEAN, bit : BOOLEAN, hypervisor : Hypervisors,
           guest : BOOLEAN, timing : BOOLEAN]

Order == {"monitors", "gpus", "drives", "level", "os", "cpu", "suspected", "signs",
          "timing", "count", "done"}

\* Bound: there is one socket for another monitor.
Sockets == machine.monitors + 1

TypeOK ==
  /\ machine \in Machines
  /\ displays = Unfilled \/ displays \in [filled : {TRUE}, monitors : 0 .. Sockets,
                                           gpus : 0 .. machine.gpus, level : {0, machine.level}]
  /\ attached \in 0 .. Sockets
  /\ measured \in {{}, {TRUE}, {FALSE}}
  /\ secured \in BOOLEAN
  /\ data \in Report \cup {NoReport}
  /\ report \in Report
  /\ pc \in {"host"} \cup Order
  /\ failed \in BOOLEAN /\ cut \in BOOLEAN /\ drifted \in BOOLEAN

Init ==
  /\ machine \in Machines
  /\ displays = Unfilled
  /\ attached = machine.monitors
  /\ measured = {}
  /\ secured = FALSE
  /\ data = NoReport
  /\ report = Blank
  /\ pc = "host"
  /\ failed = FALSE /\ cut = FALSE /\ drifted = FALSE

-----------------------------------------------------------------------------
(* What is called: each operator says what may be returned and what becomes *)
(* of the statics.                                                         *)
\* Mutation: the info is a local.
EnumeratesAgain(info) ==
  \/ info = Unfilled /\ failed' = TRUE /\ UNCHANGED displays
  \/ info = Whole /\ displays' = Whole /\ UNCHANGED failed

\* GetD3DInfo returns.
GetD3DInfo(info) ==
  \/ /\ displays.filled
     /\ info = displays
     /\ UNCHANGED <<displays, failed>>
  \/ /\ ~displays.filled
     /\ info = Unfilled
     /\ failed' = TRUE
     /\ UNCHANGED displays
  \/ /\ ~displays.filled
     /\ info = Whole
     /\ displays' = Whole
     /\ UNCHANGED failed

\* GetMonitorsInfo and GetGPUInfo do not ask under Wine: if (IsWine()) return {}.
\* (Mutation: nothing of it is asked at all until the level is.)
NeverLists == FALSE
Lists == ~machine.wine

\* Mutation: _finished is not tested.
MeasuresAgain(verdict) == verdict \in machine.verdicts /\ measured' = {verdict}

HasVMExecutionTiming(verdict) ==
  \/ measured = {} /\ verdict \in machine.verdicts /\ measured' = {verdict}
  \/ verdict \in measured /\ UNCHANGED measured

HasHypervisorBit == machine.hypervisor # ""
IsHyperVGuestOS  == machine.hypervisor = "Microsoft Hv" /\ machine.guest

IsSuspectedVM(verdict) ==
  \/ verdict \/ IsHyperVGuestOS
  \/ HasHypervisorBit /\ machine.hypervisor # "Microsoft Hv"

\* GetHardDriveInfo.
GetHardDriveInfo(n) ==
  \/ n = 0 /\ secured /\ UNCHANGED <<secured, failed>>
  \/ n = 0 /\ failed' = TRUE /\ secured' \in {secured, ~machine.forgets}
  \/ /\ ~secured
     /\ n = machine.drives
     /\ secured' = ~machine.forgets
     /\ UNCHANGED failed

\* GetOSBitness and GetCPUBitness.
GetOSBitness == IF machine.process = 64 THEN 64 ELSE machine.os
GetCPUBitness == IF GetOSBitness = 64 THEN 64 ELSE machine.cpu

(* A gathering, in the order of the code.                                  *)
Begin ==
  /\ pc = "host"
  /\ data = NoReport
  /\ pc' = "monitors"
  /\ report' = [Blank EXCEPT !.process = machine.process]
  /\ UNCHANGED <<machine, displays, measured, secured, data, failed, cut>>

\* GetMonitorsInfo, GetGPUInfo and GetD3DHighestSupport: the same function
\* called for one of its fields and the next step.
AskDisplays(field, next) ==
  /\ pc = field
  /\ pc' = next
  /\ \/ /\ Lists \/ field = "level"
        /\ \E info \in {Whole, Unfilled, displays} :
             GetD3DInfo(info) /\ report' = [report EXCEPT ![field] = info[field]]
     \/ /\ ~(Lists \/ field = "level")
        /\ UNCHANGED <<displays, failed, report>>
  /\ UNCHANGED <<machine, measured, secured, data, cut>>

Monitors == AskDisplays("monitors", "gpus")
GPUs     == AskDisplays("gpus", "drives")

HardDrives ==
  /\ pc = "drives"
  /\ pc' = "level"
  /\ \E n \in {0, machine.drives} :
       GetHardDriveInfo(n) /\ report' = [report EXCEPT !.drives = n]
  /\ UNCHANGED <<machine, displays, measured, data, cut>>

GraphicsAPIs == AskDisplays("level", "os")

\* OS and WINE.
OperatingSystem ==
  /\ pc = "os"
  /\ pc' = "cpu"
  /\ report' = [report EXCEPT !.type = IF machine.wine THEN "WINE" ELSE "WINDOWS",
                             !.os = GetOSBitness]
  /\ UNCHANGED <<machine, displays, measured, secured, data, failed, cut>>

CPU ==
  /\ pc = "cpu"
  /\ pc' = "suspected"
  /\ report' = [report EXCEPT !.cpu = GetCPUBitness]
  /\ UNCHANGED <<machine, displays, measured, secured, data, failed, cut>>

\* VM: IS_SUSPECTED_VM first, which measures; HAS_VM_EXECUTION_TIMING last.
SuspectedVM ==
  /\ pc = "suspected"
  /\ pc' = "signs"
  /\ \E verdict \in BOOLEAN :
       /\ HasVMExecutionTiming(verdict)
       /\ report' = [report EXCEPT !.suspected = IsSuspectedVM(verdict)]
  /\ UNCHANGED <<machine, displays, secured, data, failed, cut>>

VMSigns ==
  /\ pc = "signs"
  /\ pc' = "timing"
  /\ report' = [report EXCEPT !.bit = HasHypervisorBit, !.guest = IsHyperVGuestOS,
                             !.hypervisor = machine.hypervisor]
  /\ UNCHANGED <<machine, displays, measured, secured, data, failed, cut>>

VMTiming ==
  /\ pc = "timing"
  /\ pc' = "count"
  /\ \E verdict \in BOOLEAN :
       /\ HasVMExecutionTiming(verdict)
       /\ report' = [report EXCEPT !.timing = verdict]
  /\ UNCHANGED <<machine, displays, secured, data, failed, cut>>

\* MONITOR_COUNT: GetSystemMetrics(SM_CMONITORS).
MonitorCount ==
  /\ pc = "count"
  /\ pc' = "done"
  /\ report' = [report EXCEPT !.count = attached]
  /\ UNCHANGED <<machine, displays, measured, secured, data, failed, cut>>

\* A monitor is plugged in or out, between any two calls.
Replug ==
  /\ data = NoReport
  /\ attached' \in {attached - 1, attached + 1} \cap 0 .. Sockets
  /\ drifted' = (drifted \/ displays.filled)
  /\ UNCHANGED <<machine, displays, measured, secured, data, report, pc, failed, cut>>

\* data = GatherData(...).
Deliver ==
  /\ pc = "done"
  /\ pc' = "host"
  /\ data' = report
  /\ UNCHANGED <<machine, displays, measured, secured, report, failed, cut>>

\* An exception leaves the gathering, but no enumeration.
Throw ==
  /\ pc # "host"
  /\ pc' = "host"
  /\ UNCHANGED <<machine, displays, measured, secured, data, report, failed, cut>>

\* Mutation: initialized is set when the enumeration is complete.
CutUnfilled ==
  /\ pc \in {"host", "level"} \cup IF Lists THEN {"monitors", "gpus"} ELSE {}
  /\ ~displays.filled
  /\ displays' \in {[x EXCEPT !.filled = FALSE] : x \in Cuts}
  /\ cut' = TRUE
  /\ pc' = "host"
  /\ UNCHANGED <<machine, measured, secured, data, report, failed>>

\* An exception leaves an enumeration, in a gathering or in the host's own call.
CutShort ==
  /\ pc \in {"host", "level"} \cup IF Lists THEN {"monitors", "gpus"} ELSE {}
  /\ ~displays.filled
  /\ displays' \in Cuts
  /\ cut' = TRUE
  /\ pc' = "host"
  /\ UNCHANGED <<machine, measured, secured, data, report, failed>>

\* The host calls an exported function itself: one that enumerates, one that
\* measures, or GetHardDriveInfo.
HostAsks ==
  /\ pc = "host"
  /\ \/ /\ \E info \in {Whole, Unfilled, displays} : GetD3DInfo(info)
        /\ UNCHANGED <<measured, secured>>
     \/ /\ \E verdict \in BOOLEAN : HasVMExecutionTiming(verdict)
        /\ UNCHANGED <<displays, secured, failed>>
     \/ /\ \E n \in {0, machine.drives} : GetHardDriveInfo(n)
        /\ UNCHANGED <<displays, measured>>
  /\ UNCHANGED <<machine, data, report, pc, cut>>

Gather == \/ Begin \/ Monitors \/ GPUs \/ HardDrives \/ GraphicsAPIs
          \/ OperatingSystem \/ CPU \/ SuspectedVM \/ VMSigns \/ VMTiming
          \/ MonitorCount \/ Deliver
Call == Gather \/ Throw \/ CutShort \/ HostAsks
Next == Replug \/ (Call /\ UNCHANGED <<attached, drifted>>)

Spec == Init /\ [][Next]_vars

-----------------------------------------------------------------------------
\* The three places that speak of displays speak of one enumeration: once one
\* of them has anything to say, everything after it is what the statics hold,
\* now and for ever.
Told == data # NoReport
SameEnumeration ==
  Told =>
    /\ data.monitors # 0 => /\ data.monitors = displays.monitors
                            /\ data.gpus = displays.gpus
                            /\ data.level = displays.level
    /\ data.gpus # 0 => data.gpus = displays.gpus /\ data.level = displays.level
    /\ data.level # 0 => data.level = displays.level

\* The report does not contradict itself: IS_SUSPECTED_VM is YES exactly if one of
\* the other fields of its section shows why, although the timing is asked for
\* twice and would not come out the same twice; and a 64-bit process runs on a
\* 64-bit system on a 64-bit processor, whatever the system and CPUID say.
SectionsAgree ==
  Told => /\ data.suspected <=> \/ data.timing \/ data.guest
                                \/ data.bit /\ data.hypervisor # "Microsoft Hv"
          /\ data.process <= data.os /\ data.os <= data.cpu

\* A gathering that an exception ends and another one takes up loses nothing:
\* unless DXGI or WMI failed, an exception cut an enumeration short, or COM
\* remembers an earlier call, the report has all there is; and as many monitors
\* as MONITOR_COUNT, unless they came or went since the host or a gathering had
\* them enumerated.  (Under Wine the displays are not asked for.)
WholeReport ==
  Told /\ ~failed =>
    /\ machine.forgets => data.drives = machine.drives
    /\ ~cut => /\ data.level = machine.level
               /\ ~machine.wine => /\ data.monitors = data.count \/ drifted
                                   /\ data.gpus = machine.gpus
=============================================================================
