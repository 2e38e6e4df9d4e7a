# A verification project for PDM

PDM (Platform Detection Module) is a C++17 library, and a small command line
program around it, that gathers a report about the machine it runs on:
operating system, processor, displays, GPUs, hard drives, network adapters,
signs of a virtual machine. It is linked into a host (a launcher, a game) whose
threads call it. This directory holds TLA+ modules translated from its source,
the TLC configurations that check them on small instances, and proofs, checked
by TLAPS, that the most important properties hold on every instance.
`PROJECT.json` gives for each definition the lines of source it stands for.

PDM has no threads, locks or files of its own, and persists nothing. What makes
it hard is elsewhere: **lazily filled statics** without a lock, called by
whichever thread of the host comes first; **resources with an order** (COM
apartments, libraries and the objects whose code is in them) on functions with
five to ten ways out; a **measurement** whose counter wraps; and a **report put
together from parts** that each remember, or ask anew, what another part was
told.

## 1. Inventory

| component | source | state it keeps | operations |
|---|---|---|---|
| Report retrieval | `src/pdm.cpp` | statics `data`, `hasData` | `RetrievePDMData` |
| Gatherer | `src/gatherer.cpp` | none but `HasVMExecutionTiming`'s | `GatherData`, bitness, time, names |
| VM detection | `gatherer.cpp`, `cpu_extensions.h` | statics `_finished`, `_ret` | `HasVMExecutionTiming`, `IsSuspectedVM`, `GetTimingCycles` |
| CPU information | `cpu_extensions.h` | none (CPUID is read anew) | `GetCPUInfo`, `InstructionSet`, `GetCPUExtensions` |
| Direct3D/DXGI | `windows/d3d_info.cpp` | statics `info`, `initialized`; libraries and COM references | `GetD3DInfo`, called by `GetMonitorsInfo`, `GetGPUInfo`, `GetD3DHighestSupport` |
| Hard drives | `windows/windows_data.cpp` | COM's: apartments of a thread, security of the process | `GetHardDriveInfo` |
| Wine | `wine/wine.cpp` | three caches, each a value and a flag, without a lock | `IsWine`, `GetWineVersion`, `GetWineHostOs` |
| Registry, OS, locale, battery, network | `windows/windows_data.cpp` | none (but the process's locale is reset) | one query each |
| macOS backend | `macos/macos_data.mm` | none; IOKit and CoreFoundation references | one query each |
| Conversions | `utilities.cpp` | none | `HexStringToByteArray`, UTF-8/16, case |
| Command line | `main.cpp`, `output.cpp` | none | `Execute`, `OutputExecutionTimings` |
| Vulkan, Metal | `windows/vulkan_info.cpp`, `macos_data.mm` | none | constants and one query |

How they interact. `RetrievePDMData` calls `GatherData` once and keeps what it
returns. `GatherData` calls everything else, some of it twice or three times:
the virtual machine section measures through `IsSuspectedVM` and again through
`HasVMExecutionTiming`; monitors, GPUs and the Direct3D level come from three
calls of `GetD3DInfo`. Nearly all of these functions are exported in
`include/pdm.h`, so a host may have called them before, on other threads.

What each must do to be correct:

- **Retrieval**: every caller sees one complete report that never changes under
  it; a throwing gathering is retried.
- **VM detection**: never a false alarm; always the truth when calls are
  serialised; a verdict, once settled, stays.
- **D3D**: libraries, factory and the output in hand are given back, in the right order,
  on every way out; adapters and old outputs, which nothing releases, are all that is
  lost; what is collected is complete and has the primary monitor first.
- **Hard drives**: apartments balanced, objects released inside them, losses
  bounded, a list cut short only by a failure.
- **Gatherer**: the sections of a report agree with each other.
- **CPU information**: no leaf is taken for another one; where cores differ, the
  list is bounded by what all have and what any has, and the brand may be spliced.
- **Wine**: what a thread has once been told of Wine is never taken back; Wine is denied
  only to a call that could not look, or overlaps one that fills the cache.
- **Identifiers** (network adapters, UUIDs): text and bytes name the same machine; a
  list asked for in two calls is that of one moment.
- **Monitor details**: an answer about a monitor is wrong only if the displays changed
  while it was being worked out, the monitor had gone before it was asked for, or a mode
  has no rate.
- **macOS backend**: a reference is lost where the code never releases it (a send right
  each time the network adapters are asked for, among others), or where an exception
  passes; nowhere else.
- **Command line**: `EXIT_SUCCESS` means that nothing threw. The report is then whole on
  each of console and file unless that stream itself lost a part, which nobody asks.

The list of hazards in `PROJECT.json` gives for each of these the line where it
bites and the properties that watch it, or why none does yet.

## 2. Modules

| module | what it is | proofs |
|---|---|---|
| `WriteOnce` | the abstract specification: a static that is filled once | |
| `Retrieval` | `RetrievePDMData`, and what its callers read afterwards | `RetrievalProofs` |
| `VMDetection` | `HasVMExecutionTiming` and `IsSuspectedVM` | `VMDetectionProofs` |
| `D3DInfo` | `GetD3DInfo` | `D3DInfoProofs` |
| `MonitorDetails` | `GetMonitorName`, `GetMonitorMaxRefreshRate`, `GetMonitorDPIScalingPercent` | `QueriesProofs` |
| `HardDrives` | `GetHardDriveInfo` | `HardDrivesProofs` |
| `CPUFeatures` | the CPUID reads of `GetCPUInfo` | `CPUFeaturesProofs` |
| `WineCache` | `IsWine`, `GetWineVersion`, `GetWineHostOs` | `WineCacheProofs` |
| `Identifiers` | `GetNetworkAdapterInfo` (Windows), `GetMachineUuid`, `HexStringToByteArray` | `QueriesProofs` |
| `MacServices` | what the macOS backend takes and gives back | `QueriesProofs` |
| `CommandLine` | `Execute` and `Wait` | `QueriesProofs` |
| `Gatherer` | `GatherData` over the statics of the others | `GathererProofs` |

`MC...` modules hold the instances that the configurations use (`WineCache` needs
none). `MCQueries` puts `Identifiers`, `MonitorDetails`, `MacServices` and
`CommandLine` side by side: they share no state, so a behaviour exercises one of
them (`subject`) while the others rest, and one run checks the four. Inside a
module, a definition named *Mutation* is a plausible slip (a dropped guard, a
flag set too early) that no action uses; it is kept to confirm that a property
notices it.

`TypeOK` is proved wherever a module states one (`Retrieval`, `VMDetection`, `D3DInfo`,
`HardDrives`, `CPUFeatures`, `WineCache`, `Gatherer`); `HardDrives` and `CPUFeatures` have
TLC check it as well. The four modules under `MCQueries` state no type invariant: their
properties say more.

### WriteOnce

`Publish` fills the cell, `Answer` hands its value out, `Miss` (where a failed
computation has a default answer) hands out the default and leaves the cell
empty. `Retrieval`, `VMDetection` and `D3DInfo` refine it, each as the property
`ImplementsWriteOnce`. The first two do so only while calls are serialised:
this is precisely what a host loses when it lets them overlap.

### Retrieval

One thread is one caller. `Call`, `ReturnCached`, `BeginGather`, `GatherThrows`
and `Assign` are the control points of the five lines of `RetrievePDMData`.
`data = GatherData(...)` is a member-wise move of a `PDMData`, and neither it nor
`hasData = true` is ordered for other threads. The code has a data race there;
its outcomes are modelled by `pending[t]`, the stores of `t` that only `t` sees
yet, and the `Drain` actions, which take them to memory one by one in any order.
`BeginCopy` and `EndCopy` are a holder that copies (or prints) the report
through the reference: the tree first, the time stamp after it. A store to the
tree under the eyes of a reader yields `Torn`.

A report is abstracted to which gathering made it and for which name.
`Serialised` says whether the host holds a lock around its calls; the code does
not ask it to.

### VMDetection

`BeginMeasure` raises `_finished`, `Sample` is one turn of the loop, `Store`
compares the crossings with half of the runs, `Return` answers (at once, if
`_finished` was seen) and goes on to CPUID for `IsSuspectedVM`. The two statics
reach memory as in `Retrieval`. The counter is an integer `tsc` that each sample
moves on by some cycles; `GetTimingCycles` subtracts its two truncated readings
in the arithmetic of the build: `Word` is what a reading is taken modulo and
`Wide` what `size_t` is. `Word < Wide` is the Unix x86 build, which keeps EAX
only in 64 bits (`cpu_extensions.h:458`).

A machine is one of nine kinds, by the signs it gives: slow RDTSC, the
hypervisor bit, the hypervisor's name, Hyper-V's guest leaves. Among them are those that
one sign alone decides: the bit and a name that is not Hyper-V's without slow RDTSC
(`announced`), the bit without a name (`nameless`), a name without the bit (`renamed`),
and slow RDTSC alone (`trapping`). Two assumptions
are named in the module: `VMAssumption`, on the constants, and
`MeasurementAssumption`: the counter wraps at most once in a measurement (1024
samples of some thousands of cycles against 2^32), and a wrap and the noise
together are less than half of the samples. The second one is about the machine
and no code enforces it.

### D3DInfo

`pc` walks through the function: libraries, entry points, factory, adapters,
outputs, the driver's version, the scope exit. Missing libraries, missing entry
points and a failing factory are chosen anew at each call; the adapters and
outputs (`topo`) are fixed. `refs`, `pOutput` and `leaked` follow the references
that `EnumAdapters` and `EnumOutputs` hand out, `loaded` and `factory` what the
scope exit must give back. `Throw` is an exception from any string or vector in the
enumeration: of an adapter's description before its devices are made, of a monitor, of
the driver's texts; it leaves through the scope exits, with `initialized` set.
DXGI's own behaviour (what an adapter supports, whether it clears the pointer at
the end of the outputs) is external.

### HardDrives

`Ladder` is the sequence of COM calls before the query, each with what it gets
and which scope exits are armed when it has succeeded. The table is the whole
point: two of the releases are armed one rung after the object was obtained, and
one never. `CoInitialize`, `Climb`, `FetchDisk`, `ListDisk`, `RunExit`, `Return`
are the steps of a call. A step may fail, or throw where it makes a `bstr_t` (`Throw`,
`NeedsText`): both leave by the exits armed so far. COM is external: a thread's apartments are counted, a
single-threaded apartment of the host's refuses ours, the security of the process
can be set once and may (`forgets`) or may not be forgotten with the last apartment.

### CPUFeatures

Each CPUID instruction is an action, and between any two of them the thread may
be moved to another core. A register is the set of its bits. `Tests` is
the table of `InstructionSet`'s members: leaf, register, bit and the vendor it is
for. CMOV is not in it: `InstructionSet` can tell it (`cpu_extensions.h:260`), but
`GetCPUExtensions` never lists it. What an absent leaf returns (on an Intel processor, the registers of the highest
leaf there is) is external. `CPUAssumption` says what a processor is; in particular no
core has bits of a leaf that the processor does not have.

### Gatherer

`GatherData` of the Windows build, section by section in the order in which the
initialiser list evaluates them. The functions it calls are given by what the
modules about them establish: `GetD3DInfo` fills its static once, fails, or is
cut short for good; `HasVMExecutionTiming` measures once; `GetHardDriveInfo` is
refused once COM is secured. `HostAsks` is the host calling the same exported
functions between gatherings, `Throw` and `CutShort` are exceptions outside and
inside an enumeration. `Replug` plugs a monitor in or out between any two calls
(`Sockets` bounds how many): `GetD3DInfo` keeps the monitors it once enumerated,
`GetMonitorCount` counts anew, and `drifted` records that the two had reason to
part.

### WineCache

`wine.cpp` keeps the idiom of `RetrievePDMData` three times over, each with two
plain statics. Any thread may be in any of the functions; its two stores reach
memory one by one, in any order (`pending`, `Drain`), so `hasCached` may become
visible before the value. `Miss` is an ntdll that is not found (nothing is
remembered), `Throw` an exception of the string for the host's name. Each export of
ntdll is there or not, whatever the other is: Wine can hide them one by one. Every value stored is the
same, so a static is told from its default and no more.

### Identifiers

`AskSize` and `Fill` are the two calls of `GetAdaptersAddresses`, and the network
may change between them. Each entry has a size (`room`): a list that
outgrows the buffer fails the second call. `Listed` is the loop: the filter
(`Reported`), the text of the address, the braces cut off the adapter's name, and
`HexStringToByteArray`, translated with what `stoi` takes for two characters
(blanks and a plus skipped, the rest ignored). Characters are numbers, a digit is
its value. `AskMachineUuidString` and `AskMachineUuid` read the registry separately, and
either may fail; the latter converts whatever text it holds. What the system
hands out is assumed in `IdentifiersAssumption`: an adapter's name is a GUID in braces
(`Name`), its address has as many bytes as the loop reads (`MacBytes`). Lists are
filtered with `Kept`, a recursive function over the positions, so that proofs can unfold it.

### MonitorDetails

One action for each call into the system, from `GetDesc` of an output on, and
`Reconfigure` between any two of them: the monitor may be gone before the first function
is called (`AskName`). A vector sized by one call and filled by the next is left unwritten (`Zero`)
where there is less than was announced, and altogether if there is more, since
`QueryDisplayConfig`'s result is not looked at. What `GetMonitorInfoW`,
`DisplayConfigGetDeviceInfo` and `GetDpiForMonitor` leave unset is `Garbage` or
`Junk`. `scaling` is whether the handle of the scaling library, used at
`d3d_info.cpp:394` after it was freed at line 319, still answers. A refresh rate with a
zero denominator becomes `Junk` or is skipped by the maximum, as an undefined
conversion may come out. The code divides and rounds in `float`: `Rates` is the set of
integers that a quotient off by its `Precision`-th may be rounded to, two of them near half
a hertz. (Two conversions and a division, each right to 2^-24, are off by less than a
2^22-th.) `DetailsAssumption` says that an unwritten element is neither a path nor a
mode, and that mirrored paths of one source share its modes; rates beyond `uint32_t` are
left out.

### MacServices

One action for each function, or for each turn of its loop, on the way to each of
its ends. `held` counts references by kind; `found` counts what the
code meets that it never releases (the send right that `IOMasterPort` adds at each call of
`GetNetworkAdapterInfo`, the interface and the controller of a network adapter, a display
mode a screen, an array a Metal query, a string a conversion). In `MatchNetwork` nothing
is checked: without an iterator the loop ends at once and there is none to release. A
missing platform UUID ends the process (`crashed`): `CFRelease` of a null reference.

### CommandLine

Several runs of the program on one machine. The file's name is the machine and the
second, and `std::ios::out` empties it: a second process of the same second takes the
file from the first. A report is two parts long, so that the processes can alternate.
`OpenFails`, a lost write to the file or to the console (the stream ignores the rest) and
`Catch` are the faults; `lost` tells which of the two streams lost something. A part that
was written counts as kept, although a buffer may lose it later.

## 3. What is checked

| run | instance | states | question |
|---|---|---|---|
| `retrieval_serialised` | 3 threads, 2 names, 1 throw | 76,664 | with a lock around the calls, is there one stable report? |
| `retrieval_overlapping` | 2 threads, 1 name, 1 throw | 234,946 | without it, what is still guaranteed, and does the race end? |
| `vm_serialised` | 2 threads, 4 samples, counter mod 32 in mod 4096, 9 kinds | 19,438 | is every answer right, wherever the counter wraps? |
| `vm_arm64` | the arm64 build, 7 kinds | 13,406 | the same there |
| `vm_overlapping` | 2 threads, 2 kinds, overlapping | 175,876 | what can the early `_finished` do to an answer? |
| `d3d_info` | 6 machines | 2,736 | what is given back, what is collected, does every call return? |
| `d3d_output_handle` | outputs without `IDXGIOutput6` | (violated) | is the output's handle destroyed, as the comment says? |
| `hard_drives` | 2 threads, 2 calls each, up to 3 disks, every step may fail | 323,492 | apartments, references, and whole lists |
| `gatherer` | 7 machines, one spare socket | 131,613 | do the sections of a report agree? |
| `cpu_features` | 3 makers, leaves 5 to 7, one or two kinds of core | 397,980 | whose features and brand are listed? |
| `wine_cache` | 2 threads, 2 caches, 1 miss | 93,126 | can an answer be taken back, when is a wrong one given, and does the race end? |
| `queries` | 4 components, see *Bounds* | 46,000 | what do two-call queries, lost references and shared files lead to? |

### What the runs show

**Retrieval, serialised.** Every copy that anyone ever makes is the same
complete report (`OneReport`), what a holder sees through its reference never
changes (`ReferenceStable`), although a gathering may throw and be retried; and
`RetrievePDMData` is a write-once cell. `SerialisedInv`, which is proved, is the reason: one
writer, which alone holds the reference until its stores are in memory.

**Retrieval, overlapping.** None of that is left: a copy can be torn, and two
threads can hold different reports. What is left: a thread that has been given the
report never gathers again (`HoldersNeverRegather`), once the flag is in memory
and nobody is gathering or storing the report is frozen (`SettledIsFinal`), and
that is reached from the first reference handed out on (`RaceWindowCloses`).

**VM detection.** With serialised calls every answer is right (`SerialVerdict`),
including that the root partition of Hyper-V is not suspected and that at most
one sample of a measurement can meet the wrap. With overlapping calls a caller
may be told *no* of a machine that traps, while the measurement is under way; it
is never told *yes* of one that does not (`NeverFalseAlarm`), and the statics
settle on the right verdict (`SettledIsRight`, `VerdictSettles`).

**D3D.** On every way out the libraries are given back, and those of DXGI after the factory
and the output in hand: what outlives them is what nothing releases, adapters and outputs
without `IDXGIOutput6` (`OnlyLostOutlive`). The adapters are lost once in the life of the process
(`AdaptersLeakOnce`); no output with `IDXGIOutput6` is lost
(`ModernOutputsKept`). What is returned is nothing, or a complete enumeration
with the primary monitor first, unless an exception cut it short
(`AnswersComplete`, `PrimaryFirst`).

*Disagreement with a comment.* `d3d_info.cpp:393` says that `GetMonitorBPC`
"Destroys handle". It does if the output implements `IDXGIOutput6`; otherwise
the output is overwritten by the next `EnumOutputs` and lost. The run
`d3d_output_handle` shows it.

**Hard drives.** Apartments are balanced (`ApartmentsBalanced`), no object is
released after COM was closed on its thread (`ReleasedInApartment`), a call loses
one reference at most, on each way out (`LeakOneACall`), and a list is cut short in the middle only
by a failure (`AllOrNothing`). An *empty* list need not mean a failure: the
process had been secured. `SerialCallsAgree` says when that cannot be: no overlap,
a host that does not use COM, and a COM that forgets its security with the last apartment
(`forgets`). Where it does not forget, the second call is told that there are no drives.

**Gatherer.** Monitors, GPUs and feature level come from one enumeration
(`SameEnumeration`). The VM section does not contradict itself although it asks
twice, and a 64-bit process is never on a 32-bit system (`SectionsAgree`). A retry
after an exception loses nothing, and the list of monitors is as long as
`MONITOR_COUNT` unless monitors came or went since they were enumerated
(`WholeReport`): the enumeration is kept for the life of the process, the count is not.

**CPU features.** On alike cores the information is exactly that of a core
(`UniformExact`); on different ones it may be that of none, but lists what all
have and nothing that none has, and each piece of the brand is some core's
(`MixedBounded`).

**Wine.** A thread told of Wine is never told otherwise (`NeverTakenBack`). A thread may
be told *no* first and *Wine* later, also in two sections of one gathering: because ntdll
was not found, or because it saw another thread's flag before that thread's value was in
memory, and for no other reason (`WrongOnlyInWindow`). From the first flag raised on,
memory is bound to hold the truth for good (`SettlesOnTruth`).

**Queries.** The adapters reported are those of one moment of the call, or none if there
are none or the list outgrew its buffer (`OneMoment`). The text of an identifier never
spells something else than its bytes (`TextMatchesBytes`), for the machine's UUID if both
reads of the registry succeeded; a text that is no hexadecimal number may still give
bytes, since `stoi` takes `+f` for 15. While the displays stay as they are, a monitor that
is shown gets its own name and scaling, and the highest of its rates to the nearest hertz
as far as `float` tells, whatever happened before (`WrongOnlyIfDisturbed`); a monitor that
had gone before it was asked for may be given another one's name or junk, and so may a
mode without a denominator give a junk rate. On macOS, what is lost is what the code
never releases and at most one turn of one loop for each exception (`LossesAccounted`).
A process that ends with `EXIT_SUCCESS` has its whole report on the console unless the
console lost a part, and in a file of its own unless the file did or another process had
the same second (`SuccessUnlessLost`): a stream that fails costs the other one nothing.

### Bounds, and why they are enough

- *Threads*: two are enough for each race in the unlocked statics (a writer and
  somebody else); a third, in `retrieval_serialised`, is a bystander who holds
  the reference while two others call. The proofs have no bound.
- *Throws* (`MaxThrows` = 1): a throw returns to the state before the call, with
  one more gathering counted; a second is the first again.
- *Samples* (`RUNS` = 4, `THRESHOLD` = 3, `Word` = 32): as small as
  `MeasurementAssumption` allows with noise. `Starts` has every value from which
  a measurement can meet the wrap, at the first, a middle or the last sample.
  `Wide` = 4096 is only "much more than Word"; arm64 has `Word` = `Wide`.
- *`vm_overlapping`* has the two kinds that decide it, one that traps and one
  with a hypervisor's bit that is no guest.
- *Topologies*: no adapter, only the render driver, a render driver between two
  adapters, the primary monitor on the second one, equal adapters, mirrored
  desktop, old outputs. Each branch of the loops is taken in one of them.
- *Drives* (`MaxCalls` = 2): two calls a thread, so that the second finds what
  the first one left; lists with and without something to skip.
  `CHECK_DEADLOCK FALSE` there: the bound stops the calls.
- *Processors*: every combination of five features, for each maker and
  each highest leaf around 7, around the extended one and around the three of the
  brand. A call ends, hence `CHECK_DEADLOCK FALSE`.
- *Monitors* of `Gatherer`: one socket more than the machine starts with, so that the
  count can be above and below the enumeration. `Replug` stops with the report.
- *Wine* (`MaxMisses` = 1): a miss leaves everything as it was. `IsWine` stores in
  both cases and `GetWineHostOs` only if it was answered; `GetWineVersion` is the
  latter with the former's export and is left to the proof.
- *Identifiers*: addresses and UUIDs of two bytes instead of 6 and 16, since no byte
  depends on another one; lists with loopback, address-less and too large entries,
  texts with blanks, signs, dashes and the wrong length. Two changes (`MaxChanges`)
  let a network change and change back.
- *MonitorDetails*: five layouts of up to three displays, among them a mirrored pair, a
  mode 0/0 and one of 59.5 Hz, which rounds either way; two reconfigurations
  (`MaxReplugs`). `Precision` = 2048 stands for the 2^22 of `float`, as TLC's integers are
  of 32 bits: it only makes the half-way zone wider.
- *MacServices* (`MaxTurns` = 5): a function and four turns of its loop, or two functions
  with three turns between them.
- *CommandLine*: two processes, two seconds, two faults (`MaxFaults`).
- `Queries.cfg` has `CHECK_DEADLOCK FALSE`: the bounds, the end of both processes and
  the crash of `MacServices` stop a behaviour.

### Fairness

Only what is under way is assumed to go on: `WF` on the steps of a call that has
begun and on stores reaching memory (`Retrieval`, `VMDetection`, `WineCache`), on
the steps of `GetD3DInfo` but its exceptions (`D3DInfo`): nothing that throws gets a
call out of its loop. This is the scheduler running a runnable thread and a
processor emptying its store buffer. Nobody is assumed to call, or to read a
report; a gathering may throw instead of ending. `CallReturns` needs DXGI to
answer *not found* after the last adapter; another error for ever would keep the
loop at `d3d_info.cpp:347` going (a listed hazard). `HardDrives` claims no
liveness, since the code waits for WMI with `WBEM_INFINITE`.

## 4. What is proved

All proofs are for every value of the constants that satisfies the assumptions
of the module, and use no others.

**`RetrievalProofs`** (`RetrievalAssumption`).
- `TypeCorrect`; nothing torn is ever stored.
- `HoldersNeverRegatherAlways`, from `HolderInv`: a holder sees the flag, in
  memory or in its own pending stores. Needed because memory may still say that
  there is no data.
- `SettledStaysSettled`, an action property, from the type invariant: with the
  flag in memory no `BeginGather` is enabled, without pending stores no `Drain`.
- `SerialisedInvAlways` if calls are serialised. The invariant is a disjunction:
  nothing has been published and nobody holds anything, or some thread's report
  is published, it is the only one with stores pending, and nobody else holds the
  reference until they are in memory. `Exclusive` (one thread inside, everybody
  else's stores done) carries it through `Call`.
- `OneReportAlways`, `ReferenceStableAlways` and `RetrievalImplementsWriteOnce`
  follow from it; the last is the refinement, with the latest store as the value.

**`VMDetectionProofs`** (`VMAssumption`, `MeasurementAssumption`).
- `SampleVerdict`: a slow sample always counts, a fast one only if the counter
  wrapped between its two readings.
- `TypeCorrect`, together with `MeasurementInv` (how far the counter can have moved,
  how many crossings are missing or spurious) and `VerdictInv` (a verdict stored,
  pending or about to be returned is right). They are inductive only together:
  that the counter wraps at most once needs the bound on its progress.
- `SettledIsRightAlways`, `NeverFalseAlarmAlways`, and for serialised calls
  `SerialVerdictAlways` (with `OneCall`: the others' stores are in memory).
- `ImplementsWriteOnceWhenSerialised`, the refinement: `Store` publishes, `Return` answers.
  By `CellRight` the abstract cell is empty or holds the right verdict, so that the
  arrival of a store in memory is a stutter; `Marked` (who measures has raised the flag)
  and `OneCall` say when it is full.

**`D3DInfoProofs`** (`D3DAssumption`).
- `Inv` is `TypeOK`, where the walk is (`PlaceInv`), what is held where
  (`HoldInv`) and which adapters have been asked for (`RefsInv`: none beyond the
  current one, none at all before `initialized`).
- From it `TypeCorrect`, `OnlyLostOutliveAlways` (with `FreshInv`: a call that never had a
  factory leaves nothing), `AdaptersLeakOnceAlways`, `ModernOutputsKeptAlways`; and `PrimaryFirstAlways`, with a lemma about `List`.
- `AnswersCompleteAlways` from `CollectInv`, which says what the enumeration has
  collected at each point of it: the level, the kinds of adapter and the monitors of
  the adapters before the current one and of its first `o` outputs (`Levels`, `Kinds`,
  `Described`), the whole machine once the loops are over (`Whole`), nothing at all
  before `initialized`. One lemma for each way in which it can grow (`OneLevel`,
  `OneMonitor`, `OneKind`) or pass over something (`NoLevel`, `NoMonitor`, `NoKind`,
  `LastMonitor`); `Prepended` and `Appended` say what a list is that has grown by one.
- `ImplementsWriteOnceAlways`, the refinement: `ReleaseFactory` publishes if the factory
  was had, `Call` and `Return` are `Answer` or `Miss`, every other step is a stutter.
  `CollectInv` is needed for `Miss`: what is answered then is the default.

**`HardDrivesProofs`** (`DrivesAssumption`), for any number of threads, calls and drives.
- `TypeCorrect`, `Balanced`, `Released`, `LeakBounded` and `ListsWhole` (of `TypeOK`,
  `ApartmentsBalanced`, `ReleasedInApartment`, `LeakOneACall` and `AllOrNothing`) from
  `IInv`: `Place` says which scope exits are armed and which references held at each
  rung of the ladder and at each exit, and which drives are listed; `Balances` counts
  apartments and losses by it. The five are inductive only together: that a release
  happens inside its apartment is a matter of which exits are left below it.
- `SerialAgree` (of `SerialCallsAgree`) from `SerialInv`: where calls do not overlap, the
  host does not use COM and COM forgets, a thread inside is alone, security is
  set exactly from the rung that sets it on, and a list without a fault is whole.
- `DrivesAmong` describes a list of drives by the positions it was taken from, so that
  what is listed can be reasoned about one disk at a time.

**`CPUFeaturesProofs`** (`CPUAssumption`), for any processor, any number of kinds of core.
- `TypeCorrect`, `Uniform` and `Mixed` (of `TypeOK`, `UniformExact` and `MixedBounded`) from
  `IInv`: each number read is some core's (`NumbersInv`), each piece of the brand too, and
  there are as many as were read (`BrandInv`); the registers lie between what all cores
  have of the leaves read so far and what any has (`FeaturesInv`); the list is that of
  the registers (`ListInv`). With one kind of core both ends of the second meet.

**`WineCacheProofs`** (`WineAssumption`).
- `TypeCorrect`; and `NeverTakenBackAlways` for any number of threads and the three
  caches, from `ToldInv`: a thread that was told of Wine sees the flag and the word,
  in memory or among its own pending stores, and is not looking again; and memory holds no
  word that Wine does not say. The first half is needed because memory may show the
  thread's flag and not yet its value, the second because a value may be another
  thread's.
- `WrongOnlyInWindowAlways` from `WindowInv`: where Wine's word is to be had and a flag is
  raised, in memory or on its way there, so is the word: no lookup raises a flag without
  having stored it.

**`GathererProofs`** (`GathererAssumption`).
- `TypeCorrect`.
- `SectionsAgreeAlways` from `SectionsInv`: what the half-made report has from a section
  is this machine's truth, and once `IsSuspectedVM` has measured, the verdict is settled,
  so that the second question of the virtual machine section cannot contradict the first.
- `SameEnumerationAlways` from `EnumInv`: after the first of the three calls, what the
  report has of displays is what the static holds, which nothing changes any more.
- `WholeReportAlways` from `WholeInv`, with `StaticsInv`: the static, if filled and not
  cut short, has the machine's GPUs and level, and its monitors unless `drifted`; and
  where COM forgets, nothing is left secured. `GatherData` finds them so although the
  host may have filled them.

**`QueriesProofs`** (`DetailsAssumption` and `IdentifiersAssumption` for the modules they
belong to, none for the others).
- `SuccessUnlessLostAlways` of `CommandLine`, for any number of processes, seconds and
  faults, from `CliInv`: where a process is tells what of its report is in its file and
  on its console, unless that stream lost a part or the file is `Shared` with a process of
  the same second. `CliOthers` says what a step of one process leaves of another's.
- `LossesAccountedAlways` of `MacServices`, for any number of turns, from `Losses`, which
  is the property kind by kind and inductive as it is. `Balance` reduces each action to
  nine sums: what it adds to `held` less what it adds to `found` is nothing, or at most
  what one turn holds if an exception leaves.
- `WrongOnlyIfDisturbedAlways` of `MonitorDetails`, an action property, for any layouts,
  modes and reconfigurations, from `DetailInv`: a function that nothing disturbed so far
  has the displays as they are in its vector and, if its monitor is shown, no path of it
  behind it (`SoFar`). `HighestOfModes`: a number that some mode may be rounded to and that
  no mode has to exceed is the highest rate to the nearest hertz, for any `Precision`.
- `TextAlwaysMatchesBytes` and `OneMomentAlways` of `Identifiers`, for any networks, texts
  and lengths, from `Networked` (what the two calls see are networks there can be, and the
  first was not empty) and, for the former, `AnswersRight` (what was answered last is
  right entry by entry). On the way, `HexReadsBack`, `MacReadsBack` and
  `UuidBytesAlwaysWhole`: what is printed of a byte and of an address reads back as it, and
  a UUID has all its bytes or none. `ReportedIsWanted`: the loop's `hasPhysical` and an
  address that is not all zeros are the same filter.
- These proofs are about what recursive functions compute for lists of any length.
  The induction is first-order: `UpTo` says that a *set* of numbers with 0, and with each
  number the next, has them all, by a least counterexample. `Recursion` and `OneRecursion`
  derive from it that a function defined step by step exists and is the only one, so that
  `Kept`, `FlattenSeq` and `Room` can be taken one step at a time (`KeptSteps`,
  `FlattenSteps`, `RoomIsNat`); `MacShown` and `PairsFlattened` go up a list with them.

**Model-checked only.**
- Liveness under fairness (`RaceWindowCloses`, `VerdictSettles`, `CallReturns`,
  `SettlesOnTruth`), which is out of the prover's reach. Every invariant and every action
  property that a passing run checks is also a theorem.

## 5. What is not modelled

- Overlapping calls of `GetD3DInfo`, and of `GatherData` above it: two threads
  would append to the same vectors, of which nothing can be said. `D3DInfo` and
  `Gatherer` assume that calls are serialised; `Retrieval` says what the outer
  function does when they are not, taking a gathering as one opaque step.
- Values that nothing in the program looks at: names, versions, dates, sizes, the
  text of WMI's properties, a monitor's size and colour depth, the processor's
  frequency and core count. The search for a driver's registry key at
  `d3d_info.cpp` only finds a version.
- The registry, battery, locale and version queries of `windows_data.cpp`: each is one
  call of the system and its result. `GetUserLocale` changes the locale of the process
  (a listed hazard); nothing in the library reads it afterwards.
- The values of the macOS backend, its `sysctl` queries and the commands it runs
  through `popen`; `MacServices` has its references.
- UTF conversions and case, which are the platform's; the layout of the output and
  the statistics of the timings.
- Constants: the Vulkan functions, the names of enumerations.

## 6. Plan

Written, in this order: `WriteOnce`, `Retrieval` and its proofs, `VMDetection`
and its proofs, `D3DInfo` and its proofs, `HardDrives`, `Gatherer`,
`CPUFeatures`, `WineCache` and its proofs, `Identifiers`, `MonitorDetails`,
`MacServices`, `CommandLine`, the proofs of `Gatherer`, those of `MacServices` and
`CommandLine`, of `HardDrives`, of `CPUFeatures`, the completeness and the refinement of
`D3DInfo`, the refinement of `VMDetection`, the proofs of `MonitorDetails` and
those of `Identifiers`. The order puts what every host meets first.

To prove, nothing is left of what the runs check but liveness. The three caches of
`WineCache` are not stated as a refinement of `WriteOnce`: overlapping calls do not keep
its promise, and what each thread is promised is `NeverTakenBack`, which is proved.

Next, to model: the remaining sections of `Gatherer` and its macOS build, if a
property relates them.
