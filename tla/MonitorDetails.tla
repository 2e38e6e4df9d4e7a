--------------------------- MODULE MonitorDetails ---------------------------
(***************************************************************************)
(* What GetD3DInfo (src/windows/d3d_info.cpp) asks about one monitor:      *)
(* GetMonitorName and GetMonitorMaxRefreshRate, which ask for a size and   *)
(* then for a list, and GetMonitorDPIScalingPercent.  The displays may be  *)
(* reconfigured between any two of these calls; their results are not all  *)
(* looked at, and what a failed one leaves unset is read all the same.     *)
(***************************************************************************)
EXTENDS Integers, Sequences, SequencesExt

CONSTANTS
  Layouts,      \* the configurations of the displays: see Layout
  Monitors,     \* the monitors GetD3DInfo asks about
  MaxReplugs,   \* bound: how often the displays are reconfigured
  Precision,    \* a quotient of floats is off by at most its Precision-th: 2^22 of float
  Zero,         \* an element of a vector that no call has written
  Garbage,      \* a text read from uninitialised memory
  Junk          \* a number from uninitialised memory or an undefined conversion

VARIABLES
  displays,     \* the active paths, in the order of QueryDisplayConfig
  replugs,      \* how often they have changed
  step,         \* the next call
  asked,        \* the monitor asked about
  device,       \* szDevice, by which GetMonitorName knows it
  list,         \* the vector the query in progress has allocated
  i,            \* its element being looked at
  scaling,      \* does scalingModuleHandle, freed at line 319, still answer
  undisturbed,  \* no change since the function in progress was called
  details       \* the answers

detailVars == <<displays, replugs, step, asked, device, list, i, scaling,
                undisturbed, details>>

\* source: the monitor shown on; name: the target's friendly name; modes: the
\* refresh rates of the display, as fractions no higher than uint32_t is wide; dpi:
\* its effective DPI.
Path == [source : Monitors, name : STRING, modes : Seq(Nat \X Nat), dpi : Nat]

ASSUME DetailsAssumption ==
  /\ \A x \in Layouts : x \in Seq(Path)
  /\ \A x \in Layouts : \A k, l \in DOMAIN x :
       x[k].source = x[l].source => x[k].modes = x[l].modes /\ x[k].dpi = x[l].dpi
  /\ MaxReplugs \in Nat /\ Precision \in Nat \ {0}
  /\ Zero \notin Path \cup (Nat \X Nat)
  /\ Junk \notin Nat

Of(mon) == {k \in DOMAIN displays : displays[k].source = mon}
Shown(mon) == Of(mon) # {}
Modes(mon) == IF Shown(mon) THEN displays[CHOOSE k \in Of(mon) : TRUE].modes ELSE <<>>
Dpi(mon)   == displays[CHOOSE k \in Of(mon) : TRUE].dpi

Unwritten(n) == [k \in 1 .. n |-> Zero]
\* A vector of n elements after the call that fills it: nothing is written if
\* there are more by now, and less than all of it if there are fewer.
Filled(n, now) == IF Len(now) > n THEN Unwritten(n) ELSE now \o Unwritten(n - Len(now))

NoDetails == [name |-> "", rate |-> 0, percent |-> 0]

DetailInit ==
  /\ displays \in Layouts
  /\ replugs = 0
  /\ step = "idle"
  /\ asked \in Monitors
  /\ device = Garbage
  /\ list = <<>>
  /\ i = 1
  /\ scaling \in BOOLEAN
  /\ undisturbed = TRUE
  /\ details = NoDetails

Reconfigure ==
  /\ replugs < MaxReplugs
  /\ replugs' = replugs + 1
  /\ displays' \in Layouts \ {displays}
  /\ undisturbed' = FALSE
  /\ UNCHANGED <<step, asked, device, list, i, scaling, details>>

\* A function begins, or its next call is made.
Begin(next) ==
  /\ step' = next
  /\ list' = <<>>
  /\ i' = 1
  /\ undisturbed' = TRUE
Answer(field, value) == details' = [details EXCEPT ![field] = value]

-----------------------------------------------------------------------------
\* GetDesc tells the monitor that an output is shown on.
Describe ==
  /\ step = "idle"
  /\ asked' \in {mon \in Monitors : Shown(mon)}
  /\ step' = "name"
  /\ details' = NoDetails
  /\ UNCHANGED <<displays, replugs, device, list, i, scaling, undisturbed>>

\* GetMonitorName is called; the monitor may be gone by now.
AskName ==
  /\ step = "name"
  /\ Begin("info")
  /\ UNCHANGED <<displays, replugs, asked, device, scaling, details>>

\* GetMonitorInfoW of a monitor that is gone leaves szDevice unset.
GetMonitorInfo ==
  /\ step = "info"
  /\ device' \in IF Shown(asked) THEN {asked} ELSE Monitors \cup {Garbage}
  /\ step' = "sizes"
  /\ UNCHANGED <<displays, replugs, asked, list, i, scaling, undisturbed, details>>

\* GetDisplayConfigBufferSizes: the sizes are always told.
GetBufferSizes ==
  /\ step = "sizes"
  /\ step' = "query"
  /\ list' = Unwritten(Len(displays))
  /\ UNCHANGED <<displays, replugs, asked, device, i, scaling, undisturbed, details>>

\* QueryDisplayConfig's result is not looked at, nor the number it wrote.
QueryPaths ==
  /\ step = "query"
  /\ step' = "walk"
  /\ list' = Filled(Len(list), displays)
  /\ UNCHANGED <<displays, replugs, asked, device, i, scaling, undisturbed, details>>

Exists(p) == p # Zero /\ \E k \in DOMAIN displays : displays[k] = p

\* Does DisplayConfigGetDeviceInfo name the source of p as szDevice?  Of a path
\* that does not exist (any more) it leaves whatever is on the stack.
\* (Mutation: szDevice is not compared.)
MatchesAny(p) == {TRUE}
MatchesMonitor(p) == IF Exists(p) THEN {p.source = device} ELSE BOOLEAN

NextPath ==
  /\ step = "walk"
  /\ i <= Len(list)
  /\ FALSE \in MatchesMonitor(list[i])
  /\ i' = i + 1
  /\ UNCHANGED <<displays, replugs, step, asked, device, list, scaling, undisturbed, details>>

FindPath ==
  /\ step = "walk"
  /\ i <= Len(list)
  /\ TRUE \in MatchesMonitor(list[i])
  /\ step' = "target"
  /\ UNCHANGED <<displays, replugs, asked, device, list, i, scaling, undisturbed, details>>

\* The friendly name of the target of the path found, or what the stack held if the
\* path is gone by now; and "" after the last path.
ReturnName ==
  /\ \/ step = "target" /\ Answer("name", IF Exists(list[i]) THEN list[i].name ELSE Garbage)
     \/ step = "walk" /\ i > Len(list) /\ Answer("name", "")
  /\ Begin("count")
  /\ UNCHANGED <<displays, replugs, asked, device, scaling>>

\* GetMonitorMaxRefreshRate: no modes, or a failure, is 0.
CountModes ==
  /\ step = "count"
  /\ IF Modes(asked) = <<>>
     THEN Answer("rate", 0) /\ Begin("scaling")
     ELSE /\ step' = "modes"
          /\ list' = Unwritten(Len(Modes(asked)))
          /\ UNCHANGED <<i, undisturbed, details>>
  /\ UNCHANGED <<displays, replugs, asked, device, scaling>>

\* round(float(Numerator) / Denominator): the nearest integers of what the quotient
\* may come out as.  The conversion of an infinity or of 0/0 to uint32_t is
\* undefined, and comes out as 0 or as something huge.
Defined(mode) == mode # Zero /\ mode[2] # 0
Rates(mode) ==
  {n \in 0 .. 2 * (mode[1] \div mode[2] + 1) :
     /\ Precision * ((2 * n - 1) * mode[2]) <= 2 * ((Precision + 1) * mode[1])
     /\ Precision * ((2 * n + 1) * mode[2]) >= 2 * ((Precision - 1) * mode[1])}

\* The highest of the rates that the modes, each once, come out as.
ListModes ==
  /\ step = "modes"
  /\ LET modes   == ToSet(Filled(Len(list), Modes(asked)))
         defined == {mode \in modes : Defined(mode)}
     IN  IF Len(Modes(asked)) > Len(list) \/ ~Shown(asked)
         THEN Answer("rate", 0)
         ELSE \/ modes # defined /\ Answer("rate", Junk)
              \/ \E rate \in {0} \cup UNION {Rates(mode) : mode \in defined} :
                   /\ \A mode \in defined : \E n \in Rates(mode) : n <= rate
                   /\ Answer("rate", rate)
  /\ Begin("scaling")
  /\ UNCHANGED <<displays, replugs, asked, device, scaling>>

\* GetMonitorDPIScalingPercent: without the library, 0; x of a failed
\* GetDpiForMonitor is what the stack held.
GetScaling ==
  /\ step = "scaling"
  /\ Answer("percent", CASE ~scaling                -> 0
                         [] scaling /\ Shown(asked)  -> (Dpi(asked) * 100) \div 96
                         [] scaling /\ ~Shown(asked) -> Junk)
  /\ step' = "idle"
  /\ UNCHANGED <<displays, replugs, asked, device, list, i, scaling, undisturbed>>

DetailNext ==
  \/ Reconfigure \/ Describe \/ AskName \/ GetMonitorInfo \/ GetBufferSizes \/ QueryPaths
  \/ NextPath \/ FindPath \/ ReturnName \/ CountModes \/ ListModes \/ GetScaling

DetailSpec == DetailInit /\ [][DetailNext]_detailVars
-----------------------------------------------------------------------------
\* A wrong answer about a monitor has its cause in the displays.  The name of one
\* that is shown is its own and no other's, unless the displays change while
\* GetMonitorName is at work; without such a change in its own time the rate is the
\* highest of the modes, to the nearest hertz as far as float tells (or junk if one
\* has a zero denominator); and the scaling is that of the monitor, or 0 without the
\* library.  Whatever happened before a function was called does not count against
\* it, but for this: a monitor gone by then may be given a name that is not its own,
\* and has a scaling read from the stack.
Highest(rate, modes) ==
  /\ \A k \in DOMAIN modes :
       2 * ((Precision - 1) * modes[k][1]) <= Precision * ((2 * rate + 1) * modes[k][2])
  /\ rate # 0 => \E k \in DOMAIN modes :
       Precision * ((2 * rate - 1) * modes[k][2]) <= 2 * ((Precision + 1) * modes[k][1])
WrongOnlyIfDisturbed ==
  [][LET told == details'
     IN  /\ step \in {"walk", "target"} /\ step' = "count" /\ undisturbed /\ Shown(asked) =>
              told.name = displays[Min(Of(asked))].name
         /\ step # "scaling" /\ step' = "scaling" /\ undisturbed =>
              \/ told.rate # Junk /\ Highest(told.rate, Modes(asked))
              \/ \E k \in DOMAIN Modes(asked) : Modes(asked)[k][2] = 0
         /\ step = "scaling" /\ step' = "idle" /\ Shown(asked) =>
              told.percent = IF scaling THEN (Dpi(asked) * 100) \div 96 ELSE 0
    ]_detailVars
=============================================================================
