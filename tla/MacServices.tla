----------------------------- MODULE MacServices -----------------------------
(***************************************************************************)
(* The references that the macOS backend (src/macos/macos_data.mm) takes   *)
(* from Mach, IOKit, CoreFoundation, Foundation, CoreGraphics and Metal,   *)
(* and gives back or not, on every way out of its functions. What is found *)
(* is chosen anew each time; an exception of a string or a vector may      *)
(* leave a function where it builds them.                                  *)
(***************************************************************************)
EXTENDS Integers

CONSTANTS
  MaxTurns   \* bound: entries found and functions called without a loop

Kinds == {"port", "iterator", "object", "properties", "property", "mode", "info",
          "array", "string"}
Nothing == [k \in Kinds |-> 0]

VARIABLES
  inside,    \* the function in progress, "none" between calls, "crashed" at the end
  held,      \* held[k]: references of kind k taken and not given back
  turns,     \* turns taken
  found,     \* what was found in them, by which the losses are judged
  threw      \* exceptions that left a function

macVars == <<inside, held, turns, found, threw>>

ASSUME MacAssumption == MaxTurns \in Nat

\* right: a send right of IOMasterPort; interface, controller: of a network adapter;
\* screen: a screen whose display is listed; metal: a call of GetMetalSupported;
\* wide: a string that UTF8ToWString makes.
Finds == {"right", "interface", "controller", "screen", "metal", "wide"}

MacInit ==
  /\ inside = "none"
  /\ held = Nothing
  /\ turns = 0
  /\ found = [x \in Finds |-> 0]
  /\ threw = 0

\* What is taken, given back or found in a step; each choice is 0 or 1.
Amount(change, k) == IF k \in DOMAIN change THEN change[k] ELSE 0
Change(take, give) == held' = [k \in Kinds |-> held[k] + Amount(take, k) - Amount(give, k)]
Count(xs) == found' = [x \in Finds |-> found[x] + Amount(xs, x)]
Turn == turns < MaxTurns /\ turns' = turns + 1

\* GetNetworkAdapterInfo asks for a port of its own and never deallocates the send
\* right; nothing is checked: without an iterator the loop and the release find none.
MatchNetwork ==
  /\ inside = "none"
  /\ Turn
  /\ \E right, had \in {0, 1} :
       /\ inside' = IF had = 1 THEN "network" ELSE "none"
       /\ Count([right |-> right])
       /\ Change([port |-> right, iterator |-> had], Nothing)
  /\ UNCHANGED threw

\* GetGPUInfo takes the default port, and does nothing if it is given no iterator.
MatchGPU ==
  /\ inside = "none"
  /\ Turn
  /\ inside' = "gpu"
  /\ Change([iterator |-> 1], Nothing)
  /\ UNCHANGED <<found, threw>>

EndOfIterator ==
  /\ inside \in {"network", "gpu"}
  /\ inside' = "none"
  /\ Change(Nothing, [iterator |-> 1])
  /\ UNCHANGED <<turns, found, threw>>

Leaves(throws) ==
  /\ threw' = threw + throws
  /\ inside' = IF throws = 1 THEN "none" ELSE inside

\* A turn of GetNetworkAdapterInfo: the interface and its controller are not
\* released, the two properties are if they are there; the text of the address is
\* built in a string of its own, lost if the copy of it throws.
NetworkTurn ==
  /\ inside = "network"
  /\ Turn
  /\ \E parent, throws, copying \in {0, 1}, made \in 0 .. 2 :
       /\ made <= 2 * parent
       /\ throws = 1 => made = 2
       /\ copying <= throws
       /\ Count([interface |-> 1, controller |-> parent])
       /\ Change([object |-> 1 + parent, property |-> made, string |-> copying],
                 [property |-> IF throws = 1 THEN 0 ELSE made])
       /\ Leaves(throws)

\* A turn of GetGPUInfo: the entry and its dictionary are released on both ways
\* to the next turn; nsStr is there while an Intel model's name is made.
\* (Mutation: continue without IOObjectRelease.)
ContinueWithEntry(made) == [object |-> made, properties |-> made]
Released(made) == [object |-> 1, properties |-> made]

GPUTurn ==
  /\ inside = "gpu"
  /\ Turn
  /\ \E made, named, throws \in {0, 1} :
       /\ named <= throws /\ throws <= made
       /\ Change([object |-> 1, properties |-> made, string |-> named],
                 IF throws = 1 THEN Nothing ELSE Released(made))
       /\ Leaves(throws)
  /\ UNCHANGED found

\* GetBatteryStatus: two scope exits, each armed when its object is there.
Battery ==
  /\ inside = "none"
  /\ Turn
  /\ \E blob, sources \in {0, 1} :
       /\ sources <= blob
       /\ Change([info |-> blob, array |-> sources], [info |-> blob, array |-> sources])
  /\ UNCHANGED <<inside, found, threw>>

\* GetMachineUuidString: without the property, CFStringGetCString and CFRelease
\* are given a null reference.
MachineUuid ==
  /\ inside = "none"
  /\ Turn
  /\ \E made \in {0, 1} :
       /\ Change([object |-> 1, property |-> made], [object |-> 1, property |-> made])
       /\ inside' = IF made = 1 THEN "none" ELSE "crashed"
  /\ UNCHANGED <<found, threw>>

\* A screen of GetMonitorsInfo: the dictionary of its name is released, the
\* display mode asked for its refresh rate is not.
Screen ==
  /\ inside = "none"
  /\ Turn
  /\ \E listed, unnamed, throws \in {0, 1} :
       /\ unnamed <= listed
       /\ Count([screen |-> listed])
       /\ Change([mode |-> listed, info |-> unnamed], [info |-> unnamed])
       /\ Leaves(throws)

\* GetMetalSupported, and through it GetVulkanProperties.
Metal ==
  /\ inside = "none"
  /\ Turn
  /\ Count([metal |-> 1])
  /\ Change([array |-> 1], Nothing)
  /\ UNCHANGED <<inside, threw>>

\* UTF8ToWString: a string of well-formed UTF-8 is made and never released.
UTF8ToWString ==
  /\ inside = "none"
  /\ Turn
  /\ \E made, throws \in {0, 1} :
       /\ Count([wide |-> made])
       /\ Change([string |-> made], Nothing)
       /\ Leaves(throws)

MacNext ==
  \/ MatchNetwork \/ MatchGPU \/ EndOfIterator \/ NetworkTurn \/ GPUTurn
  \/ Battery \/ MachineUuid \/ Screen \/ Metal \/ UTF8ToWString

MacSpec == MacInit /\ [][MacNext]_macVars

-----------------------------------------------------------------------------
\* Of the references modelled here, the backend loses those its code never releases
\* (the send right of each call of GetNetworkAdapterInfo, the interface and the
\* controller of each network adapter, a display mode a screen, an array a Metal
\* query, a string a conversion) and, for each exception, at most what one turn of
\* one loop holds; a way out without an exception loses no more than that.
LossesAccounted ==
  LET unexplained ==
        [held EXCEPT !.port   = @ - found["right"],
                     !.object = @ - found["interface"] - found["controller"],
                     !.mode   = @ - found["screen"],
                     !.array  = @ - found["metal"],
                     !.string = @ - found["wide"],
                     !.iterator = IF inside \in {"network", "gpu"} THEN @ - 1 ELSE @]
      Turnful == [Nothing EXCEPT !.iterator = 1, !.object = 1, !.properties = 1,
                                 !.property = 2, !.string = 1]
  IN  \A k \in Kinds : unexplained[k] \in 0 .. threw * Turnful[k]
=============================================================================
