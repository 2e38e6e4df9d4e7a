----------------------------- MODULE MCQueries -----------------------------
(* The components without statics of their own: Identifiers, MonitorDetails, *)
(* MacServices and CommandLine.  They share nothing, so that a behaviour     *)
(* exercises one of them, the subject, and the others rest.                  *)
EXTENDS Identifiers, MonitorDetails, MacServices, CommandLine, TLC

VARIABLE subject

\* Addresses of two bytes, UUIDs of two.
Card(mac, loopback, a, b, room) ==
  [physical |-> mac, loopback |-> loopback, name |-> <<Open, a, b, Dash, 15, 0, Close>>,
   room |-> room]
MCNetworks ==
  {<<>>,
   <<Card(<<0, 0>>, TRUE, 1, 2, 1), Card(<<15, 1>>, FALSE, 3, 4, 1)>>,
   <<Card(<<15, 1>>, FALSE, 3, 4, 1), Card(<<0, 0>>, FALSE, 5, 5, 1),
     Card(<<255, 16>>, FALSE, 12, 10, 2)>>,
   <<Card(<<0, 1>>, FALSE, 3, 4, 2)>>,
   <<Card(<<1, 1>>, TRUE, 3, 4, 1), Card(<<0, 0>>, FALSE, 5, 5, 1)>>}
MCRegistries ==
  {<<1, 2, 3, 4>>, <<1, 15, Dash, 0, 4>>, <<1, 2, 3, 4, 5>>, <<1, 2, 3>>,
   <<Plus, 2, 3, 4>>, <<Blank, 2, 3, Other>>, <<1, 2, Other, 3>>}

\* A laptop's display with a rate half way between two hertz, a second one with a
\* mode without a rate, and a beamer that mirrors it.
Laptop == [source |-> "display1", name |-> "laptop", dpi |-> 144,
             modes |-> <<<<119, 2>>, <<48, 1>>>>]
Second(n) == [source |-> "display2", name |-> n, dpi |-> 96,
              modes |-> <<<<60000, 1001>>, <<0, 0>>, <<143981, 1000>>>>]
Desk == <<Laptop, Second("desk")>>
MCLayouts == {<<Laptop>>, Desk, <<Second("desk"), Laptop>>,
              <<Laptop, Second("beamer"), Second("desk")>>, <<Second("desk")>>}

Subjects == {"identifiers", "monitors", "mac", "commandLine"}

Init ==
  /\ subject \in Subjects
  /\ IdInit      /\ (subject # "identifiers" => network = <<>> /\ registry = <<>>)
  /\ DetailInit  /\ (subject # "monitors" => displays = Desk /\ scaling /\ asked = "display1")
  /\ MacInit
  /\ CliInit     /\ (subject # "commandLine" => stamp = [p \in Procs |-> 1])

Next ==
  \/ subject = "identifiers" /\ IdNext /\ UNCHANGED <<detailVars, macVars, cliVars, subject>>
  \/ subject = "monitors" /\ DetailNext /\ UNCHANGED <<idVars, macVars, cliVars, subject>>
  \/ subject = "mac" /\ MacNext /\ UNCHANGED <<idVars, detailVars, cliVars, subject>>
  \/ subject = "commandLine" /\ CliNext /\ UNCHANGED <<idVars, detailVars, macVars, subject>>

vars == <<idVars, detailVars, macVars, cliVars, subject>>
Spec == Init /\ [][Next]_vars
=============================================================================
