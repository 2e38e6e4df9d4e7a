---------------------------- MODULE QueriesProofs ----------------------------
(***************************************************************************)
(* What is proved of the components that MCQueries puts side by side:      *)
(* CommandLine, for any number of processes, seconds and faults;           *)
(* MacServices, for any number of turns; MonitorDetails, for any displays, *)
(* modes and reconfigurations; Identifiers, for any texts, networks and    *)
(* changes of them, and addresses and UUIDs of any length.                 *)
(***************************************************************************)
EXTENDS CommandLine, MacServices, MonitorDetails, Identifiers, TLAPS,
        WellFoundedInduction, SequenceTheorems

Doings == {"retrieve", "open", "file1", "file2", "console1", "console2", "timings", "wait",
           "gone"}

CliType ==
  /\ doing \in [Procs -> Doings]
  /\ stamp \in [Procs -> Seconds]
  /\ files \in [Seconds -> [Parts -> Procs \cup {Nobody}]]
  /\ console \in [Procs -> SUBSET Parts]
  /\ lost \in [Procs -> SUBSET Streams]
  /\ code \in [Procs -> {"none", "EXIT_SUCCESS", "EXIT_FAILURE"}]

\* Another process has the second of p, and has been or may be at its file.
Shared(p) == \E q \in Procs \ {p} : stamp[q] = stamp[p] /\ doing[q] # "retrieve"

(* Where a process is, and what of its report has been put where.           *)
Written(p) ==
  /\ doing[p] = "file2" => files[stamp[p]][1] = p \/ "file" \in lost[p] \/ Shared(p)
  /\ doing[p] \in {"console1", "console2", "timings"} \/ code[p] = "EXIT_SUCCESS" =>
       files[stamp[p]] = [k \in Parts |-> p] \/ "file" \in lost[p] \/ Shared(p)
Printed(p) ==
  /\ code[p] # "none" => doing[p] \in {"wait", "gone"}
  /\ doing[p] = "console2" => 1 \in console[p] \/ "console" \in lost[p]
  /\ doing[p] = "timings" \/ code[p] = "EXIT_SUCCESS" =>
       console[p] = Parts \/ "console" \in lost[p]

CliInv == CliType /\ \A p \in Procs : Written(p) /\ Printed(p)

LEMMA InitCli == CliInit => CliInv
BY DEF CliInit, CliInv, CliType, Doings, NoFile, Written, Printed

LEMMA CliTypeKept == CliType /\ [CliNext]_cliVars => CliType'
<1> SUFFICES ASSUME CliType, [CliNext]_cliVars PROVE CliType'
  OBVIOUS
<1> USE DEF CliType, Doings, Goes, Parts
<1>1. CASE UNCHANGED cliVars
  BY <1>1 DEF cliVars
<1>2. ASSUME NEW p \in Procs, Retrieve(p) \/ Timings(p) \/ Catch(p) \/ Wait(p)
      PROVE  CliType'
  BY <1>2 DEF Retrieve, Timings, Catch, Wait
<1>3. ASSUME NEW p \in Procs, OpenFile(p) PROVE CliType'
  <2>1. NoFile \in [Parts -> Procs \cup {Nobody}]
    BY DEF NoFile
  <2>2. files' \in [Seconds -> [Parts -> Procs \cup {Nobody}]]
    <3> HIDE DEF Parts
    <3> QED BY <1>3, <2>1 DEF OpenFile
  <2>3. doing' \in [Procs -> Doings] /\ UNCHANGED <<stamp, console, lost, code>>
    BY <1>3 DEF OpenFile
  <2> QED BY <2>2, <2>3
<1>4. ASSUME NEW p \in Procs, NEW k \in Parts, WriteFile(p, k) PROVE CliType'
  <2>1. files' \in [Seconds -> [Parts -> Procs \cup {Nobody}]]
    <3>1. files' = files \/ files' = [files EXCEPT ![stamp[p]][k] = p]
      BY <1>4 DEF WriteFile
    <3>2. [files[stamp[p]] EXCEPT ![k] = p] \in [Parts -> Procs \cup {Nobody}]
      OBVIOUS
    <3> QED BY <3>1, <3>2
  <2>2. doing' \in [Procs -> Doings] /\ lost' \in [Procs -> SUBSET Streams]
    BY <1>4 DEF WriteFile, Loses, Streams
  <2>3. UNCHANGED <<stamp, console, code>>
    BY <1>4 DEF WriteFile
  <2> QED BY <2>1, <2>2, <2>3
<1>5. ASSUME NEW p \in Procs, NEW k \in Parts, WriteConsole(p, k) PROVE CliType'
  BY <1>5 DEF WriteConsole, Loses, Streams
<1>6. ASSUME NEW p \in Procs, OpenFails(p) PROVE CliType'
  BY <1>6 DEF OpenFails, Loses, Streams
<1> QED BY <1>1, <1>2, <1>3, <1>4, <1>5, <1>6 DEF CliNext

\* What a step of one process does to the others: nothing, unless they share a file.
Step(p) ==
  \/ Retrieve(p) \/ OpenFile(p) \/ OpenFails(p)
  \/ \E k \in Parts : WriteFile(p, k) \/ WriteConsole(p, k)
  \/ Timings(p) \/ Catch(p) \/ Wait(p)

LEMMA CliOthers ==
  ASSUME CliType, NEW p \in Procs, Step(p), NEW q \in Procs \ {p}
  PROVE  /\ doing'[q] = doing[q] /\ console'[q] = console[q] /\ lost'[q] = lost[q]
         /\ code'[q] = code[q] /\ stamp' = stamp
         /\ doing'[p] # "retrieve"
         /\ Shared(q) => Shared(q)'
         /\ files'[stamp[q]] = files[stamp[q]] \/ Shared(q)'
<1> USE DEF CliType, Goes
<1>1. stamp' = stamp
  BY DEF Step, Retrieve, OpenFile, OpenFails, WriteFile, WriteConsole, Timings, Catch, Wait
<1>2. \E to \in Doings \ {"retrieve"} : doing' = [doing EXCEPT ![p] = to]
  BY DEF Step, Retrieve, OpenFile, OpenFails, WriteFile, WriteConsole, Timings, Catch, Wait,
         Doings
<1>3. doing'[q] = doing[q] /\ doing'[p] # "retrieve"
  BY <1>2
<1>4. console'[q] = console[q] /\ lost'[q] = lost[q] /\ code'[q] = code[q]
  BY DEF Step, Retrieve, OpenFile, OpenFails, WriteFile, WriteConsole, Timings, Catch, Wait,
         Loses
<1>5. Shared(q) => Shared(q)'
  <2> SUFFICES ASSUME NEW r \in Procs \ {q}, stamp[r] = stamp[q], doing[r] # "retrieve"
               PROVE  doing'[r] # "retrieve"
    BY <1>1 DEF Shared
  <2> QED BY <1>2
<1>6. files'[stamp[q]] = files[stamp[q]] \/ stamp[p] = stamp[q]
  BY DEF Step, Retrieve, OpenFile, OpenFails, WriteFile, WriteConsole, Timings, Catch, Wait
<1>7. stamp[p] = stamp[q] => Shared(q)'
  BY <1>1, <1>3 DEF Shared
<1> QED BY <1>1, <1>3, <1>4, <1>5, <1>6, <1>7

LEMMA NextCli == CliInv /\ [CliNext]_cliVars => CliInv'
<1> SUFFICES ASSUME CliInv, [CliNext]_cliVars PROVE CliInv'
  OBVIOUS
<1>1. CliType /\ CliType'
  BY CliTypeKept DEF CliInv
<1>2. CASE UNCHANGED cliVars
  BY <1>1, <1>2 DEF cliVars, CliInv, Written, Printed, Shared
<1>3. ASSUME NEW p \in Procs, Step(p) PROVE CliInv'
  <2>1. ASSUME NEW q \in Procs \ {p} PROVE Written(q)' /\ Printed(q)'
    <3>1. Written(q) /\ Printed(q)
      BY <2>1 DEF CliInv
    <3>2. /\ doing'[q] = doing[q] /\ console'[q] = console[q] /\ lost'[q] = lost[q]
          /\ code'[q] = code[q] /\ stamp'[q] = stamp[q]
          /\ Shared(q) => Shared(q)'
          /\ files'[stamp[q]] = files[stamp[q]] \/ Shared(q)'
      BY <1>1, <1>3, <2>1, CliOthers
    <3> QED BY <3>1, <3>2 DEF Written, Printed
  <2>2. Shared(p) => Shared(p)'
    <3> SUFFICES ASSUME NEW r \in Procs \ {p}, stamp[r] = stamp[p], doing[r] # "retrieve"
                 PROVE  Shared(p)'
      BY DEF Shared
    <3> QED BY <1>1, <1>3, CliOthers DEF Shared
  <2>3. stamp' = stamp
    BY <1>3 DEF Step, Retrieve, OpenFile, OpenFails, WriteFile, WriteConsole, Timings, Catch, Wait
  <2>4. Written(p) /\ Printed(p)
    BY DEF CliInv
  <2> USE <1>1, <2>2, <2>3, <2>4 DEF CliType, Goes, Written, Printed
  <2> DEFINE Stays == Written(p)' /\ Printed(p)'
  <2>5. ASSUME Retrieve(p) PROVE Stays
    BY <2>5 DEF Retrieve
  <2>6. ASSUME OpenFails(p) PROVE Stays
    BY <2>6 DEF OpenFails, Loses
  <2>7. ASSUME Timings(p) PROVE Stays
    BY <2>7 DEF Timings
  <2>8. ASSUME Catch(p) PROVE Stays
    BY <2>8 DEF Catch
  <2>9. ASSUME Wait(p) PROVE Stays
    BY <2>9 DEF Wait
  <2>10. ASSUME OpenFile(p) PROVE Stays
    BY <2>10 DEF OpenFile
  <2>11. ASSUME NEW k \in Parts, WriteFile(p, k) PROVE Stays
    BY <2>11 DEF WriteFile, Loses, Parts
  <2>12. ASSUME NEW k \in Parts, WriteConsole(p, k) PROVE Stays
    BY <2>12 DEF WriteConsole, Loses, Parts
  <2>13. Stays
    <3> HIDE DEF Stays
    <3> QED BY <1>3, <2>5, <2>6, <2>7, <2>8, <2>9, <2>10, <2>11, <2>12 DEF Step
  <2> QED BY <1>1, <2>1, <2>13 DEF CliInv
<1> QED BY <1>2, <1>3 DEF CliNext, Step

\* However many processes run at however few different seconds, and whatever
\* fails: EXIT_SUCCESS means that the report was printed, and is in a file of the
\* process's own, whole each unless that very stream lost a part or, for the file,
\* another process had the same second.
THEOREM SuccessUnlessLostAlways == CliSpec => []SuccessUnlessLost
<1>1. CliInv => SuccessUnlessLost
  BY DEF CliInv, SuccessUnlessLost, Written, Printed, Shared
<1> QED BY <1>1, InitCli, NextCli, PTL DEF CliSpec

-----------------------------------------------------------------------------
MacType ==
  /\ inside \in {"none", "network", "gpu", "crashed"}
  /\ held \in [Kinds -> Int]
  /\ found \in [Finds -> Nat]
  /\ threw \in Nat

\* Which of the iterators is in use.
InUse == IF inside \in {"network", "gpu"} THEN 1 ELSE 0

(* LossesAccounted, kind by kind.                                           *)
Losses ==
  /\ held["iterator"] - InUse \in 0 .. threw
  /\ held["object"] - found["interface"] - found["controller"] \in 0 .. threw
  /\ held["properties"] \in 0 .. threw
  /\ held["property"] \in 0 .. 2 * threw
  /\ held["mode"] - found["screen"] = 0
  /\ held["info"] = 0
  /\ held["array"] - found["metal"] = 0
  /\ held["string"] - found["wide"] \in 0 .. threw
  /\ held["port"] - found["right"] = 0

MacInv == MacType /\ Losses

LEMMA MacTypes ==
  ASSUME MacType
  PROVE  /\ held["iterator"] \in Int /\ held["object"] \in Int /\ held["properties"] \in Int
         /\ held["property"] \in Int /\ held["mode"] \in Int /\ held["info"] \in Int
         /\ held["array"] \in Int /\ held["string"] \in Int /\ held["port"] \in Int
         /\ found["interface"] \in Nat /\ found["controller"] \in Nat
         /\ found["screen"] \in Nat /\ found["metal"] \in Nat /\ found["wide"] \in Nat
         /\ found["right"] \in Nat
         /\ threw \in Nat /\ InUse \in {0, 1}
BY DEF MacType, Kinds, Finds, InUse

LEMMA MacInvImplies == MacInv => LossesAccounted
<1> SUFFICES ASSUME MacType, Losses PROVE LossesAccounted
  BY DEF MacInv
<1> DEFINE unexplained ==
      [held EXCEPT !.port   = @ - found["right"],
                   !.object = @ - found["interface"] - found["controller"],
                   !.mode   = @ - found["screen"],
                   !.array  = @ - found["metal"],
                   !.string = @ - found["wide"],
                   !.iterator = IF inside \in {"network", "gpu"} THEN @ - 1 ELSE @]
    Turnful == [Nothing EXCEPT !.iterator = 1, !.object = 1, !.properties = 1,
                               !.property = 2, !.string = 1]
<1>1. /\ Turnful["iterator"] = 1 /\ Turnful["object"] = 1 /\ Turnful["properties"] = 1
      /\ Turnful["property"] = 2 /\ Turnful["string"] = 1 /\ Turnful["mode"] = 0
      /\ Turnful["info"] = 0 /\ Turnful["array"] = 0 /\ Turnful["port"] = 0
  BY DEF Nothing, Kinds
<1>2. /\ unexplained["object"] = held["object"] - found["interface"] - found["controller"]
      /\ unexplained["properties"] = held["properties"]
      /\ unexplained["property"] = held["property"]
      /\ unexplained["mode"] = held["mode"] - found["screen"]
      /\ unexplained["info"] = held["info"]
      /\ unexplained["array"] = held["array"] - found["metal"]
      /\ unexplained["string"] = held["string"] - found["wide"]
      /\ unexplained["port"] = held["port"] - found["right"]
  BY DEF MacType, Kinds
<1>3. unexplained["iterator"] = held["iterator"] - InUse
  <2>1. unexplained["iterator"] =
          IF inside \in {"network", "gpu"} THEN held["iterator"] - 1 ELSE held["iterator"]
    BY DEF MacType, Kinds
  <2> HIDE DEF unexplained
  <2> QED BY <2>1, MacTypes DEF InUse
<1> HIDE DEF unexplained, Turnful
<1>4. threw * 1 = threw /\ threw * 0 = 0 /\ threw * 2 = 2 * threw
  BY MacTypes
<1>5. \A k \in Kinds : unexplained[k] \in 0 .. threw * Turnful[k]
  <2> SUFFICES ASSUME NEW k \in Kinds PROVE unexplained[k] \in 0 .. threw * Turnful[k]
    OBVIOUS
  <2>1. CASE k \in {"iterator", "object", "properties", "string"}
    BY <1>1, <1>2, <1>3, <1>4, <2>1, MacTypes DEF Losses
  <2>2. CASE k = "property"
    BY <1>1, <1>2, <1>4, <2>2, MacTypes DEF Losses
  <2>3. CASE k \in {"mode", "info", "array", "port"}
    <3>1. threw * Turnful[k] = 0
      BY <1>1, <1>4, <2>3
    <3>2. unexplained[k] = 0
      BY <1>2, <2>3 DEF Losses
    <3> QED BY <3>1, <3>2
  <2> QED BY <2>1, <2>2, <2>3 DEF Kinds
<1> QED BY <1>5 DEF LossesAccounted, unexplained, Turnful

LEMMA InitMac == MacInit => MacInv
<1> SUFFICES ASSUME MacInit PROVE MacInv
  OBVIOUS
<1>1. MacType
  <2>1. inside \in {"none", "network", "gpu", "crashed"} /\ threw \in Nat
    BY DEF MacInit
  <2>2. held \in [Kinds -> Int]
    <3>1. 0 \in Int
      OBVIOUS
    <3> QED BY <3>1, Zenon DEF MacInit, Nothing
  <2>3. found \in [Finds -> Nat]
    BY DEF MacInit
  <2> QED BY <2>1, <2>2, <2>3 DEF MacType
<1>2. /\ held["iterator"] = 0 /\ held["object"] = 0 /\ held["properties"] = 0
      /\ held["property"] = 0 /\ held["mode"] = 0 /\ held["info"] = 0
      /\ held["array"] = 0 /\ held["string"] = 0 /\ held["port"] = 0
  BY DEF MacInit, Nothing, Kinds
<1>3. /\ found["interface"] = 0 /\ found["controller"] = 0 /\ found["screen"] = 0
      /\ found["metal"] = 0 /\ found["wide"] = 0 /\ found["right"] = 0 /\ threw = 0
  BY DEF MacInit, Finds
<1>4. InUse = 0
  BY DEF MacInit, InUse
<1> QED BY <1>1, <1>2, <1>3, <1>4 DEF MacInv, Losses

\* The net change of the counts that a step takes and gives back.
Net(take, give) == [k \in Kinds |-> Amount(take, k) - Amount(give, k)]
Finding(xs) == [x \in Finds |-> Amount(xs, x)]
Counts(take) == \A k \in Kinds : Amount(take, k) \in Nat

LEMMA Changed ==
  ASSUME MacType, NEW take, NEW give, Change(take, give), Counts(take), Counts(give)
  PROVE  /\ Net(take, give) \in [Kinds -> Int]
         /\ held' = [k \in Kinds |-> held[k] + Net(take, give)[k]]
<1>1. ASSUME NEW k \in Kinds
      PROVE  LET a == Amount(take, k)
                 b == Amount(give, k)
             IN  a - b \in Int /\ held[k] + a - b = held[k] + (a - b)
  <2>1. held[k] \in Int /\ Amount(take, k) \in Nat /\ Amount(give, k) \in Nat
    BY DEF MacType, Counts
  <2> QED BY <2>1
<1> QED BY <1>1 DEF Change, Net

LEMMA Counted ==
  ASSUME NEW xs, Count(xs), \A x \in Finds : Amount(xs, x) \in Nat
  PROVE  /\ Finding(xs) \in [Finds -> Nat]
         /\ found' = [x \in Finds |-> found[x] + Finding(xs)[x]]
BY DEF Count, Finding

LEMMA NoChange == \A k \in Kinds : Amount(Nothing, k) = 0
BY DEF Amount, Nothing

LEMMA NothingFound ==
  ASSUME MacType, UNCHANGED found
  PROVE  LET none == [x \in Finds |-> 0]
         IN  none \in [Finds -> Nat] /\ found' = [x \in Finds |-> found[x] + none[x]]
<1>1. ASSUME NEW x \in Finds PROVE found[x] + 0 = found[x]
  <2>1. found[x] \in Nat
    BY DEF MacType
  <2> QED BY <2>1
<1>2. found = [x \in Finds |-> found[x]]
  BY DEF MacType
<1> QED BY <1>1, <1>2

\* What a step adds to held and to found, and what it may: the losses stay
\* accounted for if it loses what it finds and, if an exception leaves the
\* function (n = 1), at most what one turn holds.
Added(h, c) ==
  /\ h \in [Kinds -> Int] /\ held' = [k \in Kinds |-> held[k] + h[k]]
  /\ c \in [Finds -> Nat] /\ found' = [x \in Finds |-> found[x] + c[x]]
Explained(n, h, c) ==
  /\ h["iterator"] - InUse' + InUse \in 0 .. n
  /\ h["object"] - c["interface"] - c["controller"] \in 0 .. n
  /\ h["properties"] \in 0 .. n
  /\ h["property"] \in 0 .. 2 * n
  /\ h["mode"] = c["screen"]
  /\ h["info"] = 0
  /\ h["array"] = c["metal"]
  /\ h["string"] - c["wide"] \in 0 .. n
  /\ h["port"] = c["right"]

LEMMA Balance ==
  ASSUME MacType, Losses, NEW n \in {0, 1}, NEW h, NEW c, Added(h, c), Explained(n, h, c),
         threw' = threw + n, inside' \in {"none", "network", "gpu", "crashed"}
  PROVE  MacType' /\ Losses'
<1>1. /\ h["iterator"] \in Int /\ h["object"] \in Int /\ h["properties"] \in Int
      /\ h["property"] \in Int /\ h["mode"] \in Int /\ h["info"] \in Int
      /\ h["array"] \in Int /\ h["string"] \in Int /\ h["port"] \in Int
      /\ c["interface"] \in Nat /\ c["controller"] \in Nat
      /\ c["screen"] \in Nat /\ c["metal"] \in Nat /\ c["wide"] \in Nat
      /\ c["right"] \in Nat
  BY DEF Kinds, Finds, Added
<1>2. /\ held'["iterator"] = held["iterator"] + h["iterator"]
      /\ held'["object"] = held["object"] + h["object"]
      /\ held'["properties"] = held["properties"] + h["properties"]
      /\ held'["property"] = held["property"] + h["property"]
      /\ held'["mode"] = held["mode"] + h["mode"]
      /\ held'["info"] = held["info"] + h["info"]
      /\ held'["array"] = held["array"] + h["array"]
      /\ held'["string"] = held["string"] + h["string"]
      /\ held'["port"] = held["port"] + h["port"]
  BY DEF Kinds, Added
<1>3. /\ found'["interface"] = found["interface"] + c["interface"]
      /\ found'["controller"] = found["controller"] + c["controller"]
      /\ found'["screen"] = found["screen"] + c["screen"]
      /\ found'["metal"] = found["metal"] + c["metal"]
      /\ found'["wide"] = found["wide"] + c["wide"]
      /\ found'["right"] = found["right"] + c["right"]
  BY DEF Finds, Added
<1>4. MacType'
  <2>1. threw' \in Nat
    BY MacTypes
  <2>2. held' \in [Kinds -> Int]
    BY DEF MacType, Added
  <2>3. found' \in [Finds -> Nat]
    BY DEF MacType, Added
  <2> QED BY <2>1, <2>2, <2>3 DEF MacType
<1>5. InUse' \in {0, 1}
  <2>1. CASE inside' \in {"network", "gpu"}
    BY <2>1 DEF InUse
  <2>2. CASE inside' \notin {"network", "gpu"}
    BY <2>2 DEF InUse
  <2> QED BY <2>1, <2>2
<1>6. held'["iterator"] - InUse' \in 0 .. threw'
  <2>1. held["iterator"] - InUse \in 0 .. threw /\ h["iterator"] - InUse' + InUse \in 0 .. n
    BY DEF Losses, Explained
  <2>2. /\ held["iterator"] \in Int /\ h["iterator"] \in Int /\ threw \in Nat
        /\ InUse \in Int /\ InUse' \in Int
    BY <1>1, <1>5, MacTypes
  <2>3. held'["iterator"] = held["iterator"] + h["iterator"] /\ threw' = threw + n
    BY <1>2
  <2>4. \A x, y, a, b, t, m \in Int :
          x - a \in 0 .. t /\ y - b + a \in 0 .. m => (x + y) - b \in 0 .. t + m
    OBVIOUS
  <2>5. (held["iterator"] + h["iterator"]) - InUse' \in 0 .. threw + n
    BY <2>1, <2>2, <2>4
  <2> QED BY <2>3, <2>5
<1>7. held'["object"] - found'["interface"] - found'["controller"] \in 0 .. threw'
  <2>1. /\ held["object"] - found["interface"] - found["controller"] \in 0 .. threw
        /\ h["object"] - c["interface"] - c["controller"] \in 0 .. n
    BY DEF Losses, Explained
  <2>2. \A x, y, a, b, d, e \in Int : (x + y) - (a + d) - (b + e) = (x - a - b) + (y - d - e)
    OBVIOUS
  <2>3. \A x, y, t, m \in Int : x \in 0 .. t /\ y \in 0 .. m => x + y \in 0 .. t + m
    OBVIOUS
  <2>4. /\ held["object"] \in Int /\ h["object"] \in Int /\ threw \in Int /\ n \in Int
        /\ found["interface"] \in Int /\ c["interface"] \in Int
        /\ found["controller"] \in Int /\ c["controller"] \in Int
    BY <1>1, MacTypes
  <2>5. (held["object"] - found["interface"] - found["controller"])
          + (h["object"] - c["interface"] - c["controller"]) \in 0 .. threw + n
    BY <2>1, <2>3, <2>4
  <2>6. (held["object"] + h["object"]) - (found["interface"] + c["interface"])
          - (found["controller"] + c["controller"])
        = (held["object"] - found["interface"] - found["controller"])
          + (h["object"] - c["interface"] - c["controller"])
    BY <2>2, <2>4
  <2> QED BY <1>2, <1>3, <2>5, <2>6
<1>8. held'["properties"] \in 0 .. threw' /\ held'["property"] \in 0 .. 2 * threw'
  <2>1. /\ held["properties"] \in 0 .. threw /\ held["property"] \in 0 .. 2 * threw
        /\ h["properties"] \in 0 .. n /\ h["property"] \in 0 .. 2 * n
    BY DEF Losses, Explained
  <2>2. threw \in Nat /\ threw' = threw + n
    BY MacTypes
  <2> QED BY <1>2, <2>1, <2>2
<1>9. held'["mode"] - found'["screen"] = 0 /\ held'["array"] - found'["metal"] = 0
  <2>1. /\ held["mode"] - found["screen"] = 0 /\ held["array"] - found["metal"] = 0
        /\ h["mode"] = c["screen"] /\ h["array"] = c["metal"]
    BY DEF Losses, Explained
  <2>2. \A x, y, z \in Int : x - y = 0 => (x + z) - (y + z) = 0
    OBVIOUS
  <2>3. /\ held["mode"] \in Int /\ found["screen"] \in Int /\ c["screen"] \in Int
        /\ held["array"] \in Int /\ found["metal"] \in Int /\ c["metal"] \in Int
    BY <1>1, MacTypes
  <2> QED BY <1>2, <1>3, <2>1, <2>2, <2>3
<1>10. held'["info"] = 0 /\ held'["string"] - found'["wide"] \in 0 .. threw'
  <2>1. /\ held["info"] = 0 /\ h["info"] = 0
        /\ held["string"] - found["wide"] \in 0 .. threw /\ h["string"] - c["wide"] \in 0 .. n
    BY DEF Losses, Explained
  <2>2. /\ held["string"] \in Int /\ found["wide"] \in Int /\ threw \in Int
        /\ h["string"] \in Int /\ c["wide"] \in Int /\ n \in Int
    BY <1>1, MacTypes
  <2>3. \A x, y, a, b, t, m \in Int :
          x - a \in 0 .. t /\ y - b \in 0 .. m => (x + y) - (a + b) \in 0 .. t + m
    OBVIOUS
  <2>4. (held["string"] + h["string"]) - (found["wide"] + c["wide"]) \in 0 .. threw + n
    BY <2>1, <2>2, <2>3
  <2> QED BY <1>2, <1>3, <2>1, <2>4
<1>11. held'["port"] - found'["right"] = 0
  <2>1. held["port"] - found["right"] = 0 /\ h["port"] = c["right"]
    BY DEF Losses, Explained
  <2>2. held["port"] \in Int /\ found["right"] \in Int /\ c["right"] \in Int
    BY <1>1, MacTypes
  <2> QED BY <1>2, <1>3, <2>1, <2>2
<1> QED BY <1>4, <1>6, <1>7, <1>8, <1>9, <1>10, <1>11 DEF Losses

(* A step of each action: what it adds is explained.                      *)
LEMMA MatchNetworkMac ==
  ASSUME MacType, Losses, MatchNetwork
  PROVE  MacType' /\ Losses'
<1>1. PICK right, had \in {0, 1} :
        /\ inside' = IF had = 1 THEN "network" ELSE "none"
        /\ Count([right |-> right])
        /\ Change([port |-> right, iterator |-> had], Nothing)
  BY DEF MatchNetwork
<1> DEFINE take == [port |-> right, iterator |-> had]
           xs   == [right |-> right]
           h    == Net(take, Nothing)
           c    == Finding(xs)
<1>2. Change(take, Nothing) /\ Count(xs) /\ threw' = threw
  BY <1>1 DEF MatchNetwork
<1>3. \A k \in Kinds :
        Amount(take, k) = IF k = "port" THEN right ELSE IF k = "iterator" THEN had ELSE 0
  BY DEF Amount
<1>4. \A x \in Finds : Amount(xs, x) = IF x = "right" THEN right ELSE 0
  BY DEF Amount
<1>5. /\ h["iterator"] = had - 0 /\ h["object"] = 0 - 0 /\ h["properties"] = 0 - 0
      /\ h["property"] = 0 - 0 /\ h["mode"] = 0 - 0 /\ h["info"] = 0 - 0 /\ h["array"] = 0 - 0
      /\ h["string"] = 0 - 0 /\ c["interface"] = 0 /\ c["controller"] = 0 /\ c["screen"] = 0
      /\ c["metal"] = 0 /\ c["wide"] = 0 /\ h["port"] = right - 0 /\ c["right"] = right
  BY <1>3, <1>4, NoChange DEF Kinds, Finds, Net, Finding
<1>6. Counts(take) /\ Counts(Nothing) /\ \A x \in Finds : Amount(xs, x) \in Nat
  BY <1>3, <1>4, NoChange DEF Counts
<1> HIDE DEF take, xs
<1>7. Added(h, c)
  BY <1>2, <1>6, Changed, Counted DEF Added
<1>8. InUse = 0 /\ InUse' = had /\ inside' \in {"none", "network", "gpu", "crashed"}
  BY <1>1 DEF MatchNetwork, InUse
<1> HIDE DEF h, c
<1>9. Explained(0, h, c)
  BY <1>5, <1>8 DEF Explained
<1>10. threw' = threw + 0
  BY <1>2, MacTypes
<1> QED BY <1>7, <1>8, <1>9, <1>10, Balance

LEMMA MatchGPUMac ==
  ASSUME MacType, Losses, MatchGPU
  PROVE  MacType' /\ Losses'
<1> DEFINE take == [iterator |-> 1]
           h    == Net(take, Nothing)
           c    == [x \in Finds |-> 0]
<1>1. Change(take, Nothing) /\ UNCHANGED found /\ threw' = threw
  BY DEF MatchGPU
<1>2. \A k \in Kinds : Amount(take, k) = IF k = "iterator" THEN 1 ELSE 0
  BY DEF Amount
<1>3. /\ h["iterator"] = 1 - 0 /\ h["object"] = 0 - 0 /\ h["properties"] = 0 - 0
      /\ h["property"] = 0 - 0 /\ h["mode"] = 0 - 0 /\ h["info"] = 0 - 0 /\ h["array"] = 0 - 0
      /\ h["string"] = 0 - 0 /\ c["interface"] = 0 /\ c["controller"] = 0 /\ c["screen"] = 0
      /\ c["metal"] = 0 /\ c["wide"] = 0 /\ h["port"] = 0 - 0 /\ c["right"] = 0
  BY <1>2, NoChange DEF Kinds, Finds, Net
<1>4. Counts(take) /\ Counts(Nothing)
  BY <1>2, NoChange DEF Counts
<1> HIDE DEF take
<1>5. Added(h, c)
  BY <1>1, <1>4, Changed, NothingFound DEF Added
<1>6. InUse = 0 /\ InUse' = 1 /\ inside' \in {"none", "network", "gpu", "crashed"}
  BY DEF MatchGPU, InUse
<1> HIDE DEF h, c
<1>7. Explained(0, h, c)
  BY <1>3, <1>6 DEF Explained
<1>8. threw' = threw + 0
  BY <1>1, MacTypes
<1> QED BY <1>5, <1>6, <1>7, <1>8, Balance

LEMMA EndOfIteratorMac ==
  ASSUME MacType, Losses, EndOfIterator
  PROVE  MacType' /\ Losses'
<1> DEFINE give == [iterator |-> 1]
           h    == Net(Nothing, give)
           c    == [x \in Finds |-> 0]
<1>1. Change(Nothing, give) /\ UNCHANGED found /\ threw' = threw
  BY DEF EndOfIterator
<1>2. \A k \in Kinds : Amount(give, k) = IF k = "iterator" THEN 1 ELSE 0
  BY DEF Amount
<1>3. /\ h["iterator"] = 0 - 1 /\ h["object"] = 0 - 0 /\ h["properties"] = 0 - 0
      /\ h["property"] = 0 - 0 /\ h["mode"] = 0 - 0 /\ h["info"] = 0 - 0 /\ h["array"] = 0 - 0
      /\ h["string"] = 0 - 0 /\ c["interface"] = 0 /\ c["controller"] = 0 /\ c["screen"] = 0
      /\ c["metal"] = 0 /\ c["wide"] = 0 /\ h["port"] = 0 - 0 /\ c["right"] = 0
  BY <1>2, NoChange DEF Kinds, Finds, Net
<1>4. Counts(Nothing) /\ Counts(give)
  BY <1>2, NoChange DEF Counts
<1> HIDE DEF give
<1>5. Added(h, c)
  BY <1>1, <1>4, Changed, NothingFound DEF Added
<1>6. InUse = 1 /\ InUse' = 0 /\ inside' \in {"none", "network", "gpu", "crashed"}
  BY DEF EndOfIterator, InUse
<1> HIDE DEF h, c
<1>7. Explained(0, h, c)
  BY <1>3, <1>6 DEF Explained
<1>8. threw' = threw + 0
  BY <1>1, MacTypes
<1> QED BY <1>5, <1>6, <1>7, <1>8, Balance

LEMMA NetworkTurnMac ==
  ASSUME MacType, Losses, NetworkTurn
  PROVE  MacType' /\ Losses'
<1>1. PICK parent \in {0, 1}, throws \in {0, 1}, copying \in {0, 1}, made \in 0 .. 2 :
        /\ throws = 1 => made = 2
        /\ copying <= throws
        /\ Count([interface |-> 1, controller |-> parent])
        /\ Change([object |-> 1 + parent, property |-> made, string |-> copying],
                  [property |-> IF throws = 1 THEN 0 ELSE made])
        /\ Leaves(throws)
  BY DEF NetworkTurn
<1> DEFINE back == IF throws = 1 THEN 0 ELSE made
           take == [object |-> 1 + parent, property |-> made, string |-> copying]
           give == [property |-> back]
           xs   == [interface |-> 1, controller |-> parent]
           h    == Net(take, give)
           c    == Finding(xs)
<1>2. Change(take, give) /\ Count(xs) /\ Leaves(throws)
  BY <1>1 DEF NetworkTurn
<1>3. back \in 0 .. 2 /\ made - back \in 0 .. 2 * throws
  BY <1>1
<1> HIDE DEF back
<1>4. \A k \in Kinds :
        /\ Amount(take, k) = CASE k = "object" -> 1 + parent [] k = "property" -> made
                               [] k = "string" -> copying [] OTHER -> 0
        /\ Amount(give, k) = IF k = "property" THEN back ELSE 0
  BY DEF Amount
<1>5. \A x \in Finds : Amount(xs, x) = CASE x = "interface" -> 1 [] x = "controller" -> parent
                                         [] OTHER -> 0
  BY DEF Amount
<1>6. /\ h["iterator"] = 0 - 0 /\ h["object"] = 1 + parent - 0 /\ h["properties"] = 0 - 0
      /\ h["property"] = made - back /\ h["mode"] = 0 - 0 /\ h["info"] = 0 - 0
      /\ h["array"] = 0 - 0 /\ h["string"] = copying - 0 /\ c["interface"] = 1
      /\ c["controller"] = parent /\ c["screen"] = 0 /\ c["metal"] = 0 /\ c["wide"] = 0
      /\ h["port"] = 0 - 0 /\ c["right"] = 0
  BY <1>4, <1>5 DEF Kinds, Finds, Net, Finding
<1>7. Counts(take) /\ Counts(give) /\ \A x \in Finds : Amount(xs, x) \in Nat
  BY <1>3, <1>4, <1>5 DEF Counts
<1> HIDE DEF take, give, xs
<1>8. Added(h, c)
  BY <1>2, <1>7, Changed, Counted DEF Added
<1>9. InUse = 1 /\ InUse' = 1 - throws /\ inside' \in {"none", "network", "gpu", "crashed"}
  BY <1>1, <1>2 DEF NetworkTurn, Leaves, InUse
<1> HIDE DEF h, c
<1>10. Explained(throws, h, c)
  BY <1>1, <1>3, <1>6, <1>9 DEF Explained
<1> QED BY <1>2, <1>8, <1>9, <1>10, Balance DEF Leaves

LEMMA GPUTurnMac ==
  ASSUME MacType, Losses, GPUTurn
  PROVE  MacType' /\ Losses'
<1>1. PICK made \in {0, 1}, named \in {0, 1}, throws \in {0, 1} :
        /\ named <= throws /\ throws <= made
        /\ Change([object |-> 1, properties |-> made, string |-> named],
                  IF throws = 1 THEN Nothing ELSE Released(made))
        /\ Leaves(throws)
  BY DEF GPUTurn
<1> DEFINE entry  == IF throws = 1 THEN 0 ELSE 1
           record == IF throws = 1 THEN 0 ELSE made
           take   == [object |-> 1, properties |-> made, string |-> named]
           give   == IF throws = 1 THEN Nothing ELSE Released(made)
           h      == Net(take, give)
           c      == [x \in Finds |-> 0]
<1>2. Change(take, give) /\ UNCHANGED found /\ Leaves(throws)
  BY <1>1 DEF GPUTurn
<1>3. \A k \in Kinds : Amount(take, k) = CASE k = "object" -> 1 [] k = "properties" -> made
                                           [] k = "string" -> named [] OTHER -> 0
  BY DEF Amount
<1>4. \A k \in Kinds : Amount(give, k) = CASE k = "object" -> entry [] k = "properties" -> record
                                           [] OTHER -> 0
  <2>1. CASE throws = 1
    BY <2>1, NoChange
  <2>2. CASE throws = 0
    <3>1. give = [object |-> 1, properties |-> made] /\ entry = 1 /\ record = made
      BY <2>2 DEF Released
    <3> HIDE DEF give, entry, record
    <3> QED BY <3>1 DEF Amount
  <2> QED BY <2>1, <2>2
<1>5. entry \in Nat /\ record \in Nat /\ 1 - entry \in 0 .. throws /\ made - record \in 0 .. throws
  BY <1>1
<1> HIDE DEF take, give, entry, record
<1>6. /\ h["iterator"] = 0 - 0 /\ h["object"] = 1 - entry /\ h["properties"] = made - record
      /\ h["property"] = 0 - 0 /\ h["mode"] = 0 - 0 /\ h["info"] = 0 - 0 /\ h["array"] = 0 - 0
      /\ h["string"] = named - 0 /\ c["interface"] = 0 /\ c["controller"] = 0
      /\ c["screen"] = 0 /\ c["metal"] = 0 /\ c["wide"] = 0
      /\ h["port"] = 0 - 0 /\ c["right"] = 0
  BY <1>3, <1>4 DEF Kinds, Finds, Net
<1>7. Counts(take) /\ Counts(give)
  BY <1>3, <1>4, <1>5 DEF Counts
<1>8. Added(h, c)
  BY <1>2, <1>7, Changed, NothingFound DEF Added
<1>9. InUse = 1 /\ InUse' = 1 - throws /\ inside' \in {"none", "network", "gpu", "crashed"}
  BY <1>1, <1>2 DEF GPUTurn, Leaves, InUse
<1> HIDE DEF h, c
<1>10. Explained(throws, h, c)
  BY <1>1, <1>5, <1>6, <1>9 DEF Explained
<1> QED BY <1>2, <1>8, <1>9, <1>10, Balance DEF Leaves

LEMMA BatteryMac ==
  ASSUME MacType, Losses, Battery
  PROVE  MacType' /\ Losses'
<1>1. PICK blob \in {0, 1}, sources \in {0, 1} :
        /\ Change([info |-> blob, array |-> sources], [info |-> blob, array |-> sources])
  BY DEF Battery
<1> DEFINE take == [info |-> blob, array |-> sources]
           give == [info |-> blob, array |-> sources]
           h    == Net(take, give)
           c    == [x \in Finds |-> 0]
<1>2. Change(take, give) /\ UNCHANGED found /\ threw' = threw
  BY <1>1 DEF Battery
<1>3. \A k \in Kinds :
        /\ Amount(take, k) = CASE k = "info" -> blob [] k = "array" -> sources [] OTHER -> 0
        /\ Amount(give, k) = CASE k = "info" -> blob [] k = "array" -> sources [] OTHER -> 0
  BY DEF Amount
<1>4. /\ h["iterator"] = 0 - 0 /\ h["object"] = 0 - 0 /\ h["properties"] = 0 - 0
      /\ h["property"] = 0 - 0 /\ h["mode"] = 0 - 0 /\ h["info"] = blob - blob
      /\ h["array"] = sources - sources /\ h["string"] = 0 - 0 /\ c["interface"] = 0
      /\ c["controller"] = 0 /\ c["screen"] = 0 /\ c["metal"] = 0 /\ c["wide"] = 0
      /\ h["port"] = 0 - 0 /\ c["right"] = 0
  BY <1>3 DEF Kinds, Finds, Net
<1>5. Counts(take) /\ Counts(give)
  BY <1>3 DEF Counts
<1> HIDE DEF take, give
<1>6. Added(h, c)
  BY <1>2, <1>5, Changed, NothingFound DEF Added
<1>7. InUse = 0 /\ InUse' = 0 /\ inside' \in {"none", "network", "gpu", "crashed"}
  BY <1>1, <1>2 DEF Battery, InUse
<1> HIDE DEF h, c
<1>8. Explained(0, h, c)
  BY <1>1, <1>4, <1>7 DEF Explained
<1>9. threw' = threw + 0
  BY <1>2, MacTypes
<1> QED BY <1>6, <1>7, <1>8, <1>9, Balance

LEMMA MachineUuidMac ==
  ASSUME MacType, Losses, MachineUuid
  PROVE  MacType' /\ Losses'
<1>1. PICK made \in {0, 1} :
        /\ Change([object |-> 1, property |-> made], [object |-> 1, property |-> made])
        /\ inside' = IF made = 1 THEN "none" ELSE "crashed"
  BY DEF MachineUuid
<1> DEFINE take == [object |-> 1, property |-> made]
           give == [object |-> 1, property |-> made]
           h    == Net(take, give)
           c    == [x \in Finds |-> 0]
<1>2. Change(take, give) /\ UNCHANGED found /\ threw' = threw
  BY <1>1 DEF MachineUuid
<1>3. \A k \in Kinds :
        /\ Amount(take, k) = CASE k = "object" -> 1 [] k = "property" -> made [] OTHER -> 0
        /\ Amount(give, k) = CASE k = "object" -> 1 [] k = "property" -> made [] OTHER -> 0
  BY DEF Amount
<1>4. /\ h["iterator"] = 0 - 0 /\ h["object"] = 1 - 1 /\ h["properties"] = 0 - 0
      /\ h["property"] = made - made /\ h["mode"] = 0 - 0 /\ h["info"] = 0 - 0
      /\ h["array"] = 0 - 0 /\ h["string"] = 0 - 0 /\ c["interface"] = 0 /\ c["controller"] = 0
      /\ c["screen"] = 0 /\ c["metal"] = 0 /\ c["wide"] = 0
      /\ h["port"] = 0 - 0 /\ c["right"] = 0
  BY <1>3 DEF Kinds, Finds, Net
<1>5. Counts(take) /\ Counts(give)
  BY <1>3 DEF Counts
<1> HIDE DEF take, give
<1>6. Added(h, c)
  BY <1>2, <1>5, Changed, NothingFound DEF Added
<1>7. InUse = 0 /\ InUse' = 0 /\ inside' \in {"none", "network", "gpu", "crashed"}
  BY <1>1, <1>2 DEF MachineUuid, InUse
<1> HIDE DEF h, c
<1>8. Explained(0, h, c)
  BY <1>1, <1>4, <1>7 DEF Explained
<1>9. threw' = threw + 0
  BY <1>2, MacTypes
<1> QED BY <1>6, <1>7, <1>8, <1>9, Balance

LEMMA ScreenMac ==
  ASSUME MacType, Losses, Screen
  PROVE  MacType' /\ Losses'
<1>1. PICK listed \in {0, 1}, unnamed \in {0, 1}, throws \in {0, 1} :
        /\ unnamed <= listed
        /\ Count([screen |-> listed])
        /\ Change([mode |-> listed, info |-> unnamed], [info |-> unnamed])
        /\ Leaves(throws)
  BY DEF Screen
<1> DEFINE take == [mode |-> listed, info |-> unnamed]
           give == [info |-> unnamed]
           xs   == [screen |-> listed]
           h    == Net(take, give)
           c    == Finding(xs)
<1>2. Change(take, give) /\ Count(xs) /\ Leaves(throws)
  BY <1>1 DEF Screen
<1>3. \A k \in Kinds :
        /\ Amount(take, k) = CASE k = "mode" -> listed [] k = "info" -> unnamed [] OTHER -> 0
        /\ Amount(give, k) = IF k = "info" THEN unnamed ELSE 0
  BY DEF Amount
<1>4. \A x \in Finds : Amount(xs, x) = IF x = "screen" THEN listed ELSE 0
  BY DEF Amount
<1>5. /\ h["iterator"] = 0 - 0 /\ h["object"] = 0 - 0 /\ h["properties"] = 0 - 0
      /\ h["property"] = 0 - 0 /\ h["mode"] = listed - 0 /\ h["info"] = unnamed - unnamed
      /\ h["array"] = 0 - 0 /\ h["string"] = 0 - 0 /\ c["interface"] = 0 /\ c["controller"] = 0
      /\ c["screen"] = listed /\ c["metal"] = 0 /\ c["wide"] = 0
      /\ h["port"] = 0 - 0 /\ c["right"] = 0
  BY <1>3, <1>4 DEF Kinds, Finds, Net, Finding
<1>6. Counts(take) /\ Counts(give) /\ \A x \in Finds : Amount(xs, x) \in Nat
  BY <1>3, <1>4 DEF Counts
<1> HIDE DEF take, give, xs
<1>7. Added(h, c)
  BY <1>2, <1>6, Changed, Counted DEF Added
<1>8. InUse = 0 /\ InUse' = 0 /\ inside' \in {"none", "network", "gpu", "crashed"}
  BY <1>1, <1>2 DEF Screen, Leaves, InUse
<1> HIDE DEF h, c
<1>9. Explained(throws, h, c)
  BY <1>1, <1>5, <1>8 DEF Explained
<1> QED BY <1>2, <1>7, <1>8, <1>9, Balance DEF Leaves

LEMMA MetalMac ==
  ASSUME MacType, Losses, Metal
  PROVE  MacType' /\ Losses'
<1> DEFINE take == [array |-> 1]
           xs   == [metal |-> 1]
           h    == Net(take, Nothing)
           c    == Finding(xs)
<1>1. Change(take, Nothing) /\ Count(xs) /\ threw' = threw
  BY DEF Metal
<1>2. \A k \in Kinds : Amount(take, k) = IF k = "array" THEN 1 ELSE 0
  BY DEF Amount
<1>3. \A x \in Finds : Amount(xs, x) = IF x = "metal" THEN 1 ELSE 0
  BY DEF Amount
<1>4. /\ h["iterator"] = 0 - 0 /\ h["object"] = 0 - 0 /\ h["properties"] = 0 - 0
      /\ h["property"] = 0 - 0 /\ h["mode"] = 0 - 0 /\ h["info"] = 0 - 0 /\ h["array"] = 1 - 0
      /\ h["string"] = 0 - 0 /\ c["interface"] = 0 /\ c["controller"] = 0 /\ c["screen"] = 0
      /\ c["metal"] = 1 /\ c["wide"] = 0 /\ h["port"] = 0 - 0 /\ c["right"] = 0
  BY <1>2, <1>3, NoChange DEF Kinds, Finds, Net, Finding
<1>5. Counts(take) /\ Counts(Nothing) /\ \A x \in Finds : Amount(xs, x) \in Nat
  BY <1>2, <1>3, NoChange DEF Counts
<1> HIDE DEF take, xs
<1>6. Added(h, c)
  BY <1>1, <1>5, Changed, Counted DEF Added
<1>7. InUse = 0 /\ InUse' = 0 /\ inside' \in {"none", "network", "gpu", "crashed"}
  BY DEF Metal, InUse
<1> HIDE DEF h, c
<1>8. Explained(0, h, c)
  BY <1>4, <1>7 DEF Explained
<1>9. threw' = threw + 0
  BY <1>1, MacTypes
<1> QED BY <1>6, <1>7, <1>8, <1>9, Balance

LEMMA UTF8ToWStringMac ==
  ASSUME MacType, Losses, UTF8ToWString
  PROVE  MacType' /\ Losses'
<1>1. PICK made, throws \in {0, 1} :
        /\ Count([wide |-> made])
        /\ Change([string |-> made], Nothing)
        /\ Leaves(throws)
  BY DEF UTF8ToWString
<1> DEFINE take == [string |-> made]
           xs   == [wide |-> made]
           h    == Net(take, Nothing)
           c    == Finding(xs)
<1>2. Change(take, Nothing) /\ Count(xs) /\ Leaves(throws)
  BY <1>1
<1>3. \A k \in Kinds : Amount(take, k) = IF k = "string" THEN made ELSE 0
  BY DEF Amount
<1>4. \A x \in Finds : Amount(xs, x) = IF x = "wide" THEN made ELSE 0
  BY DEF Amount
<1>5. /\ h["iterator"] = 0 - 0 /\ h["object"] = 0 - 0 /\ h["properties"] = 0 - 0
      /\ h["property"] = 0 - 0 /\ h["mode"] = 0 - 0 /\ h["info"] = 0 - 0 /\ h["array"] = 0 - 0
      /\ h["string"] = made - 0 /\ c["interface"] = 0 /\ c["controller"] = 0 /\ c["screen"] = 0
      /\ c["metal"] = 0 /\ c["wide"] = made /\ h["port"] = 0 - 0 /\ c["right"] = 0
  BY <1>3, <1>4, NoChange DEF Kinds, Finds, Net, Finding
<1>6. Counts(take) /\ Counts(Nothing) /\ \A x \in Finds : Amount(xs, x) \in Nat
  BY <1>3, <1>4, NoChange DEF Counts
<1> HIDE DEF take, xs
<1>7. Added(h, c)
  BY <1>2, <1>6, Changed, Counted DEF Added
<1>8. InUse = 0 /\ InUse' = 0 /\ inside' \in {"none", "network", "gpu", "crashed"}
  BY <1>1, <1>2 DEF UTF8ToWString, Leaves, InUse
<1> HIDE DEF h, c
<1>9. Explained(throws, h, c)
  BY <1>1, <1>5, <1>8 DEF Explained
<1> QED BY <1>2, <1>7, <1>8, <1>9, Balance DEF Leaves

LEMMA NextMac == MacInv /\ [MacNext]_macVars => MacInv'
<1> SUFFICES ASSUME MacType, Losses, [MacNext]_macVars PROVE MacType' /\ Losses'
  BY DEF MacInv
<1>1. CASE UNCHANGED macVars
  BY <1>1 DEF macVars, MacType, Losses, InUse
<1>2. CASE MacNext
  BY <1>2, MatchNetworkMac, MatchGPUMac, EndOfIteratorMac, NetworkTurnMac, GPUTurnMac, BatteryMac,
     MachineUuidMac, ScreenMac, MetalMac, UTF8ToWStringMac DEF MacNext
<1> QED BY <1>1, <1>2

\* Of any number of calls the macOS backend makes, whatever is found and whatever
\* throws in them, it loses what its code never releases and, for each exception,
\* at most what one turn of a loop holds.
THEOREM LossesAccountedAlways == MacSpec => []LossesAccounted
<1> QED BY InitMac, NextMac, MacInvImplies, PTL DEF MacSpec

-----------------------------------------------------------------------------
(* What MonitorDetails tells of a monitor.                                 *)
DetailType ==
  /\ displays \in Layouts /\ asked \in Monitors
  /\ i \in Nat \ {0}
  /\ scaling \in BOOLEAN
  /\ details = [name |-> details.name, rate |-> details.rate, percent |-> details.percent]

\* What a function that nothing disturbed has found out so far.
SoFar ==
  /\ step \in {"sizes", "query", "walk", "target"} /\ Shown(asked) => device = asked
  /\ step = "query" => list = Unwritten(Len(displays))
  /\ step \in {"walk", "target"} =>
       /\ list = displays
       /\ Shown(asked) => \A k \in DOMAIN displays : k < i => displays[k].source # asked
  /\ step = "target" =>
       /\ i \in DOMAIN displays
       /\ Shown(asked) => displays[i].source = asked
  /\ step = "modes" => Modes(asked) # <<>> /\ list = Unwritten(Len(Modes(asked)))
DetailInv ==
  /\ DetailType
  /\ step \in {"info", "sizes", "query"} => i = 1
  /\ undisturbed => SoFar

\* A layout, and the modes of the display a monitor is shown on.
LEMMA LayoutFacts ==
  ASSUME DetailType
  PROVE  /\ displays \in Seq(Path) /\ Len(displays) \in Nat
         /\ DOMAIN displays = 1 .. Len(displays)
         /\ \A k \in DOMAIN displays : /\ displays[k] \in Path /\ displays[k] # Zero
                                       /\ displays[k].modes \in Seq(Nat \X Nat)
<1>1. displays \in Seq(Path)
  BY DetailsAssumption DEF DetailType
<1>2. \A k \in DOMAIN displays : displays[k] \in Path
  BY <1>1
<1>3. \A p \in Path : p # Zero /\ p.modes \in Seq(Nat \X Nat)
  BY DetailsAssumption DEF Path
<1> QED BY <1>1, <1>2, <1>3

LEMMA ModesFacts ==
  ASSUME DetailType, NEW mon
  PROVE  Modes(mon) \in Seq(Nat \X Nat) /\ (Modes(mon) # <<>> => Shown(mon))
<1>1. CASE Shown(mon)
  <2> DEFINE w == CHOOSE k \in Of(mon) : TRUE
  <2>1. w \in Of(mon)
    BY <1>1 DEF Shown
  <2>2. Modes(mon) = displays[w].modes
    BY <1>1 DEF Modes
  <2> HIDE DEF w
  <2> QED BY <1>1, <2>1, <2>2, LayoutFacts DEF Of
<1>2. CASE ~Shown(mon)
  BY <1>2 DEF Modes
<1> QED BY <1>1, <1>2

\* A vector as long as the list it receives holds that list afterwards.
LEMMA FilledWhole ==
  ASSUME NEW S, NEW now \in Seq(S)
  PROVE  Filled(Len(now), now) = now
<1>1. Len(now) \in Nat
  OBVIOUS
<1>2. Unwritten(0) = <<>>
  BY DEF Unwritten
<1>3. Len(now) - Len(now) = 0 /\ ~(Len(now) > Len(now))
  BY <1>1
<1>4. Filled(Len(now), now) = now \o <<>>
  BY <1>2, <1>3 DEF Filled
<1> QED BY <1>4, ConcatEmptySeq

LEMMA UnwrittenLen ==
  ASSUME NEW n \in Nat
  PROVE  Len(Unwritten(n)) = n
BY DEF Unwritten

\* A function begins.
LEMMA BeginQuiet ==
  ASSUME undisturbed', i' = 1, DetailType', step' \in {"info", "count", "scaling"}
  PROVE  DetailInv'
BY DEF DetailInv, SoFar

LEMMA StepDetailType ==
  ASSUME DetailInv, [DetailNext]_detailVars
  PROVE  DetailType'
<1> USE DEF DetailInv, DetailType
<1>1. CASE Reconfigure
  BY <1>1 DEF Reconfigure
<1>2. CASE Describe
  <2>1. \A e : LET r == [name |-> e, rate |-> 0, percent |-> 0]
               IN  r = [name |-> r.name, rate |-> r.rate, percent |-> r.percent]
    OBVIOUS
  <2>2. NoDetails = [name |-> NoDetails.name, rate |-> NoDetails.rate,
                     percent |-> NoDetails.percent]
    BY <2>1, Zenon DEF NoDetails
  <2> QED BY <1>2, <2>2 DEF Describe
<1>3. CASE AskName
  <2>1. i' = 1 /\ UNCHANGED <<displays, asked, scaling, details>>
    BY <1>3 DEF AskName, Begin
  <2> QED BY <2>1
<1>12. CASE GetMonitorInfo \/ GetBufferSizes \/ FindPath
  <2>1. UNCHANGED <<displays, asked, i, scaling, details>>
    BY <1>12 DEF GetMonitorInfo, GetBufferSizes, FindPath
  <2> QED BY <2>1
<1>4. CASE QueryPaths
  BY <1>4 DEF QueryPaths
<1>5. CASE NextPath
  <2>1. i' \in Nat \ {0}
    BY <1>5 DEF NextPath
  <2> QED BY <1>5, <2>1 DEF NextPath
<1>6. ASSUME NEW field \in {"name", "rate", "percent"}, NEW value, Answer(field, value)
      PROVE  details' = [name |-> details'.name, rate |-> details'.rate,
                         percent |-> details'.percent]
  BY <1>6 DEF Answer
<1>7. CASE ReturnName
  <2>1. \E value : Answer("name", value)
    BY <1>7 DEF ReturnName
  <2>3. Begin("count") /\ UNCHANGED <<displays, replugs, asked, device, scaling>>
    BY <1>7 DEF ReturnName
  <2>2. details' = [name |-> details'.name, rate |-> details'.rate,
                    percent |-> details'.percent]
    BY <1>6, <2>1
  <2> QED BY <2>2, <2>3 DEF Begin
<1>8. CASE CountModes
  <2>1. Answer("rate", 0) \/ UNCHANGED details
    BY <1>8 DEF CountModes
  <2>2. details' = [name |-> details'.name, rate |-> details'.rate,
                    percent |-> details'.percent]
    BY <1>6, <2>1
  <2>3. i' \in {i, 1}
    BY <1>8 DEF CountModes, Begin
  <2> QED BY <1>8, <2>2, <2>3 DEF CountModes
<1>9. CASE ListModes
  <2>1. \E value : Answer("rate", value)
    BY <1>9 DEF ListModes
  <2>2. details' = [name |-> details'.name, rate |-> details'.rate,
                    percent |-> details'.percent]
    BY <1>6, <2>1
  <2> QED BY <1>9, <2>2 DEF ListModes, Begin
<1>10. CASE GetScaling
  <2>1. \E value : Answer("percent", value)
    BY <1>10 DEF GetScaling
  <2>2. details' = [name |-> details'.name, rate |-> details'.rate,
                    percent |-> details'.percent]
    BY <1>6, <2>1
  <2> QED BY <1>10, <2>2 DEF GetScaling
<1>11. CASE UNCHANGED detailVars
  BY <1>11 DEF detailVars
<1> QED BY <1>1, <1>2, <1>3, <1>4, <1>5, <1>7, <1>8, <1>9, <1>10, <1>11, <1>12
        DEF DetailNext

\* A path of the layout is told by its source, when nothing has changed.
LEMMA MatchesOne ==
  ASSUME DetailType, NEW k \in DOMAIN displays
  PROVE  /\ Exists(displays[k])
         /\ MatchesMonitor(displays[k]) = {displays[k].source = device}
BY LayoutFacts DEF Exists, MatchesMonitor

LEMMA StepDetail ==
  ASSUME DetailInv, [DetailNext]_detailVars
  PROVE  DetailInv'
<1> USE DEF DetailInv
<1>0. DetailType'
  BY StepDetailType
<1>1. CASE Reconfigure
  BY <1>0, <1>1 DEF Reconfigure
<1>2. CASE Describe
  <2>1. step' = "name"
    BY <1>2 DEF Describe
  <2> QED BY <1>0, <2>1 DEF SoFar
<1>3. CASE GetMonitorInfo
  <2>1. /\ step = "info" /\ step' = "sizes" /\ UNCHANGED <<displays, asked, i, undisturbed>>
        /\ Shown(asked) => device' = asked
    BY <1>3 DEF GetMonitorInfo
  <2>2. Shown(asked)' <=> Shown(asked)
    BY <2>1 DEF Shown, Of
  <2> QED BY <1>0, <2>1, <2>2 DEF SoFar
<1>10. CASE GetBufferSizes
  <2>1. /\ step = "sizes" /\ step' = "query"
        /\ UNCHANGED <<displays, asked, device, i, undisturbed>>
        /\ list' = Unwritten(Len(displays))
    BY <1>10 DEF GetBufferSizes
  <2>2. Shown(asked)' <=> Shown(asked)
    BY <2>1 DEF Shown, Of
  <2>3. undisturbed' => SoFar'
    BY <2>1, <2>2 DEF SoFar
  <2> QED BY <1>0, <2>1, <2>3
<1>4. CASE QueryPaths
  <2>1. /\ step = "query" /\ step' = "walk" /\ i = 1
        /\ UNCHANGED <<displays, asked, device, i, undisturbed>>
        /\ list' = Filled(Len(list), displays)
    BY <1>4 DEF QueryPaths
  <2>2. Shown(asked)' <=> Shown(asked)
    BY <2>1 DEF Shown, Of
  <2>3. ASSUME undisturbed PROVE list' = displays
    <3>1. Len(list) = Len(displays)
      BY <2>1, <2>3, LayoutFacts, UnwrittenLen DEF SoFar
    <3> QED BY <2>1, <3>1, LayoutFacts, FilledWhole
  <2>4. \A k \in DOMAIN displays : ~(k < 1)
    BY LayoutFacts
  <2>5. undisturbed' => SoFar'
    BY <2>1, <2>2, <2>3, <2>4 DEF SoFar
  <2> QED BY <1>0, <2>1, <2>5
<1>5. CASE NextPath
  <2>1. /\ step = "walk" /\ i <= Len(list) /\ FALSE \in MatchesMonitor(list[i]) /\ i' = i + 1
        /\ UNCHANGED <<displays, step, asked, device, list, undisturbed>>
    BY <1>5 DEF NextPath
  <2>2. Shown(asked)' <=> Shown(asked)
    BY <2>1 DEF Shown, Of
  <2>3. ASSUME undisturbed, Shown(asked)
        PROVE  \A k \in DOMAIN displays : k < i + 1 => displays[k].source # asked
    <3>1. list = displays /\ device = asked
      BY <2>1, <2>3 DEF SoFar
    <3>2. i \in DOMAIN displays
      BY <2>1, <3>1, LayoutFacts DEF DetailType
    <3>3. displays[i].source # asked
      BY <2>1, <3>1, <3>2, MatchesOne
    <3>4. \A k \in DOMAIN displays : k < i + 1 => k < i \/ k = i
      BY <3>2, LayoutFacts
    <3> QED BY <2>1, <2>3, <3>3, <3>4 DEF SoFar
  <2>4. undisturbed' => SoFar'
    BY <2>1, <2>2, <2>3 DEF SoFar
  <2> QED BY <1>0, <2>1, <2>4
<1>11. CASE FindPath
  <2>1. /\ step = "walk" /\ step' = "target" /\ i <= Len(list)
        /\ TRUE \in MatchesMonitor(list[i])
        /\ UNCHANGED <<displays, asked, device, list, i, undisturbed>>
    BY <1>11 DEF FindPath
  <2>2. Shown(asked)' <=> Shown(asked)
    BY <2>1 DEF Shown, Of
  <2>3. ASSUME undisturbed PROVE list = displays /\ i \in DOMAIN displays
    <3>1. list = displays
      BY <2>1, <2>3 DEF SoFar
    <3> QED BY <2>1, <3>1, LayoutFacts DEF DetailType
  <2>4. ASSUME undisturbed, Shown(asked) PROVE displays[i].source = asked
    <3>1. device = asked
      BY <2>1, <2>4 DEF SoFar
    <3> QED BY <2>1, <2>3, <2>4, <3>1, MatchesOne
  <2>5. undisturbed' => SoFar'
    BY <2>1, <2>2, <2>3, <2>4 DEF SoFar
  <2> QED BY <1>0, <2>1, <2>5
<1>6. CASE AskName \/ ReturnName \/ ListModes
  <2>1. i' = 1 /\ undisturbed' /\ step' \in {"info", "count", "scaling"}
    BY <1>6 DEF AskName, ReturnName, ListModes, Begin
  <2> QED BY <1>0, <2>1, BeginQuiet
<1>7. CASE CountModes
  <2>1. CASE Modes(asked) = <<>>
    <3>1. i' = 1 /\ undisturbed' /\ step' = "scaling"
      BY <1>7, <2>1 DEF CountModes, Begin
    <3> QED BY <1>0, <3>1, BeginQuiet
  <2>2. CASE Modes(asked) # <<>>
    <3>1. /\ step' = "modes" /\ list' = Unwritten(Len(Modes(asked)))
          /\ UNCHANGED <<displays, asked>>
      BY <1>7, <2>2 DEF CountModes
    <3>2. Modes(asked)' = Modes(asked)
      BY <3>1 DEF Modes, Shown, Of
    <3> QED BY <1>0, <2>2, <3>1, <3>2 DEF SoFar
  <2> QED BY <2>1, <2>2
<1>8. CASE GetScaling
  <2>1. step' = "idle"
    BY <1>8 DEF GetScaling
  <2> QED BY <1>0, <2>1 DEF SoFar
<1>9. CASE UNCHANGED detailVars
  <2>1. UNCHANGED <<displays, step, asked, device, list, i, undisturbed>>
    BY <1>9 DEF detailVars
  <2> QED BY <1>0, <2>1 DEF SoFar, Shown, Of, Modes
<1> QED BY <1>1, <1>2, <1>3, <1>4, <1>5, <1>6, <1>7, <1>8, <1>9, <1>10, <1>11 DEF DetailNext

\* The initial state: nothing has been asked.
LEMMA InitDetail == DetailInit => DetailInv
<1> SUFFICES ASSUME DetailInit PROVE DetailInv
  OBVIOUS
<1>1. \A e : LET r == [name |-> e, rate |-> 0, percent |-> 0]
             IN  r = [name |-> r.name, rate |-> r.rate, percent |-> r.percent]
  OBVIOUS
<1>2. NoDetails = [name |-> NoDetails.name, rate |-> NoDetails.rate,
                   percent |-> NoDetails.percent]
  BY <1>1, Zenon DEF NoDetails
<1> QED BY <1>2 DEF DetailInit, DetailInv, DetailType, SoFar

\* The name of the first path of the monitor is the one returned.
LEMMA NameTold ==
  ASSUME DetailInv, DetailNext, step \in {"walk", "target"}, step' = "count", undisturbed,
         Shown(asked)
  PROVE  details'.name = displays[Min(Of(asked))].name
<1>1. ReturnName
  BY DEF DetailNext, Reconfigure, Describe, AskName, GetMonitorInfo, GetBufferSizes, QueryPaths,
         NextPath, FindPath, CountModes, ListModes, GetScaling, Begin
<1>2. /\ DetailType /\ list = displays
      /\ \A k \in DOMAIN displays : k < i => displays[k].source # asked
  BY DEF DetailInv, SoFar
<1>3. i <= Len(list)
  <2>1. PICK k \in DOMAIN displays : displays[k].source = asked
    BY <1>2 DEF Shown, Of
  <2> QED BY <1>2, <2>1, LayoutFacts DEF DetailType
<1>4. ~(i > Len(list))
  BY <1>2, <1>3, LayoutFacts DEF DetailType
<1>5. step = "target" /\ Answer("name", IF Exists(list[i]) THEN list[i].name ELSE Garbage)
  BY <1>1, <1>4, Zenon DEF ReturnName
<1>6. i \in DOMAIN displays /\ displays[i].source = asked
  BY <1>5 DEF DetailInv, SoFar
<1>7. Min(Of(asked)) = i
  <2>1. i \in Of(asked) /\ \A k \in Of(asked) : i =< k /\ k \in Nat
    BY <1>2, <1>6, LayoutFacts DEF Of
  <2>2. \A k \in Of(asked) : (\A l \in Of(asked) : k =< l) => k = i
    BY <1>6, <2>1, LayoutFacts
  <2> QED BY <2>1, <2>2 DEF Min
<1>8. details'.name = displays[i].name
  <2>1. Answer("name", displays[i].name)
    BY <1>2, <1>5, <1>6, MatchesOne
  <2> QED BY <1>2, <2>1 DEF Answer, DetailType
<1> QED BY <1>7, <1>8

\* A rate that some mode comes out as and none need exceed is the highest, to the
\* nearest hertz as far as the quotient tells.
LEMMA HighestOfModes ==
  ASSUME NEW modes \in Seq(Nat \X Nat), \A k \in DOMAIN modes : modes[k][2] # 0,
         NEW rate \in {0} \cup UNION {Rates(mode) : mode \in ToSet(modes)},
         \A mode \in ToSet(modes) : \E n \in Rates(mode) : n <= rate
  PROVE  rate \in Nat /\ Highest(rate, modes)
<1>1. \A k \in DOMAIN modes : modes[k][1] \in Nat /\ modes[k][2] \in Nat \ {0}
  OBVIOUS
<1>2. ASSUME NEW k \in DOMAIN modes, NEW n \in Rates(modes[k])
      PROVE  /\ n \in Nat
             /\ Precision * ((2 * n - 1) * modes[k][2]) <= 2 * ((Precision + 1) * modes[k][1])
             /\ 2 * ((Precision - 1) * modes[k][1]) <= Precision * ((2 * n + 1) * modes[k][2])
  <2>1. /\ n \in 0 .. 2 * (modes[k][1] \div modes[k][2] + 1)
        /\ Precision * ((2 * n - 1) * modes[k][2]) <= 2 * ((Precision + 1) * modes[k][1])
        /\ Precision * ((2 * n + 1) * modes[k][2]) >= 2 * ((Precision - 1) * modes[k][1])
    BY <1>2 DEF Rates
  <2>2. n \in Nat
    BY <2>1
  <2>3. \A x, y \in Int : x >= y => y <= x
    OBVIOUS
  <2>4. \A p, m, d, z \in Int : p * ((2 * m + 1) * d) \in Int /\ 2 * ((p - 1) * z) \in Int
    OBVIOUS
  <2>5. Precision \in Int /\ n \in Int /\ modes[k][1] \in Int /\ modes[k][2] \in Int
    BY <1>1, <2>2, DetailsAssumption
  <2> QED BY <2>1, <2>2, <2>3, <2>4, <2>5
<1>3. \A mode \in ToSet(modes) : \E k \in DOMAIN modes : mode = modes[k]
  BY DEF ToSet
<1>4. \A k \in DOMAIN modes : modes[k] \in ToSet(modes)
  BY DEF ToSet
<1>5. rate # 0 => \E k \in DOMAIN modes : rate \in Rates(modes[k])
  BY <1>3
<1>6. rate \in Nat
  BY <1>2, <1>5
<1>7. ASSUME NEW k \in DOMAIN modes
      PROVE  2 * ((Precision - 1) * modes[k][1]) <= Precision * ((2 * rate + 1) * modes[k][2])
  <2>1. PICK n \in Rates(modes[k]) : n <= rate
    BY <1>4
  <2>2. /\ n \in Nat
        /\ 2 * ((Precision - 1) * modes[k][1]) <= Precision * ((2 * n + 1) * modes[k][2])
    BY <1>2
  <2>3. ASSUME NEW p \in Nat, NEW d \in Nat, NEW m \in Nat, NEW r \in Nat, m <= r
        PROVE  p * ((2 * m + 1) * d) <= p * ((2 * r + 1) * d)
    <3>1. \A x, y \in Nat : x * y \in Nat
      OBVIOUS
    <3>2. (r - m) \in Nat
      BY <2>3
    <3>3. p * ((r - m) * d) \in Nat
      BY <3>1, <3>2
    <3>4. p * ((2 * r + 1) * d) = p * ((2 * m + 1) * d) + 2 * (p * ((r - m) * d))
      OBVIOUS
    <3>5. p * ((2 * m + 1) * d) \in Int
      OBVIOUS
    <3>6. \A x, z \in Int : \A y \in Nat : z = x + 2 * y => x <= z
      OBVIOUS
    <3>7. p * ((2 * r + 1) * d) \in Int
      OBVIOUS
    <3> QED BY <3>3, <3>4, <3>5, <3>6, <3>7
  <2> DEFINE x == 2 * ((Precision - 1) * modes[k][1])
             y == Precision * ((2 * n + 1) * modes[k][2])
             z == Precision * ((2 * rate + 1) * modes[k][2])
  <2>4. x <= y /\ y <= z
    BY <1>1, <1>6, <2>1, <2>2, <2>3, DetailsAssumption
  <2>5. /\ Precision \in Int /\ n \in Int /\ rate \in Int
        /\ modes[k][1] \in Int /\ modes[k][2] \in Int
    BY <1>1, <1>6, <2>2, DetailsAssumption
  <2>6. \A p, m, d, w \in Int : p * ((2 * m + 1) * d) \in Int /\ 2 * ((p - 1) * w) \in Int
    OBVIOUS
  <2>7. x \in Int /\ y \in Int /\ z \in Int
    BY <2>5, <2>6
  <2> HIDE DEF x, y, z
  <2>8. x <= z
    BY <2>4, <2>7
  <2> QED BY <2>8 DEF x, z
<1> QED BY <1>2, <1>5, <1>6, <1>7 DEF Highest

LEMMA RateTold ==
  ASSUME DetailInv, DetailNext, step # "scaling", step' = "scaling", undisturbed
  PROVE  \/ details'.rate # Junk /\ Highest(details'.rate, Modes(asked))
         \/ \E k \in DOMAIN Modes(asked) : Modes(asked)[k][2] = 0
<1> DEFINE modes == Modes(asked)
<1>0. DetailType /\ modes \in Seq(Nat \X Nat)
  BY ModesFacts DEF DetailInv
<1>1. \A value : Answer("rate", value) => details'.rate = value
  BY <1>0 DEF Answer, DetailType
<1>2. CASE CountModes
  <2>1. modes = <<>> /\ Answer("rate", 0)
    BY <1>2 DEF CountModes
  <2>2. details'.rate = 0
    BY <1>1, <2>1
  <2>3. 0 # Junk
    BY DetailsAssumption
  <2>4. DOMAIN modes = {}
    BY <2>1
  <2> QED BY <2>2, <2>3, <2>4 DEF Highest
<1>3. CASE ListModes
  <2> SUFFICES ASSUME \A k \in DOMAIN modes : modes[k][2] # 0
               PROVE  details'.rate # Junk /\ Highest(details'.rate, modes)
    OBVIOUS
  <2>1. Shown(asked) /\ list = Unwritten(Len(modes)) /\ Len(modes) \in Nat
    BY <1>0, <1>3, ModesFacts DEF ListModes, DetailInv, SoFar
  <2>2. Len(list) = Len(modes)
    BY <2>1, UnwrittenLen
  <2>3. Filled(Len(list), modes) = modes
    BY <1>0, <2>2, FilledWhole
  <2>4. ~(Len(modes) > Len(list))
    BY <2>1, <2>2
  <2>5. \A mode \in ToSet(modes) : Defined(mode)
    <3>1. \A k \in DOMAIN modes : modes[k] # Zero
      BY <1>0, DetailsAssumption
    <3> QED BY <3>1 DEF ToSet, Defined
  <2>6. {mode \in ToSet(modes) : Defined(mode)} = ToSet(modes)
    BY <2>5
  <2>7. PICK rate \in {0} \cup UNION {Rates(mode) : mode \in ToSet(modes)} :
          /\ \A mode \in ToSet(modes) : \E n \in Rates(mode) : n <= rate
          /\ Answer("rate", rate)
    BY <1>3, <2>1, <2>3, <2>4, <2>6 DEF ListModes
  <2>8. rate \in Nat /\ Highest(rate, modes)
    BY <1>0, <2>7, HighestOfModes
  <2>9. details'.rate = rate
    BY <1>1, <2>7
  <2> QED BY <2>8, <2>9, DetailsAssumption
<1>4. CountModes \/ ListModes
  BY DEF DetailNext, Reconfigure, Describe, AskName, GetMonitorInfo, GetBufferSizes, QueryPaths,
         NextPath, FindPath, ReturnName, GetScaling, Begin
<1> QED BY <1>2, <1>3, <1>4

LEMMA PercentTold ==
  ASSUME DetailInv, DetailNext, step = "scaling", step' = "idle", Shown(asked)
  PROVE  details'.percent = IF scaling THEN (Dpi(asked) * 100) \div 96 ELSE 0
<1>1. GetScaling
  BY DEF DetailNext, Reconfigure, Describe, AskName, GetMonitorInfo, GetBufferSizes, QueryPaths,
         NextPath, FindPath, ReturnName, CountModes, ListModes, Begin
<1> DEFINE d == (Dpi(asked) * 100) \div 96
<1>2. Answer("percent", IF scaling THEN d ELSE 0)
  BY <1>1 DEF GetScaling
<1> HIDE DEF d
<1>3. details'.percent = IF scaling THEN d ELSE 0
  BY <1>2 DEF Answer, DetailInv, DetailType
<1> QED BY <1>3 DEF d

\* For any displays, modes, resolutions and precision of a quotient, and whatever
\* happened before a function was called: while the displays stay as they are, a
\* monitor that is shown is given the name of its first path, its scaling is that of
\* its resolution, and the rate is the highest of the modes, to the nearest hertz as
\* far as the quotient tells, unless a mode has a zero denominator.
THEOREM WrongOnlyIfDisturbedAlways == DetailSpec => WrongOnlyIfDisturbed
<1>1. DetailInv /\ [DetailNext]_detailVars => DetailInv'
  BY StepDetail
<1>2. DetailInv /\ [DetailNext]_detailVars =>
        [LET told == details'
         IN  /\ step \in {"walk", "target"} /\ step' = "count" /\ undisturbed /\ Shown(asked) =>
                  told.name = displays[Min(Of(asked))].name
             /\ step # "scaling" /\ step' = "scaling" /\ undisturbed =>
                  \/ told.rate # Junk /\ Highest(told.rate, Modes(asked))
                  \/ \E k \in DOMAIN Modes(asked) : Modes(asked)[k][2] = 0
             /\ step = "scaling" /\ step' = "idle" /\ Shown(asked) =>
                  told.percent = IF scaling THEN (Dpi(asked) * 100) \div 96 ELSE 0
        ]_detailVars
  BY NameTold, RateTold, PercentTold
<1> QED BY <1>1, <1>2, InitDetail, PTL DEF DetailSpec, WrongOnlyIfDisturbed

-----------------------------------------------------------------------------
(* What Identifiers reads of the texts, byte by byte.                      *)

LEMMA TwoDigits ==
  ASSUME NEW x, NEW y, Digit(x), Digit(y)
  PROVE  Stoi(x, y) = 16 * x + y
<1>1. x \notin {Plus, Blank}
  BY DEF Digit, Plus, Blank
<1> QED BY <1>1 DEF Stoi

\* The two digits std::hex prints of a byte, padded, are read back as it, and no
\* two bytes look the same.
THEOREM HexReadsBack ==
  ASSUME NEW val \in 0 .. 255
  PROVE  /\ Len(Hex(val)) = 2 /\ Digit(Hex(val)[1]) /\ Digit(Hex(val)[2])
         /\ Stoi(Hex(val)[1], Hex(val)[2]) = val
<1>1. CASE val <= 15
  BY <1>1 DEF Hex, Stoi, Digit
<1>2. CASE val > 15
  <2> DEFINE q == val \div 16
             r == val % 16
  <2>1. /\ q \in Int /\ r \in Int /\ val \in 0 .. 255
        /\ 16 * q <= val /\ val < 16 * q + 16 /\ r = val - 16 * q
    OBVIOUS
  <2>2. Hex(val) = <<q, r>>
    BY <1>2 DEF Hex
  <2> HIDE DEF q, r
  <2>3. 0 <= q /\ q <= 15 /\ 0 <= r /\ r <= 15
    BY <2>1
  <2>4. Digit(q) /\ Digit(r)
    BY <2>1, <2>3 DEF Digit
  <2>5. 16 * q + r = val
    BY <2>1
  <2>6. Stoi(q, r) = 16 * q + r
    BY <2>4, TwoDigits
  <2>7. Len(Hex(val)) = 2 /\ Hex(val)[1] = q /\ Hex(val)[2] = r
    BY <2>2
  <2> QED BY <2>4, <2>5, <2>6, <2>7
<1> QED BY <1>1, <1>2

\* The bytes read from a text: none, or as many as asked for.
ByteLists(n) == {<<>>} \cup [1 .. n -> 0 .. 255]

LEMMA StoiRange ==
  ASSUME NEW x, NEW y
  PROVE  Stoi(x, y) \in {Invalid} \cup 0 .. 255
<1>1. CASE Digit(x) /\ Digit(y)
  BY <1>1 DEF Stoi, Digit
<1>2. CASE Digit(x) /\ ~Digit(y)
  BY <1>2 DEF Stoi, Digit
<1>3. CASE ~Digit(x) /\ x \in {Plus, Blank} /\ Digit(y)
  BY <1>3 DEF Stoi, Digit
<1>4. CASE ~Digit(x) /\ ~(x \in {Plus, Blank} /\ Digit(y))
  BY <1>4 DEF Stoi
<1> QED BY <1>1, <1>2, <1>3, <1>4

LEMMA ReadsBytes ==
  ASSUME NEW text, NEW n \in Nat
  PROVE  HexStringToByteArray(text, n) \in ByteLists(n)
<1> DEFINE str   == Significant(text)
           bytes == [k \in 1 .. n |-> Stoi(str[2 * k - 1], str[2 * k])]
<1>1. HexStringToByteArray(text, n)
        = IF Len(str) # n * 2 \/ Contains(bytes, Invalid) THEN <<>> ELSE bytes
  BY DEF HexStringToByteArray
<1>2. \A k \in 1 .. n : bytes[k] \in {Invalid} \cup 0 .. 255
  BY StoiRange
<1>3. DOMAIN bytes = 1 .. n /\ bytes = [k \in 1 .. n |-> bytes[k]]
  OBVIOUS
<1> HIDE DEF bytes
<1>4. ASSUME ~Contains(bytes, Invalid) PROVE bytes \in [1 .. n -> 0 .. 255]
  <2>0. bytes \in [1 .. n -> {Invalid} \cup 0 .. 255]
    BY <1>2, <1>3
  <2>1. Len(bytes) = n
    BY <2>0, SeqDef, LenProperties, <1>3
  <2>2. \A k \in 1 .. n : bytes[k] # Invalid
    BY <1>4, <2>1 DEF Contains
  <2> QED BY <1>2, <1>3, <2>2
<1> QED BY <1>1, <1>4 DEF ByteLists

\* What has been answered for a UUID is no byte, or UuidBytes bytes.
UuidBytesWhole ==
  /\ adapters # Unasked => \A k \in DOMAIN adapters : adapters[k].uuidBytes \in ByteLists(UuidBytes)
  /\ uuid = [text |-> uuid.text, read |-> uuid.read, bytes |-> uuid.bytes]
  /\ uuid.bytes # Unasked => uuid.bytes \in ByteLists(UuidBytes)

\* Whatever the registry and the names of the adapters hold, and whatever stoi
\* takes for a number in it, a UUID is reported as no byte at all or as UuidBytes
\* bytes, each in 0 .. 255.
THEOREM UuidBytesAlwaysWhole == IdSpec => []UuidBytesWhole
<1>1. IdInit => UuidBytesWhole
  BY DEF IdInit, UuidBytesWhole
<1>2. UuidBytesWhole /\ [IdNext]_idVars => UuidBytesWhole'
  <2> SUFFICES ASSUME UuidBytesWhole, [IdNext]_idVars PROVE UuidBytesWhole'
    OBVIOUS
  <2> USE DEF UuidBytesWhole
  <2>0. UuidBytes \in Nat
    BY IdentifiersAssumption
  <2>1. CASE Replug
    BY <2>1 DEF Replug
  <2>2. CASE AskSize
    BY <2>2 DEF AskSize
  <2>3. ASSUME NEW nw, NEW k \in DOMAIN Listed(nw)
        PROVE  Listed(nw)[k].uuidBytes \in ByteLists(UuidBytes)
    <3>1. \A text : HexStringToByteArray(text, UuidBytes) \in ByteLists(UuidBytes)
      BY <2>0, ReadsBytes
    <3> QED BY <3>1 DEF Listed
  <2>4. CASE Fill
    BY <2>3, <2>4 DEF Fill
  <2>5. CASE AskMachineUuid
    <3>1. \A text : HexStringToByteArray(text, UuidBytes) \in ByteLists(UuidBytes)
      BY <2>0, ReadsBytes
    <3>2. PICK text \in Reads :
            uuid' = [uuid EXCEPT !.read = text, !.bytes = HexStringToByteArray(text, UuidBytes)]
      BY <2>5 DEF AskMachineUuid
    <3>3. /\ uuid' = [text |-> uuid'.text, read |-> uuid'.read, bytes |-> uuid'.bytes]
          /\ uuid'.bytes = HexStringToByteArray(text, UuidBytes)
      BY <3>2
    <3> QED BY <2>5, <3>1, <3>3 DEF AskMachineUuid
  <2>6. CASE UNCHANGED idVars
    BY <2>6 DEF idVars
  <2>7. CASE AskMachineUuidString
    <3>1. PICK text \in Reads : uuid' = [uuid EXCEPT !.text = text]
      BY <2>7 DEF AskMachineUuidString
    <3>2. /\ uuid' = [text |-> uuid'.text, read |-> uuid'.read, bytes |-> uuid'.bytes]
          /\ uuid'.bytes = uuid.bytes
      BY <3>1
    <3> QED BY <2>7, <3>2 DEF AskMachineUuidString
  <2> QED BY <2>1, <2>2, <2>4, <2>5, <2>6, <2>7 DEF IdNext
<1> QED BY <1>1, <1>2, PTL DEF IdSpec

-----------------------------------------------------------------------------
(* What the functions of Identifiers that are defined step by step compute. *)
(* The induction is first-order: over the set of the numbers up to which a  *)
(* claim holds.                                                             *)

\* Induction up to n: a set that has 0 and with each number the next one has all.
LEMMA UpTo ==
  ASSUME NEW n \in Nat, NEW T, 0 \in T,
         \A k \in 1 .. n : k - 1 \in T => k \in T
  PROVE  \A k \in 0 .. n : k \in T
<1> DEFINE Out == (0 .. n) \ T
<1> SUFFICES ASSUME Out # {} PROVE FALSE
  OBVIOUS
<1>1. Out \subseteq Nat
  OBVIOUS
<1>2. PICK m \in Out : \A y \in Out : ~(<<y, m>> \in OpToRel(<, Nat))
  BY <1>1, NatLessThanWellFounded, WFMin
<1>3. m \in 1 .. n /\ m - 1 \in 0 .. n /\ m - 1 < m
  <2>1. m \in 0 .. n /\ m # 0
    BY <1>2
  <2> QED BY <2>1
<1>4. <<m - 1, m>> \in OpToRel(<, Nat)
  BY <1>3 DEF OpToRel
<1>5. m - 1 \in T
  BY <1>2, <1>3, <1>4
<1> QED BY <1>2, <1>3, <1>5

\* f is defined step by step up to n, next[k][x] being what comes at k after x.
Steps(next, n, D) == next \in [1 .. n -> [D -> D]]
Stepwise(f, base, next, n, D) ==
  /\ f \in [0 .. n -> D]
  /\ f[0] = base
  /\ \A k \in 1 .. n : f[k] = next[k][f[k - 1]]

Obeys(h, base, next, n, D) ==
  /\ h[0] = base
  /\ \A k \in 1 .. n : \A x \in D : h[k - 1] = x => h[k] = next[k][x]

\* There is such a function.
LEMMA Recursion ==
  ASSUME NEW n \in Nat, NEW D, NEW base \in D, NEW next, Steps(next, n, D)
  PROVE  \E f : Stepwise(f, base, next, n, D)
<1> USE DEF Steps
<1> DEFINE Is(f, m) == f[0] = base /\ \A k \in 1 .. m : f[k] = next[k][f[k - 1]]
           T        == {m \in 0 .. n : \E f \in [0 .. m -> D] : Is(f, m)}
<1>1. 0 \in T
  <2> DEFINE z == [x \in 0 .. 0 |-> base]
  <2>1. z \in [0 .. 0 -> D] /\ Is(z, 0) /\ 0 \in 0 .. n
    OBVIOUS
  <2> HIDE DEF z, Is
  <2> QED BY <2>1
<1>2. ASSUME NEW m \in 1 .. n, m - 1 \in T PROVE m \in T
  <2>1. PICK f \in [0 .. m - 1 -> D] : Is(f, m - 1)
    BY <1>2
  <2>2. m - 1 \in 0 .. m - 1 /\ f[m - 1] \in D
    BY <1>2
  <2>3. next[m][f[m - 1]] \in D
    BY <2>2
  <2> DEFINE g == [x \in 0 .. m |-> IF x = m THEN next[m][f[m - 1]] ELSE f[x]]
  <2>4. g \in [0 .. m -> D]
    <3>1. ASSUME NEW x \in 0 .. m PROVE g[x] \in D
      <4>1. x = m \/ x \in 0 .. m - 1
        BY <1>2
      <4> QED BY <2>3, <4>1
    <3> QED BY <3>1
  <2>5. g[0] = base
    BY <2>1, <1>2
  <2>6. ASSUME NEW k \in 1 .. m PROVE g[k] = next[k][g[k - 1]]
    <3>1. k - 1 \in 0 .. m - 1 /\ k - 1 # m /\ k \in 0 .. m
      BY <1>2
    <3>2. g[k - 1] = f[k - 1]
      BY <3>1
    <3>3. CASE k = m
      BY <3>1, <3>2, <3>3
    <3>4. CASE k # m
      <4>1. k \in 1 .. m - 1
        BY <3>4, <1>2
      <4> QED BY <2>1, <3>1, <3>2, <3>4, <4>1
    <3> QED BY <3>3, <3>4
  <2> HIDE DEF g
  <2>7. Is(g, m) /\ m \in 0 .. n
    BY <2>5, <2>6, <1>2
  <2> HIDE DEF Is
  <2> QED BY <2>4, <2>7
<1> HIDE DEF T
<1>3. \A k \in 0 .. n : k \in T
  BY <1>1, <1>2, UpTo
<1>4. n \in T
  BY <1>3
<1>5. PICK f \in [0 .. n -> D] : Is(f, n)
  BY <1>4 DEF T
<1>6. Stepwise(f, base, next, n, D)
  BY <1>5 DEF Stepwise
<1> QED BY <1>6

\* And no other: whatever obeys the same steps agrees with it.
LEMMA OneRecursion ==
  ASSUME NEW n \in Nat, NEW D, NEW base \in D, NEW next, NEW f, NEW h,
         Stepwise(f, base, next, n, D), Obeys(h, base, next, n, D)
  PROVE  h[n] = f[n]
<1> USE DEF Obeys
<1> DEFINE T == {x \in 0 .. n : h[x] = f[x]}
<1>1. 0 \in T
  BY DEF Stepwise
<1>2. ASSUME NEW k \in 1 .. n, k - 1 \in T PROVE k \in T
  <2>1. k \in 0 .. n /\ k - 1 \in 0 .. n
    OBVIOUS
  <2>2. f[k - 1] \in D
    BY <2>1 DEF Stepwise
  <2>3. h[k - 1] = f[k - 1]
    BY <1>2
  <2>4. h[k] = f[k]
    BY <2>2, <2>3 DEF Stepwise
  <2> QED BY <2>1, <2>4
<1> HIDE DEF T
<1>3. \A k \in 0 .. n : k \in T
  BY <1>1, <1>2, UpTo
<1>4. n \in T
  BY <1>3
<1> QED BY <1>4 DEF T

\* Kept, one position at a time.
Keeps(f, items, positions, S) ==
  /\ f \in [0 .. Len(items) -> Seq(S)]
  /\ f[0] = <<>>
  /\ \A k \in 1 .. Len(items) :
       f[k] = IF k \in positions THEN Append(f[k - 1], items[k]) ELSE f[k - 1]
  /\ Kept(items, positions) = f[Len(items)]
LEMMA KeptSteps ==
  ASSUME NEW S, NEW items \in Seq(S), NEW positions
  PROVE  \E f : Keeps(f, items, positions, S)
<1> DEFINE n == Len(items)
           Unfolded(f) == [k \in 0 .. n |->
                         IF k = 0 THEN <<>>
                         ELSE IF k \in positions THEN Append(f[k - 1], items[k]) ELSE f[k - 1]]
           next == [k \in 1 .. n |->
                      [s \in Seq(S) |-> IF k \in positions THEN Append(s, items[k]) ELSE s]]
           h == CHOOSE f : f = Unfolded(f)
<1>1. n \in Nat /\ \A k \in 1 .. n : items[k] \in S
  OBVIOUS
<1>2. Steps(next, n, Seq(S))
  <2>1. \A k \in 1 .. n : \A s \in Seq(S) : Append(s, items[k]) \in Seq(S)
    BY <1>1
  <2> QED BY <2>1 DEF Steps
<1>3. \A k \in 1 .. n : \A s \in Seq(S) :
        next[k][s] = IF k \in positions THEN Append(s, items[k]) ELSE s
  OBVIOUS
<1>4. <<>> \in Seq(S)
  OBVIOUS
<1>5. Kept(items, positions) = h[n]
  BY DEF Kept
<1> HIDE DEF next
<1>6. PICK f : Stepwise(f, <<>>, next, n, Seq(S))
  BY <1>1, <1>2, <1>4, Recursion
<1>7. /\ f \in [0 .. n -> Seq(S)] /\ f[0] = <<>>
      /\ \A k \in 1 .. n : f[k] = IF k \in positions THEN Append(f[k - 1], items[k]) ELSE f[k - 1]
  <2>1. \A k \in 1 .. n : k - 1 \in 0 .. n
    BY <1>1
  <2> QED BY <1>3, <1>6, <2>1 DEF Stepwise
<1>8. f = Unfolded(f)
  <2>1. ASSUME NEW k \in 0 .. n PROVE f[k] = Unfolded(f)[k]
    <3>1. CASE k = 0
      BY <1>7, <3>1
    <3>2. CASE k # 0
      <4>1. k \in 1 .. n
        BY <3>2
      <4> QED BY <1>7, <3>2, <4>1
    <3> QED BY <3>1, <3>2
  <2> QED BY <1>7, <2>1
<1>9. h = Unfolded(h)
  BY <1>8, Zenon
<1> HIDE DEF h
<1>10. Obeys(h, <<>>, next, n, Seq(S))
  <2>1. h[0] = <<>>
    BY <1>1, <1>9
  <2>2. ASSUME NEW k \in 1 .. n, NEW x \in Seq(S), h[k - 1] = x PROVE h[k] = next[k][x]
    <3>1. k \in 0 .. n /\ k # 0
      BY <1>1
    <3>2. h[k] = IF k \in positions THEN Append(x, items[k]) ELSE x
      BY <1>9, <2>2, <3>1
    <3> QED BY <1>3, <3>2
  <2> QED BY <2>1, <2>2 DEF Obeys
<1>11. h[n] = f[n]
  <2> DEFINE D == Seq(S)
  <2>1. n \in Nat /\ <<>> \in D /\ Stepwise(f, <<>>, next, n, D) /\ Obeys(h, <<>>, next, n, D)
    BY <1>1, <1>4, <1>6, <1>10
  <2> HIDE DEF n, D
  <2> QED BY <2>1, OneRecursion
<1>12. Keeps(f, items, positions, S)
  BY <1>5, <1>7, <1>11 DEF Keeps
<1> QED BY <1>12

\* What is kept of a list and one element more.
LEMMA KeptLonger ==
  ASSUME NEW S, NEW items \in Seq(S), NEW x \in S, NEW p, NEW q,
         \A k \in 1 .. Len(items) : k \in p <=> k \in q
  PROVE  Kept(Append(items, x), q)
           = IF Len(items) + 1 \in q THEN Append(Kept(items, p), x) ELSE Kept(items, p)
<1> DEFINE n == Len(items)
           longer == Append(items, x)
<1>1. /\ n \in Nat /\ longer \in Seq(S) /\ Len(longer) = n + 1 /\ longer[n + 1] = x
      /\ \A k \in 1 .. n : longer[k] = items[k]
  OBVIOUS
<1>2. PICK f : Keeps(f, items, p, S)
  BY KeptSteps
<1> HIDE DEF longer
<1>3. PICK g : Keeps(g, longer, q, S)
  BY <1>1, KeptSteps
<1>20. /\ f \in [0 .. n -> Seq(S)] /\ f[0] = <<>> /\ Kept(items, p) = f[n]
      /\ \A k \in 1 .. n : f[k] = IF k \in p THEN Append(f[k - 1], items[k]) ELSE f[k - 1]
  BY <1>2 DEF Keeps
<1>30. /\ g \in [0 .. n + 1 -> Seq(S)] /\ g[0] = <<>> /\ Kept(longer, q) = g[n + 1]
      /\ \A k \in 1 .. n + 1 :
           g[k] = IF k \in q THEN Append(g[k - 1], longer[k]) ELSE g[k - 1]
  BY <1>1, <1>3 DEF Keeps
<1> DEFINE T == {k \in 0 .. n : g[k] = f[k]}
<1>4. 0 \in T
  BY <1>1, <1>20, <1>30
<1>5. ASSUME NEW k \in 1 .. n, k - 1 \in T PROVE k \in T
  <2>1. k \in 0 .. n /\ k \in 1 .. n + 1 /\ g[k - 1] = f[k - 1] /\ longer[k] = items[k]
    BY <1>1, <1>5
  <2> QED BY <1>20, <1>30, <2>1
<1> HIDE DEF T
<1>6. \A k \in 0 .. n : k \in T
  BY <1>1, <1>4, <1>5, UpTo
<1>7. g[n] = f[n]
  BY <1>1, <1>6 DEF T
<1>8. n + 1 \in 1 .. n + 1 /\ (n + 1) - 1 = n
  BY <1>1
<1> QED BY <1>1, <1>20, <1>30, <1>7, <1>8 DEF longer

LEMMA KeptType ==
  ASSUME NEW S, NEW items \in Seq(S), NEW positions
  PROVE  Kept(items, positions) \in Seq(S)
<1>1. PICK f : Keeps(f, items, positions, S)
  BY KeptSteps
<1>2. Len(items) \in 0 .. Len(items)
  OBVIOUS
<1> QED BY <1>1, <1>2 DEF Keeps

LEMMA KeptNothing == \A positions : Kept(<<>>, positions) = <<>>
<1> TAKE positions
<1>1. <<>> \in Seq({}) /\ Len(<<>>) = 0
  OBVIOUS
<1>2. PICK f : Keeps(f, <<>>, positions, {})
  BY <1>1, KeptSteps
<1> QED BY <1>1, <1>2 DEF Keeps

LEMMA SignificantLonger ==
  ASSUME NEW S, NEW text \in Seq(S), NEW c \in S
  PROVE  /\ Significant(text) \in Seq(S)
         /\ Significant(Append(text, c))
              = IF c \in {Colon, Dash} THEN Significant(text) ELSE Append(Significant(text), c)
<1> DEFINE p == {k \in DOMAIN text : text[k] \notin {Colon, Dash}}
           q == {k \in DOMAIN Append(text, c) : Append(text, c)[k] \notin {Colon, Dash}}
<1>1. \A k \in 1 .. Len(text) : k \in p <=> k \in q
  OBVIOUS
<1>2. Len(text) + 1 \in q <=> c \notin {Colon, Dash}
  OBVIOUS
<1>3. Significant(text) = Kept(text, p) /\ Significant(Append(text, c)) = Kept(Append(text, c), q)
  BY DEF Significant
<1> HIDE DEF p, q
<1>4. Kept(Append(text, c), q)
        = IF Len(text) + 1 \in q THEN Append(Kept(text, p), c) ELSE Kept(text, p)
  BY <1>1, KeptLonger
<1> QED BY <1>2, <1>3, <1>4, KeptType

\* FlattenSeq, one list at a time.
Flattens(f, lists, S) ==
  /\ f \in [0 .. Len(lists) -> Seq(S)]
  /\ f[0] = <<>>
  /\ \A k \in 1 .. Len(lists) : f[k] = f[k - 1] \o lists[k]
  /\ FlattenSeq(lists) = f[Len(lists)]
LEMMA FlattenSteps ==
  ASSUME NEW S, NEW lists \in Seq(Seq(S))
  PROVE  \E f : Flattens(f, lists, S)
<1> DEFINE n == Len(lists)
           Unfolded(f) == [j \in 1 .. n |-> IF j = 1 THEN lists[j] ELSE f[j - 1] \o lists[j]]
           next == [k \in 1 .. n |-> [s \in Seq(S) |-> s \o lists[k]]]
           h == CHOOSE f : f = Unfolded(f)
<1>1. n \in Nat /\ \A k \in 1 .. n : lists[k] \in Seq(S)
  OBVIOUS
<1>2. Steps(next, n, Seq(S))
  <2>1. \A k \in 1 .. n : \A s \in Seq(S) : s \o lists[k] \in Seq(S)
    BY <1>1
  <2> QED BY <2>1 DEF Steps
<1>3. \A k \in 1 .. n : \A s \in Seq(S) : next[k][s] = s \o lists[k]
  OBVIOUS
<1>4. <<>> \in Seq(S)
  OBVIOUS
<1>5. FlattenSeq(lists) = IF n = 0 THEN lists ELSE h[n]
  BY DEF FlattenSeq
<1> HIDE DEF next
<1>6. PICK f : Stepwise(f, <<>>, next, n, Seq(S))
  BY <1>1, <1>2, <1>4, Recursion
<1>7. /\ f \in [0 .. n -> Seq(S)] /\ f[0] = <<>>
      /\ \A k \in 1 .. n : f[k] = f[k - 1] \o lists[k]
  <2>1. \A k \in 1 .. n : k - 1 \in 0 .. n
    BY <1>1
  <2> QED BY <1>3, <1>6, <2>1 DEF Stepwise
<1> SUFFICES FlattenSeq(lists) = f[n]
  BY <1>7 DEF Flattens
<1>8. CASE n = 0
  <2>1. lists = <<>>
    BY <1>8
  <2> QED BY <1>5, <1>7, <1>8, <2>1
<1>9. CASE n # 0
  <2>1. \A k \in 1 .. n : k = 1 => <<>> \o lists[k] = lists[k]
    BY <1>1
  <2> DEFINE e == [j \in 1 .. n |-> f[j]]
  <2>2. e = Unfolded(e)
    <3>1. ASSUME NEW j \in 1 .. n PROVE e[j] = Unfolded(e)[j]
      <4>1. CASE j = 1
        <5>1. f[j] = <<>> \o lists[j]
          <6>1. j - 1 = 0
            BY <4>1
          <6>2. f[j] = f[j - 1] \o lists[j]
            BY <1>7
          <6> QED BY <1>7, <6>1, <6>2
        <5> QED BY <2>1, <4>1, <5>1
      <4>2. CASE j # 1
        <5>1. j - 1 \in 1 .. n
          BY <1>1, <4>2
        <5> QED BY <1>7, <4>2, <5>1
      <4> QED BY <4>1, <4>2
    <3> QED BY <3>1
  <2>3. h = Unfolded(h)
    <3> HIDE DEF e
    <3> QED BY <2>2, Zenon
  <2> HIDE DEF h
  <2> DEFINE T == {k \in 0 .. n : k = 0 \/ h[k] = f[k]}
  <2>4. 0 \in T
    BY <1>1
  <2>5. ASSUME NEW k \in 1 .. n, k - 1 \in T PROVE k \in T
    <3>1. k \in 0 .. n
      BY <1>1
    <3>2. CASE k = 1
      <4>1. h[1] = lists[1]
        BY <1>1, <1>9, <2>3
      <4>2. f[1] = <<>> \o lists[1]
        <5>1. 1 \in 1 .. n /\ 1 - 1 = 0
          BY <1>1, <1>9
        <5> QED BY <1>7, <5>1
      <4>3. <<>> \o lists[1] = lists[1]
        BY <2>1, <3>2
      <4> QED BY <3>1, <3>2, <4>1, <4>2, <4>3
    <3>3. CASE k # 1
      <4>1. k - 1 # 0 /\ h[k - 1] = f[k - 1]
        BY <1>1, <2>5, <3>3
      <4>2. h[k] = h[k - 1] \o lists[k]
        BY <2>3, <3>3
      <4> QED BY <1>7, <3>1, <4>1, <4>2
    <3> QED BY <3>2, <3>3
  <2> HIDE DEF T
  <2>6. \A k \in 0 .. n : k \in T
    BY <1>1, <2>4, <2>5, UpTo
  <2>7. h[n] = f[n]
    BY <1>1, <1>9, <2>6 DEF T
  <2> QED BY <1>5, <1>7, <1>9, <2>7
<1> QED BY <1>8, <1>9

\* A list of entries needs so many bytes.
LEMMA RoomIsNat ==
  ASSUME NEW items \in Seq(Adapter)
  PROVE  Room(items) \in Nat
<1> DEFINE n == Len(items)
           Unfolded(f) == [k \in 0 .. n |-> IF k = 0 THEN 0 ELSE f[k - 1] + items[k].room]
           next == [k \in 1 .. n |-> [s \in Nat |-> s + items[k].room]]
           h == CHOOSE f : f = Unfolded(f)
<1>1. n \in Nat /\ \A k \in 1 .. n : items[k].room \in Nat
  <2>1. \A k \in 1 .. n : items[k] \in Adapter
    OBVIOUS
  <2> QED BY <2>1 DEF Adapter
<1>2. Steps(next, n, Nat)
  BY <1>1 DEF Steps
<1>3. \A k \in 1 .. n : \A s \in Nat : next[k][s] = s + items[k].room
  OBVIOUS
<1>4. Room(items) = h[n]
  BY DEF Room
<1> HIDE DEF next
<1>5. PICK f : Stepwise(f, 0, next, n, Nat)
  BY <1>1, <1>2, Recursion
<1>6. /\ f \in [0 .. n -> Nat] /\ f[0] = 0
      /\ \A k \in 1 .. n : f[k] = f[k - 1] + items[k].room
  <2>1. \A k \in 1 .. n : k - 1 \in 0 .. n
    BY <1>1
  <2> QED BY <1>3, <1>5, <2>1 DEF Stepwise
<1>7. f = Unfolded(f)
  <2>1. ASSUME NEW k \in 0 .. n PROVE f[k] = Unfolded(f)[k]
    <3>1. CASE k = 0
      BY <1>6, <3>1
    <3>2. CASE k # 0
      <4>1. k \in 1 .. n
        BY <3>2
      <4> QED BY <1>6, <3>2, <4>1
    <3> QED BY <3>1, <3>2
  <2> QED BY <1>6, <2>1
<1>8. h = Unfolded(h)
  BY <1>7, Zenon
<1> HIDE DEF h
<1>9. Obeys(h, 0, next, n, Nat)
  <2>1. h[0] = 0
    BY <1>1, <1>8
  <2>2. ASSUME NEW k \in 1 .. n, NEW x \in Nat, h[k - 1] = x PROVE h[k] = next[k][x]
    <3>1. k \in 0 .. n /\ k # 0
      BY <1>1
    <3>2. h[k] = x + items[k].room
      BY <1>8, <2>2, <3>1
    <3> QED BY <1>3, <3>2
  <2> QED BY <2>1, <2>2 DEF Obeys
<1>10. h[n] = f[n]
  <2> DEFINE D == Nat
  <2>1. n \in Nat /\ 0 \in D /\ Stepwise(f, 0, next, n, D) /\ Obeys(h, 0, next, n, D)
    BY <1>1, <1>5, <1>9
  <2> HIDE DEF n, D
  <2> QED BY <2>1, OneRecursion
<1> QED BY <1>1, <1>4, <1>6, <1>10

-----------------------------------------------------------------------------
Chars == 0 .. 22
Bytes == 0 .. 255

LEMMA TextChars == Text = Seq(Chars) /\ Colon \in Chars /\ \A c \in 0 .. 15 : c \in Chars
BY DEF Text, Chars, Colon

LEMMA TwoMore ==
  ASSUME NEW S, NEW t \in Seq(S), NEW a \in S, NEW b \in S
  PROVE  /\ t \o <<a, b>> = Append(Append(t, a), b)
         /\ \A c \in S : t \o (<<c>> \o <<a, b>>) = Append(Append(Append(t, c), a), b)
<1>1. t \o <<a, b>> = Append(Append(t, a), b)
  OBVIOUS
<1>2. ASSUME NEW c \in S PROVE t \o (<<c>> \o <<a, b>>) = Append(Append(Append(t, c), a), b)
  <2>1. <<c>> \o <<a, b>> = <<c, a, b>>
    <3> DEFINE s == <<c>> \o <<a, b>>
               u == <<c, a, b>>
    <3>1. <<c>> \in Seq(S) /\ <<a, b>> \in Seq(S) /\ Len(<<c>>) = 1 /\ Len(<<a, b>>) = 2
      OBVIOUS
    <3>2. s \in Seq(S) /\ Len(s) = 3
      BY <3>1, ConcatProperties
    <3>3. s[1] = c /\ s[2] = a /\ s[3] = b
      BY <3>1, ConcatProperties
    <3>4. u \in Seq(S) /\ Len(u) = 3 /\ u[1] = c /\ u[2] = a /\ u[3] = b
      OBVIOUS
    <3> HIDE DEF s, u
    <3>5. \A j \in 1 .. 3 : s[j] = u[j]
      BY <3>3, <3>4
    <3>6. s = u
      BY <3>2, <3>4, <3>5, SeqEqual
    <3> QED BY <3>6 DEF s, u
  <2>2. t \o <<c, a, b>> = Append(Append(Append(t, c), a), b)
    OBVIOUS
  <2> QED BY <2>1, <2>2
<1> QED BY <1>1, <1>2

\* Two characters more, and what a list of characters is then.
LEMMA Grown ==
  ASSUME NEW S, NEW sig \in Seq(S), NEW n \in Nat, Len(sig) = 2 * n, NEW a \in S, NEW b \in S
  PROVE  LET new == Append(Append(sig, a), b)
         IN  /\ Len(new) = 2 * n + 2 /\ new[2 * n + 1] = a /\ new[2 * n + 2] = b
             /\ \A j \in 1 .. 2 * n : new[j] = sig[j]
OBVIOUS

LEMMA HexDigits ==
  ASSUME NEW val \in Bytes
  PROVE  /\ Hex(val) = <<Hex(val)[1], Hex(val)[2]>>
         /\ Hex(val)[1] \in 0 .. 15 /\ Hex(val)[2] \in 0 .. 15
<1>1. val \in 0 .. 255
  BY DEF Bytes
<1>2. Digit(Hex(val)[1]) /\ Digit(Hex(val)[2])
  BY <1>1, HexReadsBack
<1>3. CASE val <= 15
  BY <1>2, <1>3 DEF Hex, Digit
<1>4. CASE ~(val <= 15)
  BY <1>2, <1>4 DEF Hex, Digit
<1> QED BY <1>3, <1>4

\* The significant characters of a text are those of the first n bytes, in digits.
Shows(text, mac, n) ==
  /\ Len(Significant(text)) = 2 * n
  /\ \A k \in 1 .. n : /\ Significant(text)[2 * k - 1] = Hex(mac[k])[1]
                       /\ Significant(text)[2 * k] = Hex(mac[k])[2]

\* Two digits, with a colon before them or not.
LEMMA ShowsOneMore ==
  ASSUME NEW text \in Seq(Chars), NEW n \in Nat, NEW mac, mac[n + 1] \in Bytes,
         Shows(text, mac, n),
         NEW front \in {<<>>, <<Colon>>}
  PROVE  Shows(text \o (front \o Hex(mac[n + 1])), mac, n + 1)
<1> DEFINE a == Hex(mac[n + 1])[1]
           b == Hex(mac[n + 1])[2]
           t1 == IF front = <<>> THEN text ELSE Append(text, Colon)
           t2 == Append(t1, a)
           t3 == Append(t2, b)
           sig == Significant(text)
<1>1. /\ Hex(mac[n + 1]) = <<a, b>> /\ a \in 0 .. 15 /\ b \in 0 .. 15
  <2>1. mac[n + 1] \in Bytes
    OBVIOUS
  <2> QED BY <2>1, HexDigits
<1> HIDE DEF a, b
<1>2. a \in Chars /\ b \in Chars /\ a \notin {Colon, Dash} /\ b \notin {Colon, Dash}
  BY <1>1 DEF Chars, Colon, Dash
<1>3. text \o (front \o <<a, b>>) = t3
  <2>1. CASE front = <<>>
    <3>1. front \o <<a, b>> = <<a, b>>
      BY <2>1
    <3> QED BY <1>2, <2>1, <3>1, TwoMore
  <2>2. CASE front = <<Colon>>
    <3>1. front # <<>>
      BY <2>2
    <3>2. t3 = Append(Append(Append(text, Colon), a), b)
      BY <3>1
    <3>3. Colon \in Chars
      BY TextChars
    <3>4. text \o (<<Colon>> \o <<a, b>>) = Append(Append(Append(text, Colon), a), b)
      BY <1>2, <3>3, TwoMore
    <3> HIDE DEF t3
    <3> QED BY <2>2, <3>2, <3>4
  <2> QED BY <2>1, <2>2
<1>4. sig \in Seq(Chars) /\ Significant(Append(text, Colon)) = sig
  BY TextChars, SignificantLonger
<1>5. t1 \in Seq(Chars) /\ Significant(t1) = sig
  BY <1>4, TextChars
<1> HIDE DEF t1
<1>6. t2 \in Seq(Chars) /\ Significant(t2) = Append(sig, a)
  <2>1. t2 \in Seq(Chars)
    BY <1>2, <1>5
  <2> QED BY <1>2, <1>5, <2>1, SignificantLonger
<1> HIDE DEF t2
<1>7. Significant(t3) = Append(Append(sig, a), b)
  BY <1>2, <1>6, SignificantLonger
<1> HIDE DEF t3, sig
<1>8. /\ Len(sig) = 2 * n
      /\ \A k \in 1 .. n : sig[2 * k - 1] = Hex(mac[k])[1] /\ sig[2 * k] = Hex(mac[k])[2]
  BY DEF Shows, sig
<1> DEFINE new == Append(Append(sig, a), b)
<1>9. /\ Len(new) = 2 * n + 2 /\ new[2 * n + 1] = a /\ new[2 * n + 2] = b
      /\ \A j \in 1 .. 2 * n : new[j] = sig[j]
  BY <1>2, <1>4, <1>8, Grown
<1>10. Significant(t3) = new
  BY <1>7
<1> HIDE DEF new
<1>11. ASSUME NEW k \in 1 .. n + 1
       PROVE  new[2 * k - 1] = Hex(mac[k])[1] /\ new[2 * k] = Hex(mac[k])[2]
  <2>1. CASE k = n + 1
    <3>1. 2 * k - 1 = 2 * n + 1 /\ 2 * k = 2 * n + 2
      BY <2>1
    <3> QED BY <1>9, <2>1, <3>1 DEF a, b
  <2>2. CASE k # n + 1
    <3>1. k \in 1 .. n /\ 2 * k - 1 \in 1 .. 2 * n /\ 2 * k \in 1 .. 2 * n
      BY <2>2
    <3> QED BY <1>8, <1>9, <3>1
  <2> QED BY <2>1, <2>2
<1>12. Shows(t3, mac, n + 1)
  <2>1. Len(new) = 2 * (n + 1)
    BY <1>9
  <2> QED BY <2>1, <1>10, <1>11 DEF Shows
<1> QED BY <1>1, <1>3, <1>12

\* The text of a MAC address shows its bytes.
LEMMA MacShown ==
  ASSUME NEW mac \in Seq(Bytes)
  PROVE  MacText(mac) \in Seq(Chars) /\ Shows(MacText(mac), mac, Len(mac))
<1> DEFINE n == Len(mac)
           front(j) == IF j > 1 THEN <<Colon>> ELSE <<>>
           lists == [j \in 1 .. n |-> front(j) \o Hex(mac[j])]
<1>1. n \in Nat /\ \A j \in 1 .. n : mac[j] \in Bytes
  OBVIOUS
<1>2. ASSUME NEW j \in 1 .. n PROVE lists[j] \in Seq(Chars)
  <2>1. Hex(mac[j]) \in Seq(Chars)
    <3> DEFINE a == Hex(mac[j])[1]
               b == Hex(mac[j])[2]
    <3>1. Hex(mac[j]) = <<a, b>> /\ a \in Chars /\ b \in Chars
      BY <1>1, HexDigits, TextChars
    <3> HIDE DEF a, b
    <3> QED BY <3>1
  <2>2. front(j) \in Seq(Chars)
    BY TextChars
  <2> HIDE DEF front
  <2>3. front(j) \o Hex(mac[j]) \in Seq(Chars)
    BY <2>1, <2>2
  <2> QED BY <2>3
<1>3. lists \in Seq(Seq(Chars)) /\ Len(lists) = n
  <2> DEFINE D == Seq(Chars)
  <2>1. DOMAIN lists = 1 .. n /\ \A j \in 1 .. n : lists[j] \in D
    BY <1>2
  <2>2. lists = [j \in 1 .. n |-> lists[j]]
    OBVIOUS
  <2> HIDE DEF D, lists
  <2>3. lists \in [1 .. n -> D]
    BY <2>1, <2>2
  <2>4. lists \in Seq(D)
    BY <1>1, <2>3
  <2> QED BY <1>1, <2>1, <2>4 DEF D
<1>4. MacText(mac) = FlattenSeq(lists)
  BY DEF MacText
<1>5. \A j \in 1 .. n : lists[j] = front(j) \o Hex(mac[j])
  OBVIOUS
<1> HIDE DEF lists
<1>6. PICK f : Flattens(f, lists, Chars)
  BY <1>3, FlattenSteps
<1>7. /\ f \in [0 .. n -> Seq(Chars)] /\ f[0] = <<>> /\ FlattenSeq(lists) = f[n]
      /\ \A k \in 1 .. n : f[k] = f[k - 1] \o lists[k]
  BY <1>3, <1>6 DEF Flattens
<1> DEFINE T == {k \in 0 .. n : Shows(f[k], mac, k)}
<1>8. 0 \in T
  <2>1. Significant(<<>>) = <<>>
    BY KeptNothing DEF Significant
  <2> QED BY <1>1, <1>7, <2>1 DEF Shows
<1>9. ASSUME NEW k \in 1 .. n, k - 1 \in T PROVE k \in T
  <2>1. k - 1 \in Nat /\ (k - 1) + 1 = k /\ k \in 0 .. n /\ k - 1 \in 0 .. n
    OBVIOUS
  <2>2. f[k - 1] \in Seq(Chars) /\ Shows(f[k - 1], mac, k - 1)
    BY <1>7, <1>9, <2>1
  <2>3. front(k) \in {<<>>, <<Colon>>}
    OBVIOUS
  <2> HIDE DEF front, T
  <2>4. Shows(f[k - 1] \o (front(k) \o Hex(mac[k])), mac, k)
    <3> DEFINE m == k - 1
    <3>1. mac[m + 1] \in Bytes /\ m \in Nat /\ m + 1 = k
      BY <1>1, <2>1
    <3>2. Shows(f[m], mac, m) /\ f[m] \in Seq(Chars)
      BY <2>2
    <3> HIDE DEF m
    <3>3. Shows(f[m] \o (front(k) \o Hex(mac[m + 1])), mac, m + 1)
      BY <2>3, <3>1, <3>2, ShowsOneMore
    <3> QED BY <3>1, <3>3 DEF m
  <2>5. f[k] = f[k - 1] \o (front(k) \o Hex(mac[k]))
    BY <1>5, <1>7
  <2> QED BY <2>1, <2>4, <2>5 DEF T
<1> HIDE DEF T
<1>10. \A k \in 0 .. n : k \in T
  BY <1>1, <1>8, <1>9, UpTo
<1>11. n \in 0 .. n
  BY <1>1
<1> QED BY <1>4, <1>7, <1>10, <1>11 DEF T

\* A MAC address reads back as its bytes.
THEOREM MacReadsBack ==
  ASSUME NEW mac \in Seq(Bytes)
  PROVE  HexStringToByteArray(MacText(mac), Len(mac)) = mac
<1> DEFINE n   == Len(mac)
           str == Significant(MacText(mac))
           bytes == [j \in 1 .. n |-> Stoi(str[2 * j - 1], str[2 * j])]
<1>1. n \in Nat /\ \A j \in 1 .. n : mac[j] \in 0 .. 255
  <2>1. n \in Nat /\ \A j \in 1 .. n : mac[j] \in Bytes
    OBVIOUS
  <2> QED BY <2>1 DEF Bytes
<1>2. /\ Len(str) = 2 * n
      /\ \A j \in 1 .. n : str[2 * j - 1] = Hex(mac[j])[1] /\ str[2 * j] = Hex(mac[j])[2]
  BY MacShown DEF Shows
<1>3. HexStringToByteArray(MacText(mac), n)
        = IF Len(str) # n * 2 \/ Contains(bytes, Invalid) THEN <<>> ELSE bytes
  BY DEF HexStringToByteArray
<1> HIDE DEF str
<1>4. \A j \in 1 .. n : bytes[j] = mac[j]
  <2> TAKE j \in 1 .. n
  <2>1. bytes[j] = Stoi(Hex(mac[j])[1], Hex(mac[j])[2])
    BY <1>2
  <2> QED BY <1>1, <2>1, HexReadsBack
<1>5. DOMAIN bytes = 1 .. n /\ bytes = [j \in 1 .. n |-> bytes[j]]
  OBVIOUS
<1>6. mac = [j \in 1 .. n |-> mac[j]]
  OBVIOUS
<1> HIDE DEF bytes
<1>7. bytes = mac
  BY <1>4, <1>5, <1>6
<1>8. ~Contains(bytes, Invalid)
  <2>1. ASSUME NEW j \in 1 .. n PROVE mac[j] # Invalid
    <3> DEFINE v == mac[j]
    <3>1. v \in 0 .. 255
      BY <1>1
    <3> HIDE DEF v
    <3>2. v # Invalid
      BY <3>1 DEF Invalid
    <3> QED BY <3>2 DEF v
  <2> QED BY <1>7, <2>1 DEF Contains
<1>9. Len(str) = n * 2
  BY <1>1, <1>2
<1> QED BY <1>3, <1>7, <1>8, <1>9

\* Pairs of one list laid out one after the other give the list.
LEMMA PairsFlattened ==
  ASSUME NEW S, NEW n \in Nat, NEW str \in Seq(S), Len(str) = 2 * n
  PROVE  FlattenSeq([j \in 1 .. n |-> <<str[2 * j - 1], str[2 * j]>>]) = str
<1> DEFINE lists == [j \in 1 .. n |-> <<str[2 * j - 1], str[2 * j]>>]
<1>1. ASSUME NEW j \in 1 .. n PROVE str[2 * j - 1] \in S /\ str[2 * j] \in S
  <2>1. 2 * j - 1 \in 1 .. Len(str) /\ 2 * j \in 1 .. Len(str)
    OBVIOUS
  <2> QED BY <2>1
<1>2. \A j \in 1 .. n : lists[j] = <<str[2 * j - 1], str[2 * j]>>
  OBVIOUS
<1>3. lists \in Seq(Seq(S)) /\ Len(lists) = n
  <2> DEFINE D == Seq(S)
  <2>1. ASSUME NEW j \in 1 .. n PROVE lists[j] \in D
    <3> DEFINE a == str[2 * j - 1]
               b == str[2 * j]
    <3>1. a \in S /\ b \in S
      BY <1>1
    <3> HIDE DEF a, b
    <3>2. <<a, b>> \in D
      BY <3>1
    <3> QED BY <3>2 DEF a, b
  <2>2. lists = [j \in 1 .. n |-> lists[j]] /\ DOMAIN lists = 1 .. n
    OBVIOUS
  <2> HIDE DEF D, lists
  <2>3. lists \in [1 .. n -> D]
    BY <2>1, <2>2
  <2>4. lists \in Seq(D)
    BY <2>3
  <2> QED BY <2>2, <2>4 DEF D
<1> HIDE DEF lists
<1>4. PICK f : Flattens(f, lists, S)
  BY <1>3, FlattenSteps
<1>5. /\ f \in [0 .. n -> Seq(S)] /\ f[0] = <<>> /\ FlattenSeq(lists) = f[n]
      /\ \A k \in 1 .. n : f[k] = f[k - 1] \o lists[k]
  BY <1>3, <1>4 DEF Flattens
<1> DEFINE Agrees(k) == Len(f[k]) = 2 * k /\ \A u \in 1 .. 2 * k : f[k][u] = str[u]
           T == {k \in 0 .. n : Agrees(k)}
<1>6. 0 \in T
  BY <1>5
<1>7. ASSUME NEW k \in 1 .. n, k - 1 \in T PROVE k \in T
  <2> DEFINE a == str[2 * k - 1]
             b == str[2 * k]
             s == f[k - 1]
  <2>1. s \in Seq(S) /\ Len(s) = 2 * (k - 1) /\ \A u \in 1 .. 2 * (k - 1) : s[u] = str[u]
    BY <1>5, <1>7
  <2>2. a \in S /\ b \in S
    BY <1>1
  <2>3. f[k] = s \o <<a, b>>
    BY <1>2, <1>5
  <2> HIDE DEF a, b, s
  <2>4. f[k] = Append(Append(s, a), b)
    BY <2>1, <2>2, <2>3, TwoMore
  <2> DEFINE m == k - 1
  <2>5. m \in Nat /\ Len(s) = 2 * m
    BY <2>1
  <2>6. /\ Len(f[k]) = 2 * m + 2 /\ f[k][2 * m + 1] = a /\ f[k][2 * m + 2] = b
        /\ \A j \in 1 .. 2 * m : f[k][j] = s[j]
    <3> HIDE DEF m
    <3> QED BY <2>1, <2>2, <2>4, <2>5, Grown
  <2>7. Len(f[k]) = 2 * k
    BY <2>6
  <2>8. ASSUME NEW u \in 1 .. 2 * k PROVE f[k][u] = str[u]
    <3>1. CASE u = 2 * k - 1
      <4>1. u = 2 * m + 1
        BY <3>1
      <4> QED BY <2>6, <3>1, <4>1 DEF a
    <3>2. CASE u = 2 * k
      <4>1. u = 2 * m + 2
        BY <3>2
      <4> QED BY <2>6, <3>2, <4>1 DEF b
    <3>3. CASE u # 2 * k - 1 /\ u # 2 * k
      <4>1. u \in 1 .. 2 * m
        BY <3>3
      <4> QED BY <2>1, <2>6, <4>1
    <3> QED BY <3>1, <3>2, <3>3
  <2>9. Agrees(k) /\ k \in 0 .. n
    BY <2>7, <2>8
  <2> HIDE DEF Agrees
  <2> QED BY <2>9
<1> HIDE DEF T
<1>8. \A k \in 0 .. n : k \in T
  BY <1>6, <1>7, UpTo
<1>9. f[n] \in Seq(S) /\ Agrees(n)
  BY <1>5, <1>8 DEF T
<1>10. f[n] = str
  BY <1>9, SeqEqual
<1> QED BY <1>5, <1>10 DEF lists

\* What is read from a text spells it, digit by digit.
LEMMA BytesSpell ==
  ASSUME NEW text \in Text
  PROVE  Spells(HexStringToByteArray(text, UuidBytes), text)
<1> DEFINE n   == UuidBytes
           str == Significant(text)
           bytes == [j \in 1 .. n |-> Stoi(str[2 * j - 1], str[2 * j])]
           got == HexStringToByteArray(text, n)
<1>1. n \in Nat
  BY IdentifiersAssumption
<1>2. got = IF Len(str) # n * 2 \/ Contains(bytes, Invalid) THEN <<>> ELSE bytes
  BY DEF HexStringToByteArray
<1>3. str \in Seq(Chars)
  BY KeptType, TextChars DEF Significant
<1> SUFFICES ASSUME \A j \in DOMAIN str : Digit(str[j])
             PROVE  IF Len(str) = 2 * n
                    THEN FlattenSeq([j \in DOMAIN got |-> <<got[j] \div 16, got[j] % 16>>]) = str
                    ELSE got = <<>>
  BY DEF Spells
<1> HIDE DEF str
<1>4. CASE Len(str) # 2 * n
  BY <1>1, <1>2, <1>3, <1>4
<1>5. CASE Len(str) = 2 * n
  <2>1. ASSUME NEW j \in 1 .. n
        PROVE  /\ bytes[j] = 16 * str[2 * j - 1] + str[2 * j]
               /\ str[2 * j - 1] \in 0 .. 15 /\ str[2 * j] \in 0 .. 15
    <3>1. 2 * j - 1 \in DOMAIN str /\ 2 * j \in DOMAIN str
      BY <1>1, <1>3, <1>5
    <3>2. Digit(str[2 * j - 1]) /\ Digit(str[2 * j])
      BY <3>1
    <3> QED BY <3>2, TwoDigits DEF Digit
  <2>2. DOMAIN bytes = 1 .. n
    OBVIOUS
  <2>3. \A j \in 1 .. n : bytes[j] # Invalid
    <3> TAKE j \in 1 .. n
    <3> DEFINE a == str[2 * j - 1]
               b == str[2 * j]
    <3>1. bytes[j] = 16 * a + b /\ a \in 0 .. 15 /\ b \in 0 .. 15
      BY <2>1
    <3> HIDE DEF a, b, bytes
    <3> QED BY <3>1 DEF Invalid
  <2>4. \A j \in 1 .. n : bytes[j] \div 16 = str[2 * j - 1] /\ bytes[j] % 16 = str[2 * j]
    <3> TAKE j \in 1 .. n
    <3> DEFINE a == str[2 * j - 1]
               b == str[2 * j]
    <3>1. bytes[j] = 16 * a + b /\ a \in 0 .. 15 /\ b \in 0 .. 15
      BY <2>1
    <3> HIDE DEF a, b, bytes
    <3>2. (16 * a + b) \div 16 = a /\ (16 * a + b) % 16 = b
      BY <3>1
    <3> QED BY <3>1, <3>2 DEF a, b
  <2>5. Len(bytes) = n
    BY <1>1
  <2> HIDE DEF bytes
  <2>6. got = bytes
    BY <1>1, <1>2, <1>5, <2>3, <2>5 DEF Contains
  <2> HIDE DEF got
  <2>7. [j \in DOMAIN got |-> <<got[j] \div 16, got[j] % 16>>]
          = [j \in 1 .. n |-> <<str[2 * j - 1], str[2 * j]>>]
    BY <2>2, <2>4, <2>6
  <2> QED BY <1>1, <1>3, <1>5, <2>7, PairsFlattened
<1> QED BY <1>4, <1>5


-----------------------------------------------------------------------------
(* What is answered.                                                       *)
Networked == network \in Networks /\ before \in Networks /\ (at = "sized" => before # <<>>)

LEMMA NetworkFacts ==
  ASSUME NEW items \in Networks
  PROVE  /\ items \in Seq(Adapter)
         /\ \A k \in DOMAIN items : Len(items[k].physical) = MacBytes
BY IdentifiersAssumption

LEMMA InitNetworked == IdInit => Networked
BY DEF IdInit, Networked

LEMMA NextNetworked == Networked /\ [IdNext]_idVars => Networked'
<1> SUFFICES ASSUME Networked, [IdNext]_idVars PROVE Networked'
  OBVIOUS
<1> USE DEF Networked
<1>1. CASE Replug
  BY <1>1 DEF Replug
<1>2. CASE AskSize
  BY <1>2 DEF AskSize
<1>3. CASE Fill
  BY <1>3 DEF Fill
<1>4. CASE AskMachineUuidString \/ AskMachineUuid
  BY <1>4 DEF AskMachineUuidString, AskMachineUuid
<1>5. CASE UNCHANGED idVars
  BY <1>5 DEF idVars
<1> QED BY <1>1, <1>2, <1>3, <1>4, <1>5 DEF IdNext

\* An adapter the loop reports is one of the list.
LEMMA KeptFacts ==
  ASSUME NEW items \in Networks, NEW positions
  PROVE  LET kept == Kept(items, positions)
         IN  /\ kept \in Seq(Adapter)
             /\ \A k \in DOMAIN kept : kept[k] \in Adapter /\ Len(kept[k].physical) = MacBytes
<1> DEFINE S == {a \in Adapter : Len(a.physical) = MacBytes}
           kept == Kept(items, positions)
<1>1. items \in Seq(Adapter) /\ \A k \in DOMAIN items : Len(items[k].physical) = MacBytes
  BY NetworkFacts
<1>2. \A k \in 1 .. Len(items) : items[k] \in S
  BY <1>1
<1>3. items \in Seq(S)
  <2>1. /\ Len(items) \in Nat /\ DOMAIN items = 1 .. Len(items)
        /\ items = [k \in 1 .. Len(items) |-> items[k]]
    BY <1>1
  <2> HIDE DEF S
  <2> QED BY <1>2, <2>1
<1>4. kept \in Seq(S)
  <2> HIDE DEF S
  <2> QED BY <1>3, KeptType
<1>5. kept \in Seq(Adapter)
  BY <1>1, KeptType
<1> HIDE DEF kept
<1>6. \A k \in DOMAIN kept : kept[k] \in S
  <2> HIDE DEF S
  <2> QED BY <1>4
<1> QED BY <1>5, <1>6 DEF kept

\* Without its braces a name is a GUID without any.
LEMMA NameWithoutBraces ==
  ASSUME NEW name \in Name
  PROVE  /\ WithoutBraces(name) \in Text
         /\ \A k \in DOMAIN WithoutBraces(name) : WithoutBraces(name)[k] \notin {Open, Close}
<1> DEFINE n == Len(name)
           id == SubSeq(name, 2, n - 1)
<1>1. /\ name \in Seq(Chars) /\ n \in Nat /\ n >= 2 /\ name[1] = Open /\ name[n] = Close
      /\ \A k \in 2 .. n - 1 : name[k] \notin {Open, Close}
  BY TextChars DEF Name, Last
<1>2. \A j \in 2 .. n : name[j] # Open
  <2> TAKE j \in 2 .. n
  <2>1. j = n \/ j \in 2 .. n - 1
    BY <1>1
  <2> QED BY <1>1, <2>1 DEF Open, Close
<1>3. name # <<>>
  BY <1>1
<1>4. WithoutBraces(name) = id
  BY <1>1, <1>2, <1>3 DEF WithoutBraces, Last
<1>5. /\ id \in Seq(Chars) /\ Len(id) = n - 2
      /\ \A k \in 1 .. n - 2 : id[k] = name[k + 1]
  <2>1. \A k \in 2 .. n - 1 : name[k] \in Chars
    BY <1>1
  <2>2. id \in Seq(Chars) /\ Len(id) = (n - 1) - 2 + 1
    <3>1. 2 \in Int /\ n - 1 \in Int
      BY <1>1
    <3>2. id \in Seq(Chars)
      BY <2>1, <3>1, SubSeqProperties
    <3>3. Len(id) = IF 2 <= n - 1 THEN (n - 1) - 2 + 1 ELSE 0
      BY <2>1, <3>1, SubSeqProperties
    <3> HIDE DEF id
    <3>4. n \in Nat /\ n >= 2
      BY <1>1
    <3> HIDE DEF n
    <3>5. CASE 2 <= n - 1
      BY <3>2, <3>3, <3>5
    <3>6. CASE ~(2 <= n - 1)
      <4>1. (n - 1) - 2 + 1 = 0
        BY <3>4, <3>6
      <4> QED BY <3>2, <3>3, <3>6, <4>1
    <3> QED BY <3>5, <3>6
  <2>3. \A k \in 1 .. (n - 1) - 2 + 1 : id[k] = name[2 + k - 1]
    BY <1>1, <2>1, SubSeqProperties
  <2>4. (n - 1) - 2 + 1 = n - 2 /\ \A k \in 1 .. n - 2 : 2 + k - 1 = k + 1
    BY <1>1
  <2> HIDE DEF id
  <2> QED BY <2>2, <2>3, <2>4
<1>6. ASSUME NEW k \in DOMAIN id PROVE id[k] \notin {Open, Close}
  <2>1. k \in 1 .. n - 2
    BY <1>5
  <2>2. k + 1 \in 2 .. n - 1 /\ id[k] = name[k + 1]
    BY <1>1, <1>5, <2>1
  <2> QED BY <1>1, <2>2
<1> QED BY <1>4, <1>5, <1>6, TextChars

\* Every entry of the answer.
Right(a) ==
  /\ HexStringToByteArray(a.mac, MacBytes) = a.macBytes
  /\ Spells(a.uuidBytes, a.uuid)
  /\ \A k \in DOMAIN a.uuid : a.uuid[k] \notin {Open, Close}

LEMMA ListedRight ==
  ASSUME NEW items \in Networks
  PROVE  \A k \in DOMAIN Listed(items) : Right(Listed(items)[k])
<1> DEFINE kept == Kept(items, {k \in DOMAIN items : Reported(items[k])})
<1> TAKE k \in DOMAIN Listed(items)
<1> DEFINE id == WithoutBraces(kept[k].name)
<1>1. /\ k \in DOMAIN kept
      /\ Listed(items)[k] = [mac |-> MacText(kept[k].physical), macBytes |-> kept[k].physical,
                            uuid |-> id, uuidBytes |-> HexStringToByteArray(id, UuidBytes)]
  BY DEF Listed
<1>2. kept[k] \in Adapter /\ Len(kept[k].physical) = MacBytes
  BY <1>1, KeptFacts
<1> HIDE DEF kept
<1>3. kept[k].physical \in Seq(Bytes) /\ kept[k].name \in Name
  BY <1>2 DEF Adapter, Bytes
<1>4. HexStringToByteArray(MacText(kept[k].physical), MacBytes) = kept[k].physical
  BY <1>2, <1>3, MacReadsBack
<1>5. id \in Text /\ \A j \in DOMAIN id : id[j] \notin {Open, Close}
  BY <1>3, NameWithoutBraces
<1>6. Spells(HexStringToByteArray(id, UuidBytes), id)
  BY <1>5, BytesSpell
<1> HIDE DEF id
<1> QED BY <1>1, <1>4, <1>5, <1>6 DEF Right

\* What has been answered names one machine, as text and as bytes.
AnswersRight ==
  /\ adapters # Unasked => \A k \in DOMAIN adapters : Right(adapters[k])
  /\ registry \in Registries \cup {<<>>}
  /\ uuid = [text |-> uuid.text, read |-> uuid.read, bytes |-> uuid.bytes]
  /\ uuid.text \in {Unasked, registry, <<>>}
  /\ uuid.bytes # Unasked =>
       /\ uuid.read \in {registry, <<>>}
       /\ Spells(uuid.bytes, uuid.read) /\ Len(uuid.bytes) \in {0, UuidBytes}

LEMMA NextRight == Networked /\ AnswersRight /\ [IdNext]_idVars => AnswersRight'
<1> SUFFICES ASSUME Networked, AnswersRight, [IdNext]_idVars PROVE AnswersRight'
  OBVIOUS
<1>1. CASE Replug
  BY <1>1 DEF Replug, AnswersRight
<1>2. CASE AskSize
  BY <1>2 DEF AskSize, AnswersRight
<1>3. CASE Fill
  <2>1. \A k \in DOMAIN Listed(network) : Right(Listed(network)[k])
    BY ListedRight DEF Networked
  <2>2. \A k \in DOMAIN adapters' : Right(adapters'[k])
    BY <1>3, <2>1 DEF Fill
  <2> QED BY <1>3, <2>2 DEF Fill, AnswersRight
<1>4. CASE AskMachineUuid
  <2>0. PICK text \in Reads :
          uuid' = [uuid EXCEPT !.read = text, !.bytes = HexStringToByteArray(text, UuidBytes)]
    BY <1>4 DEF AskMachineUuid
  <2>1. /\ uuid' = [text |-> uuid'.text, read |-> uuid'.read, bytes |-> uuid'.bytes]
        /\ uuid'.text = uuid.text /\ uuid'.read = text
        /\ uuid'.bytes = HexStringToByteArray(text, UuidBytes)
    BY <2>0 DEF AnswersRight
  <2>2. text \in Text
    <3>1. <<>> \in Seq(Chars)
      OBVIOUS
    <3>2. Registries \subseteq Text /\ <<>> \in Text
      BY <3>1, IdentifiersAssumption, TextChars
    <3> QED BY <3>2 DEF AnswersRight, Reads
  <2>3. Spells(uuid'.bytes, uuid'.read)
    BY <2>1, <2>2, BytesSpell
  <2>4. uuid'.bytes \in ByteLists(UuidBytes)
    BY <2>1, ReadsBytes, IdentifiersAssumption
  <2>5. Len(uuid'.bytes) \in {0, UuidBytes}
    <3> DEFINE b == uuid'.bytes
    <3>1. b = <<>> \/ b \in [1 .. UuidBytes -> 0 .. 255]
      BY <2>4 DEF ByteLists
    <3>2. UuidBytes \in Nat
      BY IdentifiersAssumption
    <3> HIDE DEF b
    <3>3. b \in [1 .. UuidBytes -> 0 .. 255] => Len(b) = UuidBytes
      BY <3>2
    <3>4. Len(b) \in {0, UuidBytes}
      BY <3>1, <3>3
    <3> QED BY <3>4 DEF b
  <2>6. UNCHANGED <<adapters, registry>>
    BY <1>4 DEF AskMachineUuid
  <2> QED BY <2>1, <2>3, <2>5, <2>6 DEF AnswersRight, Reads
<1>5. CASE AskMachineUuidString
  <2>1. PICK text \in Reads : uuid' = [uuid EXCEPT !.text = text]
    BY <1>5 DEF AskMachineUuidString
  <2>2. /\ uuid' = [text |-> uuid'.text, read |-> uuid'.read, bytes |-> uuid'.bytes]
        /\ uuid'.text = text /\ uuid'.read = uuid.read /\ uuid'.bytes = uuid.bytes
    BY <2>1 DEF AnswersRight
  <2>3. UNCHANGED <<adapters, registry>>
    BY <1>5 DEF AskMachineUuidString
  <2> QED BY <2>2, <2>3 DEF AnswersRight, Reads
<1>6. CASE UNCHANGED idVars
  BY <1>6 DEF idVars, AnswersRight
<1> QED BY <1>1, <1>2, <1>3, <1>4, <1>5, <1>6 DEF IdNext

\* Text and bytes of an identifier never name different machines, whatever
\* adapters there are, however long addresses and UUIDs are and whatever the
\* registry holds.
THEOREM TextAlwaysMatchesBytes == IdSpec => []TextMatchesBytes
<1>1. IdInit => AnswersRight
  BY DEF IdInit, AnswersRight
<1>2. AnswersRight => TextMatchesBytes
  BY DEF AnswersRight, TextMatchesBytes, Right
<1> QED BY <1>1, <1>2, InitNetworked, NextNetworked, NextRight, PTL DEF IdSpec

\* An address of MacBytes bytes is reported if one of them is not zero: the two
\* ways of saying which adapters are wanted agree.
LEMMA ReportedIsWanted ==
  ASSUME NEW items \in Networks
  PROVE  Wanted(items) = Kept(items, {k \in DOMAIN items : Reported(items[k])})
<1>1. ASSUME NEW k \in DOMAIN items
      PROVE  items[k].physical # [j \in 1 .. MacBytes |-> 0]
               <=> \E j \in DOMAIN items[k].physical : items[k].physical[j] # 0
  <2> DEFINE mac == items[k].physical
  <2>1. mac \in Seq(Bytes) /\ Len(mac) = MacBytes
    <3>1. items[k] \in Adapter /\ Len(items[k].physical) = MacBytes
      BY NetworkFacts
    <3> QED BY <3>1 DEF Adapter, Bytes
  <2>2. DOMAIN mac = 1 .. MacBytes /\ mac = [j \in 1 .. MacBytes |-> mac[j]]
    BY <2>1
  <2> HIDE DEF mac
  <2>3. mac = [j \in 1 .. MacBytes |-> 0] <=> \A j \in 1 .. MacBytes : mac[j] = 0
    BY <2>2
  <2>4. mac # [j \in 1 .. MacBytes |-> 0] <=> \E j \in DOMAIN mac : mac[j] # 0
    BY <2>2, <2>3
  <2> QED BY <2>4 DEF mac
<1>2. {k \in DOMAIN items : ~items[k].loopback /\ items[k].physical # [j \in 1 .. MacBytes |-> 0]}
        = {k \in DOMAIN items : Reported(items[k])}
  BY <1>1 DEF Reported
<1> QED BY <1>2 DEF Wanted

\* The adapters reported are those of one moment of the call, or none if there are
\* none or the list outgrew its buffer, for any networks and any number of changes.
THEOREM OneMomentAlways == IdSpec => OneMoment
<1>1. Networked /\ [IdNext]_idVars => [at = "sized" /\ at' = "idle" => Told(adapters')]_idVars
  <2> SUFFICES ASSUME Networked, IdNext, at = "sized", at' = "idle" PROVE Told(adapters')
    OBVIOUS
  <2>1. Fill
    BY DEF IdNext, Replug, AskSize, AskMachineUuidString, AskMachineUuid
  <2>2. /\ network \in Networks /\ before \in Networks /\ before # <<>>
        /\ Room(network) \in Nat /\ Room(before) \in Nat
    BY NetworkFacts, RoomIsNat DEF Networked
  <2>3. CASE Room(network) > Room(before) \/ network = <<>>
    <3>1. adapters' = <<>>
      BY <2>1, <2>3 DEF Fill
    <3> QED BY <2>3, <3>1 DEF Told
  <2>4. CASE ~(Room(network) > Room(before) \/ network = <<>>)
    <3> DEFINE kept == Kept(network, {k \in DOMAIN network : Reported(network[k])})
    <3>1. adapters' = Listed(network)
      BY <2>1, <2>4 DEF Fill
    <3>2. /\ DOMAIN adapters' = DOMAIN kept
          /\ \A k \in DOMAIN kept : adapters'[k].macBytes = kept[k].physical
      BY <3>1 DEF Listed
    <3>3. kept = Wanted(network)
      BY <2>2, ReportedIsWanted
    <3> HIDE DEF kept
    <3>4. [k \in DOMAIN adapters' |-> adapters'[k].macBytes]
            = [k \in DOMAIN Wanted(network) |-> Wanted(network)[k].physical]
      BY <3>2, <3>3
    <3> QED BY <3>4 DEF Told
  <2> QED BY <2>3, <2>4
<1> QED BY <1>1, InitNetworked, NextNetworked, PTL DEF IdSpec, OneMoment
=============================================================================
