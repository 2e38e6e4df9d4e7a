-------------------------- MODULE HardDrivesProofs --------------------------
(***************************************************************************)
(* What is proved of HardDrives, for any number of threads, calls and      *)
(* disks: the apartments, the references and the lists of GetHardDriveInfo.*)
(***************************************************************************)
EXTENDS HardDrives, FiniteSetTheorems, SequenceTheorems, TLAPS

\* The scope exits that may be waiting to run.
Stacks ==
  { <<>>, <<"com">>, <<"com", "pLoc">>, <<"com", "pLoc", "pSvc">>,
    <<"com", "pLoc", "pSvc", "pclsObj">> }
Taken == {"pLoc", "pSvc", "pEnumerator"}

\* Where the list stands of a call x that is over but for its scope exits.
Ended(x, these) ==
  \E n \in IF x.faulted THEN 0 .. Len(these) ELSE {0, Len(these)} : DrivesAmong(x.drives, these, n)

(* What a call has armed, holds and has listed, by where it is.             *)
OnLadder(x) ==
  /\ x.n = 0 /\ x.drives = <<>> /\ ~x.faulted /\ ~x.thrown
  /\ x.step \in 1 .. 5
  /\ x.step \in {1, 2} => x.armed = <<"com">> /\ x.held = {}
  /\ x.step = 3 => x.armed = <<"com">> /\ x.held = {"pLoc"}
  /\ x.step = 4 => x.armed = <<"com", "pLoc">> /\ x.held = {"pLoc", "pSvc"}
  /\ x.step = 5 => x.armed = <<"com", "pLoc", "pSvc">> /\ x.held = {"pLoc", "pSvc"}
Fetching(x, these) ==
  /\ x.armed = <<"com", "pLoc", "pSvc">> /\ x.held = Taken
  /\ ~x.faulted /\ ~x.thrown /\ DrivesAmong(x.drives, these, x.n)
Reading(x, these) ==
  /\ x.armed = <<"com", "pLoc", "pSvc", "pclsObj">> /\ x.held = Taken \cup {"pclsObj"}
  /\ x.n > 0 /\ ~x.faulted /\ ~x.thrown /\ DrivesAmong(x.drives, these, x.n - 1)
Leaving(x, these) ==
  /\ x.armed \in Stacks
  /\ \E y \in References \cup {"pEnumerator"} : x.held \subseteq ToSet(x.armed) \cup {y}
  /\ Ended(x, these)

Place(place, x, these) ==
  /\ place = "host"   => x = Idle
  /\ place = "climb"  => OnLadder(x)
  /\ place = "next"   => Fetching(x, these)
  /\ place = "object" => Reading(x, these)
  /\ place = "exit"   => Leaving(x, these)

\* A call that has not returned may still lose a reference.
Balances(t) ==
  /\ apartments[t] = HostOpens(t) + IF c[t].armed = <<>> THEN 0 ELSE 1
  /\ leaked[t] + (IF pc[t] = "host" THEN 0 ELSE 1) <= calls[t]

CallsInv == \A t \in Threads : Place(pc[t], c[t], disks) /\ Balances(t)
IInv == TypeOK /\ CallsInv /\ AllOrNothing

-----------------------------------------------------------------------------
(* Lemmas about stacks of scope exits and about lists of drives.            *)
LEMMA StackShapes ==
  /\ ToSet(<<"com">>) = {"com"}
  /\ ToSet(<<"com", "pLoc">>) = {"com", "pLoc"}
  /\ ToSet(<<"com", "pLoc", "pSvc">>) = {"com", "pLoc", "pSvc"}
  /\ ToSet(<<"com", "pLoc", "pSvc", "pclsObj">>) = {"com", "pLoc", "pSvc", "pclsObj"}
  /\ ToSet(<<>>) = {}
BY DEF ToSet

LEMMA StackTops ==
  /\ Innermost(<<"com">>) = [runs |-> "com", left |-> <<>>]
  /\ Innermost(<<"com", "pLoc">>) = [runs |-> "pLoc", left |-> <<"com">>]
  /\ Innermost(<<"com", "pLoc", "pSvc">>) = [runs |-> "pSvc", left |-> <<"com", "pLoc">>]
  /\ Innermost(<<"com", "pLoc", "pSvc", "pclsObj">>)
       = [runs |-> "pclsObj", left |-> <<"com", "pLoc", "pSvc">>]
BY DEF Innermost, Last, Front

LEMMA StackDepths ==
  /\ <<"com">> \in Stacks \ {<<>>}
  /\ <<"com", "pLoc">> \in Stacks \ {<<>>}
  /\ <<"com", "pLoc", "pSvc">> \in Stacks \ {<<>>}
  /\ <<"com", "pLoc", "pSvc", "pclsObj">> \in Stacks \ {<<>>}
BY DEF Stacks

LEMMA GrowsTo ==
  ASSUME NEW S, NEW s \in Seq(S), NEW e \in S, NEW longer \in Seq(S),
         Len(longer) = Len(s) + 1, longer[Len(s) + 1] = e, \A i \in 1 .. Len(s) : longer[i] = s[i]
  PROVE  Append(s, e) = longer /\ s \o <<e>> = longer
<1> DEFINE more == Append(s, e)
<1>1. /\ more \in Seq(S) /\ Len(more) = Len(s) + 1 /\ more[Len(s) + 1] = e
      /\ \A i \in 1 .. Len(s) : more[i] = s[i]
  BY AppendProperties
<1>2. more = s \o <<e>>
  BY AppendIsConcat
<1> HIDE DEF more
<1>3. \A i \in 1 .. Len(more) : more[i] = longer[i]
  BY <1>1
<1>4. more = longer
  BY <1>1, <1>3, SeqEqual
<1> QED BY <1>2, <1>4 DEF more

LEMMA StackGrowth ==
  /\ <<"com">> \o <<>> = <<"com">>
  /\ <<"com">> \o <<"pLoc">> = <<"com", "pLoc">>
  /\ <<"com", "pLoc">> \o <<"pSvc">> = <<"com", "pLoc", "pSvc">>
  /\ <<"com", "pLoc", "pSvc">> \o <<>> = <<"com", "pLoc", "pSvc">>
  /\ Append(<<"com", "pLoc", "pSvc">>, "pclsObj") = <<"com", "pLoc", "pSvc", "pclsObj">>
<1> DEFINE S == {"com", "pLoc", "pSvc", "pclsObj"}
           one == <<"com">>
           two == <<"com", "pLoc">>
           three == <<"com", "pLoc", "pSvc">>
           four == <<"com", "pLoc", "pSvc", "pclsObj">>
<1>1. one \in Seq(S) /\ Len(one) = 1 /\ one[1] = "com"
  OBVIOUS
<1>2. two \in Seq(S) /\ Len(two) = 2 /\ two[1] = "com" /\ two[2] = "pLoc"
  OBVIOUS
<1>3. three \in Seq(S) /\ Len(three) = 3 /\ three[1] = "com" /\ three[2] = "pLoc"
      /\ three[3] = "pSvc"
  OBVIOUS
<1>4. four \in Seq(S) /\ Len(four) = 4 /\ four[1] = "com" /\ four[2] = "pLoc"
      /\ four[3] = "pSvc" /\ four[4] = "pclsObj"
  OBVIOUS
<1>5. "pLoc" \in S /\ "pSvc" \in S /\ "pclsObj" \in S
  OBVIOUS
<1> HIDE DEF S, one, two, three, four
<1>6. one \o <<"pLoc">> = two
  <2>1. Len(two) = Len(one) + 1 /\ two[Len(one) + 1] = "pLoc"
        /\ \A i \in 1 .. Len(one) : two[i] = one[i]
    BY <1>1, <1>2
  <2> QED BY <1>1, <1>2, <1>5, <2>1, GrowsTo
<1>7. two \o <<"pSvc">> = three
  <2>1. Len(three) = Len(two) + 1 /\ three[Len(two) + 1] = "pSvc"
        /\ \A i \in 1 .. Len(two) : three[i] = two[i]
    BY <1>2, <1>3
  <2> QED BY <1>2, <1>3, <1>5, <2>1, GrowsTo
<1>8. Append(three, "pclsObj") = four
  <2>1. Len(four) = Len(three) + 1 /\ four[Len(three) + 1] = "pclsObj"
        /\ \A i \in 1 .. Len(three) : four[i] = three[i]
    BY <1>3, <1>4
  <2> QED BY <1>3, <1>4, <1>5, <2>1, GrowsTo
<1>9. one \o <<>> = one /\ three \o <<>> = three
  BY <1>1, <1>3, ConcatEmptySeq
<1> QED BY <1>6, <1>7, <1>8, <1>9 DEF one, two, three, four

LEMMA StacksTyped == Stacks \subseteq Seq(References \cup {"com"})
<1> DEFINE S == References \cup {"com"}
<1>1. "com" \in S /\ "pLoc" \in S /\ "pSvc" \in S /\ "pclsObj" \in S
  BY DEF References
<1> HIDE DEF S
<1>2. <<>> \in Seq(S) /\ <<"com">> \in Seq(S)
  BY <1>1
<1>3. <<"com", "pLoc">> \in Seq(S) /\ <<"com", "pLoc", "pSvc">> \in Seq(S)
  BY <1>1
<1>4. <<"com", "pLoc", "pSvc", "pclsObj">> \in Seq(S)
  BY <1>1
<1> QED BY <1>2, <1>3, <1>4 DEF Stacks, S

LEMMA NoDrives == ASSUME NEW these PROVE DrivesAmong(<<>>, these, 0)
<1> DEFINE nowhere == [k \in DOMAIN <<>> |-> 0]
<1>1. DOMAIN <<>> = {} /\ nowhere \in [DOMAIN <<>> -> 1 .. 0]
  OBVIOUS
<1> HIDE DEF nowhere
<1>2. \A m \in 1 .. 0 : FALSE
  OBVIOUS
<1> QED BY <1>1, <1>2 DEF DrivesAmong

LEMMA OneMore ==
  ASSUME NEW list \in Seq(Disks), NEW these \in Seq(Disks), NEW n \in 1 .. Len(these),
         DrivesAmong(list, these, n - 1)
  PROVE  DrivesAmong(List(list, these[n]), these, n)
<1>1. PICK place \in [DOMAIN list -> 1 .. n - 1] :
        /\ \A i, k \in DOMAIN list : i < k => place[i] < place[k]
        /\ \A k \in DOMAIN list : list[k] = these[place[k]]
        /\ \A m \in 1 .. n - 1 : IsDrive(these[m]) <=> \E k \in DOMAIN list : place[k] = m
  BY DEF DrivesAmong
<1>2. DOMAIN list = 1 .. Len(list) /\ Len(list) \in Nat
  OBVIOUS
<1>3. CASE ~IsDrive(these[n])
  <2>1. List(list, these[n]) = list
    BY <1>3 DEF List
  <2>2. place \in [DOMAIN list -> 1 .. n]
    OBVIOUS
  <2>3. \A m \in 1 .. n : IsDrive(these[m]) <=> \E k \in DOMAIN list : place[k] = m
    <3> TAKE m \in 1 .. n
    <3>1. CASE m \in 1 .. n - 1
      BY <1>1, <3>1
    <3>2. CASE m = n
      BY <1>1, <1>3, <3>2
    <3> QED BY <3>1, <3>2
  <2>4. DrivesAmong(list, these, n)
    BY <1>1, <2>2, <2>3 DEF DrivesAmong
  <2> QED BY <2>1, <2>4
<1>4. CASE IsDrive(these[n])
  <2> DEFINE longer == List(list, these[n])
             there  == [k \in DOMAIN longer |-> IF k \in DOMAIN list THEN place[k] ELSE n]
  <2>1. longer = Append(list, these[n])
    BY <1>4 DEF List
  <2>2. /\ DOMAIN longer = 1 .. Len(list) + 1
        /\ longer[Len(list) + 1] = these[n]
        /\ \A k \in 1 .. Len(list) : longer[k] = list[k]
    BY <2>1
  <2> HIDE DEF longer
  <2>3. there \in [DOMAIN longer -> 1 .. n]
    BY <1>1, <1>2, <2>2
  <2>4. \A i, k \in DOMAIN longer : i < k => there[i] < there[k]
    BY <1>1, <1>2, <2>2
  <2>5. \A k \in DOMAIN longer : longer[k] = these[there[k]]
    BY <1>1, <1>2, <2>2
  <2>6. \A m \in 1 .. n : IsDrive(these[m]) <=> \E k \in DOMAIN longer : there[k] = m
    <3> TAKE m \in 1 .. n
    <3>1. CASE m \in 1 .. n - 1
      BY <1>1, <1>2, <2>2, <3>1
    <3>2. CASE m = n
      <4>1. Len(list) + 1 \in DOMAIN longer /\ there[Len(list) + 1] = n
        BY <1>2, <2>2
      <4> QED BY <1>4, <3>2, <4>1
    <3> QED BY <3>1, <3>2
  <2> QED BY <2>3, <2>4, <2>5, <2>6 DEF DrivesAmong, longer
<1> QED BY <1>3, <1>4

-----------------------------------------------------------------------------
(* The invariant that is inductive.                                         *)
CallType ==
  [step : 1 .. 6, armed : Seq(References \cup {"com"}),
   held : SUBSET (References \cup {"pEnumerator"}), n : 0 .. Len(disks),
   drives : Seq(Disks), faulted : BOOLEAN, thrown : BOOLEAN]

LEMMA Rungs ==
  /\ Len(Ladder) = 5
  /\ Ladder[1] = [gets |-> {},              arms |-> <<>>]
  /\ Ladder[2] = [gets |-> {"pLoc"},        arms |-> <<>>]
  /\ Ladder[3] = [gets |-> {"pSvc"},        arms |-> <<"pLoc">>]
  /\ Ladder[4] = [gets |-> {},              arms |-> <<"pSvc">>]
  /\ Ladder[5] = [gets |-> {"pEnumerator"}, arms |-> <<>>]
BY DEF Ladder

LEMMA Typed ==
  ASSUME TypeOK
  PROVE  /\ c \in [Threads -> CallType]
         /\ disks \in Seq(Disks) /\ Len(disks) \in Nat
<1>1. disks \in Seq(Disks)
  BY DrivesAssumption DEF TypeOK
<1> QED BY <1>1, Rungs DEF TypeOK, CallType

LEMMA IdleTyped == ASSUME Len(disks) \in Nat PROVE Idle \in CallType
<1>1. <<>> \in Seq(Disks) /\ <<>> \in Seq(References \cup {"com"})
  OBVIOUS
<1> QED BY <1>1 DEF Idle, CallType

LEMMA InitDrives == Init => IInv
<1> SUFFICES ASSUME Init PROVE IInv
  OBVIOUS
<1>1. disks \in Seq(Disks) /\ Len(disks) \in Nat
  BY DrivesAssumption DEF Init
<1>2. c \in [Threads -> CallType]
  BY <1>1, IdleTyped DEF Init
<1>3. \A t \in Threads : HostOpens(t) \in 0 .. 2
  BY DEF Init, HostOpens
<1>4. TypeOK
  <2>1. c \in [Threads -> [step : 1 .. Len(Ladder) + 1, armed : Seq(References \cup {"com"}),
                           held : SUBSET (References \cup {"pEnumerator"}), n : 0 .. Len(disks),
                           drives : Seq(Disks), faulted : BOOLEAN, thrown : BOOLEAN]]
    <3>1. 1 .. Len(Ladder) + 1 = 1 .. 6
      BY Rungs
    <3> QED BY <1>2, <3>1 DEF CallType
  <2>2. answers \in [Threads -> SUBSET [drives : Seq(Disks), faulted : BOOLEAN]]
    BY DEF Init
  <2>3. security \in BOOLEAN /\ forgets \in BOOLEAN /\ overlapped \in BOOLEAN
    BY DEF Init
  <2>4. /\ apartments \in [Threads -> 0 .. 2] /\ calls \in [Threads -> 0 .. MaxCalls]
        /\ leaked \in [Threads -> Nat]
    BY <1>3, DrivesAssumption DEF Init
  <2>5. /\ disks \in Machines /\ own \in [Threads -> {"none", "mta", "sta"}]
        /\ pc \in [Threads -> {"host", "climb", "next", "object", "exit"}]
    BY DEF Init
  <2> QED BY <2>1, <2>2, <2>3, <2>4, <2>5 DEF TypeOK
<1>5. CallsInv
  BY <1>3 DEF Init, CallsInv, Place, Balances, Idle
<1> QED BY <1>4, <1>5 DEF Init, IInv, AllOrNothing

\* What a step of t must establish for t alone.
KeptPlace(t) ==
  /\ c'[t] \in CallType /\ pc'[t] \in {"host", "climb", "next", "object", "exit"}
  /\ Place(pc'[t], c'[t], disks)
KeptCounts(t) ==
  /\ apartments'[t] \in 0 .. 2 /\ calls'[t] \in 0 .. MaxCalls /\ leaked'[t] \in Nat
  /\ apartments'[t] = HostOpens(t) + IF c'[t].armed = <<>> THEN 0 ELSE 1
  /\ leaked'[t] + (IF pc'[t] = "host" THEN 0 ELSE 1) <= calls'[t]
KeptAnswers(t) ==
  \A x \in answers'[t] : x \in [drives : Seq(Disks), faulted : BOOLEAN] /\ Ended(x, disks)
Kept(t) == KeptPlace(t) /\ KeptCounts(t) /\ KeptAnswers(t)

LEMMA CoInitializeKeeps == ASSUME IInv, NEW t \in Threads, CoInitialize(t) PROVE Kept(t)
<1>1. TypeOK /\ c[t] = Idle /\ apartments[t] = HostOpens(t) /\ leaked[t] <= calls[t]
  <2>1. TypeOK /\ Place(pc[t], c[t], disks) /\ Balances(t) /\ pc[t] = "host"
    BY DEF IInv, CallsInv, CoInitialize, Enter
  <2>2. c[t] = Idle
    BY <2>1 DEF Place
  <2>3. c[t].armed = <<>>
    BY <2>2 DEF Idle
  <2>4. HostOpens(t) \in Nat /\ leaked[t] \in Nat
    BY <2>1 DEF HostOpens, TypeOK
  <2> QED BY <2>1, <2>2, <2>3, <2>4 DEF Balances
<1>2. /\ calls'[t] = calls[t] + 1 /\ calls'[t] \in 0 .. MaxCalls /\ leaked'[t] = leaked[t]
      /\ calls[t] \in Nat /\ leaked[t] \in Nat /\ answers' = answers
  BY <1>1, DrivesAssumption DEF TypeOK, CoInitialize, Enter
<1>3. KeptAnswers(t)
  BY <1>1, <1>2 DEF KeptAnswers, TypeOK, IInv, AllOrNothing, Ended
<1>4. CASE pc'[t] = "exit" /\ c'[t] = [Idle EXCEPT !.faulted = TRUE] /\ UNCHANGED apartments
  <2>1. c'[t] \in CallType /\ c'[t].armed = <<>> /\ c'[t].held = {} /\ c'[t].drives = <<>>
        /\ c'[t].faulted
    BY <1>1, <1>4, IdleTyped, Typed DEF CallType, Idle
  <2>2. Leaving(c'[t], disks)
    BY <2>1, <1>1, NoDrives, Typed DEF Leaving, Stacks, Ended, References
  <2>3. apartments'[t] \in 0 .. 2 /\ apartments'[t] = HostOpens(t) + 0
    BY <1>1, <1>4 DEF TypeOK
  <2>4. KeptCounts(t)
    BY <1>1, <1>2, <1>4, <2>1, <2>3 DEF KeptCounts
  <2>5. KeptPlace(t)
    BY <1>4, <2>1, <2>2 DEF KeptPlace, Place
  <2> QED BY <1>3, <2>4, <2>5 DEF Kept
<1>5. CASE /\ pc'[t] = "climb" /\ c'[t] = [Idle EXCEPT !.armed = <<"com">>] /\ own[t] # "sta"
           /\ apartments'[t] = apartments[t] + 1
  <2> <<"com">> \in Seq(References \cup {"com"})
    OBVIOUS
  <2>1. c'[t] \in CallType /\ c'[t].armed = <<"com">>
    BY <1>1, <1>5, IdleTyped, Typed DEF CallType, Idle
  <2>2. OnLadder(c'[t])
    BY <1>5 DEF OnLadder, Idle
  <2>3. HostOpens(t) \in 0 .. 1
    BY <1>1 DEF HostOpens
  <2>4. KeptCounts(t)
    BY <1>1, <1>2, <1>5, <2>1, <2>3 DEF KeptCounts
  <2>5. KeptPlace(t)
    BY <1>5, <2>1, <2>2 DEF KeptPlace, Place
  <2> QED BY <1>3, <2>4, <2>5 DEF Kept
<1> QED BY <1>1, <1>4, <1>5 DEF CoInitialize, Goto, TypeOK

LEMMA SameCounts ==
  ASSUME IInv, NEW t \in Threads, UNCHANGED <<apartments, history>>,
         pc[t] # "host", pc'[t] # "host", c'[t].armed = <<>> <=> c[t].armed = <<>>
  PROVE  KeptCounts(t) /\ KeptAnswers(t)
<1>1. KeptAnswers(t)
  BY DEF history, KeptAnswers, TypeOK, IInv, AllOrNothing, Ended
<1>2. KeptCounts(t)
  BY DEF history, KeptCounts, TypeOK, IInv, CallsInv, Balances
<1> QED BY <1>1, <1>2

\* Wherever a call is left, at most one reference has no scope exit armed.
LEMMA OneUnguarded ==
  ASSUME NEW x, NEW these, OnLadder(x) \/ Fetching(x, these) \/ Reading(x, these)
  PROVE  /\ x.armed \in Stacks /\ x.armed # <<>>
         /\ \E y \in References \cup {"pEnumerator"} : x.held \subseteq ToSet(x.armed) \cup {y}
<1>1. CASE OnLadder(x)
  BY <1>1, StackShapes DEF OnLadder, Stacks, References
<1>2. CASE Fetching(x, these)
  BY <1>2, StackShapes DEF Fetching, Stacks, References, Taken
<1>3. CASE Reading(x, these)
  BY <1>3, StackShapes DEF Reading, Stacks, References, Taken
<1> QED BY <1>1, <1>2, <1>3

\* A call that fails leaves with what it has.
LEMMA FailKeeps ==
  ASSUME IInv, NEW t \in Threads, pc[t] \in {"climb", "next", "object"},
         NEW thrown \in BOOLEAN, pc'[t] = "exit",
         c'[t] = [c[t] EXCEPT !.faulted = TRUE, !.thrown = thrown],
         UNCHANGED <<apartments, history>>
  PROVE  Kept(t)
<1>1. /\ c[t] \in CallType /\ Place(pc[t], c[t], disks) /\ disks \in Seq(Disks)
      /\ Len(disks) \in Nat
  BY Typed DEF IInv, CallsInv
<1>2. /\ c'[t] \in CallType /\ c'[t].armed = c[t].armed /\ c'[t].held = c[t].held
      /\ c'[t].drives = c[t].drives /\ c'[t].faulted
  BY <1>1 DEF CallType
<1>3. \E n \in 0 .. Len(disks) : DrivesAmong(c[t].drives, disks, n)
  <2>1. c[t].n \in 0 .. Len(disks)
    BY <1>1 DEF CallType
  <2>2. CASE pc[t] = "climb"
    BY <1>1, <2>2, NoDrives DEF Place, OnLadder
  <2>3. CASE pc[t] = "next"
    BY <1>1, <2>1, <2>3 DEF Place, Fetching
  <2>4. CASE pc[t] = "object"
    <3>1. c[t].n - 1 \in 0 .. Len(disks) /\ DrivesAmong(c[t].drives, disks, c[t].n - 1)
      BY <1>1, <2>1, <2>4 DEF Place, Reading
    <3> QED BY <3>1
  <2> QED BY <2>2, <2>3, <2>4
<1>4. OnLadder(c[t]) \/ Fetching(c[t], disks) \/ Reading(c[t], disks)
  BY <1>1 DEF Place
<1>5. /\ c[t].armed \in Stacks /\ c[t].armed # <<>>
      /\ \E y \in References \cup {"pEnumerator"} : c[t].held \subseteq ToSet(c[t].armed) \cup {y}
  BY <1>4, OneUnguarded
<1>6. KeptPlace(t)
  BY <1>2, <1>3, <1>5 DEF KeptPlace, Place, Leaving, Ended
<1> QED BY <1>2, <1>5, <1>6, SameCounts DEF Kept


\* A rung climbed leads to the next, the last one to the list.
LEMMA OneRung ==
  ASSUME NEW x, NEW y, NEW these, OnLadder(x), y.step = x.step + 1, x.step \in 1 .. 5,
         y.held = x.held \cup Ladder[x.step].gets, y.armed = x.armed \o Ladder[x.step].arms,
         y.n = 0, y.drives = <<>>, ~y.faulted, ~y.thrown
  PROVE  /\ y.armed \in Stacks /\ y.armed # <<>>
         /\ y.held \subseteq References \cup {"pEnumerator"}
         /\ x.step < 5 => OnLadder(y)
         /\ x.step = 5 => Fetching(y, these)
<1>1. CASE x.step = 1
  <2>1. y.step = 2 /\ y.held = {} /\ y.armed = <<"com">>
    BY <1>1, Rungs, StackGrowth DEF OnLadder
  <2>2. OnLadder(y)
    BY <2>1 DEF OnLadder
  <2>3. y.armed \in Stacks /\ y.armed # <<>> /\ y.held \subseteq References \cup {"pEnumerator"}
    BY <2>1, StackDepths DEF References
  <2> QED BY <1>1, <2>2, <2>3
<1>2. CASE x.step = 2
  <2>1. y.step = 3 /\ y.held = {"pLoc"} /\ y.armed = <<"com">>
    BY <1>2, Rungs, StackGrowth DEF OnLadder
  <2>2. OnLadder(y)
    BY <2>1 DEF OnLadder
  <2>3. y.armed \in Stacks /\ y.armed # <<>> /\ y.held \subseteq References \cup {"pEnumerator"}
    BY <2>1, StackDepths DEF References
  <2> QED BY <1>2, <2>2, <2>3
<1>3. CASE x.step = 3
  <2>1. y.step = 4 /\ y.held = {"pLoc", "pSvc"} /\ y.armed = <<"com", "pLoc">>
    BY <1>3, Rungs, StackGrowth DEF OnLadder
  <2>2. OnLadder(y)
    BY <2>1 DEF OnLadder
  <2>3. y.armed \in Stacks /\ y.armed # <<>> /\ y.held \subseteq References \cup {"pEnumerator"}
    BY <2>1, StackDepths DEF References
  <2> QED BY <1>3, <2>2, <2>3
<1>4. CASE x.step = 4
  <2>1. y.step = 5 /\ y.held = {"pLoc", "pSvc"} /\ y.armed = <<"com", "pLoc", "pSvc">>
    <3>1. x.held = {"pLoc", "pSvc"} /\ x.armed = <<"com", "pLoc">>
      BY <1>4 DEF OnLadder
    <3>2. y.step = 5 /\ y.held = x.held \cup {} /\ y.armed = x.armed \o <<"pSvc">>
      BY <1>4, Rungs
    <3> QED BY <3>1, <3>2, StackGrowth
  <2>2. OnLadder(y)
    BY <2>1 DEF OnLadder
  <2>3. y.armed \in Stacks /\ y.armed # <<>> /\ y.held \subseteq References \cup {"pEnumerator"}
    BY <2>1, StackDepths DEF References
  <2> QED BY <1>4, <2>2, <2>3
<1>5. CASE x.step = 5
  <2>1. y.held = Taken /\ y.armed = <<"com", "pLoc", "pSvc">>
    BY <1>5, Rungs, StackGrowth DEF OnLadder, Taken
  <2>2. DrivesAmong(y.drives, these, y.n)
    BY NoDrives
  <2>3. Fetching(y, these)
    BY <2>1, <2>2 DEF Fetching
  <2>4. y.armed \in Stacks /\ y.armed # <<>> /\ y.held \subseteq References \cup {"pEnumerator"}
    BY <2>1, StackDepths DEF References, Taken
  <2> QED BY <1>5, <2>3, <2>4
<1> QED BY <1>1, <1>2, <1>3, <1>4, <1>5

LEMMA ClimbKeeps == ASSUME IInv, NEW t \in Threads, Climb(t) PROVE Kept(t)
<1>1. /\ c[t] \in CallType /\ pc[t] = "climb" /\ disks \in Seq(Disks) /\ Len(disks) \in Nat
      /\ OnLadder(c[t]) /\ c \in [Threads -> CallType]
      /\ pc \in [Threads -> {"host", "climb", "next", "object", "exit"}]
  BY Typed DEF IInv, CallsInv, Climb, Place, TypeOK
<1>2. UNCHANGED <<apartments, history>>
  BY DEF Climb
<1>3. CASE Fail(t) \/ Throw(t)
  <2>1. CASE Fail(t)
    <3>1. /\ pc'[t] = "exit" /\ c[t].thrown \in BOOLEAN
          /\ c'[t] = [c[t] EXCEPT !.faulted = TRUE, !.thrown = c[t].thrown]
      BY <1>1, <2>1 DEF Fail, Goto, CallType
    <3> QED BY <1>1, <1>2, <3>1, FailKeeps
  <2>2. CASE Throw(t)
    <3>1. pc'[t] = "exit" /\ c'[t] = [c[t] EXCEPT !.faulted = TRUE, !.thrown = TRUE]
      BY <1>1, <2>2 DEF Throw, Goto
    <3> QED BY <1>1, <1>2, <3>1, FailKeeps
  <2> QED BY <1>3, <2>1, <2>2
<1>4. CASE Secures(c[t].step) /\ Goto(t, "exit") /\ UNCHANGED c
  <2>1. pc'[t] = "exit" /\ c'[t] = c[t] /\ c[t].step = 1
    BY <1>1, <1>4 DEF Goto, Secures
  <2>2. c[t].armed = <<"com">> /\ c[t].held = {} /\ c[t].drives = <<>>
    BY <1>1, <2>1 DEF OnLadder
  <2>3. Leaving(c[t], disks)
    BY <1>1, <2>2, NoDrives DEF Leaving, Stacks, References, Ended
  <2>4. KeptPlace(t)
    BY <1>1, <2>1, <2>3 DEF KeptPlace, Place
  <2> QED BY <1>1, <1>2, <2>1, <2>4, SameCounts DEF Kept
<1>5. CASE /\ c' = [c EXCEPT ![t].step = @ + 1, ![t].held = @ \cup Ladder[c[t].step].gets,
                           ![t].armed = @ \o Ladder[c[t].step].arms]
           /\ Goto(t, IF c[t].step = Len(Ladder) THEN "next" ELSE "climb")
  <2>1. c[t].step \in 1 .. 5 /\ c[t].armed # <<>>
    BY <1>1, OneUnguarded DEF OnLadder
  <2>2. c'[t] = [c[t] EXCEPT !.step = @ + 1, !.held = @ \cup Ladder[c[t].step].gets,
                             !.armed = @ \o Ladder[c[t].step].arms]
    BY <1>1, <1>5
  <2>3. /\ c'[t].step = c[t].step + 1 /\ c'[t].held = c[t].held \cup Ladder[c[t].step].gets
        /\ c'[t].armed = c[t].armed \o Ladder[c[t].step].arms
        /\ c'[t].n = c[t].n /\ c'[t].drives = c[t].drives /\ c'[t].faulted = c[t].faulted
        /\ c'[t].thrown = c[t].thrown
    BY <1>1, <2>2 DEF CallType
  <2>4. c[t].n = 0 /\ c[t].drives = <<>> /\ ~c[t].faulted /\ ~c[t].thrown
    BY <1>1 DEF OnLadder
  <2>5. /\ c'[t].armed \in Stacks /\ c'[t].armed # <<>>
        /\ c'[t].held \subseteq References \cup {"pEnumerator"}
        /\ c[t].step < 5 => OnLadder(c'[t])
        /\ c[t].step = 5 => Fetching(c'[t], disks)
    <3> DEFINE y == c'[t]
    <3>1. /\ y.step = c[t].step + 1 /\ y.held = c[t].held \cup Ladder[c[t].step].gets
          /\ y.armed = c[t].armed \o Ladder[c[t].step].arms
          /\ y.n = 0 /\ y.drives = <<>> /\ ~y.faulted /\ ~y.thrown
      BY <2>3, <2>4
    <3> HIDE DEF y
    <3>2. /\ y.armed \in Stacks /\ y.armed # <<>> /\ y.held \subseteq References \cup {"pEnumerator"}
          /\ c[t].step < 5 => OnLadder(y)
          /\ c[t].step = 5 => Fetching(y, disks)
      BY <1>1, <2>1, <3>1, OneRung
    <3> QED BY <3>2 DEF y
  <2>6. pc'[t] = IF c[t].step = 5 THEN "next" ELSE "climb"
    BY <1>1, <1>5, Rungs DEF Goto
  <2>7. c'[t] \in CallType
    <3>1. c'[t].armed \in Seq(References \cup {"com"})
      BY <2>5, StacksTyped
    <3>2. c'[t].step \in 1 .. 6
      BY <2>1, <2>3
    <3> QED BY <1>1, <2>2, <2>3, <2>5, <3>1, <3>2 DEF CallType
  <2>8. KeptPlace(t)
    <3>1. CASE c[t].step = 5
      BY <2>5, <2>6, <2>7, <3>1 DEF KeptPlace, Place
    <3>2. CASE c[t].step < 5
      BY <2>5, <2>6, <2>7, <3>2 DEF KeptPlace, Place
    <3> QED BY <2>1, <3>1, <3>2
  <2>9. pc'[t] # "host"
    BY <2>6
  <2> QED BY <1>1, <1>2, <2>1, <2>5, <2>8, <2>9, SameCounts DEF Kept
<1> QED BY <1>3, <1>4, <1>5 DEF Climb

LEMMA FetchDiskKeeps == ASSUME IInv, NEW t \in Threads, FetchDisk(t) PROVE Kept(t)
<1>1. /\ c[t] \in CallType /\ pc[t] = "next" /\ disks \in Seq(Disks) /\ Len(disks) \in Nat
      /\ Fetching(c[t], disks) /\ c \in [Threads -> CallType]
      /\ pc \in [Threads -> {"host", "climb", "next", "object", "exit"}]
  BY Typed DEF IInv, CallsInv, FetchDisk, Place, TypeOK
<1>2. UNCHANGED <<apartments, history>>
  BY DEF FetchDisk
<1>3. c[t].armed \in Stacks /\ c[t].armed # <<>>
  BY <1>1, OneUnguarded
<1>4. CASE Fail(t)
  <2>1. /\ pc'[t] = "exit" /\ c[t].thrown \in BOOLEAN
        /\ c'[t] = [c[t] EXCEPT !.faulted = TRUE, !.thrown = c[t].thrown]
    BY <1>1, <1>4 DEF Fail, Goto, CallType
  <2> QED BY <1>1, <1>2, <2>1, FailKeeps
<1>5. CASE c[t].n = Len(disks) /\ Goto(t, "exit") /\ UNCHANGED c
  <2>1. pc'[t] = "exit" /\ c'[t] = c[t]
    BY <1>1, <1>5 DEF Goto
  <2>2. Ended(c[t], disks)
    BY <1>1, <1>5 DEF Ended, Fetching
  <2>3. \E y \in References \cup {"pEnumerator"} : c[t].held \subseteq ToSet(c[t].armed) \cup {y}
    BY <1>1, OneUnguarded
  <2>4. Leaving(c[t], disks)
    BY <1>3, <2>2, <2>3 DEF Leaving
  <2>5. KeptPlace(t)
    BY <1>1, <2>1, <2>4 DEF KeptPlace, Place
  <2> QED BY <1>1, <1>2, <2>1, <2>5, SameCounts DEF Kept
<1>6. CASE /\ c[t].n < Len(disks)
           /\ c' = [c EXCEPT ![t].n = @ + 1, ![t].held = @ \cup {"pclsObj"},
                             ![t].armed = Append(@, "pclsObj")]
           /\ Goto(t, "object")
  <2>1. c'[t] = [c[t] EXCEPT !.n = @ + 1, !.held = @ \cup {"pclsObj"},
                             !.armed = Append(@, "pclsObj")]
    BY <1>1, <1>6
  <2>2. /\ c'[t].n = c[t].n + 1 /\ c'[t].held = c[t].held \cup {"pclsObj"}
        /\ c'[t].armed = Append(c[t].armed, "pclsObj")
        /\ c'[t].step = c[t].step /\ c'[t].drives = c[t].drives
        /\ c'[t].faulted = c[t].faulted /\ c'[t].thrown = c[t].thrown
    BY <1>1, <2>1 DEF CallType
  <2>3. /\ c[t].held = Taken /\ c[t].armed = <<"com", "pLoc", "pSvc">>
        /\ ~c[t].faulted /\ ~c[t].thrown /\ DrivesAmong(c[t].drives, disks, c[t].n)
    BY <1>1 DEF Fetching
  <2>4. /\ c'[t].armed = <<"com", "pLoc", "pSvc", "pclsObj">>
        /\ c'[t].held = Taken \cup {"pclsObj"}
    BY <2>2, <2>3, StackGrowth
  <2>5. c'[t].armed \in Stacks /\ c'[t].armed # <<>>
    BY <2>4, StackDepths
  <2>6. c'[t].n \in 0 .. Len(disks) /\ c'[t].n > 0 /\ c'[t].n - 1 = c[t].n
    <3>1. c[t].n \in 0 .. Len(disks)
      BY <1>1 DEF CallType
    <3> QED BY <1>1, <1>6, <2>2, <3>1
  <2>7. Reading(c'[t], disks)
    <3>1. DrivesAmong(c'[t].drives, disks, c'[t].n - 1)
      BY <2>2, <2>3, <2>6
    <3> QED BY <2>2, <2>3, <2>4, <2>6, <3>1 DEF Reading
  <2>8. c'[t] \in CallType
    <3>1. c'[t].armed \in Seq(References \cup {"com"})
      BY <2>5, StacksTyped
    <3>2. c'[t].held \in SUBSET (References \cup {"pEnumerator"})
      BY <2>4 DEF Taken, References
    <3> QED BY <1>1, <2>1, <2>2, <2>6, <3>1, <3>2 DEF CallType
  <2>9. pc'[t] = "object"
    BY <1>1, <1>6 DEF Goto
  <2>10. KeptPlace(t)
    BY <2>7, <2>8, <2>9 DEF KeptPlace, Place
  <2> QED BY <1>1, <1>2, <1>3, <2>5, <2>9, <2>10, SameCounts DEF Kept
<1> QED BY <1>4, <1>5, <1>6 DEF FetchDisk

LEMMA ListDiskKeeps == ASSUME IInv, NEW t \in Threads, ListDisk(t) PROVE Kept(t)
<1>1. /\ c[t] \in CallType /\ pc[t] = "object" /\ disks \in Seq(Disks) /\ Len(disks) \in Nat
      /\ Reading(c[t], disks) /\ c \in [Threads -> CallType]
      /\ pc \in [Threads -> {"host", "climb", "next", "object", "exit"}]
  BY Typed DEF IInv, CallsInv, ListDisk, Place, TypeOK
<1>2. UNCHANGED <<apartments, history>>
  BY DEF ListDisk
<1>3. c[t].armed \in Stacks /\ c[t].armed # <<>>
  BY <1>1, OneUnguarded
<1>4. CASE /\ c' = [c EXCEPT ![t].drives = List(@, disks[c[t].n]),
                             ![t].held = @ \ {"pclsObj"}, ![t].armed = Front(@)]
           /\ Goto(t, "next")
  <2>1. c'[t] = [c[t] EXCEPT !.drives = List(@, disks[c[t].n]), !.held = @ \ {"pclsObj"},
                             !.armed = Front(@)]
    BY <1>1, <1>4
  <2>2. /\ c'[t].drives = List(c[t].drives, disks[c[t].n])
        /\ c'[t].held = c[t].held \ {"pclsObj"} /\ c'[t].armed = Front(c[t].armed)
        /\ c'[t].step = c[t].step /\ c'[t].n = c[t].n
        /\ c'[t].faulted = c[t].faulted /\ c'[t].thrown = c[t].thrown
    BY <1>1, <2>1 DEF CallType
  <2>3. /\ c[t].held = Taken \cup {"pclsObj"}
        /\ c[t].armed = <<"com", "pLoc", "pSvc", "pclsObj">> /\ c[t].n > 0
        /\ ~c[t].faulted /\ ~c[t].thrown /\ DrivesAmong(c[t].drives, disks, c[t].n - 1)
    BY <1>1 DEF Reading
  <2>4. c'[t].armed = <<"com", "pLoc", "pSvc">> /\ c'[t].held = Taken
    <3>1. Front(<<"com", "pLoc", "pSvc", "pclsObj">>) = <<"com", "pLoc", "pSvc">>
      BY StackTops DEF Innermost
    <3>2. (Taken \cup {"pclsObj"}) \ {"pclsObj"} = Taken
      BY DEF Taken
    <3> QED BY <2>2, <2>3, <3>1, <3>2
  <2>5. c'[t].armed \in Stacks /\ c'[t].armed # <<>>
    BY <2>4, StackDepths
  <2>6. c[t].n \in 1 .. Len(disks) /\ c[t].drives \in Seq(Disks)
    BY <1>1, <2>3 DEF CallType
  <2>7. DrivesAmong(c'[t].drives, disks, c'[t].n)
    BY <1>1, <2>2, <2>3, <2>6, OneMore
  <2>8. Fetching(c'[t], disks)
    BY <2>2, <2>3, <2>4, <2>7 DEF Fetching
  <2>9. c'[t] \in CallType
    <3>1. c'[t].armed \in Seq(References \cup {"com"})
      BY <2>5, StacksTyped
    <3>2. c'[t].held \in SUBSET (References \cup {"pEnumerator"})
      BY <2>4 DEF Taken, References
    <3>3. c'[t].drives \in Seq(Disks)
      BY <1>1, <2>2, <2>6 DEF List
    <3> QED BY <1>1, <2>1, <2>2, <3>1, <3>2, <3>3 DEF CallType
  <2>10. pc'[t] = "next"
    BY <1>1, <1>4 DEF Goto
  <2>11. KeptPlace(t)
    BY <2>8, <2>9, <2>10 DEF KeptPlace, Place
  <2> QED BY <1>1, <1>2, <1>3, <2>5, <2>10, <2>11, SameCounts DEF Kept
<1>5. CASE Throw(t)
  <2>1. pc'[t] = "exit" /\ c'[t] = [c[t] EXCEPT !.faulted = TRUE, !.thrown = TRUE]
    BY <1>1, <1>5 DEF Throw, Goto
  <2> QED BY <1>1, <1>2, <2>1, FailKeeps
<1> QED BY <1>4, <1>5 DEF ListDisk

\* A scope exit that runs leaves a stack, and as many references without one.
LEMMA OneExit ==
  ASSUME NEW x, NEW y, NEW these, Leaving(x, these), x.armed # <<>>,
         y.armed = Innermost(x.armed).left, y.held = x.held \ {Innermost(x.armed).runs},
         y.drives = x.drives, y.faulted = x.faulted
  PROVE  Leaving(y, these) /\ (y.armed = <<>> <=> Innermost(x.armed).runs = "com")
<1>1. /\ x.armed \in Stacks /\ x.armed # <<>> /\ Ended(x, these)
      /\ \E z \in References \cup {"pEnumerator"} : x.held \subseteq ToSet(x.armed) \cup {z}
  BY DEF Leaving
<1>2. Ended(y, these)
  BY <1>1 DEF Ended
<1>3. /\ y.armed \in Stacks /\ (y.armed = <<>> <=> Innermost(x.armed).runs = "com")
      /\ ToSet(x.armed) \subseteq ToSet(y.armed) \cup {Innermost(x.armed).runs}
  <2>1. CASE x.armed = <<"com">>
    BY <2>1, StackTops, StackShapes DEF Stacks
  <2>2. CASE x.armed = <<"com", "pLoc">>
    BY <2>2, StackTops, StackShapes, StackDepths
  <2>3. CASE x.armed = <<"com", "pLoc", "pSvc">>
    BY <2>3, StackTops, StackShapes, StackDepths
  <2>4. CASE x.armed = <<"com", "pLoc", "pSvc", "pclsObj">>
    BY <2>4, StackTops, StackShapes, StackDepths
  <2> QED BY <1>1, <2>1, <2>2, <2>3, <2>4 DEF Stacks
<1>4. \E z \in References \cup {"pEnumerator"} : y.held \subseteq ToSet(y.armed) \cup {z}
  <2>1. PICK z \in References \cup {"pEnumerator"} : x.held \subseteq ToSet(x.armed) \cup {z}
    BY <1>1
  <2>2. y.held \subseteq ToSet(y.armed) \cup {z}
    BY <1>3, <2>1
  <2> QED BY <2>2
<1> QED BY <1>2, <1>3, <1>4 DEF Leaving

LEMMA RunExitKeeps == ASSUME IInv, NEW t \in Threads, RunExit(t) PROVE Kept(t)
<1> DEFINE x == Innermost(c[t].armed).runs
           Sum(n) == HostOpens(t) + n
<1>1. /\ c[t] \in CallType /\ pc[t] = "exit" /\ Leaving(c[t], disks)
      /\ c \in [Threads -> CallType] /\ c[t].armed # <<>> /\ Balances(t)
      /\ apartments \in [Threads -> 0 .. 2] /\ pc' = pc
  BY Typed DEF IInv, CallsInv, RunExit, Place, TypeOK
<1>2. UNCHANGED history
  BY DEF RunExit
<1>3. c'[t] = [c[t] EXCEPT !.armed = Innermost(@).left, !.held = @ \ {x}]
  BY <1>1 DEF RunExit
<1>4. /\ c'[t].armed = Innermost(c[t].armed).left /\ c'[t].held = c[t].held \ {x}
      /\ c'[t].step = c[t].step /\ c'[t].n = c[t].n /\ c'[t].drives = c[t].drives
      /\ c'[t].faulted = c[t].faulted /\ c'[t].thrown = c[t].thrown
  BY <1>1, <1>3 DEF CallType
<1>5. Leaving(c'[t], disks) /\ (c'[t].armed = <<>> <=> x = "com")
  <2> DEFINE y == c'[t]
  <2>1. /\ y.armed = Innermost(c[t].armed).left /\ y.held = c[t].held \ {x}
        /\ y.drives = c[t].drives /\ y.faulted = c[t].faulted
    BY <1>4
  <2> HIDE DEF y
  <2>2. Leaving(y, disks) /\ (y.armed = <<>> <=> x = "com")
    BY <1>1, <2>1, OneExit
  <2> QED BY <2>2 DEF y
<1>6. c'[t] \in CallType
  <2>1. c'[t].armed \in Seq(References \cup {"com"})
    BY <1>5, StacksTyped DEF Leaving
  <2> QED BY <1>1, <1>3, <1>4, <2>1 DEF CallType
<1>7. KeptPlace(t)
  BY <1>1, <1>5, <1>6 DEF KeptPlace, Place
<1>8. apartments' = IF x = "com" THEN [apartments EXCEPT ![t] = @ - 1] ELSE apartments
  BY DEF RunExit
<1>9. HostOpens(t) \in 0 .. 1 /\ apartments[t] = HostOpens(t) + 1
  BY <1>1 DEF HostOpens, Balances
<1>10. /\ apartments'[t] \in 0 .. 2
       /\ apartments'[t] = HostOpens(t) + IF c'[t].armed = <<>> THEN 0 ELSE 1
  <2>1. CASE x = "com"
    <3>1. c'[t].armed = <<>> /\ apartments'[t] = apartments[t] - 1
      BY <1>1, <1>5, <1>8, <2>1
    <3> QED BY <1>9, <3>1
  <2>2. CASE x # "com"
    <3>1. c'[t].armed # <<>> /\ apartments'[t] = apartments[t]
      BY <1>5, <1>8, <2>2
    <3> QED BY <1>9, <3>1
  <2> QED BY <2>1, <2>2
<1>11. KeptCounts(t)
  <2>1. /\ calls'[t] \in 0 .. MaxCalls /\ leaked'[t] \in Nat
        /\ leaked'[t] + (IF pc'[t] = "host" THEN 0 ELSE 1) <= calls'[t]
    BY <1>1, <1>2 DEF history, IInv, TypeOK, Balances
  <2> QED BY <1>10, <2>1 DEF KeptCounts
<1>12. KeptAnswers(t)
  BY <1>2 DEF history, KeptAnswers, TypeOK, IInv, AllOrNothing, Ended
<1> QED BY <1>7, <1>11, <1>12 DEF Kept

LEMMA ReturnKeeps == ASSUME IInv, NEW t \in Threads, Return(t) PROVE Kept(t)
<1>1. /\ c[t] \in CallType /\ pc[t] = "exit" /\ Leaving(c[t], disks) /\ Balances(t)
      /\ c[t].armed = <<>> /\ TypeOK /\ disks \in Seq(Disks) /\ Len(disks) \in Nat
  BY Typed DEF IInv, CallsInv, Return, Place
<1>2. pc'[t] = "host" /\ c'[t] = Idle /\ apartments' = apartments /\ calls' = calls
  BY <1>1 DEF Return, Goto, TypeOK
<1>3. Cardinality(c[t].held) \in 0 .. 1
  <2>1. PICK y : c[t].held \subseteq {y}
    BY <1>1, StackShapes DEF Leaving
  <2>2. CASE c[t].held = {}
    BY <2>2, FS_EmptySet
  <2>3. CASE c[t].held = {y}
    BY <2>3, FS_Singleton
  <2> QED BY <2>1, <2>2, <2>3
<1>4. KeptPlace(t)
  BY <1>1, <1>2, IdleTyped DEF KeptPlace, Place
<1>5. KeptCounts(t)
  <2>1. leaked'[t] = leaked[t] + Cardinality(c[t].held)
    BY <1>1 DEF Return, TypeOK
  <2>2. leaked[t] \in Nat /\ calls[t] \in 0 .. MaxCalls /\ leaked[t] + 1 <= calls[t]
    BY <1>1 DEF TypeOK, Balances
  <2>3. leaked'[t] \in Nat /\ leaked'[t] + 0 <= calls'[t]
    BY <1>2, <1>3, <2>1, <2>2
  <2>4. c'[t].armed = <<>>
    BY <1>2 DEF Idle
  <2>5. apartments'[t] \in 0 .. 2 /\ apartments'[t] = HostOpens(t) + 0
    BY <1>1, <1>2 DEF TypeOK, Balances
  <2> QED BY <1>2, <2>2, <2>3, <2>4, <2>5 DEF KeptCounts
<1>6. KeptAnswers(t)
  <2> SUFFICES ASSUME NEW x \in answers'[t]
               PROVE  x \in [drives : Seq(Disks), faulted : BOOLEAN] /\ Ended(x, disks)
    BY DEF KeptAnswers
  <2>1. CASE x \in answers[t]
    BY <1>1, <2>1 DEF TypeOK, IInv, AllOrNothing, Ended
  <2>2. CASE x = [drives |-> c[t].drives, faulted |-> c[t].faulted]
    <3>1. Ended(c[t], disks) /\ x.drives = c[t].drives /\ x.faulted = c[t].faulted
      BY <1>1, <2>2 DEF Leaving
    <3>2. Ended(x, disks)
      BY <3>1 DEF Ended
    <3>3. x \in [drives : Seq(Disks), faulted : BOOLEAN]
      BY <1>1, <2>2 DEF CallType
    <3> QED BY <3>2, <3>3
  <2> QED BY <1>1, <2>1, <2>2 DEF Return, TypeOK
<1> QED BY <1>4, <1>5, <1>6 DEF Kept

\* A step of t is of no other thread, and of the machine not at all.
OnlyAt(t, before, after) == after = [before EXCEPT ![t] = after[t]]
Local(t) ==
  /\ UNCHANGED machine /\ security' \in BOOLEAN /\ overlapped' \in BOOLEAN
  /\ OnlyAt(t, c, c') /\ OnlyAt(t, pc, pc') /\ OnlyAt(t, apartments, apartments')
  /\ OnlyAt(t, calls, calls') /\ OnlyAt(t, leaked, leaked') /\ OnlyAt(t, answers, answers')

LEMMA Untouched == ASSUME NEW S, NEW T, NEW f \in [S -> T], NEW t \in S PROVE OnlyAt(t, f, f)
BY DEF OnlyAt

LEMMA StepLocal == ASSUME TypeOK, NEW t \in Threads, Step(t) PROVE Local(t)
<1>1. /\ security \in BOOLEAN /\ overlapped \in BOOLEAN /\ OnlyAt(t, c, c) /\ OnlyAt(t, pc, pc)
      /\ OnlyAt(t, apartments, apartments) /\ OnlyAt(t, calls, calls)
      /\ OnlyAt(t, leaked, leaked) /\ OnlyAt(t, answers, answers)
  BY Untouched DEF TypeOK
<1>2. DOMAIN c = Threads /\ DOMAIN pc = Threads /\ DOMAIN apartments = Threads
      /\ DOMAIN calls = Threads /\ DOMAIN leaked = Threads /\ DOMAIN answers = Threads
  BY DEF TypeOK
<1>3. CASE CoInitialize(t)
  BY <1>1, <1>2, <1>3 DEF CoInitialize, Enter, Goto, Local, OnlyAt, machine
<1>4. CASE Climb(t)
  <2>1. security' \in BOOLEAN
    BY <1>1, <1>4 DEF Climb
  <2>2. OnlyAt(t, pc, pc')
    BY <1>1, <1>2, <1>4 DEF Climb, Fail, Throw, Goto, OnlyAt
  <2>3. OnlyAt(t, c, c')
    <3>1. CASE \/ c' = [c EXCEPT ![t].faulted = TRUE]
               \/ c' = [c EXCEPT ![t].faulted = TRUE, ![t].thrown = TRUE]
      BY <1>2, <3>1 DEF OnlyAt
    <3>2. CASE c' = [c EXCEPT ![t].step = @ + 1, ![t].held = @ \cup Ladder[c[t].step].gets,
                              ![t].armed = @ \o Ladder[c[t].step].arms]
      BY <1>2, <3>2 DEF OnlyAt
    <3> QED BY <1>1, <1>4, <3>1, <3>2 DEF Climb, Fail, Throw
  <2> QED BY <1>1, <1>4, <2>1, <2>2, <2>3 DEF Climb, Local, machine, history
<1>5. CASE FetchDisk(t)
  BY <1>1, <1>2, <1>5 DEF FetchDisk, Fail, Goto, Local, OnlyAt, machine, history
<1>6. CASE ListDisk(t)
  BY <1>1, <1>2, <1>6 DEF ListDisk, Throw, Goto, Local, OnlyAt, machine, history
<1>7. CASE RunExit(t)
  <2>1. security' \in BOOLEAN
    BY <1>7 DEF RunExit
  <2>2. OnlyAt(t, apartments, apartments')
    <3>1. \/ apartments' = [apartments EXCEPT ![t] = @ - 1]
          \/ apartments' = apartments
      BY <1>7 DEF RunExit
    <3> QED BY <1>1, <1>2, <3>1 DEF OnlyAt
  <2>3. OnlyAt(t, c, c')
    <3> DEFINE x == Innermost(c[t].armed).runs
    <3>1. c' = [c EXCEPT ![t].armed = Innermost(@).left, ![t].held = @ \ {x}]
      BY <1>7 DEF RunExit
    <3> HIDE DEF x
    <3> QED BY <1>2, <3>1 DEF OnlyAt
  <2> QED BY <1>1, <1>7, <2>1, <2>2, <2>3 DEF RunExit, Local, machine, history
<1>8. CASE Return(t)
  BY <1>1, <1>2, <1>8 DEF Return, Goto, Local, OnlyAt, machine
<1> QED BY <1>3, <1>4, <1>5, <1>6, <1>7, <1>8 DEF Step

LEMMA StepDrives == ASSUME IInv, NEW t \in Threads, Step(t) PROVE IInv'
<1>1. Kept(t) /\ Local(t) /\ TypeOK
  BY StepLocal, CoInitializeKeeps, ClimbKeeps, FetchDiskKeeps, ListDiskKeeps, RunExitKeeps,
     ReturnKeeps DEF Step, IInv
<1>2. /\ c \in [Threads -> CallType] /\ disks' = disks /\ own' = own /\ forgets' = forgets
      /\ \A u \in Threads : HostOpens(u)' = HostOpens(u)
  BY <1>1, Typed DEF Local, machine, HostOpens
<1>3. \A u \in Threads \ {t} :
        /\ c'[u] = c[u] /\ pc'[u] = pc[u] /\ apartments'[u] = apartments[u]
        /\ calls'[u] = calls[u] /\ leaked'[u] = leaked[u] /\ answers'[u] = answers[u]
  BY <1>1 DEF Local, OnlyAt, TypeOK
<1>4. TypeOK'
  <2>1. c' \in [Threads -> CallType]
    BY <1>1, <1>2 DEF Local, OnlyAt, Kept, KeptPlace
  <2>2. c' \in [Threads -> [step : 1 .. Len(Ladder) + 1, armed : Seq(References \cup {"com"}),
                           held : SUBSET (References \cup {"pEnumerator"}), n : 0 .. Len(disks),
                           drives : Seq(Disks), faulted : BOOLEAN, thrown : BOOLEAN]]
    <3>1. 1 .. Len(Ladder) + 1 = 1 .. 6
      BY Rungs
    <3> QED BY <2>1, <3>1 DEF CallType
  <2>3. answers' \in [Threads -> SUBSET [drives : Seq(Disks), faulted : BOOLEAN]]
    <3>1. answers'[t] \subseteq [drives : Seq(Disks), faulted : BOOLEAN]
      BY <1>1 DEF Kept, KeptAnswers
    <3> QED BY <1>1, <3>1 DEF Local, OnlyAt, TypeOK
  <2>4. /\ apartments' \in [Threads -> 0 .. 2] /\ calls' \in [Threads -> 0 .. MaxCalls]
        /\ leaked' \in [Threads -> Nat]
    BY <1>1 DEF Local, OnlyAt, Kept, KeptCounts, TypeOK
  <2>5. pc' \in [Threads -> {"host", "climb", "next", "object", "exit"}]
    BY <1>1 DEF Local, OnlyAt, Kept, KeptPlace, TypeOK
  <2>6. security' \in BOOLEAN /\ forgets' \in BOOLEAN /\ overlapped' \in BOOLEAN
    BY <1>1, <1>2 DEF Local, TypeOK
  <2>7. disks' \in Machines /\ own' \in [Threads -> {"none", "mta", "sta"}]
    BY <1>1, <1>2 DEF TypeOK
  <2> QED BY <1>2, <2>2, <2>3, <2>4, <2>5, <2>6, <2>7 DEF TypeOK
<1>5. CallsInv'
  <2>1. \A u \in Threads : Place(pc'[u], c'[u], disks')
    BY <1>1, <1>2, <1>3 DEF IInv, CallsInv, Kept, KeptPlace
  <2>2. \A u \in Threads : Balances(u)'
    <3> SUFFICES ASSUME NEW u \in Threads PROVE Balances(u)'
      OBVIOUS
    <3>1. CASE u = t
      BY <1>1, <1>2, <3>1 DEF Balances, Kept, KeptCounts
    <3>2. CASE u # t
      <4>1. Balances(u) /\ HostOpens(u)' = HostOpens(u)
        BY <1>2 DEF IInv, CallsInv
      <4> QED BY <1>3, <3>2, <4>1 DEF Balances
    <3> QED BY <3>1, <3>2
  <2> QED BY <2>1, <2>2 DEF CallsInv
<1>6. AllOrNothing'
  <2>1. \A u \in Threads : \A x \in answers'[u] : Ended(x, disks)
    <3> SUFFICES ASSUME NEW u \in Threads, NEW x \in answers'[u] PROVE Ended(x, disks)
      OBVIOUS
    <3>1. CASE u = t
      BY <1>1, <3>1 DEF Kept, KeptAnswers
    <3>2. CASE u # t
      BY <1>3, <3>2 DEF IInv, AllOrNothing, Ended
    <3> QED BY <3>1, <3>2
  <2> QED BY <1>2, <2>1 DEF AllOrNothing, Ended
<1> QED BY <1>4, <1>5, <1>6 DEF IInv

LEMMA NextDrives == IInv /\ [Next]_vars => IInv'
<1> SUFFICES ASSUME IInv, [Next]_vars PROVE IInv'
  OBVIOUS
<1>1. CASE Next
  BY <1>1, StepDrives DEF Next
<1>2. CASE UNCHANGED vars
  <2>1. TypeOK'
    BY <1>2 DEF IInv, TypeOK, vars, machine
  <2>2. CallsInv'
    BY <1>2 DEF IInv, CallsInv, Balances, HostOpens, vars, machine
  <2>3. AllOrNothing'
    BY <1>2 DEF IInv, AllOrNothing, vars, machine
  <2> QED BY <2>1, <2>2, <2>3 DEF IInv
<1> QED BY <1>1, <1>2

\* What every theorem below follows from.
LEMMA Invariant == Spec => []IInv
BY InitDrives, NextDrives, PTL DEF Spec

-----------------------------------------------------------------------------
\* The variables keep their types: at most the host's apartment and the call's
\* are open on a thread, and what a call owns is what it can own.
THEOREM TypeCorrect == Spec => []TypeOK
<1>1. IInv => TypeOK
  BY DEF IInv
<1> QED BY <1>1, Invariant, PTL

\* However many threads call and whichever steps fail, a call that has returned
\* has closed the apartment it opened and no other.
THEOREM Balanced == Spec => []ApartmentsBalanced
<1>1. IInv => ApartmentsBalanced
  <2> SUFFICES ASSUME IInv, NEW t \in Threads, pc[t] = "host"
               PROVE  apartments[t] = HostOpens(t)
    BY DEF ApartmentsBalanced
  <2>1. c[t].armed = <<>> /\ Balances(t) /\ HostOpens(t) \in Nat
    BY DEF IInv, CallsInv, Place, Idle, HostOpens
  <2> QED BY <2>1 DEF Balances
<1> QED BY <1>1, Invariant, PTL

\* As long as a call has a reference to release, its apartment is open: COM's
\* scope exit, the first armed, is the last to run.
THEOREM Released == Spec => []ReleasedInApartment
<1>1. IInv => ReleasedInApartment
  <2> SUFFICES ASSUME IInv, NEW t \in Threads, ToSet(c[t].armed) \cap References # {}
               PROVE  apartments[t] > HostOpens(t)
    BY DEF ReleasedInApartment
  <2>1. c[t].armed # <<>>
    BY StackShapes
  <2>2. Balances(t) /\ HostOpens(t) \in Nat
    BY DEF IInv, CallsInv, HostOpens
  <2> QED BY <2>1, <2>2 DEF Balances
<1> QED BY <1>1, Invariant, PTL

\* A call loses one reference at most, wherever it ends, and so a thread's calls
\* no more than one each.
THEOREM LeakBounded == Spec => []LeakOneACall
<1>1. IInv => LeakOneACall
  <2> SUFFICES ASSUME IInv, NEW t \in Threads
               PROVE  /\ pc[t] = "exit" => Cardinality(c[t].held \ ToSet(c[t].armed)) <= 1
                      /\ leaked[t] <= calls[t]
    BY DEF LeakOneACall
  <2>1. leaked[t] \in Nat /\ calls[t] \in 0 .. MaxCalls /\ Balances(t)
    BY DEF IInv, TypeOK, CallsInv
  <2>2. leaked[t] <= calls[t]
    BY <2>1 DEF Balances
  <2>3. ASSUME pc[t] = "exit" PROVE Cardinality(c[t].held \ ToSet(c[t].armed)) <= 1
    <3> DEFINE bare == c[t].held \ ToSet(c[t].armed)
    <3>1. \E y : bare \subseteq {y}
      BY <2>3 DEF IInv, CallsInv, Place, Leaving
    <3> SUFFICES Cardinality(bare) <= 1
      OBVIOUS
    <3> HIDE DEF bare
    <3>2. PICK y : bare \subseteq {y}
      BY <3>1
    <3>3. CASE bare = {}
      BY <3>3, FS_EmptySet
    <3>4. CASE bare = {y}
      <4>1. Cardinality({y}) = 1
        BY FS_Singleton
      <4> QED BY <3>4, <4>1
    <3> QED BY <3>2, <3>3, <3>4
  <2> QED BY <2>2, <2>3
<1> QED BY <1>1, Invariant, PTL

\* On any machine, a call that no step has failed answers with every drive or
\* with none; one that a step has failed, with the drives up to some disk.
THEOREM ListsWhole == Spec => []AllOrNothing
<1>1. IInv => AllOrNothing
  BY DEF IInv
<1> QED BY <1>1, Invariant, PTL

-----------------------------------------------------------------------------
(* Calls that do not overlap.                                               *)
Serial == forgets /\ ~overlapped /\ \A t \in Threads : own[t] = "none"
Alone(t) == \A u \in Threads \ {t} : pc[u] = "host"
\* A process that is secured is so by a call that has an apartment open and the
\* first rung behind it.
Secured(t) ==
  /\ security => c[t].armed # <<>>
  /\ security => pc[t] # "climb" \/ c[t].step # 1
Whole(t) ==
  /\ pc[t] = "exit" => c[t].faulted \/ DrivesAmong(c[t].drives, disks, Len(disks))
  /\ \A x \in answers[t] : x.faulted \/ DrivesAmong(x.drives, disks, Len(disks))
SerialInv ==
  Serial =>
    /\ \A t \in Threads : pc[t] # "host" => Alone(t) /\ Secured(t)
    /\ (\A t \in Threads : pc[t] = "host") => ~security
    /\ \A t \in Threads : Whole(t)

LEMMA InitSerial == Init => SerialInv
<1> SUFFICES ASSUME Init, Serial PROVE /\ \A t \in Threads : pc[t] = "host" /\ Whole(t)
                                       /\ ~security
  BY DEF SerialInv
<1>1. \A t \in Threads : pc[t] = "host" /\ answers[t] = {}
  BY DEF Init
<1>2. ~security
  BY DEF Init, Serial
<1> QED BY <1>1, <1>2 DEF Whole

\* What a step of t finds when no other call is under way, and what it leaves.
LEMMA SerialBefore ==
  ASSUME IInv, SerialInv, NEW t \in Threads, Step(t), Serial'
  PROVE  /\ Serial /\ Alone(t) /\ Whole(t)
         /\ pc[t] = "host" => ~security
         /\ pc[t] # "host" => Secured(t)
<1>1. Local(t)
  BY StepLocal DEF IInv
<1>2. forgets /\ ~overlapped' /\ \A u \in Threads : own[u] = "none"
  BY <1>1 DEF Serial, Local, machine
<1>3. Serial
  <2>1. overlapped => overlapped'
    BY DEF Step, CoInitialize, Enter, Climb, FetchDisk, ListDisk, RunExit, Return, history
  <2> QED BY <1>2, <2>1 DEF Serial
<1>4. CASE pc[t] = "host"
  <2>1. CoInitialize(t)
    BY <1>4 DEF Step, Climb, FetchDisk, ListDisk, RunExit, Return
  <2>2. \A u \in Threads : pc[u] = "host"
    BY <1>2, <2>1 DEF CoInitialize, Enter
  <2> QED BY <1>3, <1>4, <2>2 DEF SerialInv, Alone
<1> QED BY <1>3, <1>4 DEF SerialInv

LEMMA SerialAfter ==
  ASSUME IInv, IInv', SerialInv, NEW t \in Threads, Step(t), Serial'
  PROVE  Whole(t)' /\ IF pc'[t] = "host" THEN ~security' ELSE Secured(t)'
<1>1. /\ Serial /\ Alone(t) /\ Whole(t) /\ TypeOK
      /\ pc[t] = "host" => ~security
      /\ pc[t] # "host" => Secured(t)
  BY SerialBefore DEF IInv
<1>2. /\ c \in [Threads -> CallType] /\ c[t] \in CallType /\ Place(pc[t], c[t], disks)
      /\ pc \in [Threads -> {"host", "climb", "next", "object", "exit"}] /\ disks' = disks
      /\ Place(pc'[t], c'[t], disks)
  <2>1. disks' = disks
    BY StepLocal DEF IInv, Local, machine
  <2> QED BY <2>1, Typed DEF IInv, CallsInv, TypeOK
<1>3. pc'[t] \in {"climb", "next", "object"} => c'[t].armed # <<>>
  <2> DEFINE y == c'[t]
  <2>1. pc'[t] \in {"climb", "next", "object"} =>
          OnLadder(y) \/ Fetching(y, disks) \/ Reading(y, disks)
    BY <1>2 DEF Place
  <2> HIDE DEF y
  <2>2. pc'[t] \in {"climb", "next", "object"} => y.armed # <<>>
    BY <2>1, OneUnguarded
  <2> QED BY <2>2 DEF y
\* A step that fails.
<1>4. ASSUME pc'[t] = "exit", c'[t].faulted, c'[t].armed = c[t].armed, pc[t] # "host",
             security' = security, answers' = answers
      PROVE  Whole(t)' /\ Secured(t)' /\ pc'[t] # "host"
  BY <1>1, <1>2, <1>4 DEF Whole, Secured
\* A step to a place before the end.
<1>5. ASSUME pc'[t] \in {"next", "object"}, answers' = answers
      PROVE  Whole(t)' /\ Secured(t)' /\ pc'[t] # "host"
  BY <1>1, <1>2, <1>3, <1>5 DEF Whole, Secured
<1>6. CASE CoInitialize(t)
  <2>1. ~security /\ security' = security /\ answers' = answers
    BY <1>1, <1>6 DEF CoInitialize, Enter
  <2>2. \/ pc'[t] = "exit" /\ c'[t].faulted
        \/ pc'[t] = "climb"
    BY <1>2, <1>6 DEF CoInitialize, Goto, Idle
  <2> QED BY <1>1, <1>2, <2>1, <2>2 DEF Whole, Secured
<1>7. CASE Climb(t)
  <2>1. answers' = answers /\ pc[t] = "climb"
    BY <1>7 DEF Climb, history
  <2>2. CASE (Fail(t) \/ Throw(t)) /\ UNCHANGED security
    BY <1>2, <1>4, <2>1, <2>2 DEF Fail, Throw, Goto, CallType
  <2>3. CASE Secures(c[t].step) /\ security
    BY <1>1, <2>1, <2>3 DEF Secures, Secured
  <2>4. CASE /\ c' = [c EXCEPT ![t].step = @ + 1, ![t].held = @ \cup Ladder[c[t].step].gets,
                              ![t].armed = @ \o Ladder[c[t].step].arms]
             /\ Goto(t, IF c[t].step = Len(Ladder) THEN "next" ELSE "climb")
    <3>1. c[t].step \in 1 .. 6
      BY <1>2 DEF CallType
    <3>2. c'[t].step = c[t].step + 1
      BY <1>2, <2>4 DEF CallType
    <3>3. c'[t].step # 1
      BY <3>1, <3>2
    <3>4. pc'[t] \in {"climb", "next"}
      BY <1>2, <2>4 DEF Goto
    <3> QED BY <1>1, <1>2, <1>3, <2>1, <3>3, <3>4 DEF Whole, Secured
  <2> QED BY <1>7, <2>2, <2>3, <2>4 DEF Climb
<1>8. CASE FetchDisk(t)
  <2>1. answers' = answers /\ security' = security /\ pc[t] = "next"
    BY <1>8 DEF FetchDisk, history
  <2>2. CASE Fail(t)
    BY <1>2, <1>4, <2>1, <2>2 DEF Fail, Goto, CallType
  <2>3. CASE c[t].n = Len(disks) /\ Goto(t, "exit") /\ UNCHANGED c
    <3>1. pc'[t] = "exit" /\ c'[t] = c[t]
      BY <1>2, <2>3 DEF Goto
    <3>2. DrivesAmong(c[t].drives, disks, Len(disks))
      BY <1>2, <2>1, <2>3 DEF Place, Fetching
    <3> QED BY <1>1, <1>2, <2>1, <3>1, <3>2 DEF Whole, Secured
  <2>4. CASE Goto(t, "object")
    BY <1>2, <1>5, <2>1, <2>4 DEF Goto
  <2> QED BY <1>8, <2>2, <2>3, <2>4 DEF FetchDisk
<1>9. CASE ListDisk(t)
  <2>1. answers' = answers /\ security' = security /\ pc[t] = "object"
    BY <1>9 DEF ListDisk, history
  <2>2. CASE Goto(t, "next")
    BY <1>2, <1>5, <2>1, <2>2 DEF Goto
  <2>3. CASE Throw(t)
    BY <1>2, <1>4, <2>1, <2>3 DEF Throw, Goto, CallType
  <2> QED BY <1>9, <2>2, <2>3 DEF ListDisk
<1>10. CASE RunExit(t)
  <2> DEFINE x == Innermost(c[t].armed).runs
  <2>1. answers' = answers /\ pc' = pc /\ pc[t] = "exit" /\ c[t].armed # <<>>
    BY <1>10 DEF RunExit, history
  <2>2. c'[t] = [c[t] EXCEPT !.armed = Innermost(@).left, !.held = @ \ {x}]
    BY <1>2, <1>10 DEF RunExit
  <2>3. /\ c'[t].drives = c[t].drives /\ c'[t].faulted = c[t].faulted
        /\ c'[t].armed = Innermost(c[t].armed).left /\ c'[t].held = c[t].held \ {x}
    BY <1>2, <2>2 DEF CallType
  <2>4. c'[t].armed = <<>> => x = "com"
    <3> DEFINE y == c'[t]
    <3>1. /\ y.drives = c[t].drives /\ y.faulted = c[t].faulted
          /\ y.armed = Innermost(c[t].armed).left /\ y.held = c[t].held \ {x}
      BY <2>3
    <3> HIDE DEF y
    <3>2. Leaving(c[t], disks)
      BY <1>2, <2>1 DEF Place
    <3>3. y.armed = <<>> <=> x = "com"
      BY <2>1, <3>1, <3>2, OneExit
    <3> QED BY <3>3 DEF y
  <2>5. c'[t].armed = <<>> => \A u \in Threads : apartments'[u] = 0
    <3> SUFFICES ASSUME c'[t].armed = <<>>, NEW u \in Threads PROVE apartments'[u] = 0
      OBVIOUS
    <3>1. c'[u].armed = <<>>
      <4>1. CASE u = t
        BY <4>1
      <4>2. CASE u # t
        <5>1. c'[u] = Idle
          BY <1>1, <2>1, <4>2 DEF Alone, IInv, CallsInv, Place
        <5> QED BY <5>1 DEF Idle
      <4> QED BY <4>1, <4>2
    <3>2. HostOpens(u)' = 0
      BY DEF HostOpens, Serial
    <3>3. apartments'[u] = HostOpens(u)' + IF c'[u].armed = <<>> THEN 0 ELSE 1
      BY DEF IInv, CallsInv, Balances
    <3> QED BY <3>1, <3>2, <3>3
  <2>6. security' => c'[t].armed # <<>>
    BY <1>1, <1>10, <2>4, <2>5 DEF RunExit, Serial
  <2> QED BY <1>1, <1>2, <2>1, <2>3, <2>6 DEF Whole, Secured
<1>11. CASE Return(t)
  <2>1. pc[t] = "exit" /\ pc'[t] = "host" /\ security' = security /\ c[t].armed = <<>>
    BY <1>2, <1>11 DEF Return, Goto
  <2>2. ~security'
    BY <1>1, <2>1 DEF Secured
  <2>3. \A x \in answers'[t] :
          x \in answers[t] \/ (x.drives = c[t].drives /\ x.faulted = c[t].faulted)
    BY <1>1, <1>11 DEF Return, TypeOK
  <2>4. Whole(t)'
    BY <1>1, <1>2, <2>1, <2>3 DEF Whole
  <2> QED BY <2>1, <2>2, <2>4
<1> QED BY <1>6, <1>7, <1>8, <1>9, <1>10, <1>11 DEF Step

LEMMA NextSerial == IInv /\ IInv' /\ SerialInv /\ [Next]_vars => SerialInv'
<1> SUFFICES ASSUME IInv, IInv', SerialInv, [Next]_vars, Serial'
             PROVE  /\ \A t \in Threads : pc'[t] # "host" => Alone(t)' /\ Secured(t)'
                    /\ (\A t \in Threads : pc'[t] = "host") => ~security'
                    /\ \A t \in Threads : Whole(t)'
  BY DEF SerialInv
<1>1. ASSUME NEW t \in Threads, Step(t)
      PROVE  /\ \A u \in Threads : pc'[u] # "host" => Alone(u)' /\ Secured(u)'
             /\ (\A u \in Threads : pc'[u] = "host") => ~security'
             /\ \A u \in Threads : Whole(u)'
  <2>1. Whole(t)' /\ IF pc'[t] = "host" THEN ~security' ELSE Secured(t)'
    BY <1>1, SerialAfter
  <2>2. Serial /\ Alone(t) /\ Local(t) /\ TypeOK
    BY <1>1, SerialBefore, StepLocal DEF IInv
  <2>3. disks' = disks /\ \A u \in Threads \ {t} :
          pc'[u] = "host" /\ answers'[u] = answers[u] /\ pc[u] = "host"
    BY <2>2 DEF Alone, Local, OnlyAt, TypeOK, machine
  <2>4. \A u \in Threads \ {t} : Whole(u)'
    BY <2>2, <2>3 DEF SerialInv, Whole
  <2>5. Alone(t)'
    BY <2>3 DEF Alone
  <2> QED BY <2>1, <2>3, <2>4, <2>5
<1>2. CASE UNCHANGED vars
  <2>1. Serial
    BY <1>2 DEF Serial, vars, machine
  <2> QED BY <1>2, <2>1 DEF SerialInv, Alone, Secured, Whole, vars, machine
<1> QED BY <1>1, <1>2 DEF Next

\* Where COM forgets its security with the last apartment and the hosts leave COM
\* alone, calls that do not overlap agree: each gets every drive of the machine, or
\* a step of it failed.
THEOREM SerialAgree == Spec => []SerialCallsAgree
<1>1. SerialInv => SerialCallsAgree
  BY DEF SerialInv, Serial, Whole, SerialCallsAgree
<1>2. IInv /\ SerialInv /\ [Next]_vars => SerialInv'
  BY NextDrives, NextSerial
<1> QED BY <1>1, <1>2, InitSerial, Invariant, PTL DEF Spec
=============================================================================
