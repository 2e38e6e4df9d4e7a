----------------------------- MODULE HardDrives -----------------------------
(***************************************************************************)
(* GetHardDriveInfo of the Windows build (src/windows/windows_data.cpp):   *)
(* COM is initialised for the calling thread and secured for the process,  *)
(* WMI is asked for the physical disks, and scope exits give back what was *)
(* taken.  The function is exported and called by GatherData; any thread   *)
(* may call it.                                                            *)
(*                                                                         *)
(* COM's own state (apartments, the security of the process) is external.  *)
(* It refuses to be secured twice while an apartment is open.              *)
(***************************************************************************)
EXTENDS Integers, FiniteSets, SequencesExt

CONSTANTS
  Threads,    \* threads of the host
  Machines,   \* the disks a machine may have, sequences of Disks
  Faults,     \* may a step fail that does not have to?
  MaxCalls    \* bound: calls of a thread

VARIABLES
  disks,      \* the machine's disks
  forgets,    \* does COM forget its security when the last apartment closes
  own,        \* own[t]: what the host made of thread t: "none", "mta", "sta"
  apartments, \* apartments[t]: initialisations of COM on thread t not undone
  security,   \* has CoInitializeSecurity succeeded
  pc,
  c,          \* c[t]: locals and scope exits of the call of t in progress
  calls,      \* calls[t]: calls t has made
  leaked,     \* leaked[t]: references the calls of t have lost
  overlapped, \* have two calls ever been under way at the same time
  answers     \* answers[t]: what the calls of t returned

machine == <<disks, forgets, own>>
vars == <<machine, apartments, security, pc, c, calls, leaked, overlapped, answers>>

Disks      == {"hdd", "ssd", "other"}
References == {"pLoc", "pSvc", "pclsObj"}

ASSUME DrivesAssumption ==
  /\ Machines \subseteq Seq(Disks)
  /\ Faults \in BOOLEAN
  /\ MaxCalls \in Nat

HostOpens(t)  == IF own[t] = "none" THEN 0 ELSE 1
IsDrive(disk) == disk \in {"hdd", "ssd"}

\* Mutation: pLoc's scope exit is armed with pSvc's.
ArmsTooLate ==
  << [gets |-> {},              arms |-> <<>>],
     [gets |-> {"pLoc"},        arms |-> <<>>],
     [gets |-> {"pSvc"},        arms |-> <<>>],
     [gets |-> {},              arms |-> <<"pLoc", "pSvc">>],
     [gets |-> {"pEnumerator"}, arms |-> <<>>] >>

\* Before the query can be listened to, in this order: CoInitializeSecurity,
\* CoCreateInstance, ConnectServer, CoSetProxyBlanket, ExecQuery.  What each
\* gets, and the scope exits armed once it has succeeded.
Ladder ==
  << [gets |-> {},              arms |-> <<>>],
     [gets |-> {"pLoc"},        arms |-> <<>>],
     [gets |-> {"pSvc"},        arms |-> <<"pLoc">>],
     [gets |-> {},              arms |-> <<"pSvc">>],
     [gets |-> {"pEnumerator"}, arms |-> <<>>] >>
Secures(step) == step = 1
\* ConnectServer and ExecQuery are given texts, each a bstr_t that may not be had.
NeedsText(step) == step \in {3, 5}

\* step: of the ladder; armed: the scope exits to run, innermost last; held:
\* references owned; n: disks fetched; drives: the vector; faulted: did a step
\* fail that did not have to; thrown: is an exception on its way out.
Idle == [step |-> 1, armed |-> <<>>, held |-> {}, n |-> 0, drives |-> <<>>,
         faulted |-> FALSE, thrown |-> FALSE]

TypeOK ==
  /\ disks \in Machines
  /\ own \in [Threads -> {"none", "mta", "sta"}]
  /\ forgets \in BOOLEAN /\ security \in BOOLEAN /\ overlapped \in BOOLEAN
  /\ apartments \in [Threads -> 0 .. 2]
  /\ pc \in [Threads -> {"host", "climb", "next", "object", "exit"}]
  /\ c \in [Threads -> [step : 1 .. Len(Ladder) + 1, armed : Seq(References \cup {"com"}),
                       held : SUBSET (References \cup {"pEnumerator"}), n : 0 .. Len(disks),
                       drives : Seq(Disks), faulted : BOOLEAN, thrown : BOOLEAN]]
  /\ calls \in [Threads -> 0 .. MaxCalls]
  /\ leaked \in [Threads -> Nat]
  /\ answers \in [Threads -> SUBSET [drives : Seq(Disks), faulted : BOOLEAN]]

Init ==
  /\ disks \in Machines
  /\ forgets \in BOOLEAN
  /\ own \in [Threads -> {"none", "mta", "sta"}]
  /\ apartments = [t \in Threads |-> HostOpens(t)]
  /\ security \in {FALSE} \cup {own[t] # "none" : t \in Threads}
  /\ pc = [t \in Threads |-> "host"]
  /\ c = [t \in Threads |-> Idle]
  /\ calls = [t \in Threads |-> 0]
  /\ leaked = [t \in Threads |-> 0]
  /\ overlapped = FALSE
  /\ answers = [t \in Threads |-> {}]

-----------------------------------------------------------------------------
history == <<calls, leaked, overlapped, answers>>

Goto(t, place) == pc' = [pc EXCEPT ![t] = place]
Fail(t)  == Goto(t, "exit") /\ c' = [c EXCEPT ![t].faulted = TRUE]
Throw(t) == Goto(t, "exit") /\ c' = [c EXCEPT ![t].faulted = TRUE, ![t].thrown = TRUE]

Enter(t) ==
  /\ pc[t] = "host"
  /\ calls[t] < MaxCalls
  /\ calls' = [calls EXCEPT ![t] = @ + 1]
  /\ overlapped' = (overlapped \/ \E u \in Threads : pc[u] # "host")
  /\ UNCHANGED <<machine, security, leaked, answers>>

\* Mutation: the scope exit is armed before it is known whether it is due.
ArmedFirst(t) ==
  /\ Enter(t)
  /\ \/ /\ own[t] = "sta" \/ Faults
        /\ Goto(t, "exit")
        /\ c' = [c EXCEPT ![t] = [Idle EXCEPT !.armed = <<"com">>, !.faulted = TRUE]]
        /\ UNCHANGED apartments
     \/ /\ own[t] # "sta"
        /\ apartments' = [apartments EXCEPT ![t] = @ + 1]
        /\ c' = [c EXCEPT ![t] = [Idle EXCEPT !.armed = <<"com">>]]
        /\ Goto(t, "climb")

\* CoInitializeEx(COINIT_MULTITHREADED), refused to a single-threaded apartment.
CoInitialize(t) ==
  /\ Enter(t)
  /\ \/ /\ own[t] = "sta" \/ Faults
        /\ Goto(t, "exit")
        /\ c' = [c EXCEPT ![t] = [Idle EXCEPT !.faulted = TRUE]]
        /\ UNCHANGED apartments
     \/ /\ own[t] # "sta"
        /\ apartments' = [apartments EXCEPT ![t] = @ + 1]
        /\ c' = [c EXCEPT ![t] = [Idle EXCEPT !.armed = <<"com">>]]
        /\ Goto(t, "climb")

\* One step of the ladder.  CoInitializeSecurity gives RPC_E_TOO_LATE if the
\* process has been secured.
Climb(t) ==
  /\ pc[t] = "climb"
  /\ LET step == c[t].step IN
       \/ /\ Faults
          /\ Fail(t) \/ (NeedsText(step) /\ Throw(t))
          /\ UNCHANGED security
       \/ /\ Secures(step) /\ security
          /\ Goto(t, "exit")
          /\ UNCHANGED <<c, security>>
       \/ /\ ~(Secures(step) /\ security)
          /\ security' = (security \/ Secures(step))
          /\ c' = [c EXCEPT ![t].step = @ + 1, ![t].held = @ \cup Ladder[step].gets,
                            ![t].armed = @ \o Ladder[step].arms]
          /\ Goto(t, IF step = Len(Ladder) THEN "next" ELSE "climb")
  /\ UNCHANGED <<machine, apartments, history>>

\* Mutation: the last disk is not fetched.
FetchOneFewer(t) ==
  /\ pc[t] = "next"
  /\ \/ Faults /\ Fail(t)
     \/ c[t].n + 1 >= Len(disks) /\ Goto(t, "exit") /\ UNCHANGED c
     \/ /\ c[t].n + 1 < Len(disks)
        /\ c' = [c EXCEPT ![t].n = @ + 1, ![t].held = @ \cup {"pclsObj"},
                          ![t].armed = Append(@, "pclsObj")]
        /\ Goto(t, "object")
  /\ UNCHANGED <<machine, apartments, security, history>>

\* pEnumerator->Next: a failure ends the list as its end does.
FetchDisk(t) ==
  /\ pc[t] = "next"
  /\ \/ Faults /\ Fail(t)
     \/ c[t].n = Len(disks) /\ Goto(t, "exit") /\ UNCHANGED c
     \/ /\ c[t].n < Len(disks)
        /\ c' = [c EXCEPT ![t].n = @ + 1, ![t].held = @ \cup {"pclsObj"},
                          ![t].armed = Append(@, "pclsObj")]
        /\ Goto(t, "object")
  /\ UNCHANGED <<machine, apartments, security, history>>

\* A drive joins the list; anything else does not.
List(list, disk) == IF IsDrive(disk) THEN Append(list, disk) ELSE list

\* The disk's properties are read, and whether it is listed or not (continue)
\* the object's scope ends; or a string or the vector cannot grow.
ListDisk(t) ==
  /\ pc[t] = "object"
  /\ \/ /\ c' = [c EXCEPT ![t].drives = List(@, disks[c[t].n]),
                          ![t].held = @ \ {"pclsObj"}, ![t].armed = Front(@)]
        /\ Goto(t, "next")
     \/ Faults /\ Throw(t)
  /\ UNCHANGED <<machine, apartments, security, history>>

\* The scope exit that runs next, and those left: the last armed is the first to
\* run.  (Mutation: the first armed is.)
FirstArmed(armed) == [runs |-> Head(armed), left |-> Tail(armed)]
Innermost(armed) == [runs |-> Last(armed), left |-> Front(armed)]

\* Mutation: with nothing but COM to give back, nothing is.
ExitKeepsApartment(t) ==
  /\ pc[t] = "exit" /\ c[t].armed # <<>>
  /\ LET x == Innermost(c[t].armed).runs IN
       /\ c' = [c EXCEPT ![t].armed = Innermost(@).left, ![t].held = @ \ {x}]
       /\ apartments' = IF x = "com" /\ c[t].step > 1
                        THEN [apartments EXCEPT ![t] = @ - 1] ELSE apartments
       /\ security' =
            (security /\ ~(x = "com" /\ forgets /\ \A u \in Threads : apartments'[u] = 0))
  /\ UNCHANGED <<machine, pc, history>>

\* ~ScopeExit.  With its last apartment COM may forget how it was secured.
RunExit(t) ==
  /\ pc[t] = "exit" /\ c[t].armed # <<>>
  /\ LET x == Innermost(c[t].armed).runs IN
       /\ c' = [c EXCEPT ![t].armed = Innermost(@).left, ![t].held = @ \ {x}]
       /\ apartments' = IF x = "com" THEN [apartments EXCEPT ![t] = @ - 1] ELSE apartments
       /\ security' =
            (security /\ ~(x = "com" /\ forgets /\ \A u \in Threads : apartments'[u] = 0))
  /\ UNCHANGED <<machine, pc, history>>

\* The call is over; what it still owns is lost.
Return(t) ==
  /\ pc[t] = "exit" /\ c[t].armed = <<>>
  /\ Goto(t, "host")
  /\ leaked' = [leaked EXCEPT ![t] = @ + Cardinality(c[t].held)]
  /\ answers' = IF c[t].thrown THEN answers
                ELSE [answers EXCEPT ![t] = @ \cup
                        {[drives |-> c[t].drives, faulted |-> c[t].faulted]}]
  /\ c' = [c EXCEPT ![t] = Idle]
  /\ UNCHANGED <<machine, apartments, security, calls, overlapped>>

Step(t) == \/ CoInitialize(t) \/ Climb(t) \/ FetchDisk(t) \/ ListDisk(t)
           \/ RunExit(t) \/ Return(t)
Next == \E t \in Threads : Step(t)
Spec == Init /\ [][Next]_vars

-----------------------------------------------------------------------------
\* Whichever way a call ends, the thread has as many apartments open as its
\* host opened.
ApartmentsBalanced ==
  \A t \in Threads : pc[t] = "host" => apartments[t] = HostOpens(t)

\* COM is not closed on a thread while an object of it is still to be released:
\* the scope exits run in the reverse of the order in which they were armed.
ReleasedInApartment ==
  \A t \in Threads : ToSet(c[t].armed) \cap References # {} =>
                       apartments[t] > HostOpens(t)

\* The releases armed late (pLoc after ConnectServer, pSvc after
\* CoSetProxyBlanket) and the enumerator never released cost a call one reference
\* at most: on its way out all it holds but one has a scope exit waiting.  So in
\* the life of a thread no more is lost than calls were made.
LeakOneACall ==
  \A t \in Threads :
    /\ pc[t] = "exit" => Cardinality(c[t].held \ ToSet(c[t].armed)) <= 1
    /\ leaked[t] <= calls[t]

\* The list has the drives among the first n of these disks, in their order, and
\* nothing else: place says where each entry stands.
DrivesAmong(list, these, n) ==
  \E place \in [DOMAIN list -> 1 .. n] :
    /\ \A i, k \in DOMAIN list : i < k => place[i] < place[k]
    /\ \A k \in DOMAIN list : list[k] = these[place[k]]
    /\ \A m \in 1 .. n : IsDrive(these[m]) <=> \E k \in DOMAIN list : place[k] = m

\* A list is the machine's drives, in its order and without anything else, from
\* the first on; and only a step that failed cuts it short in the middle.
AllOrNothing ==
  \A t \in Threads : \A x \in answers[t] :
    \E n \in IF x.faulted THEN 0 .. Len(disks) ELSE {0, Len(disks)} :
      DrivesAmong(x.drives, disks, n)

\* A caller that finds the process secured is told that there are no drives,
\* although nothing failed.  That needs an overlap, a host that uses COM itself, or
\* a COM that keeps its security when the last apartment closes.  Without any of
\* the three, every call gets every drive unless one of its steps failed.
SerialCallsAgree ==
  forgets /\ ~overlapped /\ (\A t \in Threads : own[t] = "none") =>
    \A t \in Threads : \A x \in answers[t] : x.faulted \/ DrivesAmong(x.drives, disks, Len(disks))
=============================================================================
