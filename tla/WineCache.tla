------------------------------ MODULE WineCache ------------------------------
(***************************************************************************)
(* IsWine, GetWineVersion and GetWineHostOs (src/wine/wine.cpp), called by *)
(* any thread of the host and by every gathering.                          *)
(*                                                                         *)
(* Each keeps two plain statics, the value and hasCached, in the idiom of  *)
(* WriteOnce and without a lock; as in Retrieval, the two stores of a      *)
(* thread reach memory one by one in any order.  Every value ever stored   *)
(* is the same one, Wine's word on the matter, so a static only has to     *)
(* tell whether it still is the default (false, ""): the texts that        *)
(* several threads copy with _strdup are equal.                            *)
(***************************************************************************)
EXTENDS Naturals

CONSTANTS
  Threads,    \* threads of the host
  Caches,     \* the functions they call, a subset of AllCaches
  MaxMisses   \* bound: how often ntdll is not found, or a string throws

AllCaches == {"IsWine", "GetWineVersion", "GetWineHostOs"}

VARIABLES
  exports,    \* the functions of ntdll that only Wine has
  value,      \* value[c]: does memory hold Wine's word for c
  hasCached,  \* hasCached[c]: the flag of c, as memory holds it
  pending,    \* pending[t]: stores of t that have not reached memory
  pc,         \* where each thread is
  call,       \* call[t]: the function t is in, or called last
  last,       \* last[t][c]: what c answered t last
  misses      \* calls that could not look

vars == <<exports, value, hasCached, pending, pc, call, last, misses>>

ASSUME WineAssumption ==
  /\ Threads # {}
  /\ Caches \subseteq AllCaches
  /\ MaxMisses \in Nat

\* Wine can hide any of its exports.
Exported(c) == IF c = "GetWineHostOs" THEN "wine_get_host_version" ELSE "wine_get_version"
Exports == {Exported(c) : c \in Caches}
Truth(c) == Exported(c) \in exports

TypeOK ==
  /\ exports \subseteq Exports
  /\ value \in [Caches -> BOOLEAN]
  /\ hasCached \in [Caches -> BOOLEAN]
  /\ pending \in [Threads -> SUBSET (Caches \X {"value", "flag"})]
  /\ pc \in [Threads -> {"host", "check", "look"}]
  /\ call \in [Threads -> Caches]
  /\ last \in [Threads -> [Caches -> {"nothing", "default", "wine"}]]
  /\ misses \in 0 .. MaxMisses

Init ==
  /\ exports \in SUBSET Exports
  /\ value = [c \in Caches |-> FALSE]
  /\ hasCached = [c \in Caches |-> FALSE]
  /\ pending = [t \in Threads |-> {}]
  /\ pc = [t \in Threads |-> "host"]
  /\ call \in [Threads -> Caches]
  /\ last = [t \in Threads |-> [c \in Caches |-> "nothing"]]
  /\ misses = 0

SeesFlag(t, c) == hasCached[c] \/ <<c, "flag">> \in pending[t]
SeesWord(t, c) == value[c] \/ (<<c, "value">> \in pending[t] /\ Truth(c))

Told(t, c, word) == last' = [last EXCEPT ![t][c] = IF word THEN "wine" ELSE "default"]

-----------------------------------------------------------------------------
Call(t, c) ==
  /\ pc[t] = "host"
  /\ pc' = [pc EXCEPT ![t] = "check"]
  /\ call' = [call EXCEPT ![t] = c]
  /\ UNCHANGED <<exports, value, hasCached, pending, last, misses>>

\* if (!hasCached) is false: answer with the static.
ReturnCached(t) ==
  /\ pc[t] = "check"
  /\ SeesFlag(t, call[t])
  /\ pc' = [pc EXCEPT ![t] = "host"]
  /\ Told(t, call[t], SeesWord(t, call[t]))
  /\ UNCHANGED <<exports, value, hasCached, pending, call, misses>>

\* Mutation: if (!hasCached) is lost.
EnterAnyway(t) ==
  /\ pc[t] = "check"
  /\ pc' = [pc EXCEPT ![t] = "look"]
  /\ UNCHANGED <<exports, value, hasCached, pending, call, last, misses>>

Enter(t) ==
  /\ pc[t] = "check"
  /\ ~SeesFlag(t, call[t])
  /\ pc' = [pc EXCEPT ![t] = "look"]
  /\ UNCHANGED <<exports, value, hasCached, pending, call, last, misses>>

\* Mutation: hasCached is raised before ntdll is looked up.
MissAndRemember(t) ==
  /\ pc[t] = "look"
  /\ misses < MaxMisses
  /\ misses' = misses + 1
  /\ pc' = [pc EXCEPT ![t] = "host"]
  /\ pending' = [pending EXCEPT ![t] = @ \cup {<<call[t], "flag">>}]
  /\ Told(t, call[t], FALSE)
  /\ UNCHANGED <<exports, value, hasCached, call>>

\* if (!hMod): the default is answered and nothing remembered.
Miss(t) ==
  /\ pc[t] = "look"
  /\ misses < MaxMisses
  /\ misses' = misses + 1
  /\ pc' = [pc EXCEPT ![t] = "host"]
  /\ Told(t, call[t], FALSE)
  /\ UNCHANGED <<exports, value, hasCached, pending, call>>

\* hostOsA throws: nothing is answered and nothing remembered.
Throw(t) ==
  /\ pc[t] = "look"
  /\ call[t] = "GetWineHostOs" /\ Truth(call[t])
  /\ misses < MaxMisses
  /\ misses' = misses + 1
  /\ pc' = [pc EXCEPT ![t] = "host"]
  /\ UNCHANGED <<exports, value, hasCached, pending, call, last>>

\* The export is looked up; IsWine stores whether it is there, the others its
\* answer if it is; and the flag is raised.
Store(t) ==
  /\ pc[t] = "look"
  /\ pc' = [pc EXCEPT ![t] = "host"]
  /\ LET c      == call[t]
         stored == IF c = "IsWine" \/ Truth(c) THEN {"value", "flag"} ELSE {"flag"}
     IN  /\ pending' = [pending EXCEPT ![t] = @ \cup ({c} \X stored)]
         /\ Told(t, c, Truth(c))
  /\ UNCHANGED <<exports, value, hasCached, call, misses>>

\* A store reaches memory.
Drain(t) ==
  \E s \in pending[t] :
    /\ pending' = [pending EXCEPT ![t] = @ \ {s}]
    /\ IF s[2] = "value"
       THEN value' = [value EXCEPT ![s[1]] = Truth(s[1])] /\ UNCHANGED hasCached
       ELSE hasCached' = [hasCached EXCEPT ![s[1]] = TRUE] /\ UNCHANGED value
    /\ UNCHANGED <<exports, pc, call, last, misses>>

Run(t) == ReturnCached(t) \/ Enter(t) \/ Miss(t) \/ Throw(t) \/ Store(t)

Next == \E t \in Threads : (\E c \in Caches : Call(t, c)) \/ Run(t) \/ Drain(t)

Spec == Init /\ [][Next]_vars

\* A call that has begun goes on, and a store reaches memory in the end.
FairSpec == Spec /\ \A t \in Threads : WF_vars(Run(t)) /\ WF_vars(Drain(t))

-----------------------------------------------------------------------------
\* A thread that has been told of Wine is never again told there is none, though
\* other threads fill the same statics and ntdll may be out of reach.  The other
\* way round is not promised: IsWine may tell one section of a gathering no, and
\* Wine a later one.
NeverTakenBack ==
  [][\A t \in Threads, c \in Caches : last[t][c] = "wine" => last'[t][c] = "wine"]_vars

\* An answer that denies Wine under Wine has one of two causes: this call could not
\* look, or another thread's store of Wine's word is still on its way although its
\* flag has been seen.  Nobody's lookup leaves a flag behind that denies it later.
\* (GetD3DInfo, told no in that window, loads the library that d3d_info.cpp:315
\* keeps away from.)
WrongOnlyInWindow ==
  [][\A t \in Threads :
       LET c == call[t] IN
         pc[t] # "host" /\ pc'[t] = "host" /\ Truth(c) /\ last'[t][c] = "default" =>
           \/ misses' > misses
           \/ \E u \in Threads \ {t} : <<c, "value">> \in pending[u]]_vars

\* And the window closes: from the first flag raised on, memory is bound to hold
\* the truth for good, with no store left that could change it.
Raised(c) == hasCached[c] \/ \E t \in Threads : <<c, "flag">> \in pending[t]
Settled(c) ==
  /\ hasCached[c] /\ value[c] = Truth(c)
  /\ \A t \in Threads : pending[t] \cap ({c} \X {"value", "flag"}) = {}
SettlesOnTruth == \A c \in Caches : Raised(c) ~> []Settled(c)
=============================================================================
