------------------------------ MODULE WriteOnce ------------------------------
(***************************************************************************)
(* What a lazily filled static of PDM promises when the calls do not       *)
(* overlap: it is filled at most once, and whoever asks afterwards is      *)
(* given that one value.  RetrievePDMData (pdm.cpp), HasVMExecutionTiming  *)
(* (gatherer.cpp) and GetD3DInfo (d3d_info.cpp) are written in this idiom, *)
(* and the modules about them are shown to implement this one; so are the  *)
(* three caches of wine.cpp, of which WineCache says what overlapping      *)
(* calls leave of it.                                                      *)
(***************************************************************************)
CONSTANTS
  Threads,   \* the callers
  Values,    \* what a successful computation can store
  Default,   \* what the static holds before that (not one of Values)
  MayMiss    \* whether a failed computation answers Default instead of failing

VARIABLES
  value,     \* the static
  answers    \* answers[t]: the set of all values thread t was ever given

vars == <<value, answers>>

Init ==
  /\ value = Default
  /\ answers = [t \in Threads |-> {}]

\* A computation succeeds and fills the static.
Publish ==
  /\ value = Default
  /\ value' \in Values
  /\ UNCHANGED answers

\* A caller is given what the static holds.
Answer(t) ==
  /\ value # Default
  /\ answers' = [answers EXCEPT ![t] = @ \cup {value}]
  /\ UNCHANGED value

\* A computation fails, the caller gets Default, and the next call retries.
Miss(t) ==
  /\ MayMiss
  /\ value = Default
  /\ answers' = [answers EXCEPT ![t] = @ \cup {Default}]
  /\ UNCHANGED value

Next == Publish \/ \E t \in Threads : Answer(t) \/ Miss(t)

Spec == Init /\ [][Next]_vars
=============================================================================
