-------------------------- MODULE WineCacheProofs --------------------------
(***************************************************************************)
(* Proofs about WineCache, for any threads, any of the three caches and    *)
(* any number of misses.                                                   *)
(***************************************************************************)
EXTENDS WineCache, TLAPS

LEMMA InitType == Init => TypeOK
  BY WineAssumption DEF Init, TypeOK, Exports

\* Every variable keeps its type.
LEMMA NextType == TypeOK /\ [Next]_vars => TypeOK'
<1> SUFFICES ASSUME TypeOK, [Next]_vars PROVE TypeOK'
  OBVIOUS
<1> USE WineAssumption DEF TypeOK
<1>1. ASSUME NEW t \in Threads, NEW c \in Caches, Call(t, c) PROVE TypeOK'
  BY <1>1 DEF Call, Exports, Exported
<1>2. ASSUME NEW t \in Threads, Run(t) PROVE TypeOK'
  <2>1. CASE ReturnCached(t)
    BY <2>1 DEF ReturnCached, Told, Exports, Exported
  <2>2. CASE Enter(t)
    BY <2>2 DEF Enter, Exports, Exported
  <2>3. CASE Miss(t)
    BY <2>3 DEF Miss, Told, Exports, Exported
  <2>4. CASE Throw(t)
    BY <2>4 DEF Throw, Exports, Exported
  <2>5. CASE Store(t)
    <3>1. call[t] \in Caches
      OBVIOUS
    <3> DEFINE stored == IF call[t] = "IsWine" \/ Truth(call[t])
                         THEN {"value", "flag"} ELSE {"flag"}
    <3>2. {call[t]} \X stored \subseteq Caches \X {"value", "flag"}
      BY <3>1
    <3>3. pending' = [pending EXCEPT ![t] = @ \cup ({call[t]} \X stored)]
      BY <2>5 DEF Store
    <3>4. pending' \in [Threads -> SUBSET (Caches \X {"value", "flag"})]
      <4> HIDE DEF stored
      <4> QED BY <3>2, <3>3
    <3> QED BY <2>5, <3>4 DEF Store, Told, Exports, Exported
  <2> QED BY <1>2, <2>1, <2>2, <2>3, <2>4, <2>5 DEF Run
<1>3. ASSUME NEW t \in Threads, Drain(t) PROVE TypeOK'
  <2>1. PICK s \in pending[t] : Drain(t)!(s)
    BY <1>3 DEF Drain
  <2>2. s[1] \in Caches /\ pending[t] \subseteq Caches \X {"value", "flag"}
    BY <2>1
  <2>3. Truth(s[1]) \in BOOLEAN
    BY DEF Truth
  <2>4. pending' \in [Threads -> SUBSET (Caches \X {"value", "flag"})]
    BY <2>1, <2>2
  <2>5. value' \in [Caches -> BOOLEAN] /\ hasCached' \in [Caches -> BOOLEAN]
    BY <2>1, <2>2, <2>3
  <2> QED BY <2>1, <2>4, <2>5 DEF Exports, Exported
<1>4. CASE UNCHANGED vars
  BY <1>4 DEF vars, Exports, Exported
<1> QED BY <1>1, <1>2, <1>3, <1>4 DEF Next

\* Every variable keeps its type; in particular a store is pending only for a
\* static that exists, and at most MaxMisses calls could not look.
THEOREM TypeCorrect == Spec => []TypeOK
  BY InitType, NextType, PTL DEF Spec

-----------------------------------------------------------------------------
(* A thread that was told of Wine sees the flag and the word, in memory or    *)
(* among its own pending stores, and is not looking again; and memory never   *)
(* holds a word of Wine's that Wine does not say.                             *)
ToldInv ==
  /\ \A c \in Caches : value[c] => Truth(c)
  /\ \A t \in Threads, c \in Caches :
       last[t][c] = "wine" =>
         /\ Truth(c)
         /\ SeesFlag(t, c) /\ SeesWord(t, c)
         /\ ~(pc[t] = "look" /\ call[t] = c)

LEMMA InitTold == Init => ToldInv
  BY DEF Init, ToldInv

\* What a step leaves of the answers of others, and of what they see.
LEMMA Others ==
  ASSUME TypeOK, ToldInv, NEW t \in Threads, Run(t)
  PROVE  /\ UNCHANGED <<exports, value, hasCached, call>>
         /\ pc' = [pc EXCEPT ![t] = pc'[t]]
         /\ pending' = [pending EXCEPT ![t] = pending'[t]]
         /\ last' = [last EXCEPT ![t] = [last[t] EXCEPT ![call[t]] = last'[t][call[t]]]]
         /\ pending[t] \subseteq pending'[t]
  BY DEF TypeOK, Run, ReturnCached, Enter, Miss, Throw, Store, Told

\* ToldInv is inductive.
LEMMA NextTold == TypeOK /\ ToldInv /\ [Next]_vars => ToldInv'
<1> SUFFICES ASSUME TypeOK, ToldInv, [Next]_vars PROVE ToldInv'
  OBVIOUS
<1>1. ASSUME NEW t \in Threads, NEW c \in Caches, Call(t, c) PROVE ToldInv'
  BY <1>1 DEF Call, TypeOK, ToldInv, SeesFlag, SeesWord, Truth
<1>2. ASSUME NEW t \in Threads, Run(t) PROVE ToldInv'
  <2>0. PICK k \in Caches : k = call[t]
    BY DEF TypeOK
  <2>1. \A c \in Caches : Truth(c)' = Truth(c) /\ (value'[c] => Truth(c)')
    BY <1>2, Others DEF ToldInv, Truth
  <2>2. ASSUME NEW u \in Threads, NEW c \in Caches, last'[u][c] = "wine", <<u, c>> # <<t, k>>
        PROVE  Truth(c) /\ (SeesFlag(u, c) /\ SeesWord(u, c))'
                 /\ ~(pc'[u] = "look" /\ call'[u] = c)
    <3>1. last[u][c] = "wine"
      BY <1>2, <2>0, <2>2, Others DEF TypeOK
    <3>2. Truth(c) /\ SeesFlag(u, c) /\ SeesWord(u, c) /\ ~(pc[u] = "look" /\ call[u] = c)
      BY <3>1 DEF ToldInv
    <3>3. pending[u] \subseteq pending'[u]
      BY <1>2, Others DEF TypeOK
    <3>4. (SeesFlag(u, c) /\ SeesWord(u, c))'
      BY <1>2, <2>1, <3>2, <3>3, Others DEF SeesFlag, SeesWord
    <3>5. u = t => c # k
      BY <2>2
    <3>6. ~(pc'[u] = "look" /\ call'[u] = c)
      <4>1. call' = call /\ (u # t => pc'[u] = pc[u])
        BY <1>2, Others DEF TypeOK
      <4> QED BY <2>0, <3>2, <3>5, <4>1
    <3> QED BY <3>2, <3>4, <3>6
  <2>3. ASSUME last'[t][k] = "wine"
        PROVE  Truth(k) /\ (SeesFlag(t, k) /\ SeesWord(t, k))' /\ pc'[t] # "look"
    <3>1. CASE ReturnCached(t)
      <4>1. SeesFlag(t, k) /\ pc'[t] = "host" /\ pending' = pending
        BY <2>0, <3>1 DEF ReturnCached, TypeOK
      <4>0. last'[t][k] = IF SeesWord(t, k) THEN "wine" ELSE "default"
        BY <2>0, <3>1 DEF ReturnCached, Told, TypeOK
      <4>3. SeesWord(t, k)
        BY <2>3, <4>0
      <4>2. Truth(k)
        BY <2>0, <4>3 DEF SeesWord, ToldInv
      <4> QED BY <1>2, <2>0, <2>1, <4>1, <4>2, <4>3, Others DEF SeesFlag, SeesWord
    <3>2. CASE Enter(t)
      <4>1. last[t][k] = "wine" /\ ~SeesFlag(t, k)
        BY <2>0, <2>3, <3>2 DEF Enter
      <4> QED BY <2>0, <4>1 DEF ToldInv
    <3>3. CASE Miss(t)
      BY <2>0, <2>3, <3>3 DEF Miss, Told, TypeOK
    <3>4. CASE Throw(t)
      <4>1. last[t][k] = "wine" /\ pc[t] = "look"
        BY <2>0, <2>3, <3>4 DEF Throw
      <4> QED BY <2>0, <4>1 DEF ToldInv
    <3>5. CASE Store(t)
      <4>1. Truth(k) /\ pc'[t] = "host"
        BY <2>0, <2>3, <3>5 DEF Store, Told, TypeOK
      <4>2. pending'[t] = pending[t] \cup ({k} \X {"value", "flag"})
        BY <2>0, <3>5, <4>1 DEF Store, TypeOK
      <4>3. <<k, "value">> \in pending'[t] /\ <<k, "flag">> \in pending'[t]
        BY <4>2
      <4> QED BY <2>0, <2>1, <4>1, <4>3 DEF SeesFlag, SeesWord
    <3> QED BY <1>2, <3>1, <3>2, <3>3, <3>4, <3>5 DEF Run
  <2>4. call' = call
    BY <1>2, Others
  <2> QED BY <2>0, <2>1, <2>2, <2>3, <2>4 DEF ToldInv
<1>3. ASSUME NEW t \in Threads, Drain(t) PROVE ToldInv'
  <2>1. PICK s \in pending[t] : Drain(t)!(s)
    BY <1>3 DEF Drain
  <2>2. s \in Caches \X {"value", "flag"}
    BY <2>1 DEF TypeOK
  <2>3. UNCHANGED <<exports, pc, call, last>>
    BY <2>1
  <2>4. \A c \in Caches : Truth(c)' = Truth(c)
    BY <2>3 DEF Truth
  <2>5. \A c \in Caches :
          /\ hasCached'[c] = (hasCached[c] \/ s = <<c, "flag">>)
          /\ value'[c] = IF s = <<c, "value">> THEN Truth(c) ELSE value[c]
    <3>1. CASE s[2] = "value"
      BY <2>1, <2>2, <3>1 DEF TypeOK
    <3>2. CASE s[2] = "flag"
      <4>1. s[2] # "value" /\ \A c \in Caches : s # <<c, "value">>
        BY <3>2
      <4>2. value' = value /\ hasCached' = [hasCached EXCEPT ![s[1]] = TRUE]
        BY <2>1, <4>1
      <4>3. \A c \in Caches : s = <<c, "flag">> <=> s[1] = c
        BY <2>2, <3>2
      <4> QED BY <2>2, <4>1, <4>2, <4>3 DEF TypeOK
    <3> QED BY <2>2, <3>1, <3>2
  <2>6. \A u \in Threads : pending[u] \subseteq pending'[u] \cup {s}
    BY <2>1 DEF TypeOK
  <2>7. \A u \in Threads, c \in Caches :
          Truth(c) /\ SeesFlag(u, c) /\ SeesWord(u, c) => (SeesFlag(u, c) /\ SeesWord(u, c))'
    BY <2>4, <2>5, <2>6 DEF SeesFlag, SeesWord
  <2>8. \A c \in Caches : value'[c] => Truth(c)'
    BY <2>4, <2>5 DEF ToldInv
  <2> QED BY <2>3, <2>4, <2>7, <2>8 DEF ToldInv
<1>4. CASE UNCHANGED vars
  BY <1>4 DEF vars, ToldInv, SeesFlag, SeesWord, Truth
<1> QED BY <1>1, <1>2, <1>3, <1>4 DEF Next

\* However many threads fill the three caches at once, in whichever order their
\* stores reach memory and whenever ntdll cannot be looked at, a thread that was
\* told of Wine is never again told there is none.
THEOREM NeverTakenBackAlways == Spec => NeverTakenBack
<1>1. ASSUME TypeOK, ToldInv, [Next]_vars
      PROVE  [\A t \in Threads, c \in Caches :
                last[t][c] = "wine" => last'[t][c] = "wine"]_vars
  <2> SUFFICES ASSUME NEW u \in Threads, NEW c \in Caches, last[u][c] = "wine"
               PROVE  last'[u][c] = "wine"
    OBVIOUS
  <2>1. SeesFlag(u, c) /\ SeesWord(u, c) /\ Truth(c) /\ ~(pc[u] = "look" /\ call[u] = c)
    BY <1>1 DEF ToldInv
  <2>2. ASSUME NEW t \in Threads, Run(t) PROVE last'[u][c] = "wine"
    <3>1. CASE <<u, c>> # <<t, call[t]>>
      BY <1>1, <2>2, <3>1, Others DEF TypeOK
    <3>2. CASE u = t /\ c = call[t]
      <4>1. pc[t] # "look"
        BY <2>1, <3>2
      <4>2. ReturnCached(t) \/ Enter(t)
        BY <2>2, <4>1 DEF Run, Miss, Throw, Store
      <4> QED BY <1>1, <2>1, <3>2, <4>2 DEF ReturnCached, Enter, Told, TypeOK
    <3> QED BY <3>1, <3>2
  <2>3. ASSUME NEW t \in Threads, Drain(t) PROVE last'[u][c] = "wine"
    BY <2>3 DEF Drain
  <2>4. ASSUME NEW t \in Threads, NEW d \in Caches, Call(t, d) PROVE last'[u][c] = "wine"
    BY <2>4 DEF Call
  <2>5. CASE UNCHANGED vars
    BY <2>5 DEF vars
  <2> QED BY <1>1, <2>2, <2>3, <2>4, <2>5 DEF Next
<1>2. Init => TypeOK /\ ToldInv
  BY InitType, InitTold
<1>3. TypeOK /\ ToldInv /\ [Next]_vars => TypeOK' /\ ToldInv'
  BY NextType, NextTold
<1> QED BY <1>1, <1>2, <1>3, PTL DEF Spec, NeverTakenBack

-----------------------------------------------------------------------------
(* Who has raised a flag under Wine has stored Wine's word before: it is in   *)
(* memory, or still on its way from somebody.                                 *)
WordSomewhere(c) == value[c] \/ \E u \in Threads : <<c, "value">> \in pending[u]
WindowInv == \A c \in Caches : Truth(c) /\ Raised(c) => WordSomewhere(c)

LEMMA InitWindow == Init => WindowInv
  BY DEF Init, WindowInv, Raised

\* WindowInv is inductive.
LEMMA NextWindow == TypeOK /\ ToldInv /\ WindowInv /\ [Next]_vars => WindowInv'
<1> SUFFICES ASSUME TypeOK, ToldInv, WindowInv, [Next]_vars,
                    NEW c \in Caches, Truth(c)', Raised(c)'
             PROVE  WordSomewhere(c)'
  BY DEF WindowInv
<1> USE DEF WordSomewhere
<1>1. ASSUME NEW t \in Threads, NEW d \in Caches, Call(t, d) PROVE WordSomewhere(c)'
  BY <1>1 DEF Call, WindowInv, Raised, Truth
<1>2. ASSUME NEW t \in Threads, Run(t) PROVE WordSomewhere(c)'
  <2>1. /\ UNCHANGED <<exports, value, hasCached>> /\ Truth(c)
        /\ \A u \in Threads : pending[u] \subseteq pending'[u]
        /\ \A u \in Threads \ {t} : pending'[u] = pending[u]
    BY <1>2, Others DEF TypeOK, Truth
  <2>2. CASE Raised(c)
    BY <2>1, <2>2 DEF WindowInv
  <2>3. CASE ~Raised(c)
    <3>1. <<c, "flag">> \in pending'[t] \ pending[t]
      BY <2>1, <2>3 DEF Raised
    <3>2. Store(t)
      BY <1>2, <3>1 DEF Run, ReturnCached, Enter, Miss, Throw
    <3> DEFINE stored == IF call[t] = "IsWine" \/ Truth(call[t])
                         THEN {"value", "flag"} ELSE {"flag"}
    <3>3. pending'[t] = pending[t] \cup ({call[t]} \X stored)
      BY <3>2 DEF Store, TypeOK
    <3>4. c = call[t]
      <4> HIDE DEF stored
      <4> QED BY <3>1, <3>3
    <3>5. stored = {"value", "flag"}
      BY <2>1, <3>4
    <3>6. <<c, "value">> \in pending'[t]
      BY <3>3, <3>4, <3>5
    <3> QED BY <3>6
  <2> QED BY <2>2, <2>3
<1>3. ASSUME NEW t \in Threads, Drain(t) PROVE WordSomewhere(c)'
  <2>1. PICK s \in pending[t] : Drain(t)!(s)
    BY <1>3 DEF Drain
  <2>2. s \in Caches \X {"value", "flag"}
    BY <2>1 DEF TypeOK
  <2>3. Truth(c)
    BY <2>1 DEF Truth
  <2>4. \A u \in Threads : /\ pending'[u] \subseteq pending[u]
                           /\ pending[u] \subseteq pending'[u] \cup {s}
    BY <2>1 DEF TypeOK
  <2>5. CASE s[2] = "value"
    <3>1. hasCached' = hasCached /\ value' = [value EXCEPT ![s[1]] = Truth(s[1])]
      BY <2>1, <2>5
    <3>2. Raised(c)
      BY <2>4, <3>1 DEF Raised
    <3>3. WordSomewhere(c)
      BY <2>3, <3>2 DEF WindowInv
    <3>4. value[c] => value'[c]
      BY <2>2, <2>3, <3>1 DEF TypeOK
    <3>5. s = <<c, "value">> => value'[c]
      BY <2>2, <2>3, <3>1 DEF TypeOK
    <3> QED BY <2>4, <3>3, <3>4, <3>5
  <2>6. CASE s[2] = "flag"
    <3>0. s[2] # "value" /\ s # <<c, "value">>
      BY <2>6
    <3>1. value' = value /\ hasCached' = [hasCached EXCEPT ![s[1]] = TRUE]
      BY <2>1, <3>0
    <3>2. hasCached'[c] => hasCached[c] \/ s = <<c, "flag">>
      BY <2>2, <2>6, <3>1 DEF TypeOK
    <3>3. Raised(c)
      BY <2>1, <2>4, <3>2 DEF Raised
    <3>4. WordSomewhere(c)
      BY <2>3, <3>3 DEF WindowInv
    <3> QED BY <2>4, <3>0, <3>1, <3>4
  <2> QED BY <2>2, <2>5, <2>6
<1>4. CASE UNCHANGED vars
  BY <1>4 DEF vars, WindowInv, Raised, Truth
<1> QED BY <1>1, <1>2, <1>3, <1>4 DEF Next

\* For any threads, caches and misses: a call that denies Wine under Wine could not
\* look, or answered while another thread's store of Wine's word was on its way.
THEOREM WrongOnlyInWindowAlways == Spec => WrongOnlyInWindow
<1>1. ASSUME TypeOK, ToldInv, WindowInv, [Next]_vars
      PROVE  [\A t \in Threads :
                LET c == call[t] IN
                  pc[t] # "host" /\ pc'[t] = "host" /\ Truth(c) /\ last'[t][c] = "default" =>
                    \/ misses' > misses
                    \/ \E u \in Threads \ {t} : <<c, "value">> \in pending[u]]_vars
  <2> SUFFICES ASSUME NEW t \in Threads, pc[t] # "host", pc'[t] = "host", Truth(call[t]),
                      last'[t][call[t]] = "default", ~(misses' > misses)
               PROVE  \E u \in Threads \ {t} : <<call[t], "value">> \in pending[u]
    OBVIOUS
  <2>0. call[t] \in Caches
    BY <1>1 DEF TypeOK
  <2>1. ~UNCHANGED vars
    BY DEF vars
  <2>2. PICK u \in Threads : (\E d \in Caches : Call(u, d)) \/ Run(u) \/ Drain(u)
    BY <1>1, <2>1 DEF Next
  <2>3. u = t /\ (ReturnCached(t) \/ Miss(t) \/ Throw(t) \/ Store(t))
    <3>1. ~Drain(u)
      BY DEF Drain
    <3>0. /\ t \in Threads /\ u \in Threads
          /\ pc \in [Threads -> {"host", "check", "look"}]
          /\ pc[t] # "host" /\ pc'[t] = "host"
      BY <1>1 DEF TypeOK
    <3>2. ASSUME NEW d \in Caches PROVE ~Call(u, d)
      <4>1. SUFFICES ASSUME pc[u] = "host", pc' = [pc EXCEPT ![u] = "check"] PROVE FALSE
        BY DEF Call
      <4> QED BY <3>0, <4>1
    <3>3. Run(u)
      BY <2>2, <3>1, <3>2
    <3>4. u = t
      <4>1. pc' = [pc EXCEPT ![u] = pc'[u]]
        BY <1>1, <3>3, Others
      <4> QED BY <3>0, <4>1
    <3>5. ~Enter(t)
      <4>1. SUFFICES ASSUME pc' = [pc EXCEPT ![t] = "look"] PROVE FALSE
        BY DEF Enter
      <4> QED BY <3>0, <4>1
    <3> QED BY <3>3, <3>4, <3>5 DEF Run
  <2>4. CASE Miss(t) \/ Throw(t)
    <3>1. misses \in Nat
      BY <1>1, WineAssumption DEF TypeOK
    <3>2. misses' = misses + 1
      BY <2>4 DEF Miss, Throw
    <3> QED BY <3>1, <3>2
  <2>5. CASE Store(t)
    BY <1>1, <2>0, <2>5 DEF Store, Told, TypeOK
  <2>6. CASE ReturnCached(t)
    <3>1. SeesFlag(t, call[t]) /\ ~SeesWord(t, call[t])
      BY <1>1, <2>0, <2>6 DEF ReturnCached, Told, TypeOK
    <3>2. WordSomewhere(call[t])
      BY <1>1, <2>0, <3>1 DEF WindowInv, Raised, SeesFlag
    <3> QED BY <3>1, <3>2 DEF WordSomewhere, SeesWord
  <2> QED BY <2>3, <2>4, <2>5, <2>6
<1>2. Init => TypeOK /\ ToldInv /\ WindowInv
  BY InitType, InitTold, InitWindow
<1>3. TypeOK /\ ToldInv /\ WindowInv /\ [Next]_vars => TypeOK' /\ ToldInv' /\ WindowInv'
  BY NextType, NextTold, NextWindow
<1> QED BY <1>1, <1>2, <1>3, PTL DEF Spec, WrongOnlyInWindow
=============================================================================
