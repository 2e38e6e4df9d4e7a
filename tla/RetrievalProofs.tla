-------------------------- MODULE RetrievalProofs --------------------------
(***************************************************************************)
(* Theorems about Retrieval for any set of threads and application names,  *)
(* any number of throws and of gatherings, proved with TLAPS.              *)
(***************************************************************************)
EXTENDS Retrieval, TLAPS

-----------------------------------------------------------------------------
(* Types.                                                                  *)

LEMMA InitType == Init => TypeOK
<1> SUFFICES ASSUME Init PROVE TypeOK
  OBVIOUS
<1>1. /\ data \in [Members -> Reports \cup {Empty}]
      /\ hasData \in BOOLEAN
      /\ pending \in [Threads -> SUBSET Stores]
  BY DEF Init, Whole
<1>2. /\ pc \in [Threads -> {"host", "check", "gather", "copy"}]
      /\ app \in [Threads -> Apps]
      /\ local \in [Threads -> Reports \cup {Empty}]
      /\ runs \in Nat /\ throws \in 0 .. MaxThrows
  BY RetrievalAssumption DEF Init
<1>3. /\ holding \in [Threads -> BOOLEAN]
      /\ draft \in [Threads -> Reports \cup {Empty, Torn}]
      /\ copies \in [Threads -> SUBSET [Members -> Reports \cup {Empty, Torn}]]
  BY DEF Init
<1> QED BY <1>1, <1>2, <1>3 DEF TypeOK

LEMMA StepType == TypeOK /\ [Next]_vars => TypeOK'
<1> SUFFICES ASSUME TypeOK, [Next]_vars PROVE TypeOK'
  OBVIOUS
<1> USE DEF TypeOK
<1>1. ASSUME NEW t \in Threads, NEW a \in Apps, Call(t, a) PROVE TypeOK'
  BY <1>1 DEF Call
<1>2. ASSUME NEW t \in Threads, ReturnCached(t) PROVE TypeOK'
  BY <1>2 DEF ReturnCached
<1>3. ASSUME NEW t \in Threads, BeginGather(t) PROVE TypeOK'
  BY <1>3 DEF BeginGather, Reports
<1>4. ASSUME NEW t \in Threads, GatherThrows(t) PROVE TypeOK'
  BY <1>4, RetrievalAssumption DEF GatherThrows
<1>5. ASSUME NEW t \in Threads, Assign(t) PROVE TypeOK'
  BY <1>5 DEF Assign
<1>6. ASSUME NEW t \in Threads, NEW m \in Members, DrainMember(t, m)
      PROVE TypeOK'
  BY <1>6 DEF DrainMember
<1>7. ASSUME NEW t \in Threads, DrainFlag(t) PROVE TypeOK'
  BY <1>7 DEF DrainFlag
<1>8. ASSUME NEW t \in Threads, BeginCopy(t) PROVE TypeOK'
  BY <1>8 DEF BeginCopy, View, Members
<1>9. ASSUME NEW t \in Threads, EndCopy(t) PROVE TypeOK'
  <2>1. View(t, "stamp") \in Reports \cup {Empty, Torn}
    BY DEF View, Members
  <2>2. [Whole(draft[t]) EXCEPT !.stamp = View(t, "stamp")]
          \in [Members -> Reports \cup {Empty, Torn}]
    BY <2>1 DEF Whole, Members
  <2> QED BY <1>9, <2>2 DEF EndCopy
<1>10. CASE UNCHANGED vars
  BY <1>10 DEF vars
<1> QED BY <1>1, <1>2, <1>3, <1>4, <1>5, <1>6, <1>7, <1>8, <1>9, <1>10
        DEF Next, Retrieve, Drain

\* Every variable keeps its type: in particular a member of the static is
\* always a report or empty, also when threads race (a Torn value is something
\* a reader may get, never something that is stored).
THEOREM TypeCorrect == Spec => []TypeOK
<1>1. Init => TypeOK BY InitType
<1>2. TypeOK /\ [Next]_vars => TypeOK' BY StepType
<1> QED BY <1>1, <1>2, PTL DEF Spec

-----------------------------------------------------------------------------
(* Overlapping calls.                                                      *)

\* Who holds the reference sees the flag, in memory or in its own pending
\* stores; a pending store belongs to a holder; a gathering thread is none.
HolderInv ==
  \A t \in Threads :
    /\ holding[t] => SeesData(t)
    /\ pending[t] # {} => holding[t]
    /\ pc[t] = "gather" => ~holding[t]

LEMMA InitHolder == Init => HolderInv
  BY DEF Init, HolderInv

LEMMA StepHolder == TypeOK /\ HolderInv /\ [Next]_vars => HolderInv'
<1> SUFFICES ASSUME TypeOK, HolderInv, [Next]_vars PROVE HolderInv'
  OBVIOUS
<1> USE DEF TypeOK, HolderInv, SeesData
<1>1. ASSUME NEW t \in Threads, NEW a \in Apps, Call(t, a) PROVE HolderInv'
  BY <1>1 DEF Call
<1>2. ASSUME NEW t \in Threads, ReturnCached(t) PROVE HolderInv'
  BY <1>2 DEF ReturnCached
<1>3. ASSUME NEW t \in Threads, BeginGather(t) PROVE HolderInv'
  BY <1>3 DEF BeginGather
<1>4. ASSUME NEW t \in Threads, GatherThrows(t) PROVE HolderInv'
  BY <1>4 DEF GatherThrows
<1>5. ASSUME NEW t \in Threads, Assign(t) PROVE HolderInv'
  BY <1>5 DEF Assign, Stores
<1>6. ASSUME NEW t \in Threads, NEW m \in Members, DrainMember(t, m)
      PROVE HolderInv'
  <2>1. m # "hasData"
    BY DEF Members
  <2> QED BY <1>6, <2>1 DEF DrainMember
<1>7. ASSUME NEW t \in Threads, DrainFlag(t) PROVE HolderInv'
  BY <1>7 DEF DrainFlag
<1>8. ASSUME NEW t \in Threads, BeginCopy(t) PROVE HolderInv'
  BY <1>8 DEF BeginCopy
<1>9. ASSUME NEW t \in Threads, EndCopy(t) PROVE HolderInv'
  BY <1>9 DEF EndCopy
<1>10. CASE UNCHANGED vars
  BY <1>10 DEF vars
<1> QED BY <1>1, <1>2, <1>3, <1>4, <1>5, <1>6, <1>7, <1>8, <1>9, <1>10
        DEF Next, Retrieve, Drain

\* However the calls overlap, a thread that has been given the report never
\* runs GatherData again.
THEOREM HoldersNeverRegatherAlways == Spec => []HoldersNeverRegather
<1>1. Init => TypeOK /\ HolderInv
  BY InitType, InitHolder
<1>2. TypeOK /\ HolderInv /\ [Next]_vars => TypeOK' /\ HolderInv'
  BY StepType, StepHolder
<1>3. HolderInv => HoldersNeverRegather
  BY DEF HolderInv, HoldersNeverRegather
<1> QED BY <1>1, <1>2, <1>3, PTL DEF Spec

\* Once the flag is in memory, nobody gathers and no store is pending, the
\* report never changes again, however the calls overlap.
THEOREM SettledStaysSettled == Spec => SettledIsFinal
<1>1. ASSUME TypeOK, [Next]_vars, Settled
      PROVE  Settled' /\ UNCHANGED data
  <2> USE <1>1 DEF TypeOK, Settled
  <2>1. ASSUME NEW t \in Threads, NEW a \in Apps, Call(t, a)
        PROVE  Settled' /\ UNCHANGED data
    BY <2>1 DEF Call
  <2>2. ASSUME NEW t \in Threads, Retrieve(t)
        PROVE  Settled' /\ UNCHANGED data
    BY <2>2 DEF Retrieve, ReturnCached, BeginGather, GatherThrows, Assign,
                SeesData
  <2>3. ASSUME NEW t \in Threads, Drain(t)
        PROVE  FALSE
    BY <2>3 DEF Drain, DrainFlag, DrainMember
  <2>4. ASSUME NEW t \in Threads, BeginCopy(t) \/ EndCopy(t)
        PROVE  Settled' /\ UNCHANGED data
    BY <2>4 DEF BeginCopy, EndCopy
  <2>5. CASE UNCHANGED vars
    BY <2>5 DEF vars
  <2> QED BY <2>1, <2>2, <2>3, <2>4, <2>5 DEF Next
<1>2. TypeOK /\ [Next]_vars => [Settled => Settled' /\ UNCHANGED data]_vars
  BY <1>1
<1>3. TypeOK /\ [Next]_vars => TypeOK'
  BY StepType
<1> QED BY InitType, <1>2, <1>3, PTL DEF Spec, SettledIsFinal

-----------------------------------------------------------------------------
(* Serialised calls.                                                       *)

LEMMA InitSerialised == Init => SerialisedInv
  BY DEF Init, SerialisedInv, Exclusive, Unpublished, Inside

\* A call entered only when no other is in progress keeps them apart.
LEMMA StepExclusive ==
  ASSUME Serialised, TypeOK, SerialisedInv, [Next]_vars
  PROVE  Exclusive'
<1> USE DEF TypeOK, Exclusive, Inside
<1>0. Exclusive
  BY DEF SerialisedInv
<1>1. ASSUME NEW t \in Threads, NEW a \in Apps, Call(t, a) PROVE Exclusive'
  BY <1>0, <1>1 DEF Call
<1>2. ASSUME NEW t \in Threads, ReturnCached(t) PROVE Exclusive'
  BY <1>0, <1>2 DEF ReturnCached
<1>3. ASSUME NEW t \in Threads, BeginGather(t) PROVE Exclusive'
  <2>1. [app |-> app[t], run |-> runs + 1] \in Reports
    BY DEF Reports
  <2>2. [app |-> app[t], run |-> runs + 1] # Empty
    BY <2>1, RetrievalAssumption
  <2> QED BY <1>0, <1>3, <2>2 DEF BeginGather
<1>4. ASSUME NEW t \in Threads, GatherThrows(t) PROVE Exclusive'
  BY <1>0, <1>4 DEF GatherThrows
<1>5. ASSUME NEW t \in Threads, Assign(t) PROVE Exclusive'
  BY <1>0, <1>5 DEF Assign
<1>6. ASSUME NEW t \in Threads, Drain(t) PROVE Exclusive'
  BY <1>0, <1>6 DEF Drain, DrainMember, DrainFlag
<1>7. ASSUME NEW t \in Threads, BeginCopy(t) \/ EndCopy(t) PROVE Exclusive'
  BY <1>0, <1>7 DEF BeginCopy, EndCopy
<1>8. CASE UNCHANGED vars
  BY <1>0, <1>8 DEF vars
<1> QED BY <1>1, <1>2, <1>3, <1>4, <1>5, <1>6, <1>7, <1>8 DEF Next, Retrieve

\* Before the report is published only Assign can hand it out, whole.
LEMMA StepUnpublished ==
  ASSUME Serialised, TypeOK, Exclusive, Unpublished, [Next]_vars
  PROVE  \/ Unpublished'
         \/ \E t \in Threads : Assign(t) /\ Published(local[t])'
<1> USE DEF TypeOK, Unpublished
<1>1. ASSUME NEW t \in Threads, NEW a \in Apps, Call(t, a) PROVE Unpublished'
  BY <1>1 DEF Call
<1>2. ASSUME NEW t \in Threads, ReturnCached(t) PROVE FALSE
  BY <1>2 DEF ReturnCached, SeesData
<1>3. ASSUME NEW t \in Threads, BeginGather(t) \/ GatherThrows(t)
      PROVE  Unpublished'
  BY <1>3 DEF BeginGather, GatherThrows
<1>4. ASSUME NEW t \in Threads, Assign(t) PROVE Published(local[t])'
  <2>1. /\ local[t] # Empty
        /\ \A u \in Threads : u # t => pc[u] # "gather"
    BY <1>4 DEF Assign, Exclusive, Inside
  <2>2. /\ local' = local /\ data' = data /\ hasData' = hasData
        /\ copies' = copies /\ draft' = draft
        /\ pending'[t] = Stores
        /\ \A u \in Threads \ {t} : pending'[u] = {} /\ ~holding'[u]
        /\ \A u \in Threads : pc'[u] # "gather" /\ pc'[u] # "copy"
    BY <1>4, <2>1 DEF Assign
  <2> QED BY <2>1, <2>2 DEF Published, Stores
<1>5. ASSUME NEW t \in Threads, Drain(t) PROVE FALSE
  BY <1>5 DEF Drain, DrainMember, DrainFlag
<1>6. ASSUME NEW t \in Threads, BeginCopy(t) \/ EndCopy(t) PROVE FALSE
  BY <1>6 DEF BeginCopy, EndCopy
<1>7. CASE UNCHANGED vars
  BY <1>7 DEF vars
<1> QED BY <1>1, <1>2, <1>3, <1>4, <1>5, <1>6, <1>7 DEF Next, Retrieve

\* A holder sees the published report through the reference, member by member.
LEMMA HolderView ==
  ASSUME NEW r, Published(r), NEW t \in Threads, holding[t], NEW m \in Members
  PROVE  View(t, m) = r
  BY DEF Published, View

\* Once published, the report stays and no report is gathered again.
LEMMA StepPublished ==
  ASSUME Serialised, TypeOK, Exclusive, NEW w \in Threads, Published(local[w]),
         [Next]_vars
  PROVE  Published(local[w])' /\ local' = local
<1> DEFINE r == local[w]
<1> USE DEF TypeOK, Published
<1>1. ASSUME NEW t \in Threads, NEW a \in Apps, Call(t, a)
      PROVE  Published(local[w])' /\ local' = local
  BY <1>1 DEF Call
<1>2. ASSUME NEW t \in Threads, ReturnCached(t)
      PROVE  Published(local[w])' /\ local' = local
  BY <1>2 DEF ReturnCached, Exclusive, Inside
<1>3. ASSUME NEW t \in Threads, BeginGather(t) PROVE FALSE
  BY <1>3 DEF BeginGather, Exclusive, Inside, SeesData
<1>4. ASSUME NEW t \in Threads, GatherThrows(t) \/ Assign(t) PROVE FALSE
  BY <1>4 DEF GatherThrows, Assign
<1>5. ASSUME NEW t \in Threads, NEW m \in Members, DrainMember(t, m)
      PROVE  Published(local[w])' /\ local' = local
  <2>1. local[t] = r
    BY <1>5 DEF DrainMember
  <2>2. \A u \in Threads : u # t => pc[u] # "copy"
    BY <1>5 DEF DrainMember
  <2>3. draft' = draft
    BY <1>5, <2>2 DEF DrainMember
  <2>4. m # "hasData"
    BY DEF Members
  <2>5. \A n \in Members :
          data'[n] = r \/ \E u \in Threads : n \in pending'[u]
    BY <1>5, <2>1 DEF DrainMember
  <2>6. hasData' \/ \E u \in Threads : "hasData" \in pending'[u]
    BY <1>5, <2>4 DEF DrainMember
  <2>7. \A u \in Threads : pending'[u] # {} => pending[u] # {}
    BY <1>5 DEF DrainMember
  <2>8. UNCHANGED <<pc, local, holding, copies>>
    BY <1>5 DEF DrainMember
  <2> QED BY <2>3, <2>5, <2>6, <2>7, <2>8
<1>6. ASSUME NEW t \in Threads, DrainFlag(t)
      PROVE  Published(local[w])' /\ local' = local
  BY <1>6 DEF DrainFlag, Members
<1>7. ASSUME NEW t \in Threads, BeginCopy(t)
      PROVE  Published(local[w])' /\ local' = local
  <2>1. View(t, "tree") = r
    BY <1>7, HolderView DEF BeginCopy, Members
  <2> QED BY <1>7, <2>1 DEF BeginCopy
<1>8. ASSUME NEW t \in Threads, EndCopy(t)
      PROVE  Published(local[w])' /\ local' = local
  <2>1. draft[t] = r /\ View(t, "stamp") = r
    BY <1>8, HolderView DEF EndCopy, Members
  <2>2. [Whole(draft[t]) EXCEPT !.stamp = View(t, "stamp")] = Whole(r)
    BY <2>1 DEF Whole, Members
  <2>3. copies' = [copies EXCEPT ![t] = @ \cup {Whole(r)}]
    BY <1>8, <2>2 DEF EndCopy
  <2>4. \A u \in Threads : copies'[u] \subseteq {Whole(r)}
    BY <2>3
  <2> QED BY <1>8, <2>4 DEF EndCopy
<1>9. CASE UNCHANGED vars
  BY <1>9 DEF vars
<1> QED BY <1>1, <1>2, <1>3, <1>4, <1>5, <1>6, <1>7, <1>8, <1>9
        DEF Next, Retrieve, Drain

LEMMA StepSerialised ==
  Serialised /\ TypeOK /\ SerialisedInv /\ [Next]_vars => SerialisedInv'
<1> SUFFICES ASSUME Serialised, TypeOK, SerialisedInv, [Next]_vars
             PROVE  SerialisedInv'
  OBVIOUS
<1>1. Exclusive'
  BY StepExclusive
<1>2. CASE Unpublished
  <2>1. Unpublished' \/ \E t \in Threads : Published(local[t])'
    BY <1>2, StepUnpublished DEF SerialisedInv
  <2> QED BY <1>1, <2>1 DEF SerialisedInv
<1>3. ASSUME NEW w \in Threads, Published(local[w]) PROVE SerialisedInv'
  <2>1. Published(local[w])'
    BY <1>3, StepPublished DEF SerialisedInv
  <2> QED BY <1>1, <2>1 DEF SerialisedInv
<1> QED BY <1>2, <1>3 DEF SerialisedInv

\* With serialised calls the report has one writer, and it reaches memory
\* before anyone else is given it.
THEOREM SerialisedInvAlways ==
  ASSUME Serialised PROVE Spec => []SerialisedInv
<1>1. Init => TypeOK /\ SerialisedInv
  BY InitType, InitSerialised
<1>2. TypeOK /\ SerialisedInv /\ [Next]_vars => TypeOK' /\ SerialisedInv'
  BY StepType, StepSerialised
<1> QED BY <1>1, <1>2, PTL DEF Spec

\* A host that serialises its calls only ever sees one complete report,
\* whoever calls, whatever names are passed, however often gathering throws.
THEOREM OneReportAlways ==
  ASSUME Serialised PROVE Spec => []OneReport
<1>1. TypeOK /\ SerialisedInv => OneReport
  <2> SUFFICES ASSUME TypeOK, SerialisedInv,
                      NEW t \in Threads, NEW u \in Threads,
                      NEW x \in copies[t], NEW y \in copies[u]
               PROVE  x = y /\ x.tree = x.stamp /\ x.tree \in Reports
    BY DEF OneReport
  <2>1. ~Unpublished
    BY DEF Unpublished
  <2>2. PICK w \in Threads : Published(local[w])
    BY <2>1 DEF SerialisedInv
  <2>3. x = Whole(local[w]) /\ y = Whole(local[w])
    BY <2>2 DEF Published
  <2>4. local[w] \in Reports
    BY <2>2 DEF Published, TypeOK
  <2> QED BY <2>3, <2>4 DEF Whole, Members
<1>2. Init => TypeOK /\ SerialisedInv
  BY InitType, InitSerialised
<1>3. TypeOK /\ SerialisedInv /\ [Next]_vars => TypeOK' /\ SerialisedInv'
  BY StepType, StepSerialised
<1> QED BY <1>1, <1>2, <1>3, PTL DEF Spec

\* What such a host reads through its reference never changes under it.
THEOREM ReferenceStableAlways ==
  ASSUME Serialised PROVE Spec => ReferenceStable
<1>1. ASSUME TypeOK, SerialisedInv, [Next]_vars, NEW t \in Threads, holding[t]
      PROVE  /\ holding'[t]
             /\ \A m \in Members : View(t, m)' = View(t, m)
  <2>1. ~Unpublished
    BY <1>1 DEF Unpublished
  <2>2. PICK w \in Threads : Published(local[w])
    BY <1>1, <2>1 DEF SerialisedInv
  <2>3. Published(local[w])' /\ local' = local
    BY <1>1, <2>2, StepPublished DEF SerialisedInv
  <2>4. holding'[t]
    BY <1>1 DEF Next, Retrieve, Drain, Call, ReturnCached, BeginGather, TypeOK,
       GatherThrows, Assign, DrainMember, DrainFlag, BeginCopy, EndCopy, vars
  <2>5. \A m \in Members : View(t, m) = local[w]
    BY <1>1, <2>2 DEF Published, View
  <2>6. \A m \in Members : View(t, m)' = local'[w]
    BY <2>3, <2>4 DEF Published, View
  <2> QED BY <2>3, <2>4, <2>5, <2>6
<1>2. TypeOK /\ SerialisedInv /\ [Next]_vars
        => [\A t \in Threads : holding[t] =>
              /\ holding'[t]
              /\ \A m \in Members : View(t, m)' = View(t, m)]_vars
  BY <1>1
<1>3. Init => TypeOK /\ SerialisedInv
  BY InitType, InitSerialised
<1>4. TypeOK /\ SerialisedInv /\ [Next]_vars => TypeOK' /\ SerialisedInv'
  BY StepType, StepSerialised
<1> QED BY <1>2, <1>3, <1>4, PTL DEF Spec, ReferenceStable

-----------------------------------------------------------------------------
(* Refinement.                                                             *)

LEMMA PublishedLatest ==
  ASSUME NEW r, Published(r), NEW m \in Members
  PROVE  Latest(m) = r
<1>1. CASE \E t \in Threads : m \in pending[t]
  <2> DEFINE c == CHOOSE t \in Threads : m \in pending[t]
  <2>1. c \in Threads /\ m \in pending[c]
    BY <1>1
  <2>2. Latest(m) = local[c]
    BY <1>1 DEF Latest
  <2> QED BY <2>1, <2>2 DEF Published
<1>2. CASE ~\E t \in Threads : m \in pending[t]
  BY <1>2 DEF Latest, Published
<1> QED BY <1>1, <1>2

LEMMA UnpublishedLatest ==
  ASSUME Unpublished
  PROVE  [m \in Members |-> Latest(m)] = Whole(Empty)
  BY DEF Unpublished, Latest, Whole

\* A host that serialises its calls cannot tell RetrievePDMData from a cell
\* that is written once: publishing is the assignment, an answer is a copy.
THEOREM RetrievalImplementsWriteOnce ==
  ASSUME Serialised PROVE Spec => ImplementsWriteOnce
<1> DEFINE value == [m \in Members |-> Latest(m)]
           Good  == {x \in [Members -> Reports] : x.tree = x.stamp}
<1>1. Init => Once!Init
  <2> SUFFICES ASSUME Init PROVE Once!Init
    OBVIOUS
  <2>1. Unpublished
    BY DEF Init, Unpublished
  <2> QED BY <2>1, UnpublishedLatest DEF Init, Once!Init
<1>2. ASSUME TypeOK, SerialisedInv, [Next]_vars
      PROVE  [Once!Next]_(Once!vars)
  <2>1. CASE Unpublished
    <3>1. value = Whole(Empty)
      BY <2>1, UnpublishedLatest
    <3>2. CASE Unpublished'
      <4>1. value' = Whole(Empty)
        BY <3>2, UnpublishedLatest DEF Unpublished, Latest, Whole
      <4>2. copies' = copies
        <5>1. TypeOK'
          BY <1>2, StepType
        <5>2. \A t \in Threads : copies'[t] = copies[t]
          BY <2>1, <3>2 DEF Unpublished
        <5> QED BY <1>2, <5>1, <5>2 DEF TypeOK
      <4> QED BY <3>1, <4>1, <4>2 DEF Once!vars
    <3>3. ASSUME NEW t \in Threads, Assign(t), Published(local[t])'
          PROVE  Once!Publish
      <4>1. \A m \in Members : Latest(m)' = local'[t]
        BY <3>3, PublishedLatest DEF Latest, Published
      <4>2. local'[t] \in Reports
        BY <1>2, <3>3 DEF Published, TypeOK, Assign
      <4>3. value' = Whole(local'[t])
        BY <4>1 DEF Whole
      <4>4. value' \in Good
        BY <4>2, <4>3 DEF Whole, Members
      <4>5. copies' = copies
        BY <3>3 DEF Assign
      <4> QED BY <3>1, <4>4, <4>5 DEF Once!Publish
    <3> QED BY <1>2, <2>1, <3>2, <3>3, StepUnpublished
            DEF SerialisedInv, Once!Next
  <2>2. ASSUME NEW w \in Threads, Published(local[w])
        PROVE  [Once!Next]_(Once!vars)
    <3>1. Published(local[w])' /\ local' = local
      BY <1>2, <2>2, StepPublished DEF SerialisedInv
    <3>2. value = Whole(local[w])
      BY <2>2, PublishedLatest DEF Whole
    <3>3. \A m \in Members : Latest(m)' = local[w]
      BY <3>1, PublishedLatest DEF Latest, Published
    <3>4. value' = value
      BY <3>2, <3>3 DEF Whole
    <3>5. ASSUME NEW t \in Threads, EndCopy(t) PROVE Once!Answer(t)
      <4>1. holding[t] /\ draft[t] = local[w]
        BY <2>2, <3>5 DEF Published, EndCopy
      <4>2. View(t, "stamp") = local[w]
        BY <2>2, <4>1, HolderView DEF Members
      <4>3. copies' = [copies EXCEPT ![t] = @ \cup {Whole(local[w])}]
        BY <3>5, <4>1, <4>2 DEF EndCopy, Whole, Members
      <4>4. local[w] # Empty
        BY <2>2 DEF Published
      <4>5. value # Whole(Empty)
        BY <3>2, <4>4 DEF Whole, Members
      <4> QED BY <3>2, <3>4, <4>3, <4>5 DEF Once!Answer
    <3>6. (\E t \in Threads : EndCopy(t)) \/ copies' = copies
      BY <1>2 DEF Next, Retrieve, Drain, Call, ReturnCached, BeginGather,
         GatherThrows, Assign, DrainMember, DrainFlag, BeginCopy, vars
    <3> QED BY <3>4, <3>5, <3>6 DEF Once!Next, Once!vars
  <2> QED BY <1>2, <2>1, <2>2 DEF SerialisedInv
<1>3. Init => TypeOK /\ SerialisedInv
  BY InitType, InitSerialised
<1>4. TypeOK /\ SerialisedInv /\ [Next]_vars => TypeOK' /\ SerialisedInv'
  BY StepType, StepSerialised
<1> QED BY <1>1, <1>2, <1>3, <1>4, PTL DEF Spec, ImplementsWriteOnce, Once!Spec
=============================================================================
