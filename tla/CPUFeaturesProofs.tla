------------------------- MODULE CPUFeaturesProofs -------------------------
(***************************************************************************)
(* What is proved of CPUFeatures, for every set of processors, cores that  *)
(* differ in anything, and a thread that is moved between any two          *)
(* instructions.                                                           *)
(***************************************************************************)
EXTENDS CPUFeatures, TLAPS

Leaves == {Basic(1), Basic(7), Ext(1)}

(* What has been read before the instruction pc.                            *)
BrandRead    == pc \notin {"bitness", "brand"}
ModelRead    == pc \notin {"bitness", "brand", "model"}
SteppingRead == pc \notin {"bitness", "brand", "model", "stepping"}
LeavesRead ==
  IF pc = "leaf7" THEN {Basic(1)}
  ELSE IF pc = "ext1" THEN {Basic(1), Basic(7)}
  ELSE IF pc \in {"list", "done"} THEN Leaves ELSE {}

BitnessOf(k) == IF X64 \in k.bits THEN 64 ELSE 32

\* Each of the numbers and each piece of the brand is of some core.
NumbersInv ==
  /\ pc # "bitness" => \E k \in cpu.cores : info.bitness = BitnessOf(k)
  /\ ModelRead => \E k \in cpu.cores : info.model = k.model
  /\ SteppingRead => \E k \in cpu.cores : info.stepping = k.stepping
BrandInv ==
  /\ \A i \in DOMAIN info.brand : \E k \in cpu.cores : info.brand[i] = k.brand
  /\ pc = "bitness" => Len(info.brand) = 0
  /\ pc = "brand" => IF Has(Ext(4)) THEN Len(info.brand) < 3 ELSE Len(info.brand) = 0
  /\ BrandRead => Len(info.brand) = IF Has(Ext(4)) THEN 3 ELSE 0

\* The registers lie between what all cores have of the leaves read and what any has.
FeaturesInv ==
  /\ \A x \in f : \E k \in cpu.cores : x \in k.bits
  /\ \A x \in Bit : x[1] \in LeavesRead /\ (\A k \in cpu.cores : x \in k.bits) => x \in f
ListInv == pc = "done" => info.extensions = Listed(f)

IInv == TypeOK /\ NumbersInv /\ BrandInv /\ FeaturesInv /\ ListInv

-----------------------------------------------------------------------------
(* Lemmas about what is listed and about CPUID.                             *)
LEMMA TestsOfLeaves ==
  \A test \in Tests :
    /\ test.leaf \in Leaves /\ test.reg \in {"ebx", "ecx", "edx"}
    /\ test.bits \subseteq 0 .. 31
<1> HIDE DEF Leaves
<1>0. Basic(1) \in Leaves /\ Basic(7) \in Leaves /\ Ext(1) \in Leaves
  BY DEF Leaves
<1> QED BY <1>0 DEF Tests

LEMMA ListedMember ==
  ASSUME NEW r, NEW x
  PROVE  x \in Listed(r) <=>
           \E test \in Tests : Applies(test) /\ \E b \in test.bits :
             <<test.leaf, test.reg, b>> \in r /\ x = <<test.only, test.leaf, test.reg, b>>
<1> DEFINE Of(test) == {<<test.only, test.leaf, test.reg, b>> :
                         b \in {n \in test.bits : <<test.leaf, test.reg, n>> \in r}}
<1>1. Listed(r) = UNION {Of(test) : test \in {y \in Tests : Applies(y)}}
  BY DEF Listed
<1>2. \A test : x \in Of(test) <=> \E b \in test.bits :
        <<test.leaf, test.reg, b>> \in r /\ x = <<test.only, test.leaf, test.reg, b>>
  OBVIOUS
<1> HIDE DEF Of
<1>3. x \in Listed(r) <=> \E test \in Tests : Applies(test) /\ x \in Of(test)
  BY <1>1
<1> QED BY <1>2, <1>3

LEMMA ListedKnown == ASSUME NEW r PROVE Listed(r) \subseteq Extensions
<1> SUFFICES ASSUME NEW x \in Listed(r) PROVE x \in Extensions
  OBVIOUS
<1> DEFINE All(test) == {<<test.only, test.leaf, test.reg, b>> : b \in test.bits}
<1>1. Extensions = UNION {All(test) : test \in Tests}
  BY DEF Extensions
<1>2. PICK test \in Tests : Applies(test) /\ \E b \in test.bits :
        <<test.leaf, test.reg, b>> \in r /\ x = <<test.only, test.leaf, test.reg, b>>
  BY ListedMember
<1>3. x \in All(test)
  BY <1>2
<1> HIDE DEF All
<1> QED BY <1>1, <1>3

\* More bits list no less, and bits of other leaves nothing.
LEMMA ListedMonotone ==
  ASSUME NEW r, NEW s, \A x \in r : x \in Bit /\ x[1] \in Leaves => x \in s
  PROVE  Listed(r) \subseteq Listed(s)
<1> SUFFICES ASSUME NEW x \in Listed(r) PROVE x \in Listed(s)
  OBVIOUS
<1>1. PICK test \in Tests : Applies(test) /\ \E b \in test.bits :
        <<test.leaf, test.reg, b>> \in r /\ x = <<test.only, test.leaf, test.reg, b>>
  BY ListedMember
<1>2. PICK b \in test.bits :
        <<test.leaf, test.reg, b>> \in r /\ x = <<test.only, test.leaf, test.reg, b>>
  BY <1>1
<1>3. <<test.leaf, test.reg, b>> \in Bit
  <2>1. test.leaf \in {"basic", "ext"} \X Nat
    BY TestsOfLeaves DEF Leaves, Basic, Ext
  <2> QED BY <2>1, TestsOfLeaves DEF Bit
<1>4. <<test.leaf, test.reg, b>> \in s
  BY <1>2, <1>3, TestsOfLeaves
<1> QED BY <1>1, <1>2, <1>4, ListedMember

LEMMA CPUIDOwn ==
  ASSUME TypeOK, NEW leaf, Has(leaf)
  PROVE  CPUID(leaf) = {x \in core.bits : x[1] = leaf}
<1>1. \A x \in core.bits : x = <<x[1], x[2], x[3]>>
  BY DEF TypeOK, IsCPU, Core, Bit
<1>2. CPUID(leaf) = {<<leaf, bit[2], bit[3]>> : bit \in {x \in core.bits : x[1] \in {leaf}}}
  BY DEF CPUID
<1> QED BY <1>1, <1>2

\* A leaf the processor has not, no core has bits of.
LEMMA NoBits ==
  ASSUME TypeOK, NEW leaf, ~Has(leaf), NEW k \in cpu.cores, NEW x \in k.bits
  PROVE  x[1] # leaf
BY DEF TypeOK, IsCPU, Has

LEMMA ListedStays == cpu' = cpu /\ f' = f => Listed(f)' = Listed(f)
BY DEF Listed, Applies

-----------------------------------------------------------------------------
LEMMA InitCPU == Init => IInv
<1> SUFFICES ASSUME Init PROVE IInv
  OBVIOUS
<1>1. IsCPU(cpu) /\ core \in cpu.cores /\ pc = "bitness" /\ f = {} /\ info = Nothing
  BY CPUAssumption DEF Init
<1>2. /\ Nothing.brand = <<>> /\ Nothing.extensions = {}
      /\ Nothing \in [bitness : {0, 32, 64}, brand : Seq(STRING), model : 0 .. 15,
                      stepping : 0 .. 15, extensions : SUBSET Extensions]
  <2>1. <<>> \in Seq(STRING)
    OBVIOUS
  <2> QED BY <2>1 DEF Nothing
<1>3. Len(info.brand) = 0 /\ DOMAIN info.brand = {}
  BY <1>1, <1>2
<1>4. TypeOK
  BY <1>1, <1>2, <1>3 DEF TypeOK
<1>5. NumbersInv /\ BrandInv /\ FeaturesInv /\ ListInv
  BY <1>1, <1>3 DEF NumbersInv, BrandInv, FeaturesInv, ListInv, ModelRead, SteppingRead,
     BrandRead, LeavesRead
<1> QED BY <1>4, <1>5 DEF IInv

\* A thread that is moved keeps what it has read.
LEMMA MigrateCPU == IInv /\ Migrate => IInv'
<1> SUFFICES ASSUME IInv, Migrate PROVE IInv'
  OBVIOUS
<1>1. cpu' = cpu /\ pc' = pc /\ f' = f /\ info' = info /\ core' \in cpu.cores
  BY DEF Migrate
<1>2. TypeOK'
  BY <1>1 DEF IInv, TypeOK, Has
<1>3. NumbersInv' /\ BrandInv'
  BY <1>1 DEF IInv, NumbersInv, BrandInv, ModelRead, SteppingRead, BrandRead, Has
<1>4. FeaturesInv'
  BY <1>1 DEF IInv, FeaturesInv, LeavesRead
<1>5. ListInv'
  BY <1>1, ListedStays DEF IInv, ListInv
<1> QED BY <1>2, <1>3, <1>4, <1>5 DEF IInv

LEMMA BitnessCPU == IInv /\ GetBitness => IInv'
<1> SUFFICES ASSUME IInv, GetBitness PROVE IInv'
  OBVIOUS
<1>1. /\ cpu' = cpu /\ core' = core /\ f' = f /\ pc = "bitness" /\ pc' = "brand" /\ TypeOK
      /\ info' = [info EXCEPT !.bitness =
                    IF Has(Ext(1)) /\ X64 \in CPUID(Ext(1)) THEN 64 ELSE 32]
  BY DEF GetBitness, IInv
<1>2. /\ info'.brand = info.brand /\ info'.model = info.model
      /\ info'.stepping = info.stepping /\ info'.extensions = info.extensions
      /\ info'.bitness = IF Has(Ext(1)) /\ X64 \in CPUID(Ext(1)) THEN 64 ELSE 32
  BY <1>1 DEF TypeOK
<1>3. info'.bitness = BitnessOf(core) /\ core \in cpu.cores
  <2>1. X64[1] = Ext(1)
    BY DEF X64
  <2>2. Has(Ext(1)) /\ X64 \in CPUID(Ext(1)) <=> X64 \in core.bits
    BY <1>1, <2>1, CPUIDOwn, NoBits DEF TypeOK
  <2> QED BY <1>1, <1>2, <2>2 DEF BitnessOf, TypeOK
<1>4. TypeOK'
  BY <1>1, <1>2 DEF TypeOK, Has
<1>5. NumbersInv'
  BY <1>1, <1>3 DEF NumbersInv, ModelRead, SteppingRead
<1>6. BrandInv'
  BY <1>1, <1>2 DEF IInv, BrandInv, BrandRead, Has
<1>7. FeaturesInv' /\ ListInv'
  BY <1>1 DEF IInv, FeaturesInv, LeavesRead, ListInv
<1> QED BY <1>4, <1>5, <1>6, <1>7 DEF IInv

LEMMA BrandCPU == IInv /\ GetBrand => IInv'
<1> SUFFICES ASSUME IInv, GetBrand PROVE IInv'
  OBVIOUS
<1> DEFINE read == IF Has(Ext(4)) THEN Append(info.brand, BrandPiece(Ext(2 + Len(info.brand))))
                                  ELSE info.brand
<1>1. /\ cpu' = cpu /\ core' = core /\ f' = f /\ pc = "brand" /\ TypeOK /\ core \in cpu.cores
      /\ info' = [info EXCEPT !.brand = read]
      /\ pc' = IF Len(read) \in {0, 3} THEN "model" ELSE "brand"
  BY DEF GetBrand, IInv, TypeOK
<1>2. /\ info'.bitness = info.bitness /\ info'.model = info.model
      /\ info'.stepping = info.stepping /\ info'.extensions = info.extensions
      /\ info'.brand = read
  BY <1>1 DEF TypeOK
<1>3. /\ info.brand \in Seq(STRING) /\ Len(info.brand) \in Nat
      /\ IF Has(Ext(4)) THEN Len(info.brand) < 3 ELSE Len(info.brand) = 0
      /\ core.brand \in STRING
  BY <1>1 DEF TypeOK, IInv, BrandInv, IsCPU, Core
<1>4. Has(Ext(4)) => read = Append(info.brand, core.brand)
  <2>1. Has(Ext(4)) => Has(Ext(2 + Len(info.brand)))
    BY <1>1, <1>3 DEF Has, Within, Ext, TypeOK, IsCPU
  <2> QED BY <2>1 DEF BrandPiece
<1>5. /\ read \in Seq(STRING) /\ Len(read) = IF Has(Ext(4)) THEN Len(info.brand) + 1 ELSE 0
      /\ \A i \in DOMAIN read : read[i] = core.brand \/ (i \in DOMAIN info.brand /\ read[i] = info.brand[i])
  <2>1. CASE Has(Ext(4))
    BY <1>3, <1>4, <2>1
  <2>2. CASE ~Has(Ext(4))
    BY <1>3, <2>2
  <2> QED BY <2>1, <2>2
<1> HIDE DEF read
<1>6. TypeOK'
  <2>1. Len(info'.brand) <= 3
    BY <1>2, <1>3, <1>5
  <2>2. info' \in [bitness : {0, 32, 64}, brand : Seq(STRING), model : 0 .. 15,
                   stepping : 0 .. 15, extensions : SUBSET Extensions]
    BY <1>1, <1>5 DEF TypeOK
  <2> QED BY <1>1, <2>1, <2>2 DEF TypeOK, Has
<1>7. NumbersInv'
  BY <1>1, <1>2 DEF IInv, NumbersInv, ModelRead, SteppingRead
<1>8. BrandInv'
  <2>1. \A i \in DOMAIN info'.brand : \E k \in cpu.cores : info'.brand[i] = k.brand
    BY <1>1, <1>2, <1>5 DEF IInv, BrandInv
  <2>2. Has(Ext(4))' = Has(Ext(4))
    BY <1>1 DEF Has
  <2>3. CASE Has(Ext(4))
    <3>1. Len(read) \in 1 .. 3
      BY <1>3, <1>5, <2>3
    <3>2. pc' = IF Len(read) = 3 THEN "model" ELSE "brand"
      BY <1>1, <3>1
    <3>3. info'.brand = read
      BY <1>2
    <3>4. pc' = "brand" => Len(info'.brand) < 3
      <4>1. pc' = "brand" => Len(read) # 3
        BY <3>2
      <4>2. Len(read) # 3 => Len(read) < 3
        BY <3>1
      <4> QED BY <3>3, <4>1, <4>2
    <3>5. pc' = "model" => Len(info'.brand) = 3
      BY <3>1, <3>2, <3>3
    <3>6. pc' \in {"brand", "model"}
      BY <3>2
    <3> QED BY <2>1, <2>2, <2>3, <3>4, <3>5, <3>6, <1>1 DEF BrandInv, BrandRead
  <2>4. CASE ~Has(Ext(4))
    BY <1>1, <1>2, <1>5, <2>1, <2>2, <2>4 DEF BrandInv, BrandRead
  <2> QED BY <2>3, <2>4
<1>9. FeaturesInv' /\ ListInv'
  BY <1>1 DEF IInv, FeaturesInv, LeavesRead, ListInv
<1> QED BY <1>6, <1>7, <1>8, <1>9 DEF IInv

LEMMA ModelCPU == IInv /\ GetModel => IInv'
<1> SUFFICES ASSUME IInv, GetModel PROVE IInv'
  OBVIOUS
<1>1. /\ cpu' = cpu /\ core' = core /\ f' = f /\ pc = "model" /\ pc' = "stepping" /\ TypeOK
      /\ core \in cpu.cores /\ core.model \in 0 .. 15
      /\ info' = [info EXCEPT !.model = core.model]
  BY DEF GetModel, IInv, TypeOK, IsCPU, Core
<1>2. /\ info'.bitness = info.bitness /\ info'.brand = info.brand /\ info'.model = core.model
      /\ info'.stepping = info.stepping /\ info'.extensions = info.extensions
  BY <1>1 DEF TypeOK
<1>3. TypeOK'
  BY <1>1, <1>2 DEF TypeOK, Has
<1>4. NumbersInv'
  BY <1>1, <1>2 DEF IInv, NumbersInv, ModelRead, SteppingRead
<1>5. BrandInv'
  BY <1>1, <1>2 DEF IInv, BrandInv, BrandRead, Has
<1>6. FeaturesInv' /\ ListInv'
  BY <1>1 DEF IInv, FeaturesInv, LeavesRead, ListInv
<1> QED BY <1>3, <1>4, <1>5, <1>6 DEF IInv

LEMMA SteppingCPU == IInv /\ GetStepping => IInv'
<1> SUFFICES ASSUME IInv, GetStepping PROVE IInv'
  OBVIOUS
<1>1. /\ cpu' = cpu /\ core' = core /\ f' = f /\ pc = "stepping" /\ pc' = "leaf1" /\ TypeOK
      /\ core \in cpu.cores /\ core.stepping \in 0 .. 15
      /\ info' = [info EXCEPT !.stepping = core.stepping]
  BY DEF GetStepping, IInv, TypeOK, IsCPU, Core
<1>2. /\ info'.bitness = info.bitness /\ info'.brand = info.brand /\ info'.model = info.model
      /\ info'.stepping = core.stepping /\ info'.extensions = info.extensions
  BY <1>1 DEF TypeOK
<1>3. TypeOK'
  BY <1>1, <1>2 DEF TypeOK, Has
<1>4. NumbersInv'
  BY <1>1, <1>2 DEF IInv, NumbersInv, ModelRead, SteppingRead
<1>5. BrandInv'
  BY <1>1, <1>2 DEF IInv, BrandInv, BrandRead, Has
<1>6. FeaturesInv' /\ ListInv'
  BY <1>1 DEF IInv, FeaturesInv, LeavesRead, ListInv
<1> QED BY <1>3, <1>4, <1>5, <1>6 DEF IInv

\* Each of the three instructions adds its leaf, as it is on the core of the moment.
LEMMA FeaturesCPU ==
  ASSUME IInv, NEW leaf, NEW place, NEW next, ReadFeatures(leaf, place, next),
         \/ leaf = Basic(1) /\ place = "leaf1" /\ next = "leaf7"
         \/ leaf = Basic(7) /\ place = "leaf7" /\ next = "ext1"
         \/ leaf = Ext(1) /\ place = "ext1" /\ next = "list"
  PROVE  IInv'
<1>1. /\ cpu' = cpu /\ core' = core /\ info' = info /\ pc = place /\ pc' = next /\ TypeOK
      /\ core \in cpu.cores /\ core.bits \subseteq Bit
      /\ f' = f \cup IF Has(leaf) THEN CPUID(leaf) ELSE {}
  BY DEF ReadFeatures, Guard, IInv, TypeOK, IsCPU, Core
<1>2. f' = f \cup {x \in core.bits : x[1] = leaf}
  <2>1. CASE Has(leaf)
    BY <1>1, <2>1, CPUIDOwn
  <2>2. CASE ~Has(leaf)
    <3>1. {x \in core.bits : x[1] = leaf} = {}
      BY <1>1, <2>2, NoBits
    <3> QED BY <1>1, <2>2, <3>1
  <2> QED BY <2>1, <2>2
<1>3. TypeOK'
  <2>1. \A x \in f' : x \in Bit /\ Has(x[1])
    BY <1>1, <1>2 DEF TypeOK, IsCPU, Has
  <2> QED BY <1>1, <2>1 DEF TypeOK, Has
<1>4. NumbersInv' /\ BrandInv'
  BY <1>1 DEF IInv, NumbersInv, ModelRead, SteppingRead, BrandInv, BrandRead, Has
<1>5. FeaturesInv'
  <2>1. LeavesRead' = LeavesRead \cup {leaf}
    BY <1>1 DEF LeavesRead, Leaves
  <2>2. \A x \in f' : \E k \in cpu.cores : x \in k.bits
    BY <1>1, <1>2 DEF IInv, FeaturesInv
  <2>3. \A x \in Bit : x[1] \in LeavesRead' /\ (\A k \in cpu.cores : x \in k.bits) => x \in f'
    BY <1>1, <1>2, <2>1 DEF IInv, FeaturesInv
  <2> QED BY <1>1, <2>2, <2>3 DEF FeaturesInv
<1>6. ListInv'
  BY <1>1 DEF ListInv
<1> QED BY <1>3, <1>4, <1>5, <1>6 DEF IInv

LEMMA ExtensionsCPU == IInv /\ GetCPUExtensions => IInv'
<1> SUFFICES ASSUME IInv, GetCPUExtensions PROVE IInv'
  OBVIOUS
<1>1. /\ cpu' = cpu /\ core' = core /\ f' = f /\ pc = "list" /\ pc' = "done" /\ TypeOK
      /\ info' = [info EXCEPT !.extensions = Listed(f)]
  BY DEF GetCPUExtensions, IInv
<1>2. /\ info'.bitness = info.bitness /\ info'.brand = info.brand /\ info'.model = info.model
      /\ info'.stepping = info.stepping /\ info'.extensions = Listed(f)
  BY <1>1 DEF TypeOK
<1>3. TypeOK'
  BY <1>1, <1>2, ListedKnown DEF TypeOK, Has
<1>4. NumbersInv'
  BY <1>1, <1>2 DEF IInv, NumbersInv, ModelRead, SteppingRead
<1>5. BrandInv'
  BY <1>1, <1>2 DEF IInv, BrandInv, BrandRead, Has
<1>6. FeaturesInv'
  BY <1>1 DEF IInv, FeaturesInv, LeavesRead
<1>7. ListInv'
  BY <1>1, <1>2 DEF ListInv, Listed, Applies
<1> QED BY <1>3, <1>4, <1>5, <1>6, <1>7 DEF IInv

LEMMA NextCPU == IInv /\ [Next]_vars => IInv'
<1> SUFFICES ASSUME IInv, [Next]_vars PROVE IInv'
  OBVIOUS
<1>1. ASSUME ReadLeaf1 \/ ReadLeaf7 \/ ReadExt1 PROVE IInv'
  BY <1>1, FeaturesCPU DEF ReadLeaf1, ReadLeaf7, ReadExt1
<1>2. ASSUME UNCHANGED vars PROVE IInv'
  <2>1. cpu' = cpu /\ core' = core /\ pc' = pc /\ f' = f /\ info' = info
    BY <1>2 DEF vars
  <2>2. TypeOK'
    BY <2>1 DEF IInv, TypeOK, Has
  <2>3. NumbersInv' /\ BrandInv'
    BY <2>1 DEF IInv, NumbersInv, BrandInv, ModelRead, SteppingRead, BrandRead, Has
  <2>4. FeaturesInv'
    BY <2>1 DEF IInv, FeaturesInv, LeavesRead
  <2>5. ListInv'
    BY <2>1, ListedStays DEF IInv, ListInv
  <2> QED BY <2>2, <2>3, <2>4, <2>5 DEF IInv
<1> QED BY <1>1, <1>2, MigrateCPU, BitnessCPU, BrandCPU, ModelCPU, SteppingCPU,
           ExtensionsCPU DEF Next, GetCPUInfo

LEMMA Invariant == Spec => []IInv
BY InitCPU, NextCPU, PTL DEF Spec

-----------------------------------------------------------------------------
\* The variables keep their types: no register of InstructionSet ever holds a bit
\* of a leaf the processor does not have.
THEOREM TypeCorrect == Spec => []TypeOK
<1>1. IInv => TypeOK
  BY DEF IInv
<1> QED BY <1>1, Invariant, PTL

\* When GetCPUInfo is done on a processor whose cores are alike, the CPUInfo is that
\* of a core: of the extensions that GetCPUExtensions asks for those it has, and no
\* other.
THEOREM Uniform == Spec => []UniformExact
<1>1. IInv => UniformExact
  <2> SUFFICES ASSUME IInv, NEW k \in cpu.cores, Done, cpu.cores = {k}
               PROVE  info = [bitness |-> IF X64 \in k.bits THEN 64 ELSE 32,
                              brand |-> IF Has(Ext(4)) THEN <<k.brand, k.brand, k.brand>> ELSE <<>>,
                              model |-> k.model, stepping |-> k.stepping,
                              extensions |-> Listed(k.bits)]
    BY DEF UniformExact
  <2>1. TypeOK /\ pc = "done"
    BY DEF IInv, Done
  <2>2. /\ info.bitness = IF X64 \in k.bits THEN 64 ELSE 32
        /\ info.model = k.model /\ info.stepping = k.stepping
    BY <2>1 DEF IInv, NumbersInv, ModelRead, SteppingRead, BitnessOf
  <2>3. info.brand = IF Has(Ext(4)) THEN <<k.brand, k.brand, k.brand>> ELSE <<>>
    <3>1. info.brand \in Seq(STRING) /\ \A i \in DOMAIN info.brand : info.brand[i] = k.brand
      BY <2>1 DEF TypeOK, IInv, BrandInv
    <3>2. Len(info.brand) = IF Has(Ext(4)) THEN 3 ELSE 0
      BY <2>1 DEF IInv, BrandInv, BrandRead
    <3> QED BY <3>1, <3>2
  <2>4. Listed(f) = Listed(k.bits)
    <3>1. \A x \in f : x \in k.bits
      BY DEF IInv, FeaturesInv
    <3>2. \A x \in k.bits : x \in Bit /\ x[1] \in Leaves => x \in f
      BY <2>1 DEF IInv, FeaturesInv, LeavesRead
    <3>3. Listed(f) \subseteq Listed(k.bits)
      BY <3>1, ListedMonotone
    <3>4. Listed(k.bits) \subseteq Listed(f)
      BY <3>2, ListedMonotone
    <3> QED BY <3>3, <3>4
  <2>5. info.extensions = Listed(k.bits)
    BY <2>1, <2>4 DEF IInv, ListInv
  <2> QED BY <2>1, <2>2, <2>3, <2>5 DEF TypeOK
<1> QED BY <1>1, Invariant, PTL

\* Wherever the thread is moved, of the extensions that GetCPUExtensions asks for what
\* all cores have is listed and what none has is not; and each third of the brand is
\* of some core.
THEOREM Mixed == Spec => []MixedBounded
<1>1. IInv => MixedBounded
  <2> SUFFICES ASSUME IInv, Done PROVE MixedBounded
    BY DEF MixedBounded
  <2> DEFINE common == {x \in UNION {k.bits : k \in cpu.cores} : \A k \in cpu.cores : x \in k.bits}
             some == UNION {k.bits : k \in cpu.cores}
  <2>1. pc = "done" /\ info.extensions = Listed(f)
    BY DEF IInv, Done, ListInv
  <2>2. Listed(common) \subseteq Listed(f)
    <3>1. \A x \in common : x \in Bit /\ x[1] \in Leaves => x \in f
      BY <2>1 DEF IInv, FeaturesInv, LeavesRead
    <3> HIDE DEF common
    <3> QED BY <3>1, ListedMonotone
  <2>3. Listed(f) \subseteq Listed(some)
    <3>1. \A x \in f : x \in some
      BY DEF IInv, FeaturesInv
    <3> HIDE DEF some
    <3> QED BY <3>1, ListedMonotone
  <2>4. \A i \in DOMAIN info.brand : \E k \in cpu.cores : info.brand[i] = k.brand
    BY DEF IInv, BrandInv
  <2> QED BY <2>1, <2>2, <2>3, <2>4 DEF MixedBounded
<1> QED BY <1>1, Invariant, PTL
=============================================================================
