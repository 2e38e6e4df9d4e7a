---------------------------- MODULE CPUFeatures ----------------------------
(***************************************************************************)
(* The x86 half of src/cpu_extensions.h as GetCPUInfo (src/gatherer.cpp)   *)
(* uses it: bitness, brand, model, stepping and the list of extensions are *)
(* put together from one CPUID instruction after another, and between two  *)
(* of them the thread may be moved to another core.                        *)
(*                                                                         *)
(* The cores of a machine share vendor and highest leaves; they may differ *)
(* in brand, signature and features.  An Intel processor asked for a leaf it does *)
(* not have answers with the highest basic one it has, others with zeros   *)
(* (external).  A register is the set of its bits that are 1.              *)
(***************************************************************************)
EXTENDS Integers, Sequences

CONSTANTS
  CPUs        \* the processors: records with
              \*   vendor, basic, extended    who made it, its highest leaves
              \*   cores    the set of [brand, model, stepping, bits], bits a set of
              \*            <<leaf, register, bit>>

VARIABLES
  cpu,        \* the processor
  core,       \* the core the thread runs on
  pc,         \* what is read next
  f,          \* bits of the f_... registers of InstructionSet
  info        \* the CPUInfo

vars == <<cpu, core, pc, f, info>>

Basic(n) == <<"basic", n>>
Ext(n)   == <<"ext", n>>      \* CPUID_FLAG + n

Vendors   == {"GenuineIntel", "AuthenticAMD", "Other"}
Bit       == ({"basic", "ext"} \X Nat) \X {"ebx", "ecx", "edx"} \X (0 .. 31)
Core      == [brand : STRING, model : 0 .. 15, stepping : 0 .. 15, bits : SUBSET Bit]

\* Has processor x this leaf?
Within(x, leaf) == leaf[2] <= IF leaf[1] = "basic" THEN x.basic ELSE x.extended

\* Every processor that runs this code has CPUID leaf 1, and no core has bits of
\* a leaf that the processor does not have.
IsCPU(x) ==
  /\ x.vendor \in Vendors /\ x.basic \in Nat \ {0} /\ x.extended \in Nat
  /\ x.cores \subseteq Core /\ x.cores # {}
  /\ \A k \in x.cores : \A bit \in k.bits : Within(x, bit[1])
ASSUME CPUAssumption == \A x \in CPUs : IsCPU(x)

(* What GetCPUExtensions asks of InstructionSet: the leaf and register, the *)
(* vendor who must have made the processor, and the bits.  An extension is *)
(* known by these; its name, and its place in the list, are left out.      *)
(* InstructionSet has one member more than is asked: CMOV (leaf 1, EDX bit  *)
(* 15) can be tested and is never listed.                                  *)
Tests ==
  { [leaf |-> Basic(1), reg |-> "ecx", only |-> "any",
     bits |-> {0, 1, 3, 9, 12, 13, 19, 20, 22, 23} \cup 25 .. 30],
    [leaf |-> Basic(1), reg |-> "edx", only |-> "any",
     bits |-> {5, 8, 11, 19} \cup 23 .. 26],
    [leaf |-> Basic(7), reg |-> "ebx", only |-> "any",
     bits |-> {0, 3, 5, 16, 18, 19} \cup 8 .. 10 \cup 26 .. 29],
    [leaf |-> Basic(7), reg |-> "ebx", only |-> "GenuineIntel", bits |-> {4, 11}],
    [leaf |-> Basic(7), reg |-> "ecx", only |-> "any", bits |-> {0}],
    [leaf |-> Ext(1), reg |-> "ecx", only |-> "any", bits |-> {0}],
    [leaf |-> Ext(1), reg |-> "ecx", only |-> "GenuineIntel", bits |-> {5}],
    [leaf |-> Ext(1), reg |-> "ecx", only |-> "AuthenticAMD", bits |-> {5, 6, 11, 21}],
    [leaf |-> Ext(1), reg |-> "edx", only |-> "GenuineIntel", bits |-> {11, 27}],
    [leaf |-> Ext(1), reg |-> "edx", only |-> "AuthenticAMD", bits |-> {22, 30, 31}] }
Extensions == UNION {{<<test.only, test.leaf, test.reg, b>> : b \in test.bits} :
                       test \in Tests}
X64 == <<Ext(1), "edx", 29>>          \* CPUID_X64_FLAG

Applies(test) == test.only \in {"any", cpu.vendor}

\* The extensions listed when the registers hold the bits r.
Listed(r) ==
  UNION {{<<test.only, test.leaf, test.reg, b>> :
            b \in {n \in test.bits : <<test.leaf, test.reg, n>> \in r}} :
          test \in {x \in Tests : Applies(x)}}

Nothing == [bitness |-> 0, brand |-> <<>>, model |-> 0, stepping |-> 0, extensions |-> {}]

Has(leaf) == Within(cpu, leaf)

\* In particular, no register holds anything of a leaf there is not.
TypeOK ==
  /\ IsCPU(cpu)
  /\ core \in cpu.cores
  /\ pc \in {"bitness", "brand", "model", "stepping", "leaf1", "leaf7", "ext1", "list", "done"}
  /\ \A x \in f : x \in Bit /\ Has(x[1])
  /\ info \in [bitness : {0, 32, 64}, brand : Seq(STRING), model : 0 .. 15,
               stepping : 0 .. 15, extensions : SUBSET Extensions]
  /\ Len(info.brand) <= 3

Init ==
  /\ cpu \in CPUs
  /\ core \in cpu.cores
  /\ pc = "bitness"
  /\ f = {}
  /\ info = Nothing

-----------------------------------------------------------------------------
\* The bits an instruction CPUID(leaf) returns on this core, taken to be those
\* of leaf.
CPUID(leaf) ==
  LET from == IF Has(leaf) THEN {leaf}
              ELSE IF cpu.vendor = "GenuineIntel" THEN {Basic(cpu.basic)} ELSE {}
  IN {<<leaf, bit[2], bit[3]>> : bit \in {x \in core.bits : x[1] \in from}}

\* The scheduler moves the thread.
Migrate ==
  /\ pc # "done"
  /\ core' \in cpu.cores
  /\ UNCHANGED <<cpu, pc, f, info>>

\* Mutation: the highest leaf is not asked for.
BitnessUnguarded ==
  /\ pc = "bitness"
  /\ pc' = "brand"
  /\ info' = [info EXCEPT !.bitness = IF X64 \in CPUID(Ext(1)) THEN 64 ELSE 32]
  /\ UNCHANGED <<cpu, core, f>>

\* GetBitness.
GetBitness ==
  /\ pc = "bitness"
  /\ pc' = "brand"
  /\ info' = [info EXCEPT !.bitness =
       IF Has(Ext(1)) /\ X64 \in CPUID(Ext(1)) THEN 64 ELSE 32]
  /\ UNCHANGED <<cpu, core, f>>

\* GetBrand: sixteen characters from each of three leaves, if there is the last
\* of them; other leaves hold something else.
BrandPiece(leaf) == IF Has(leaf) THEN core.brand ELSE "other"
GetBrand ==
  /\ pc = "brand"
  /\ LET read == IF Has(Ext(4)) THEN Append(info.brand, BrandPiece(Ext(2 + Len(info.brand))))
                               ELSE info.brand
     IN  /\ info' = [info EXCEPT !.brand = read]
         /\ pc' = IF Len(read) \in {0, 3} THEN "model" ELSE "brand"
  /\ UNCHANGED <<cpu, core, f>>

\* GetModel and GetStepping: GetCPUModelStepping twice, and half of each.
GetModel ==
  /\ pc = "model"
  /\ pc' = "stepping"
  /\ info' = [info EXCEPT !.model = core.model]
  /\ UNCHANGED <<cpu, core, f>>

GetStepping ==
  /\ pc = "stepping"
  /\ pc' = "leaf1"
  /\ info' = [info EXCEPT !.stepping = core.stepping]
  /\ UNCHANGED <<cpu, core, f>>

\* One of the three instructions of InstructionSet's constructor that read
\* features, each if the processor has the leaf.  (Mutations: if it has the one
\* before; if it has more than that.)
GuardedByLast(leaf) == Has(<<leaf[1], leaf[2] - 1>>)
GuardedByNext(leaf) == Has(<<leaf[1], leaf[2] + 1>>)
Guard(leaf) == Has(leaf)

ReadFeatures(leaf, place, next) ==
  /\ pc = place
  /\ pc' = next
  /\ f' = f \cup IF Guard(leaf) THEN CPUID(leaf) ELSE {}
  /\ UNCHANGED <<cpu, core, info>>

ReadLeaf1 == ReadFeatures(Basic(1), "leaf1", "leaf7")
ReadLeaf7 == ReadFeatures(Basic(7), "leaf7", "ext1")
ReadExt1  == ReadFeatures(Ext(1), "ext1", "list")

\* GetCPUExtensions.
GetCPUExtensions ==
  /\ pc = "list"
  /\ pc' = "done"
  /\ info' = [info EXCEPT !.extensions = Listed(f)]
  /\ UNCHANGED <<cpu, core, f>>

GetCPUInfo == \/ GetBitness \/ GetBrand \/ GetModel \/ GetStepping
              \/ ReadLeaf1 \/ ReadLeaf7 \/ ReadExt1 \/ GetCPUExtensions
Next == Migrate \/ GetCPUInfo

Spec == Init /\ [][Next]_vars

-----------------------------------------------------------------------------
Done == pc = "done"

\* On a machine whose cores are all alike, however the thread is moved, the
\* CPUInfo is that of a core: no leaf is taken for another one, and of the
\* extensions that GetCPUExtensions asks for none is missed and none invented.
UniformExact ==
  \A k \in cpu.cores :
    Done /\ cpu.cores = {k} =>
      info = [bitness |-> IF X64 \in k.bits THEN 64 ELSE 32,
              brand |-> IF Has(Ext(4)) THEN <<k.brand, k.brand, k.brand>> ELSE <<>>,
              model |-> k.model, stepping |-> k.stepping, extensions |-> Listed(k.bits)]

\* Where they differ the list may be that of no core, and the brand a mixture.  But
\* of the extensions that GetCPUExtensions asks for the list has those of all cores
\* and none that no core has, and every piece of the brand is some core's.
MixedBounded ==
  Done => /\ Listed({x \in UNION {k.bits : k \in cpu.cores} :
                       \A k \in cpu.cores : x \in k.bits}) \subseteq info.extensions
          /\ info.extensions \subseteq Listed(UNION {k.bits : k \in cpu.cores})
          /\ \A i \in DOMAIN info.brand : \E k \in cpu.cores : info.brand[i] = k.brand
=============================================================================
